----------------------------- MODULE JobEngine -----------------------------
(***************************************************************************)
(* The declared-job life cycle of P2poolV2Engine: the three Job            *)
(* Declaration handlers (DeclareMiningJob, SetCustomMiningJob,             *)
(* PushSolution) and the reorg invalidator, over the state they share.     *)
(*                                                                         *)
(* The JDS runs handlers of different downstreams concurrently on a        *)
(* multi-threaded runtime, on one engine behind &self.  A handler          *)
(* invocation is a member of Calls and runs at most once; one action is    *)
(* the stretch of a handler between two accesses to shared state (an       *)
(* operation on one DashMap, a snapshot read, the return of an await), so  *)
(* every interleaving of the real handlers is a behaviour.                 *)
(***************************************************************************)
EXTENDS Naturals

CONSTANTS
    Calls,        \* handler invocations
    RequestIds,   \* request_id values of DeclareMiningJob
    Tokens,       \* mining_job_token values
    Alphabet,     \* the <<request_id, token>> pairs that clients declare
    Works,        \* declared content: [version, coinbase, txs]
    PrevHashes,   \* Bitcoin tips (prev_hash with its nbits)
    TemplateIds,  \* template ids the Template Provider issues
    ParentOf,     \* the Bitcoin tip each template extends
    TxsOf,        \* the transactions of each template
    ShareTips,    \* share-chain tips
    Nonces,       \* what else identifies a solution (nonce, ntime)
    Synthetic,    \* a credit recorded under the synthetic hash only
    None          \* Rust's Option::None, and the all-zeros default tip

ASSUME AlphabetAssumption == Alphabet \subseteq RequestIds \X Tokens

ASSUME TemplateAssumption == /\ TemplateIds \subseteq Nat
                             /\ ParentOf \in [TemplateIds -> PrevHashes]
                             /\ TxsOf \in [TemplateIds -> {w.txs : w \in Works}]

Versions == {w.version : w \in Works}

\* struct DeclaredJob.  decl names the call that built it; validated is
\* always TRUE and txid_list always Some in a cached job.
Job == [decl: Calls, token: Tokens, work: Works, prev: PrevHashes \cup {None},
        template: TemplateIds \cup {None}, share_tip: ShareTips \cup {None}]

\* The fields of a PushSolution the engine identifies it by.
Solution == [prev: PrevHashes, version: Versions, nonce: Nonces]

\* The block hash of a reconstructed block: header from the solution, coinbase
\* and transactions from the job it was matched with.
Block == [decl: Calls, sol: Solution]

ASSUME NoneAssumption ==
    /\ None \notin Job /\ None \notin Tokens /\ None \notin RequestIds
    /\ None \notin Block /\ None # Synthetic /\ None \notin Solution
    /\ Synthetic \notin Block
    /\ None \notin TemplateIds /\ None \notin PrevHashes

VARIABLES
    declared_jobs,     \* request_id -> DeclaredJob
    allocated_tokens,  \* token -> request_id
    recent_solutions,  \* synthetic share hash -> block hash
    submitted,         \* blocks handed to bitcoind.submit_block
    last_prev_hash,    \* TdpHandle snapshots, written by the tee task
    last_template,
    chain_tip,         \* the share chain's tip
    chain_moved,       \* the share chain has replaced a tip at least once
    wired,             \* which of tdp / handles the engine was built with
    pc, op, rid, token, sol, held, result   \* one entry per call

shared == <<declared_jobs, allocated_tokens, recent_solutions, submitted>>
snapshots == <<last_prev_hash, last_template>>
chain == <<chain_tip, chain_moved>>
locals == <<pc, op, rid, token, sol, held, result>>
vars == <<shared, snapshots, chain, wired, locals>>

\* Program counters: the next step of each handler.
DeclareSteps == {"d_template", "d_share", "d_insert", "d_bind"}
ScmjSteps == {"s_drop", "s_take", "s_bodies", "s_propose"}
PushSteps == {"p_get", "p_bodies", "p_submit"}

\* Terminal outcomes.  Each is the label of the counter the handler bumps.
Results == {"accepted", "rejected", "missing_txns",
            "scmj_accepted", "scmj_skipped", "bad_token", "stale_tip",
            "bad_version", "bad_coinbase", "bad_path", "bad_candidate",
            "proposal_rejected", "rpc_error",
            "no_handles", "no_matching_job", "cache_race", "no_template_id",
            "tdp_fetch_failed", "reconstruct_failed", "block_done"}

TypeOK ==
    /\ declared_jobs \in [RequestIds -> Job \cup {None}]
    /\ allocated_tokens \in [Tokens -> RequestIds \cup {None}]
    /\ recent_solutions \in [Solution -> Block \cup {Synthetic, None}]
    /\ submitted \subseteq Block
    /\ last_prev_hash \in PrevHashes \cup {None}
    /\ last_template \in TemplateIds \cup {None}
    /\ chain_tip \in ShareTips \cup {None}
    /\ chain_moved \in BOOLEAN
    /\ wired \subseteq {"tdp", "handles"}
    /\ pc \in [Calls -> {"idle", "done"} \cup DeclareSteps \cup ScmjSteps \cup PushSteps]
    /\ op \in [Calls -> {None, "declare", "scmj", "push"}]
    /\ rid \in [Calls -> RequestIds \cup {None}]
    /\ token \in [Calls -> Tokens \cup {None}]
    /\ sol \in [Calls -> Solution \cup {None}]
    /\ held \in [Calls -> Job \cup {None}]
    /\ result \in [Calls -> Results \cup {None}]

Init ==
    /\ declared_jobs = [r \in RequestIds |-> None]
    /\ allocated_tokens = [t \in Tokens |-> None]
    /\ recent_solutions = [s \in Solution |-> None]
    /\ submitted = {}
    /\ last_prev_hash = None /\ last_template = None
    /\ chain_tip \in ShareTips \cup {None} /\ chain_moved = FALSE
    /\ wired \in SUBSET {"tdp", "handles"}
    /\ pc = [c \in Calls |-> "idle"]
    /\ op = [c \in Calls |-> None]
    /\ rid = [c \in Calls |-> None]
    /\ token = [c \in Calls |-> None]
    /\ sol = [c \in Calls |-> None]
    /\ held = [c \in Calls |-> None]
    /\ result = [c \in Calls |-> None]

\* DeclaredJobCache::insert and ::remove, and TdpHandle's template snapshot.
\* The *Mutant definitions of this module are plausible bugs: each run's
\* properties are shown to fail when one stands in for the definition below it.
Insert(jobs, r, job) == [jobs EXCEPT ![r] = job]

RemoveMutant(jobs, r) == jobs
Remove(jobs, r) == [jobs EXCEPT ![r] = None]

CurrentTemplate == last_template

Goto(c, step) == pc' = [pc EXCEPT ![c] = step]

Return(c, outcome) ==
    /\ pc' = [pc EXCEPT ![c] = "done"]
    /\ result' = [result EXCEPT ![c] = outcome]

\* The locals of a call end with it.  A SetCustomMiningJob keeps the job it
\* obtained, for the properties to refer to.
Forget(c) ==
    /\ rid' = [rid EXCEPT ![c] = None]
    /\ held' = [held EXCEPT ![c] = None]

-----------------------------------------------------------------------------
(***************************************************************************)
(* handle_declare_mining_job                                               *)
(***************************************************************************)

\* The early returns: a token that is not 8 bytes, a coinbase that does not
\* parse or has not one input, no wtxids and no transactions (coinbase-only),
\* or wtxids without transactions, for which all of them are requested.
DeclareRefuse(c) ==
    /\ pc[c] = "idle"
    /\ op' = [op EXCEPT ![c] = "declare"]
    /\ \E outcome \in {"rejected", "missing_txns"} : Return(c, outcome)
    /\ UNCHANGED <<shared, snapshots, chain, wired, rid, token, sol, held>>

\* A declaration with its transactions: read the Bitcoin tip snapshot.
DeclareStart(c) ==
    /\ pc[c] = "idle"
    /\ \E p \in Alphabet, w \in Works :
          /\ rid' = [rid EXCEPT ![c] = p[1]]
          /\ token' = [token EXCEPT ![c] = p[2]]
          /\ held' = [held EXCEPT ![c] =
                [decl |-> c, token |-> p[2], work |-> w,
                 prev |-> IF "tdp" \in wired THEN last_prev_hash ELSE None,
                 template |-> None, share_tip |-> None]]
    /\ op' = [op EXCEPT ![c] = "declare"]
    /\ Goto(c, "d_template")
    /\ UNCHANGED <<shared, snapshots, chain, wired, sol, result>>

\* The template id is a second, separate snapshot read.
DeclareReadTemplate(c) ==
    /\ pc[c] = "d_template"
    /\ \E t \in {IF "tdp" \in wired THEN CurrentTemplate ELSE None} :
          held' = [held EXCEPT ![c] =
                [decl |-> c, token |-> @.token, work |-> @.work, prev |-> @.prev,
                 template |-> t, share_tip |-> None]]
    /\ Goto(c, "d_share")
    /\ UNCHANGED <<shared, snapshots, chain, wired, op, rid, token, sol, result>>

\* A bug: the token is bound before the job it stands for is in the cache.
DeclareReadShareTipMutant(c) ==
    /\ pc[c] = "d_share"
    /\ allocated_tokens' = [allocated_tokens EXCEPT ![token[c]] = rid[c]]
    /\ Goto(c, "d_insert")
    /\ UNCHANGED <<declared_jobs, recent_solutions, submitted, snapshots, chain, wired,
                   op, rid, token, sol, held, result>>

\* get_chain_tip().await returns; an error is captured as None.
DeclareReadShareTip(c) ==
    /\ pc[c] = "d_share"
    /\ \E tip \in (IF "handles" \in wired THEN {chain_tip, None} ELSE {None}) :
          held' = [held EXCEPT ![c] =
                [decl |-> c, token |-> @.token, work |-> @.work, prev |-> @.prev,
                 template |-> @.template, share_tip |-> tip]]
    /\ Goto(c, "d_insert")
    /\ UNCHANGED <<shared, snapshots, chain, wired, op, rid, token, sol, result>>

DeclareInsert(c) ==
    /\ pc[c] = "d_insert"
    /\ declared_jobs' = Insert(declared_jobs, rid[c], held[c])
    /\ Goto(c, "d_bind")
    /\ UNCHANGED <<allocated_tokens, recent_solutions, submitted, snapshots, chain,
                   wired, op, rid, token, sol, held, result>>

DeclareBind(c) ==
    /\ pc[c] = "d_bind"
    /\ allocated_tokens' = [allocated_tokens EXCEPT ![token[c]] = rid[c]]
    /\ Return(c, "accepted")
    /\ Forget(c)
    /\ UNCHANGED <<declared_jobs, recent_solutions, submitted, snapshots, chain,
                   wired, op, token, sol>>

-----------------------------------------------------------------------------
(***************************************************************************)
(* handle_set_custom_mining_job                                            *)
(***************************************************************************)

\* Look the token up; an unknown one is rejected.
ScmjLookup(c) ==
    /\ pc[c] = "idle"
    /\ op' = [op EXCEPT ![c] = "scmj"]
    /\ \E t \in Tokens :
          /\ token' = [token EXCEPT ![c] = t]
          /\ rid' = [rid EXCEPT ![c] = allocated_tokens[t]]
          /\ IF allocated_tokens[t] = None
             THEN Return(c, "bad_token")
             ELSE Goto(c, "s_drop") /\ UNCHANGED result
    /\ UNCHANGED <<shared, snapshots, chain, wired, sol, held>>

\* The token is consumed whatever the outcome.
ScmjDropToken(c) ==
    /\ pc[c] = "s_drop"
    /\ allocated_tokens' = [allocated_tokens EXCEPT ![token[c]] = None]
    /\ Goto(c, "s_take")
    /\ UNCHANGED <<declared_jobs, recent_solutions, submitted, snapshots, chain,
                   wired, op, rid, token, sol, held, result>>

\* The cross-checks of a SetCustomMiningJob, in the code's order.  prev and
\* nbits are skipped when no tip was captured.  A merkle path stands for the
\* transactions it was computed from, repeats at the end aside (BlockBuild's
\* PathIdentifiesTransactions).
Mismatch(job, prev, work) ==
    IF job.prev # None /\ prev # job.prev THEN "stale_tip"
    ELSE IF work.version # job.work.version THEN "bad_version"
    ELSE IF work.coinbase # job.work.coinbase THEN "bad_coinbase"
    ELSE IF work.txs # job.work.txs THEN "bad_path"
    ELSE "none"

\* Remove the job (one-shot) and run the checks.  Without a bridge, handles or
\* template id the job is accepted on the checks alone.
ScmjTake(c) ==
    LET job == declared_jobs[rid[c]] IN
    /\ pc[c] = "s_take"
    /\ declared_jobs' = Remove(declared_jobs, rid[c])
    /\ held' = [held EXCEPT ![c] = job]
    /\ \E prev \in PrevHashes, work \in Works :
          IF job = None THEN Return(c, "bad_token")
          ELSE IF Mismatch(job, prev, work) # "none"
               THEN Return(c, Mismatch(job, prev, work))
          ELSE IF wired = {"tdp", "handles"} /\ job.template # None
               THEN Goto(c, "s_bodies") /\ UNCHANGED result
          ELSE Return(c, "scmj_skipped")
    /\ UNCHANGED <<allocated_tokens, recent_solutions, submitted, snapshots, chain,
                   wired, op, rid, token, sol>>

\* request_tx_bodies returns.  A failed fetch falls back to acceptance; bodies
\* that are not the declared transactions make build_candidate_block fail.
ScmjBodies(c) ==
    /\ pc[c] = "s_bodies"
    /\ \/ Return(c, "scmj_skipped")
       \/ /\ TxsOf[held[c].template] # held[c].work.txs
          /\ Return(c, "bad_candidate")
       \/ /\ TxsOf[held[c].template] = held[c].work.txs
          /\ Goto(c, "s_propose") /\ UNCHANGED result
    /\ UNCHANGED <<shared, snapshots, chain, wired, op, rid, token, sol, held>>

\* A bug: the token is cleaned up once more when the proposal comes back.
ScmjProposeMutant(c) ==
    /\ pc[c] = "s_propose"
    /\ Return(c, "scmj_accepted")
    /\ allocated_tokens' = [allocated_tokens EXCEPT ![token[c]] = None]
    /\ UNCHANGED <<declared_jobs, recent_solutions, submitted, snapshots, chain,
                   wired, op, rid, token, sol, held>>

\* validate_block_proposal returns: accepted or duplicate, rejected, or error.
ScmjPropose(c) ==
    /\ pc[c] = "s_propose"
    /\ \E outcome \in {"scmj_accepted", "proposal_rejected", "rpc_error"} :
          Return(c, outcome)
    /\ UNCHANGED <<shared, snapshots, chain, wired, op, rid, token, sol, held>>

-----------------------------------------------------------------------------
(***************************************************************************)
(* handle_push_solution                                                    *)
(***************************************************************************)

\* DeclaredJobCache::find_by_solution: any one of the matching entries.
Matches(s) == {r \in RequestIds : /\ declared_jobs[r] # None
                                  /\ declared_jobs[r].prev = s.prev
                                  /\ declared_jobs[r].work.version = s.version}

Record(s, b) == recent_solutions' = [recent_solutions EXCEPT ![s] = b]

PushFind(c) ==
    /\ pc[c] = "idle"
    /\ op' = [op EXCEPT ![c] = "push"]
    /\ \E s \in Solution :
          /\ sol' = [sol EXCEPT ![c] = s]
          /\ IF "tdp" \notin wired
             THEN Record(s, Synthetic) /\ Return(c, "no_handles") /\ UNCHANGED rid
             ELSE /\ UNCHANGED recent_solutions
                  /\ \/ /\ Matches(s) = {}
                        /\ Return(c, "no_matching_job") /\ UNCHANGED rid
                     \/ \E r \in Matches(s) :
                           /\ rid' = [rid EXCEPT ![c] = r]
                           /\ Goto(c, "p_get") /\ UNCHANGED result
    /\ UNCHANGED <<declared_jobs, allocated_tokens, submitted, snapshots, chain,
                   wired, token, held>>

\* A second lookup clones the entry, which may have vanished meanwhile.
PushGet(c) ==
    LET job == declared_jobs[rid[c]] IN
    /\ pc[c] = "p_get"
    /\ held' = [held EXCEPT ![c] = job]
    /\ IF job = None
       THEN Return(c, "cache_race") /\ UNCHANGED recent_solutions
       ELSE IF job.template = None
       THEN Record(sol[c], Synthetic) /\ Return(c, "no_template_id")
       ELSE Goto(c, "p_bodies") /\ UNCHANGED <<result, recent_solutions>>
    /\ UNCHANGED <<declared_jobs, allocated_tokens, submitted, snapshots, chain,
                   wired, op, rid, token, sol>>

BlockOf(c) == [decl |-> held[c].decl, sol |-> sol[c]]

\* A bug: the credit is recorded before the reconstruction is known to succeed.
PushBodiesMutant(c) ==
    /\ pc[c] = "p_bodies"
    /\ Record(sol[c], BlockOf(c))
    /\ \/ Return(c, "reconstruct_failed")
       \/ Goto(c, "p_submit") /\ UNCHANGED result
    /\ UNCHANGED <<declared_jobs, allocated_tokens, submitted, snapshots, chain,
                   wired, op, rid, token, sol, held>>

\* request_tx_bodies returns.  With the declared transactions in hand the block
\* is rebuilt and the block-finder credit recorded before submission;
\* extranonces that do not fit also fail the reconstruction.
PushBodies(c) ==
    /\ pc[c] = "p_bodies"
    /\ \/ Return(c, "tdp_fetch_failed") /\ UNCHANGED recent_solutions
       \/ Return(c, "reconstruct_failed") /\ UNCHANGED recent_solutions
       \/ /\ TxsOf[held[c].template] = held[c].work.txs
          /\ Record(sol[c], BlockOf(c))
          /\ Goto(c, "p_submit") /\ UNCHANGED result
    /\ UNCHANGED <<declared_jobs, allocated_tokens, submitted, snapshots, chain,
                   wired, op, rid, token, sol, held>>

\* Hand the block to a spawned submit_block task when bitcoind is wired.
PushSubmit(c) ==
    /\ pc[c] = "p_submit"
    /\ submitted' = IF "handles" \in wired THEN submitted \cup {BlockOf(c)} ELSE submitted
    /\ Return(c, "block_done")
    /\ Forget(c)
    /\ UNCHANGED <<declared_jobs, allocated_tokens, recent_solutions, snapshots, chain,
                   wired, op, token, sol>>

-----------------------------------------------------------------------------
(***************************************************************************)
(* The invalidator, and the environment: share chain, Template Provider.   *)
(***************************************************************************)

\* reorg_invalidator_loop: an event, or a lag, flushes the whole cache.  The
\* watcher polls and queues, so a flush may come at any time after the chain
\* has moved, once per change or more (ReorgWatcher models how).
ReorgFlush ==
    /\ chain_moved
    /\ declared_jobs' = [r \in RequestIds |-> None]
    /\ UNCHANGED <<allocated_tokens, recent_solutions, submitted, snapshots,
                   chain, wired, locals>>

\* The sweeper drops credits older than the TTL.  A credit whose call has yet to
\* submit was recorded, or refreshed, in that call's last few microseconds.
SweepSolutions ==
    \E S \in SUBSET {s \in Solution : recent_solutions[s] # None} :
        /\ S # {}
        /\ \A c \in Calls : pc[c] = "p_submit" => sol[c] \notin S
        /\ recent_solutions' = [s \in Solution |-> IF s \in S THEN None ELSE recent_solutions[s]]
        /\ UNCHANGED <<declared_jobs, allocated_tokens, submitted, snapshots, chain,
                       wired, locals>>

\* The share chain moves; the first tip replaces none.
ChainTipChange ==
    /\ \E t \in ShareTips \ {chain_tip} : chain_tip' = t
    /\ chain_moved' = (chain_moved \/ chain_tip # None)
    /\ UNCHANGED <<shared, snapshots, wired, locals>>

\* The tee records a NewTemplate: for the current tip, or a future one.
NewTemplate ==
    /\ "tdp" \in wired
    /\ \E t \in TemplateIds : /\ last_template # None => t > last_template
                              /\ last_template' = t
    /\ UNCHANGED <<shared, last_prev_hash, chain, wired, locals>>

\* The tee records a SetNewPrevHash, which activates a template already sent.
SetNewPrevHash ==
    /\ last_template # None
    /\ ParentOf[last_template] # last_prev_hash
    /\ last_prev_hash' = ParentOf[last_template]
    /\ UNCHANGED <<shared, last_template, chain, wired, locals>>

Declare(c) == \/ DeclareRefuse(c) \/ DeclareStart(c) \/ DeclareReadTemplate(c)
              \/ DeclareReadShareTip(c) \/ DeclareInsert(c) \/ DeclareBind(c)
Scmj(c) == \/ ScmjLookup(c) \/ ScmjDropToken(c) \/ ScmjTake(c)
           \/ ScmjBodies(c) \/ ScmjPropose(c)
Push(c) == PushFind(c) \/ PushGet(c) \/ PushBodies(c) \/ PushSubmit(c)

Next == \/ \E c \in Calls : Declare(c) \/ Scmj(c) \/ Push(c)
        \/ ReorgFlush \/ SweepSolutions \/ ChainTipChange \/ NewTemplate \/ SetNewPrevHash

Spec == Init /\ [][Next]_vars

-----------------------------------------------------------------------------
(***************************************************************************)
(* Properties                                                              *)
(***************************************************************************)

Cached(r) == declared_jobs[r] # None
Took(c) == op[c] = "scmj" /\ held[c] # None

\* A declaration is consumed at most once: no two SetCustomMiningJob calls,
\* however they interleave after looking up the same token, obtain the same
\* declared job, and a job that one of them obtained is not in the cache.
JobTakenOnce ==
    \A c \in Calls : Took(c) =>
        /\ \A r \in RequestIds : Cached(r) => declared_jobs[r].decl # held[c].decl
        /\ \A e \in Calls : Took(e) /\ held[e].decl = held[c].decl => e = c

\* Every cached job can still be claimed: its token resolves to it, or its
\* declaration is about to bind the token, or a SetCustomMiningJob that has
\* already consumed the token is about to take it.  The orders "insert the job,
\* then bind the token" and "drop the token, then take the job" are what make
\* this true, whatever the other clients do under the same request id.
CachedJobIsReachable ==
    \A r \in RequestIds : Cached(r) =>
        \/ allocated_tokens[declared_jobs[r].token] = r
        \/ \E c \in Calls : pc[c] = "d_bind" /\ rid[c] = r /\ token[c] = declared_jobs[r].token
        \/ \E c \in Calls : pc[c] = "s_take" /\ rid[c] = r

\* A SetCustomMiningJob that resolved its token and then found no job lost it to
\* a reorg, or to another SetCustomMiningJob under the same request id, which did
\* obtain one: the same token presented twice, or a request id two clients share.
\* Inserting the job before binding the token is what makes this true.
LostClaim ==
    \A c \in Calls :
        (op[c] = "scmj" /\ pc[c] = "done" /\ rid[c] # None /\ held[c] = None) =>
            chain_moved \/ \E e \in Calls \ {c} : Took(e) /\ rid[e] = rid[c]

\* Block-finder credit and submission agree: a call about to submit its block
\* has a credit on record for the solution, so that a fast share can claim it
\* while submit_block is under way, and with bitcoind wired a credit that names
\* a real block is for a block submitted or about to be.
CreditMatchesSubmission ==
    /\ \A c \in Calls : pc[c] = "p_submit" => recent_solutions[sol[c]] # None
    /\ \A s \in Solution :
          ("handles" \in wired /\ recent_solutions[s] \in Block) =>
              \/ recent_solutions[s] \in submitted
              \/ \E c \in Calls : pc[c] = "p_submit" /\ BlockOf(c) = recent_solutions[s]

\* What the docs say of handle_push_solution: the solution to a custom job the
\* engine has accepted finds the job it was mined on.
AcceptedJobSolvable ==
    [][\A p, c \in Calls :
          ( /\ result[p] # "no_matching_job" /\ result'[p] = "no_matching_job"
            /\ result[c] \in {"scmj_accepted", "scmj_skipped"} )
          => ~ ( /\ held[c].prev = sol'[p].prev
                 /\ held[c].work.version = sol'[p].version )]_vars

\* A token is declared with one request id.  Request ids are chosen by the
\* clients, and different tokens may well be declared with the same one.
OneRequestPerToken == \A p, q \in Alphabet : p[2] = q[2] => p = q
=============================================================================
