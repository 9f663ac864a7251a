----------------------------- MODULE BlockBuild -----------------------------
(***************************************************************************)
(* Coinbase, merkle path and block reconstruction (coinbase.rs, block.rs)  *)
(* as pure operators, and the way a declared job takes through them: it is *)
(* declared, proposed to bitcoind, mined and pushed.                       *)
(*                                                                         *)
(* A hash is a term: a leaf <<txid>> or a node <<left, right>>, so equal   *)
(* hashes mean equal contents.  The bytes of a coinbase are kept as what   *)
(* the code reads of them.  A transaction is named by its txid; witnesses  *)
(* are told apart in the coinbase only.  One Bitcoin tip: jobs and         *)
(* solutions that tell tips apart are JobEngine's subject.                 *)
(***************************************************************************)
EXTENDS Naturals, Sequences, SequencesExt

CONSTANTS
    RequestIds,    \* keys of the declared-jobs cache
    Jobs,          \* what clients declare: [prefix, suffix, txs, version]
    Extranonces,   \* [len, value]
    Txids,
    TxLists,       \* lists of transactions: bodies a provider sends, and what merkle
                   \* paths are computed over
    Pmts,          \* transaction lists of ProvideMissingTransactionsSuccess, which may
                   \* hold the body "undecodable"
    Versions,
    Misread(_),    \* the txid of a coinbase that is not laid out as documented, or None
    None

\* coinbase_tx_prefix: how long it is, the scriptSig size that the VarInt after the
\* fixed part announces, the scriptSig bytes after that (None: there are none), and
\* whether the fixed part is the one that coinbase.rs documents, and never checks.
CoinbasePrefixes(scripts) == [len: Nat, script_size: Nat, script: scripts, documented: BOOLEAN]
\* coinbase_tx_suffix: sequence, outputs and locktime, "garbled" if they do not
\* complete a transaction; and what the txid leaves out: witness, bytes after the end.
CoinbaseSuffixes(outputs, tails) == [outputs: outputs, tail: tails]

Scripts == {job.prefix.script : job \in Jobs}
Outputs == {job.suffix.outputs : job \in Jobs}
Tails == {job.suffix.tail : job \in Jobs}

\* A list may name a transaction more than once: nothing in the engine checks it.
ASSUME JobAssumption ==
    Jobs \subseteq [prefix: CoinbasePrefixes(Scripts), suffix: CoinbaseSuffixes(Outputs, Tails),
                    txs: Seq(Txids), version: Versions]

\* The errors that two of the operators below tell from None.
Errors == {"TxBodyCountMismatch", "TxBodyTxidMismatch", "INVALID_VERSION", "INVALID_COINBASE_TX",
           "INVALID_COINBASE_PREFIX", "INVALID_COINBASE_TX_OUTPUTS", "INVALID_MERKLE_PATH"}
ASSUME NoneAssumption == None \notin Errors

Ok(value) == [ok |-> TRUE, value |-> value]
Err(error) == [ok |-> FALSE, error |-> error]

-----------------------------------------------------------------------------
(***************************************************************************)
(* coinbase.rs.  (The *Mutant definitions are plausible bugs that some     *)
(* property must catch.)                                                   *)
(***************************************************************************)

COINBASE_PREFIX_LEN == 43
\* One, three, five or nine bytes; the last from 2^32 on.
VarIntSize(n) ==
    IF n < 253 THEN 1 ELSE IF n < 65536 THEN 3 ELSE IF n \div 65536 < 65536 THEN 5 ELSE 9
ScriptSigOffset(prefix) == COINBASE_PREFIX_LEN + VarIntSize(prefix.script_size)

\* What both reconstructions compute first: the size of the hole that the
\* scriptSig in the prefix leaves.  A VarInt cut short fails to decode, so the
\* second check of the prefix's length never fires.
ExtranonceSize(prefix) ==
    IF prefix.len < COINBASE_PREFIX_LEN THEN Err("PrefixTooShort")
    ELSE IF prefix.len < ScriptSigOffset(prefix) THEN Err("BadScriptSigVarInt")
    ELSE IF prefix.len - ScriptSigOffset(prefix) > prefix.script_size THEN Err("ScriptSigOverflow")
    ELSE Ok(prefix.script_size - (prefix.len - ScriptSigOffset(prefix)))

\* The three parts, put together and decoded; bytes after the end are ignored.  In
\* the documented layout the extranonce is inside the scriptSig and the decoder does
\* not look at it.  In any other it may be read as anything.
Decode(prefix, extranonce, suffix) ==
    LET coinbase == [prefix |-> prefix, extranonce |-> extranonce, suffix |-> suffix]
        garbled == IF prefix.documented THEN suffix.outputs = "garbled"
                   ELSE Misread(coinbase) = None
    IN  IF garbled THEN Err("Decode") ELSE Ok(coinbase)

\* compute_txid leaves the witness out.
ComputeTxid(coinbase) ==
    IF coinbase.prefix.documented
    THEN <<coinbase.prefix, coinbase.extranonce, coinbase.suffix.outputs>>
    ELSE Misread(coinbase)

\* A bug: a scriptSig that overflows its announced size leaves an empty hole.
ReconstructCoinbaseMutant(prefix, suffix) ==
    LET size == ExtranonceSize(prefix)
    IN  IF size.ok THEN Decode(prefix, [len |-> size.value, value |-> 0], suffix)
        ELSE IF size.error = "ScriptSigOverflow"
        THEN Decode(prefix, [len |-> 0, value |-> 0], suffix) ELSE size

ReconstructCoinbase(prefix, suffix) ==
    LET size == ExtranonceSize(prefix)
    IN  IF size.ok THEN Decode(prefix, [len |-> size.value, value |-> 0], suffix) ELSE size

ReconstructWithExtranonce(prefix, extranonce, suffix) ==
    LET size == ExtranonceSize(prefix)
    IN  IF ~size.ok THEN size
        ELSE IF extranonce.len # size.value THEN Err("ExtranonceSizeMismatch")
        ELSE Decode(prefix, extranonce, suffix)

\* [coinbase_txid, ...txid_list] as the lowest level of the tree.
Leaves(coinbase_txid, txs) == <<<<coinbase_txid>>>> \o [i \in 1..Len(txs) |-> <<txs[i]>>]

\* Adjacent hashes in pairs, the last of an odd number with itself.
LevelAbove(hashes) ==
    [i \in 1..(Len(hashes) + 1) \div 2 |->
        <<hashes[2 * i - 1], hashes[IF 2 * i > Len(hashes) THEN Len(hashes) ELSE 2 * i]>>]

\* The hashes of the loop after n turns, and the turn at which one is left.
Levels(leaves) ==
    LET level[n \in Nat] == IF n = 0 THEN leaves ELSE LevelAbove(level[n - 1])
    IN  level
Height(leaves) == Min({n \in 0..Len(leaves) : Len(Levels(leaves)[n]) = 1})

\* Each turn pushes the second hash of its level.
Branch(leaves) == [n \in 1..Height(leaves) |-> Levels(leaves)[n - 1][2]]

\* A bug: the loop ends at two hashes instead of one.
MerklePathShortMutant(coinbase_txid, txs) == Front(Branch(Leaves(coinbase_txid, txs)))

\* merkle_path: the siblings of the coinbase from leaf to root.
MerklePath(coinbase_txid, txs) == Branch(Leaves(coinbase_txid, txs))

-----------------------------------------------------------------------------
(***************************************************************************)
(* block.rs                                                                *)
(***************************************************************************)

\* The one hash that is left.
Root(leaves) == Levels(leaves)[Height(leaves)][1]

ComputeMerkleRoot(coinbase_txid, txs) == Root(Leaves(coinbase_txid, txs))

\* A bug: only the number of the bodies is compared.
BodiesErrorMutant(job, bodies) ==
    IF Len(bodies) # Len(job.txs) THEN "TxBodyCountMismatch" ELSE None

\* The bodies must be those of the declared list, in order.
BodiesError(job, bodies) ==
    IF Len(bodies) # Len(job.txs) THEN "TxBodyCountMismatch"
    ELSE IF bodies # job.txs THEN "TxBodyTxidMismatch" ELSE None

\* The header of a block with this coinbase and the transactions of a job.
HeaderOf(version, coinbase, job, time, nonce) ==
    [version |-> version, root |-> ComputeMerkleRoot(ComputeTxid(coinbase), job.txs),
     time |-> time, nonce |-> nonce]

\* A bug: the declared coinbase stands for the solved one.
ReconstructHeaderMutant(job, sol) ==
    LET coinbase == ReconstructCoinbase(job.prefix, job.suffix)
    IN  IF ~coinbase.ok THEN coinbase
        ELSE Ok(HeaderOf(sol.version, coinbase.value, job, sol.time, sol.nonce))

ReconstructHeader(job, sol) ==
    LET coinbase == ReconstructWithExtranonce(job.prefix, sol.extranonce, job.suffix)
    IN  IF ~coinbase.ok THEN coinbase
        ELSE Ok(HeaderOf(sol.version, coinbase.value, job, sol.time, sol.nonce))

\* A bug: the header is that of the declared coinbase.
ReconstructBlockMutant(job, sol, bodies) ==
    LET coinbase == ReconstructWithExtranonce(job.prefix, sol.extranonce, job.suffix)
    IN  IF BodiesError(job, bodies) # None THEN Err(BodiesError(job, bodies))
        ELSE IF ~coinbase.ok THEN coinbase
        ELSE Ok([header |-> ReconstructHeaderMutant(job, sol).value,
                 txdata |-> <<coinbase.value>> \o bodies])

ReconstructBlock(job, sol, bodies) ==
    LET coinbase == ReconstructWithExtranonce(job.prefix, sol.extranonce, job.suffix)
    IN  IF BodiesError(job, bodies) # None THEN Err(BodiesError(job, bodies))
        ELSE IF ~coinbase.ok THEN coinbase
        ELSE Ok([header |-> HeaderOf(sol.version, coinbase.value, job, sol.time, sol.nonce),
                 txdata |-> <<coinbase.value>> \o bodies])

\* The proposal: extranonce zero, the custom job's min_ntime, nonce zero.
BuildCandidateBlock(job, bodies) ==
    LET coinbase == ReconstructCoinbase(job.prefix, job.suffix)
    IN  IF BodiesError(job, bodies) # None THEN Err(BodiesError(job, bodies))
        ELSE IF ~coinbase.ok THEN coinbase
        ELSE Ok([header |-> HeaderOf(job.version, coinbase.value, job, "min_ntime", 0),
                 txdata |-> <<coinbase.value>> \o bodies])

-----------------------------------------------------------------------------
(***************************************************************************)
(* A job's way through them                                                *)
(***************************************************************************)

VARIABLES
    used,           \* request ids declared so far; each is declared once
    declared_jobs,  \* request id -> job
    proposed,       \* a SetCustomMiningJob: its job, what was proposed, its merkle path
    solution,       \* a PushSolution on its way to the engine
    mined,          \* the job it was mined for, the coinbase and the root that were hashed
    found,          \* the job find_by_solution has picked for it
    solved          \* what reconstruct_block made of the two

vars == <<used, declared_jobs, proposed, solution, mined, found, solved>>

Init ==
    /\ used = {} /\ declared_jobs = [r \in RequestIds |-> None]
    /\ proposed = None /\ solution = None /\ mined = None /\ found = None /\ solved = None

\* The bodies of the retry, without those that do not decode.
MissingTxs(pmts) == SelectSeq(pmts, LAMBDA tx : tx # "undecodable")

\* handle_declare_mining_job caches a job only if its coinbase can be rebuilt and
\* the message is a retry with the missing transactions: the first pass returns
\* an error for an empty wtxid_list, MissingTransactions for any other.
Declare(r, job, pmts) ==
    /\ r \notin used /\ used' = used \cup {r}
    /\ ReconstructCoinbase(job.prefix, job.suffix).ok
    /\ job.txs = MissingTxs(pmts)
    /\ declared_jobs' = [declared_jobs EXCEPT ![r] = job]
    /\ UNCHANGED <<proposed, solution, mined, found, solved>>

\* A SetCustomMiningJob, as far as it is compared with the declared job.  Its
\* coinbase_prefix may be empty (None).  Its outputs stand for the transaction version,
\* sequence and locktime too, which are compared for equality in the same way.  Its
\* merkle path was computed over some list of transactions.
CustomJobs == [version: Versions, coinbase_prefix: Scripts \cup {None}, outputs: Outputs,
               merkle_path: {MerklePath("coinbase", txs) : txs \in TxLists}]

\* The checks of the coinbase: its scriptSig need only start with coinbase_prefix.
CoinbaseError(job, custom) ==
    IF ~ReconstructCoinbase(job.prefix, job.suffix).ok THEN "INVALID_COINBASE_TX"
    ELSE IF custom.coinbase_prefix \notin {None, job.prefix.script} THEN "INVALID_COINBASE_PREFIX"
    ELSE IF custom.outputs # job.suffix.outputs THEN "INVALID_COINBASE_TX_OUTPUTS"
    ELSE None

\* A bug: the merkle path is not compared.
CustomJobErrorMutant(job, custom) ==
    IF custom.version # job.version THEN "INVALID_VERSION" ELSE CoinbaseError(job, custom)

\* The checks of handle_set_custom_mining_job from the version on.
CustomJobError(job, custom) ==
    LET coinbase == ReconstructCoinbase(job.prefix, job.suffix)
    IN  IF custom.version # job.version THEN "INVALID_VERSION"
        ELSE IF CoinbaseError(job, custom) # None THEN CoinbaseError(job, custom)
        ELSE IF custom.merkle_path # MerklePath(ComputeTxid(coinbase.value), job.txs)
        THEN "INVALID_MERKLE_PATH" ELSE None

\* handle_set_custom_mining_job takes the job out of the cache, checks it, and
\* proposes it to bitcoind.
Propose(r, custom, bodies) ==
    /\ proposed = None /\ declared_jobs[r] # None
    /\ LET job == declared_jobs[r]
           error == CustomJobError(job, custom)
           result == IF error # None THEN Err(error) ELSE BuildCandidateBlock(job, bodies)
       IN  proposed' = [job |-> job, result |-> result,
                        merkle_path |-> IF result.ok THEN custom.merkle_path ELSE None]
    /\ declared_jobs' = [declared_jobs EXCEPT ![r] = None]
    /\ UNCHANGED <<used, solution, mined, found, solved>>

\* A miner hashes a header whose root it gets by folding the coinbase, with an
\* extranonce of its own, with the merkle path of the job.
Fold(leaf, path) ==
    LET hash[n \in Nat] == IF n = 0 THEN leaf ELSE <<hash[n - 1], path[n]>>
    IN  hash[Len(path)]

Mine(r, e) ==
    /\ solution = None /\ declared_jobs[r] # None
    /\ LET job == declared_jobs[r]
           declared == ReconstructCoinbase(job.prefix, job.suffix).value
           coinbase == [declared EXCEPT !.extranonce = e]
       IN  /\ solution' = [version |-> job.version, extranonce |-> e, time |-> "ntime", nonce |-> 1]
           /\ mined' = [job |-> job, fits |-> e.len = declared.extranonce.len,
                        txid |-> ComputeTxid(coinbase),
                        root |-> Fold(<<ComputeTxid(coinbase)>>,
                                      MerklePath(ComputeTxid(declared), job.txs))]
    /\ UNCHANGED <<used, declared_jobs, proposed, found, solved>>

\* handle_push_solution: find_by_solution returns any cached job with the tip and
\* version of the solution.
Push(r, bodies) ==
    /\ solution # None /\ solved = None
    /\ declared_jobs[r] # None /\ declared_jobs[r].version = solution.version
    /\ found' = declared_jobs[r]
    /\ solved' = ReconstructBlock(declared_jobs[r], solution, bodies)
    /\ UNCHANGED <<used, declared_jobs, proposed, solution, mined>>

Next == \E r \in RequestIds :
            \/ \E job \in Jobs, pmts \in Pmts : Declare(r, job, pmts)
            \/ \E bodies \in TxLists : \/ \E custom \in CustomJobs : Propose(r, custom, bodies)
                                       \/ Push(r, bodies)
            \/ \E e \in Extranonces : Mine(r, e)

Spec == Init /\ [][Next]_vars

-----------------------------------------------------------------------------
(***************************************************************************)
(* Properties                                                              *)
(***************************************************************************)

\* Two lists of the same transactions in the same order, but for transactions that one
\* of them repeats at its end.
SameTransactions(s, t) ==
    /\ \A i \in DOMAIN s \cap DOMAIN t : s[i] = t[i]
    /\ Range(s) = Range(t)

\* The block that is submitted is the block that was mined if find_by_solution picked
\* the job it was mined for: its header then has the root the miner hashed, although
\* the miner had the merkle path only and the path was computed for another
\* extranonce.  A wrong pick has that root only if it stands for the same coinbase,
\* witness aside, and for the same transactions.
SolvedBlockIsTheMinedOne ==
    (solved # None /\ solved.ok) =>
        /\ found = mined.job => solved.value.header.root = mined.root
        /\ solved.value.header.root = mined.root =>
              /\ ComputeTxid(Head(solved.value.txdata)) = mined.txid
              /\ SameTransactions(Tail(solved.value.txdata), mined.job.txs)

\* Rebuilding such a block fails only for what the other side sent: bodies that are
\* not the declared ones, an extranonce that does not fit the hole, or a prefix laid
\* out so that the extranonce is not where coinbase.rs takes it to be.
DeclaredJobRebuilds ==
    (solved # None /\ ~solved.ok)
        => \/ solved.error \in {"TxBodyCountMismatch", "TxBodyTxidMismatch"}
           \/ solved.error = "ExtranonceSizeMismatch" /\ (found = mined.job => ~mined.fits)
           \/ solved.error = "Decode" /\ ~found.prefix.documented

\* A header commits to the transactions it is submitted with.
HeaderCommitsToBodies ==
    \A result \in {IF proposed = None THEN None ELSE proposed.result, solved} \ {None} :
        result.ok => result.value.header.root =
                         ComputeMerkleRoot(ComputeTxid(Head(result.value.txdata)),
                                           Tail(result.value.txdata))

\* What bitcoind was asked about is what is submitted later, but for extranonce,
\* time and nonce; and reconstruct_header returns the header of the block.
ProposalIsWhatIsSolved ==
    (solved # None /\ solved.ok) =>
        /\ ReconstructHeader(found, solution) = Ok(solved.value.header)
        /\ (proposed # None /\ proposed.result.ok /\ proposed.job = found) =>
              LET candidate == proposed.result.value
              IN  /\ candidate.header.version = solved.value.header.version
                  /\ Tail(candidate.txdata) = Tail(solved.value.txdata)
                  /\ [Head(candidate.txdata) EXCEPT !.extranonce = solution.extranonce]
                        = Head(solved.value.txdata)

\* A custom job that reaches bitcoind is the one that will be mined: its merkle
\* path folds the proposed coinbase into the root that was proposed.
ProposedRootIsMinable ==
    (proposed # None /\ proposed.result.ok) =>
        Fold(<<ComputeTxid(Head(proposed.result.value.txdata))>>, proposed.merkle_path)
            = proposed.result.value.header.root

\* The check of SetCustomMiningJob compares merkle paths only: two cached jobs with
\* the same path have the same transactions in the same order, but for those that one
\* of them repeats at its end.
PathIdentifiesTransactions ==
    \A r, q \in RequestIds :
        (declared_jobs[r] # None /\ declared_jobs[q] # None
           /\ MerklePath("coinbase", declared_jobs[r].txs) = MerklePath("coinbase", declared_jobs[q].txs))
        => SameTransactions(declared_jobs[r].txs, declared_jobs[q].txs)
=============================================================================
