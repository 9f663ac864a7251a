--------------------------- MODULE PayoutBindings ---------------------------
(***************************************************************************)
(* The per-token payout bindings of the engine: token_payout and its       *)
(* inverse user_identifier_index, written by                               *)
(* handle_allocate_mining_job_token and drained by the TokenPayoutEvictor. *)
(*                                                                         *)
(* Calls for different tokens run concurrently; each access to one of the  *)
(* two maps is a step.  The JDS's TokenManager (library code) hands every  *)
(* token to one call and evicts it once, at any time: the token exists     *)
(* before the call, and the JDC that asked for it may leave during it.     *)
(* A payout script is named by the user it pays.  The accounting selector  *)
(* is not wired yet: in production Known is empty and every call falls     *)
(* back to the pool-wide script; the tests install one.                    *)
(***************************************************************************)
CONSTANTS
    Tokens,      \* JdToken values, allocated and active ones
    Users,       \* normalized, non-empty user identifiers
    Names,       \* user identifiers as they arrive
    Normalize,   \* name -> trimmed and NFKC-normalized, Empty if nothing is left
    Empty,
    Known,       \* users the accounting selector has a script for
    Fitting,     \* users whose TxOut fits into coinbase_output_max_additional_size
    None

ASSUME NormalizeAssumption == Normalize \in [Names -> Users \cup {Empty}]
ASSUME KnownAssumption == Known \subseteq Users
ASSUME NoneAssumption == None \notin Tokens /\ None \notin Users /\ Empty \notin Users

VARIABLES
    token_payout,           \* token -> the user whose script it is bound to
    user_identifier_index,  \* user -> the token bound last
    pc,                     \* token -> where its call is
    user,                   \* token -> the normalized user of the call
    reply,                  \* token -> what the call returned: None is the pool-wide script
    activated,              \* token -> the active token it was exchanged for
    evict,                  \* token -> where its eviction is
    early,                  \* tokens evicted before their call returned (history)
    overlapped              \* users of whom two calls have passed the guard at once (history)

maps == <<token_payout, user_identifier_index>>
call == <<pc, user, reply, activated>>
eviction == <<evict, early>>
vars == <<maps, call, eviction, overlapped>>

TypeOK ==
    /\ token_payout \in [Tokens -> Users \cup {None}]
    /\ user_identifier_index \in [Users -> Tokens \cup {None}]
    /\ pc \in [Tokens -> {"idle", "check", "bind", "index", "returned", "active"}]
    /\ user \in [Tokens -> Users \cup {None}]
    /\ reply \in [Tokens -> Users \cup {None}]
    /\ \A t \in Tokens : reply[t] # None => reply[t] = user[t] /\ user[t] \in Known \cap Fitting
    /\ activated \in [Tokens -> Tokens \cup {None}]
    /\ evict \in [Tokens -> {"no", "retain", "done"}]
    /\ early \subseteq {t \in Tokens : evict[t] # "no"}
    /\ overlapped \subseteq Users

Init ==
    /\ token_payout = [t \in Tokens |-> None]
    /\ user_identifier_index = [u \in Users |-> None]
    /\ pc = [t \in Tokens |-> "idle"]
    /\ user = [t \in Tokens |-> None]
    /\ reply = [t \in Tokens |-> None]
    /\ activated = [t \in Tokens |-> None]
    /\ evict = [t \in Tokens |-> "no"] /\ early = {}
    /\ overlapped = {}

Goto(t, step) == pc' = [pc EXCEPT ![t] = step]

-----------------------------------------------------------------------------
(***************************************************************************)
(* handle_allocate_mining_job_token.  (The *Mutant definitions are         *)
(* plausible bugs that some property must catch.)                          *)
(***************************************************************************)

\* The accounting selector's script for a user, if it has one.
ResolvePayoutScript(u) == IF u \in Known THEN u ELSE None

\* Normalization and resolve_payout_script; an empty or unknown user returns.
Call(t, n) ==
    /\ pc[t] = "idle"
    /\ LET script == IF Normalize[n] = Empty THEN None ELSE ResolvePayoutScript(Normalize[n])
       IN  \/ script # None /\ user' = [user EXCEPT ![t] = script] /\ Goto(t, "check")
           \/ script = None /\ Goto(t, "returned") /\ UNCHANGED user
    /\ UNCHANGED <<maps, reply, activated, eviction, overlapped>>

\* The calls for a user between the guard and the write of the index.
Committing(u) == {o \in Tokens : pc[o] \in {"bind", "index"} /\ user[o] = u}
Passed(t) == /\ Goto(t, "bind")
             /\ overlapped' = IF Committing(user[t]) = {} THEN overlapped
                              ELSE overlapped \cup {user[t]}

\* A bug: the guard is left out.
CheckMutant(t) ==
    /\ pc[t] = "check"
    /\ \/ user[t] \in Fitting /\ Passed(t)
       \/ user[t] \notin Fitting /\ Goto(t, "returned") /\ UNCHANGED overlapped
    /\ UNCHANGED <<maps, user, reply, activated, eviction>>

\* The duplicate-binding guard, then the size budget, which reads no map.
Check(t) ==
    /\ pc[t] = "check"
    /\ LET free == user_identifier_index[user[t]] \in {None, t}
       IN  \/ free /\ user[t] \in Fitting /\ Passed(t)
           \/ /\ ~free \/ user[t] \notin Fitting
              /\ Goto(t, "returned") /\ UNCHANGED overlapped
    /\ UNCHANGED <<maps, user, reply, activated, eviction>>

\* The forward map first.
Bind(t) ==
    /\ pc[t] = "bind"
    /\ token_payout' = [token_payout EXCEPT ![t] = user[t]]
    /\ Goto(t, "index")
    /\ UNCHANGED <<user_identifier_index, user, reply, activated, eviction, overlapped>>

\* A bug: the token found in the index loses its binding.
IndexMutant(t) ==
    /\ pc[t] = "index"
    /\ user_identifier_index' = [user_identifier_index EXCEPT ![user[t]] = t]
    /\ token_payout' = [o \in Tokens |-> IF o = user_identifier_index[user[t]] THEN None
                                         ELSE token_payout[o]]
    /\ reply' = [reply EXCEPT ![t] = user[t]]
    /\ Goto(t, "returned")
    /\ UNCHANGED <<user, activated, eviction, overlapped>>

\* The inverse index; it may overwrite what another call has put there since
\* the guard.
Index(t) ==
    /\ pc[t] = "index"
    /\ user_identifier_index' = [user_identifier_index EXCEPT ![user[t]] = t]
    /\ reply' = [reply EXCEPT ![t] = user[t]]
    /\ Goto(t, "returned")
    /\ UNCHANGED <<token_payout, user, activated, eviction, overlapped>>

\* What handle_push_solution reads: None is the pool-wide script.
LookupPayoutScript(t) == token_payout[t]

-----------------------------------------------------------------------------
(***************************************************************************)
(* TokenManager: a returned token may be exchanged for an active one, a    *)
(* fresh value of the same kind; either is evicted in the end.             *)
(***************************************************************************)

Activate(t, a) ==
    /\ pc[t] = "returned" /\ activated[t] = None /\ evict[t] = "no"
    /\ pc[a] = "idle"
    /\ activated' = [activated EXCEPT ![t] = a]
    /\ Goto(a, "active")
    /\ UNCHANGED <<maps, user, reply, eviction, overlapped>>

\* drop_token_payout begins: the forward map is emptied under a key, and the index
\* is scanned only if there was a binding.
Remove(t, key) ==
    /\ pc[t] \notin {"idle", "active"} /\ evict[t] = "no"
    /\ token_payout' = [token_payout EXCEPT ![key] = None]
    /\ evict' = [evict EXCEPT ![t] = IF token_payout[key] = None THEN "done" ELSE "retain"]
    /\ early' = IF pc[t] = "returned" THEN early ELSE early \cup {t}
    /\ UNCHANGED <<user_identifier_index, call, overlapped>>

\* A bug: the eviction of an active token is looked up by that token.
EvictMutant(t) == Remove(t, IF activated[t] = None THEN t ELSE activated[t])

\* on_allocated_evicted and on_active_evicted both pass the allocated token.
Evict(t) == Remove(t, t)

\* retain(|_, bound| bound != token).
EvictIndex(t) ==
    /\ evict[t] = "retain"
    /\ user_identifier_index' =
          [u \in Users |-> IF user_identifier_index[u] = t THEN None ELSE user_identifier_index[u]]
    /\ evict' = [evict EXCEPT ![t] = "done"]
    /\ UNCHANGED <<token_payout, call, early, overlapped>>

Next == \E t \in Tokens : \/ Check(t) \/ Bind(t) \/ Index(t) \/ Evict(t) \/ EvictIndex(t)
                          \/ \E n \in Names : Call(t, n)
                          \/ \E a \in Tokens : Activate(t, a)

Spec == Init /\ [][Next]_vars

-----------------------------------------------------------------------------
(***************************************************************************)
(* Properties                                                              *)
(***************************************************************************)

\* What lookup_payout_script finds for a token is what the JDC was told in the
\* reply, from the reply until the token's own eviction, whatever other tokens of
\* the same user are allocated or evicted meanwhile.
BindingMatchesReply ==
    \A t \in Tokens : pc[t] = "returned" /\ evict[t] = "no" => LookupPayoutScript(t) = reply[t]

\* Eviction leaves nothing behind: an evicted token has no binding, and no user
\* is kept from a binding of their own by a token that is gone; unless the token
\* was evicted while its call was still to write the maps.
EvictionIsComplete ==
    /\ \A t \in Tokens \ early : evict[t] # "no" => token_payout[t] = None
    /\ \A u \in Users : user_identifier_index[u] \in Tokens \ early
                          => evict[user_identifier_index[u]] # "done"

\* The guard works across evictions: a user has two live bindings only after two
\* of the user's calls were between the guard and the index at once.
TwoBindingsOnlyByOverlap ==
    \A t, o \in Tokens :
        (t # o /\ token_payout[t] # None /\ token_payout[t] = token_payout[o])
            => token_payout[t] \in overlapped
=============================================================================
