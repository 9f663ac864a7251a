------------------------ MODULE PayoutBindingsProofs ------------------------
(***************************************************************************)
(* Proofs about the payout bindings, for any number of tokens, users and   *)
(* overlapping calls and evictions: a token's binding is what its reply    *)
(* said, eviction leaves nothing behind of a token whose call had          *)
(* returned, and the guard against a second binding can be passed twice    *)
(* only by calls that overlap.                                             *)
(***************************************************************************)
EXTENDS PayoutBindings, TLAPS

\* What the place of a token's call says of its locals: the user is known once
\* the script is resolved and fits once the size budget has been checked.
UserInv ==
    \A t \in Tokens :
        /\ pc[t] \in {"check", "bind", "index"} => user[t] \in Known
        /\ pc[t] \in {"bind", "index"} => user[t] \in Fitting
        /\ pc[t] \in {"idle", "active", "check", "bind", "index"} => reply[t] = None

TypeInv == TypeOK /\ UserInv

LEMMA TypeInit == Init => TypeInv
  BY NoneAssumption DEF Init, TypeInv, TypeOK, UserInv

LEMMA TypeStep == TypeInv /\ [Next]_vars => TypeInv'
  <1> SUFFICES ASSUME TypeInv, [Next]_vars PROVE TypeInv'
    OBVIOUS
  <1> USE DEF TypeInv, TypeOK, UserInv, Goto, maps, call, eviction
  <1>1. ASSUME NEW t \in Tokens, NEW n \in Names, Call(t, n) PROVE TypeInv'
    BY <1>1, NormalizeAssumption, KnownAssumption DEF Call, ResolvePayoutScript
  <1>2. ASSUME NEW t \in Tokens, Check(t) PROVE TypeInv'
    BY <1>2, KnownAssumption DEF Check, Passed
  <1>3. ASSUME NEW t \in Tokens, Bind(t) PROVE TypeInv'
    BY <1>3 DEF Bind
  <1>4. ASSUME NEW t \in Tokens, Index(t) PROVE TypeInv'
    BY <1>4, KnownAssumption DEF Index
  <1>5. ASSUME NEW t \in Tokens, NEW a \in Tokens, Activate(t, a) PROVE TypeInv'
    BY <1>5 DEF Activate
  <1>6. ASSUME NEW t \in Tokens, Evict(t) PROVE TypeInv'
    BY <1>6 DEF Evict, Remove
  <1>7. ASSUME NEW t \in Tokens, EvictIndex(t) PROVE TypeInv'
    BY <1>7 DEF EvictIndex
  <1>8. CASE UNCHANGED vars
    BY <1>8 DEF vars
  <1> QED
    BY <1>1, <1>2, <1>3, <1>4, <1>5, <1>6, <1>7, <1>8 DEF Next

\* The two maps and every call's locals stay well typed, and a reply names a user
\* the selector knows and whose output fits (handle_allocate_mining_job_token).
THEOREM TypeCorrect == Spec => []TypeOK
  <1>1. TypeInv => TypeOK
    BY DEF TypeInv
  <1> QED
    BY <1>1, TypeInit, TypeStep, PTL DEF Spec

-----------------------------------------------------------------------------

\* A token that is not evicted has a binding from the write of the forward map on,
\* and it is the user of its call.  The eviction of an answered token takes the
\* binding for good; an earlier one leaves the call to write what it will, but
\* goes on to the index only if it has found, and removed, a binding.
ForwardInv ==
    \A t \in Tokens :
        /\ pc[t] \in {"idle", "active", "check", "bind"} => token_payout[t] = None
        /\ pc[t] = "index" => token_payout[t] \in {user[t], None}
        /\ pc[t] = "index" /\ evict[t] = "no" => token_payout[t] = user[t]
        /\ pc[t] = "returned" => token_payout[t] \in {reply[t], None}
        /\ pc[t] = "returned" /\ evict[t] = "no" => token_payout[t] = reply[t]
        /\ evict[t] = "retain" => pc[t] \in {"index", "returned"} /\ token_payout[t] = None
        /\ evict[t] # "no" /\ t \notin early => pc[t] = "returned" /\ token_payout[t] = None
        /\ evict[t] # "no" => pc[t] \notin {"idle", "active"}

\* The index points only at tokens that were answered with that user's script, and
\* at an evicted one only if its eviction has not cleaned the index yet, or came
\* too early to do it.
InverseInv ==
    \A u \in Users : user_identifier_index[u] # None =>
        /\ pc[user_identifier_index[u]] = "returned"
        /\ reply[user_identifier_index[u]] = u
        /\ evict[user_identifier_index[u]] = "done" => user_identifier_index[u] \in early

BindingInv == ForwardInv /\ InverseInv

LEMMA BindingInit == Init => BindingInv
  BY DEF Init, BindingInv, ForwardInv, InverseInv

LEMMA BindingStep == TypeInv /\ BindingInv /\ [Next]_vars => BindingInv'
  <1> SUFFICES ASSUME TypeInv, BindingInv, [Next]_vars PROVE BindingInv'
    OBVIOUS
  <1> USE NoneAssumption DEF TypeInv, TypeOK, UserInv, BindingInv, ForwardInv, InverseInv,
                             Goto, maps, call, eviction
  <1>1. ASSUME NEW t \in Tokens, NEW n \in Names, Call(t, n) PROVE BindingInv'
    BY <1>1 DEF Call, ResolvePayoutScript
  <1>2. ASSUME NEW t \in Tokens, Check(t) PROVE BindingInv'
    BY <1>2 DEF Check, Passed
  <1>3. ASSUME NEW t \in Tokens, Bind(t) PROVE BindingInv'
    BY <1>3 DEF Bind
  <1>4. ASSUME NEW t \in Tokens, Index(t) PROVE BindingInv'
    <2>1. ForwardInv'
      BY <1>4 DEF Index
    <2>2. InverseInv'
      BY <1>4 DEF Index
    <2> QED
      BY <2>1, <2>2
  <1>5. ASSUME NEW t \in Tokens, NEW a \in Tokens, Activate(t, a) PROVE BindingInv'
    BY <1>5 DEF Activate
  <1>6. ASSUME NEW t \in Tokens, Evict(t) PROVE BindingInv'
    <2>1. ForwardInv'
      BY <1>6 DEF Evict, Remove
    <2>2. InverseInv'
      BY <1>6 DEF Evict, Remove
    <2> QED
      BY <2>1, <2>2
  <1>7. ASSUME NEW t \in Tokens, EvictIndex(t) PROVE BindingInv'
    <2>1. ForwardInv'
      BY <1>7 DEF EvictIndex
    <2>2. InverseInv'
      BY <1>7 DEF EvictIndex
    <2> QED
      BY <2>1, <2>2
  <1>8. CASE UNCHANGED vars
    BY <1>8 DEF vars
  <1> QED
    BY <1>1, <1>2, <1>3, <1>4, <1>5, <1>6, <1>7, <1>8 DEF Next

\* lookup_payout_script finds for a live token what its reply announced, whatever
\* other allocations and evictions run beside it.
THEOREM BindingKept == Spec => []BindingMatchesReply
  <1>1. BindingInv => BindingMatchesReply
    BY DEF BindingInv, ForwardInv, BindingMatchesReply, LookupPayoutScript
  <1> QED
    BY <1>1, TypeInit, TypeStep, BindingInit, BindingStep, PTL DEF Spec

\* drop_token_payout leaves neither a binding nor an index entry of a token that
\* is gone, whichever of its two values it is evicted under, unless the eviction
\* came before the token's call had returned.
THEOREM EvictionComplete == Spec => []EvictionIsComplete
  <1>1. BindingInv => EvictionIsComplete
    BY NoneAssumption DEF BindingInv, ForwardInv, InverseInv, EvictionIsComplete
  <1> QED
    BY <1>1, TypeInit, TypeStep, BindingInit, BindingStep, PTL DEF Spec

-----------------------------------------------------------------------------

\* A user of whom no two calls have overlapped: an answered binding is the one in
\* the index, and a call between guard and index is alone with that user.
GuardInv ==
    \A u \in Users \ overlapped, t \in Tokens :
        /\ pc[t] = "returned" /\ token_payout[t] = u => user_identifier_index[u] = t
        /\ t \in Committing(u) =>
              \A o \in Tokens \ {t} : token_payout[o] # u /\ o \notin Committing(u)

LEMMA GuardInit == Init => GuardInv
  BY NoneAssumption DEF Init, GuardInv, Committing

LEMMA GuardStep == TypeInv /\ BindingInv /\ GuardInv /\ [Next]_vars => GuardInv'
  <1> SUFFICES ASSUME TypeInv, BindingInv, GuardInv, [Next]_vars PROVE GuardInv'
    OBVIOUS
  <1> USE NoneAssumption DEF TypeInv, TypeOK, UserInv, BindingInv, ForwardInv, InverseInv,
                             GuardInv, Committing, Goto, maps, call, eviction
  <1>1. ASSUME NEW t \in Tokens, NEW n \in Names, Call(t, n) PROVE GuardInv'
    BY <1>1 DEF Call, ResolvePayoutScript
  <1>2. ASSUME NEW t \in Tokens, Check(t) PROVE GuardInv'
    <2>1. CASE pc'[t] = "returned"
      BY <1>2, <2>1 DEF Check, Passed
    <2>2. CASE Passed(t) /\ user_identifier_index[user[t]] = None
      BY <1>2, <2>2 DEF Check, Passed
    <2> QED
      BY <1>2, <2>1, <2>2, KnownAssumption DEF Check
  <1>3. ASSUME NEW t \in Tokens, Bind(t) PROVE GuardInv'
    BY <1>3 DEF Bind
  <1>4. ASSUME NEW t \in Tokens, Index(t) PROVE GuardInv'
    BY <1>4 DEF Index
  <1>5. ASSUME NEW t \in Tokens, NEW a \in Tokens, Activate(t, a) PROVE GuardInv'
    BY <1>5 DEF Activate
  <1>6. ASSUME NEW t \in Tokens, Evict(t) PROVE GuardInv'
    BY <1>6 DEF Evict, Remove
  <1>7. ASSUME NEW t \in Tokens, EvictIndex(t) PROVE GuardInv'
    BY <1>7 DEF EvictIndex
  <1>8. CASE UNCHANGED vars
    BY <1>8 DEF vars
  <1> QED
    BY <1>1, <1>2, <1>3, <1>4, <1>5, <1>6, <1>7, <1>8 DEF Next

\* The duplicate-binding guard holds across evictions and re-allocations: a user
\* has two live bindings only if two of the user's calls have been between the
\* guard and the write of the index at the same time.
THEOREM GuardWorks == Spec => []TwoBindingsOnlyByOverlap
  <1>1. TypeInv /\ BindingInv /\ GuardInv => TwoBindingsOnlyByOverlap
    BY DEF TypeInv, TypeOK, BindingInv, ForwardInv, GuardInv, Committing, TwoBindingsOnlyByOverlap
  <1> QED
    BY <1>1, TypeInit, TypeStep, BindingInit, BindingStep, GuardInit, GuardStep, PTL DEF Spec
=============================================================================
