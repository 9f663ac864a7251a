------------------------ MODULE ReorgWatcherProofs ------------------------
(***************************************************************************)
(* Proofs about ReorgWatcher, for every set of jobs and tips, any number   *)
(* of restarts and any channel capacity.                                   *)
(***************************************************************************)
EXTENDS ReorgWatcher, TLAPS

\* A witness had the job's tip as its last_tip, so that tip is a real one.
WitnessInv ==
    /\ \A j \in Jobs : witnesses[j] # {} => captured[j] # None
    /\ \A j \in Jobs : witnesses[j] # {} => phase[j] \in {"cached", "gone"}

\* A tip other than the present one can only linger once the chain has moved.
MovedInv ==
    /\ snapshot \in {None, chain_tip} \/ chain_moved
    /\ \A g \in Gens : last_tip[g] \in {None, chain_tip} \/ chain_moved
    /\ \A g \in Gens : Pending(g) => chain_moved

Inv == TypeOK /\ WitnessInv /\ WitnessedJobIsFlushed /\ MovedInv

\* The initial state satisfies the invariant.
LEMMA InvInit == Init => Inv
  <1> SUFFICES ASSUME Init PROVE Inv
    OBVIOUS
  <1>1. TypeOK
    <2>1. queued \in [Gens -> 0..Capacity]
      BY CapacityAssumption DEF Init
    <2> QED
      BY <2>1 DEF Init, TypeOK
  <1>2. WitnessInv /\ WitnessedJobIsFlushed /\ MovedInv
    BY DEF Init, WitnessInv, WitnessedJobIsFlushed, MovedInv, cache, Pending
  <1> QED
    BY <1>1, <1>2 DEF Inv

\* Every step preserves the invariant.
LEMMA InvStep == Inv /\ [Next]_vars => Inv'
  <1> SUFFICES ASSUME Inv, [Next]_vars PROVE Inv'
    OBVIOUS
  <1> USE CapacityAssumption, StartsAssumption, NoneAssumption DEF jobs, watcher, channel
  <1>1. CASE ChainTipChange
    <2>1. TypeOK'
      BY <1>1 DEF Inv, TypeOK, ChainTipChange
    <2>2. WitnessInv'
      BY <1>1 DEF Inv, TypeOK, WitnessInv, ChainTipChange
    <2>3. WitnessedJobIsFlushed'
      BY <1>1 DEF Inv, TypeOK, WitnessInv, WitnessedJobIsFlushed, cache, Pending, ChainTipChange
    <2>4. MovedInv'
      BY <1>1 DEF Inv, TypeOK, MovedInv, Pending, ChainTipChange
    <2> QED
      BY <2>1, <2>2, <2>3, <2>4 DEF Inv
  <1>2. CASE Publish
    <2>1. TypeOK'
      BY <1>2 DEF Inv, TypeOK, Publish
    <2>2. WitnessInv'
      BY <1>2 DEF Inv, TypeOK, WitnessInv, Publish
    <2>3. WitnessedJobIsFlushed'
      BY <1>2 DEF Inv, TypeOK, WitnessInv, WitnessedJobIsFlushed, cache, Pending, Publish
    <2>4. MovedInv'
      BY <1>2 DEF Inv, TypeOK, MovedInv, Pending, Publish
    <2> QED
      BY <2>1, <2>2, <2>3, <2>4 DEF Inv
  <1>3. CASE Stop
    <2>1. TypeOK'
      BY <1>3 DEF Inv, TypeOK, Stop, Aborted, Gens
    <2>2. WitnessInv'
      BY <1>3 DEF Inv, TypeOK, WitnessInv, Stop, Aborted
    <2>3. WitnessedJobIsFlushed'
      BY <1>3 DEF Inv, TypeOK, WitnessInv, WitnessedJobIsFlushed, cache, Pending, Stop, Aborted
    <2>4. MovedInv'
      BY <1>3 DEF Inv, TypeOK, MovedInv, Pending, Stop, Aborted
    <2> QED
      BY <2>1, <2>2, <2>3, <2>4 DEF Inv
  <1>4. ASSUME NEW j \in Jobs, Capture(j) PROVE Inv'
    <2>1. TypeOK'
      BY <1>4 DEF Inv, TypeOK, Capture
    <2>2. WitnessInv'
      BY <1>4 DEF Inv, TypeOK, WitnessInv, Capture
    <2>3. WitnessedJobIsFlushed'
      BY <1>4 DEF Inv, TypeOK, WitnessInv, WitnessedJobIsFlushed, cache, Pending, Capture
    <2>4. MovedInv'
      BY <1>4 DEF Inv, TypeOK, MovedInv, Pending, Capture
    <2> QED
      BY <2>1, <2>2, <2>3, <2>4 DEF Inv
  <1>5. ASSUME NEW j \in Jobs, Insert(j) PROVE Inv'
    <2>1. TypeOK'
      BY <1>5 DEF Inv, TypeOK, Insert
    <2>2. WitnessInv'
      BY <1>5 DEF Inv, TypeOK, WitnessInv, Insert
    <2>3. WitnessedJobIsFlushed'
      BY <1>5 DEF Inv, TypeOK, WitnessInv, WitnessedJobIsFlushed, cache, Pending, Insert
    <2>4. MovedInv'
      BY <1>5 DEF Inv, TypeOK, MovedInv, Pending, Insert
    <2> QED
      BY <2>1, <2>2, <2>3, <2>4 DEF Inv
  <1>6. ASSUME NEW j \in Jobs, Take(j) PROVE Inv'
    <2>1. TypeOK'
      BY <1>6 DEF Inv, TypeOK, Take
    <2>2. WitnessInv'
      BY <1>6 DEF Inv, TypeOK, WitnessInv, Take
    <2>3. WitnessedJobIsFlushed'
      BY <1>6 DEF Inv, TypeOK, WitnessInv, WitnessedJobIsFlushed, cache, Pending, Take
    <2>4. MovedInv'
      BY <1>6 DEF Inv, TypeOK, MovedInv, Pending, Take
    <2> QED
      BY <2>1, <2>2, <2>3, <2>4 DEF Inv
  <1>7. ASSUME NEW g \in Gens, Start(g) PROVE Inv'
    <2>1. TypeOK'
      BY <1>7 DEF Inv, TypeOK, Start, Aborted, Gens
    <2>2. WitnessInv'
      BY <1>7 DEF Inv, TypeOK, WitnessInv, Start, Aborted
    <2>3. WitnessedJobIsFlushed'
      BY <1>7 DEF Inv, TypeOK, WitnessInv, WitnessedJobIsFlushed, cache, Pending, Start, Aborted
    <2>4. MovedInv'
      BY <1>7 DEF Inv, TypeOK, MovedInv, Pending, Start, Aborted
    <2> QED
      BY <2>1, <2>2, <2>3, <2>4 DEF Inv
  <1>8. ASSUME NEW g \in Gens, Poll(g) PROVE Inv'
    <2>1. TypeOK'
      <3>1. queued' \in [Gens -> 0..Capacity]
        BY <1>8 DEF Inv, TypeOK, Poll, Broadcast
      <3>2. lagged' \in [Gens -> BOOLEAN]
        BY <1>8 DEF Inv, TypeOK, Poll, Broadcast
      <3>3. witnesses' \in [Jobs -> SUBSET Gens]
        BY <1>8 DEF Inv, TypeOK, Poll
      <3> QED
        BY <1>8, <3>1, <3>2, <3>3 DEF Inv, TypeOK, Poll
    <2>2. WitnessInv'
      BY <1>8 DEF Inv, TypeOK, WitnessInv, Poll, Changed, Broadcast
    <2>3. WitnessedJobIsFlushed'
      BY <1>8 DEF Inv, TypeOK, WitnessInv, WitnessedJobIsFlushed, cache, Pending, Poll, Changed, Broadcast
    <2>4. MovedInv'
      BY <1>8 DEF Inv, TypeOK, MovedInv, Pending, Poll, Changed, Broadcast
    <2> QED
      BY <2>1, <2>2, <2>3, <2>4 DEF Inv
  <1>9. ASSUME NEW g \in Gens, Recv(g) PROVE Inv'
    <2>1. TypeOK'
      <3>1. queued' \in [Gens -> 0..Capacity]
        BY <1>9 DEF Inv, TypeOK, Recv
      <3>2. lagged' \in [Gens -> BOOLEAN]
        BY <1>9 DEF Inv, TypeOK, Recv
      <3> QED
        BY <1>9, <3>1, <3>2 DEF Inv, TypeOK, Recv
    <2>2. WitnessInv'
      BY <1>9 DEF Inv, TypeOK, WitnessInv, Recv
    <2>3. WitnessedJobIsFlushed'
      BY <1>9 DEF Inv, TypeOK, WitnessInv, WitnessedJobIsFlushed, cache, Pending, Recv
    <2>4. MovedInv'
      BY <1>9 DEF Inv, TypeOK, MovedInv, Pending, Recv
    <2> QED
      BY <2>1, <2>2, <2>3, <2>4 DEF Inv
  <1>10. CASE UNCHANGED vars
    <2>1. TypeOK'
      BY <1>10 DEF Inv, TypeOK, vars
    <2>2. WitnessInv'
      BY <1>10 DEF Inv, TypeOK, WitnessInv, vars
    <2>3. WitnessedJobIsFlushed'
      BY <1>10 DEF Inv, TypeOK, WitnessInv, WitnessedJobIsFlushed, cache, Pending, vars
    <2>4. MovedInv'
      BY <1>10 DEF Inv, TypeOK, MovedInv, Pending, vars
    <2> QED
      BY <2>1, <2>2, <2>3, <2>4 DEF Inv
  <1> QED
    BY <1>1, <1>2, <1>3, <1>4, <1>5, <1>6, <1>7, <1>8, <1>9, <1>10 DEF Next

\* The invariant holds throughout.
LEMMA InvAlways == Spec => []Inv
  BY InvInit, InvStep, PTL DEF Spec

\* The watcher, the channel it reads and the cache keep their types.
THEOREM TypeCorrect == Spec => []TypeOK
  BY InvAlways, PTL DEF Inv

\* A cached job whose tip some detector has seen either still has that tip as
\* the detector's last, or a flush is pending.
THEOREM WitnessedFlushed == Spec => []WitnessedJobIsFlushed
  BY InvAlways, PTL DEF Inv

-----------------------------------------------------------------------------
(***************************************************************************)
(* ReorgWatcher implements CacheFlush.                                     *)
(***************************************************************************)

\* The initial states map to initial states.
LEMMA FlushInit == Init => CF!Init
  BY DEF Init, CF!Init, cache

\* Every step maps to a step of CacheFlush or leaves its variables alone.
LEMMA FlushStep == Inv /\ [Next]_vars => [CF!Next]_CF!vars
  <1> SUFFICES ASSUME Inv, [Next]_vars PROVE [CF!Next]_CF!vars
    OBVIOUS
  <1> USE DEF jobs, watcher, channel
  <1>1. CASE ChainTipChange
    BY <1>1 DEF ChainTipChange, CF!Next, CF!ChainTipChange, cache
  <1>2. ASSUME NEW j \in Jobs, Insert(j) PROVE CF!Next
    <2>1. cache' = cache \cup {j} /\ UNCHANGED <<chain_tip, chain_moved>>
      BY <1>2 DEF Inv, TypeOK, Insert, cache
    <2> QED
      BY <2>1 DEF CF!Next, CF!Insert
  <1>3. ASSUME NEW j \in Jobs, Take(j) PROVE CF!Next
    <2>1. cache' = cache \ {j} /\ UNCHANGED <<chain_tip, chain_moved>>
      BY <1>3 DEF Inv, TypeOK, Take, cache
    <2> QED
      BY <2>1 DEF CF!Next, CF!Take
  <1>4. ASSUME NEW g \in Gens, Recv(g) PROVE CF!Next
    <2>1. chain_moved
      BY <1>4 DEF Inv, MovedInv, Pending, Recv
    <2>2. cache' = {} /\ UNCHANGED <<chain_tip, chain_moved>>
      BY <1>4 DEF Recv, cache
    <2> QED
      BY <2>1, <2>2 DEF CF!Next, CF!Flush
  <1>5. ASSUME NEW j \in Jobs, Capture(j) PROVE UNCHANGED CF!vars
    BY <1>5 DEF Inv, TypeOK, Capture, CF!vars, cache
  <1>6. CASE Publish \/ Stop \/ (\E g \in Gens : Start(g) \/ Poll(g)) \/ UNCHANGED vars
    <2>1. UNCHANGED <<chain_tip, chain_moved, phase>>
      BY <1>6 DEF Publish, Stop, Start, Poll, vars
    <2> QED
      BY <2>1 DEF CF!vars, cache
  <1> QED
    BY <1>1, <1>2, <1>3, <1>4, <1>5, <1>6 DEF Next

\* The watcher flushes the cache as a whole, and only after the share chain has
\* replaced a tip.
THEOREM ImplementsCacheFlush == Spec => FlushesOnlyAfterChange
  BY FlushInit, FlushStep, InvAlways, PTL DEF Spec, FlushesOnlyAfterChange, CF!Spec
=============================================================================
