-------------------------- MODULE ReorgWalkProofs --------------------------
(***************************************************************************)
(* Proofs about notify_share_chain_reorg, for every chain, every depth     *)
(* limit and any number of overlapping walks: what a walk collects are the *)
(* ancestors of its tip, and it keeps exactly the jobs declared on them.   *)
(*                                                                         *)
(* The ancestors of a tip are defined by paths of any length, which would  *)
(* call for an induction; the walk supplies it.  The invariant says that   *)
(* the cursor is the only share as many steps back as the walk has hopped, *)
(* so one hop extends every path there is by one link.                     *)
(***************************************************************************)
EXTENDS ReorgWalk, TLAPS

\* No step back: the tip itself.
LEMMA BackZero ==
    ASSUME NEW t \in Hashes, NEW s \in Hashes
    PROVE  Back(t, s, 0) <=> s = t
  <1>1. ASSUME Back(t, s, 0) PROVE s = t
    BY <1>1 DEF Back
  <1>2. ASSUME s = t PROVE Back(t, s, 0)
    <2> DEFINE path == [i \in 0..0 |-> t]
    <2>1. path \in [0..0 -> Hashes] /\ path[0] = t
      OBVIOUS
    <2>2. \A i \in 0..(0 - 1) : path[i] \in Shares /\ path[i + 1] = Prev[path[i]]
      OBVIOUS
    <2> HIDE DEF path
    <2> QED
      BY <2>1, <2>2, <1>2 DEF Back
  <1> QED
    BY <1>1, <1>2

\* One step more: one link from a share one step nearer.
LEMMA BackStep ==
    ASSUME NEW t \in Hashes, NEW s \in Hashes, NEW k \in Nat
    PROVE  Back(t, s, k + 1) <=> \E m \in Shares : Back(t, m, k) /\ s = Prev[m]
  <1>1. ASSUME Back(t, s, k + 1)
        PROVE  \E m \in Shares : Back(t, m, k) /\ s = Prev[m]
    <2>1. PICK path \in [0..(k + 1) -> Hashes] :
              /\ path[0] = t /\ path[k + 1] = s
              /\ \A i \in 0..k : path[i] \in Shares /\ path[i + 1] = Prev[path[i]]
      BY <1>1 DEF Back
    <2> DEFINE front == [i \in 0..k |-> path[i]]
    <2>2. /\ front \in [0..k -> Hashes] /\ front[0] = t /\ front[k] = path[k]
          /\ \A i \in 0..(k - 1) : front[i] \in Shares /\ front[i + 1] = Prev[front[i]]
      BY <2>1
    <2>3. Back(t, path[k], k)
      BY <2>2 DEF Back
    <2> QED
      BY <2>1, <2>3
  <1>2. ASSUME NEW m \in Shares, Back(t, m, k), s = Prev[m]
        PROVE  Back(t, s, k + 1)
    <2>1. PICK path \in [0..k -> Hashes] :
              /\ path[0] = t /\ path[k] = m
              /\ \A i \in 0..(k - 1) : path[i] \in Shares /\ path[i + 1] = Prev[path[i]]
      BY <1>2 DEF Back
    <2> DEFINE longer == [i \in 0..(k + 1) |-> IF i = k + 1 THEN s ELSE path[i]]
    <2>2. longer \in [0..(k + 1) -> Hashes]
      BY <2>1
    <2>3. longer[0] = t /\ longer[k + 1] = s
      BY <2>1
    <2>4. ASSUME NEW i \in 0..((k + 1) - 1)
          PROVE  longer[i] \in Shares /\ longer[i + 1] = Prev[longer[i]]
      <3>1. CASE i = k
        BY <3>1, <2>1, <1>2
      <3>2. CASE i # k
        BY <3>2, <2>1
      <3> QED
        BY <3>1, <3>2
    <2> QED
      BY <2>2, <2>3, <2>4 DEF Back
  <1> QED
    BY <1>1, <1>2

\* A longer path passes a share at every shorter distance.
LEMMA BackPrefix ==
    ASSUME NEW t \in Hashes, NEW s \in Shares, NEW k \in Nat, NEW n \in 0..k, Back(t, s, k)
    PROVE  \E m \in Shares : Back(t, m, n)
  <1>1. PICK path \in [0..k -> Hashes] :
            /\ path[0] = t /\ path[k] = s
            /\ \A i \in 0..(k - 1) : path[i] \in Shares /\ path[i + 1] = Prev[path[i]]
    BY DEF Back
  <1> DEFINE front == [i \in 0..n |-> path[i]]
  <1>2. /\ front \in [0..n -> Hashes] /\ front[0] = t /\ front[n] = path[n]
        /\ \A i \in 0..(n - 1) : front[i] \in Shares /\ front[i + 1] = Prev[front[i]]
    BY <1>1
  <1>3. Back(t, path[n], n)
    BY <1>2 DEF Back
  <1>4. path[n] \in Shares
    BY <1>1
  <1> QED
    BY <1>3, <1>4

LEMMA WithinStep ==
    ASSUME NEW t \in Hashes, NEW s \in Hashes, NEW k \in Nat
    PROVE  Within(t, s, k + 1) <=> Within(t, s, k) \/ Back(t, s, k + 1)
  BY DEF Within

-----------------------------------------------------------------------------

\* The cursor is the one share that many steps back, the shares met are the
\* ancestors so far, and a walk stops at the limit or where no link leads on.
WalkInv(w) ==
    /\ pc[w] = "idle" => hops[w] = 0
    /\ pc[w] = "walking" => hops[w] < Depth
    /\ pc[w] = "retain" => hops[w] = Depth \/ Link(cursor[w]) = None
    /\ pc[w] \in {"walking", "retain"} =>
        /\ \A s \in Hashes : Back(new_tip[w], s, hops[w]) <=> s = cursor[w]
        /\ \A s \in Hashes : s \in ancestors[w] <=> Within(new_tip[w], s, hops[w])

IInv == TypeOK /\ \A w \in Walkers : WalkInv(w)

LEMMA WalkInit == Init => IInv
  BY DepthAssumption DEF Init, IInv, TypeOK, WalkInv, Hashes

\* A step that leaves the walks alone.
LEMMA OtherStep ==
    ASSUME IInv, TypeOK', UNCHANGED walks
    PROVE  IInv'
  BY DEF IInv, WalkInv, walks

LEMMA TypeStep == IInv /\ [Next]_vars => TypeOK'
  <1> SUFFICES ASSUME IInv, [Next]_vars PROVE TypeOK'
    OBVIOUS
  <1> USE SharesAssumption, PrevAssumption, DepthAssumption DEF IInv, TypeOK, Hashes, walks, jobs
  <1>1. CASE ChainTipChange
    BY <1>1 DEF ChainTipChange
  <1>2. ASSUME NEW j \in Jobs, Capture(j) PROVE TypeOK'
    BY <1>2 DEF Capture
  <1>3. ASSUME NEW j \in Jobs, Insert(j) \/ Remove(j) PROVE TypeOK'
    BY <1>3 DEF Insert, Remove
  <1>4. ASSUME NEW w \in Walkers, Notify(w) PROVE TypeOK'
    BY <1>4 DEF Notify, Goto, Retain
  <1>5. ASSUME NEW w \in Walkers, Hop(w) PROVE TypeOK'
    <2>1. hops[w] < Depth
      BY <1>5 DEF Hop, WalkInv
    <2>2. Link(cursor[w]) \in Hashes
      BY <1>5 DEF Hop, Link
    <2> QED
      BY <1>5, <2>1, <2>2 DEF Hop, Goto
  <1>6. ASSUME NEW w \in Walkers, ReachGenesis(w) PROVE TypeOK'
    BY <1>6 DEF ReachGenesis, Goto
  <1>7. ASSUME NEW w \in Walkers, WalkFails(w) \/ Select(w) PROVE TypeOK'
    BY <1>7 DEF WalkFails, Select, Goto, Retain
  <1>8. CASE UNCHANGED vars
    BY <1>8 DEF vars
  <1> QED
    BY <1>1, <1>2, <1>3, <1>4, <1>5, <1>6, <1>7, <1>8 DEF Next

\* A walk starts at its tip.
LEMMA NotifyStep ==
    ASSUME IInv, NEW w \in Walkers, Notify(w), TypeOK'
    PROVE  IInv'
  <1> USE DepthAssumption DEF IInv, TypeOK
  <1>1. ASSUME NEW v \in Walkers, v # w PROVE WalkInv(v)'
    BY <1>1 DEF Notify, Goto, WalkInv
  <1>2. WalkInv(w)'
    <2>1. PICK t \in Hashes : /\ new_tip'[w] = t /\ cursor'[w] = t
                              /\ ancestors'[w] = {t} /\ hops'[w] = 0
      BY DEF Notify, WalkInv
    <2>2. pc'[w] \in {"walking", "done"}
      BY DEF Notify, Goto
    <2>3. \A s \in Hashes : Back(t, s, 0) <=> s = t
      BY BackZero
    <2>4. \A s \in Hashes : Within(t, s, 0) <=> Back(t, s, 0)
      BY DEF Within
    <2> QED
      BY <2>1, <2>2, <2>3, <2>4 DEF WalkInv
  <1> QED
    BY <1>1, <1>2

\* A hop extends the only path there is by one link.
LEMMA HopStep ==
    ASSUME IInv, NEW w \in Walkers, Hop(w), TypeOK'
    PROVE  IInv'
  <1> USE SharesAssumption, PrevAssumption, DepthAssumption DEF IInv, TypeOK
  <1> DEFINE t == new_tip[w]
             c == cursor[w]
             h == hops[w]
             p == Prev[c]
  <1>1. ASSUME NEW v \in Walkers, v # w PROVE WalkInv(v)'
    BY <1>1 DEF Hop, Goto, WalkInv
  <1>2. /\ c \in Shares /\ p \in Shares /\ t \in Hashes /\ h \in Nat /\ h < Depth
        /\ \A s \in Hashes : Back(t, s, h) <=> s = c
        /\ \A s \in Hashes : s \in ancestors[w] <=> Within(t, s, h)
    BY DEF Hop, Link, WalkInv, Hashes
  <1>3. /\ new_tip'[w] = t /\ cursor'[w] = p /\ hops'[w] = h + 1
        /\ ancestors'[w] = ancestors[w] \cup {p}
        /\ pc'[w] = IF h + 1 = Depth THEN "retain" ELSE "walking"
    BY DEF Hop, Link, Goto, Hashes
  <1>4. ASSUME NEW s \in Hashes PROVE Back(t, s, h + 1) <=> s = p
    <2>1. Back(t, s, h + 1) <=> \E m \in Shares : Back(t, m, h) /\ s = Prev[m]
      BY BackStep, <1>2
    <2> QED
      BY <2>1, <1>2 DEF Hashes
  <1>5. ASSUME NEW s \in Hashes
        PROVE  s \in ancestors[w] \cup {p} <=> Within(t, s, h + 1)
    BY <1>2, <1>4, WithinStep
  <1> HIDE DEF t, c, h, p
  <1>6. WalkInv(w)'
    BY <1>2, <1>3, <1>4, <1>5 DEF WalkInv
  <1> QED
    BY <1>1, <1>6

LEMMA WalkStep == IInv /\ [Next]_vars => IInv'
  <1> SUFFICES ASSUME IInv, [Next]_vars PROVE IInv'
    OBVIOUS
  <1>0. TypeOK'
    BY TypeStep
  <1>1. CASE ChainTipChange
    BY <1>0, <1>1, OtherStep DEF ChainTipChange
  <1>2. ASSUME NEW j \in Jobs, Capture(j) \/ Insert(j) \/ Remove(j) PROVE IInv'
    BY <1>0, <1>2, OtherStep DEF Capture, Insert, Remove
  <1>3. ASSUME NEW w \in Walkers, Notify(w) PROVE IInv'
    BY <1>0, <1>3, NotifyStep
  <1>4. ASSUME NEW w \in Walkers, Hop(w) PROVE IInv'
    BY <1>0, <1>4, HopStep
  <1>5. ASSUME NEW w \in Walkers, ReachGenesis(w) PROVE IInv'
    BY <1>0, <1>5 DEF IInv, TypeOK, WalkInv, ReachGenesis, Goto
  <1>6. ASSUME NEW w \in Walkers, WalkFails(w) \/ Select(w) PROVE IInv'
    BY <1>0, <1>6 DEF IInv, TypeOK, WalkInv, WalkFails, Select, Goto
  <1>7. CASE UNCHANGED vars
    BY <1>0, <1>7, OtherStep DEF vars
  <1> QED
    BY <1>1, <1>2, <1>3, <1>4, <1>5, <1>6, <1>7 DEF Next

-----------------------------------------------------------------------------

\* A walk that has stopped has every ancestor within the limit.
LEMMA WalkComplete ==
    ASSUME IInv, NEW w \in Walkers, pc[w] = "retain", NEW s \in Shares
    PROVE  /\ hops[w] = Depth \/ ~ Back(new_tip[w], s, hops[w] + 1)
           /\ s \in ancestors[w] <=> Within(new_tip[w], s, Depth)
  <1> USE SharesAssumption, PrevAssumption, DepthAssumption
  <1> DEFINE t == new_tip[w]
             h == hops[w]
  <1>1. /\ t \in Hashes /\ h \in 0..Depth /\ cursor[w] \in Hashes
        /\ h = Depth \/ Link(cursor[w]) = None
        /\ \A m \in Hashes : Back(t, m, h) <=> m = cursor[w]
        /\ \A m \in Hashes : m \in ancestors[w] <=> Within(t, m, h)
    BY DEF IInv, TypeOK, WalkInv
  <1>2. ASSUME h # Depth, NEW m \in Shares PROVE ~ Back(t, m, h + 1)
    <2>1. Back(t, m, h + 1) => \E n \in Shares : Back(t, n, h) /\ m = Prev[n]
      BY BackStep, <1>1 DEF Hashes
    <2>2. ASSUME NEW n \in Shares, Back(t, n, h), m = Prev[n] PROVE FALSE
      BY <1>1, <1>2, <2>2 DEF Hashes, Link
    <2> QED
      BY <2>1, <2>2
  <1>3. ASSUME Within(t, s, Depth) PROVE Within(t, s, h)
    <2>1. PICK k \in 0..Depth : Back(t, s, k)
      BY <1>3 DEF Within
    <2>2. CASE k <= h
      BY <2>1, <2>2, <1>1 DEF Within
    <2>3. CASE k > h
      <3>1. PICK m \in Shares : Back(t, m, h + 1)
        BY <1>1, <2>1, <2>3, BackPrefix
      <3> QED
        BY <3>1, <1>1, <1>2, <2>3
    <2> QED
      BY <2>2, <2>3, <1>1
  <1>4. ASSUME Within(t, s, h) PROVE Within(t, s, Depth)
    BY <1>1, <1>4 DEF Within
  <1>5. s \in Hashes
    BY DEF Hashes
  <1> HIDE DEF t, h
  <1> QED
    BY <1>1, <1>2, <1>3, <1>4, <1>5 DEF t, h

\* Walks, jobs and the chain tip keep their types: no hop leaves the share chain.
THEOREM TypeCorrect == Spec => []TypeOK
  <1>1. IInv => TypeOK
    BY DEF IInv
  <1> QED
    BY WalkInit, WalkStep, <1>1, PTL DEF Spec

\* The hook collects exactly the ancestors of its own new tip, as far as it has
\* gone, and stops only at the limit or where the chain begins.
THEOREM CollectsAncestors == Spec => []WalkCollectsAncestors
  <1>1. IInv => WalkCollectsAncestors
    <2> SUFFICES ASSUME IInv, NEW w \in Walkers, pc[w] \in {"walking", "retain"}
                 PROVE  /\ \A s \in Hashes : s \in ancestors[w] <=> Within(new_tip[w], s, hops[w])
                        /\ pc[w] = "retain" => (hops[w] = Depth
                              \/ ~ \E s \in Shares : Back(new_tip[w], s, hops[w] + 1))
      BY DEF WalkCollectsAncestors
    <2>1. \A s \in Hashes : s \in ancestors[w] <=> Within(new_tip[w], s, hops[w])
      BY DEF IInv, WalkInv
    <2>2. pc[w] = "retain" => (hops[w] = Depth
              \/ ~ \E s \in Shares : Back(new_tip[w], s, hops[w] + 1))
      BY WalkComplete
    <2> QED
      BY <2>1, <2>2
  <1> QED
    BY WalkInit, WalkStep, <1>1, PTL DEF Spec

\* When the walk ends, a cached job stays if and only if the share it was
\* declared on is the new tip or one of its last Depth ancestors.
THEOREM SelectsJobs == Spec => SelectsByAncestry
  <1>1. IInv /\ [Next]_vars =>
            [\A w \in Walkers : (pc[w] = "retain" /\ pc'[w] = "done") =>
                \A j \in Jobs : phase[j] = "cached" =>
                    (phase'[j] = "cached" <=>
                        captured[j] # None /\ Within(new_tip[w], captured[j], Depth))]_vars
    <2> SUFFICES ASSUME IInv, [Next]_vars, NEW w \in Walkers, pc[w] = "retain", pc'[w] = "done",
                        NEW j \in Jobs, phase[j] = "cached"
                 PROVE  phase'[j] = "cached" <=>
                            captured[j] # None /\ Within(new_tip[w], captured[j], Depth)
      OBVIOUS
    <2>1. Select(w)
      <3>1. \A v \in Walkers : v # w => ~ (Notify(v) \/ Hop(v) \/ ReachGenesis(v) \/ WalkFails(v) \/ Select(v))
        BY DEF IInv, TypeOK, Notify, Hop, ReachGenesis, WalkFails, Select, Goto
      <3>2. ~ (Notify(w) \/ Hop(w) \/ ReachGenesis(w) \/ WalkFails(w))
        BY DEF Notify, Hop, ReachGenesis, WalkFails
      <3>3. pc' # pc
        OBVIOUS
      <3> QED
        BY <3>1, <3>2, <3>3 DEF Next, vars, walks, ChainTipChange, Capture, Insert, Remove
    <2>2. phase'[j] = "cached" <=> captured[j] \in ancestors[w]
      BY <2>1 DEF Select, Retain
    <2>3. CASE captured[j] = None
      <3>1. None \notin ancestors[w]
        BY SharesAssumption DEF IInv, TypeOK, Hashes
      <3> QED
        BY <2>2, <2>3, <3>1
    <2>4. CASE captured[j] # None
      <3>1. captured[j] \in Shares
        BY <2>4 DEF IInv, TypeOK
      <3> QED
        BY <2>2, <2>4, <3>1, WalkComplete
    <2> QED
      BY <2>3, <2>4
  <1> QED
    BY WalkInit, WalkStep, <1>1, PTL DEF Spec, SelectsByAncestry
=============================================================================
