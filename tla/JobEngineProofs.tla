-------------------------- MODULE JobEngineProofs --------------------------
(***************************************************************************)
(* Proofs about JobEngine, for every set of calls, request ids, tokens,    *)
(* templates and tips.                                                     *)
(*                                                                         *)
(* Everything rests on LocalInv: what a call's program counter says about  *)
(* its locals (a declaration holds the job it is building, a call about to *)
(* take a job knows a request id, ...).  The safety invariants each get    *)
(* their own strengthening on top of it.                                   *)
(***************************************************************************)
EXTENDS JobEngine, TLAPS

\* What the program counter of a call says about its locals.
LocalOf(c) ==
        /\ pc[c] = "idle" => held[c] = None
        /\ pc[c] \in DeclareSteps =>
              /\ op[c] = "declare"
              /\ <<rid[c], token[c]>> \in Alphabet
              /\ held[c] \in Job /\ held[c].decl = c /\ held[c].token = token[c]
        /\ pc[c] \in {"s_drop", "s_take"} =>
              /\ op[c] = "scmj" /\ held[c] = None
              /\ rid[c] \in RequestIds /\ token[c] \in Tokens
        /\ pc[c] \in {"s_bodies", "s_propose"} => op[c] = "scmj" /\ held[c] \in Job
        /\ pc[c] = "p_get" => /\ op[c] = "push" /\ rid[c] \in RequestIds
                              /\ sol[c] \in Solution /\ held[c] = None
        /\ pc[c] \in {"p_bodies", "p_submit"} =>
              op[c] = "push" /\ sol[c] \in Solution /\ held[c] \in Job

LocalInv == \A c \in Calls : LocalOf(c)

TypeInv == TypeOK /\ LocalInv

\* The initial state satisfies TypeInv.
LEMMA TypeInit == Init => TypeInv
  <1> SUFFICES ASSUME Init PROVE TypeInv
    OBVIOUS
  <1>1. TypeOK
    BY DEF Init, TypeOK
  <1>2. LocalInv
    BY DEF Init, LocalInv, LocalOf, DeclareSteps
  <1> QED
    BY <1>1, <1>2 DEF TypeInv

\* The checks of a SetCustomMiningJob yield an outcome of the result type.
LEMMA MismatchType ==
    ASSUME NEW job, NEW prev, NEW work, Mismatch(job, prev, work) # "none"
    PROVE  Mismatch(job, prev, work) \in Results
  BY DEF Mismatch, Results

\* Every step preserves TypeInv.
LEMMA TypeStep == TypeInv /\ [Next]_vars => TypeInv'
  <1> SUFFICES ASSUME TypeInv, [Next]_vars PROVE TypeInv'
    OBVIOUS
  <1> USE AlphabetAssumption, TemplateAssumption, NoneAssumption
      DEF shared, snapshots, chain, locals, DeclareSteps, ScmjSteps, PushSteps
  <1>1. ASSUME NEW c \in Calls, DeclareRefuse(c) PROVE TypeInv'
    BY <1>1 DEF TypeInv, TypeOK, LocalInv, LocalOf, DeclareRefuse, Return, Results
  <1>2. ASSUME NEW c \in Calls, DeclareStart(c) PROVE TypeInv'
    BY <1>2 DEF TypeInv, TypeOK, LocalInv, LocalOf, DeclareStart, Goto, Job
  <1>3. ASSUME NEW c \in Calls, DeclareReadTemplate(c) PROVE TypeInv'
    <2>0. held[c] \in Job
      BY <1>3 DEF TypeInv, LocalInv, LocalOf, DeclareReadTemplate
    <2>a. /\ held' \in [Calls -> Job \cup {None}]
          /\ held'[c] \in Job
      BY <1>3, <2>0 DEF TypeInv, TypeOK, DeclareReadTemplate, CurrentTemplate, Job
    <2>1. TypeOK'
      BY <1>3, <2>a DEF TypeInv, TypeOK, DeclareReadTemplate, CurrentTemplate, Goto
    <2>2. LocalInv'
      <3> SUFFICES ASSUME NEW d \in Calls PROVE LocalOf(d)'
        BY DEF LocalInv
      <3>1. CASE d = c
        BY <1>3, <3>1 DEF TypeInv, TypeOK, LocalInv, LocalOf, DeclareReadTemplate, CurrentTemplate, Goto, Job
      <3>2. CASE d # c
        BY <1>3, <3>2 DEF TypeInv, TypeOK, LocalInv, LocalOf, DeclareReadTemplate, CurrentTemplate, Goto, Job
      <3> QED
        BY <3>1, <3>2
    <2> QED
      BY <2>1, <2>2 DEF TypeInv
  <1>4. ASSUME NEW c \in Calls, DeclareReadShareTip(c) PROVE TypeInv'
    <2>0. held[c] \in Job
      BY <1>4 DEF TypeInv, LocalInv, LocalOf, DeclareReadShareTip
    <2>a. /\ held' \in [Calls -> Job \cup {None}]
          /\ held'[c] \in Job
      BY <1>4, <2>0 DEF TypeInv, TypeOK, DeclareReadShareTip, Job
    <2>1. TypeOK'
      BY <1>4, <2>a DEF TypeInv, TypeOK, DeclareReadShareTip, Goto
    <2>2. LocalInv'
      <3> SUFFICES ASSUME NEW d \in Calls PROVE LocalOf(d)'
        BY DEF LocalInv
      <3>1. CASE d = c
        BY <1>4, <3>1 DEF TypeInv, TypeOK, LocalInv, LocalOf, DeclareReadShareTip, Goto, Job
      <3>2. CASE d # c
        BY <1>4, <3>2 DEF TypeInv, TypeOK, LocalInv, LocalOf, DeclareReadShareTip, Goto, Job
      <3> QED
        BY <3>1, <3>2
    <2> QED
      BY <2>1, <2>2 DEF TypeInv
  <1>5. ASSUME NEW c \in Calls, DeclareInsert(c) PROVE TypeInv'
    <2>1. TypeOK'
      BY <1>5 DEF TypeInv, TypeOK, LocalInv, DeclareInsert, Insert, Goto
    <2>2. LocalInv'
      <3> SUFFICES ASSUME NEW d \in Calls PROVE LocalOf(d)'
        BY DEF LocalInv
      <3>1. CASE d = c
        BY <1>5, <3>1 DEF TypeInv, TypeOK, LocalInv, LocalOf, DeclareInsert, Insert, Goto
      <3>2. CASE d # c
        BY <1>5, <3>2 DEF TypeInv, TypeOK, LocalInv, LocalOf, DeclareInsert, Insert, Goto
      <3> QED
        BY <3>1, <3>2
    <2> QED
      BY <2>1, <2>2 DEF TypeInv
  <1>6. ASSUME NEW c \in Calls, DeclareBind(c) PROVE TypeInv'
    <2>1. TypeOK'
      BY <1>6 DEF TypeInv, TypeOK, LocalInv, DeclareBind, Return, Forget, Results
    <2>2. LocalInv'
      <3> SUFFICES ASSUME NEW d \in Calls PROVE LocalOf(d)'
        BY DEF LocalInv
      <3>1. CASE d = c
        BY <1>6, <3>1 DEF TypeInv, TypeOK, LocalInv, LocalOf, DeclareBind, Return, Forget, Results
      <3>2. CASE d # c
        BY <1>6, <3>2 DEF TypeInv, TypeOK, LocalInv, LocalOf, DeclareBind, Return, Forget, Results
      <3> QED
        BY <3>1, <3>2
    <2> QED
      BY <2>1, <2>2 DEF TypeInv
  <1>7. ASSUME NEW c \in Calls, ScmjLookup(c) PROVE TypeInv'
    <2>1. TypeOK'
      BY <1>7 DEF TypeInv, TypeOK, LocalInv, ScmjLookup, Return, Goto, Results
    <2>2. LocalInv'
      <3> SUFFICES ASSUME NEW d \in Calls PROVE LocalOf(d)'
        BY DEF LocalInv
      <3>1. CASE d = c
        <4> PICK t \in Tokens :
              /\ token' = [token EXCEPT ![c] = t]
              /\ rid' = [rid EXCEPT ![c] = allocated_tokens[t]]
              /\ IF allocated_tokens[t] = None
                 THEN Return(c, "bad_token")
                 ELSE Goto(c, "s_drop") /\ UNCHANGED result
          BY <1>7 DEF ScmjLookup
        <4>1. held'[c] = None
          BY <1>7 DEF TypeInv, LocalInv, LocalOf, ScmjLookup
        <4>4. op'[c] = "scmj"
          BY <1>7 DEF TypeInv, TypeOK, ScmjLookup
        <4>2. token'[c] \in Tokens /\ rid'[c] = allocated_tokens[t]
          BY DEF TypeInv, TypeOK
        <4>3. \/ pc'[c] = "done"
              \/ pc'[c] = "s_drop" /\ rid'[c] \in RequestIds
          BY <4>2 DEF TypeInv, TypeOK, Return, Goto
        <4> QED
          BY <3>1, <4>1, <4>2, <4>3, <4>4 DEF LocalOf
      <3>2. CASE d # c
        BY <1>7, <3>2 DEF TypeInv, TypeOK, LocalInv, LocalOf, ScmjLookup, Return, Goto, Results
      <3> QED
        BY <3>1, <3>2
    <2> QED
      BY <2>1, <2>2 DEF TypeInv
  <1>8. ASSUME NEW c \in Calls, ScmjDropToken(c) PROVE TypeInv'
    <2>1. TypeOK'
      BY <1>8 DEF TypeInv, TypeOK, LocalInv, ScmjDropToken, Goto
    <2>2. LocalInv'
      <3> SUFFICES ASSUME NEW d \in Calls PROVE LocalOf(d)'
        BY DEF LocalInv
      <3>1. CASE d = c
        BY <1>8, <3>1 DEF TypeInv, TypeOK, LocalInv, LocalOf, ScmjDropToken, Goto
      <3>2. CASE d # c
        BY <1>8, <3>2 DEF TypeInv, TypeOK, LocalInv, LocalOf, ScmjDropToken, Goto
      <3> QED
        BY <3>1, <3>2
    <2> QED
      BY <2>1, <2>2 DEF TypeInv
  <1>9. ASSUME NEW c \in Calls, ScmjTake(c) PROVE TypeInv'
    <2>0. rid[c] \in RequestIds /\ declared_jobs[rid[c]] \in Job \cup {None}
      BY <1>9 DEF TypeInv, TypeOK, LocalInv, LocalOf, ScmjTake
    <2>1. TypeOK'
      BY <1>9, <2>0, MismatchType DEF TypeInv, TypeOK, ScmjTake, Remove, Return, Goto, Results
    <2>2. LocalInv'
      <3> SUFFICES ASSUME NEW d \in Calls PROVE LocalOf(d)'
        BY DEF LocalInv
      <3>1. CASE d = c
        BY <1>9, <3>1 DEF TypeInv, TypeOK, LocalInv, LocalOf, ScmjTake, Remove, Return, Goto, Results
      <3>2. CASE d # c
        BY <1>9, <3>2 DEF TypeInv, TypeOK, LocalInv, LocalOf, ScmjTake, Remove, Return, Goto, Results
      <3> QED
        BY <3>1, <3>2
    <2> QED
      BY <2>1, <2>2 DEF TypeInv
  <1>10. ASSUME NEW c \in Calls, ScmjBodies(c) PROVE TypeInv'
    BY <1>10 DEF TypeInv, TypeOK, LocalInv, LocalOf, ScmjBodies, Return, Goto, Results
  <1>11. ASSUME NEW c \in Calls, ScmjPropose(c) PROVE TypeInv'
    BY <1>11 DEF TypeInv, TypeOK, LocalInv, LocalOf, ScmjPropose, Return, Results
  <1>12. ASSUME NEW c \in Calls, PushFind(c) PROVE TypeInv'
    <2>1. TypeOK'
      BY <1>12 DEF TypeInv, TypeOK, LocalInv, PushFind, Matches, Record, Return, Goto, Results
    <2>2. LocalInv'
      <3> SUFFICES ASSUME NEW d \in Calls PROVE LocalOf(d)'
        BY DEF LocalInv
      <3>1. CASE d = c
        <4>1. held'[c] = None
          BY <1>12 DEF TypeInv, LocalInv, LocalOf, PushFind
        <4>3. op'[c] = "push"
          BY <1>12 DEF TypeInv, TypeOK, PushFind
        <4>4. sol'[c] \in Solution
          BY <1>12 DEF TypeInv, TypeOK, PushFind
        <4>2. \/ pc'[c] = "done"
              \/ pc'[c] = "p_get" /\ rid'[c] \in RequestIds
          BY <1>12 DEF TypeInv, TypeOK, PushFind, Matches, Return, Goto
        <4> QED
          BY <3>1, <4>1, <4>2, <4>3, <4>4 DEF LocalOf
      <3>2. CASE d # c
        BY <1>12, <3>2 DEF TypeInv, TypeOK, LocalInv, LocalOf, PushFind, Matches, Record, Return, Goto, Results
      <3> QED
        BY <3>1, <3>2
    <2> QED
      BY <2>1, <2>2 DEF TypeInv
  <1>13. ASSUME NEW c \in Calls, PushGet(c) PROVE TypeInv'
    <2>0. /\ rid[c] \in RequestIds /\ declared_jobs[rid[c]] \in Job \cup {None}
          /\ sol[c] \in Solution
      BY <1>13 DEF TypeInv, TypeOK, LocalInv, LocalOf, PushGet
    <2>a. recent_solutions' \in [Solution -> Block \cup {Synthetic, None}]
      BY <1>13, <2>0 DEF TypeInv, TypeOK, PushGet, Record
    <2>1. TypeOK'
      BY <1>13, <2>0, <2>a DEF TypeInv, TypeOK, PushGet, Return, Goto, Results
    <2>2. LocalInv'
      <3> SUFFICES ASSUME NEW d \in Calls PROVE LocalOf(d)'
        BY DEF LocalInv
      <3>1. CASE d = c
        BY <1>13, <3>1 DEF TypeInv, TypeOK, LocalInv, LocalOf, PushGet, Record, Return, Goto, Results
      <3>2. CASE d # c
        BY <1>13, <3>2 DEF TypeInv, TypeOK, LocalInv, LocalOf, PushGet, Record, Return, Goto, Results
      <3> QED
        BY <3>1, <3>2
    <2> QED
      BY <2>1, <2>2 DEF TypeInv
  <1>14. ASSUME NEW c \in Calls, PushBodies(c) PROVE TypeInv'
    <2>1. BlockOf(c) \in Block
      BY <1>14 DEF TypeInv, TypeOK, LocalInv, LocalOf, PushBodies, BlockOf, Block, Job
    <2> QED
      BY <1>14, <2>1 DEF TypeInv, TypeOK, LocalInv, LocalOf, PushBodies, Record, Return, Goto, Results
  <1>15. ASSUME NEW c \in Calls, PushSubmit(c) PROVE TypeInv'
    <2>1. BlockOf(c) \in Block
      BY <1>15 DEF TypeInv, TypeOK, LocalInv, LocalOf, PushSubmit, BlockOf, Block, Job
    <2> QED
      BY <1>15, <2>1 DEF TypeInv, TypeOK, LocalInv, LocalOf, PushSubmit, Return, Forget, Results
  <1>16. CASE ReorgFlush
    BY <1>16 DEF TypeInv, TypeOK, LocalInv, LocalOf, ReorgFlush
  <1>17. CASE ChainTipChange
    BY <1>17 DEF TypeInv, TypeOK, LocalInv, LocalOf, ChainTipChange
  <1>18. CASE NewTemplate
    BY <1>18 DEF TypeInv, TypeOK, LocalInv, LocalOf, NewTemplate
  <1>19. CASE SetNewPrevHash
    BY <1>19 DEF TypeInv, TypeOK, LocalInv, LocalOf, SetNewPrevHash
  <1>20. CASE SweepSolutions
    BY <1>20 DEF TypeInv, TypeOK, LocalInv, LocalOf, SweepSolutions
  <1>21. CASE UNCHANGED vars
    BY <1>21 DEF TypeInv, TypeOK, LocalInv, LocalOf, vars
  <1> QED
    BY <1>1, <1>2, <1>3, <1>4, <1>5, <1>6, <1>7, <1>8, <1>9, <1>10, <1>11, <1>12, <1>13,
       <1>14, <1>15, <1>16, <1>17, <1>18, <1>19, <1>20, <1>21 DEF Next, Declare, Scmj, Push

\* The typing part of the invariant, for the other theorems to build on.
LEMMA TypeAlways == Spec => []TypeInv
  BY TypeInit, TypeStep, PTL DEF Spec

\* The engine's maps and the locals of its handlers stay well typed.
THEOREM TypeCorrect == Spec => []TypeOK
  BY TypeAlways, PTL DEF TypeInv

-----------------------------------------------------------------------------
(***************************************************************************)
(* What most steps leave alone.  Each lemma names the few actions that are *)
(* exceptions; the invariants below then only deal with those.             *)
(***************************************************************************)

\* A call that has not inserted a job of its own yet.
Early(c) == pc[c] \in {"idle", "d_template", "d_share", "d_insert"}

\* A call that has looked a token up and is yet to take the job.
Claiming(c) == pc[c] \in {"s_drop", "s_take"}

\* The cache gets no new job, no further call has taken one, none turns early.
Quiet ==
    /\ \A r \in RequestIds : declared_jobs'[r] \in {declared_jobs[r], None}
    /\ \A e \in Calls : Took(e)' => Took(e) /\ held'[e] = held[e] /\ token'[e] = token[e]
    /\ \A e \in Calls : Early(e)' => Early(e)

\* No token is bound, and no further call has looked one up.
Settled ==
    /\ \A t \in Tokens : allocated_tokens'[t] \in {allocated_tokens[t], None}
    /\ \A e \in Calls : Claiming(e)' =>
          Claiming(e) /\ rid'[e] = rid[e] /\ token'[e] = token[e]

\* The tokens stay, and so does every call about to bind one or to take a job.
Steady ==
    /\ allocated_tokens' = allocated_tokens
    /\ \A e \in Calls : pc[e] \in {"d_bind", "s_take"} =>
          pc'[e] = pc[e] /\ rid'[e] = rid[e] /\ token'[e] = token[e]

\* Only an insert adds to the cache, and only a take takes.
LEMMA QuietStep ==
    ASSUME TypeInv, [Next]_vars
    PROVE  Quiet \/ \E c \in Calls : DeclareInsert(c) \/ ScmjTake(c)
  <1> USE NoneAssumption DEF shared, snapshots, chain, locals, DeclareSteps
  <1>1. ASSUME NEW c \in Calls, DeclareRefuse(c) PROVE Quiet
    <2>1. \A r \in RequestIds : declared_jobs'[r] \in {declared_jobs[r], None}
      BY <1>1 DEF DeclareRefuse
    <2>2. \A e \in Calls : Took(e)' => Took(e) /\ held'[e] = held[e] /\ token'[e] = token[e]
      BY <1>1 DEF TypeInv, TypeOK, LocalInv, LocalOf, DeclareRefuse, Took, Return
    <2>3. \A e \in Calls : Early(e)' => Early(e)
      BY <1>1 DEF TypeInv, TypeOK, DeclareRefuse, Early, Return
    <2> QED
      BY <2>1, <2>2, <2>3 DEF Quiet
  <1>2. ASSUME NEW c \in Calls, DeclareStart(c) PROVE Quiet
    <2>1. \A r \in RequestIds : declared_jobs'[r] \in {declared_jobs[r], None}
      BY <1>2 DEF DeclareStart
    <2>2. \A e \in Calls : Took(e)' => Took(e) /\ held'[e] = held[e] /\ token'[e] = token[e]
      BY <1>2 DEF TypeInv, TypeOK, LocalInv, LocalOf, DeclareStart, Took, Goto
    <2>3. \A e \in Calls : Early(e)' => Early(e)
      BY <1>2 DEF TypeInv, TypeOK, DeclareStart, Early, Goto
    <2> QED
      BY <2>1, <2>2, <2>3 DEF Quiet
  <1>3. ASSUME NEW c \in Calls, DeclareReadTemplate(c) PROVE Quiet
    <2>1. \A r \in RequestIds : declared_jobs'[r] \in {declared_jobs[r], None}
      BY <1>3 DEF DeclareReadTemplate
    <2>2. \A e \in Calls : Took(e)' => Took(e) /\ held'[e] = held[e] /\ token'[e] = token[e]
      <3>1. op[c] = "declare" /\ op' = op /\ token' = token
        BY <1>3 DEF TypeInv, LocalInv, LocalOf, DeclareReadTemplate
      <3>2. \A e \in Calls : e # c => held'[e] = held[e]
        BY <1>3 DEF TypeInv, TypeOK, DeclareReadTemplate
      <3> QED
        BY <3>1, <3>2 DEF Took
    <2>3. \A e \in Calls : Early(e)' => Early(e)
      BY <1>3 DEF TypeInv, TypeOK, DeclareReadTemplate, Early, Goto
    <2> QED
      BY <2>1, <2>2, <2>3 DEF Quiet
  <1>4. ASSUME NEW c \in Calls, DeclareReadShareTip(c) PROVE Quiet
    <2>1. \A r \in RequestIds : declared_jobs'[r] \in {declared_jobs[r], None}
      BY <1>4 DEF DeclareReadShareTip
    <2>2. \A e \in Calls : Took(e)' => Took(e) /\ held'[e] = held[e] /\ token'[e] = token[e]
      <3>1. op[c] = "declare" /\ op' = op /\ token' = token
        BY <1>4 DEF TypeInv, LocalInv, LocalOf, DeclareReadShareTip
      <3>2. \A e \in Calls : e # c => held'[e] = held[e]
        BY <1>4 DEF TypeInv, TypeOK, DeclareReadShareTip
      <3> QED
        BY <3>1, <3>2 DEF Took
    <2>3. \A e \in Calls : Early(e)' => Early(e)
      BY <1>4 DEF TypeInv, TypeOK, DeclareReadShareTip, Early, Goto
    <2> QED
      BY <2>1, <2>2, <2>3 DEF Quiet
  <1>5. ASSUME NEW c \in Calls, DeclareBind(c) PROVE Quiet
    <2>1. \A r \in RequestIds : declared_jobs'[r] \in {declared_jobs[r], None}
      BY <1>5 DEF DeclareBind
    <2>2. \A e \in Calls : Took(e)' => Took(e) /\ held'[e] = held[e] /\ token'[e] = token[e]
      BY <1>5 DEF TypeInv, TypeOK, LocalInv, LocalOf, DeclareBind, Took, Return, Forget
    <2>3. \A e \in Calls : Early(e)' => Early(e)
      BY <1>5 DEF TypeInv, TypeOK, DeclareBind, Early, Return, Forget
    <2> QED
      BY <2>1, <2>2, <2>3 DEF Quiet
  <1>6. ASSUME NEW c \in Calls, ScmjLookup(c) PROVE Quiet
    <2>1. \A r \in RequestIds : declared_jobs'[r] \in {declared_jobs[r], None}
      BY <1>6 DEF ScmjLookup
    <2>2. \A e \in Calls : Took(e)' => Took(e) /\ held'[e] = held[e] /\ token'[e] = token[e]
      <3>1. held' = held /\ held[c] = None
        BY <1>6 DEF TypeInv, LocalInv, LocalOf, ScmjLookup
      <3>2. \A e \in Calls : e # c => op'[e] = op[e] /\ token'[e] = token[e]
        BY <1>6 DEF TypeInv, TypeOK, ScmjLookup
      <3> QED
        BY <3>1, <3>2 DEF Took
    <2>3. \A e \in Calls : Early(e)' => Early(e)
      BY <1>6 DEF TypeInv, TypeOK, ScmjLookup, Early, Return, Goto
    <2> QED
      BY <2>1, <2>2, <2>3 DEF Quiet
  <1>7. ASSUME NEW c \in Calls, ScmjDropToken(c) PROVE Quiet
    <2>1. \A r \in RequestIds : declared_jobs'[r] \in {declared_jobs[r], None}
      BY <1>7 DEF ScmjDropToken
    <2>2. \A e \in Calls : Took(e)' => Took(e) /\ held'[e] = held[e] /\ token'[e] = token[e]
      BY <1>7 DEF TypeInv, TypeOK, LocalInv, LocalOf, ScmjDropToken, Took, Goto
    <2>3. \A e \in Calls : Early(e)' => Early(e)
      BY <1>7 DEF TypeInv, TypeOK, ScmjDropToken, Early, Goto
    <2> QED
      BY <2>1, <2>2, <2>3 DEF Quiet
  <1>8. ASSUME NEW c \in Calls, ScmjBodies(c) PROVE Quiet
    <2>1. \A r \in RequestIds : declared_jobs'[r] \in {declared_jobs[r], None}
      BY <1>8 DEF ScmjBodies
    <2>2. \A e \in Calls : Took(e)' => Took(e) /\ held'[e] = held[e] /\ token'[e] = token[e]
      BY <1>8 DEF TypeInv, TypeOK, LocalInv, LocalOf, ScmjBodies, Took, Return, Goto
    <2>3. \A e \in Calls : Early(e)' => Early(e)
      BY <1>8 DEF TypeInv, TypeOK, ScmjBodies, Early, Return, Goto
    <2> QED
      BY <2>1, <2>2, <2>3 DEF Quiet
  <1>9. ASSUME NEW c \in Calls, ScmjPropose(c) PROVE Quiet
    <2>1. \A r \in RequestIds : declared_jobs'[r] \in {declared_jobs[r], None}
      BY <1>9 DEF ScmjPropose
    <2>2. \A e \in Calls : Took(e)' => Took(e) /\ held'[e] = held[e] /\ token'[e] = token[e]
      BY <1>9 DEF TypeInv, TypeOK, LocalInv, LocalOf, ScmjPropose, Took, Return
    <2>3. \A e \in Calls : Early(e)' => Early(e)
      BY <1>9 DEF TypeInv, TypeOK, ScmjPropose, Early, Return
    <2> QED
      BY <2>1, <2>2, <2>3 DEF Quiet
  <1>10. ASSUME NEW c \in Calls, PushFind(c) PROVE Quiet
    <2>1. \A r \in RequestIds : declared_jobs'[r] \in {declared_jobs[r], None}
      BY <1>10 DEF PushFind
    <2>2. \A e \in Calls : Took(e)' => Took(e) /\ held'[e] = held[e] /\ token'[e] = token[e]
      BY <1>10 DEF TypeInv, TypeOK, LocalInv, LocalOf, PushFind, Took, Return, Goto
    <2>3. \A e \in Calls : Early(e)' => Early(e)
      BY <1>10 DEF TypeInv, TypeOK, PushFind, Early, Return, Goto
    <2> QED
      BY <2>1, <2>2, <2>3 DEF Quiet
  <1>11. ASSUME NEW c \in Calls, PushGet(c) PROVE Quiet
    <2>1. \A r \in RequestIds : declared_jobs'[r] \in {declared_jobs[r], None}
      BY <1>11 DEF PushGet
    <2>2. \A e \in Calls : Took(e)' => Took(e) /\ held'[e] = held[e] /\ token'[e] = token[e]
      <3>1. op[c] = "push" /\ op' = op /\ token' = token
        BY <1>11 DEF TypeInv, LocalInv, LocalOf, PushGet
      <3>2. \A e \in Calls : e # c => held'[e] = held[e]
        BY <1>11 DEF TypeInv, TypeOK, PushGet
      <3> QED
        BY <3>1, <3>2 DEF Took
    <2>3. \A e \in Calls : Early(e)' => Early(e)
      BY <1>11 DEF TypeInv, TypeOK, PushGet, Early, Return, Goto
    <2> QED
      BY <2>1, <2>2, <2>3 DEF Quiet
  <1>12. ASSUME NEW c \in Calls, PushBodies(c) PROVE Quiet
    <2>1. \A r \in RequestIds : declared_jobs'[r] \in {declared_jobs[r], None}
      BY <1>12 DEF PushBodies
    <2>2. \A e \in Calls : Took(e)' => Took(e) /\ held'[e] = held[e] /\ token'[e] = token[e]
      BY <1>12 DEF TypeInv, TypeOK, LocalInv, LocalOf, PushBodies, Took, Return, Goto
    <2>3. \A e \in Calls : Early(e)' => Early(e)
      BY <1>12 DEF TypeInv, TypeOK, PushBodies, Early, Return, Goto
    <2> QED
      BY <2>1, <2>2, <2>3 DEF Quiet
  <1>13. ASSUME NEW c \in Calls, PushSubmit(c) PROVE Quiet
    <2>1. \A r \in RequestIds : declared_jobs'[r] \in {declared_jobs[r], None}
      BY <1>13 DEF PushSubmit
    <2>2. \A e \in Calls : Took(e)' => Took(e) /\ held'[e] = held[e] /\ token'[e] = token[e]
      BY <1>13 DEF TypeInv, TypeOK, LocalInv, LocalOf, PushSubmit, Took, Return, Forget
    <2>3. \A e \in Calls : Early(e)' => Early(e)
      BY <1>13 DEF TypeInv, TypeOK, PushSubmit, Early, Return, Forget
    <2> QED
      BY <2>1, <2>2, <2>3 DEF Quiet
  <1>14. CASE ReorgFlush
    BY <1>14 DEF ReorgFlush, Quiet, Took, Early
  <1>15. CASE ChainTipChange \/ NewTemplate \/ SetNewPrevHash \/ SweepSolutions \/ UNCHANGED vars
    <2>1. declared_jobs' = declared_jobs /\ pc' = pc /\ op' = op /\ held' = held /\ token' = token
      BY <1>15 DEF ChainTipChange, NewTemplate, SetNewPrevHash, SweepSolutions, vars
    <2> QED
      BY <2>1 DEF Quiet, Took, Early
  <1> QED
    BY <1>1, <1>2, <1>3, <1>4, <1>5, <1>6, <1>7, <1>8, <1>9, <1>10, <1>11, <1>12, <1>13,
       <1>14, <1>15 DEF Next, Declare, Scmj, Push

\* Only a declaration binds a token, and only a lookup starts a claim.
LEMMA SettledStep ==
    ASSUME TypeInv, [Next]_vars
    PROVE  Settled \/ \E c \in Calls : DeclareBind(c) \/ ScmjLookup(c)
  <1> USE DEF shared, snapshots, chain, locals
  <1>1. ASSUME NEW c \in Calls, DeclareRefuse(c) PROVE Settled
    BY <1>1 DEF TypeInv, TypeOK, DeclareRefuse, Return, Settled, Claiming
  <1>2. ASSUME NEW c \in Calls, DeclareStart(c) PROVE Settled
    BY <1>2 DEF TypeInv, TypeOK, DeclareStart, Goto, Settled, Claiming
  <1>3. ASSUME NEW c \in Calls, DeclareReadTemplate(c) PROVE Settled
    BY <1>3 DEF TypeInv, TypeOK, DeclareReadTemplate, Goto, Settled, Claiming
  <1>4. ASSUME NEW c \in Calls, DeclareReadShareTip(c) PROVE Settled
    BY <1>4 DEF TypeInv, TypeOK, DeclareReadShareTip, Goto, Settled, Claiming
  <1>5. ASSUME NEW c \in Calls, ScmjDropToken(c) PROVE Settled
    BY <1>5 DEF TypeInv, TypeOK, ScmjDropToken, Goto, Settled, Claiming
  <1>6. ASSUME NEW c \in Calls, ScmjBodies(c) PROVE Settled
    BY <1>6 DEF TypeInv, TypeOK, ScmjBodies, Return, Goto, Settled, Claiming
  <1>7. ASSUME NEW c \in Calls, ScmjPropose(c) PROVE Settled
    BY <1>7 DEF TypeInv, TypeOK, ScmjPropose, Return, Settled, Claiming
  <1>8. ASSUME NEW c \in Calls, PushFind(c) PROVE Settled
    BY <1>8 DEF TypeInv, TypeOK, PushFind, Return, Goto, Settled, Claiming
  <1>9. ASSUME NEW c \in Calls, PushGet(c) PROVE Settled
    BY <1>9 DEF TypeInv, TypeOK, PushGet, Return, Goto, Settled, Claiming
  <1>10. ASSUME NEW c \in Calls, PushBodies(c) PROVE Settled
    BY <1>10 DEF TypeInv, TypeOK, PushBodies, Return, Goto, Settled, Claiming
  <1>11. ASSUME NEW c \in Calls, PushSubmit(c) PROVE Settled
    BY <1>11 DEF TypeInv, TypeOK, PushSubmit, Return, Forget, Settled, Claiming
  <1>12. ASSUME NEW c \in Calls, DeclareInsert(c) PROVE Settled
    BY <1>12 DEF TypeInv, TypeOK, DeclareInsert, Goto, Settled, Claiming
  <1>13. ASSUME NEW c \in Calls, ScmjTake(c) PROVE Settled
    BY <1>13 DEF TypeInv, TypeOK, ScmjTake, Return, Goto, Settled, Claiming
  <1>14. CASE ReorgFlush \/ ChainTipChange \/ NewTemplate \/ SetNewPrevHash
                \/ SweepSolutions \/ UNCHANGED vars
    <2>1. allocated_tokens' = allocated_tokens /\ pc' = pc /\ rid' = rid /\ token' = token
      BY <1>14 DEF ReorgFlush, ChainTipChange, NewTemplate, SetNewPrevHash, SweepSolutions, vars
    <2> QED
      BY <2>1 DEF Settled, Claiming
  <1> QED
    BY <1>1, <1>2, <1>3, <1>4, <1>5, <1>6, <1>7, <1>8, <1>9, <1>10, <1>11, <1>12, <1>13, <1>14
       DEF Next, Declare, Scmj, Push

\* Only a bind, a drop and a take disturb what makes a job reachable.
LEMMA SteadyStep ==
    ASSUME TypeInv, [Next]_vars
    PROVE  Steady \/ \E c \in Calls : DeclareBind(c) \/ ScmjDropToken(c) \/ ScmjTake(c)
  <1> USE DEF shared, snapshots, chain, locals
  <1>1. ASSUME NEW c \in Calls, DeclareRefuse(c) PROVE Steady
    BY <1>1 DEF TypeInv, TypeOK, DeclareRefuse, Return, Steady
  <1>2. ASSUME NEW c \in Calls, DeclareStart(c) PROVE Steady
    BY <1>2 DEF TypeInv, TypeOK, DeclareStart, Goto, Steady
  <1>3. ASSUME NEW c \in Calls, DeclareReadTemplate(c) PROVE Steady
    BY <1>3 DEF TypeInv, TypeOK, DeclareReadTemplate, Goto, Steady
  <1>4. ASSUME NEW c \in Calls, DeclareReadShareTip(c) PROVE Steady
    BY <1>4 DEF TypeInv, TypeOK, DeclareReadShareTip, Goto, Steady
  <1>5. ASSUME NEW c \in Calls, ScmjLookup(c) PROVE Steady
    BY <1>5 DEF TypeInv, TypeOK, ScmjLookup, Return, Goto, Steady
  <1>6. ASSUME NEW c \in Calls, ScmjBodies(c) PROVE Steady
    BY <1>6 DEF TypeInv, TypeOK, ScmjBodies, Return, Goto, Steady
  <1>7. ASSUME NEW c \in Calls, ScmjPropose(c) PROVE Steady
    BY <1>7 DEF TypeInv, TypeOK, ScmjPropose, Return, Steady
  <1>8. ASSUME NEW c \in Calls, PushFind(c) PROVE Steady
    BY <1>8 DEF TypeInv, TypeOK, PushFind, Return, Goto, Steady
  <1>9. ASSUME NEW c \in Calls, PushGet(c) PROVE Steady
    BY <1>9 DEF TypeInv, TypeOK, PushGet, Return, Goto, Steady
  <1>10. ASSUME NEW c \in Calls, PushBodies(c) PROVE Steady
    BY <1>10 DEF TypeInv, TypeOK, PushBodies, Return, Goto, Steady
  <1>11. ASSUME NEW c \in Calls, PushSubmit(c) PROVE Steady
    BY <1>11 DEF TypeInv, TypeOK, PushSubmit, Return, Forget, Steady
  <1>12. ASSUME NEW c \in Calls, DeclareInsert(c) PROVE Steady
    BY <1>12 DEF TypeInv, TypeOK, DeclareInsert, Goto, Steady
  <1>13. CASE ReorgFlush \/ ChainTipChange \/ NewTemplate \/ SetNewPrevHash
                \/ SweepSolutions \/ UNCHANGED vars
    <2>1. allocated_tokens' = allocated_tokens /\ pc' = pc /\ rid' = rid /\ token' = token
      BY <1>13 DEF ReorgFlush, ChainTipChange, NewTemplate, SetNewPrevHash, SweepSolutions, vars
    <2> QED
      BY <2>1 DEF Steady
  <1> QED
    BY <1>1, <1>2, <1>3, <1>4, <1>5, <1>6, <1>7, <1>8, <1>9, <1>10, <1>11, <1>12, <1>13
       DEF Next, Declare, Scmj, Push

-----------------------------------------------------------------------------
(***************************************************************************)
(* A declaration is consumed at most once.                                 *)
(***************************************************************************)

\* JobTakenOnce is inductive once we know that no two cache entries stem from
\* the same call, and that a call that has yet to insert its job is not the
\* origin of any job that is cached or was taken.
OnceInv ==
    /\ JobTakenOnce
    /\ \A r, q \in RequestIds :
          Cached(r) /\ Cached(q) /\ declared_jobs[r].decl = declared_jobs[q].decl => r = q
    /\ \A c \in Calls : Early(c) =>
          /\ \A r \in RequestIds : Cached(r) => declared_jobs[r].decl # c
          /\ \A e \in Calls : Took(e) => held[e].decl # c

\* Every step preserves OnceInv.
LEMMA OnceStep == TypeInv /\ OnceInv /\ [Next]_vars => OnceInv'
  <1> SUFFICES ASSUME TypeInv, OnceInv, [Next]_vars PROVE OnceInv'
    OBVIOUS
  <1> USE NoneAssumption DEF shared, snapshots, chain, locals, DeclareSteps
  <1>1. ASSUME Quiet PROVE OnceInv'
    <2>1. \A r \in RequestIds : Cached(r)' => Cached(r) /\ declared_jobs'[r] = declared_jobs[r]
      BY <1>1 DEF Quiet, Cached
    <2>2. JobTakenOnce'
      BY <1>1, <2>1 DEF Quiet, OnceInv, JobTakenOnce
    <2> QED
      BY <1>1, <2>1, <2>2 DEF Quiet, OnceInv
  <1>2. ASSUME NEW c \in Calls, DeclareInsert(c) PROVE OnceInv'
    <2>a. <<rid[c], token[c]>> \in Alphabet /\ held[c] \in Job /\ held[c].decl = c
      BY <1>2 DEF TypeInv, LocalInv, LocalOf, DeclareInsert
    <2>b. pc[c] = "d_insert" /\ pc'[c] = "d_bind"
      BY <1>2 DEF TypeInv, TypeOK, DeclareInsert, Goto
    <2>1. /\ rid[c] \in RequestIds /\ held[c] \in Job /\ held[c].decl = c
          /\ Early(c) /\ ~ Early(c)'
      BY <2>a, <2>b, AlphabetAssumption DEF Early
    <2>2. \A r \in RequestIds :
              declared_jobs'[r] = IF r = rid[c] THEN held[c] ELSE declared_jobs[r]
      BY <1>2, <2>1 DEF TypeInv, TypeOK, DeclareInsert, Insert
    <2>3. \A e \in Calls : (Took(e)' <=> Took(e)) /\ held'[e] = held[e]
      BY <1>2 DEF DeclareInsert, Took
    <2>4. \A e \in Calls : Early(e)' => Early(e) /\ e # c
      BY <1>2, <2>1 DEF TypeInv, TypeOK, DeclareInsert, Goto, Early
    <2>5. \A r \in RequestIds : Cached(r)' =>
              \/ r = rid[c] /\ declared_jobs'[r].decl = c
              \/ r # rid[c] /\ Cached(r) /\ declared_jobs'[r] = declared_jobs[r]
      BY <2>1, <2>2 DEF Cached
    <2>6. JobTakenOnce'
      BY <2>1, <2>3, <2>5 DEF OnceInv, JobTakenOnce
    <2> QED
      BY <2>1, <2>3, <2>4, <2>5, <2>6 DEF OnceInv
  <1>3. ASSUME NEW c \in Calls, ScmjTake(c) PROVE OnceInv'
    <2> DEFINE job == declared_jobs[rid[c]]
    <2>1. rid[c] \in RequestIds /\ op[c] = "scmj" /\ held[c] = None /\ ~ Early(c)
      BY <1>3 DEF TypeInv, LocalInv, LocalOf, ScmjTake, Early
    <2>2. \A r \in RequestIds :
              declared_jobs'[r] = IF r = rid[c] THEN None ELSE declared_jobs[r]
      BY <1>3, <2>1 DEF TypeInv, TypeOK, ScmjTake, Remove
    <2>3. op' = op /\ held'[c] = job /\ \A e \in Calls : e # c => held'[e] = held[e]
      BY <1>3 DEF TypeInv, TypeOK, ScmjTake
    <2>4. \A e \in Calls : Early(e)' => Early(e)
      BY <1>3 DEF TypeInv, TypeOK, ScmjTake, Return, Goto, Early
    <2>5. \A r \in RequestIds : Cached(r)' =>
              r # rid[c] /\ Cached(r) /\ declared_jobs'[r] = declared_jobs[r]
      BY <2>2 DEF Cached
    <2>6. \A e \in Calls : Took(e)' =>
              \/ e = c /\ Cached(rid[c]) /\ held'[e] = declared_jobs[rid[c]]
              \/ e # c /\ Took(e) /\ held'[e] = held[e]
      BY <2>3 DEF Took, Cached
    <2>7. JobTakenOnce'
      BY <2>1, <2>5, <2>6 DEF OnceInv, JobTakenOnce
    <2> QED
      BY <2>1, <2>4, <2>5, <2>6, <2>7 DEF OnceInv
  <1> QED
    BY <1>1, <1>2, <1>3, QuietStep

\* However SetCustomMiningJob calls interleave, no declared job is obtained by
\* two of them, nor is one that was obtained still in the cache.
THEOREM OneShot == Spec => []JobTakenOnce
  <1>1. Init => OnceInv
    BY DEF Init, OnceInv, JobTakenOnce, Cached, Took
  <1>2. Spec => []OnceInv
    BY <1>1, TypeAlways, OnceStep, PTL DEF Spec
  <1> QED
    BY <1>2, PTL DEF OnceInv

-----------------------------------------------------------------------------
(***************************************************************************)
(* Which request ids and tokens are paired in the engine's maps.           *)
(***************************************************************************)

\* Bindings, cache entries and claims all pair a request id with a token that
\* was declared together with it.
PairInv ==
    /\ \A t \in Tokens : allocated_tokens[t] # None => <<allocated_tokens[t], t>> \in Alphabet
    /\ \A r \in RequestIds : Cached(r) => <<r, declared_jobs[r].token>> \in Alphabet
    /\ \A c \in Calls : Claiming(c) => <<rid[c], token[c]>> \in Alphabet

\* What an insert and a take do to the cache.
LEMMA InsertEffect ==
    ASSUME TypeInv, NEW c \in Calls, DeclareInsert(c)
    PROVE  /\ <<rid[c], token[c]>> \in Alphabet /\ rid[c] \in RequestIds
           /\ held[c] \in Job /\ held[c].token = token[c]
           /\ \A r \in RequestIds :
                 declared_jobs'[r] = IF r = rid[c] THEN held[c] ELSE declared_jobs[r]
  <1>1. <<rid[c], token[c]>> \in Alphabet /\ held[c] \in Job /\ held[c].token = token[c]
    BY DEF TypeInv, LocalInv, LocalOf, DeclareInsert, DeclareSteps
  <1>2. rid[c] \in RequestIds
    BY <1>1, AlphabetAssumption
  <1> QED
    BY <1>1, <1>2 DEF TypeInv, TypeOK, DeclareInsert, Insert

\* handle_set_custom_mining_job removes exactly the job it was given, and
\* leaves the token bindings alone.
LEMMA TakeEffect ==
    ASSUME TypeInv, NEW c \in Calls, ScmjTake(c)
    PROVE  /\ rid[c] \in RequestIds /\ Claiming(c) /\ op' = op /\ token' = token
           /\ held'[c] = declared_jobs[rid[c]]
           /\ \A e \in Calls : e # c => held'[e] = held[e]
           /\ \A r \in RequestIds :
                 declared_jobs'[r] = IF r = rid[c] THEN None ELSE declared_jobs[r]
  <1>1. rid[c] \in RequestIds /\ Claiming(c)
    BY DEF TypeInv, LocalInv, LocalOf, ScmjTake, Claiming
  <1>2. op' = op /\ token' = token
    BY DEF ScmjTake
  <1>3. held'[c] = declared_jobs[rid[c]] /\ \A e \in Calls : e # c => held'[e] = held[e]
    BY DEF TypeInv, TypeOK, ScmjTake
  <1> QED
    BY <1>1, <1>2, <1>3 DEF TypeInv, TypeOK, ScmjTake, Remove

\* Every step preserves PairInv.
LEMMA PairStep == TypeInv /\ PairInv /\ [Next]_vars => PairInv'
  <1> SUFFICES ASSUME TypeInv, PairInv, [Next]_vars PROVE PairInv'
    OBVIOUS
  <1> USE NoneAssumption DEF shared, snapshots, chain, locals, DeclareSteps
  <1> DEFINE Jobs == \A r \in RequestIds : Cached(r) => <<r, declared_jobs[r].token>> \in Alphabet
             Binds == \A t \in Tokens :
                         allocated_tokens[t] # None => <<allocated_tokens[t], t>> \in Alphabet
             Claims == \A c \in Calls : Claiming(c) => <<rid[c], token[c]>> \in Alphabet
  <1>1. Jobs'
    <2>1. CASE Quiet
      BY <2>1 DEF Quiet, PairInv, Cached
    <2>2. ASSUME NEW c \in Calls, DeclareInsert(c) PROVE Jobs'
      BY <2>2, InsertEffect DEF PairInv, Cached
    <2>3. ASSUME NEW c \in Calls, ScmjTake(c) PROVE Jobs'
      BY <2>3, TakeEffect DEF PairInv, Cached
    <2> QED
      BY <2>1, <2>2, <2>3, QuietStep
  <1>2. Binds' /\ Claims'
    <2>1. CASE Settled
      BY <2>1 DEF Settled, PairInv
    <2>2. ASSUME NEW c \in Calls, DeclareBind(c) PROVE Binds' /\ Claims'
      <3>1. <<rid[c], token[c]>> \in Alphabet
        BY <2>2 DEF TypeInv, LocalInv, LocalOf, DeclareBind
      <3>2. \A t \in Tokens :
                allocated_tokens'[t] = IF t = token[c] THEN rid[c] ELSE allocated_tokens[t]
        BY <2>2 DEF TypeInv, TypeOK, DeclareBind
      <3>3. token' = token /\ \A e \in Calls : Claiming(e)' => Claiming(e) /\ rid'[e] = rid[e]
        BY <2>2 DEF TypeInv, TypeOK, DeclareBind, Return, Forget, Claiming
      <3> QED
        BY <3>1, <3>2, <3>3 DEF PairInv
    <2>3. ASSUME NEW c \in Calls, ScmjLookup(c) PROVE Binds' /\ Claims'
      <3>1. PICK t \in Tokens :
                /\ token' = [token EXCEPT ![c] = t]
                /\ rid' = [rid EXCEPT ![c] = allocated_tokens[t]]
                /\ IF allocated_tokens[t] = None
                   THEN Return(c, "bad_token")
                   ELSE Goto(c, "s_drop") /\ UNCHANGED result
        BY <2>3 DEF ScmjLookup
      <3>2. /\ token'[c] = t /\ rid'[c] = allocated_tokens[t]
            /\ \A e \in Calls : e # c => token'[e] = token[e] /\ rid'[e] = rid[e]
        BY <3>1 DEF TypeInv, TypeOK
      <3>3. \A e \in Calls : e # c => pc'[e] = pc[e]
        BY <3>1 DEF TypeInv, TypeOK, Return, Goto
      <3>4. Claiming(c)' => allocated_tokens[t] # None
        BY <3>1 DEF TypeInv, TypeOK, Return, Claiming
      <3>5. allocated_tokens' = allocated_tokens
        BY <2>3 DEF ScmjLookup
      <3> QED
        BY <3>2, <3>3, <3>4, <3>5 DEF PairInv, Claiming
    <2> QED
      BY <2>1, <2>2, <2>3, SettledStep
  <1> QED
    BY <1>1, <1>2 DEF PairInv

\* The pairs stay those of the clients' declarations.
LEMMA PairAlways == Spec => []PairInv
  <1>1. Init => PairInv
    BY DEF Init, PairInv, Cached, Claiming
  <1> QED
    BY <1>1, TypeAlways, PairStep, PTL DEF Spec

-----------------------------------------------------------------------------
(***************************************************************************)
(* No cached job is orphaned, when a token comes with one request id.      *)
(***************************************************************************)

\* When a token is declared with one request id, every job in the cache can still
\* be claimed, even where clients use the same request ids: none stays behind
\* unreachable until the next flush.
THEOREM NoOrphan ==
    ASSUME OneRequestPerToken
    PROVE  Spec => []CachedJobIsReachable
  <1> USE NoneAssumption DEF shared, snapshots, chain, locals, DeclareSteps
  <1>1. Init => CachedJobIsReachable
    BY DEF Init, CachedJobIsReachable, Cached
  <1>2. TypeInv /\ PairInv /\ CachedJobIsReachable /\ [Next]_vars => CachedJobIsReachable'
    <2> SUFFICES ASSUME TypeInv, PairInv, CachedJobIsReachable, [Next]_vars,
                        NEW r \in RequestIds, Cached(r)'
                 PROVE  \/ allocated_tokens'[declared_jobs'[r].token] = r
                        \/ \E c \in Calls : /\ pc'[c] = "d_bind" /\ rid'[c] = r
                                            /\ token'[c] = declared_jobs'[r].token
                        \/ \E c \in Calls : pc'[c] = "s_take" /\ rid'[c] = r
      BY DEF CachedJobIsReachable
    <2> DEFINE t == declared_jobs[r].token
               Kept == Cached(r) /\ declared_jobs'[r] = declared_jobs[r]
    <2>1. ASSUME NEW c \in Calls, DeclareInsert(c), r = rid[c]
          PROVE  pc'[c] = "d_bind" /\ rid'[c] = r /\ token'[c] = declared_jobs'[r].token
      <3>1. pc'[c] = "d_bind" /\ rid' = rid /\ token' = token
        BY <2>1 DEF TypeInv, TypeOK, DeclareInsert, Goto
      <3> QED
        BY <2>1, <3>1, InsertEffect
    <2>2. \/ Kept
          \/ \E c \in Calls : DeclareInsert(c) /\ r = rid[c]
      <3>1. CASE Quiet
        BY <3>1 DEF Quiet, Cached
      <3>2. ASSUME NEW c \in Calls, DeclareInsert(c), r # rid[c] PROVE Kept
        BY <3>2, InsertEffect DEF Cached
      <3>3. ASSUME NEW c \in Calls, ScmjTake(c) PROVE Kept
        BY <3>3, TakeEffect DEF Cached
      <3> QED
        BY <3>1, <3>2, <3>3, QuietStep
    <2>3. ASSUME Kept, Steady
          PROVE  \/ allocated_tokens'[t] = r
                 \/ \E c \in Calls : pc'[c] = "d_bind" /\ rid'[c] = r /\ token'[c] = t
                 \/ \E c \in Calls : pc'[c] = "s_take" /\ rid'[c] = r
      BY <2>3 DEF Steady, CachedJobIsReachable
    <2>4. ASSUME Kept, NEW c \in Calls, ScmjTake(c)
          PROVE  \/ allocated_tokens'[t] = r
                 \/ \E e \in Calls : pc'[e] = "d_bind" /\ rid'[e] = r /\ token'[e] = t
                 \/ \E e \in Calls : pc'[e] = "s_take" /\ rid'[e] = r
      <3>1. rid[c] # r
        BY <2>4, TakeEffect DEF Cached
      <3>2. /\ pc[c] = "s_take" /\ rid' = rid /\ token' = token
            /\ allocated_tokens' = allocated_tokens
        BY <2>4 DEF ScmjTake
      <3>3. \A e \in Calls : e # c => pc'[e] = pc[e]
        BY <2>4 DEF TypeInv, TypeOK, ScmjTake, Return, Goto
      <3> QED
        BY <2>4, <3>1, <3>2, <3>3 DEF CachedJobIsReachable
    <2>5. Kept => <<r, t>> \in Alphabet /\ t \in Tokens
      BY AlphabetAssumption DEF PairInv
    <2>6. ASSUME Kept, NEW c \in Calls, ScmjDropToken(c)
          PROVE  \/ allocated_tokens'[t] = r
                 \/ \E e \in Calls : pc'[e] = "d_bind" /\ rid'[e] = r /\ token'[e] = t
                 \/ \E e \in Calls : pc'[e] = "s_take" /\ rid'[e] = r
      <3>1. <<rid[c], token[c]>> \in Alphabet
        BY <2>6 DEF PairInv, ScmjDropToken, Claiming
      <3>2. /\ pc[c] = "s_drop" /\ pc'[c] = "s_take" /\ rid' = rid /\ token' = token
            /\ \A e \in Calls : e # c => pc'[e] = pc[e]
        BY <2>6 DEF TypeInv, TypeOK, ScmjDropToken, Goto
      <3>3. CASE token[c] = t
        <4>1. rid[c] = r
          BY <2>5, <2>6, <3>1, <3>3 DEF OneRequestPerToken
        <4> QED
          BY <3>2, <4>1
      <3>4. CASE token[c] # t
        <4>1. allocated_tokens'[t] = allocated_tokens[t]
          BY <2>5, <2>6, <3>4 DEF TypeInv, TypeOK, ScmjDropToken
        <4> QED
          BY <2>6, <3>2, <4>1 DEF CachedJobIsReachable
      <3> QED
        BY <3>3, <3>4
    <2>7. ASSUME Kept, NEW c \in Calls, DeclareBind(c)
          PROVE  \/ allocated_tokens'[t] = r
                 \/ \E e \in Calls : pc'[e] = "d_bind" /\ rid'[e] = r /\ token'[e] = t
                 \/ \E e \in Calls : pc'[e] = "s_take" /\ rid'[e] = r
      <3>1. <<rid[c], token[c]>> \in Alphabet
        BY <2>7 DEF TypeInv, LocalInv, LocalOf, DeclareBind
      <3>2. pc[c] = "d_bind" /\ token' = token
        BY <2>7 DEF DeclareBind
      <3>3. \A e \in Calls : e # c => pc'[e] = pc[e] /\ rid'[e] = rid[e]
        BY <2>7 DEF TypeInv, TypeOK, DeclareBind, Return, Forget
      <3>4. CASE token[c] = t
        <4>1. rid[c] = r
          BY <2>5, <2>7, <3>1, <3>4 DEF OneRequestPerToken
        <4> QED
          BY <2>5, <2>7, <3>4, <4>1 DEF TypeInv, TypeOK, DeclareBind
      <3>5. CASE token[c] # t
        <4>1. allocated_tokens'[t] = allocated_tokens[t]
          BY <2>5, <2>7, <3>5 DEF TypeInv, TypeOK, DeclareBind
        <4> QED
          BY <2>7, <3>2, <3>3, <3>5, <4>1 DEF CachedJobIsReachable
      <3> QED
        BY <3>4, <3>5
    <2> QED
      BY <2>1, <2>2, <2>3, <2>4, <2>6, <2>7, SteadyStep
  <1> QED
    BY <1>1, <1>2, TypeAlways, PairAlways, PTL DEF Spec

-----------------------------------------------------------------------------
(***************************************************************************)
(* A claim that comes too late lost its job to a reorg or to another claim. *)
(***************************************************************************)

\* A reorg or a claim took the job that was declared under a request id.
Gone(r) == chain_moved \/ \E e \in Calls : Took(e) /\ rid[e] = r

\* The job that was declared under a request id is cached, or was taken.
Accounted(r) == Cached(r) \/ Gone(r)

\* Whoever knows a request id from the cache or from a binding can account for
\* the job that was declared under it.
LostInv ==
    /\ LostClaim
    /\ \A r \in RequestIds, t \in Tokens : allocated_tokens[t] = r => Accounted(r)
    /\ \A r \in RequestIds, c \in Calls :
          (pc[c] = "d_bind" \/ Claiming(c)) /\ rid[c] = r => Accounted(r)

\* The locals of a call change in its own steps only.
LEMMA OwnStep ==
    ASSUME TypeInv, [Next]_vars, NEW e \in Calls
    PROVE  \/ Declare(e) \/ Scmj(e) \/ Push(e)
           \/ pc'[e] = pc[e] /\ op'[e] = op[e] /\ held'[e] = held[e] /\ rid'[e] = rid[e]
  <1> DEFINE Same == pc'[e] = pc[e] /\ op'[e] = op[e] /\ held'[e] = held[e] /\ rid'[e] = rid[e]
  <1>1. ASSUME NEW c \in Calls, c # e, Declare(c) PROVE Same
    BY <1>1 DEF TypeInv, TypeOK, Declare, DeclareRefuse, DeclareStart, DeclareReadTemplate,
       DeclareReadShareTip, DeclareInsert, DeclareBind, Forget, Return, Goto
  <1>2. ASSUME NEW c \in Calls, c # e, Scmj(c) PROVE Same
    BY <1>2 DEF TypeInv, TypeOK, Scmj, ScmjLookup, ScmjDropToken, ScmjTake, ScmjBodies,
       ScmjPropose, Return, Goto
  <1>3. ASSUME NEW c \in Calls, c # e, Push(c) PROVE Same
    BY <1>3 DEF TypeInv, TypeOK, Push, PushFind, PushGet, PushBodies, PushSubmit, Forget,
       Return, Goto
  <1>4. CASE ReorgFlush \/ ChainTipChange \/ NewTemplate \/ SetNewPrevHash
                \/ SweepSolutions \/ UNCHANGED vars
    BY <1>4 DEF ReorgFlush, ChainTipChange, NewTemplate, SetNewPrevHash, SweepSolutions,
       vars, locals
  <1> QED
    BY <1>1, <1>2, <1>3, <1>4 DEF Next

\* A job that was taken stays with the call that took it, whatever happens next.
LEMMA TookStays ==
    ASSUME TypeInv, [Next]_vars, NEW e \in Calls, Took(e)
    PROVE  Took(e)' /\ rid'[e] = rid[e]
  <1> USE NoneAssumption DEF shared, snapshots, chain, locals, DeclareSteps
  <1>0. pc[e] \in {"s_bodies", "s_propose", "done"}
    <2>1. LocalOf(e) /\ op[e] = "scmj" /\ held[e] # None
      BY DEF TypeInv, LocalInv, Took
    <2>2. pc[e] \in {"idle", "done"} \cup DeclareSteps \cup ScmjSteps \cup PushSteps
      BY DEF TypeInv, TypeOK
    <2> QED
      BY <2>1, <2>2 DEF LocalOf, ScmjSteps, PushSteps
  <1>1. CASE Declare(e) \/ Scmj(e) \/ Push(e)
    <2>1. ScmjBodies(e) \/ ScmjPropose(e)
      BY <1>0, <1>1 DEF Declare, DeclareRefuse, DeclareStart, DeclareReadTemplate,
         DeclareReadShareTip, DeclareInsert, DeclareBind, Scmj, ScmjLookup, ScmjDropToken,
         ScmjTake, Push, PushFind, PushGet, PushBodies, PushSubmit
    <2> QED
      BY <2>1 DEF ScmjBodies, ScmjPropose, Took
  <1> QED
    BY <1>1, OwnStep DEF Took

\* What a reorg or a claim took is gone for good.
LEMMA GoneStays ==
    ASSUME TypeInv, [Next]_vars, NEW r \in RequestIds, Gone(r)
    PROVE  Gone(r)'
  <1>1. chain_moved => chain_moved'
    BY DEF Next, Declare, Scmj, Push, DeclareRefuse, DeclareStart, DeclareReadTemplate,
       DeclareReadShareTip, DeclareInsert, DeclareBind, ScmjLookup, ScmjDropToken, ScmjTake,
       ScmjBodies, ScmjPropose, PushFind, PushGet, PushBodies, PushSubmit, ReorgFlush,
       ChainTipChange, NewTemplate, SetNewPrevHash, SweepSolutions, vars, chain
  <1>2. (\E e \in Calls : Took(e) /\ rid[e] = r) => (\E e \in Calls : Took(e) /\ rid[e] = r)'
    BY TookStays
  <1> QED
    BY <1>1, <1>2 DEF Gone

\* What is accounted for stays so: only a flush and a claim take a job away.
LEMMA AccountedStays ==
    ASSUME TypeInv, [Next]_vars, NEW r \in RequestIds, Accounted(r)
    PROVE  Accounted(r)'
  <1> USE NoneAssumption
  <1>3. ASSUME Cached(r) PROVE Accounted(r)'
    <2>1. ASSUME NEW c \in Calls, ScmjTake(c) PROVE Accounted(r)'
      <3>1. CASE r = rid[c]
        <4>1. op'[c] = "scmj" /\ held'[c] # None /\ rid'[c] = r
          <5>1. pc[c] = "s_take" /\ LocalOf(c) /\ rid' = rid
            BY <2>1 DEF TypeInv, LocalInv, ScmjTake
          <5>2. op' = op /\ held'[c] = declared_jobs[rid[c]]
            BY <2>1, TakeEffect
          <5> QED
            BY <1>3, <3>1, <5>1, <5>2 DEF LocalOf, Cached
        <4> QED
          BY <4>1 DEF Accounted, Gone, Took
      <3>2. CASE r # rid[c]
        BY <1>3, <2>1, <3>2, TakeEffect DEF Accounted, Cached
      <3> QED
        BY <3>1, <3>2
    <2>2. ASSUME NEW c \in Calls, DeclareInsert(c) PROVE Accounted(r)'
      <3>1. held[c] # None /\ declared_jobs'[r] \in {held[c], declared_jobs[r]}
        BY <2>2, InsertEffect
      <3> QED
        BY <1>3, <3>1 DEF Accounted, Cached
    <2>3. CASE ReorgFlush
      BY <2>3 DEF ReorgFlush, Accounted, Gone, chain
    <2>4. CASE declared_jobs' = declared_jobs
      BY <1>3, <2>4 DEF Accounted, Cached
    <2>5. ASSUME NEW c \in Calls, Declare(c)
          PROVE  DeclareInsert(c) \/ declared_jobs' = declared_jobs
      BY <2>5 DEF Declare, DeclareRefuse, DeclareStart, DeclareReadTemplate,
         DeclareReadShareTip, DeclareBind, shared
    <2>6. ASSUME NEW c \in Calls, Scmj(c)
          PROVE  ScmjTake(c) \/ declared_jobs' = declared_jobs
      BY <2>6 DEF Scmj, ScmjLookup, ScmjDropToken, ScmjBodies, ScmjPropose, shared
    <2>7. ASSUME NEW c \in Calls, Push(c) PROVE declared_jobs' = declared_jobs
      BY <2>7 DEF Push, PushFind, PushGet, PushBodies, PushSubmit
    <2>8. ChainTipChange \/ NewTemplate \/ SetNewPrevHash \/ SweepSolutions \/ UNCHANGED vars
              => declared_jobs' = declared_jobs
      BY DEF ChainTipChange, NewTemplate, SetNewPrevHash, SweepSolutions, vars, shared
    <2> QED
      BY <2>1, <2>2, <2>3, <2>4, <2>5, <2>6, <2>7, <2>8 DEF Next
  <1> QED
    BY <1>3, GoneStays DEF Accounted

\* A claim that ends without a job was about to take one.
LEMMA LostStep == TypeInv /\ LostInv /\ [Next]_vars => LostInv'
  <1> SUFFICES ASSUME TypeInv, LostInv, [Next]_vars PROVE LostInv'
    OBVIOUS
  <1> USE NoneAssumption DEF shared, snapshots, chain, locals, DeclareSteps
  <1> DEFINE Lost(c) == op[c] = "scmj" /\ pc[c] = "done" /\ rid[c] # None /\ held[c] = None
             Known(c) == pc[c] = "d_bind" \/ Claiming(c)
  <1>0. \A r \in RequestIds : Accounted(r) => Accounted(r)'
    BY AccountedStays
  <1>3. ASSUME NEW r \in RequestIds, NEW t \in Tokens, allocated_tokens'[t] = r
        PROVE  Accounted(r)'
    <2>1. CASE Settled
      BY <1>0, <1>3, <2>1 DEF Settled, LostInv
    <2>2. ASSUME NEW c \in Calls, DeclareBind(c) PROVE Accounted(r)'
      <3>1. \/ allocated_tokens[t] = r
            \/ pc[c] = "d_bind" /\ rid[c] = r
        BY <1>3, <2>2 DEF TypeInv, TypeOK, DeclareBind
      <3> QED
        BY <1>0, <3>1 DEF LostInv
    <2>3. ASSUME NEW c \in Calls, ScmjLookup(c) PROVE Accounted(r)'
      BY <1>0, <1>3, <2>3 DEF ScmjLookup, LostInv
    <2> QED
      BY <2>1, <2>2, <2>3, SettledStep
  <1>4. ASSUME NEW r \in RequestIds, NEW c \in Calls, Known(c)', rid'[c] = r
        PROVE  Accounted(r)'
    <2>1. \/ Known(c) /\ rid[c] = r
          \/ DeclareInsert(c)
          \/ \E t \in Tokens : allocated_tokens[t] = r
      <3>1. CASE Declare(c)
        BY <1>4, <3>1 DEF TypeInv, TypeOK, Declare, DeclareRefuse, DeclareStart,
           DeclareReadTemplate, DeclareReadShareTip, DeclareBind, Return, Goto, Claiming
      <3>2. CASE Scmj(c)
        BY <1>4, <3>2 DEF TypeInv, TypeOK, Scmj, ScmjLookup, ScmjDropToken, ScmjTake,
           ScmjBodies, ScmjPropose, Return, Goto, Claiming
      <3>3. CASE Push(c)
        BY <1>4, <3>3 DEF TypeInv, TypeOK, Push, PushFind, PushGet, PushBodies,
           PushSubmit, Return, Goto, Claiming
      <3> QED
        BY <1>4, <3>1, <3>2, <3>3, OwnStep DEF Claiming
    <2>2. CASE DeclareInsert(c)
      <3>1. rid[c] = r /\ held[c] # None
        BY <1>4, <2>2, InsertEffect DEF DeclareInsert
      <3>2. declared_jobs'[r] # None
        BY <2>2, <3>1, InsertEffect
      <3> QED
        BY <3>2 DEF Accounted, Cached
    <2> QED
      BY <1>0, <2>1, <2>2 DEF LostInv
  <1>5. LostClaim'
    <2> SUFFICES ASSUME NEW c \in Calls, Lost(c)'
                 PROVE  chain_moved' \/ \E e \in Calls \ {c} : Took(e)' /\ rid'[e] = rid'[c]
      BY DEF LostClaim
    <2>1. rid[c] \in RequestIds /\ rid'[c] = rid[c] /\ Gone(rid[c])
      <3>1. CASE pc'[c] = pc[c] /\ op'[c] = op[c] /\ held'[c] = held[c] /\ rid'[c] = rid[c]
        BY <3>1 DEF TypeInv, TypeOK, LostInv, LostClaim, Gone
      <3>2. CASE Declare(c)
        <4>1. CASE DeclareRefuse(c) \/ DeclareStart(c)
          <5>1. op'[c] = "declare"
            BY <4>1 DEF TypeInv, TypeOK, DeclareRefuse, DeclareStart
          <5> QED
            BY <5>1
        <4>2. CASE pc[c] \in DeclareSteps /\ op' = op
          <5>1. op'[c] = "declare"
            BY <4>2 DEF TypeInv, LocalInv, LocalOf
          <5> QED
            BY <5>1
        <4> QED
          BY <3>2, <4>1, <4>2 DEF Declare, DeclareReadTemplate, DeclareReadShareTip,
             DeclareInsert, DeclareBind
      <3>3. CASE Push(c)
        <4>1. CASE PushFind(c)
          <5>1. op'[c] = "push"
            BY <4>1 DEF TypeInv, TypeOK, PushFind
          <5> QED
            BY <5>1
        <4>2. CASE pc[c] \in PushSteps /\ op' = op
          <5>1. op'[c] = "push"
            BY <4>2 DEF TypeInv, LocalInv, LocalOf, PushSteps
          <5> QED
            BY <5>1
        <4> QED
          BY <3>3, <4>1, <4>2 DEF Push, PushGet, PushBodies, PushSubmit, PushSteps
      <3>4. CASE Scmj(c)
        <4>1. CASE ScmjLookup(c)
          <5>1. PICK t \in Tokens : /\ rid' = [rid EXCEPT ![c] = allocated_tokens[t]]
                                    /\ allocated_tokens[t] # None => Goto(c, "s_drop")
            BY <4>1 DEF ScmjLookup
          <5>2. allocated_tokens[t] # None
            BY <5>1 DEF TypeInv, TypeOK
          <5> QED
            BY <5>1, <5>2 DEF TypeInv, TypeOK, Goto
        <4>2. CASE ScmjDropToken(c)
          BY <4>2 DEF TypeInv, TypeOK, ScmjDropToken, Goto
        <4>3. CASE ScmjTake(c)
          <5>1. rid' = rid /\ rid[c] \in RequestIds /\ Claiming(c) /\ ~ Cached(rid[c])
            BY <4>3, TakeEffect DEF ScmjTake, Cached
          <5> QED
            BY <5>1 DEF LostInv, Accounted
        <4>4. CASE ScmjBodies(c) \/ ScmjPropose(c)
          BY <4>4 DEF TypeInv, LocalInv, LocalOf, ScmjBodies, ScmjPropose
        <4> QED
          BY <3>4, <4>1, <4>2, <4>3, <4>4 DEF Scmj
      <3> QED
        BY <3>1, <3>2, <3>3, <3>4, OwnStep
    <2>2. chain_moved' \/ \E e \in Calls : Took(e)' /\ rid'[e] = rid[c]
      BY <2>1, GoneStays DEF Gone
    <2> QED
      BY <2>1, <2>2 DEF Took
  <1>6. /\ \A r \in RequestIds, t \in Tokens : allocated_tokens'[t] = r => Accounted(r)'
        /\ \A r \in RequestIds, c \in Calls : Known(c)' /\ rid'[c] = r => Accounted(r)'
    BY <1>3, <1>4
  <1> QED
    BY <1>5, <1>6 DEF LostInv

\* A SetCustomMiningJob that resolves its token and finds no job has lost it to a
\* reorg or to another claim under the same request id, whatever ids clients choose.
THEOREM ClaimLost == Spec => []LostClaim
  <1>1. Init => LostInv
    BY NoneAssumption DEF Init, LostInv, LostClaim, Claiming
  <1>2. Spec => []LostInv
    BY <1>1, TypeAlways, LostStep, PTL DEF Spec
  <1> QED
    BY <1>2, PTL DEF LostInv

-----------------------------------------------------------------------------
(***************************************************************************)
(* Block-finder credit agrees with submission.                             *)
(***************************************************************************)

\* A call whose block is rebuilt and recorded, and yet to be submitted.
Submitting(c) == pc[c] = "p_submit"

\* Credits and submissions stay, and the calls about to submit are the same,
\* each with its solution and its job.
CreditsIdle ==
    /\ recent_solutions' = recent_solutions /\ submitted' = submitted /\ wired' = wired
    /\ \A e \in Calls : Submitting(e)' <=> Submitting(e)
    /\ \A e \in Calls : Submitting(e) => sol'[e] = sol[e] /\ held'[e] = held[e]

\* Only handle_push_solution and the sweeper touch the credits.
LEMMA CreditsIdleStep ==
    ASSUME TypeInv, [Next]_vars
    PROVE  \/ CreditsIdle \/ SweepSolutions
           \/ \E c \in Calls : Push(c)
  <1> USE DEF shared, snapshots, chain, locals
  <1>1. ASSUME NEW c \in Calls, DeclareRefuse(c) PROVE CreditsIdle
    <2>1. recent_solutions' = recent_solutions /\ submitted' = submitted /\ wired' = wired
      BY <1>1 DEF DeclareRefuse
    <2>2. /\ ~ Submitting(c) /\ ~ Submitting(c)'
          /\ \A e \in Calls : e # c => pc'[e] = pc[e]
      BY <1>1 DEF TypeInv, TypeOK, DeclareRefuse, Submitting, Return
    <2>3. \A e \in Calls : e # c => sol'[e] = sol[e] /\ held'[e] = held[e]
      BY <1>1 DEF TypeInv, TypeOK, DeclareRefuse
    <2> QED
      BY <2>1, <2>2, <2>3 DEF CreditsIdle, Submitting
  <1>2. ASSUME NEW c \in Calls, DeclareStart(c) PROVE CreditsIdle
    <2>1. recent_solutions' = recent_solutions /\ submitted' = submitted /\ wired' = wired
      BY <1>2 DEF DeclareStart
    <2>2. /\ ~ Submitting(c) /\ ~ Submitting(c)'
          /\ \A e \in Calls : e # c => pc'[e] = pc[e]
      BY <1>2 DEF TypeInv, TypeOK, DeclareStart, Submitting, Goto
    <2>3. \A e \in Calls : e # c => sol'[e] = sol[e] /\ held'[e] = held[e]
      BY <1>2 DEF TypeInv, TypeOK, DeclareStart
    <2> QED
      BY <2>1, <2>2, <2>3 DEF CreditsIdle, Submitting
  <1>3. ASSUME NEW c \in Calls, DeclareReadTemplate(c) PROVE CreditsIdle
    <2>1. recent_solutions' = recent_solutions /\ submitted' = submitted /\ wired' = wired
      BY <1>3 DEF DeclareReadTemplate
    <2>2. /\ ~ Submitting(c) /\ ~ Submitting(c)'
          /\ \A e \in Calls : e # c => pc'[e] = pc[e]
      BY <1>3 DEF TypeInv, TypeOK, DeclareReadTemplate, Submitting, Goto
    <2>3. \A e \in Calls : e # c => sol'[e] = sol[e] /\ held'[e] = held[e]
      BY <1>3 DEF TypeInv, TypeOK, DeclareReadTemplate
    <2> QED
      BY <2>1, <2>2, <2>3 DEF CreditsIdle, Submitting
  <1>4. ASSUME NEW c \in Calls, DeclareReadShareTip(c) PROVE CreditsIdle
    <2>1. recent_solutions' = recent_solutions /\ submitted' = submitted /\ wired' = wired
      BY <1>4 DEF DeclareReadShareTip
    <2>2. /\ ~ Submitting(c) /\ ~ Submitting(c)'
          /\ \A e \in Calls : e # c => pc'[e] = pc[e]
      BY <1>4 DEF TypeInv, TypeOK, DeclareReadShareTip, Submitting, Goto
    <2>3. \A e \in Calls : e # c => sol'[e] = sol[e] /\ held'[e] = held[e]
      BY <1>4 DEF TypeInv, TypeOK, DeclareReadShareTip
    <2> QED
      BY <2>1, <2>2, <2>3 DEF CreditsIdle, Submitting
  <1>5. ASSUME NEW c \in Calls, DeclareInsert(c) PROVE CreditsIdle
    <2>1. recent_solutions' = recent_solutions /\ submitted' = submitted /\ wired' = wired
      BY <1>5 DEF DeclareInsert
    <2>2. /\ ~ Submitting(c) /\ ~ Submitting(c)'
          /\ \A e \in Calls : e # c => pc'[e] = pc[e]
      BY <1>5 DEF TypeInv, TypeOK, DeclareInsert, Submitting, Goto
    <2>3. \A e \in Calls : e # c => sol'[e] = sol[e] /\ held'[e] = held[e]
      BY <1>5 DEF TypeInv, TypeOK, DeclareInsert
    <2> QED
      BY <2>1, <2>2, <2>3 DEF CreditsIdle, Submitting
  <1>6. ASSUME NEW c \in Calls, DeclareBind(c) PROVE CreditsIdle
    <2>1. recent_solutions' = recent_solutions /\ submitted' = submitted /\ wired' = wired
      BY <1>6 DEF DeclareBind
    <2>2. /\ ~ Submitting(c) /\ ~ Submitting(c)'
          /\ \A e \in Calls : e # c => pc'[e] = pc[e]
      BY <1>6 DEF TypeInv, TypeOK, DeclareBind, Submitting, Return, Forget
    <2>3. \A e \in Calls : e # c => sol'[e] = sol[e] /\ held'[e] = held[e]
      BY <1>6 DEF TypeInv, TypeOK, DeclareBind, Forget
    <2> QED
      BY <2>1, <2>2, <2>3 DEF CreditsIdle, Submitting
  <1>7. ASSUME NEW c \in Calls, ScmjLookup(c) PROVE CreditsIdle
    <2>1. recent_solutions' = recent_solutions /\ submitted' = submitted /\ wired' = wired
      BY <1>7 DEF ScmjLookup
    <2>2. /\ ~ Submitting(c) /\ ~ Submitting(c)'
          /\ \A e \in Calls : e # c => pc'[e] = pc[e]
      BY <1>7 DEF TypeInv, TypeOK, ScmjLookup, Submitting, Return, Goto
    <2>3. \A e \in Calls : e # c => sol'[e] = sol[e] /\ held'[e] = held[e]
      BY <1>7 DEF TypeInv, TypeOK, ScmjLookup
    <2> QED
      BY <2>1, <2>2, <2>3 DEF CreditsIdle, Submitting
  <1>8. ASSUME NEW c \in Calls, ScmjDropToken(c) PROVE CreditsIdle
    <2>1. recent_solutions' = recent_solutions /\ submitted' = submitted /\ wired' = wired
      BY <1>8 DEF ScmjDropToken
    <2>2. /\ ~ Submitting(c) /\ ~ Submitting(c)'
          /\ \A e \in Calls : e # c => pc'[e] = pc[e]
      BY <1>8 DEF TypeInv, TypeOK, ScmjDropToken, Submitting, Goto
    <2>3. \A e \in Calls : e # c => sol'[e] = sol[e] /\ held'[e] = held[e]
      BY <1>8 DEF TypeInv, TypeOK, ScmjDropToken
    <2> QED
      BY <2>1, <2>2, <2>3 DEF CreditsIdle, Submitting
  <1>9. ASSUME NEW c \in Calls, ScmjTake(c) PROVE CreditsIdle
    <2>1. recent_solutions' = recent_solutions /\ submitted' = submitted /\ wired' = wired
      BY <1>9 DEF ScmjTake
    <2>2. /\ ~ Submitting(c) /\ ~ Submitting(c)'
          /\ \A e \in Calls : e # c => pc'[e] = pc[e]
      BY <1>9 DEF TypeInv, TypeOK, ScmjTake, Submitting, Return, Goto
    <2>3. \A e \in Calls : e # c => sol'[e] = sol[e] /\ held'[e] = held[e]
      BY <1>9 DEF TypeInv, TypeOK, ScmjTake
    <2> QED
      BY <2>1, <2>2, <2>3 DEF CreditsIdle, Submitting
  <1>10. ASSUME NEW c \in Calls, ScmjBodies(c) PROVE CreditsIdle
    <2>1. recent_solutions' = recent_solutions /\ submitted' = submitted /\ wired' = wired
      BY <1>10 DEF ScmjBodies
    <2>2. /\ ~ Submitting(c) /\ ~ Submitting(c)'
          /\ \A e \in Calls : e # c => pc'[e] = pc[e]
      BY <1>10 DEF TypeInv, TypeOK, ScmjBodies, Submitting, Return, Goto
    <2>3. \A e \in Calls : e # c => sol'[e] = sol[e] /\ held'[e] = held[e]
      BY <1>10 DEF TypeInv, TypeOK, ScmjBodies
    <2> QED
      BY <2>1, <2>2, <2>3 DEF CreditsIdle, Submitting
  <1>11. ASSUME NEW c \in Calls, ScmjPropose(c) PROVE CreditsIdle
    <2>1. recent_solutions' = recent_solutions /\ submitted' = submitted /\ wired' = wired
      BY <1>11 DEF ScmjPropose
    <2>2. /\ ~ Submitting(c) /\ ~ Submitting(c)'
          /\ \A e \in Calls : e # c => pc'[e] = pc[e]
      BY <1>11 DEF TypeInv, TypeOK, ScmjPropose, Submitting, Return
    <2>3. \A e \in Calls : e # c => sol'[e] = sol[e] /\ held'[e] = held[e]
      BY <1>11 DEF TypeInv, TypeOK, ScmjPropose
    <2> QED
      BY <2>1, <2>2, <2>3 DEF CreditsIdle, Submitting
  <1>12. CASE ReorgFlush
    BY <1>12 DEF ReorgFlush, CreditsIdle, Submitting
  <1>13. CASE ChainTipChange
    BY <1>13 DEF ChainTipChange, CreditsIdle, Submitting
  <1>14. CASE NewTemplate
    BY <1>14 DEF NewTemplate, CreditsIdle, Submitting
  <1>15. CASE SetNewPrevHash
    BY <1>15 DEF SetNewPrevHash, CreditsIdle, Submitting
  <1>16. CASE UNCHANGED vars
    BY <1>16 DEF vars, CreditsIdle, Submitting
  <1> QED
    BY <1>1, <1>2, <1>3, <1>4, <1>5, <1>6, <1>7, <1>8, <1>9, <1>10, <1>11, <1>12, <1>13, <1>14, <1>15, <1>16 DEF Next, Declare, Scmj

\* What a step of handle_push_solution leaves alone: the other calls.
LEMMA PushOthers ==
    ASSUME TypeInv, NEW c \in Calls, Push(c)
    PROVE  /\ wired' = wired
           /\ \A e \in Calls : e # c => /\ pc'[e] = pc[e] /\ sol'[e] = sol[e]
                                        /\ held'[e] = held[e]
  <1>1. CASE PushFind(c)
    BY <1>1 DEF TypeInv, TypeOK, PushFind, Return, Goto
  <1>2. CASE PushGet(c)
    BY <1>2 DEF TypeInv, TypeOK, PushGet, Return, Goto
  <1>3. CASE PushBodies(c)
    BY <1>3 DEF TypeInv, TypeOK, PushBodies, Return, Goto
  <1>4. CASE PushSubmit(c)
    BY <1>4 DEF TypeInv, TypeOK, PushSubmit, Return, Forget
  <1> QED
    BY <1>1, <1>2, <1>3, <1>4 DEF Push

\* The block a call about to submit has rebuilt is one.
LEMMA BlockType ==
    ASSUME TypeInv, NEW c \in Calls, pc[c] \in {"p_bodies", "p_submit"}
    PROVE  sol[c] \in Solution /\ held[c] \in Job /\ BlockOf(c) \in Block
  BY DEF TypeInv, TypeOK, LocalInv, LocalOf, BlockOf, Block, Job

\* Recording a credit under the synthetic hash, or none, keeps the agreement,
\* as long as the calls about to submit do not change.
LEMMA SyntheticKeepsCredit ==
    ASSUME TypeInv, CreditMatchesSubmission, NEW c \in Calls, Push(c),
           ~ Submitting(c), ~ Submitting(c)', submitted' = submitted,
           \/ recent_solutions' = recent_solutions
           \/ \E s \in Solution : Record(s, Synthetic)
    PROVE  CreditMatchesSubmission'
  <1> USE NoneAssumption
  <1>1. /\ wired' = wired
        /\ \A e \in Calls : Submitting(e)' <=> Submitting(e)
        /\ \A e \in Calls : Submitting(e) => sol'[e] = sol[e] /\ BlockOf(e)' = BlockOf(e)
    BY PushOthers DEF Submitting, BlockOf
  <1>2. \A s \in Solution : recent_solutions'[s] \in {recent_solutions[s], Synthetic}
    BY DEF TypeInv, TypeOK, Record
  <1>3. \A e \in Calls : Submitting(e) => sol[e] \in Solution
    BY BlockType DEF Submitting
  <1>4. \A e \in Calls : Submitting(e)' => recent_solutions'[sol'[e]] # None
    BY <1>1, <1>2, <1>3 DEF CreditMatchesSubmission, Submitting
  <1>5. ASSUME NEW s \in Solution, "handles" \in wired', recent_solutions'[s] \in Block
        PROVE  \/ recent_solutions'[s] \in submitted'
               \/ \E e \in Calls : Submitting(e)' /\ BlockOf(e)' = recent_solutions'[s]
    <2>1. recent_solutions'[s] = recent_solutions[s]
      BY <1>2, <1>5
    <2> QED
      BY <1>1, <1>5, <2>1 DEF CreditMatchesSubmission, Submitting
  <1> QED
    BY <1>4, <1>5 DEF CreditMatchesSubmission, Submitting

\* Every step preserves the agreement of credits and submissions.
LEMMA CreditStep ==
    TypeInv /\ CreditMatchesSubmission /\ [Next]_vars => CreditMatchesSubmission'
  <1> SUFFICES ASSUME TypeInv, CreditMatchesSubmission, [Next]_vars
               PROVE  CreditMatchesSubmission'
    OBVIOUS
  <1> USE NoneAssumption DEF shared, snapshots, chain, locals
  <1>1. CASE CreditsIdle
    <2>1. \A e \in Calls : Submitting(e) => BlockOf(e)' = BlockOf(e)
      BY <1>1 DEF CreditsIdle, BlockOf
    <2> QED
      BY <1>1, <2>1 DEF CreditsIdle, CreditMatchesSubmission, Submitting
  <1>2. CASE SweepSolutions
    <2>1. PICK S \in SUBSET {s \in Solution : recent_solutions[s] # None} :
              /\ \A e \in Calls : Submitting(e) => sol[e] \notin S
              /\ recent_solutions' = [s \in Solution |-> IF s \in S THEN None
                                                        ELSE recent_solutions[s]]
      BY <1>2 DEF SweepSolutions, Submitting
    <2>2. submitted' = submitted /\ wired' = wired /\ pc' = pc /\ sol' = sol /\ held' = held
      BY <1>2 DEF SweepSolutions
    <2>3. \A e \in Calls : Submitting(e) => sol[e] \in Solution
      BY BlockType DEF Submitting
    <2>4. \A e \in Calls : Submitting(e)' => recent_solutions'[sol'[e]] # None
      BY <2>1, <2>2, <2>3 DEF CreditMatchesSubmission, Submitting
    <2>5. ASSUME NEW s \in Solution, "handles" \in wired', recent_solutions'[s] \in Block
          PROVE  \/ recent_solutions'[s] \in submitted'
                 \/ \E e \in Calls : Submitting(e)' /\ BlockOf(e)' = recent_solutions'[s]
      <3>1. recent_solutions'[s] = recent_solutions[s]
        BY <2>1, <2>5
      <3> QED
        BY <2>2, <2>5, <3>1 DEF CreditMatchesSubmission, Submitting, BlockOf
    <2> QED
      BY <2>4, <2>5 DEF CreditMatchesSubmission, Submitting
  <1>3. ASSUME NEW c \in Calls, PushFind(c) PROVE CreditMatchesSubmission'
    <2>1. ~ Submitting(c) /\ ~ Submitting(c)' /\ submitted' = submitted
      BY <1>3 DEF TypeInv, TypeOK, PushFind, Return, Goto, Submitting
    <2>2. \/ recent_solutions' = recent_solutions
          \/ \E s \in Solution : Record(s, Synthetic)
      BY <1>3 DEF PushFind
    <2> QED
      BY <1>3, <2>1, <2>2, SyntheticKeepsCredit DEF Push
  <1>4. ASSUME NEW c \in Calls, PushGet(c) PROVE CreditMatchesSubmission'
    <2>1. ~ Submitting(c) /\ ~ Submitting(c)' /\ submitted' = submitted
      BY <1>4 DEF TypeInv, TypeOK, PushGet, Return, Goto, Submitting
    <2>2. sol[c] \in Solution
      BY <1>4 DEF TypeInv, LocalInv, LocalOf, PushGet
    <2>3. \/ recent_solutions' = recent_solutions
          \/ \E s \in Solution : Record(s, Synthetic)
      BY <1>4, <2>2 DEF PushGet
    <2> QED
      BY <1>4, <2>1, <2>3, SyntheticKeepsCredit DEF Push
  <1>5. ASSUME NEW c \in Calls, PushBodies(c) PROVE CreditMatchesSubmission'
    <2>0. ~ Submitting(c) /\ submitted' = submitted /\ sol' = sol /\ held' = held
      BY <1>5 DEF PushBodies, Submitting
    <2>1. CASE Submitting(c)'
      <3>1. sol[c] \in Solution /\ BlockOf(c) \in Block
        BY <1>5, BlockType DEF PushBodies
      <3>2. Record(sol[c], BlockOf(c))
        BY <1>5, <2>1 DEF TypeInv, TypeOK, PushBodies, Return, Submitting
      <3>3. \A s \in Solution : recent_solutions'[s] =
                IF s = sol[c] THEN BlockOf(c) ELSE recent_solutions[s]
        BY <3>1, <3>2 DEF TypeInv, TypeOK, Record
      <3>4. /\ wired' = wired
            /\ \A e \in Calls : e # c => (Submitting(e)' <=> Submitting(e))
            /\ \A e \in Calls : BlockOf(e)' = BlockOf(e)
        BY <1>5, <2>0, PushOthers DEF Push, Submitting, BlockOf
      <3>5. \A e \in Calls : Submitting(e) => sol[e] \in Solution
        BY BlockType DEF Submitting
      <3>6. \A e \in Calls : Submitting(e)' => recent_solutions'[sol'[e]] # None
        BY <2>0, <3>1, <3>3, <3>4, <3>5 DEF CreditMatchesSubmission, Submitting
      <3>7. ASSUME NEW s \in Solution, "handles" \in wired', recent_solutions'[s] \in Block
            PROVE  \/ recent_solutions'[s] \in submitted'
                   \/ \E e \in Calls : Submitting(e)' /\ BlockOf(e)' = recent_solutions'[s]
        <4>1. CASE s = sol[c]
          BY <2>1, <3>3, <3>4, <4>1
        <4>2. CASE s # sol[c]
          BY <2>0, <3>3, <3>4, <3>7, <4>2 DEF CreditMatchesSubmission, Submitting
        <4> QED
          BY <4>1, <4>2
      <3> QED
        BY <3>6, <3>7 DEF CreditMatchesSubmission, Submitting
    <2>2. CASE ~ Submitting(c)'
      <3>1. recent_solutions' = recent_solutions
        BY <1>5, <2>2 DEF TypeInv, TypeOK, PushBodies, Goto, Submitting
      <3> QED
        BY <1>5, <2>0, <2>2, <3>1, SyntheticKeepsCredit DEF Push
    <2> QED
      BY <2>1, <2>2
  <1>6. ASSUME NEW c \in Calls, PushSubmit(c) PROVE CreditMatchesSubmission'
    <2>1. /\ recent_solutions' = recent_solutions /\ sol' = sol
          /\ "handles" \in wired => submitted' = submitted \cup {BlockOf(c)}
      BY <1>6 DEF PushSubmit
    <2>2. ~ Submitting(c)'
      BY <1>6 DEF TypeInv, TypeOK, PushSubmit, Return, Submitting
    <2>3. /\ wired' = wired
          /\ \A e \in Calls : e # c => /\ Submitting(e)' <=> Submitting(e)
                                       /\ BlockOf(e)' = BlockOf(e)
      BY <1>6, PushOthers DEF Push, Submitting, BlockOf
    <2>4. \A e \in Calls : Submitting(e)' => recent_solutions'[sol'[e]] # None
      BY <2>1, <2>2, <2>3 DEF CreditMatchesSubmission, Submitting
    <2>5. ASSUME NEW s \in Solution, "handles" \in wired', recent_solutions'[s] \in Block
          PROVE  \/ recent_solutions'[s] \in submitted'
                 \/ \E e \in Calls : Submitting(e)' /\ BlockOf(e)' = recent_solutions'[s]
      <3>1. \/ recent_solutions[s] \in submitted
            \/ \E e \in Calls : Submitting(e) /\ BlockOf(e) = recent_solutions[s]
        BY <2>1, <2>3, <2>5 DEF CreditMatchesSubmission, Submitting
      <3> QED
        BY <2>1, <2>3, <2>5, <3>1
    <2> QED
      BY <2>4, <2>5 DEF CreditMatchesSubmission, Submitting
  <1> QED
    BY <1>1, <1>2, <1>3, <1>4, <1>5, <1>6, CreditsIdleStep DEF Push

\* Whatever the interleaving of solutions, sweeps and reorgs: a call that is about
\* to submit has its credit on record, and a credit for a real block is for a block
\* that was submitted or is about to be.
THEOREM CreditKept == Spec => []CreditMatchesSubmission
  <1>1. Init => CreditMatchesSubmission
    BY NoneAssumption DEF Init, CreditMatchesSubmission
  <1> QED
    BY <1>1, TypeAlways, CreditStep, PTL DEF Spec
=============================================================================
