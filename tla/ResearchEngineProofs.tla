-------------------------- MODULE ResearchEngineProofs --------------------------
(***************************************************************************)
(* The safety of ResearchEngine.run for any number of providers and pool    *)
(* threads, any configurations, answers and verdicts.  IInv is inductive;   *)
(* the budget, the joined pool and the containment of ordinary failures     *)
(* are parts of it or follow from it, and so does what a run returns: its   *)
(* review list, its status and what it resolves.  Last, the engine is shown *)
(* to implement ResearchContract.                                           *)
(***************************************************************************)
EXTENDS ResearchEngine, ReconciliationProofs

Sums == INSTANCE FoldTheorems WITH Op <- LAMBDA p, x, acc : x + acc
Totals == INSTANCE FoldTheorems WITH Op <- LAMBDA p, x, acc : Plus(acc, x)

-------------------------------------------------------------------------------
(* Units and runs.                                                          *)

LEMMA PlusType ==
  ASSUME NEW x \in Units, NEW y \in Units
  PROVE  Plus(x, y) \in Units
  BY DEF Plus, Units

\* A provider passed over has a well-formed run too.
LEMMA SkippedType == Skipped \in Run
  BY DEF Skipped, Run, Units

\* Whatever a provider did, the run recorded for it is well formed.
LEMMA OutcomeType ==
  ASSUME NEW e \in Engines, NEW i \in Providers, NEW a \in Answers
  PROVE  Outcome(e, i, a) \in Run
  <1>1. a \in Answer /\ e.reserve[i] \in Units
    BY ResearchAssumption
  <1>2. 0 \in Units /\ <<>> \in Seq(Claim)
    BY DEF Units
  <1>3. Failed(e, i) \in Run
    BY <1>1, <1>2 DEF Failed, Run
  <1>4. Succeeded(e, i, a) \in Run
    BY <1>1 DEF Succeeded, Run, Answer
  <1> QED
    BY <1>3, <1>4 DEF Outcome

\* An empty budget never exceeds itself.
LEMMA NothingReserved ==
  ASSUME NEW e \in Engines
  PROVE  ~ OverBudget(e, 0)
  BY ResearchAssumption DEF OverBudget, Exceeds, Units

-------------------------------------------------------------------------------
(* Types.                                                                   *)

LEMMA InitType == Init => TypeOK
  <1> SUFFICES ASSUME Init PROVE TypeOK
    OBVIOUS
  <1>1. cursor \in Nat \ {0}
    BY DEF Init
  <1>2. reserved \in Units
    BY DEF Init, Units
  <1>3. runs \in [Providers -> Run \cup {None}]
    BY DEF Init
  <1>4. /\ call \in [Providers -> {"none", "queued", "running", "finished"}]
        /\ answer \in [Providers -> Answers \cup {None}]
    BY DEF Init
  <1>5. scheduled \in Seq(Providers) /\ queue \in Seq(Providers)
    BY DEF Init
  <1>6. assessments \in Seq(Assessment) /\ judged \in Nat
    BY DEF Init
  <1> QED
    BY <1>1, <1>2, <1>3, <1>4, <1>5, <1>6 DEF Init, TypeOK, Phases

LEMMA StepType == IInv /\ [Next]_vars => TypeOK'
  <1> SUFFICES ASSUME TypeOK, PoolInv, RunsInv, [Next]_vars PROVE TypeOK'
    BY DEF IInv
  <1> USE DEF TypeOK, Phases, poolVars
  <1>1. CASE Admit
    <2> DEFINE next == Plus(reserved, engine.reserve[cursor])
    <2>1. cursor \in Providers /\ cursor + 1 \in Nat \ {0}
      BY <1>1, ResearchAssumption DEF Admit, Providers
    <2>2. next \in Units
      BY <2>1, PlusType, ResearchAssumption
    <2>3. Skipped \in Run
      BY SkippedType
    <2>4. CASE OverBudget(engine, next)
      <3>1. runs' = [runs EXCEPT ![cursor] = Skipped]
        BY <1>1, <2>4 DEF Admit
      <3>2. reserved' = reserved /\ scheduled' = scheduled
        BY <1>1, <2>4 DEF Admit
      <3>3. runs' \in [Providers -> Run \cup {None}]
        BY <2>3, <3>1
      <3> QED
        BY <1>1, <2>1, <3>2, <3>3 DEF Admit
    <2>5. CASE ~ OverBudget(engine, next)
      <3>1. reserved' = next /\ scheduled' = Append(scheduled, cursor) /\ runs' = runs
        BY <1>1, <2>5 DEF Admit
      <3>2. scheduled' \in Seq(Providers)
        BY <2>1, <3>1
      <3> QED
        BY <1>1, <2>1, <2>2, <3>1, <3>2 DEF Admit
    <2> QED
      BY <2>4, <2>5
  <1>2. CASE EndPlan
    BY <1>2 DEF EndPlan, Goto
  <1>3. CASE Submit
    <2>1. scheduled[cursor] \in Providers
      BY <1>3 DEF Submit
    <2>2. queue' \in Seq(Providers)
      BY <1>3, <2>1 DEF Submit
    <2>3. call' \in [Providers -> {"none", "queued", "running", "finished"}]
      BY <1>3, <2>1 DEF Submit
    <2> QED
      BY <1>3, <2>2, <2>3 DEF Submit
  <1>4. CASE EndSubmit
    BY <1>4 DEF EndSubmit, Goto
  <1>5. CASE StartCall
    <2>1. Head(queue) \in Providers /\ Tail(queue) \in Seq(Providers)
      BY <1>5 DEF StartCall
    <2>2. call' \in [Providers -> {"none", "queued", "running", "finished"}]
      BY <1>5, <2>1 DEF StartCall
    <2> QED
      BY <1>5, <2>1, <2>2 DEF StartCall
  <1>6. ASSUME NEW i \in Providers, NEW a \in Answers, FinishCall(i, a)
        PROVE  TypeOK'
    BY <1>6 DEF FinishCall
  <1>7. CASE CollectRun
    <2> DEFINE i == scheduled[cursor]
    <2>1. i \in Providers /\ call[i] = "finished" /\ answer[i].tag # "aborts"
      BY <1>7 DEF CollectRun
    <2>2. runs' = [runs EXCEPT ![i] = Outcome(engine, i, answer[i])]
      BY <1>7 DEF CollectRun
    <2>3. answer[i] \in Answers
      BY <2>1 DEF PoolInv
    <2>4. Outcome(engine, i, answer[i]) \in Run
      BY <2>1, <2>3, OutcomeType
    <2> QED
      BY <1>7, <2>1, <2>2, <2>4 DEF CollectRun
  <1>8. CASE CollectAbort
    BY <1>8 DEF CollectAbort, Goto
  <1>9. CASE EndCollect
    BY <1>9 DEF EndCollect, Goto
  <1>10. CASE Unwind
    BY <1>10 DEF Unwind, Goto
  <1>11. ASSUME NEW v \in Judgements \cup {"accepted"}, Assess(v)
         PROVE  TypeOK'
    <2>1. cursor \in Providers /\ pc = "assess"
      BY <1>11, ResearchAssumption DEF Assess, Providers
    <2>2. runs[cursor] \in Run
      BY <2>1 DEF RunsInv
    <2>3. runs[cursor].claims[judged + 1] \in Claim
      BY <1>11, <2>2 DEF Assess, Assessable, Run
    <2>4. v \in {"accepted", "needs_review", "rejected"}
      BY <1>11, ResearchAssumption DEF Assess, Verdicts
    <2>5. assessments' \in Seq(Assessment)
      BY <1>11, <2>1, <2>3, <2>4 DEF Assess, Assessment
    <2> QED
      BY <1>11, <2>5 DEF Assess
  <1>12. CASE ValidatorFails
    BY <1>12 DEF ValidatorFails, Goto
  <1>13. CASE NextRun
    BY <1>13 DEF NextRun
  <1>14. CASE Return
    BY <1>14 DEF Return, Goto
  <1>15. CASE ReportFails
    BY <1>15 DEF ReportFails, Goto
  <1>16. CASE UNCHANGED vars
    BY <1>16 DEF vars
  <1> QED
    BY <1>1, <1>2, <1>3, <1>4, <1>5, <1>6, <1>7, <1>8, <1>9, <1>10, <1>11,
       <1>12, <1>13, <1>14, <1>15, <1>16 DEF Next, Caller, Pool, Stop

-------------------------------------------------------------------------------
(* The plan and the budget: only Admit touches them.                        *)

\* Every step but Admit leaves the plan alone and does not return to planning.
LEMMA PlanKept ==
  ASSUME [Next]_vars, ~ Admit
  PROVE  /\ engine' = engine /\ reserved' = reserved /\ scheduled' = scheduled
         /\ pc' = "plan" => pc = "plan" /\ cursor' = cursor
  BY DEF Next, Caller, Pool, Stop, vars, poolVars, Goto, EndPlan, Submit, EndSubmit,
         StartCall, FinishCall, CollectRun, CollectAbort, EndCollect, Unwind,
         Assess, ValidatorFails, NextRun, Return, ReportFails

\* Loop indices and admitted providers are integers, as arithmetic needs them.
LEMMA PlanIntegers ==
  ASSUME TypeOK
  PROVE  /\ cursor \in Int /\ scheduled \in Seq(Providers)
         /\ \A k \in DOMAIN scheduled :
              k \in Int /\ scheduled[k] \in Providers /\ scheduled[k] \in Int
  <1>1. cursor \in Int /\ scheduled \in Seq(Providers)
    BY DEF TypeOK
  <1>2. ASSUME NEW i \in Providers PROVE i \in Int
    BY ResearchAssumption DEF Providers
  <1>3. ASSUME NEW k \in DOMAIN scheduled PROVE k \in Int /\ scheduled[k] \in Providers
    BY <1>1
  <1> QED
    BY <1>1, <1>2, <1>3

LEMMA StepPlan == IInv /\ [Next]_vars => PlanInv' /\ BudgetInv'
  <1> SUFFICES ASSUME TypeOK, PlanInv, BudgetInv, [Next]_vars
               PROVE  PlanInv' /\ BudgetInv'
    BY DEF IInv
  <1>0. /\ cursor \in Int /\ scheduled \in Seq(Providers)
        /\ \A k \in DOMAIN scheduled : scheduled[k] \in Int
    BY PlanIntegers
  <1>1. CASE Admit
    <2> DEFINE next == Plus(reserved, engine.reserve[cursor])
    <2>1. CASE OverBudget(engine, next)
      <3>1. /\ pc = "plan" /\ cursor' = cursor + 1 /\ pc' = pc
            /\ engine' = engine /\ reserved' = reserved /\ scheduled' = scheduled
        BY <1>1, <2>1 DEF Admit
      <3>2. \A k \in DOMAIN scheduled : scheduled[k] < cursor + 1
        BY <1>0, <3>1 DEF PlanInv
      <3>3. PlanInv'
        BY <3>1, <3>2 DEF PlanInv
      <3> QED
        BY <3>1, <3>3 DEF BudgetInv
    <2>2. CASE ~ OverBudget(engine, next)
      <3>1. /\ pc = "plan" /\ cursor' = cursor + 1 /\ pc' = pc
            /\ engine' = engine /\ reserved' = next
            /\ scheduled' = Append(scheduled, cursor)
        BY <1>1, <2>2 DEF Admit
      <3>2. PlanInv'
        <4>1. \A k \in DOMAIN scheduled : scheduled[k] < cursor
          BY <3>1 DEF PlanInv
        <4>2. \A k \in DOMAIN scheduled' : scheduled'[k] < cursor + 1
          BY <1>0, <3>1, <4>1
        <4>3. ASSUME NEW j \in DOMAIN scheduled', NEW k \in DOMAIN scheduled', j < k
              PROVE  scheduled'[j] < scheduled'[k]
          <5>1. j \in DOMAIN scheduled /\ scheduled'[j] = scheduled[j]
            BY <1>0, <3>1, <4>3
          <5>2. CASE k \in DOMAIN scheduled
            BY <1>0, <3>1, <4>3, <5>1, <5>2 DEF PlanInv
          <5>3. CASE k \notin DOMAIN scheduled
            <6>1. scheduled'[k] = cursor
              BY <1>0, <3>1, <5>3
            <6> QED
              BY <4>1, <5>1, <6>1
          <5> QED
            BY <5>2, <5>3
        <4> QED
          BY <3>1, <4>2, <4>3 DEF PlanInv
      <3> QED
        BY <2>2, <3>1, <3>2 DEF BudgetInv
    <2> QED
      BY <2>1, <2>2
  <1>2. CASE ~ Admit
    BY <1>2, PlanKept DEF PlanInv, BudgetInv
  <1> QED
    BY <1>1, <1>2

-------------------------------------------------------------------------------
(* The thread pool.                                                         *)

\* Admitting providers in order admits none of them twice.
LEMMA AdmittedOnce ==
  ASSUME TypeOK, PlanInv
  PROVE  Once(scheduled)
  BY PlanIntegers DEF PlanInv, Once

LEMMA StepPool == IInv /\ [Next]_vars => PoolInv'
  <1> SUFFICES ASSUME TypeOK, PlanInv, PoolInv, [Next]_vars PROVE PoolInv'
    BY DEF IInv
  <1>0. /\ queue \in Seq(Providers) /\ scheduled \in Seq(Providers)
        /\ cursor \in Nat \ {0}
        /\ call \in [Providers -> {"none", "queued", "running", "finished"}]
        /\ answer \in [Providers -> Answers \cup {None}]
    BY DEF TypeOK
  <1>1. CASE Admit
    <2>1. /\ pc = "plan" /\ pc' = pc /\ queue' = queue /\ call' = call
          /\ answer' = answer
      BY <1>1 DEF Admit, poolVars
    <2> QED
      BY <2>1 DEF PoolInv
  <1>2. CASE EndPlan
    <2>1. /\ pc = "plan" /\ pc' = "submit" /\ cursor' = 1 /\ queue' = queue
          /\ call' = call /\ answer' = answer /\ scheduled' = scheduled
      BY <1>2 DEF EndPlan, Goto, poolVars
    <2>2. \A k \in DOMAIN scheduled : scheduled[k] \in Providers /\ k >= 1
      BY <1>0
    <2> QED
      BY <2>1, <2>2 DEF PoolInv, Admitted
  <1>3. CASE Submit
    <2> DEFINE i == scheduled[cursor]
    <2>1. /\ pc = "submit" /\ pc' = "submit" /\ cursor \in DOMAIN scheduled
          /\ cursor' = cursor + 1 /\ queue' = Append(queue, i)
          /\ call' = [call EXCEPT ![i] = "queued"] /\ answer' = answer
          /\ scheduled' = scheduled
      BY <1>0, <1>3 DEF Submit
    <2>2. i \in Providers /\ i \in Admitted /\ call[i] = "none" /\ i \notin ToSet(queue)
      BY <1>0, <2>1 DEF PoolInv, Admitted, ToSet
    <2>3. ToSet(queue') = ToSet(queue) \cup {i} /\ Once(queue')
      BY <1>0, <2>1, <2>2, ToSetAppend DEF PoolInv, Once
    <2>4. \A k \in DOMAIN scheduled : call'[scheduled[k]] = "none" <=> k >= cursor + 1
      <3> SUFFICES ASSUME NEW k \in DOMAIN scheduled
                   PROVE  call'[scheduled[k]] = "none" <=> k >= cursor + 1
        OBVIOUS
      <3>1. k \in Nat /\ scheduled[k] \in Providers
        BY <1>0
      <3>2. call[scheduled[k]] = "none" <=> k >= cursor
        BY <2>1 DEF PoolInv
      <3>3. scheduled[k] = i <=> k = cursor
        BY <2>1, AdmittedOnce DEF Once
      <3> QED
        BY <1>0, <2>1, <3>1, <3>2, <3>3
    <2>5. \A j \in Providers : j # i => call'[j] = call[j]
      BY <1>0, <2>1
    <2>6. call'[i] = "queued"
      BY <1>0, <2>1, <2>2
    <2> QED
      BY <2>1, <2>2, <2>3, <2>4, <2>5, <2>6 DEF PoolInv, Once, Admitted
  <1>4. CASE EndSubmit
    <2>1. /\ pc = "submit" /\ pc' = "collect" /\ queue' = queue /\ call' = call
          /\ answer' = answer /\ scheduled' = scheduled /\ cursor > Len(scheduled)
      BY <1>4 DEF EndSubmit, Goto, poolVars
    <2>2. \A k \in DOMAIN scheduled : ~ (k >= cursor)
      BY <1>0, <2>1
    <2> QED
      BY <2>1, <2>2 DEF PoolInv, Admitted, ToSet
  <1>5. CASE StartCall
    <2> DEFINE i == Head(queue)
    <2>1. /\ queue # <<>> /\ queue' = Tail(queue) /\ answer' = answer
          /\ call' = [call EXCEPT ![i] = "running"]
          /\ pc' = pc /\ cursor' = cursor /\ scheduled' = scheduled
      BY <1>5 DEF StartCall
    <2>2. /\ ToSet(queue') = ToSet(queue) \ {i} /\ i \in ToSet(queue)
          /\ Once(queue') /\ i \in Providers
      BY <1>0, <2>1, ToSetTail DEF PoolInv, Once
    <2>3. call[i] = "queued"
      BY <2>2 DEF PoolInv
    <2>4. /\ \A j \in Providers : j # i => call'[j] = call[j]
          /\ call'[i] = "running"
      BY <1>0, <2>1, <2>2
    <2>5. \A j \in Providers : call'[j] = "none" <=> call[j] = "none"
      BY <2>3, <2>4
    <2>6. pc \notin {"plan", "assess", "returned", "raised"}
      BY <2>1, <2>2, <2>3 DEF PoolInv, PoolIdle
    <2>7. \A k \in DOMAIN scheduled : scheduled[k] \in Providers
      BY <1>0
    <2>8. Admitted' = Admitted /\ Admitted \subseteq Providers
      BY <2>1, <2>7 DEF Admitted, ToSet
    <2> QED
      BY <2>1, <2>2, <2>3, <2>4, <2>5, <2>6, <2>7, <2>8 DEF PoolInv, Once
  <1>6. ASSUME NEW i \in Providers, NEW a \in Answers, FinishCall(i, a)
        PROVE  PoolInv'
    <2>1. /\ call[i] = "running" /\ queue' = queue
          /\ call' = [call EXCEPT ![i] = "finished"]
          /\ answer' = [answer EXCEPT ![i] = a]
          /\ pc' = pc /\ cursor' = cursor /\ scheduled' = scheduled
      BY <1>6 DEF FinishCall
    <2>2. a # None
      BY ResearchAssumption
    <2>3. /\ \A j \in Providers : j # i => call'[j] = call[j] /\ answer'[j] = answer[j]
          /\ call'[i] = "finished" /\ answer'[i] = a
      BY <1>0, <2>1
    <2>4. \A j \in Providers : call'[j] = "none" <=> call[j] = "none"
      BY <2>1, <2>3
    <2>5. pc \notin {"plan", "assess", "returned", "raised"}
      BY <2>1 DEF PoolInv, PoolIdle, Running
    <2>6. \A k \in DOMAIN scheduled : scheduled[k] \in Providers
      BY <1>0
    <2>7. Admitted' = Admitted /\ Admitted \subseteq Providers
      BY <2>1, <2>6 DEF Admitted, ToSet
    <2> QED
      BY <2>1, <2>2, <2>3, <2>4, <2>5, <2>6, <2>7 DEF PoolInv
  <1>7. CASE EndCollect
    BY <1>7 DEF EndCollect, Goto, poolVars, PoolInv, PoolIdle, Running, Admitted
  <1>8. CASE Unwind
    BY <1>8 DEF Unwind, Goto, poolVars, PoolInv, PoolIdle, Running, Admitted
  <1>9. CASE CollectRun \/ CollectAbort
    BY <1>9 DEF CollectRun, CollectAbort, Goto, poolVars, PoolInv, PoolIdle, Running,
                Admitted
  <1>10. ASSUME NEW v, Assess(v) PROVE PoolInv'
    BY <1>10 DEF Assess, poolVars, PoolInv, PoolIdle, Running, Admitted
  <1>11. CASE ValidatorFails \/ NextRun \/ Return \/ ReportFails
    BY <1>11 DEF ValidatorFails, NextRun, Return, ReportFails, Goto, poolVars, PoolInv,
                 PoolIdle, Running, Admitted
  <1>12. CASE UNCHANGED vars
    BY <1>12 DEF vars, PoolInv, PoolIdle, Running, Admitted
  <1> QED
    BY <1>1, <1>2, <1>3, <1>4, <1>5, <1>6, <1>7, <1>8, <1>9, <1>10, <1>11, <1>12
       DEF Next, Caller, Pool, Stop

-------------------------------------------------------------------------------
(* The table of runs.                                                       *)

LEMMA StepRuns == IInv /\ [Next]_vars => RunsInv'
  <1> SUFFICES ASSUME TypeOK, PoolInv, RunsInv, [Next]_vars PROVE RunsInv'
    BY DEF IInv
  <1>0. /\ cursor \in Int /\ scheduled \in Seq(Providers)
        /\ runs \in [Providers -> Run \cup {None}] /\ None \notin Run
        /\ \A i \in Providers : i \in Int /\ i <= NumProviders
        /\ NumProviders \in Int
    BY ResearchAssumption DEF TypeOK, Providers
  <1>1. CASE Admit
    <2> DEFINE next == Plus(reserved, engine.reserve[cursor])
    <2>1. pc = "plan" /\ pc' = "plan" /\ cursor' = cursor + 1 /\ cursor \in Providers
      BY <1>1, ResearchAssumption DEF Admit, TypeOK, Providers
    <2>2. CASE OverBudget(engine, next)
      <3>1. scheduled' = scheduled /\ runs' = [runs EXCEPT ![cursor] = Skipped]
        BY <1>1, <2>2 DEF Admit
      <3>2. Skipped # None
        BY <1>0, SkippedType
      <3>3. ASSUME NEW i \in Providers, i \notin Admitted, i < cursor + 1
            PROVE  runs'[i] # None
        <4>1. CASE i = cursor
          BY <1>0, <3>1, <3>2, <4>1
        <4>2. CASE i # cursor
          BY <1>0, <2>1, <3>1, <3>3, <4>2 DEF RunsInv
        <4> QED
          BY <4>1, <4>2
      <3> QED
        BY <2>1, <3>1, <3>3 DEF RunsInv, Admitted
    <2>3. CASE ~ OverBudget(engine, next)
      <3>1. scheduled' = Append(scheduled, cursor) /\ runs' = runs
        BY <1>1, <2>3 DEF Admit
      <3>2. Admitted' = Admitted \cup {cursor}
        BY <1>0, <2>1, <3>1, ToSetAppend DEF Admitted
      <3>3. ASSUME NEW i \in Providers, i \notin Admitted', i < cursor + 1
            PROVE  runs'[i] # None
        BY <1>0, <2>1, <3>1, <3>2, <3>3 DEF RunsInv
      <3> QED
        BY <2>1, <3>3 DEF RunsInv
    <2> QED
      BY <2>2, <2>3
  <1>2. CASE EndPlan
    <2>1. /\ pc = "plan" /\ pc' = "submit" /\ cursor > NumProviders
          /\ runs' = runs /\ scheduled' = scheduled
      BY <1>2 DEF EndPlan, Goto
    <2>2. \A i \in Providers : i < cursor
      BY <1>0, <2>1
    <2> QED
      BY <2>1, <2>2 DEF RunsInv, Admitted
  <1>3. CASE Submit \/ EndSubmit
    <2>1. /\ pc = "submit" /\ runs' = runs /\ scheduled' = scheduled
          /\ pc' = "submit" \/ (pc' = "collect" /\ cursor' = 1)
      BY <1>3 DEF Submit, EndSubmit, Goto
    <2>2. \A k \in DOMAIN scheduled : ~ (k < 1)
      BY <1>0
    <2> QED
      BY <2>1, <2>2 DEF RunsInv, Admitted
  <1>4. CASE CollectRun
    <2> DEFINE i == scheduled[cursor]
    <2>1. /\ pc = "collect" /\ pc' = "collect" /\ cursor' = cursor + 1
          /\ scheduled' = scheduled /\ i \in Providers /\ call[i] = "finished"
          /\ runs' = [runs EXCEPT ![i] = Outcome(engine, i, answer[i])]
      BY <1>0, <1>4 DEF CollectRun, TypeOK
    <2>2. Outcome(engine, i, answer[i]) # None
      <3>1. answer[i] \in Answers /\ engine \in Engines
        BY <2>1 DEF PoolInv, TypeOK
      <3> QED
        BY <1>0, <2>1, <3>1, OutcomeType
    <2>3. \A j \in Providers : runs[j] # None => runs'[j] # None
      BY <1>0, <2>1, <2>2
    <2>4. \A k \in DOMAIN scheduled : k \in Int /\ scheduled[k] \in Providers
      BY <1>0
    <2>5. ASSUME NEW k \in DOMAIN scheduled, k < cursor + 1
          PROVE  runs'[scheduled[k]] # None
      <3>1. CASE k = cursor
        BY <1>0, <2>1, <2>2, <3>1
      <3>2. CASE k # cursor
        BY <1>0, <2>1, <2>3, <2>4, <2>5, <3>2 DEF RunsInv
      <3> QED
        BY <3>1, <3>2
    <2> QED
      BY <2>1, <2>3, <2>5 DEF RunsInv, Admitted
  <1>5. CASE EndCollect
    <2>1. /\ pc = "collect" /\ pc' = "assess" /\ cursor > Len(scheduled)
          /\ runs' = runs /\ scheduled' = scheduled
      BY <1>5 DEF EndCollect, Goto
    <2>2. \A k \in DOMAIN scheduled : k < cursor
      BY <1>0, <2>1
    <2>3. \A i \in Admitted : runs[i] # None
      BY <2>1, <2>2 DEF RunsInv, Admitted, ToSet
    <2> QED
      BY <2>1, <2>3 DEF RunsInv, Admitted
  <1>6. CASE CollectAbort \/ Unwind
    BY <1>6 DEF CollectAbort, Unwind, Goto, RunsInv, Admitted
  <1>7. CASE Pool
    BY <1>7 DEF Pool, StartCall, FinishCall, RunsInv, Admitted
  <1>8. ASSUME NEW v, Assess(v) PROVE RunsInv'
    BY <1>8 DEF Assess, RunsInv, Admitted
  <1>9. CASE ValidatorFails \/ NextRun \/ Return \/ ReportFails
    BY <1>9 DEF ValidatorFails, NextRun, Return, ReportFails, Goto, RunsInv, Admitted
  <1>10. CASE UNCHANGED vars
    BY <1>10 DEF vars, RunsInv, Admitted
  <1> QED
    BY <1>1, <1>2, <1>3, <1>4, <1>5, <1>6, <1>7, <1>8, <1>9, <1>10
       DEF Next, Caller, Stop

-------------------------------------------------------------------------------
(* Leaving the run.                                                         *)

\* A report can only fail for the sake of a value: the budget always fits.
LEMMA ReportFailsForAValue ==
  ASSUME BudgetInv, ~ CanReport(engine, assessments, reserved)
  PROVE  \E k \in DOMAIN assessments : assessments[k].claim.value \in Unencodable
  BY DEF BudgetInv, CanReport, Encodable

\* An abort stays on record while other calls start and finish.
LEMMA AbortRemembered ==
  ASSUME TypeOK, PoolInv, Pool,
         \E i \in Launched : answer[i] # None /\ answer[i].tag = "aborts"
  PROVE  \E i \in Launched' : answer'[i] # None /\ answer'[i].tag = "aborts"
  <1>1. PICK i \in Launched : answer[i] # None /\ answer[i].tag = "aborts"
    OBVIOUS
  <1>2. i \in Providers /\ call[i] = "finished"
    BY <1>1 DEF Launched, PoolInv
  <1>3. CASE StartCall
    <2>1. Head(queue) \in ToSet(queue) /\ queue \in Seq(Providers)
      BY <1>3, ToSetTail DEF StartCall, TypeOK, PoolInv, Once
    <2>2. Head(queue) # i
      BY <1>2, <2>1 DEF PoolInv
    <2>3. call'[i] = call[i] /\ answer' = answer
      BY <1>2, <1>3, <2>2 DEF StartCall, TypeOK
    <2> QED
      BY <1>1, <1>2, <2>3 DEF Launched
  <1>4. ASSUME NEW j \in Providers, NEW a \in Answers, FinishCall(j, a)
        PROVE  i \in Launched' /\ answer'[i] = answer[i]
    BY <1>2, <1>4 DEF FinishCall, TypeOK, Launched
  <1> QED
    BY <1>1, <1>3, <1>4 DEF Pool

LEMMA StepExit == IInv /\ [Next]_vars => ExitInv'
  <1> SUFFICES ASSUME IInv, [Next]_vars PROVE ExitInv'
    OBVIOUS
  <1> USE DEF ExitInv, OrdinaryFailureContained
  <1>0. TypeOK /\ BudgetInv /\ PoolInv /\ ExitInv
    BY DEF IInv
  <1>1. CASE Pool
    <2>1. pc' = pc /\ engine' = engine /\ assessments' = assessments
      BY <1>1 DEF Pool, StartCall, FinishCall
    <2>2. pc # "raised"
      BY <1>0, <1>1 DEF Pool, StartCall, FinishCall, PoolInv, PoolIdle, Running
    <2> QED
      BY <1>0, <1>1, <2>1, <2>2, AbortRemembered
  <1>2. CASE CollectAbort
    <2> DEFINE i == scheduled[cursor]
    <2>1. /\ pc' = "unwind" /\ call' = call /\ answer' = answer
          /\ call[i] = "finished" /\ answer[i].tag = "aborts" /\ i \in Providers
      BY <1>0, <1>2 DEF CollectAbort, Goto, poolVars, TypeOK
    <2>2. i \in Launched' /\ answer'[i] # None
      BY <1>0, <2>1 DEF Launched, PoolInv
    <2> QED
      BY <2>1, <2>2
  <1>3. CASE Unwind
    BY <1>0, <1>3 DEF Unwind, Goto, poolVars, Launched
  <1>4. CASE ValidatorFails
    BY <1>4 DEF ValidatorFails, Goto
  <1>5. CASE ReportFails
    <2>1. \E k \in DOMAIN assessments : assessments[k].claim.value \in Unencodable
      BY <1>0, <1>5, ReportFailsForAValue DEF ReportFails
    <2> QED
      BY <1>5, <2>1 DEF ReportFails, Goto
  <1>6. CASE Admit \/ EndPlan \/ Submit \/ EndSubmit \/ CollectRun \/ EndCollect
    BY <1>6 DEF Admit, EndPlan, Submit, EndSubmit, CollectRun, EndCollect, Goto
  <1>7. ASSUME NEW v, Assess(v) PROVE ExitInv'
    BY <1>7 DEF Assess
  <1>8. CASE NextRun \/ Return
    BY <1>8 DEF NextRun, Return, Goto
  <1>9. CASE UNCHANGED vars
    BY <1>0, <1>9 DEF vars, Launched
  <1> QED
    BY <1>1, <1>2, <1>3, <1>4, <1>5, <1>6, <1>7, <1>8, <1>9 DEF Next, Caller, Stop

-------------------------------------------------------------------------------
(* The record of a provider.                                                *)

LEMMA StepRecord == IInv /\ [Next]_vars => RecordInv'
  <1> SUFFICES ASSUME TypeOK, PlanInv, PoolInv, RecordInv, [Next]_vars PROVE RecordInv'
    BY DEF IInv
  <1>0. /\ cursor \in Int /\ scheduled \in Seq(Providers) /\ queue \in Seq(Providers)
        /\ runs \in [Providers -> Run \cup {None}]
        /\ call \in [Providers -> {"none", "queued", "running", "finished"}]
        /\ answer \in [Providers -> Answers \cup {None}]
        /\ \A i \in Providers : i \in Int
        /\ \A k \in DOMAIN scheduled : scheduled[k] \in Int
    BY ResearchAssumption, PlanIntegers DEF TypeOK, Providers
  <1>1. CASE Admit
    <2> DEFINE next == Plus(reserved, engine.reserve[cursor])
    <2>1. /\ pc = "plan" /\ pc' = "plan" /\ cursor' = cursor + 1 /\ cursor \in Providers
          /\ engine' = engine /\ call' = call /\ answer' = answer
      BY <1>1, ResearchAssumption DEF Admit, TypeOK, Providers, poolVars
    <2>2. cursor \notin Admitted
      BY <1>0, <2>1 DEF PlanInv, Admitted, ToSet
    <2>3. CASE OverBudget(engine, next)
      <3>1. scheduled' = scheduled /\ runs' = [runs EXCEPT ![cursor] = Skipped]
        BY <1>1, <2>3 DEF Admit
      <3>2. ASSUME NEW i \in Providers
            PROVE  runs'[i] = IF i = cursor THEN Skipped ELSE runs[i]
        BY <1>0, <2>1, <3>1
      <3>3. Admitted' = Admitted
        BY <3>1 DEF Admitted
      <3>4. ASSUME NEW i \in Providers, i >= cursor + 1 PROVE runs'[i] = None
        <4>1. i # cursor /\ i >= cursor
          BY <1>0, <3>4
        <4> QED
          BY <2>1, <3>2, <4>1 DEF RecordInv
      <3>5. ASSUME NEW i \in Providers, runs'[i] # None
            PROVE  IF i \in Admitted
                   THEN /\ call[i] = "finished" /\ answer[i].tag # "aborts"
                        /\ runs'[i] = Outcome(engine, i, answer[i])
                   ELSE runs'[i] = Skipped
        BY <2>2, <3>2, <3>5 DEF RecordInv
      <3> QED
        BY <2>1, <3>3, <3>4, <3>5 DEF RecordInv
    <2>4. CASE ~ OverBudget(engine, next)
      <3>1. scheduled' = Append(scheduled, cursor) /\ runs' = runs
        BY <1>1, <2>4 DEF Admit
      <3>2. Admitted' = Admitted \cup {cursor}
        BY <1>0, <2>1, <3>1, ToSetAppend DEF Admitted
      <3>3. runs[cursor] = None
        BY <1>0, <2>1 DEF RecordInv
      <3> QED
        BY <1>0, <2>1, <3>1, <3>2, <3>3 DEF RecordInv
    <2> QED
      BY <2>3, <2>4
  <1>2. CASE CollectRun
    <2> DEFINE i == scheduled[cursor]
    <2>1. /\ pc = "collect" /\ pc' = "collect" /\ scheduled' = scheduled
          /\ engine' = engine /\ call' = call /\ answer' = answer
          /\ cursor \in DOMAIN scheduled /\ call[i] = "finished"
          /\ answer[i].tag # "aborts"
          /\ runs' = [runs EXCEPT ![i] = Outcome(engine, i, answer[i])]
      BY <1>0, <1>2 DEF CollectRun, poolVars, TypeOK
    <2>2. i \in Providers /\ i \in Admitted /\ Admitted' = Admitted
      BY <1>0, <2>1 DEF Admitted, ToSet
    <2>3. ASSUME NEW j \in Providers
          PROVE  runs'[j] = IF j = i THEN Outcome(engine, i, answer[i]) ELSE runs[j]
      BY <1>0, <2>1
    <2> HIDE DEF i
    <2> QED
      BY <2>1, <2>2, <2>3 DEF RecordInv
  <1>3. CASE Pool
    <2>1. /\ pc' = pc /\ cursor' = cursor /\ runs' = runs /\ engine' = engine
          /\ Admitted' = Admitted
      BY <1>3 DEF Pool, StartCall, FinishCall, Admitted
    <2>2. ASSUME NEW i \in Providers, call[i] = "finished"
          PROVE  call'[i] = "finished" /\ answer'[i] = answer[i]
      <3>1. CASE StartCall
        <4>1. Head(queue) \in ToSet(queue)
          BY <1>0, <3>1, ToSetTail DEF StartCall, PoolInv, Once
        <4>2. Head(queue) # i
          BY <2>2, <4>1 DEF PoolInv
        <4> QED
          BY <1>0, <2>2, <3>1, <4>2 DEF StartCall
      <3>2. ASSUME NEW j \in Providers, NEW a \in Answers, FinishCall(j, a)
            PROVE  call'[i] = "finished" /\ answer'[i] = answer[i]
        BY <1>0, <2>2, <3>2 DEF FinishCall
      <3> QED
        BY <1>3, <3>1, <3>2 DEF Pool
    <2> QED
      BY <2>1, <2>2 DEF RecordInv
  <1>4. CASE Submit
    <2> DEFINE j == scheduled[cursor]
    <2>1. /\ pc = "submit" /\ pc' = "submit" /\ cursor \in DOMAIN scheduled
          /\ call' = [call EXCEPT ![j] = "queued"] /\ answer' = answer
          /\ runs' = runs /\ engine' = engine /\ scheduled' = scheduled
      BY <1>4, <1>0 DEF Submit, TypeOK
    <2>2. call[j] = "none"
      BY <1>0, <2>1 DEF PoolInv
    <2>3. \A i \in Providers : call[i] = "finished" => call'[i] = "finished"
      <3> HIDE DEF j
      <3> QED
        BY <1>0, <2>1, <2>2
    <2> QED
      BY <2>1, <2>3 DEF RecordInv, Admitted
  <1>5. CASE ~ Admit /\ ~ CollectRun /\ ~ Pool /\ ~ Submit
    <2>1. /\ runs' = runs /\ call' = call /\ answer' = answer
      BY <1>5 DEF Next, Caller, Stop, vars, poolVars, EndPlan, EndSubmit,
                  CollectAbort, EndCollect, Unwind, Assess, ValidatorFails, NextRun,
                  Return, ReportFails
    <2> QED
      BY <1>5, <2>1, PlanKept DEF RecordInv, Admitted
  <1> QED
    BY <1>1, <1>2, <1>3, <1>4, <1>5

LEMMA StepResult == IInv /\ [Next]_vars => ResultInv'
  <1> SUFFICES ASSUME PoolInv, ResultInv, [Next]_vars PROVE ResultInv'
    BY DEF IInv
  <1>1. CASE Return
    BY <1>1 DEF Return, Goto, ResultInv
  <1>2. CASE Pool
    <2>1. pc # "returned"
      BY <1>2 DEF Pool, StartCall, FinishCall, PoolInv, PoolIdle, Running
    <2>2. pc' = pc /\ result' = result
      BY <1>2 DEF Pool, StartCall, FinishCall
    <2> QED
      BY <2>1, <2>2 DEF ResultInv
  <1>3. CASE ~ Return /\ ~ Pool
    <2>1. result' = result
      BY <1>3 DEF Next, Caller, Stop, vars, Admit, EndPlan, Submit, EndSubmit, CollectRun,
                  CollectAbort, EndCollect, Unwind, Assess, ValidatorFails, NextRun,
                  ReportFails
    <2>2. pc = "returned" => UNCHANGED <<pc, engine, runs, assessments, reserved>>
      BY <1>3 DEF Next, Caller, Stop, vars, Admit, EndPlan, Submit, EndSubmit, CollectRun,
                  CollectAbort, EndCollect, Unwind, Assess, ValidatorFails, NextRun,
                  ReportFails
    <2> QED
      BY <2>1, <2>2 DEF ResultInv
  <1> QED
    BY <1>1, <1>2, <1>3

-------------------------------------------------------------------------------
(* The bill.                                                                *)

\* What providers reserve together is a fold over the set of them.
LEMMA DueIsFold ==
  ASSUME NEW e, NEW S
  PROVE  Due(e, S) = Sums!SetFold(0, 0, e.reserve, S)
  BY DEF Due, MapThenSumSet, MapThenFoldSet, Sums!SetFold, Sums!MapThenFoldSet

\* The instance of FoldTheorems speaks of the same finite sets.
LEMMA SameFinite ==
  ASSUME NEW S
  PROVE  Sums!IsFiniteSet(S) <=> IsFiniteSet(S)
  BY DEF IsFiniteSet, Sums!IsFiniteSet

NumericReserve(e) == \A i \in Providers : e.reserve[i] # NaN

LEMMA ReserveAdds ==
  ASSUME NEW e \in Engines, NumericReserve(e), NEW S \in SUBSET Providers
  PROVE  /\ IsFiniteSet(S)
         /\ \A i \in Providers : e.reserve[i] \in Nat
         /\ Sums!Commutes(0, 0, e.reserve, S, Nat)
  <1>1. \A i \in Providers : e.reserve[i] \in Nat
    BY ResearchAssumption DEF Units, NumericReserve
  <1>2. IsFiniteSet(Providers)
    BY ResearchAssumption, FS_Interval DEF Providers
  <1>3. IsFiniteSet(S)
    BY <1>2, FS_Subset
  <1>4. Sums!Commutes(0, 0, e.reserve, S, Nat)
    <2>1. ASSUME NEW i \in S, NEW v \in Nat PROVE e.reserve[i] + v \in Nat
      BY <1>1
    <2>2. ASSUME NEW i \in S, NEW j \in S, NEW v \in Nat
          PROVE  e.reserve[i] + (e.reserve[j] + v) = e.reserve[j] + (e.reserve[i] + v)
      <3>1. e.reserve[i] \in Nat /\ e.reserve[j] \in Nat
        BY <1>1
      <3> QED
        BY <3>1
    <2> QED
      BY <2>1, <2>2 DEF Sums!Commutes
  <1> QED
    BY <1>1, <1>3, <1>4

\* Reservations add up, whatever the order they are added in.
LEMMA DueAdds ==
  ASSUME NEW e \in Engines, NumericReserve(e), NEW S \in SUBSET Providers
  PROVE  /\ Due(e, S) \in Nat
         /\ \A i \in Providers \ S : Due(e, S \cup {i}) = e.reserve[i] + Due(e, S)
  <1>1. Due(e, S) \in Nat
    <2>1. IsFiniteSet(S) /\ Sums!Commutes(0, 0, e.reserve, S, Nat)
      BY ReserveAdds
    <2> QED
      BY <2>1, SameFinite, DueIsFold, Sums!SetFoldType
  <1>2. ASSUME NEW i \in Providers \ S
        PROVE  Due(e, S \cup {i}) = e.reserve[i] + Due(e, S)
    <2>1. IsFiniteSet(S) /\ i \notin S
      BY ReserveAdds
    <2>2. Sums!Commutes(0, 0, e.reserve, S \cup {i}, Nat)
      BY ReserveAdds
    <2>3. Sums!SetFold(0, 0, e.reserve, S \cup {i})
            = e.reserve[i] + Sums!SetFold(0, 0, e.reserve, S)
      BY ONLY <2>1, <2>2, SameFinite, Sums!SetFoldAdd
    <2> QED
      BY <2>3, DueIsFold
  <1> QED
    BY <1>1, <1>2

LEMMA DueNothing ==
  ASSUME NEW e
  PROVE  Due(e, {}) = 0
  BY Sums!SetFoldEmpty, DueIsFold

\* More providers reserve no less.
LEMMA DueMonotone ==
  ASSUME NEW e \in Engines, NumericReserve(e),
         NEW T \in SUBSET Providers, NEW S \in SUBSET T
  PROVE  Due(e, S) <= Due(e, T)
  <1> DEFINE Q == {u \in SUBSET Providers : Due(e, S) <= Due(e, S \cup u)}
  <1>1. {} \in Q
    <2>1. S \cup {} = S /\ S \in SUBSET Providers
      OBVIOUS
    <2>2. Due(e, S) \in Nat
      BY <2>1, DueAdds
    <2> QED
      BY <2>1, <2>2
  <1>2. ASSUME NEW u \in SUBSET Providers, NEW i \in Providers, i \notin u, u \in Q
        PROVE  u \cup {i} \in Q
    <2>1. CASE i \in S
      <3>1. S \cup (u \cup {i}) = S \cup u
        BY <2>1
      <3> QED
        BY <1>2, <3>1
    <2>2. CASE i \notin S
      <3> DEFINE W == S \cup u
      <3>1. W \in SUBSET Providers /\ i \in Providers \ W /\ S \cup (u \cup {i}) = W \cup {i}
        BY <1>2, <2>2
      <3> HIDE DEF W
      <3>2. Due(e, W \cup {i}) = e.reserve[i] + Due(e, W) /\ Due(e, W) \in Nat
        BY <3>1, DueAdds
      <3>3. e.reserve[i] \in Nat /\ Due(e, S) \in Nat /\ Due(e, S) <= Due(e, W)
        BY <1>2, ReserveAdds, DueAdds DEF W
      <3> QED
        BY <3>1, <3>2, <3>3
    <2> QED
      BY <2>1, <2>2
  <1>3. IsFiniteSet(T) /\ T \in SUBSET Providers
    BY ReserveAdds
  <1>4. T \in Q
    <2> HIDE DEF Q
    <2>1. \A u \in SUBSET Providers : IsFiniteSet(u) => u \in Q
      BY <1>1, <1>2, SameFinite, Sums!FiniteSubsetInduction
    <2> QED
      BY <1>3, <2>1
  <1>5. S \cup T = T
    OBVIOUS
  <1> QED
    BY <1>4, <1>5

\* With numbers for units, exceeding the budget is plain comparison.
LEMMA OverBudgetOfNumbers ==
  ASSUME NEW e \in Engines, e.max # NaN, NEW u \in Nat
  PROVE  OverBudget(e, u) <=> e.max # NoLimit /\ u > e.max
  BY ResearchAssumption DEF OverBudget, Exceeds, Units

LEMMA StepBill == IInv /\ [Next]_vars => BillInv'
  <1> SUFFICES ASSUME TypeOK, PlanInv, BillInv, [Next]_vars, Numeric' PROVE BillInv'
    BY DEF IInv, BillInv
  <1>0. /\ cursor \in Int /\ scheduled \in Seq(Providers) /\ engine \in Engines
        /\ \A i \in Providers : i \in Int /\ i <= NumProviders
        /\ \A k \in DOMAIN scheduled : scheduled[k] \in Int
        /\ NumProviders \in Nat
    BY ResearchAssumption, PlanIntegers DEF TypeOK, Providers
  <1>1. engine' = engine
    BY PlanKept DEF Admit
  <1>2. Numeric /\ NumericReserve(engine) /\ engine.max # NaN
    BY <1>1 DEF Numeric, NumericReserve
  <1>3. Admitted \in SUBSET Providers
    BY <1>0 DEF Admitted, ToSet
  <1>4. reserved = Due(engine, Admitted) /\ reserved \in Nat
    BY <1>0, <1>2, <1>3, DueAdds DEF BillInv, Bill
  <1>5. CASE Admit
    <2> DEFINE next == Plus(reserved, engine.reserve[cursor])
    <2>1. pc = "plan" /\ pc' = "plan" /\ cursor' = cursor + 1 /\ cursor \in Providers
      BY <1>5, ResearchAssumption DEF Admit, TypeOK, Providers
    <2>2. \A i \in Admitted : i < cursor
      BY <1>0, <2>1 DEF PlanInv, Admitted, ToSet
    <2>3. /\ cursor \notin Admitted /\ {j \in Admitted : j < cursor} = Admitted
          /\ {j \in Admitted \cup {cursor} : j < cursor} = Admitted
      BY <1>0, <2>2
    <2>4. engine.reserve[cursor] \in Nat /\ NaN \notin Nat
      BY <1>0, <1>2, <2>1, ReserveAdds, ResearchAssumption
    <2>5. next = reserved + engine.reserve[cursor] /\ next \in Nat
      BY <1>4, <2>4 DEF Plus
    <2>6. OverBudget(engine, next) <=>
            engine.max # NoLimit /\ reserved + engine.reserve[cursor] > engine.max
      BY <1>0, <1>2, <2>5, OverBudgetOfNumbers
    <2>7. CASE OverBudget(engine, next)
      <3>1. scheduled' = scheduled /\ reserved' = reserved
        BY <1>5, <2>7 DEF Admit
      <3>2. Admitted' = Admitted
        BY <3>1 DEF Admitted
      <3>3. ASSUME NEW i \in Providers, i < cursor + 1
            PROVE  i \notin Admitted <=>
                     /\ engine.max # NoLimit
                     /\ Bill({j \in Admitted : j < i}) + engine.reserve[i] > engine.max
        <4>1. CASE i = cursor
          BY <1>2, <1>4, <2>3, <2>6, <2>7, <4>1 DEF Bill
        <4>2. CASE i # cursor
          <5>1. i < cursor
            BY <1>0, <3>3, <4>2
          <5> QED
            BY <1>2, <2>1, <5>1 DEF BillInv
        <4> QED
          BY <4>1, <4>2
      <3> QED
        BY <1>1, <1>2, <2>1, <3>1, <3>2, <3>3 DEF BillInv, Bill
    <2>8. CASE ~ OverBudget(engine, next)
      <3>1. scheduled' = Append(scheduled, cursor) /\ reserved' = next
        BY <1>5, <2>8 DEF Admit
      <3>2. Admitted' = Admitted \cup {cursor}
        BY <1>0, <2>1, <3>1, ToSetAppend DEF Admitted
      <3>3. Due(engine, Admitted \cup {cursor}) = engine.reserve[cursor] + reserved
        BY <1>0, <1>2, <1>3, <1>4, <2>1, <2>3, DueAdds
      <3>4. reserved' = Bill(Admitted \cup {cursor})
        BY <1>4, <2>4, <2>5, <3>1, <3>3 DEF Bill
      <3>5. ASSUME NEW i \in Providers, i < cursor + 1
            PROVE  i \notin Admitted \cup {cursor} <=>
                     /\ engine.max # NoLimit
                     /\ Bill({j \in Admitted \cup {cursor} : j < i}) + engine.reserve[i]
                          > engine.max
        <4>1. CASE i = cursor
          BY <1>2, <1>4, <2>3, <2>6, <2>8, <4>1 DEF Bill
        <4>2. CASE i # cursor
          <5>1. i < cursor
            BY <1>0, <3>5, <4>2
          <5>2. {j \in Admitted \cup {cursor} : j < i} = {j \in Admitted : j < i}
            BY <1>0, <5>1
          <5> QED
            BY <1>2, <2>1, <4>2, <5>1, <5>2 DEF BillInv
        <4> QED
          BY <4>1, <4>2
      <3> QED
        BY <1>1, <1>2, <2>1, <3>2, <3>4, <3>5 DEF BillInv, Bill
    <2> QED
      BY <2>7, <2>8
  <1>6. CASE ~ Admit
    <2>1. /\ reserved' = reserved /\ Admitted' = Admitted
          /\ pc' = "plan" => pc = "plan" /\ cursor' = cursor
      BY <1>6, PlanKept DEF Admitted
    <2>2. CASE pc = "plan" /\ pc' # "plan"
      <3>1. EndPlan
        BY <1>6, <2>2 DEF Next, Caller, Pool, Stop, vars, Submit, EndSubmit, StartCall,
             FinishCall, CollectRun, CollectAbort, EndCollect, Unwind, Assess,
             ValidatorFails, NextRun, Return, ReportFails
      <3>2. \A i \in Providers : i < cursor
        BY <1>0, <3>1 DEF EndPlan
      <3> QED
        BY <1>1, <1>2, <2>1, <2>2, <3>2 DEF BillInv, Bill
    <2>3. CASE ~ (pc = "plan" /\ pc' # "plan")
      BY <1>1, <1>2, <2>1, <2>3 DEF BillInv, Bill
    <2> QED
      BY <2>2, <2>3
  <1> QED
    BY <1>5, <1>6

-------------------------------------------------------------------------------
(* The plan of the contract.                                                *)

\* What considering provider k makes of the units booked so far.
BookStep(e, k, units) ==
  IF OverBudget(e, Plus(units, e.reserve[k])) THEN units ELSE Plus(units, e.reserve[k])

\* The instance of the contract computes with the same operators.
LEMMA SamePlan ==
  /\ \A x, y : Contract!Plus(x, y) = Plus(x, y)
  /\ \A e, u : Contract!OverBudget(e, u) <=> OverBudget(e, u)
  BY DEF Contract!Plus, Plus, Contract!OverBudget, OverBudget, Contract!Exceeds, Exceeds

\* Booked is computed provider by provider.
LEMMA BookedUnfolds ==
  ASSUME NEW e
  PROVE  \A k \in 0..NumProviders :
           Contract!Booked(e)[k] =
             IF k = 0 THEN 0 ELSE BookStep(e, k, Contract!Booked(e)[k - 1])
  <1> DEFINE Books(n, f) ==
               f = [k \in 0..n |-> IF k = 0 THEN 0 ELSE BookStep(e, k, f[k - 1])]
             Q == {n \in Nat : \E f : Books(n, f)}
  <1>1. 0 \in Q
    <2>1. Books(0, [k \in 0..0 |-> 0])
      <3>1. \A k \in 0..0 : k = 0
        OBVIOUS
      <3> QED
        BY <3>1
    <2> HIDE DEF Books
    <2> QED
      BY <2>1
  <1>2. ASSUME NEW n \in Nat, n \in Q PROVE n + 1 \in Q
    <2>1. PICK f : Books(n, f)
      BY <1>2
    <2> DEFINE g == [k \in 0..(n + 1) |-> IF k = 0 THEN 0 ELSE BookStep(e, k, f[k - 1])]
    <2>2. \A k \in 0..n : g[k] = f[k]
      <3>1. ASSUME NEW k \in 0..n PROVE g[k] = f[k]
        <4>1. k \in 0..(n + 1)
          OBVIOUS
        <4>2. f[k] = IF k = 0 THEN 0 ELSE BookStep(e, k, f[k - 1])
          BY <2>1
        <4> QED
          BY <4>1, <4>2
      <3> QED
        BY <3>1
    <2>3. ASSUME NEW k \in 0..(n + 1)
          PROVE  g[k] = IF k = 0 THEN 0 ELSE BookStep(e, k, g[k - 1])
      <3>1. CASE k = 0
        BY <3>1
      <3>2. CASE k # 0
        <4>1. k - 1 \in 0..n
          BY <3>2
        <4>2. g[k - 1] = f[k - 1]
          BY <2>2, <4>1
        <4>3. g[k] = BookStep(e, k, f[k - 1])
          BY <3>2
        <4> HIDE DEF g
        <4> QED
          BY <3>2, <4>2, <4>3
      <3> QED
        BY <3>1, <3>2
    <2>4. Books(n + 1, g)
      <3> DEFINE h == [k \in 0..(n + 1) |-> IF k = 0 THEN 0 ELSE BookStep(e, k, g[k - 1])]
      <3>1. \A k \in 0..(n + 1) : g[k] = h[k]
        BY <2>3
      <3>2. g = h
        BY <3>1
      <3> QED
        BY <3>2
    <2> HIDE DEF Books, g
    <2> QED
      BY <2>4
  <1>3. \E f : Books(NumProviders, f)
    <2>1. NumProviders \in Q
      <3> HIDE DEF Q
      <3> QED
        BY <1>1, <1>2, Sums!NatSetInduction, ResearchAssumption
    <2> QED
      BY <2>1
  <1> DEFINE c == CHOOSE f : Books(NumProviders, f)
  <1>4. Books(NumProviders, c)
    <2> HIDE DEF Books
    <2> QED
      BY <1>3
  <1>5. Contract!Booked(e) = c
    BY SamePlan DEF Contract!Booked, BookStep
  <1> HIDE DEF c
  <1> QED
    BY <1>4, <1>5

LEMMA StepBooked == IInv /\ [Next]_vars => BookedInv'
  <1> SUFFICES ASSUME TypeOK, PlanInv, BookedInv, [Next]_vars PROVE BookedInv'
    BY DEF IInv
  <1> DEFINE considered == IF pc = "plan" THEN cursor - 1 ELSE NumProviders
  <1>0. /\ cursor \in Int /\ cursor >= 1 /\ scheduled \in Seq(Providers)
        /\ NumProviders \in Nat
        /\ \A i \in Providers : i \in Int /\ i >= 1 /\ i <= NumProviders
    BY ResearchAssumption DEF TypeOK, Providers
  <1>1. /\ considered \in 0..NumProviders
        /\ reserved = Contract!Booked(engine)[considered]
        /\ Admitted = Contract!Admitted(engine) \cap 1..considered
    BY DEF BookedInv
  <1>2. CASE Admit
    <2> DEFINE next == Plus(reserved, engine.reserve[cursor])
    <2>1. /\ pc = "plan" /\ pc' = "plan" /\ cursor' = cursor + 1 /\ engine' = engine
          /\ cursor \in Providers
      BY <1>2, ResearchAssumption DEF Admit, TypeOK, Providers
    <2>2. considered = cursor - 1 /\ cursor \in 0..NumProviders /\ cursor # 0
      BY <1>0, <2>1
    <2>3. Contract!Booked(engine)[cursor] = BookStep(engine, cursor, reserved)
      BY <1>1, <2>2, BookedUnfolds
    <2>4. cursor \in Contract!Admitted(engine) <=> ~ OverBudget(engine, next)
      BY <1>1, <2>1, <2>2, SamePlan DEF Contract!Admitted, Contract!Providers, Providers
    <2>5. \A i \in Int : i \in 1..cursor <=> i \in 1..(cursor - 1) \/ i = cursor
      BY <1>0
    <2>6. Contract!Admitted(engine) \subseteq Int
      BY <1>0 DEF Contract!Admitted, Contract!Providers
    <2>7. CASE OverBudget(engine, next)
      <3>1. scheduled' = scheduled /\ reserved' = reserved
        BY <1>2, <2>7 DEF Admit
      <3>2. Admitted' = Contract!Admitted(engine) \cap 1..cursor
        BY <1>1, <2>2, <2>4, <2>5, <2>6, <2>7, <3>1 DEF Admitted
      <3>3. reserved' = Contract!Booked(engine)[cursor]
        BY <2>3, <2>7, <3>1 DEF BookStep
      <3> QED
        BY <2>1, <2>2, <3>2, <3>3 DEF BookedInv
    <2>8. CASE ~ OverBudget(engine, next)
      <3>1. scheduled' = Append(scheduled, cursor) /\ reserved' = next
        BY <1>2, <2>8 DEF Admit
      <3>2. Admitted' = Admitted \cup {cursor}
        BY <1>0, <2>1, <3>1, ToSetAppend DEF Admitted
      <3>3. Admitted' = Contract!Admitted(engine) \cap 1..cursor
        BY <1>1, <2>2, <2>4, <2>5, <2>6, <2>8, <3>2
      <3>4. reserved' = Contract!Booked(engine)[cursor]
        BY <2>3, <2>8, <3>1 DEF BookStep
      <3> QED
        BY <2>1, <2>2, <3>3, <3>4 DEF BookedInv
    <2> QED
      BY <2>7, <2>8
  <1>3. CASE ~ Admit
    <2>1. /\ engine' = engine /\ reserved' = reserved /\ scheduled' = scheduled
          /\ pc' = "plan" => pc = "plan" /\ cursor' = cursor
      BY <1>3, PlanKept
    <2>2. (IF pc' = "plan" THEN cursor' - 1 ELSE NumProviders) = considered
      <3>1. CASE pc = "plan" /\ pc' # "plan"
        <4>1. EndPlan
          BY <1>3, <3>1 DEF Next, Caller, Pool, Stop, vars, Submit, EndSubmit, StartCall,
               FinishCall, CollectRun, CollectAbort, EndCollect, Unwind, Assess,
               ValidatorFails, NextRun, Return, ReportFails
        <4>2. cursor > NumProviders
          BY <4>1 DEF EndPlan
        <4> QED
          BY <1>0, <1>1, <3>1, <4>2
      <3>2. CASE ~ (pc = "plan" /\ pc' # "plan")
        BY <2>1, <3>2
      <3> QED
        BY <3>1, <3>2
    <2> HIDE DEF considered
    <2> QED
      BY <1>1, <2>1, <2>2 DEF BookedInv, Admitted
  <1> QED
    BY <1>2, <1>3

-------------------------------------------------------------------------------
(* The ledger.                                                              *)

Item == [provider : Providers, claim : Claim]
Filings(run) == [i \in Providers |-> Entries(run, i)]

LEMMA EntriesType ==
  ASSUME NEW run, NEW i \in Providers, run[i] \in Run
  PROVE  /\ Entries(run, i) \in Seq(Item)
         /\ Len(Entries(run, i)) = Len(run[i].claims)
         /\ \A k \in 1..Len(run[i].claims) :
              Entries(run, i)[k] = [provider |-> i, claim |-> run[i].claims[k]]
  <1>1. /\ run[i].claims \in Seq(Claim) /\ Len(run[i].claims) \in Nat
        /\ DOMAIN run[i].claims = 1..Len(run[i].claims)
        /\ \A k \in 1..Len(run[i].claims) : run[i].claims[k] \in Claim
    BY DEF Run
  <1> QED
    BY <1>1 DEF Entries, Item

\* The file of the first n providers flattens their entries.
LEMMA FiledIsFlat ==
  ASSUME NEW run, \A i \in Providers : run[i] \in Run, NEW n \in 0..NumProviders
  PROVE  /\ Filed(run, n) = Sums!Flat(Filings(run), n)
         /\ n \in Nat /\ \A i \in 1..n : Filings(run)[i] \in Seq(Item)
  <1> DEFINE f == Filings(run)
  <1>0. NumProviders \in Nat
    BY ResearchAssumption
  <1>1. \A i \in Providers : f[i] = Entries(run, i) /\ f[i] \in Seq(Item)
    BY EntriesType DEF Filings
  <1>2. \A i \in 1..n : i \in Providers
    BY <1>0 DEF Providers
  <1>3. [i \in 1..n |-> Entries(run, i)] = [i \in 1..n |-> f[i]]
    <2> HIDE DEF f
    <2> QED
      BY <1>1, <1>2
  <1>4. \A s : FlattenSeq(s) = Sums!FlattenSeq(s)
    BY DEF FlattenSeq, Sums!FlattenSeq
  <1> HIDE DEF f
  <1>5. Filed(run, n) = Sums!Flat(f, n) /\ n \in Nat /\ \A i \in 1..n : f[i] \in Seq(Item)
    BY <1>1, <1>2, <1>3, <1>4 DEF Filed, Sums!Flat
  <1> QED
    BY <1>5 DEF f

\* Filing one more provider's claims puts them behind those filed before.
LEMMA FiledGrows ==
  ASSUME NEW run, \A i \in Providers : run[i] \in Run
  PROVE  /\ Filed(run, 0) = <<>>
         /\ \A n \in 0..NumProviders : Filed(run, n) \in Seq(Item)
         /\ \A n \in Providers : Filed(run, n) = Filed(run, n - 1) \o Entries(run, n)
  <1> DEFINE f == Filings(run)
  <1>0. NumProviders \in Nat
    BY ResearchAssumption
  <1>1. \A i \in Providers : f[i] = Entries(run, i) /\ f[i] \in Seq(Item)
    BY EntriesType DEF Filings
  <1>2. ASSUME NEW n \in 0..NumProviders
        PROVE  /\ Filed(run, n) = Sums!Flat(f, n)
               /\ n \in Nat /\ \A i \in 1..n : f[i] \in Seq(Item)
    BY FiledIsFlat
  <1> HIDE DEF f
  <1>3. Filed(run, 0) = <<>>
    BY <1>0, <1>2, Sums!FlatEmpty
  <1>4. \A n \in 0..NumProviders : Filed(run, n) \in Seq(Item)
    BY <1>2, Sums!FlatType
  <1>5. ASSUME NEW n \in Providers
        PROVE  Filed(run, n) = Filed(run, n - 1) \o Entries(run, n)
    <2>1. n \in 0..NumProviders /\ n - 1 \in 0..NumProviders /\ (n - 1) + 1 = n
      BY <1>0 DEF Providers
    <2>2. n - 1 \in Nat /\ \A i \in 1..((n - 1) + 1) : f[i] \in Seq(Item)
      BY <1>2, <2>1
    <2>3. Sums!Flat(f, (n - 1) + 1) = Sums!Flat(f, n - 1) \o f[(n - 1) + 1]
      BY ONLY <2>2, Sums!FlatStep
    <2> QED
      BY <1>1, <1>2, <2>1, <2>3
  <1> QED
    BY <1>3, <1>4, <1>5

\* Assessing one more claim records one more item.
LEMMA ItemsAppend ==
  ASSUME NEW log \in Seq(Assessment), NEW x \in Assessment
  PROVE  Items(Append(log, x))
           = Append(Items(log), [provider |-> x.provider, claim |-> x.claim])
  <1>1. /\ Len(log) \in Nat /\ Append(log, x) \in Seq(Assessment)
        /\ DOMAIN log = 1..Len(log) /\ DOMAIN Append(log, x) = 1..(Len(log) + 1)
        /\ \A k \in 1..Len(log) : Append(log, x)[k] = log[k]
        /\ Append(log, x)[Len(log) + 1] = x
    OBVIOUS
  <1> DEFINE r == [provider |-> x.provider, claim |-> x.claim]
             a == Items(Append(log, x))
             b == Items(log)
  <1>0. \A y \in Assessment : [provider |-> y.provider, claim |-> y.claim] \in Item
    BY DEF Item, Assessment
  <1>2. /\ a \in Seq(Item) /\ b \in Seq(Item) /\ r \in Item
        /\ Len(a) = Len(log) + 1 /\ Len(b) = Len(log)
    BY <1>0, <1>1 DEF Items
  <1>3. /\ a[Len(log) + 1] = r
        /\ \A k \in 1..Len(log) : a[k] = b[k]
    BY <1>1 DEF Items
  <1> HIDE DEF a, b, r
  <1>4. Append(b, r) \in Seq(Item) /\ Len(Append(b, r)) = Len(log) + 1
    BY <1>1, <1>2
  <1>5. \A k \in 1..(Len(log) + 1) : Append(b, r)[k] = a[k]
    BY <1>1, <1>2, <1>3
  <1>6. a = Append(b, r)
    BY <1>1, <1>2, <1>4, <1>5, SeqEqual
  <1> QED
    BY <1>6 DEF a, b, r

\* One more claim of a run taken into the prefix already assessed.
LEMMA PrefixGrows ==
  ASSUME NEW S, NEW s \in Seq(S), NEW t \in Seq(S), NEW n \in Nat, n < Len(t)
  PROVE  s \o SubSeq(t, 1, n + 1) = Append(s \o SubSeq(t, 1, n), t[n + 1])
  <1>1. /\ SubSeq(t, 1, n) \in Seq(S) /\ SubSeq(t, 1, n + 1) \in Seq(S)
        /\ Len(SubSeq(t, 1, n)) = n /\ Len(SubSeq(t, 1, n + 1)) = n + 1
        /\ t[n + 1] \in S /\ Len(t) \in Nat
    BY SubSeqProperties
  <1>2. /\ \A k \in 1..n : SubSeq(t, 1, n)[k] = t[k]
        /\ \A k \in 1..(n + 1) : SubSeq(t, 1, n + 1)[k] = t[k]
    BY <1>1
  <1> DEFINE u == SubSeq(t, 1, n)
             v == SubSeq(t, 1, n + 1)
             a == s \o v
             b == Append(s \o u, t[n + 1])
  <1> HIDE DEF u, v
  <1>3. /\ a \in Seq(S) /\ Len(a) = Len(s) + n + 1
        /\ \A k \in 1..(Len(s) + n + 1) :
             a[k] = IF k <= Len(s) THEN s[k] ELSE v[k - Len(s)]
    BY <1>1, ConcatProperties DEF u, v
  <1>4. /\ s \o u \in Seq(S) /\ Len(s \o u) = Len(s) + n
        /\ \A k \in 1..(Len(s) + n) :
             (s \o u)[k] = IF k <= Len(s) THEN s[k] ELSE u[k - Len(s)]
    BY <1>1, ConcatProperties DEF u, v
  <1>5. /\ b \in Seq(S) /\ Len(b) = Len(s) + n + 1
        /\ b[Len(s) + n + 1] = t[n + 1]
        /\ \A k \in 1..(Len(s) + n) : b[k] = (s \o u)[k]
    <2> DEFINE w == s \o u
               x == t[n + 1]
    <2>1. w \in Seq(S) /\ x \in S /\ b = Append(w, x)
      BY <1>1, <1>4
    <2>2. Len(w) = Len(s) + n /\ Len(s) + n + 1 = (Len(s) + n) + 1
      BY <1>4
    <2> HIDE DEF w, x, b
    <2>3. /\ b \in Seq(S) /\ Len(b) = Len(w) + 1 /\ b[Len(w) + 1] = x
          /\ \A k \in 1..Len(w) : b[k] = w[k]
      BY <2>1, AppendProperties
    <2> QED
      BY <2>2, <2>3 DEF w, x
  <1> HIDE DEF a, b
  <1>6. ASSUME NEW k \in 1..(Len(s) + n + 1) PROVE a[k] = b[k]
    <2>0. Len(s) \in Nat
      OBVIOUS
    <2>1. CASE k = Len(s) + n + 1
      BY <1>2, <1>3, <1>5, <2>0, <2>1 DEF v
    <2>2. CASE k # Len(s) + n + 1
      <3>1. k \in 1..(Len(s) + n)
        BY <2>0, <2>2
      <3>2. b[k] = IF k <= Len(s) THEN s[k] ELSE u[k - Len(s)]
        BY <1>4, <1>5, <3>1
      <3>3. ~ (k <= Len(s)) => k - Len(s) \in 1..n /\ k - Len(s) \in 1..(n + 1)
        BY <2>0, <3>1
      <3>4. ~ (k <= Len(s)) => u[k - Len(s)] = v[k - Len(s)]
        BY <1>2, <3>3 DEF u, v
      <3> QED
        BY <1>3, <3>2, <3>4
    <2> QED
      BY <2>1, <2>2
  <1>7. a = b
    BY <1>3, <1>5, <1>6, SeqEqual
  <1> QED
    BY <1>7 DEF a, b, u, v

LEMMA StepLedger == IInv /\ [Next]_vars => LedgerInv'
  <1> SUFFICES ASSUME IInv, TypeOK, RunsInv, RecordInv, LedgerInv, [Next]_vars
               PROVE  LedgerInv'
    BY DEF IInv
  <1>0. /\ cursor \in Nat \ {0} /\ judged \in Nat /\ NumProviders \in Nat
        /\ assessments \in Seq(Assessment) /\ Providers = 1..NumProviders
    BY ResearchAssumption DEF TypeOK, Providers
  <1>1. pc \in {"assess", "returned"} => \A i \in Providers : runs[i] \in Run
    BY DEF TypeOK, RunsInv
  <1>9. RunsInv'
    BY StepRuns
  <1>2. CASE EndCollect
    <2>1. /\ pc = "collect" /\ pc' = "assess" /\ cursor' = 1 /\ judged' = judged
          /\ runs' = runs /\ assessments' = assessments
          /\ assessments = <<>> /\ judged = 0
      BY <1>2 DEF EndCollect, Goto, LedgerInv
    <2>2. \A i \in Providers : runs[i] \in Run
      BY <2>1, <1>9 DEF TypeOK, RunsInv
    <2>3. Filed(runs, 0) = <<>> /\ Items(<<>>) = <<>>
      BY <2>2, FiledGrows DEF Items
    <2>4. CASE NumProviders = 0
      BY <2>1, <2>3, <2>4 DEF LedgerInv
    <2>5. CASE NumProviders # 0
      <3>1. 1 \in Providers /\ 1 - 1 = 0 /\ 1 <= NumProviders
        BY <1>0, <2>5
      <3>2. /\ Entries(runs, 1) \in Seq(Item)
            /\ Len(runs[1].claims) \in Nat
        BY <2>2, <3>1, EntriesType DEF Run
      <3>3. SubSeq(Entries(runs, 1), 1, 0) = <<>>
        BY <3>2
      <3>4. <<>> \o <<>> = <<>>
        OBVIOUS
      <3>5. /\ cursor' - 1 = 0 /\ judged' = 0 /\ judged' <= Len(runs'[cursor'].claims)
            /\ ~ (cursor' > NumProviders)
        BY <1>0, <2>1, <3>1, <3>2
      <3>6. Items(assessments')
              = Filed(runs', cursor' - 1) \o SubSeq(Entries(runs', cursor'), 1, judged')
        BY <2>1, <2>3, <3>3, <3>4, <3>5
      <3> QED
        BY <2>1, <3>5, <3>6 DEF LedgerInv
    <2> QED
      BY <2>4, <2>5
  <1>3. ASSUME NEW v \in Judgements \cup {"accepted"}, Assess(v)
        PROVE  LedgerInv'
    <2>1. /\ pc = "assess" /\ pc' = "assess" /\ cursor' = cursor /\ runs' = runs
          /\ judged' = judged + 1 /\ cursor \in Providers
          /\ judged < Len(runs[cursor].claims)
      BY <1>0, <1>3 DEF Assess, Assessable
    <2> DEFINE c == runs[cursor].claims[judged + 1]
               x == [provider |-> cursor, claim |-> c, verdict |-> v]
               t == Entries(runs, cursor)
    <2>2. assessments' = Append(assessments, x)
      BY <1>3 DEF Assess
    <2>3. /\ runs[cursor] \in Run /\ Len(runs[cursor].claims) \in Nat
          /\ judged + 1 \in 1..Len(runs[cursor].claims)
      <3>1. runs[cursor] \in Run
        BY <1>1, <2>1
      <3>2. Len(runs[cursor].claims) \in Nat
        BY <3>1 DEF Run
      <3> QED
        BY <1>0, <2>1, <3>1, <3>2
    <2>4. c \in Claim
      BY <2>3 DEF Run
    <2>5. v \in {"accepted", "needs_review", "rejected"}
      BY <1>3, ResearchAssumption DEF Assess, Verdicts
    <2>6. x \in Assessment
      BY <2>1, <2>4, <2>5 DEF Assessment
    <2>7. t \in Seq(Item) /\ judged < Len(t) /\ t[judged + 1] = [provider |-> cursor, claim |-> c]
      BY <2>1, <2>3, EntriesType
    <2>8. Items(assessments') = Append(Items(assessments), [provider |-> cursor, claim |-> c])
      <3>1. x.provider = cursor /\ x.claim = c
        OBVIOUS
      <3> HIDE DEF x
      <3> QED
        BY <1>0, <2>2, <2>6, <3>1, ItemsAppend
    <2>9. Items(assessments) = Filed(runs, cursor - 1) \o SubSeq(t, 1, judged)
      BY <1>0, <2>1 DEF LedgerInv
    <2>10. Filed(runs, cursor - 1) \in Seq(Item)
      BY <1>0, <1>1, <2>1, FiledGrows
    <2>11. Filed(runs, cursor - 1) \o SubSeq(t, 1, judged + 1)
             = Append(Filed(runs, cursor - 1) \o SubSeq(t, 1, judged), t[judged + 1])
      <3> HIDE DEF t
      <3> QED
        BY <1>0, <2>7, <2>10, PrefixGrows
    <2>12. Items(assessments')
             = Filed(runs, cursor - 1) \o SubSeq(Entries(runs, cursor), 1, judged + 1)
      BY <2>7, <2>8, <2>9, <2>11
    <2> HIDE DEF c, x, t
    <2> QED
      BY <1>0, <2>1, <2>3, <2>12 DEF LedgerInv
  <1>4. CASE NextRun
    <2>1. /\ pc = "assess" /\ pc' = "assess" /\ cursor' = cursor + 1 /\ runs' = runs
          /\ judged' = 0 /\ cursor \in Providers /\ assessments' = assessments
          /\ ~ Assessable(cursor)
      BY <1>0, <1>4 DEF NextRun
    <2> DEFINE t == Entries(runs, cursor)
    <2>2. /\ runs[cursor] \in Run /\ t \in Seq(Item) /\ Len(t) \in Nat
          /\ Len(t) = Len(runs[cursor].claims)
      BY <1>1, <2>1, EntriesType
    <2>3. judged <= Len(t)
      BY <1>0, <2>1, <2>2 DEF LedgerInv
    <2>4. judged = Len(t)
      <3>1. CASE runs[cursor].status = "succeeded"
        <4>1. ~ (judged < Len(t))
          BY <2>1, <2>2, <3>1 DEF Assessable
        <4> HIDE DEF t
        <4> QED
          BY <1>0, <2>2, <2>3, <4>1
      <3>2. CASE runs[cursor].status # "succeeded"
        <4>1. runs[cursor] # None
          BY <2>1 DEF RunsInv
        <4>2. \/ runs[cursor] = Outcome(engine, cursor, answer[cursor])
              \/ runs[cursor] = Skipped
          BY <2>1, <4>1 DEF RecordInv
        <4>3. runs[cursor] = Failed(engine, cursor) \/ runs[cursor] = Skipped
          BY <3>2, <4>2 DEF Outcome, Succeeded
        <4>4. runs[cursor].claims = <<>>
          BY <4>3 DEF Failed, Skipped
        <4>5. Len(t) = 0
          BY <2>2, <4>4
        <4> HIDE DEF t
        <4> QED
          BY <1>0, <2>3, <4>5
      <3> QED
        BY <3>1, <3>2
    <2>5. SubSeq(t, 1, judged) = t
      <3> HIDE DEF t
      <3> QED
        BY <2>2, <2>4, SubSeqFull
    <2>6. Items(assessments) = Filed(runs, cursor)
      <3>1. Items(assessments) = Filed(runs, cursor - 1) \o SubSeq(t, 1, judged)
        BY <1>0, <2>1 DEF LedgerInv
      <3>2. Filed(runs, cursor) = Filed(runs, cursor - 1) \o t
        BY <1>1, <2>1, FiledGrows
      <3> QED
        BY <2>5, <3>1, <3>2
    <2>7. Filed(runs, cursor) \in Seq(Item)
      <3>1. cursor \in 0..NumProviders
        BY <1>0, <2>1
      <3> QED
        BY <1>1, <2>1, <3>1, FiledGrows
    <2> HIDE DEF t
    <2>8. CASE cursor + 1 <= NumProviders
      <3>1. cursor + 1 \in Providers /\ (cursor + 1) - 1 = cursor
        BY <1>0, <2>8
      <3>2. /\ Entries(runs, cursor + 1) \in Seq(Item)
            /\ Len(runs[cursor + 1].claims) \in Nat
        BY <1>1, <2>1, <3>1, EntriesType DEF Run
      <3>3. SubSeq(Entries(runs, cursor + 1), 1, 0) = <<>>
        BY <3>2
      <3>4. Filed(runs, cursor) \o <<>> = Filed(runs, cursor)
        BY <2>7, ConcatEmptySeq
      <3>5. /\ cursor' - 1 = cursor /\ judged' = 0
            /\ judged' <= Len(runs'[cursor'].claims) /\ ~ (cursor' > NumProviders)
        BY <1>0, <2>1, <2>8, <3>1, <3>2
      <3>6. Items(assessments')
              = Filed(runs', cursor' - 1) \o SubSeq(Entries(runs', cursor'), 1, judged')
        BY <2>1, <2>6, <3>3, <3>4, <3>5
      <3> QED
        BY <2>1, <3>5, <3>6 DEF LedgerInv
    <2>9. CASE ~ (cursor + 1 <= NumProviders)
      <3>1. cursor = NumProviders
        BY <1>0, <2>1, <2>9
      <3> QED
        BY <1>0, <2>1, <2>6, <3>1 DEF LedgerInv
    <2> QED
      BY <2>8, <2>9
  <1>5. CASE Return
    <2>1. /\ pc = "assess" /\ pc' = "returned" /\ cursor > NumProviders
          /\ runs' = runs /\ assessments' = assessments
      BY <1>5 DEF Return, Goto
    <2> QED
      BY <2>1 DEF LedgerInv
  <1>6. CASE ValidatorFails \/ ReportFails \/ Unwind
    BY <1>6 DEF ValidatorFails, ReportFails, Unwind, Goto, LedgerInv
  <1>7. CASE UNCHANGED vars \/ Pool
    BY <1>7 DEF vars, Pool, StartCall, FinishCall, LedgerInv
  <1>8. CASE Admit \/ EndPlan \/ Submit \/ EndSubmit \/ CollectRun \/ CollectAbort
    BY <1>8 DEF Admit, EndPlan, Submit, EndSubmit, CollectRun, CollectAbort, Goto,
                LedgerInv
  <1> QED
    BY <1>2, <1>3, <1>4, <1>5, <1>6, <1>7, <1>8 DEF Next, Caller, Stop

-------------------------------------------------------------------------------
(* What the admitted providers used.                                        *)

\* The reported use is a fold over the runs, in their order.
LEMMA TotalIsFold ==
  ASSUME NEW units
  PROVE  Total(units) = Totals!Fold(0, 0, units)
  <1>1. \A T : Max(T) = Totals!Max(T)
    BY DEF Max, Totals!Max
  <1> QED
    BY <1>1 DEF Total, FoldLeft, MapThenFoldSet,
                Totals!Fold, Totals!FoldLeft, Totals!MapThenFoldSet

\* Providers that use no more than they reserved use together no more than they
\* reserved together, unless one of them does not say what it used.
LEMMA TotalBounded ==
  ASSUME NEW e \in Engines, NumericReserve(e),
         NEW used \in [Providers -> Units], NEW A \in SUBSET Providers,
         \A i \in A : used[i] # NaN => used[i] <= e.reserve[i],
         \A i \in Providers \ A : used[i] = 0
  PROVE  Total(used) # NaN => Total(used) <= Due(e, A)
  <1> DEFINE Initial(n) == [i \in 1..n |-> used[i]]
             Upto(n) == A \cap 1..n
             Bounded(n) == /\ Total(Initial(n)) \in Units
                           /\ Total(Initial(n)) # NaN => Total(Initial(n)) <= Due(e, Upto(n))
             Q == {n \in Nat : n <= NumProviders => Bounded(n)}
  <1>0. /\ NumProviders \in Nat /\ Providers = 1..NumProviders
        /\ NaN \notin Nat /\ A \subseteq Int
    BY ResearchAssumption DEF Providers
  <1>1. 0 \in Q
    <2>1. Initial(0) = <<>> /\ Upto(0) = {}
      BY <1>0
    <2>2. Total(<<>>) = 0 /\ Due(e, {}) = 0
      BY TotalIsFold, Totals!FoldEmpty, DueNothing
    <2>3. Bounded(0)
      <3> HIDE DEF Initial, Upto
      <3>1. Total(Initial(0)) = 0 /\ Due(e, Upto(0)) = 0
        BY <2>1, <2>2
      <3>2. 0 \in Units /\ 0 <= 0
        BY DEF Units
      <3> QED
        BY ONLY <3>1, <3>2
    <2> HIDE DEF Bounded
    <2> QED
      BY <2>3
  <1>2. ASSUME NEW n \in Nat, n \in Q PROVE n + 1 \in Q
    <2>1. ASSUME n + 1 <= NumProviders PROVE Bounded(n + 1)
      <3>1. n + 1 \in Providers /\ Bounded(n)
        BY <1>0, <1>2, <2>1
      <3>2. /\ Initial(n) \in Seq(Units) /\ used[n + 1] \in Units
            /\ Initial(n + 1) = Append(Initial(n), used[n + 1])
        <4>1. \A i \in 1..(n + 1) : i \in Providers
          BY <1>0, <2>1
        <4>2. \A i \in 1..(n + 1) : used[i] \in Units
          BY <4>1
        <4>3. Initial(n) \in Seq(Units) /\ Len(Initial(n)) = n
          BY <4>2
        <4>4. Initial(n + 1) \in Seq(Units) /\ Len(Initial(n + 1)) = n + 1
          BY <4>2
        <4>5. \A i \in 1..n : Initial(n + 1)[i] = Initial(n)[i]
          OBVIOUS
        <4>6. Initial(n + 1)[n + 1] = used[n + 1] /\ used[n + 1] \in Units
          BY <4>2
        <4> HIDE DEF Initial
        <4>7. /\ Append(Initial(n), used[n + 1]) \in Seq(Units)
              /\ Len(Append(Initial(n), used[n + 1])) = n + 1
              /\ \A i \in 1..(n + 1) : Append(Initial(n), used[n + 1])[i] =
                   IF i = n + 1 THEN used[n + 1] ELSE Initial(n)[i]
          BY <4>3, <4>6
        <4>8. \A i \in 1..(n + 1) : Initial(n + 1)[i] = Append(Initial(n), used[n + 1])[i]
          BY <4>5, <4>6, <4>7
        <4> QED
          BY <4>3, <4>4, <4>6, <4>7, <4>8, SeqEqual
      <3>3. Total(Initial(n + 1)) = Plus(Total(Initial(n)), used[n + 1])
        <4> HIDE DEF Initial
        <4>1. Totals!Fold(0, 0, Append(Initial(n), used[n + 1]))
                = Plus(Totals!Fold(0, 0, Initial(n)), used[n + 1])
          BY <3>2, Totals!FoldAppend
        <4> QED
          BY <3>2, <4>1, TotalIsFold
      <3>4. Total(Initial(n + 1)) \in Units
        BY <3>1, <3>2, <3>3, PlusType
      <3>5. /\ Due(e, Upto(n)) \in Nat /\ e.reserve[n + 1] \in Nat
            /\ Due(e, Upto(n + 1)) = IF n + 1 \in A THEN e.reserve[n + 1] + Due(e, Upto(n))
                                     ELSE Due(e, Upto(n))
        <4>1. Upto(n) \in SUBSET Providers /\ n + 1 \in Providers \ Upto(n)
          BY <3>1
        <4>2. Upto(n + 1) = IF n + 1 \in A THEN Upto(n) \cup {n + 1} ELSE Upto(n)
          BY <1>0
        <4> HIDE DEF Upto
        <4>3. Due(e, Upto(n)) \in Nat /\ e.reserve[n + 1] \in Nat
          BY <4>1, DueAdds, ReserveAdds
        <4>4. Due(e, Upto(n) \cup {n + 1}) = e.reserve[n + 1] + Due(e, Upto(n))
          BY <4>1, DueAdds
        <4> QED
          BY <4>2, <4>3, <4>4
      <3>6. ASSUME Total(Initial(n + 1)) # NaN
            PROVE  Total(Initial(n + 1)) <= Due(e, Upto(n + 1))
        <4> DEFINE t == Total(Initial(n))
                   d == Due(e, Upto(n))
        <4>1. t # NaN /\ used[n + 1] # NaN
          BY <3>3, <3>6 DEF Plus
        <4>2. t \in Nat /\ t <= d /\ used[n + 1] \in Nat
          BY <3>1, <3>2, <4>1 DEF Units
        <4>3. Total(Initial(n + 1)) = t + used[n + 1]
          BY <3>3, <4>1 DEF Plus
        <4>4. /\ n + 1 \in A => used[n + 1] <= e.reserve[n + 1]
              /\ n + 1 \notin A => used[n + 1] = 0
          BY <3>1, <4>1
        <4> HIDE DEF Initial, Upto
        <4>5. d \in Nat /\ e.reserve[n + 1] \in Nat
          BY <3>5
        <4>6. Due(e, Upto(n + 1)) = IF n + 1 \in A THEN e.reserve[n + 1] + d ELSE d
          BY <3>5
        <4> HIDE DEF t, d
        <4>7. t + used[n + 1] <= Due(e, Upto(n + 1))
          BY <4>2, <4>4, <4>5, <4>6
        <4> QED
          BY <4>3, <4>7
      <3> HIDE DEF Initial, Upto
      <3> QED
        BY <3>4, <3>6
    <2> HIDE DEF Bounded
    <2> QED
      BY <2>1
  <1>3. Bounded(NumProviders)
    <2>1. NumProviders \in Q
      <3> HIDE DEF Q
      <3> QED
        BY <1>0, <1>1, <1>2, Totals!NatSetInduction
    <2> HIDE DEF Bounded
    <2> QED
      BY <1>0, <2>1
  <1>4. Initial(NumProviders) = used /\ Upto(NumProviders) = A
    BY <1>0
  <1> HIDE DEF Initial, Upto
  <1> QED
    BY <1>3, <1>4

-------------------------------------------------------------------------------
(* Initially.                                                               *)

LEMMA InitInv == Init => IInv
  <1> SUFFICES ASSUME Init PROVE IInv
    OBVIOUS
  <1>0. /\ Admitted = {} /\ cursor = 1 /\ pc = "plan" /\ reserved = 0
        /\ runs = [i \in Providers |-> None] /\ NumProviders \in Nat
        /\ \A i \in Providers : i \in Int /\ i >= 1
    BY ResearchAssumption DEF Init, Admitted, ToSet, Providers
  <1>1. TypeOK
    BY InitType
  <1>2. PlanInv
    BY DEF Init, PlanInv
  <1>3. BudgetInv
    BY NothingReserved DEF Init, BudgetInv
  <1>4. PoolInv
    BY DEF Init, PoolInv, ToSet
  <1>5. RunsInv
    BY ResearchAssumption DEF Init, RunsInv, Providers
  <1>6. ExitInv
    BY DEF Init, ExitInv, OrdinaryFailureContained
  <1>7. RecordInv
    BY <1>0 DEF RecordInv
  <1>8. BillInv
    <2>1. reserved = Bill(Admitted)
      BY <1>0, DueNothing DEF Bill
    <2> QED
      BY <1>0, <2>1 DEF BillInv
  <1>9. ResultInv
    BY DEF Init, ResultInv
  <1>10. LedgerInv
    BY DEF Init, LedgerInv
  <1>11. BookedInv
    <2>1. 0 \in 0..NumProviders /\ cursor - 1 = 0 /\ 1..0 = {}
      BY <1>0
    <2>2. Contract!Booked(engine)[0] = 0
      BY <2>1, BookedUnfolds
    <2> QED
      BY <1>0, <2>1, <2>2 DEF BookedInv
  <1> QED
    BY <1>1, <1>2, <1>3, <1>4, <1>5, <1>6, <1>7, <1>8, <1>9, <1>10, <1>11 DEF IInv

-------------------------------------------------------------------------------
(* Theorems.                                                                *)

\* The engine never leaves its inductive invariant, whatever the providers and
\* the validator do and however the pool schedules the calls.
THEOREM Inductive == Spec => []IInv
  <1>1. IInv /\ [Next]_vars => IInv'
    BY StepType, StepPlan, StepPool, StepRuns, StepExit, StepRecord, StepBill,
       StepResult, StepLedger, StepBooked DEF IInv
  <1> QED
    BY InitInv, <1>1, PTL DEF Spec

\* Every variable keeps its type (ResearchEngine.run of research.py:201-299).
THEOREM TypeCorrect == Spec => []TypeOK
  <1>1. IInv => TypeOK
    BY DEF IInv
  <1> QED
    BY Inductive, <1>1, PTL

\* Reserving first means the running total of reserved_units never exceeds a
\* numeric max_units (research.py:206-216), so the budget of the result can
\* always be constructed (research.py:285-289).
THEOREM ReservedWithinBudget == Spec => []BudgetInv
  <1>1. IInv => BudgetInv
    BY DEF IInv
  <1> QED
    BY Inductive, <1>1, PTL

\* run() raises only for a BaseException of a provider, a misbehaving
\* validator or a value that has no canonical text (research.py:225-231).
THEOREM FailuresContained == Spec => []OrdinaryFailureContained
  <1>1. IInv => OrdinaryFailureContained
    BY DEF IInv, ExitInv
  <1> QED
    BY Inductive, <1>1, PTL

\* No provider call outlives the run that launched it, also when an aborting
\* provider tears the run down (the with block of research.py:219-240).
THEOREM CallsJoined == Spec => []NoCallOutlivesRun
  <1>1. ASSUME IInv PROVE NoCallOutlivesRun
    <2>1. /\ scheduled \in Seq(Providers)
          /\ call \in [Providers -> {"none", "queued", "running", "finished"}]
      BY <1>1 DEF IInv, TypeOK
    <2>2. Launched \subseteq Admitted
      BY <1>1 DEF IInv, PoolInv, Launched
    <2>3. ASSUME pc \in {"assess", "returned", "raised"}, NEW i \in Admitted
          PROVE  call[i] = "finished"
      <3>1. i \in Providers
        BY <2>1, <2>3 DEF Admitted, ToSet
      <3>2. queue = <<>> /\ call[i] # "running"
        BY <1>1, <2>3, <3>1 DEF IInv, PoolInv, PoolIdle, Running
      <3>3. call[i] # "queued"
        BY <1>1, <3>1, <3>2 DEF IInv, PoolInv, ToSet
      <3>4. call[i] # "none"
        BY <1>1, <2>3 DEF IInv, PoolInv
      <3> QED
        BY <2>1, <3>1, <3>2, <3>3, <3>4
    <2>4. pc \in {"assess", "returned", "raised"} => queue = <<>>
      BY <1>1 DEF IInv, PoolInv, PoolIdle
    <2> QED
      BY <2>2, <2>3, <2>4 DEF NoCallOutlivesRun
  <1> QED
    BY Inductive, <1>1, PTL

\* The admitted providers are among the configured ones; once the plan is
\* submitted they are the launched ones.
LEMMA AdmittedLaunched ==
  ASSUME IInv
  PROVE  /\ Admitted \in SUBSET Providers /\ Launched \in SUBSET Admitted
         /\ pc \notin {"plan", "submit"} => Launched = Admitted
  <1>1. Admitted \in SUBSET Providers
    BY DEF IInv, TypeOK, Admitted, ToSet
  <1>2. Launched \in SUBSET Admitted
    BY DEF IInv, PoolInv, Launched
  <1>3. pc \notin {"plan", "submit"} => Admitted \subseteq Launched
    BY <1>1 DEF IInv, PoolInv, Launched
  <1> QED
    BY <1>1, <1>2, <1>3

\* Whatever the providers report, the launched ones fit the budget together
\* and the result bills what they reserved, never more use than that
\* (research.py:203-216 and 285-289).
THEOREM BudgetIsHeld == Spec => []BudgetHeld
  <1>1. ASSUME IInv, Numeric PROVE BudgetHeld
    <2>0. engine \in Engines /\ NumericReserve(engine) /\ engine.max # NaN
      BY <1>1 DEF IInv, TypeOK, Numeric, NumericReserve
    <2>1. /\ Admitted \in SUBSET Providers /\ Launched \in SUBSET Admitted
          /\ pc \notin {"plan", "submit"} => Launched = Admitted
      BY <1>1, AdmittedLaunched
    <2>2. reserved = Due(engine, Admitted) /\ reserved \in Nat
      BY <1>1, <2>0, <2>1, DueAdds DEF IInv, BillInv, Bill
    <2>3. ASSUME engine.max # NoLimit PROVE Bill(Launched) <= engine.max
      <3>1. engine.max \in Nat
        BY <2>0, <2>3, ResearchAssumption DEF Units
      <3>2. ~ (reserved > engine.max)
        BY <1>1, <2>0, <2>2, <2>3, OverBudgetOfNumbers DEF IInv, BudgetInv
      <3>3. Due(engine, Launched) <= Due(engine, Admitted)
        BY <2>0, <2>1, DueMonotone
      <3>4. Launched \in SUBSET Providers
        BY <2>1
      <3>5. Due(engine, Launched) \in Nat
        BY <2>0, <3>4, DueAdds
      <3> QED
        BY <2>2, <3>1, <3>2, <3>3, <3>5 DEF Bill
    <2>4. ASSUME result # None
          PROVE  /\ result.reserved = Bill(Launched)
                 /\ result.used # NaN => result.used <= result.reserved
      <3>1. pc = "returned" /\ result = Report(engine, runs, assessments, reserved)
        BY <1>1, <2>4 DEF IInv, ResultInv
      <3> DEFINE used == [i \in DOMAIN runs |-> runs[i].used]
      <3>2. result.reserved = reserved /\ result.used = Total(used)
        BY <3>1 DEF Report
      <3>3. DOMAIN runs = Providers /\ \A i \in Providers : runs[i] \in Run /\ runs[i] # None
        BY <1>1, <3>1, ResearchAssumption DEF IInv, TypeOK, RunsInv
      <3>4. used \in [Providers -> Units]
        BY <3>3 DEF Run
      <3>5. ASSUME NEW i \in Admitted PROVE used[i] # NaN => used[i] <= engine.reserve[i]
        <4>1. i \in Providers
          BY <2>1
        <4>2. /\ engine.reserve[i] \in Nat /\ NaN \notin Nat
              /\ runs[i] = Outcome(engine, i, answer[i])
          BY <1>1, <2>0, <3>3, <4>1, ReserveAdds, ResearchAssumption DEF IInv, RecordInv
        <4>3. CASE Valid(engine, i, answer[i])
          <5>1. runs[i].used = answer[i].units
            BY <4>2, <4>3 DEF Outcome, Succeeded
          <5>2. ~ Exceeds(answer[i].units, engine.reserve[i])
            BY <4>3 DEF Valid
          <5>3. used[i] = answer[i].units /\ used[i] \in Units
            BY <3>3, <3>4, <4>1, <5>1
          <5> HIDE DEF used
          <5> QED
            BY <4>2, <5>2, <5>3 DEF Exceeds, Units
        <4>4. CASE ~ Valid(engine, i, answer[i])
          <5>1. runs[i].used = 0
            BY <4>2, <4>4 DEF Outcome, Failed
          <5>2. used[i] = 0
            BY <3>3, <4>1, <5>1
          <5> HIDE DEF used
          <5> QED
            BY <4>2, <5>2
        <4> QED
          BY <4>3, <4>4
      <3>6. ASSUME NEW i \in Providers \ Admitted PROVE used[i] = 0
        BY <1>1, <3>3 DEF IInv, RecordInv, Skipped
      <3>7. Total(used) # NaN => Total(used) <= Due(engine, Admitted)
        <4> HIDE DEF used
        <4> QED
          BY <2>0, <2>1, <3>4, <3>5, <3>6, TotalBounded
      <3>8. Launched = Admitted
        BY <2>1, <3>1
      <3> QED
        BY <2>2, <3>2, <3>7, <3>8 DEF Bill
    <2> QED
      BY <2>3, <2>4 DEF BudgetHeld
  <1>2. IInv => BudgetHeld
    BY <1>1 DEF BudgetHeld
  <1> QED
    BY Inductive, <1>2, PTL

\* Who is admitted is settled by the reservations: a provider is passed over
\* exactly when it does not fit beside those admitted before it
\* (the loop of research.py:206-216).
THEOREM AdmissionIsExact == Spec => []AdmissionExact
  <1>1. IInv => AdmissionExact
    BY DEF IInv, BillInv, AdmissionExact
  <1> QED
    BY Inductive, <1>1, PTL

\* The assessment log of a result lists the claims of the valid answers, each
\* once, under its provider and in the order of the configuration
\* (research.py:242-267).
THEOREM LedgerIsComplete == Spec => []LedgerComplete
  <1>1. ASSUME IInv, result # None PROVE LedgerComplete
    <2> DEFINE Claims(i) == IF i \in Good
                            THEN [k \in DOMAIN answer[i].claims |->
                                    [provider |-> i, claim |-> answer[i].claims[k]]]
                            ELSE <<>>
    <2>1. pc = "returned" /\ Items(assessments) = Filed(runs, NumProviders)
      BY <1>1 DEF IInv, ResultInv, LedgerInv
    <2>2. /\ \A i \in Providers : runs[i] # None
          /\ \A i \in Admitted : call[i] # "none"
      BY <1>1, <2>1 DEF IInv, RunsInv, PoolInv
    <2>3. ASSUME NEW i \in Providers PROVE Entries(runs, i) = Claims(i)
      <3>1. CASE i \in Good
        <4>1. i \in Admitted /\ Valid(engine, i, answer[i])
          BY <1>1, <3>1, AdmittedLaunched DEF Good
        <4>2. runs[i] = Succeeded(engine, i, answer[i])
          BY <1>1, <2>2, <2>3, <4>1 DEF IInv, RecordInv, Outcome
        <4>3. runs[i].claims = answer[i].claims
          BY <4>2 DEF Succeeded
        <4> QED
          BY <3>1, <4>3 DEF Entries
      <3>2. CASE i \notin Good
        <4>1. runs[i].claims = <<>>
          <5>1. CASE i \in Admitted
            <6>1. call[i] = "finished" /\ runs[i] = Outcome(engine, i, answer[i])
              BY <1>1, <2>2, <2>3, <5>1 DEF IInv, RecordInv
            <6>2. ~ Valid(engine, i, answer[i])
              BY <2>3, <3>2, <6>1 DEF Good, Launched
            <6> QED
              BY <6>1, <6>2 DEF Outcome, Failed
          <5>2. CASE i \notin Admitted
            BY <1>1, <2>2, <2>3, <5>2 DEF IInv, RecordInv, Skipped
          <5> QED
            BY <5>1, <5>2
        <4>2. DOMAIN runs[i].claims = {}
          BY <4>1
        <4> QED
          BY <3>2, <4>2 DEF Entries
      <3> QED
        BY <3>1, <3>2
    <2>4. [i \in 1..NumProviders |-> Entries(runs, i)] = [i \in Providers |-> Claims(i)]
      <3> HIDE DEF Claims
      <3> QED
        BY <2>3 DEF Providers
    <2>5. Items(assessments) = FlattenSeq([i \in Providers |-> Claims(i)])
      BY <2>1, <2>4 DEF Filed
    <2> QED
      BY <2>5 DEF LedgerComplete, Items
  <1>2. IInv => LedgerComplete
    BY <1>1 DEF LedgerComplete
  <1> QED
    BY Inductive, <1>2, PTL

-------------------------------------------------------------------------------
(* The report of an assessment log.                                         *)

KeptIn(log) ==
  {log[k].claim : k \in {j \in DOMAIN log : log[j].verdict # "rejected"}}
AskedIn(log) ==
  {Strip[log[k].claim.field] : k \in {j \in DOMAIN log : log[j].verdict = "needs_review"}}

KeptNames(log) == {Strip[c.field] : c \in KeptIn(log)}
Unsettled(log) ==
  {name \in KeptNames(log) : ~ Corroborated(AcceptedClaims(log), name)}

\* accepted_claims holds the claims that were not rejected, and only those.
LEMMA AcceptedAreKept ==
  ASSUME NEW log \in Seq(Assessment)
  PROVE  AcceptedClaims(log) \in Seq(Claim) /\ ToSet(AcceptedClaims(log)) = KeptIn(log)
  <1> DEFINE kept == Where(log, {entry \in ToSet(log) : NotRejected(entry)})
             f == [x \in Assessment |-> x.claim]
             m == [k \in DOMAIN kept |-> f[kept[k]]]
  <1>1. /\ kept \in Seq(Assessment)
        /\ ToSet(kept) = ToSet(log) \cap {entry \in ToSet(log) : NotRejected(entry)}
    BY WhereKeeps
  <1> HIDE DEF kept
  <1>2. m \in Seq({f[x] : x \in ToSet(kept)}) /\ ToSet(m) = {f[x] : x \in ToSet(kept)}
    <2>1. kept \in Seq(Assessment)
      BY <1>1
    <2> HIDE DEF f
    <2> QED
      BY <2>1, ToSetMap
  <1>3. /\ ToSet(kept) \subseteq Assessment
        /\ \A k \in DOMAIN kept : kept[k] \in Assessment
        /\ ToSet(log) \subseteq Assessment
    BY <1>1, SeqOfElements
  <1>4. m = [k \in DOMAIN kept |-> kept[k].claim]
    BY <1>3
  <1>5. {f[x] : x \in ToSet(kept)} = {x.claim : x \in ToSet(kept)}
    BY <1>3
  <1>6. {x.claim : x \in ToSet(kept)} = KeptIn(log)
    BY <1>1 DEF KeptIn, NotRejected, ToSet
  <1>7. KeptIn(log) \subseteq Claim
    BY <1>3, <1>6 DEF Assessment
  <1>8. AcceptedClaims(log) = m
    BY <1>4 DEF AcceptedClaims, kept
  <1> HIDE DEF m, f
  <1>9. m \in Seq(Claim)
    BY <1>2, <1>5, <1>6, <1>7, SeqMonotonic
  <1> QED
    BY <1>2, <1>5, <1>6, <1>8, <1>9

\* validator_review_fields holds the fields the validator questioned.
LEMMA QuestionedAreAsked ==
  ASSUME NEW log \in Seq(Assessment)
  PROVE  /\ QuestionedFields(log) \in Seq(Named)
         /\ {Strip[name] : name \in ToSet(QuestionedFields(log))} = AskedIn(log)
  <1> DEFINE asked == Where(log, {entry \in ToSet(log) : entry.verdict = "needs_review"})
             f == [x \in Assessment |-> x.claim.field]
             m == [k \in DOMAIN asked |-> f[asked[k]]]
  <1>1. /\ asked \in Seq(Assessment)
        /\ ToSet(asked) = ToSet(log) \cap {entry \in ToSet(log) : entry.verdict = "needs_review"}
    BY WhereKeeps
  <1> HIDE DEF asked
  <1>2. m \in Seq({f[x] : x \in ToSet(asked)}) /\ ToSet(m) = {f[x] : x \in ToSet(asked)}
    <2>1. asked \in Seq(Assessment)
      BY <1>1
    <2> HIDE DEF f
    <2> QED
      BY <2>1, ToSetMap
  <1>3. /\ ToSet(asked) \subseteq Assessment
        /\ \A k \in DOMAIN asked : asked[k] \in Assessment
        /\ ToSet(log) \subseteq Assessment
    BY <1>1, SeqOfElements
  <1>4. m = [k \in DOMAIN asked |-> asked[k].claim.field]
    BY <1>3
  <1>5. {f[x] : x \in ToSet(asked)} = {x.claim.field : x \in ToSet(asked)}
    BY <1>3
  <1>6. {Strip[name] : name \in {x.claim.field : x \in ToSet(asked)}} = AskedIn(log)
    BY <1>1 DEF AskedIn, ToSet
  <1>7. {x.claim.field : x \in ToSet(asked)} \subseteq Named
    BY <1>3 DEF Assessment, Claim
  <1>8. QuestionedFields(log) = m
    BY <1>4 DEF QuestionedFields, asked
  <1> HIDE DEF m, f
  <1>9. m \in Seq(Named)
    BY <1>2, <1>5, <1>7, SeqMonotonic
  <1> QED
    BY <1>2, <1>5, <1>6, <1>8, <1>9

\* What the report of a log resolves, misses and sends to review.
THEOREM ReportRoutes ==
  ASSUME NEW e \in Engines, NEW run, NEW log \in Seq(Assessment), NEW booked
  PROVE  LET r == Report(e, run, log, booked)
         IN  /\ r.attributes = Attributes(AcceptedClaims(log))
             /\ DOMAIN r.attributes = KeptNames(log)
             /\ ToSet(r.missing) = ToSet(Dedupe(e.requested)) \ KeptNames(log)
             /\ ToSet(r.review) = Unsettled(log) \cup AskedIn(log)
                                    \cup (ToSet(Dedupe(e.requested)) \ KeptNames(log))
             /\ r.review \in Seq(Named)
  <1> DEFINE claims == AcceptedClaims(log)
             names == KeptNames(log)
             requested == Dedupe(e.requested)
             attributes == Attributes(claims)
             missing == Missing(requested, attributes)
             fields == ReviewFields(claims)
             asked == QuestionedFields(log)
             open == Unsettled(log)
  <1>1. claims \in Seq(Claim) /\ ToSet(claims) = KeptIn(log)
    BY AcceptedAreKept
  <1>2. names = NamesOf(claims)
    BY <1>1 DEF NamesOf, KeptNames
  <1>3. names \subseteq Named
    <2>1. KeptIn(log) \subseteq Claim
      BY <1>1, SeqOfElements
    <2> QED
      BY <2>1, ClaimsCompare, StripAgain DEF KeptNames
  <1> HIDE DEF claims, names
  <1>4. DOMAIN attributes = names
    BY <1>1, <1>2, ClaimsCompare, AttributesQuote
  <1>5. fields \in Seq(names) /\ ToSet(fields) = open
    BY <1>1, <1>2, ClaimsCompare, ReviewFieldsAreOpen DEF Unsettled, claims, names
  <1>6. requested \in Seq(Named) /\ ToSet(requested)
          = {Strip[name] : name \in ToSet(e.requested)} \cap Named
    BY ResearchAssumption, DedupeKeeps
  <1>7. asked \in Seq(Named) /\ {Strip[name] : name \in ToSet(asked)} = AskedIn(log)
    BY QuestionedAreAsked
  <1> HIDE DEF requested, attributes, fields, asked, open
  <1>8. missing \in Seq(Named) /\ ToSet(missing) = ToSet(requested) \ names
    BY <1>4, <1>6, MissingIsTheRest
  <1> HIDE DEF missing
  <1>9. fields \in Seq(Named)
    BY <1>3, <1>5, SeqMonotonic
  <1>10. /\ fields \o asked \o missing \in Seq(Named)
         /\ ToSet(fields \o asked \o missing) = ToSet(fields) \cup ToSet(asked) \cup ToSet(missing)
    <2>1. /\ fields \o asked \in Seq(Named)
          /\ ToSet(fields \o asked) = ToSet(fields) \cup ToSet(asked)
      BY <1>7, <1>9, ConcatProperties, ToSetConcat
    <2> DEFINE front == fields \o asked
    <2>2. front \in Seq(Named) /\ missing \in Seq(Named)
      BY <1>8, <2>1
    <2> HIDE DEF front
    <2>3. /\ front \o missing \in Seq(Named)
          /\ ToSet(front \o missing) = ToSet(front) \cup ToSet(missing)
      BY <2>2, ConcatProperties, ToSetConcat
    <2> QED
      BY <2>1, <2>3 DEF front
  <1> DEFINE all == fields \o asked \o missing
  <1>11. /\ Dedupe(all) \in Seq(Named)
         /\ ToSet(Dedupe(all)) = {Strip[name] : name \in ToSet(all)} \cap Named
    <2>1. all \in Seq(DOMAIN Strip)
      BY <1>10, StripAgain, SeqMonotonic
    <2> HIDE DEF all
    <2> QED
      BY <2>1, DedupeKeeps
  <1>12. \A name \in open \cup ToSet(missing) : Strip[name] = name
    <2>1. \A name \in names : Strip[name] = name
      <3>1. \A c \in KeptIn(log) : c.field \in Named
        <4>1. KeptIn(log) \subseteq Claim
          BY <1>1, SeqOfElements
        <4> QED
          BY <4>1, ClaimsCompare
      <3> QED
        BY <3>1, StripAgain DEF names, KeptNames
    <2>2. \A name \in ToSet(requested) : Strip[name] = name
      <3>1. ToSet(e.requested) \subseteq DOMAIN Strip
        BY ResearchAssumption, SeqOfElements
      <3> QED
        BY <1>6, <3>1, StripAgain
    <2> QED
      BY <1>8, <2>1, <2>2 DEF open, Unsettled, names
  <1>13. {Strip[name] : name \in ToSet(all)} = open \cup AskedIn(log) \cup ToSet(missing)
    <2>1. ToSet(all) = open \cup ToSet(asked) \cup ToSet(missing)
      BY <1>5, <1>10
    <2> HIDE DEF all
    <2> QED
      BY <1>7, <1>12, <2>1
  <1>14. open \cup AskedIn(log) \cup ToSet(missing) \subseteq Named
    <2>1. AskedIn(log) \subseteq Named
      <3>1. ToSet(asked) \subseteq Named
        BY <1>7, SeqOfElements
      <3> QED
        BY <1>7, <3>1, StripAgain
    <2>2. ToSet(missing) \subseteq Named
      BY <1>8, SeqOfElements
    <2> QED
      BY <1>3, <2>1, <2>2 DEF open, Unsettled, names
  <1>15. ToSet(Dedupe(all)) = open \cup AskedIn(log) \cup ToSet(missing)
    BY <1>11, <1>13, <1>14
  <1>16. LET r == Report(e, run, log, booked)
         IN  r.attributes = attributes /\ r.missing = missing /\ r.review = Dedupe(all)
    BY DEF Report, claims, attributes, missing, requested, fields, asked, all
  <1> HIDE DEF all
  <1> QED
    BY <1>4, <1>8, <1>11, <1>15, <1>16 DEF claims, names, attributes, open, requested

-------------------------------------------------------------------------------
(* The result of a run.                                                     *)

\* Once the pool is left, the succeeded runs are those of the valid answers.
LEMMA SucceededIsGood ==
  ASSUME IInv, \A i \in Providers : runs[i] # None, pc \notin {"plan", "submit"}
  PROVE  \A i \in Providers : runs[i].status = "succeeded" <=> i \in Good
  <1> SUFFICES ASSUME NEW i \in Providers
               PROVE  runs[i].status = "succeeded" <=> i \in Good
    OBVIOUS
  <1>1. CASE i \in Admitted
    <2>1. call[i] = "finished" /\ runs[i] = Outcome(engine, i, answer[i])
      BY <1>1 DEF IInv, RecordInv
    <2>2. i \in Good <=> Valid(engine, i, answer[i])
      BY <2>1 DEF Good, Launched
    <2> QED
      BY <2>1, <2>2 DEF Outcome, Succeeded, Failed
  <1>2. CASE i \notin Admitted
    <2>1. i \notin Good
      BY <1>2, AdmittedLaunched DEF Good
    <2>2. runs[i] = Skipped
      BY <1>2 DEF IInv, RecordInv
    <2> QED
      BY <2>1, <2>2 DEF Skipped
  <1> QED
    BY <1>1, <1>2

\* A result is the report of a finished assessment of all runs.
LEMMA ResultReports ==
  ASSUME IInv, result # None
  PROVE  /\ engine \in Engines /\ assessments \in Seq(Assessment)
         /\ runs \in [Providers -> Run \cup {None}]
         /\ pc = "returned" /\ \A i \in Providers : runs[i] # None
         /\ result = Report(engine, runs, assessments, reserved)
         /\ Kept = KeptIn(assessments)
  BY DEF IInv, TypeOK, ResultInv, RunsInv, Kept, KeptIn

\* A field is settled exactly when the reconciliation accepts it.
LEMMA SettledIsCorroborated ==
  ASSUME assessments \in Seq(Assessment), NEW name
  PROVE  Corroborated(AcceptedClaims(assessments), name) <=> Settled(name)
  <1>1. ToSet(AcceptedClaims(assessments)) = KeptIn(assessments)
    BY AcceptedAreKept
  <1>2. ClaimedOn(AcceptedClaims(assessments), name) = KeptOn(name)
    BY <1>1 DEF ClaimedOn, KeptOn, Kept, KeptIn
  <1> QED
    BY <1>2 DEF Corroborated, Settled

\* The review list of a result is exactly the list of open fields, and its
\* status never says more than the runs and the open fields allow: statuses fail
\* closed (research.py:257-283).
THEOREM StatusesFailClosed == Spec => []StatusFailsClosed
  <1>1. ASSUME IInv, result # None PROVE StatusFailsClosed
    <2> DEFINE claims == AcceptedClaims(assessments)
               names == KeptNames(assessments)
    <2>1. /\ engine \in Engines /\ assessments \in Seq(Assessment)
          /\ runs \in [Providers -> Run \cup {None}]
          /\ pc = "returned" /\ \A i \in Providers : runs[i] # None
          /\ result = Report(engine, runs, assessments, reserved)
          /\ Kept = KeptIn(assessments)
      BY <1>1, ResultReports
    <2>2. /\ ToSet(result.review) = Unsettled(assessments) \cup AskedIn(assessments)
                                      \cup (ToSet(Dedupe(engine.requested)) \ names)
          /\ result.review \in Seq(Named)
      <3> DEFINE r == Report(engine, runs, assessments, reserved)
      <3>1. engine \in Engines /\ assessments \in Seq(Assessment) /\ result = r
        BY <2>1
      <3>2. /\ ToSet(r.review) = Unsettled(assessments) \cup AskedIn(assessments)
                                   \cup (ToSet(Dedupe(engine.requested)) \ KeptNames(assessments))
            /\ r.review \in Seq(Named)
        BY <3>1, ReportRoutes
      <3> HIDE DEF r
      <3> QED
        BY <3>1, <3>2
    <2>3. \A name : Corroborated(claims, name) <=> Settled(name)
      BY <2>1, SettledIsCorroborated
    <2>4. \A name : name \in names <=> KeptOn(name) # {}
      BY <2>1 DEF KeptOn, KeptNames
    <2> HIDE DEF claims
    <2>5. ToSet(result.review) = Open
      <3>1. Unsettled(assessments) = {name \in names : ~ Settled(name)}
        BY <2>3 DEF Unsettled, claims
      <3>2. names = {Strip[c.field] : c \in Kept}
        BY <2>1 DEF KeptNames
      <3> HIDE DEF names
      <3>3. ToSet(Dedupe(engine.requested)) \ names
              = {name \in ToSet(Dedupe(engine.requested)) : KeptOn(name) = {}}
        BY <2>4
      <3> QED
        BY <2>2, <3>1, <3>2, <3>3 DEF Open, AskedIn
    <2>6. result.review = <<>> <=> Open = {}
      BY <2>2, <2>5, SeqOfElements
    <2>7. \A i \in Providers : runs[i].status = "succeeded" <=> i \in Good
      BY <1>1, <2>1, SucceededIsGood
    <2>8. DOMAIN runs = Providers /\ Good \subseteq Providers
      BY <2>1 DEF Good, Launched
    <2>9. /\ (\A i \in DOMAIN runs : runs[i].status # "succeeded") <=> Good = {}
          /\ (\E i \in DOMAIN runs : runs[i].status # "succeeded") <=> Good # Providers
      BY <2>7, <2>8
    <2>10. result.status = StatusOf(runs, result.review)
      BY <2>1 DEF Report
    <2>11. result.status =
             IF Good = {} THEN "failed"
             ELSE IF Open # {} THEN "needs_review"
             ELSE IF Good # Providers THEN "partial"
             ELSE "completed"
      BY <2>6, <2>9, <2>10 DEF StatusOf
    <2> QED
      BY <2>5, <2>11 DEF StatusFailsClosed
  <1>2. IInv => StatusFailsClosed
    BY <1>1 DEF StatusFailsClosed
  <1> QED
    BY Inductive, <1>2, PTL

\* Every resolved attribute quotes, whole, a claim the validator let pass, and a
\* field whose claims were all rejected is not resolved (research.py:254-266).
THEOREM RejectedClaimsUnused == Spec => []RejectedNeverResolved
  <1>1. ASSUME IInv, result # None PROVE RejectedNeverResolved
    <2> DEFINE claims == AcceptedClaims(assessments)
               names == KeptNames(assessments)
    <2>1. /\ engine \in Engines /\ assessments \in Seq(Assessment)
          /\ result = Report(engine, runs, assessments, reserved)
          /\ Kept = KeptIn(assessments)
      BY <1>1, ResultReports
    <2>2. result.attributes = Attributes(claims) /\ DOMAIN result.attributes = names
      BY <2>1, ReportRoutes
    <2>3. claims \in Seq(Claim) /\ ToSet(claims) = KeptIn(assessments)
      BY <2>1, AcceptedAreKept
    <2> HIDE DEF claims
    <2>4. names = NamesOf(claims)
      BY <2>3 DEF NamesOf, KeptNames
    <2> HIDE DEF names
    <2>5. \A name \in names : \E c \in ClaimedOn(claims, name) :
            Attributes(claims)[name] =
              [value |-> c.value, url |-> c.url, at |-> c.at, conf |-> c.conf]
      BY <2>3, <2>4, ClaimsCompare, AttributesQuote
    <2>6. \A name : ClaimedOn(claims, name) = KeptOn(name)
      BY <2>1, <2>3 DEF ClaimedOn, KeptOn
    <2>7. names = {Strip[c.field] : c \in Kept}
      BY <2>1 DEF names, KeptNames
    <2> QED
      BY <2>2, <2>5, <2>6, <2>7 DEF RejectedNeverResolved
  <1>2. IInv => RejectedNeverResolved
    BY <1>1 DEF RejectedNeverResolved
  <1> QED
    BY Inductive, <1>2, PTL

-------------------------------------------------------------------------------
(* The contract speaks of the same report.                                  *)

\* The lists of the contract are those of the engine.
LEMMA SameLists ==
  /\ \A s : Contract!ToSet(s) = ToSet(s)
  /\ \A s, those : Contract!Where(s, those) = Where(s, those)
  /\ \A s : Contract!Distinct(s) = Distinct(s)
  /\ \A s : Contract!Sorted(s) = Sorted(s)
  /\ \A s : Contract!Best(s) = Best(s)
  /\ \A s : Contract!Total(s) = Total(s)
  <1>1. \A T : Max(T) = Contract!Max(T)
    BY DEF Max, Contract!Max
  <1>2. \A s, those : Contract!Where(s, those) = Where(s, those)
    BY <1>1 DEF Where, FoldLeft, MapThenFoldSet,
                Contract!Where, Contract!FoldLeft, Contract!MapThenFoldSet
  <1>3. \A s : Contract!Distinct(s) = Distinct(s)
    BY Zenon DEF Distinct, FoldLeft, MapThenFoldSet, Contains, Max,
                 Contract!Distinct, Contract!FoldLeft, Contract!MapThenFoldSet,
                 Contract!Contains, Contract!Max
  <1>4. \A c, d : Contract!Ranked(c, d) <=> Ranked(c, d)
    BY DEF Ranked, Below, Rank, Contract!Ranked, Contract!Below, Contract!Rank
  <1>5. \A s : Contract!Best(s) = Best(s)
    BY <1>4 DEF Best, Contract!Best
  <1>6. \A s : Contract!Sorted(s) = Sorted(s)
    BY Zenon DEF Sorted, FoldLeft, MapThenFoldSet, Max, InsertAt, Slot, Ranked,
                 Below, Rank, Contract!Sorted, Contract!FoldLeft,
                 Contract!MapThenFoldSet, Contract!Max, Contract!InsertAt,
                 Contract!Slot, Contract!Ranked, Contract!Below, Contract!Rank
  <1>7. \A s : Contract!Total(s) = Total(s)
    BY <1>1 DEF Total, FoldLeft, MapThenFoldSet, Plus,
                Contract!Total, Contract!FoldLeft, Contract!MapThenFoldSet, Contract!Plus
  <1>8. \A s : Contract!ToSet(s) = ToSet(s)
    BY DEF ToSet, Contract!ToSet
  <1> QED
    BY <1>2, <1>3, <1>5, <1>6, <1>7, <1>8

\* So are its resolutions.
LEMMA SameReconciliation ==
  /\ \A claims : Contract!FieldOrder(claims) = FieldOrder(claims)
  /\ \A claims : Contract!ReconcileClaims(claims) = ReconcileClaims(claims)
  /\ \A claims : Contract!ReviewFields(claims) = ReviewFields(claims)
  /\ \A claims : Contract!Attributes(claims) = Attributes(claims)
  <1>1. \A claims : Contract!FieldOrder(claims) = FieldOrder(claims)
    BY SameLists DEF FieldOrder, Contract!FieldOrder
  <1>2. \A claims, name : Contract!ClaimsOn(claims, name) = ClaimsOn(claims, name)
    BY SameLists DEF ClaimsOn, Contract!ClaimsOn
  <1>3. \A claims, text : Contract!Asserting(claims, text) = Asserting(claims, text)
    BY SameLists DEF Asserting, Contract!Asserting
  <1>4. \A claims : Contract!Representatives(claims) = Representatives(claims)
    BY SameLists, <1>3 DEF Representatives, Contract!Representatives
  <1>5. \A claims, c : Contract!Rivals(claims, c) = Rivals(claims, c)
    BY SameLists DEF Rivals, Contract!Rivals
  <1>6. \A claims : Contract!Resolve(claims) = Resolve(claims)
    BY SameLists, <1>4, <1>5 DEF Resolve, Contract!Resolve
  <1>7. \A claims : Contract!ReconcileClaims(claims) = ReconcileClaims(claims)
    BY SameLists, <1>1, <1>2, <1>6 DEF ReconcileClaims, Contract!ReconcileClaims
  <1>8. \A claims : Contract!ReviewFields(claims) = ReviewFields(claims)
    BY SameLists, <1>1, <1>7 DEF ReviewFields, Contract!ReviewFields
  <1>9. \A claims : Contract!Attributes(claims) = Attributes(claims)
    BY SameLists, <1>1, <1>7 DEF Attributes, Contract!Attributes
  <1> QED
    BY <1>1, <1>7, <1>8, <1>9

\* And so is the report.
LEMMA SameReport ==
  ASSUME NEW e, NEW run, NEW log, NEW booked
  PROVE  /\ Contract!Report(e, run, log, booked) = Report(e, run, log, booked)
         /\ Contract!Encodable(log) <=> Encodable(log)
         /\ Contract!CanReport(e, log, booked) <=> CanReport(e, log, booked)
  <1>1. \A names : Contract!Dedupe(names) = Dedupe(names)
    BY SameLists DEF Dedupe, Named, Contract!Dedupe, Contract!Named
  <1>2. \A requested, attributes :
          Contract!Missing(requested, attributes) = Missing(requested, attributes)
    BY SameLists DEF Missing, Contract!Missing
  <1>3. \A entry : Contract!NotRejected(entry) <=> NotRejected(entry)
    BY DEF NotRejected, Contract!NotRejected
  <1>4. Contract!AcceptedClaims(log) = AcceptedClaims(log)
    BY SameLists, <1>3 DEF AcceptedClaims, Contract!AcceptedClaims
  <1>5. Contract!QuestionedFields(log) = QuestionedFields(log)
    BY SameLists DEF QuestionedFields, Contract!QuestionedFields
  <1>6. \A review : Contract!StatusOf(run, review) = StatusOf(run, review)
    BY DEF StatusOf, Contract!StatusOf
  <1>7. Contract!Report(e, run, log, booked) = Report(e, run, log, booked)
    BY SameLists, SameReconciliation, <1>1, <1>2, <1>4, <1>5, <1>6
       DEF Report, Contract!Report
  <1>8. Contract!Encodable(log) <=> Encodable(log)
    BY <1>3 DEF Encodable, Contract!Encodable
  <1>9. Contract!CanReport(e, log, booked) <=> CanReport(e, log, booked)
    BY <1>8, SamePlan DEF CanReport, Contract!CanReport
  <1> QED
    BY <1>7, <1>8, <1>9

-------------------------------------------------------------------------------
(* The run as its contract sees it.                                         *)

\* Once the plan is made it is the plan of the contract.
LEMMA SameAdmission ==
  ASSUME IInv, pc # "plan"
  PROVE  /\ Contract!Admitted(engine) = Admitted
         /\ Contract!Booked(engine)[NumProviders] = reserved
  <1>1. /\ reserved = Contract!Booked(engine)[NumProviders]
        /\ Admitted = Contract!Admitted(engine) \cap 1..NumProviders
    BY DEF IInv, BookedInv
  <1>2. Contract!Admitted(engine) \subseteq 1..NumProviders
    BY DEF Contract!Admitted, Contract!Providers
  <1> QED
    BY <1>1, <1>2

\* Whoever was admitted has answered once the pool is idle.
LEMMA IdleMeansAnswered ==
  ASSUME IInv, pc \notin {"plan", "submit"}, PoolIdle
  PROVE  Contract!Answered
  <1>1. \A i \in Admitted : i \in Providers
    BY SeqOfElements DEF IInv, TypeOK, Admitted
  <1>2. ASSUME NEW i \in Admitted PROVE answer[i] # None
    <2>1. call[i] \in {"queued", "running", "finished"}
      BY <1>1 DEF IInv, TypeOK, PoolInv
    <2>2. call[i] # "running"
      BY <1>1 DEF PoolIdle, Running
    <2>3. call[i] # "queued"
      BY <1>1 DEF IInv, PoolInv, PoolIdle, ToSet
    <2> QED
      BY <1>1, <2>1, <2>2, <2>3 DEF IInv, PoolInv
  <1> QED
    BY <1>2, SameAdmission DEF Contract!Answered

\* The table of runs is a function of the answers.
LEMMA SameRuns ==
  ASSUME IInv, pc # "plan", \A i \in Providers : runs[i] # None
  PROVE  /\ Contract!Runs = runs
         /\ Contract!Docket = Filed(runs, NumProviders)
         /\ ~ Contract!Torn
  <1>0. Contract!Providers = Providers
    BY DEF Contract!Providers, Providers
  <1>1. \A e, i, a : Contract!Outcome(e, i, a) = Outcome(e, i, a)
    BY DEF Outcome, Valid, Exceeds, Succeeded, Failed, Contract!Outcome, Contract!Valid,
           Contract!Exceeds, Contract!Succeeded, Contract!Failed
  <1>2. Contract!Skipped = Skipped
    BY DEF Skipped, Contract!Skipped
  <1>3. ASSUME NEW i \in Providers
        PROVE  runs[i] = IF i \in Admitted THEN Outcome(engine, i, answer[i]) ELSE Skipped
    BY <1>3 DEF IInv, RecordInv
  <1>4. runs = [i \in Providers |-> runs[i]]
    BY DEF IInv, TypeOK
  <1>5. Contract!Runs = [i \in Providers |-> IF i \in Admitted
                                            THEN Outcome(engine, i, answer[i]) ELSE Skipped]
    BY <1>0, <1>1, <1>2, SameAdmission DEF Contract!Runs
  <1>6. Contract!Runs = runs
    BY <1>3, <1>4, <1>5
  <1>7. \A s : Contract!FlattenSeq(s) = FlattenSeq(s)
    BY DEF FlattenSeq, Contract!FlattenSeq
  <1>8. Contract!Docket = Filed(runs, NumProviders)
    BY <1>0, <1>6, <1>7 DEF Contract!Docket, Filed, Entries, Providers
  <1>9. ~ Contract!Torn
    <2>1. \A i \in Admitted : i \in Providers /\ answer[i].tag # "aborts"
      BY SeqOfElements DEF IInv, TypeOK, Admitted, RecordInv
    <2> QED
      BY <2>1, SameAdmission DEF Contract!Torn
  <1> QED
    BY <1>6, <1>8, <1>9

\* The file of the first providers is the beginning of the docket.
LEMMA FiledPrefix ==
  ASSUME NEW run, \A i \in Providers : run[i] \in Run, NEW n \in 0..NumProviders
  PROVE  /\ Len(Filed(run, n)) <= Len(Filed(run, NumProviders))
         /\ \A k \in 1..Len(Filed(run, n)) : Filed(run, NumProviders)[k] = Filed(run, n)[k]
  <1>1. NumProviders \in Nat /\ NumProviders \in 0..NumProviders
    BY ResearchAssumption
  <1>2. /\ Filed(run, n) = Sums!Flat(Filings(run), n)
        /\ Filed(run, NumProviders) = Sums!Flat(Filings(run), NumProviders)
        /\ \A i \in 1..NumProviders : Filings(run)[i] \in Seq(Item)
    BY <1>1, FiledIsFlat
  <1> QED
    BY <1>1, <1>2, Sums!FlatPrefix

\* The next claim to assess is the next one of the docket.
LEMMA NextOfDocket ==
  ASSUME IInv, pc = "assess", cursor <= NumProviders, Assessable(cursor)
  PROVE  /\ Len(assessments) < Len(Filed(runs, NumProviders))
         /\ Filed(runs, NumProviders)[Len(assessments) + 1]
              = [provider |-> cursor, claim |-> runs[cursor].claims[judged + 1]]
  <1>0. /\ cursor \in Providers /\ NumProviders \in Nat /\ judged \in Nat
        /\ cursor \in 0..NumProviders /\ cursor - 1 \in 0..NumProviders
        /\ NumProviders \in 0..NumProviders /\ assessments \in Seq(Assessment)
    BY ResearchAssumption DEF IInv, TypeOK, Providers
  <1>1. \A i \in Providers : runs[i] \in Run
    BY DEF IInv, TypeOK, RunsInv
  <1> DEFINE s == Filed(runs, cursor - 1)
             t == Entries(runs, cursor)
             u == SubSeq(t, 1, judged)
             w == Filed(runs, cursor)
             all == Filed(runs, NumProviders)
  <1>2. s \in Seq(Item) /\ w \in Seq(Item) /\ all \in Seq(Item) /\ w = s \o t
    BY <1>0, <1>1, FiledGrows
  <1>3. /\ t \in Seq(Item) /\ Len(t) = Len(runs[cursor].claims) /\ judged < Len(t)
        /\ t[judged + 1] = [provider |-> cursor, claim |-> runs[cursor].claims[judged + 1]]
    <2>1. judged < Len(runs[cursor].claims)
      BY DEF Assessable
    <2>2. /\ t \in Seq(Item) /\ Len(t) = Len(runs[cursor].claims)
          /\ \A k \in 1..Len(runs[cursor].claims) :
               t[k] = [provider |-> cursor, claim |-> runs[cursor].claims[k]]
      BY <1>0, <1>1, EntriesType
    <2>3. Len(t) \in Nat
      BY <2>2
    <2> HIDE DEF t
    <2>4. judged + 1 \in 1..Len(runs[cursor].claims)
      BY <1>0, <2>1, <2>2, <2>3
    <2> QED
      BY <2>1, <2>2, <2>4
  <1>4. Items(assessments) = s \o u
    BY DEF IInv, LedgerInv
  <1>5. Len(Items(assessments)) = Len(assessments) /\ Len(assessments) \in Nat
    BY <1>0 DEF Items
  <1> HIDE DEF s, t, w, all
  <1>6. /\ Len(s) \in Nat /\ Len(t) \in Nat /\ Len(w) \in Nat /\ Len(all) \in Nat
        /\ u \in Seq(Item) /\ Len(u) = judged
    BY <1>0, <1>2, <1>3, SubSeqProperties
  <1>7. Len(assessments) = Len(s) + judged
    BY <1>2, <1>4, <1>5, <1>6, ConcatProperties
  <1>8. /\ Len(w) = Len(s) + Len(t)
        /\ w[Len(s) + (judged + 1)] = t[judged + 1]
    <2>1. /\ Len(w) = Len(s) + Len(t)
          /\ \A k \in 1..(Len(s) + Len(t)) :
               w[k] = IF k <= Len(s) THEN s[k] ELSE t[k - Len(s)]
      <3>0. s \in Seq(Item) /\ t \in Seq(Item)
        BY <1>2, <1>3
      <3>1. /\ Len(s \o t) = Len(s) + Len(t)
            /\ \A k \in 1..(Len(s) + Len(t)) :
                 (s \o t)[k] = IF k <= Len(s) THEN s[k] ELSE t[k - Len(s)]
        BY ONLY <3>0, ConcatProperties
      <3> QED
        BY ONLY <1>2, <3>1
    <2> DEFINE k == Len(s) + (judged + 1)
    <2>2. /\ k \in 1..(Len(s) + Len(t)) /\ ~ (k <= Len(s))
          /\ k - Len(s) = judged + 1
      <3>1. judged \in Nat /\ judged < Len(t) /\ Len(s) \in Nat /\ Len(t) \in Nat
        BY <1>0, <1>3, <1>6
      <3> QED
        BY ONLY <3>1
    <2> HIDE DEF k
    <2>3. w[k] = t[judged + 1]
      BY <2>1, <2>2
    <2> QED
      BY <2>1, <2>3 DEF k
  <1>9. /\ Len(w) <= Len(all)
        /\ \A k \in 1..Len(w) : all[k] = w[k]
    BY <1>0, <1>1, FiledPrefix DEF w, all
  <1>10. /\ Len(assessments) < Len(all)
         /\ Len(assessments) + 1 \in 1..Len(w)
         /\ Len(assessments) + 1 = Len(s) + (judged + 1)
    <2>1. judged \in Nat /\ judged < Len(t)
      BY <1>0, <1>3
    <2>2. Len(assessments) = Len(s) + judged /\ Len(w) = Len(s) + Len(t) /\ Len(w) <= Len(all)
      BY <1>7, <1>8, <1>9
    <2> QED
      BY ONLY <1>6, <2>1, <2>2
  <1>11. all[Len(assessments) + 1] = t[judged + 1]
    BY ONLY <1>8, <1>9, <1>10
  <1> QED
    BY <1>3, <1>10, <1>11 DEF all

\* While claims are assessed the contract may judge; it has none left exactly
\* when the loops are over.
LEMMA AssessingIsJudging ==
  ASSUME IInv, pc = "assess"
  PROVE  /\ Contract!Answered /\ Contract!Judgeable
         /\ Contract!Runs = runs /\ Contract!Docket = Filed(runs, NumProviders)
         /\ cursor <= NumProviders /\ Assessable(cursor) => Contract!Pending
         /\ cursor > NumProviders => ~ Contract!Pending
  <1>1. PoolIdle /\ \A i \in Providers : runs[i] # None
    BY DEF IInv, PoolInv, RunsInv
  <1>2. Contract!Answered
    BY <1>1, IdleMeansAnswered
  <1>3. /\ Contract!Runs = runs /\ Contract!Docket = Filed(runs, NumProviders)
        /\ ~ Contract!Torn
    BY <1>1, SameRuns
  <1>4. Contract!Judgeable
    BY <1>2, <1>3 DEF Contract!Judgeable, Over
  <1>5. cursor <= NumProviders /\ Assessable(cursor) => Contract!Pending
    BY <1>3, <1>4, NextOfDocket DEF Contract!Pending
  <1>6. ASSUME cursor > NumProviders PROVE ~ Contract!Pending
    <2>1. Items(assessments) = Filed(runs, NumProviders) /\ assessments \in Seq(Assessment)
      BY <1>6 DEF IInv, LedgerInv, TypeOK
    <2>2. Len(Items(assessments)) = Len(assessments) /\ Len(assessments) \in Nat
      BY <2>1 DEF Items
    <2> QED
      BY <1>3, <2>1, <2>2 DEF Contract!Pending
  <1> QED
    BY <1>2, <1>3, <1>4, <1>5, <1>6

-------------------------------------------------------------------------------
(* The engine implements its contract.                                      *)

LEMMA StartsAsContract == Init => Contract!Init
  <1> SUFFICES ASSUME Init PROVE Contract!Init
    OBVIOUS
  <1>1. (IF Over THEN pc ELSE "pending") = "pending"
    BY DEF Init, Over
  <1> QED
    BY <1>1 DEF Init, Contract!Init, Providers, Contract!Providers

\* A run that raises does so for a reason the contract names.
LEMMA RaisesAsContract ==
  ASSUME IInv, pc # "plan", pc # "submit", ~ Over, PoolIdle, Goto("raised"),
         UNCHANGED <<engine, answer, assessments, result>>,
         \/ pc = "unwind"
         \/ Contract!Pending /\ "fails" \in Verdicts(engine)
         \/ ~ Contract!Pending /\ ~ Encodable(assessments)
  PROVE  Contract!Raise
  <1>1. Contract!Answered
    BY IdleMeansAnswered
  <1>2. (IF Over THEN pc ELSE "pending") = "pending"
    BY DEF Over
  <1>3. (IF Over THEN pc ELSE "pending")' = "raised"
    BY DEF Over, Goto
  <1>4. pc = "unwind" => Contract!Torn
    <2>1. \A i \in Launched : i \in Admitted
      BY DEF IInv, PoolInv, Launched
    <2> QED
      BY <2>1, SameAdmission DEF IInv, ExitInv, Contract!Torn
  <1>5. Contract!Verdicts(engine) = Verdicts(engine)
    BY DEF Verdicts, Contract!Verdicts
  <1>6. Contract!Encodable(assessments) <=> Encodable(assessments)
    BY SameReport
  <1> QED
    BY <1>1, <1>2, <1>3, <1>4, <1>5, <1>6 DEF Contract!Raise

LEMMA StepsAsContract == IInv /\ [Next]_vars => [Contract!Next]_Contract!vars
  <1> SUFFICES ASSUME IInv, [Next]_vars PROVE [Contract!Next]_Contract!vars
    OBVIOUS
  <1> USE DEF poolVars
  <1> DEFINE outcome == IF Over THEN pc ELSE "pending"
             Still == UNCHANGED <<engine, answer, assessments, result>> /\ outcome' = outcome
  <1>0. Still => UNCHANGED Contract!vars
    BY DEF Contract!vars
  <1>1. CASE Admit \/ EndPlan \/ Submit \/ EndSubmit \/ StartCall
    <2>1. Still
      BY <1>1 DEF Admit, EndPlan, Submit, EndSubmit, StartCall, Goto, Over
    <2> QED
      BY <1>0, <2>1
  <1>2. CASE CollectRun \/ CollectAbort \/ EndCollect \/ NextRun
    <2>1. Still
      BY <1>2 DEF CollectRun, CollectAbort, EndCollect, NextRun, Goto, Over
    <2> QED
      BY <1>0, <2>1
  <1>3. ASSUME NEW i \in Providers, NEW a \in Answers, FinishCall(i, a)
        PROVE  Contract!Next
    <2>1. /\ call[i] = "running" /\ answer' = [answer EXCEPT ![i] = a]
          /\ UNCHANGED <<engine, pc, assessments, result>>
      BY <1>3 DEF FinishCall
    <2>2. i \in Admitted /\ answer[i] = None
      BY <2>1 DEF IInv, PoolInv
    <2>3. i \in Contract!Admitted(engine)
      BY <2>2 DEF IInv, BookedInv
    <2>4. outcome' = outcome
      BY <2>1 DEF Over
    <2>5. Contract!Reply(i, a)
      BY <2>1, <2>2, <2>3, <2>4 DEF Contract!Reply
    <2> QED
      BY <2>5 DEF Contract!Next, Providers, Contract!Providers
  <1>4. CASE Unwind
    <2>1. Contract!Raise
      BY <1>4, RaisesAsContract DEF Unwind, Over
    <2> QED
      BY <2>1 DEF Contract!Next
  <1>5. ASSUME NEW v \in Judgements \cup {"accepted"}, Assess(v)
        PROVE  Contract!Next
    <2>1. /\ pc = "assess" /\ cursor <= NumProviders /\ Assessable(cursor)
          /\ v \in Verdicts(engine) \ {"fails"}
          /\ assessments' = Append(assessments,
               [provider |-> cursor, claim |-> runs[cursor].claims[judged + 1],
                verdict |-> v])
          /\ UNCHANGED <<engine, pc, answer, result>>
      BY <1>5 DEF Assess
    <2>2. Contract!Pending /\ Contract!Docket = Filed(runs, NumProviders)
      BY <2>1, AssessingIsJudging
    <2>3. Contract!Docket[Len(assessments) + 1]
            = [provider |-> cursor, claim |-> runs[cursor].claims[judged + 1]]
      BY <2>1, <2>2, NextOfDocket
    <2>4. Contract!Verdicts(engine) = Verdicts(engine)
      BY DEF Verdicts, Contract!Verdicts
    <2>5. outcome' = outcome
      BY <2>1 DEF Over
    <2>6. Contract!Judge(v)
      BY <2>1, <2>2, <2>3, <2>4, <2>5 DEF Contract!Judge
    <2> QED
      BY <2>6 DEF Contract!Next
  <1>6. CASE ValidatorFails
    <2>1. /\ pc = "assess" /\ cursor <= NumProviders /\ Assessable(cursor)
          /\ "fails" \in Verdicts(engine) /\ Goto("raised")
          /\ UNCHANGED <<engine, answer, assessments, result>>
      BY <1>6 DEF ValidatorFails
    <2>2. Contract!Pending /\ PoolIdle /\ ~ Over
      BY <2>1, AssessingIsJudging DEF IInv, PoolInv, Over
    <2>3. Contract!Raise
      BY <2>1, <2>2, RaisesAsContract
    <2> QED
      BY <2>3 DEF Contract!Next
  <1>7. CASE Return
    <2>1. /\ pc = "assess" /\ cursor > NumProviders /\ Goto("returned")
          /\ CanReport(engine, assessments, reserved)
          /\ result' = Report(engine, runs, assessments, reserved)
          /\ UNCHANGED <<engine, answer, assessments>>
      BY <1>7 DEF Return
    <2>2. Contract!Judgeable /\ ~ Contract!Pending /\ Contract!Runs = runs
      BY <2>1, AssessingIsJudging
    <2>3. Contract!Booked(engine)[NumProviders] = reserved
      BY <2>1, SameAdmission
    <2>4. outcome' = "returned"
      BY <2>1 DEF Goto, Over
    <2>5. /\ Contract!Report(engine, runs, assessments, reserved)
               = Report(engine, runs, assessments, reserved)
          /\ Contract!CanReport(engine, assessments, reserved)
      BY <2>1, SameReport
    <2>6. Contract!Deliver
      BY <2>1, <2>2, <2>3, <2>4, <2>5 DEF Contract!Deliver
    <2> QED
      BY <2>6 DEF Contract!Next
  <1>8. CASE ReportFails
    <2>1. /\ pc = "assess" /\ cursor > NumProviders /\ Goto("raised")
          /\ ~ CanReport(engine, assessments, reserved)
          /\ UNCHANGED <<engine, answer, assessments, result>>
      BY <1>8 DEF ReportFails
    <2>2. ~ Encodable(assessments)
      BY <2>1 DEF CanReport, IInv, BudgetInv
    <2>3. ~ Contract!Pending /\ PoolIdle /\ ~ Over
      BY <2>1, AssessingIsJudging DEF IInv, PoolInv, Over
    <2>4. Contract!Raise
      BY <2>1, <2>2, <2>3, RaisesAsContract
    <2> QED
      BY <2>4 DEF Contract!Next
  <1>9. CASE UNCHANGED vars
    <2>1. Still
      BY <1>9 DEF vars, Over
    <2> QED
      BY <1>0, <2>1
  <1> QED
    BY <1>1, <1>2, <1>3, <1>4, <1>5, <1>6, <1>7, <1>8, <1>9
       DEF Next, Caller, Pool, Stop

\* Whatever the schedule of the pool, a run is one of its contract: the plan is
\* settled by the reservations, every admitted provider answers once, claims are
\* judged in provider order, and the result is the report of the answers and the
\* verdicts - never of the order in which the providers answered
\* (research.py:135-285).
THEOREM EngineImplementsContract == Spec => ImplementsContract
  <1>1. Spec => []IInv
    BY Inductive
  <1>2. IInv /\ [Next]_vars => [Contract!Next]_Contract!vars
    BY StepsAsContract
  <1> QED
    BY <1>1, <1>2, StartsAsContract, PTL DEF Spec, ImplementsContract, Contract!Spec

===============================================================================
