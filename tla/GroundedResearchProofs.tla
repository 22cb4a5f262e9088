------------------------ MODULE GroundedResearchProofs ------------------------
(***************************************************************************)
(* The composition of the engine with its adapters, their services and the  *)
(* grounding validator, for any number of providers, any deployment and any *)
(* answers and pages.  It implements the engine alone, so the theorems      *)
(* about the engine carry over; receipts and fetches have an invariant of   *)
(* their own.                                                               *)
(***************************************************************************)
EXTENDS GroundedResearch, ResearchEngineProofs, FiniteSetTheorems

-------------------------------------------------------------------------------
(* The composition implements the engine.                                   *)

LEMMA AdaptersFixed ==
  ASSUME [SourceNext]_allVars
  PROVE  adapters' = adapters
  BY DEF SourceNext, allVars, sourceVars, Thread, EngineStep, Collect, Judge,
         FetchAborts, Start, Conclude, RequestFails, Respond, Rest

\* Every step of the composition is a step of the engine, or leaves it alone.
LEMMA StepSimulates ==
  ASSUME adapters \in Deployments, [SourceNext]_allVars
  PROVE  [Next]_vars
  <1>1. CASE EngineStep \/ Collect
    BY <1>1 DEF EngineStep, Collect, Next, Caller
  <1>2. ASSUME NEW fetched \in Fetched, Judge(fetched)
        PROVE  [Next]_vars
    <2> DEFINE v == Validate(CurrentClaim, fetched)
    <2>1. Assess(v)
      BY <1>2 DEF Judge
    <2>2. v \in Verdicts(engine) \ {"fails"}
      BY <2>1 DEF Assess
    <2>3. v \in Judgements \cup {"accepted"}
      BY <2>2 DEF Verdicts
    <2> QED
      BY <2>1, <2>3 DEF Next, Caller
  <1>3. CASE FetchAborts
    BY <1>3 DEF FetchAborts, Next, Caller
  <1>4. CASE Start
    BY <1>4 DEF Start, Next, Pool
  <1>5. ASSUME NEW i \in Providers, RequestFails(i)
        PROVE  [Next]_vars
    BY <1>5, SourceAssumption DEF RequestFails, Next, Pool
  <1>6. ASSUME NEW i \in Providers, NEW r \in Responses, Respond(i, r)
        PROVE  [Next]_vars
    <2>1. AnswerOf(adapters[i], r) \in Answers
      BY SourceAssumption
    <2> QED
      BY <1>6, <2>1 DEF Respond, Next, Pool
  <1>7. CASE Rest \/ UNCHANGED allVars
    BY <1>7 DEF Rest, allVars
  <1> QED
    BY <1>1, <1>2, <1>3, <1>4, <1>5, <1>6, <1>7 DEF SourceNext, Thread, Conclude

\* Services, receipts and pages only narrow what providers and validator may
\* do: the composition is a behaviour of ResearchEngine.run (research.py:201-299).
THEOREM Simulates == SourceSpec => Spec
  <1>1. SourceInit => Init /\ adapters \in Deployments
    BY DEF SourceInit
  <1>2. adapters \in Deployments /\ [SourceNext]_allVars => (adapters \in Deployments)'
    BY AdaptersFixed
  <1>3. adapters \in Deployments /\ [SourceNext]_allVars => [Next]_vars
    BY StepSimulates
  <1> QED
    BY <1>1, <1>2, <1>3, PTL DEF SourceSpec, Spec

-------------------------------------------------------------------------------
(* Types of the composition's own variables, and its fetch log.             *)

LEMMA SourceInitType == SourceInit => SourceType /\ CallInv /\ FetchInv
  <1> SUFFICES ASSUME SourceInit PROVE SourceType /\ CallInv /\ FetchInv
    OBVIOUS
  <1>1. SourceType
    BY DEF SourceInit, SourceType
  <1>2. CallInv
    BY DEF SourceInit, Init, CallInv
  <1>3. FetchInv
    BY DEF SourceInit, Init, FetchInv
  <1> QED
    BY <1>1, <1>2, <1>3

LEMMA StepSourceType ==
  ASSUME SourceType, [SourceNext]_allVars
  PROVE  SourceType'
  <1> USE DEF SourceType
  <1>1. CASE EngineStep \/ Start \/ Rest \/ UNCHANGED allVars
    BY <1>1 DEF EngineStep, Start, Rest, allVars, sourceVars
  <1>2. CASE Collect
    BY <1>2 DEF Collect
  <1>3. ASSUME NEW fetched \in Fetched, Judge(fetched)
        PROVE  SourceType'
    BY <1>3 DEF Judge, FetchLog
  <1>4. CASE FetchAborts
    BY <1>4 DEF FetchAborts, FetchLog
  <1>5. ASSUME NEW i \in Providers, RequestFails(i)
        PROVE  SourceType'
    BY <1>5 DEF RequestFails, sourceVars
  <1>6. ASSUME NEW i \in Providers, NEW r \in Responses, Respond(i, r)
        PROVE  SourceType'
    <2>1. r.charge \in Nat
      BY SourceAssumption DEF Response
    <2>2. bill' \in [Providers -> Seq(Nat)]
      BY <1>6, <2>1 DEF Respond
    <2>3. wire' \in [Providers -> Responses \cup {None}]
      BY <1>6 DEF Respond
    <2> QED
      BY <1>6, <2>2, <2>3 DEF Respond
  <1> QED
    BY <1>1, <1>2, <1>3, <1>4, <1>5, <1>6 DEF SourceNext, Thread, Conclude

LEMMA StepFetch ==
  ASSUME TypeOK, SourceType, FetchInv, [SourceNext]_allVars
  PROVE  FetchInv'
  <1>0. fetches \in Seq(FetchLog) /\ assessments \in Seq(Assessment)
    BY DEF SourceType, TypeOK
  <1>1. ASSUME NEW fetched \in Fetched, Judge(fetched)
        PROVE  FetchInv'
    <2>1. PICK f, a : fetches' = Append(fetches, f) /\ assessments' = Append(assessments, a)
      BY <1>1 DEF Judge, Assess
    <2>2. Len(fetches) = Len(assessments)
      BY <1>1 DEF Judge, Validating, FetchInv
    <2> QED
      BY <1>0, <2>1, <2>2 DEF FetchInv
  <1>2. CASE FetchAborts
    <2>1. /\ pc = "assess" /\ pc' = "raised" /\ assessments' = assessments
          /\ fetches' = Append(fetches, FetchRaised)
      BY <1>2 DEF FetchAborts, ValidatorFails, Goto
    <2> QED
      BY <1>0, <2>1 DEF FetchInv
  <1>3. CASE EngineStep \/ Collect
    <2>1. pc # "raised" /\ assessments' = assessments /\ fetches' = fetches
      BY <1>3 DEF EngineStep, Collect, sourceVars, Admit, EndPlan, Submit, EndSubmit,
                  CollectRun, CollectAbort, EndCollect, Unwind, NextRun, Return,
                  ReportFails
    <2> QED
      BY <2>1 DEF FetchInv
  <1>4. CASE Start \/ (\E i \in Providers : Conclude(i)) \/ Rest \/ UNCHANGED allVars
    <2>1. pc' = pc /\ assessments' = assessments /\ fetches' = fetches
      BY <1>4 DEF Start, StartCall, Conclude, RequestFails, Respond, FinishCall,
                  sourceVars, Rest, allVars, vars
    <2> QED
      BY <2>1 DEF FetchInv
  <1> QED
    BY <1>1, <1>2, <1>3, <1>4 DEF SourceNext, Thread

-------------------------------------------------------------------------------
(* Requests and charges.                                                    *)

\* No step but the end of a call touches an answer, a charge, or a call that
\* has ended.
LEMMA CallsKept ==
  ASSUME IInv, [SourceNext]_allVars, ~ \E i \in Providers : Conclude(i)
  PROVE  /\ wire' = wire /\ bill' = bill /\ adapters' = adapters
         /\ answer' = answer
         /\ \A i \in Providers : call[i] = "finished" => call'[i] = "finished"
  <1>1. wire' = wire /\ bill' = bill /\ adapters' = adapters
    BY DEF SourceNext, allVars, sourceVars, Thread, EngineStep, Collect, Judge,
           FetchAborts, Start, Rest
  <1>2. call \in [Providers -> {"none", "queued", "running", "finished"}]
    BY DEF IInv, TypeOK
  <1>3. CASE Submit
    <2>1. cursor \in DOMAIN scheduled /\ pc = "submit" /\ answer' = answer
      BY <1>3 DEF Submit, IInv, TypeOK
    <2>2. call[scheduled[cursor]] = "none"
      BY <2>1 DEF IInv, PoolInv, TypeOK
    <2>3. call' = [call EXCEPT ![scheduled[cursor]] = "queued"]
      BY <1>3 DEF Submit
    <2>4. \A i \in Providers : call[i] = "finished" => call'[i] = "finished"
      BY <1>2, <2>2, <2>3
    <2> QED
      BY <1>1, <2>1, <2>4
  <1>4. CASE Start
    <2>1. queue \in Seq(Providers) /\ queue # <<>>
      BY <1>4 DEF Start, StartCall, IInv, TypeOK
    <2>2. Head(queue) \in Providers /\ Head(queue) \in ToSet(queue)
      BY <2>1 DEF ToSet
    <2>3. call[Head(queue)] = "queued"
      BY <2>2 DEF IInv, PoolInv
    <2>4. answer' = answer /\ call' = [call EXCEPT ![Head(queue)] = "running"]
      BY <1>4 DEF Start, StartCall
    <2>5. \A i \in Providers : call[i] = "finished" => call'[i] = "finished"
      BY <1>2, <2>3, <2>4
    <2> QED
      BY <1>1, <2>4, <2>5
  <1>5. CASE ~ Submit /\ ~ Start
    <2>1. answer' = answer /\ call' = call
      BY <1>5 DEF SourceNext, Thread, EngineStep, Collect, Judge, FetchAborts, Rest,
                  allVars, vars, poolVars, Admit, EndPlan, EndSubmit, CollectRun,
                  CollectAbort, EndCollect, Unwind, Assess, ValidatorFails, NextRun,
                  Return, ReportFails
    <2> QED
      BY <1>1, <2>1
  <1> QED
    BY <1>3, <1>4, <1>5

LEMMA StepCall ==
  ASSUME IInv, SourceType, CallInv, [SourceNext]_allVars
  PROVE  CallInv'
  <1>0. /\ call \in [Providers -> {"none", "queued", "running", "finished"}]
        /\ answer \in [Providers -> Answers \cup {None}]
        /\ wire \in [Providers -> Responses \cup {None}]
        /\ bill \in [Providers -> Seq(Nat)]
    BY DEF IInv, TypeOK, SourceType
  <1>1. ASSUME NEW i \in Providers, RequestFails(i)
        PROVE  CallInv'
    <2>1. /\ call[i] = "running" /\ call' = [call EXCEPT ![i] = "finished"]
          /\ \E a \in {Raises, Aborts} : answer' = [answer EXCEPT ![i] = a]
          /\ wire' = wire /\ bill' = bill /\ adapters' = adapters
      BY <1>1 DEF RequestFails, FinishCall, sourceVars
    <2>2. wire[i] = None
      BY <2>1 DEF CallInv
    <2> QED
      BY <1>0, <2>1, <2>2 DEF CallInv
  <1>2. ASSUME NEW i \in Providers, NEW r \in Responses, Respond(i, r)
        PROVE  CallInv'
    <2>1. /\ call[i] = "running" /\ call' = [call EXCEPT ![i] = "finished"]
          /\ answer' = [answer EXCEPT ![i] = AnswerOf(adapters[i], r)]
          /\ wire' = [wire EXCEPT ![i] = r] /\ adapters' = adapters
          /\ bill' = [bill EXCEPT ![i] = Append(bill[i], r.charge)]
      BY <1>2 DEF Respond, FinishCall
    <2>2. bill[i] = <<>>
      BY <2>1 DEF CallInv
    <2>3. Append(bill[i], r.charge) = <<r.charge>>
      BY <2>2
    <2>4. r # None
      BY SourceAssumption
    <2> QED
      BY <1>0, <2>1, <2>3, <2>4 DEF CallInv
  <1>3. CASE ~ \E i \in Providers : Conclude(i)
    BY <1>3, CallsKept DEF CallInv
  <1> QED
    BY <1>1, <1>2, <1>3 DEF Conclude

-------------------------------------------------------------------------------
(* Runs and their receipts.                                                 *)

\* What is on record about a call that has ended does not change any more.
LEMMA EndedCallFixed ==
  ASSUME IInv, SourceType, [SourceNext]_allVars,
         NEW i \in Providers, call[i] = "finished"
  PROVE  /\ wire'[i] = wire[i] /\ answer'[i] = answer[i]
         /\ adapters' = adapters /\ engine' = engine
  <1>0. answer \in [Providers -> Answers \cup {None}] /\ adapters \in Deployments
    BY DEF IInv, TypeOK, SourceType
  <1>1. engine' = engine
    BY <1>0, StepSimulates DEF Next, Caller, Pool, Stop, vars, Admit, EndPlan, Submit,
       EndSubmit, StartCall, FinishCall, CollectRun, CollectAbort, EndCollect, Unwind,
       Assess, ValidatorFails, NextRun, Return, ReportFails
  <1>2. ASSUME NEW j \in Providers, Conclude(j)
        PROVE  wire'[i] = wire[i] /\ answer'[i] = answer[i] /\ adapters' = adapters
    <2>1. j # i
      BY <1>2 DEF Conclude, RequestFails, Respond, FinishCall
    <2> QED
      BY <1>0, <1>2, <2>1 DEF Conclude, RequestFails, Respond, FinishCall, sourceVars,
         SourceType
  <1> QED
    BY <1>1, <1>2, CallsKept

\* A run that stays as it is keeps its answer and its receipt.
LEMMA RecordKept ==
  ASSUME IInv, SourceType, ReceiptInv, [SourceNext]_allVars,
         NEW i \in Providers, runs'[i] = runs[i], receipts'[i] = receipts[i],
         runs[i] \notin {None, Skipped}
  PROVE  /\ answer'[i] # None
         /\ runs'[i] = Outcome(engine', i, answer'[i])
         /\ receipts'[i] = ReceiptKept(i)'
  <1>1. /\ answer[i] # None /\ runs[i] = Outcome(engine, i, answer[i])
        /\ receipts[i] = ReceiptKept(i)
    BY DEF ReceiptInv
  <1>2. call[i] = "finished"
    BY <1>1 DEF IInv, PoolInv
  <1>3. /\ wire'[i] = wire[i] /\ answer'[i] = answer[i]
        /\ adapters' = adapters /\ engine' = engine
    BY <1>2, EndedCallFixed
  <1>4. ReceiptKept(i)' = ReceiptKept(i)
    BY <1>3 DEF ReceiptKept
  <1> QED
    BY <1>1, <1>3, <1>4

\* A provider collected has a run of its own, not that of one passed over.
LEMMA OutcomeNotSkipped ==
  ASSUME NEW e \in Engines, NEW i \in Providers, NEW a \in Answers
  PROVE  Outcome(e, i, a) # Skipped
  BY DEF Outcome, Succeeded, Failed, Skipped

\* Only runs that all succeeded make a completed result.
LEMMA CompletedSucceeded ==
  ASSUME DOMAIN runs = Providers, NEW e, NEW log, NEW booked,
         Report(e, runs, log, booked).status = "completed"
  PROVE  \A i \in Providers : runs[i].status = "succeeded"
  <1>1. PICK review : StatusOf(runs, review) = "completed"
    BY DEF Report
  <1> QED
    BY <1>1 DEF StatusOf

LEMMA StepReceiptOfCollect ==
  ASSUME IInv, SourceType, ReceiptInv, Collect
  PROVE  ReceiptInv'
  <1>0. /\ runs \in [Providers -> Run \cup {None}] /\ DOMAIN receipts = Providers
        /\ scheduled \in Seq(Providers) /\ cursor \in Nat \ {0}
        /\ answer \in [Providers -> Answers \cup {None}] /\ engine \in Engines
    BY DEF IInv, TypeOK, SourceType
  <1>9. PICK j \in Providers : j = scheduled[cursor]
    BY <1>0 DEF Collect, CollectRun
  <1>1. /\ pc = "collect" /\ pc' = pc /\ j = scheduled[cursor] /\ call[j] = "finished"
        /\ runs' = [runs EXCEPT ![j] = Outcome(engine, j, answer[j])]
        /\ receipts' = [receipts EXCEPT ![j] = ReceiptKept(j)]
        /\ answer' = answer /\ engine' = engine /\ wire' = wire /\ adapters' = adapters
        /\ scheduled' = scheduled /\ result' = result
    BY <1>0, <1>9 DEF Collect, CollectRun, poolVars
  <1>2. answer[j] # None
    BY <1>1 DEF IInv, PoolInv
  <1>3. ReceiptKept(j)' = ReceiptKept(j)
    BY <1>1 DEF ReceiptKept
  <1>4. ASSUME NEW i \in Providers, runs'[i] \notin {None, Skipped}
        PROVE  /\ answer'[i] # None
               /\ runs'[i] = Outcome(engine', i, answer'[i])
               /\ receipts'[i] = ReceiptKept(i)'
    <2>1. CASE i = j
      BY <1>0, <1>1, <1>2, <1>3, <2>1
    <2>2. CASE i # j
      <3>1. runs'[i] = runs[i] /\ receipts'[i] = receipts[i]
        BY <1>0, <1>1, <2>2
      <3>2. [SourceNext]_allVars
        BY DEF SourceNext, Thread
      <3> QED
        BY <1>4, <3>1, <3>2, RecordKept
    <2> QED
      BY <2>1, <2>2
  <1>5. Outcome(engine, j, answer[j]) # Skipped
    BY <1>0, <1>1, <1>2, OutcomeNotSkipped
  <1>6. \A i \in Admitted' : runs'[i] # Skipped
    BY <1>0, <1>1, <1>5 DEF ReceiptInv, Admitted, ToSet
  <1>7. result' = None
    BY <1>1 DEF ReceiptInv
  <1> QED
    BY <1>1, <1>4, <1>6, <1>7 DEF ReceiptInv

LEMMA StepReceiptOfAdmit ==
  ASSUME IInv, SourceType, ReceiptInv, Admit, UNCHANGED sourceVars
  PROVE  ReceiptInv'
  <1> DEFINE over == OverBudget(engine, Plus(reserved, engine.reserve[cursor]))
  <1>0. /\ runs \in [Providers -> Run \cup {None}] /\ DOMAIN receipts = Providers
        /\ scheduled \in Seq(Providers) /\ cursor \in Providers /\ NumProviders \in Nat
        /\ Skipped # None /\ \A i \in Providers : i \in Int
    BY SkippedType, ResearchAssumption DEF IInv, TypeOK, SourceType, Admit, Providers
  <1>1. /\ pc = "plan" /\ pc' = pc /\ cursor' = cursor + 1
        /\ receipts' = receipts /\ result' = result
        /\ over => scheduled' = scheduled /\ runs' = [runs EXCEPT ![cursor] = Skipped]
        /\ ~ over => scheduled' = Append(scheduled, cursor) /\ runs' = runs
    BY DEF Admit, sourceVars
  <1>2. runs[cursor] = None
    BY <1>0, <1>1 DEF ReceiptInv
  <1>3. ASSUME NEW i \in Providers, runs'[i] \notin {None, Skipped}
        PROVE  /\ answer'[i] # None
               /\ runs'[i] = Outcome(engine', i, answer'[i])
               /\ receipts'[i] = ReceiptKept(i)'
    <2>1. runs'[i] = runs[i] /\ receipts'[i] = receipts[i]
      BY <1>0, <1>1, <1>3
    <2>2. [SourceNext]_allVars
      BY DEF SourceNext, Thread, EngineStep
    <2> QED
      BY <1>3, <2>1, <2>2, RecordKept
  <1>4. ASSUME NEW i \in Admitted' PROVE runs'[i] # Skipped
    <2>1. CASE over
      <3>1. i \in Admitted
        BY <1>1, <2>1 DEF Admitted
      <3>2. i # cursor
        BY <1>0, <1>1, <3>1 DEF IInv, PlanInv, Admitted, ToSet
      <3>3. i \in Providers /\ runs[i] # Skipped
        BY <1>0, <3>1 DEF ReceiptInv, Admitted, ToSet
      <3> QED
        BY <1>0, <1>1, <2>1, <3>2, <3>3
    <2>2. CASE ~ over
      <3>1. i \in Admitted \/ i = cursor
        <4>1. ToSet(Append(scheduled, cursor)) = ToSet(scheduled) \cup {cursor}
          BY <1>0, ToSetAppend
        <4>2. scheduled' = Append(scheduled, cursor)
          BY <1>1, <2>2
        <4> QED
          BY <4>1, <4>2 DEF Admitted
      <3>2. runs' = runs
        BY <1>1, <2>2
      <3>3. CASE i \in Admitted
        BY <3>2, <3>3 DEF ReceiptInv
      <3>4. CASE i = cursor
        BY <1>0, <1>2, <3>2, <3>4
      <3> QED
        BY <3>1, <3>3, <3>4
    <2> QED
      BY <2>1, <2>2
  <1>5. ASSUME NEW i \in Providers, i >= cursor' PROVE runs'[i] = None
    BY <1>0, <1>1, <1>5 DEF ReceiptInv
  <1>6. result' = None
    BY <1>1 DEF ReceiptInv
  <1> QED
    BY <1>3, <1>4, <1>5, <1>6 DEF ReceiptInv

LEMMA StepReceipt ==
  ASSUME IInv, SourceType, ReceiptInv, [SourceNext]_allVars
  PROVE  ReceiptInv'
  <1>1. CASE Collect
    BY <1>1, StepReceiptOfCollect
  <1>2. CASE Admit /\ EngineStep
    BY <1>2, StepReceiptOfAdmit DEF EngineStep
  <1>3. CASE ~ Collect /\ ~ (Admit /\ EngineStep)
    <2>1. /\ runs' = runs /\ receipts' = receipts /\ scheduled' = scheduled
          /\ pc' = "plan" => pc = "plan" /\ cursor' = cursor
      BY <1>3 DEF SourceNext, Thread, EngineStep, Judge, FetchAborts, Start, Conclude,
         RequestFails, Respond, Rest, allVars, vars, sourceVars, EndPlan, Submit,
         EndSubmit, StartCall, FinishCall, CollectAbort, EndCollect, Unwind, Assess,
         ValidatorFails, NextRun, Return, ReportFails, Goto
    <2>2. \A i \in Providers : runs'[i] \notin {None, Skipped} =>
            /\ answer'[i] # None
            /\ runs'[i] = Outcome(engine', i, answer'[i])
            /\ receipts'[i] = ReceiptKept(i)'
      BY <2>1, RecordKept
    <2>3. ASSUME result' # None
          PROVE  /\ pc' = "returned"
                 /\ result'.status = "completed" =>
                      \A i \in Providers : runs'[i].status = "succeeded"
      <3>1. CASE Return
        <4>1. /\ pc' = "returned"
              /\ result' = Report(engine, runs, assessments, reserved)
          BY <3>1 DEF Return, Goto
        <4>2. DOMAIN runs = Providers
          BY DEF IInv, TypeOK
        <4> QED
          BY <2>1, <4>1, <4>2, CompletedSucceeded
      <3>2. CASE ~ Return
        <4>1. result' = result
          BY <1>3, <3>2 DEF SourceNext, Thread, EngineStep, Judge, FetchAborts, Start,
             Conclude, RequestFails, Respond, Rest, allVars, vars, EndPlan, Submit,
             EndSubmit, StartCall, FinishCall, CollectAbort, EndCollect, Unwind, Assess,
             ValidatorFails, NextRun, ReportFails
        <4>2. pc = "returned"
          BY <2>3, <4>1 DEF ReceiptInv
        <4>3. pc' = pc
          BY <1>3, <4>2 DEF SourceNext, Thread, EngineStep, Judge, FetchAborts, Start,
             Conclude, RequestFails, Respond, Rest, allVars, vars, EndPlan, Submit,
             EndSubmit, StartCall, FinishCall, CollectAbort, EndCollect, Unwind, Assess,
             ValidatorFails, NextRun, Return, ReportFails
        <4> QED
          BY <2>1, <2>3, <4>1, <4>2, <4>3 DEF ReceiptInv
      <3> QED
        BY <3>1, <3>2
    <2> QED
      BY <2>1, <2>2, <2>3 DEF ReceiptInv, Admitted
  <1> QED
    BY <1>1, <1>2, <1>3

-------------------------------------------------------------------------------
(* Grounding.                                                               *)

\* What a claim asserts is finitely many texts.
LEMMA CandidatesFinite ==
  ASSUME NEW claim \in DOMAIN Details, claim.value \in DOMAIN AsText
  PROVE  IsFiniteSet(Candidates(Targets(claim)))
  <1> DEFINE all == {Strip[AsText[v]] : v \in DOMAIN AsText}
  <1>1. Details[claim] \subseteq DOMAIN AsText
    BY GroundingAssumption
  <1>2. Targets(claim) \subseteq {AsText[v] : v \in DOMAIN AsText}
    BY <1>1 DEF Targets
  <1>3. Candidates(Targets(claim)) \in SUBSET all
    BY <1>2 DEF Candidates
  <1>4. IsFiniteSet(all)
    BY GroundingAssumption
  <1> HIDE DEF all
  <1> QED
    BY <1>3, <1>4, FS_Subset

\* The texts the validator counts are those the claim asserts, and it finds
\* those a reader sees.
LEMMA AssertedAreLookedFor ==
  ASSUME NEW claim, NEW page
  PROVE  /\ Candidates(Targets(claim)) = Asserted(claim)
         /\ {t \in Candidates(Targets(claim)) : Occurs(t, page)} = Legible(claim, page)
  <1> DEFINE values == {claim.value} \cup (IF WithDetails THEN Details[claim] ELSE {})
  <1>1. Targets(claim) = {AsText[v] : v \in values} \ {Blank}
    BY DEF Targets
  <1>2. Asserted(claim) = {Strip[AsText[v]] : v \in values} \ {Blank}
    BY DEF Asserted
  <1> HIDE DEF values
  <1>3. Strip[Blank] = Blank
    BY StripAssumption
  <1>4. Candidates(Targets(claim)) = Asserted(claim)
    BY <1>1, <1>2, <1>3 DEF Candidates
  <1>5. \A t : Occurs(t, page) <=> CaseFold[t] \in {CaseFold[other] : other \in page}
    BY DEF Occurs
  <1> QED
    BY <1>4, <1>5 DEF Legible

\* GroundingValidator.validate accepts a claim only for its page, and with the
\* default threshold only if nothing it asserts is missing there.
LEMMA AcceptanceIsGrounded ==
  ASSUME NEW claim \in DOMAIN Details, claim.value \in DOMAIN AsText,
         NEW fetched \in Fetched, Validate(claim, fetched) = "accepted"
  PROVE  /\ Targets(claim) # {} /\ fetched.tag = "text" /\ Suffices(fetched.text, claim)
         /\ \E t \in Candidates(Targets(claim)) : Occurs(t, fetched.text)
         /\ MinCoverage = 100 =>
              \A t \in Candidates(Targets(claim)) : Occurs(t, fetched.text)
  <1> DEFINE asked == Candidates(Targets(claim))
             coverage == FindCitations(fetched.text, Targets(claim))
  <1>1. Targets(claim) # {} /\ fetched.tag # "no text"
    BY DEF Validate
  <1>2. fetched.tag = "text"
    <2>1. NoText.tag = "no text"
      BY DEF NoText
    <2>2. fetched # NoText
      BY <1>1, <2>1
    <2>3. PICK page \in Pages : fetched = [tag |-> "text", text |-> page]
      BY <2>2 DEF Fetched
    <2> QED
      BY <2>3
  <1>3. VerdictOn(coverage) = "accepted"
    BY <1>1 DEF Validate
  <1>4. Covered(coverage)
    BY <1>3 DEF VerdictOn
  <1>5. /\ coverage.matched = {t \in asked : Occurs(t, fetched.text)}
        /\ coverage.unmatched = asked \ coverage.matched
    BY DEF FindCitations
  <1>6. IsFiniteSet(asked)
    BY CandidatesFinite
  <1>7. coverage.matched \in SUBSET asked /\ coverage.unmatched \in SUBSET asked
    BY <1>5
  <1> HIDE DEF asked, coverage
  <1>8. IsFiniteSet(coverage.matched) /\ IsFiniteSet(coverage.unmatched)
    BY <1>6, <1>7, FS_Subset
  <1>9. /\ Cardinality(coverage.matched) \in Nat
        /\ Cardinality(coverage.unmatched) \in Nat
    BY <1>8, FS_CardinalityType
  <1>10. coverage.matched # {}
    BY <1>4, <1>8, FS_EmptySet DEF Covered
  <1>11. MinCoverage = 100 => coverage.unmatched = {}
    <2>1. MinCoverage = 100 => Cardinality(coverage.unmatched) = 0
      BY <1>4, <1>9 DEF Covered
    <2> QED
      BY <2>1, <1>8, FS_EmptySet
  <1>12. Suffices(fetched.text, claim)
    <2>1. coverage.matched = Legible(claim, fetched.text) /\ asked = Asserted(claim)
      BY <1>5, AssertedAreLookedFor DEF asked
    <2>2. Cardinality(coverage.unmatched)
            = Cardinality(asked) - Cardinality(coverage.matched)
      <3>1. asked \cap coverage.matched = coverage.matched
        BY <1>7
      <3>2. Cardinality(asked \ coverage.matched)
              = Cardinality(asked) - Cardinality(asked \cap coverage.matched)
        BY <1>6, FS_Difference
      <3>3. coverage.unmatched = asked \ coverage.matched
        BY <1>5
      <3> QED
        BY ONLY <3>1, <3>2, <3>3
    <2>3. Cardinality(coverage.matched) + Cardinality(coverage.unmatched) = Cardinality(asked)
      <3>1. Cardinality(asked) \in Nat
        BY <1>6, FS_CardinalityType
      <3> QED
        BY ONLY <1>9, <2>2, <3>1
    <2>4. 100 * Cardinality(coverage.matched) >= MinCoverage * Cardinality(asked)
      BY <1>4, <2>3 DEF Covered
    <2> QED
      BY <1>10, <2>1, <2>4 DEF Suffices
  <1> QED
    BY <1>1, <1>2, <1>5, <1>10, <1>11, <1>12 DEF asked

\* The claim being judged was made by its provider, so what it asserts is known.
LEMMA CurrentClaimKnown ==
  ASSUME IInv, ReceiptInv, Validating
  PROVE  CurrentClaim \in DOMAIN Details /\ CurrentClaim.value \in DOMAIN AsText
  <1>0. cursor \in Providers
    BY ResearchAssumption DEF Validating, IInv, TypeOK, Providers
  <1>1. /\ runs[cursor] # None /\ runs[cursor].status = "succeeded"
        /\ judged < Len(runs[cursor].claims) /\ judged \in Nat
    BY <1>0 DEF Validating, Assessable, IInv, RunsInv, TypeOK
  <1>2. runs[cursor] # Skipped
    BY <1>1 DEF Skipped
  <1>3. answer[cursor] # None /\ runs[cursor] = Outcome(engine, cursor, answer[cursor])
    BY <1>0, <1>1, <1>2 DEF ReceiptInv
  <1>4. answer[cursor] \in Answers
    BY <1>0, <1>3 DEF IInv, TypeOK
  <1>5. runs[cursor].claims = answer[cursor].claims
    BY <1>1, <1>3 DEF Outcome, Succeeded, Failed
  <1>6. answer[cursor].claims \in Seq(Claim)
    BY <1>4, ResearchAssumption DEF Answer
  <1>7. judged + 1 \in DOMAIN answer[cursor].claims
    BY <1>1, <1>5, <1>6
  <1>8. CurrentClaim = answer[cursor].claims[judged + 1]
    BY <1>5 DEF CurrentClaim
  <1>9. CurrentClaim \in DOMAIN Details
    BY <1>4, <1>7, <1>8, SourceAssumption
  <1>10. CurrentClaim \in Claim
    BY <1>6, <1>7, <1>8
  <1> QED
    BY <1>9, <1>10, GroundingAssumption DEF Claim

LEMMA StepRead ==
  ASSUME IInv, SourceType, FetchInv, ReceiptInv, AcceptedIsRead, VerdictInv,
         [SourceNext]_allVars
  PROVE  AcceptedIsRead' /\ VerdictInv'
  <1>0. /\ fetches \in Seq(FetchLog) /\ assessments \in Seq(Assessment)
        /\ \A k \in DOMAIN assessments : k \in DOMAIN fetches
    BY DEF SourceType, IInv, TypeOK, FetchInv
  <1>1. ASSUME NEW fetched \in Fetched, Judge(fetched)
        PROVE  AcceptedIsRead' /\ VerdictInv'
    <2> DEFINE claim == CurrentClaim
               f == IF Targets(claim) = {} THEN NotFetched ELSE fetched
               entry == [provider |-> cursor, claim |-> claim,
                         verdict |-> Validate(claim, fetched)]
    <2>1. /\ Validating /\ fetches' = Append(fetches, f)
          /\ assessments' = Append(assessments, entry)
      BY <1>1 DEF Judge, Assess, CurrentClaim
    <2>2. Len(fetches) = Len(assessments)
      BY <2>1 DEF Validating, FetchInv
    <2>3. claim \in DOMAIN Details /\ claim.value \in DOMAIN AsText
      BY <2>1, CurrentClaimKnown
    <2>4. entry.verdict = "accepted" =>
            /\ f.tag = "text" /\ Suffices(f.text, entry.claim)
            /\ \E t \in Candidates(Targets(entry.claim)) : Occurs(t, f.text)
            /\ MinCoverage = 100 =>
                 \A t \in Candidates(Targets(entry.claim)) : Occurs(t, f.text)
      BY <2>3, AcceptanceIsGrounded
    <2>5. f.tag = "no text" => entry.verdict = "needs_review"
      BY DEF NotFetched, Validate
    <2> HIDE DEF f, entry
    <2>6. /\ \A k \in DOMAIN assessments : /\ assessments'[k] = assessments[k]
                                           /\ fetches'[k] = fetches[k]
          /\ DOMAIN assessments' = DOMAIN assessments \cup {Len(assessments) + 1}
          /\ assessments'[Len(assessments) + 1] = entry
          /\ fetches'[Len(assessments) + 1] = f
      BY <1>0, <2>1, <2>2
    <2> QED
      BY <2>4, <2>5, <2>6 DEF AcceptedIsRead, VerdictInv
  <1>2. CASE FetchAborts
    <2>1. assessments' = assessments /\ fetches' = Append(fetches, FetchRaised)
      BY <1>2 DEF FetchAborts, ValidatorFails
    <2>2. \A k \in DOMAIN assessments : fetches'[k] = fetches[k]
      BY <1>0, <2>1
    <2> QED
      BY <2>1, <2>2 DEF AcceptedIsRead, VerdictInv
  <1>3. CASE \/ EngineStep \/ Collect \/ Start \/ (\E i \in Providers : Conclude(i))
             \/ Rest \/ UNCHANGED allVars
    <2>1. assessments' = assessments /\ fetches' = fetches
      BY <1>3 DEF EngineStep, Collect, Start, Conclude, RequestFails, Respond, FinishCall,
         StartCall, Rest, allVars, vars, sourceVars, Admit, EndPlan, Submit, EndSubmit,
         CollectRun, CollectAbort, EndCollect, Unwind, NextRun, Return, ReportFails
    <2> QED
      BY <2>1 DEF AcceptedIsRead, VerdictInv
  <1> QED
    BY <1>1, <1>2, <1>3 DEF SourceNext, Thread

-------------------------------------------------------------------------------
(* Leaving the run.                                                         *)

LEMMA StepRaises ==
  ASSUME IInv, SourceType, RaisesOnlyWhenTorn, [SourceNext]_allVars
  PROVE  RaisesOnlyWhenTorn'
  <1>0. fetches \in Seq(FetchLog)
    BY DEF SourceType
  <1>1. CASE FetchAborts
    <2>1. fetches' = Append(fetches, FetchRaised)
      BY <1>1 DEF FetchAborts
    <2>2. fetches' # <<>> /\ fetches'[Len(fetches')] = FetchRaised
      BY <1>0, <2>1
    <2> QED
      BY <2>2 DEF RaisesOnlyWhenTorn
  <1>2. CASE EngineStep /\ Unwind
    <2>1. /\ pc = "unwind" /\ call' = call /\ answer' = answer
      BY <1>2 DEF Unwind, poolVars
    <2>2. \E i \in Launched' : answer'[i] # None /\ answer'[i].tag = "aborts"
      BY <2>1 DEF IInv, ExitInv, Launched
    <2> QED
      BY <2>2 DEF RaisesOnlyWhenTorn
  <1>3. CASE EngineStep /\ ReportFails
    <2>1. assessments' = assessments /\ ~ CanReport(engine, assessments, reserved)
      BY <1>3 DEF ReportFails
    <2>2. \E k \in DOMAIN assessments : assessments[k].claim.value \in Unencodable
      BY <2>1, ReportFailsForAValue DEF IInv
    <2> QED
      BY <2>1, <2>2 DEF RaisesOnlyWhenTorn
  <1>4. CASE \/ EngineStep /\ ~ Unwind /\ ~ ReportFails
             \/ Collect \/ \E fetched \in Fetched : Judge(fetched)
    <2>1. pc' # "raised"
      BY <1>4 DEF EngineStep, Collect, CollectRun, Judge, Assess, Admit, EndPlan, Submit,
         EndSubmit, CollectAbort, EndCollect, NextRun, Return, Goto
    <2> QED
      BY <2>1 DEF RaisesOnlyWhenTorn
  <1>5. CASE Start \/ \E i \in Providers : Conclude(i)
    <2>1. /\ pc' = pc
          /\ queue # <<>> \/ \E i \in Providers : call[i] = "running"
      BY <1>5 DEF Start, StartCall, Conclude, RequestFails, Respond, FinishCall
    <2>2. pc # "raised"
      BY <2>1 DEF IInv, PoolInv, PoolIdle, Running
    <2> QED
      BY <2>1, <2>2 DEF RaisesOnlyWhenTorn
  <1>6. CASE Rest \/ UNCHANGED allVars
    BY <1>6 DEF Rest, allVars, vars, sourceVars, RaisesOnlyWhenTorn, Launched
  <1> QED
    BY <1>1, <1>2, <1>3, <1>4, <1>5, <1>6 DEF SourceNext, Thread

-------------------------------------------------------------------------------
(* Theorems.                                                                *)

LEMMA SourceInitInv == SourceInit => SourceInv /\ RaisesOnlyWhenTorn
  <1> SUFFICES ASSUME SourceInit PROVE SourceInv /\ RaisesOnlyWhenTorn
    OBVIOUS
  <1>1. Init
    BY DEF SourceInit
  <1>2. ReceiptInv
    BY <1>1 DEF Init, ReceiptInv, Admitted, ToSet
  <1>3. AcceptedIsRead /\ VerdictInv /\ RaisesOnlyWhenTorn
    BY <1>1 DEF Init, AcceptedIsRead, VerdictInv, RaisesOnlyWhenTorn
  <1> QED
    BY <1>2, <1>3, SourceInitType DEF SourceInv

\* Whatever the services answer and the pages hold, requests, charges, receipts
\* and fetches agree with the calls, runs and assessments of the engine, and a
\* claim is accepted only for what its page was read to say.
THEOREM SourceInductive == SourceSpec => [](SourceInv /\ RaisesOnlyWhenTorn)
  <1>1. /\ IInv /\ SourceInv /\ RaisesOnlyWhenTorn /\ [SourceNext]_allVars
        => (SourceInv /\ RaisesOnlyWhenTorn)'
    BY StepSourceType, StepCall, StepFetch, StepReceipt, StepRead, StepRaises
       DEF SourceInv, IInv
  <1>2. SourceSpec => []IInv
    BY Simulates, Inductive, PTL
  <1> QED
    BY SourceInitInv, <1>1, <1>2, PTL DEF SourceSpec

\* The invariant of the composition: SourceInv of every reachable state.
THEOREM SourceCorrect == SourceSpec => []SourceInv
  <1>1. SourceInv /\ RaisesOnlyWhenTorn => SourceInv
    OBVIOUS
  <1> QED
    BY SourceInductive, <1>1, PTL

\* A run with these adapters and this validator raises only for a
\* BaseException, or for a value without canonical text (research.py:225,
\* grounding.py:134-137): no failure of a service or of a page escapes.
THEOREM SourceFailuresContained == SourceSpec => []RaisesOnlyWhenTorn
  <1>1. SourceInv /\ RaisesOnlyWhenTorn => RaisesOnlyWhenTorn
    OBVIOUS
  <1> QED
    BY SourceInductive, <1>1, PTL

\* With the default threshold an accepted claim was found on its page entirely
\* (grounding.py:130-159), whatever the sources asserted and the pages held.
THEOREM AcceptedClaimsRead == SourceSpec => []AcceptedIsRead
  <1>1. SourceInv => AcceptedIsRead
    BY DEF SourceInv
  <1> QED
    BY SourceCorrect, <1>1, PTL

\* Joining the pool carries over: no paid request is still under way when the
\* run is over (research.py:219-240).
THEOREM SourceCallsJoined == SourceSpec => []NoCallOutlivesRun
  BY Simulates, CallsJoined, PTL

\* What the validator questioned is on the review list.
LEMMA QuestionedOnReview ==
  ASSUME IInv, result # None
  PROVE  AskedIn(assessments) \subseteq ToSet(result.review)
  <1> DEFINE r == Report(engine, runs, assessments, reserved)
  <1>1. engine \in Engines /\ assessments \in Seq(Assessment) /\ result = r
    BY ResultReports
  <1>2. ToSet(r.review) = Unsettled(assessments) \cup AskedIn(assessments)
                            \cup (ToSet(Dedupe(engine.requested)) \ KeptNames(assessments))
    BY <1>1, ReportRoutes
  <1> HIDE DEF r
  <1> QED
    BY <1>1, <1>2

\* A page that cannot be read costs neither the run nor the claim: its claim
\* stays in the result and its field is on the review list (grounding.py:134-140,
\* research.py:242-268).
THEOREM FetchFailuresContained == SourceSpec => []FetchFailureContained
  <1>1. ASSUME IInv, SourceInv, result # None,
               NEW k \in DOMAIN assessments, fetches[k].tag = "no text"
        PROVE  /\ Strip[assessments[k].claim.field] \in ToSet(result.review)
               /\ \E c \in Kept : c = assessments[k].claim
    <2>1. assessments \in Seq(Assessment) /\ Kept = KeptIn(assessments)
      BY <1>1, ResultReports
    <2>2. AskedIn(assessments) \subseteq ToSet(result.review)
      BY <1>1, QuestionedOnReview
    <2>3. assessments[k].verdict = "needs_review"
      BY <1>1 DEF SourceInv, VerdictInv
    <2> QED
      BY <2>1, <2>2, <2>3 DEF AskedIn, KeptIn
  <1>2. IInv /\ SourceInv /\ RaisesOnlyWhenTorn => FetchFailureContained
    BY <1>1 DEF FetchFailureContained
  <1>3. SourceSpec => []IInv
    BY Simulates, Inductive, PTL
  <1> QED
    BY SourceInductive, <1>2, <1>3, PTL

\* "This adapter closes that gap": an attribute that is not up for review quotes
\* a claim whose page, fetched again, held the required share of what the claim
\* asserts (grounding.py:130-159, research.py:242-268).
THEOREM SettledAreGrounded == SourceSpec => []SettledIsGrounded
  <1>1. ASSUME IInv, SourceInv, RejectedNeverResolved, result # None,
               NEW name \in DOMAIN result.attributes, name \notin ToSet(result.review)
        PROVE  \E k \in DOMAIN assessments :
                 LET c == assessments[k].claim
                 IN  /\ Strip[c.field] = name
                     /\ result.attributes[name].value = c.value
                     /\ result.attributes[name].url = c.url
                     /\ fetches[k].tag = "text" /\ Suffices(fetches[k].text, c)
    <2>1. assessments \in Seq(Assessment) /\ Kept = KeptIn(assessments)
      BY <1>1, ResultReports
    <2>2. AskedIn(assessments) \subseteq ToSet(result.review)
      BY <1>1, QuestionedOnReview
    <2>3. PICK c \in KeptOn(name) :
            result.attributes[name] =
              [value |-> c.value, url |-> c.url, at |-> c.at, conf |-> c.conf]
      BY <1>1 DEF RejectedNeverResolved
    <2>4. c \in KeptIn(assessments) /\ Strip[c.field] = name
      BY <2>1, <2>3 DEF KeptOn
    <2>5. PICK k \in DOMAIN assessments :
            assessments[k].claim = c /\ assessments[k].verdict # "rejected"
      BY <2>4 DEF KeptIn
    <2>6. assessments[k].verdict # "needs_review"
      BY <1>1, <2>1, <2>2, <2>4, <2>5 DEF AskedIn
    <2>7. assessments[k].verdict = "accepted"
      <3>1. assessments[k] \in Assessment
        BY <2>1
      <3> QED
        BY <2>5, <2>6, <3>1 DEF Assessment
    <2>8. fetches[k].tag = "text" /\ Suffices(fetches[k].text, c)
      BY <1>1, <2>5, <2>7 DEF SourceInv, VerdictInv
    <2>9. result.attributes[name].value = c.value /\ result.attributes[name].url = c.url
      BY <2>3
    <2> QED
      BY <2>4, <2>5, <2>8, <2>9
  <1>2. IInv /\ SourceInv /\ RejectedNeverResolved => SettledIsGrounded
    BY <1>1 DEF SettledIsGrounded
  <1>3. SourceSpec => []IInv /\ []RejectedNeverResolved
    BY Simulates, Inductive, RejectedClaimsUnused, PTL
  <1> QED
    BY SourceCorrect, <1>2, <1>3, PTL

\* The receipt of a Treg call that gave an output is what was charged, and the
\* error of a pending one names the call (treg.py:81-100, 144-149).
LEMMA TregReceipt ==
  ASSUME NEW adapter \in Adapter, NEW r \in Responses, adapter.kind = "treg"
  PROVE  /\ r.status = "pending" =>
              /\ AnswerOf(adapter, r).tag # "output"
              /\ Receipt(adapter, r).call = r.call
              /\ Receipt(adapter, r) # None
         /\ AnswerOf(adapter, r).tag = "output" =>
              Receipt(adapter, r) # None /\ Receipt(adapter, r).cost = r.charge
  <1>1. r \in Response
    BY SourceAssumption
  <1>2. r.call \in Nat \cup {NoHeader} /\ r.cost \in Units \cup {NoHeader}
    BY <1>1 DEF Response
  <1>3. CASE r.status = "pending"
    <2>1. ~ Returns(adapter, r)
      BY <1>3 DEF Returns, TregReturns
    <2>2. AnswerOf(adapter, r).tag = "raises"
      BY <2>1 DEF AnswerOf, Raises
    <2>3. Receipt(adapter, r) = [call |-> r.call, cost |-> NoHeader]
      BY <1>3, <2>2 DEF Receipt
    <2>4. Receipt(adapter, r) \in ReceiptShape
      BY <1>2, <2>3 DEF ReceiptShape
    <2> QED
      BY <1>3, <2>2, <2>3, <2>4, AdaptersAssumption
  <1>4. CASE r.status # "pending" /\ AnswerOf(adapter, r).tag = "output"
    <2>1. Returns(adapter, r)
      BY <1>4 DEF AnswerOf, Raises
    <2>2. r.cost # NaN
      BY <2>1 DEF Returns, TregReturns
    <2>3. Receipt(adapter, r) =
            [call |-> r.call, cost |-> IF r.cost = NoHeader THEN 0 ELSE r.cost]
      BY <1>4 DEF Receipt
    <2>4. Receipt(adapter, r).cost = r.charge
      BY <1>2, <2>2, <2>3, SourceAssumption DEF Units
    <2>5. Receipt(adapter, r) \in ReceiptShape
      BY <1>2, <2>3 DEF ReceiptShape, Units
    <2> QED
      BY <1>4, <2>4, <2>5, AdaptersAssumption
  <1>5. CASE r.status # "pending" /\ AnswerOf(adapter, r).tag # "output"
    BY <1>5
  <1> QED
    BY <1>3, <1>4, <1>5

\* Every claim of a recorded run is in the log of a result.
LEMMA ClaimsFiled ==
  ASSUME IInv, result # None, NEW i \in Providers, NEW k \in 1..Len(runs[i].claims)
  PROVE  \E j \in DOMAIN assessments :
           assessments[j].provider = i /\ assessments[j].claim = runs[i].claims[k]
  <1> DEFINE s == Filed(runs, i - 1)
             t == Entries(runs, i)
             w == Filed(runs, i)
             all == Filed(runs, NumProviders)
             item == [provider |-> i, claim |-> runs[i].claims[k]]
  <1>0. /\ NumProviders \in Nat /\ i - 1 \in 0..NumProviders /\ i \in 0..NumProviders
        /\ NumProviders \in 0..NumProviders
    BY ResearchAssumption DEF Providers
  <1>1. /\ pc = "returned" /\ assessments \in Seq(Assessment)
        /\ \A p \in Providers : runs[p] \in Run
    BY ResultReports
  <1>2. s \in Seq(Item) /\ w \in Seq(Item) /\ all \in Seq(Item) /\ w = s \o t
    BY <1>0, <1>1, FiledGrows
  <1>3. t \in Seq(Item) /\ Len(t) = Len(runs[i].claims) /\ t[k] = item
    BY <1>1, EntriesType
  <1>4. Items(assessments) = all
    BY <1>1 DEF IInv, LedgerInv
  <1>5. /\ Len(w) <= Len(all)
        /\ \A p \in 1..Len(w) : all[p] = w[p]
    BY <1>0, <1>1, FiledPrefix
  <1> HIDE DEF s, t, w, all, item
  <1>6. k \in 1..Len(t)
    BY <1>3
  <1>7. Len(s) + k \in 1..Len(w) /\ w[Len(s) + k] = item
    BY <1>2, <1>3, <1>6
  <1>8. Len(s) + k \in 1..Len(all) /\ all[Len(s) + k] = item
    BY <1>2, <1>5, <1>7
  <1>9. Len(s) + k \in DOMAIN assessments
    BY <1>1, <1>2, <1>4, <1>8 DEF Items
  <1>10. [provider |-> assessments[Len(s) + k].provider,
          claim |-> assessments[Len(s) + k].claim] = item
    BY <1>4, <1>8, <1>9 DEF Items
  <1> QED
    BY <1>9, <1>10 DEF item

\* An answer that gave an output came and could be read whole.
LEMMA OutputReadWhole ==
  ASSUME NEW adapter \in Adapter, NEW r \in Response, AnswerOf(adapter, r).tag = "output"
  PROVE  /\ r.mapper = "maps" /\ AnswerOf(adapter, r).claims = r.claims
         /\ \/ r.status = "ok"
            \/ adapter.kind = "keenable" /\ r.status = "pending"
         /\ adapter.kind \in {"treg", "keenable"} => r.json
         /\ adapter.kind = "keenable" => r.rows
  <1>1. Returns(adapter, r) /\ r.mapper \notin {"raises", "aborts"}
    BY DEF AnswerOf, Raises, Aborts
  <1>2. AnswerOf(adapter, r).claims = r.claims
    BY <1>1 DEF AnswerOf
  <1>3. r.mapper = "maps"
    BY <1>1 DEF Response
  <1> QED
    BY <1>1, <1>2, <1>3 DEF Returns, TregReturns, KeenableReturns

\* A succeeded run has used all of its answer.
LEMMA SucceededUsed ==
  ASSUME IInv, SourceInv, result # None, NEW i \in Providers, runs[i].status = "succeeded"
  PROVE  UsedInFull(i)
  <1>0. /\ wire \in [Providers -> Responses \cup {None}] /\ adapters \in Deployments
        /\ runs[i] # None
    BY ResultReports DEF SourceInv, SourceType
  <1>1. runs[i] # Skipped
    BY DEF Skipped
  <1>2. answer[i] # None /\ runs[i] = Outcome(engine, i, answer[i])
    BY <1>0, <1>1 DEF SourceInv, ReceiptInv
  <1>3. Valid(engine, i, answer[i]) /\ runs[i].claims = answer[i].claims
    BY <1>2 DEF Outcome, Failed, Succeeded
  <1>4. wire[i] # None /\ answer[i] = AnswerOf(adapters[i], wire[i])
    BY <1>2, <1>3 DEF Valid, SourceInv, CallInv, Raises, Aborts
  <1>5. wire[i] \in Response /\ adapters[i] \in Adapter
    BY <1>0, <1>4, SourceAssumption
  <1>6. AnswerOf(adapters[i], wire[i]).tag = "output"
    BY <1>3, <1>4 DEF Valid
  <1>7. /\ wire[i].mapper = "maps" /\ runs[i].claims = wire[i].claims
        /\ \/ wire[i].status = "ok"
           \/ adapters[i].kind = "keenable" /\ wire[i].status = "pending"
        /\ adapters[i].kind \in {"treg", "keenable"} => wire[i].json
        /\ adapters[i].kind = "keenable" => wire[i].rows
    BY <1>3, <1>4, <1>5, <1>6, OutputReadWhole
  <1>8. ASSUME NEW c \in ToSet(wire[i].claims)
        PROVE  \E k \in DOMAIN assessments :
                 assessments[k].provider = i /\ assessments[k].claim = c
    <2>1. wire[i].claims \in Seq(Claim)
      BY <1>5 DEF Response
    <2>2. PICK k \in 1..Len(wire[i].claims) : c = wire[i].claims[k]
      BY <2>1 DEF ToSet
    <2>3. k \in 1..Len(runs[i].claims) /\ c = runs[i].claims[k]
      BY <1>7, <2>2
    <2> QED
      BY <2>3, ClaimsFiled
  <1> QED
    BY <1>4, <1>7, <1>8 DEF UsedInFull

\* The receipts of a result account for what its Treg calls were charged.
LEMMA Traceable == IInv /\ SourceInv => ChargesTraceable
  <1> SUFFICES ASSUME IInv, SourceInv PROVE ChargesTraceable
    OBVIOUS
  <1>0. /\ wire \in [Providers -> Responses \cup {None}] /\ adapters \in Deployments
        /\ bill \in [Providers -> Seq(Nat)]
        /\ answer \in [Providers -> Answers \cup {None}]
        /\ runs \in [Providers -> Run \cup {None}]
    BY DEF SourceInv, SourceType, IInv, TypeOK
  <1>1. ASSUME NEW i \in Providers PROVE Len(bill[i]) <= 1 /\ (bill[i] # <<>> => i \in Admitted)
    <2>1. CASE wire[i] = None
      BY <2>1 DEF SourceInv, CallInv
    <2>2. CASE wire[i] # None
      <3>1. call[i] = "finished" /\ bill[i] = <<wire[i].charge>>
        BY <2>2 DEF SourceInv, CallInv
      <3> QED
        BY <3>1 DEF IInv, PoolInv
    <2> QED
      BY <2>1, <2>2
  <1>2. ASSUME result # None, NEW i \in Providers, adapters[i].kind = "treg"
        PROVE  /\ bill[i] # <<>> /\ wire[i].status = "pending" =>
                    receipts[i] # None /\ receipts[i].call = wire[i].call
               /\ runs[i].status = "succeeded" \/ result.status = "completed" =>
                    receipts[i] # None /\ bill[i] = <<receipts[i].cost>>
    <2>1. pc = "returned" /\ runs[i] # None
      BY <1>2 DEF SourceInv, ReceiptInv, IInv, RunsInv
    <2>2. adapters[i] \in Adapter
      BY <1>0, SourceAssumption
    <2>3. ASSUME bill[i] # <<>>
          PROVE  /\ wire[i] \in Responses /\ bill[i] = <<wire[i].charge>>
                 /\ answer[i] = AnswerOf(adapters[i], wire[i])
                 /\ runs[i] # Skipped /\ receipts[i] = ReceiptKept(i)
                 /\ runs[i] = Outcome(engine, i, answer[i])
      <3>1. wire[i] # None
        BY <2>3 DEF SourceInv, CallInv
      <3>2. i \in Admitted
        BY <1>1, <2>3
      <3>3. runs[i] # Skipped
        BY <3>2 DEF SourceInv, ReceiptInv
      <3> QED
        BY <1>0, <2>1, <3>1, <3>3 DEF SourceInv, CallInv, ReceiptInv
    <2>4. ASSUME bill[i] # <<>>, wire[i].status = "pending"
          PROVE  receipts[i] # None /\ receipts[i].call = wire[i].call
      <3>1. receipts[i] = Receipt(adapters[i], wire[i])
        BY <1>2, <2>2, <2>3, <2>4, TregReceipt, SourceAssumption DEF ReceiptKept
      <3> QED
        BY <1>2, <2>2, <2>3, <2>4, <3>1, TregReceipt
    <2>5. ASSUME runs[i].status = "succeeded"
          PROVE  receipts[i] # None /\ bill[i] = <<receipts[i].cost>>
      <3>1. runs[i] # Skipped
        BY <2>5 DEF Skipped
      <3>2. answer[i] # None /\ runs[i] = Outcome(engine, i, answer[i])
        BY <2>1, <3>1 DEF SourceInv, ReceiptInv
      <3>3. Valid(engine, i, answer[i])
        BY <2>5, <3>2 DEF Outcome, Failed
      <3>4. wire[i] # None
        BY <3>2, <3>3 DEF Valid, SourceInv, CallInv, Raises, Aborts
      <3>5. bill[i] # <<>>
        BY <3>4 DEF SourceInv, CallInv
      <3>6. receipts[i] = Receipt(adapters[i], wire[i])
        BY <2>3, <3>3, <3>4, <3>5 DEF ReceiptKept
      <3>7. AnswerOf(adapters[i], wire[i]).tag = "output"
        BY <2>3, <3>3, <3>5 DEF Valid
      <3>8. receipts[i] # None /\ receipts[i].cost = wire[i].charge
        BY <1>2, <2>2, <2>3, <3>5, <3>6, <3>7, TregReceipt
      <3> QED
        BY <2>3, <3>5, <3>8
    <2>6. result.status = "completed" => runs[i].status = "succeeded"
      BY <1>2 DEF SourceInv, ReceiptInv
    <2> QED
      BY <2>4, <2>5, <2>6
  <1>3. ASSUME result # None, result.status = "completed", NEW i \in Providers
        PROVE  UsedInFull(i)
    <2>1. runs[i].status = "succeeded"
      BY <1>3 DEF SourceInv, ReceiptInv
    <2> QED
      BY <1>3, <2>1, SucceededUsed
  <1> QED
    BY <1>1, <1>2, <1>3 DEF ChargesTraceable, PaidOnce

\* No provider is paid twice or without having been admitted, every charge of a
\* succeeded Treg run is in its receipt, and a completed result has used all of
\* every answer (treg.py:81-100, keenable.py:68-75, research.py:232-240).
THEOREM ChargesAreTraceable == SourceSpec => []ChargesTraceable
  <1>1. SourceSpec => []IInv
    BY Simulates, Inductive, PTL
  <1> QED
    BY <1>1, SourceCorrect, Traceable, PTL
===============================================================================
