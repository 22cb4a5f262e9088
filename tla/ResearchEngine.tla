---------------------------- MODULE ResearchEngine ----------------------------
(***************************************************************************)
(* ResearchEngine.run of research.py: the calling thread plans which        *)
(* providers the budget admits, submits them to a thread pool, collects     *)
(* their futures in provider order, has every claim judged and reconciles   *)
(* what was not rejected.  The providers run on the pool's threads and      *)
(* answer in any order, late, wrongly, or by tearing the run down.          *)
(***************************************************************************)
EXTENDS ResearchReport

CONSTANT Workers \* max_workers of the thread pool

ASSUME WorkersAssumption == Workers \in Nat \ {0}

VARIABLES
  engine,        \* the configuration and the requested fields
  pc,            \* phase of the calling thread
  cursor,        \* index of the loop the calling thread is in
  reserved,      \* reserved_units
  scheduled,     \* the providers admitted, in order
  runs,          \* provider |-> its ProviderRun or None
  queue,         \* submitted calls no pool thread has taken yet
  call,          \* provider |-> "none" | "queued" | "running" | "finished"
  answer,        \* provider |-> what its finished call did
  judged,        \* claims of runs[cursor] assessed so far
  assessments,   \* evidence_assessments
  result         \* the ResearchResult, once there is one

poolVars == <<queue, call, answer>>
vars == <<engine, pc, cursor, reserved, scheduled, runs, queue, call, answer,
          judged, assessments, result>>

Init ==
  /\ engine \in Engines
  /\ pc = "plan"
  /\ cursor = 1
  /\ reserved = 0
  /\ scheduled = <<>>
  /\ runs = [i \in Providers |-> None]
  /\ queue = <<>>
  /\ call = [i \in Providers |-> "none"]
  /\ answer = [i \in Providers |-> None]
  /\ judged = 0
  /\ assessments = <<>>
  /\ result = None

Goto(phase) == pc' = phase /\ cursor' = 1

-------------------------------------------------------------------------------
(* Admission: one pass over the providers, before any of them starts.       *)

\* Slip: the budget is compared before the new reservation is added.
AdmitLate ==
  /\ pc = "plan" /\ cursor <= NumProviders
  /\ LET next == Plus(reserved, engine.reserve[cursor])
     IN  \/ /\ OverBudget(engine, reserved)
            /\ runs' = [runs EXCEPT ![cursor] = Skipped]
            /\ UNCHANGED <<reserved, scheduled>>
         \/ /\ ~ OverBudget(engine, reserved)
            /\ reserved' = next
            /\ scheduled' = Append(scheduled, cursor)
            /\ UNCHANGED runs
  /\ cursor' = cursor + 1
  /\ UNCHANGED <<engine, pc, poolVars, judged, assessments, result>>

\* Slip: a provider that does not fit still counts against the budget.
AdmitBookingSkipped ==
  /\ pc = "plan" /\ cursor <= NumProviders
  /\ reserved' = Plus(reserved, engine.reserve[cursor])
  /\ \/ /\ OverBudget(engine, reserved')
        /\ runs' = [runs EXCEPT ![cursor] = Skipped]
        /\ UNCHANGED scheduled
     \/ /\ ~ OverBudget(engine, reserved')
        /\ scheduled' = Append(scheduled, cursor)
        /\ UNCHANGED runs
  /\ cursor' = cursor + 1
  /\ UNCHANGED <<engine, pc, poolVars, judged, assessments, result>>

Admit ==
  /\ pc = "plan" /\ cursor <= NumProviders
  /\ LET next == Plus(reserved, engine.reserve[cursor])
     IN  \/ /\ OverBudget(engine, next)
            /\ runs' = [runs EXCEPT ![cursor] = Skipped]
            /\ UNCHANGED <<reserved, scheduled>>
         \/ /\ ~ OverBudget(engine, next)
            /\ reserved' = next
            /\ scheduled' = Append(scheduled, cursor)
            /\ UNCHANGED runs
  /\ cursor' = cursor + 1
  /\ UNCHANGED <<engine, pc, poolVars, judged, assessments, result>>

EndPlan ==
  /\ pc = "plan" /\ cursor > NumProviders
  /\ Goto("submit")
  /\ UNCHANGED <<engine, reserved, scheduled, runs, poolVars, judged,
                 assessments, result>>

-------------------------------------------------------------------------------
(* The thread pool.                                                         *)

Submit ==
  /\ pc = "submit" /\ cursor <= Len(scheduled)
  /\ queue' = Append(queue, scheduled[cursor])
  /\ call' = [call EXCEPT ![scheduled[cursor]] = "queued"]
  /\ cursor' = cursor + 1
  /\ UNCHANGED <<engine, pc, reserved, scheduled, runs, answer, judged,
                 assessments, result>>

EndSubmit ==
  /\ pc = "submit" /\ cursor > Len(scheduled)
  /\ Goto("collect")
  /\ UNCHANGED <<engine, reserved, scheduled, runs, poolVars, judged,
                 assessments, result>>

Running == {i \in Providers : call[i] = "running"}

\* Slip: a thread that made a call is not free again.
StartCallOncePerThread ==
  /\ queue # <<>>
  /\ Cardinality({i \in Providers : call[i] \in {"running", "finished"}}) < Workers
  /\ call' = [call EXCEPT ![Head(queue)] = "running"]
  /\ queue' = Tail(queue)
  /\ UNCHANGED <<engine, pc, cursor, reserved, scheduled, runs, answer, judged,
                 assessments, result>>

StartCall ==
  /\ queue # <<>> /\ Cardinality(Running) < Workers
  /\ call' = [call EXCEPT ![Head(queue)] = "running"]
  /\ queue' = Tail(queue)
  /\ UNCHANGED <<engine, pc, cursor, reserved, scheduled, runs, answer, judged,
                 assessments, result>>

FinishCall(i, a) ==
  /\ call[i] = "running"
  /\ call' = [call EXCEPT ![i] = "finished"]
  /\ answer' = [answer EXCEPT ![i] = a]
  /\ UNCHANGED <<engine, pc, cursor, reserved, scheduled, runs, queue, judged,
                 assessments, result>>

-------------------------------------------------------------------------------
(* Collection, in provider order whatever order the calls finish in.        *)

\* Slip: an output is taken as it is, whatever it used.
CollectRunUnchecked ==
  /\ pc = "collect" /\ cursor <= Len(scheduled)
  /\ LET i == scheduled[cursor]
     IN  /\ call[i] = "finished"
         /\ answer[i].tag # "aborts"
         /\ runs' = [runs EXCEPT ![i] = IF answer[i].tag = "output"
                                        THEN Succeeded(engine, i, answer[i])
                                        ELSE Failed(engine, i)]
  /\ cursor' = cursor + 1
  /\ UNCHANGED <<engine, pc, reserved, scheduled, poolVars, judged,
                 assessments, result>>

CollectRun ==
  /\ pc = "collect" /\ cursor <= Len(scheduled)
  /\ LET i == scheduled[cursor]
     IN  /\ call[i] = "finished"
         /\ answer[i].tag # "aborts"
         /\ runs' = [runs EXCEPT ![i] = Outcome(engine, i, answer[i])]
  /\ cursor' = cursor + 1
  /\ UNCHANGED <<engine, pc, reserved, scheduled, poolVars, judged,
                 assessments, result>>

\* Slip: the pool is shut down with its queue cancelled.
CollectAbortCancelling ==
  /\ pc = "collect" /\ cursor <= Len(scheduled)
  /\ call[scheduled[cursor]] = "finished"
  /\ answer[scheduled[cursor]].tag = "aborts"
  /\ Goto("unwind")
  /\ queue' = <<>>
  /\ UNCHANGED <<engine, reserved, scheduled, runs, call, answer, judged,
                 assessments, result>>

\* A BaseException (SystemExit, KeyboardInterrupt) is not caught: it leaves
\* the with block, whose exit still waits for the whole pool.
CollectAbort ==
  /\ pc = "collect" /\ cursor <= Len(scheduled)
  /\ call[scheduled[cursor]] = "finished"
  /\ answer[scheduled[cursor]].tag = "aborts"
  /\ Goto("unwind")
  /\ UNCHANGED <<engine, reserved, scheduled, runs, poolVars, judged,
                 assessments, result>>

PoolIdle == queue = <<>> /\ Running = {}

EndCollect ==
  /\ pc = "collect" /\ cursor > Len(scheduled)
  /\ PoolIdle
  /\ Goto("assess")
  /\ UNCHANGED <<engine, reserved, scheduled, runs, poolVars, judged,
                 assessments, result>>

\* Slip: shutdown(wait=False).
UnwindAtOnce ==
  /\ pc = "unwind"
  /\ Goto("raised")
  /\ UNCHANGED <<engine, reserved, scheduled, runs, poolVars, judged,
                 assessments, result>>

Unwind ==
  /\ pc = "unwind" /\ PoolIdle
  /\ Goto("raised")
  /\ UNCHANGED <<engine, reserved, scheduled, runs, poolVars, judged,
                 assessments, result>>

-------------------------------------------------------------------------------
(* Assessment of the claims of the succeeded runs.                          *)

Assessable(i) == runs[i].status = "succeeded" /\ judged < Len(runs[i].claims)

Assess(verdict) ==
  /\ pc = "assess" /\ cursor <= NumProviders /\ Assessable(cursor)
  /\ verdict \in Verdicts(engine) \ {"fails"}
  /\ assessments' = Append(assessments,
       [provider |-> cursor, claim |-> runs[cursor].claims[judged + 1],
        verdict |-> verdict])
  /\ judged' = judged + 1
  /\ UNCHANGED <<engine, pc, cursor, reserved, scheduled, runs, poolVars, result>>

\* The validator raises, or returns something that is not an EvidenceVerdict.
ValidatorFails ==
  /\ pc = "assess" /\ cursor <= NumProviders /\ Assessable(cursor)
  /\ "fails" \in Verdicts(engine)
  /\ Goto("raised")
  /\ UNCHANGED <<engine, reserved, scheduled, runs, poolVars, judged,
                 assessments, result>>

\* Slip: the claim index survives into the next run.
NextRunKeepingIndex ==
  /\ pc = "assess" /\ cursor <= NumProviders /\ ~ Assessable(cursor)
  /\ cursor' = cursor + 1
  /\ UNCHANGED <<engine, pc, reserved, scheduled, runs, poolVars, judged,
                 assessments, result>>

NextRun ==
  /\ pc = "assess" /\ cursor <= NumProviders /\ ~ Assessable(cursor)
  /\ cursor' = cursor + 1
  /\ judged' = 0
  /\ UNCHANGED <<engine, pc, reserved, scheduled, runs, poolVars, assessments,
                 result>>

-------------------------------------------------------------------------------
(* The end of the run.                                                      *)

Return ==
  /\ pc = "assess" /\ cursor > NumProviders
  /\ CanReport(engine, assessments, reserved)
  /\ result' = Report(engine, runs, assessments, reserved)
  /\ Goto("returned")
  /\ UNCHANGED <<engine, reserved, scheduled, runs, poolVars, judged, assessments>>

ReportFails ==
  /\ pc = "assess" /\ cursor > NumProviders
  /\ ~ CanReport(engine, assessments, reserved)
  /\ Goto("raised")
  /\ UNCHANGED <<engine, reserved, scheduled, runs, poolVars, judged,
                 assessments, result>>

-------------------------------------------------------------------------------

Caller ==
  \/ Admit \/ EndPlan \/ Submit \/ EndSubmit
  \/ CollectRun \/ CollectAbort \/ EndCollect \/ Unwind
  \/ (\E verdict \in Judgements \cup {"accepted"} : Assess(verdict))
  \/ ValidatorFails \/ NextRun \/ Return \/ ReportFails

Pool == StartCall \/ \E i \in Providers, a \in Answers : FinishCall(i, a)

\* The call is over: the only states in which nothing is left to do.
Over == pc \in {"returned", "raised"}
Stop == Over /\ UNCHANGED vars

Next == Caller \/ Pool \/ Stop

\* The calling thread keeps running, free pool threads take queued calls, and
\* every provider call ends: the engine itself sets no timeout.
Fairness ==
  /\ WF_vars(Caller)
  /\ WF_vars(StartCall)
  /\ \A i \in Providers : WF_vars(\E a \in Answers : FinishCall(i, a))

Spec == Init /\ [][Next]_vars
FairSpec == Spec /\ Fairness
-------------------------------------------------------------------------------
(* Properties.                                                              *)

Phases == {"plan", "submit", "collect", "unwind", "assess", "returned", "raised"}
Assessment == [provider : Providers, claim : Claim,
               verdict : {"accepted", "needs_review", "rejected"}]

TypeOK ==
  /\ engine \in Engines
  /\ pc \in Phases
  /\ cursor \in Nat \ {0}
  /\ reserved \in Units
  /\ scheduled \in Seq(Providers)
  /\ runs \in [Providers -> Run \cup {None}]
  /\ queue \in Seq(Providers)
  /\ call \in [Providers -> {"none", "queued", "running", "finished"}]
  /\ answer \in [Providers -> Answers \cup {None}]
  /\ judged \in Nat
  /\ assessments \in Seq(Assessment)

Numeric == engine.max # NaN /\ \A i \in Providers : engine.reserve[i] # NaN
Due(e, S) == MapThenSumSet(LAMBDA i : e.reserve[i], S)
Bill(S) == Due(engine, S)
Launched == {i \in Providers : call[i] # "none"}
Admitted == ToSet(scheduled)

\* With numbers for units, the providers launched so far together reserve no
\* more than max_units, and the result bills exactly what they reserved and
\* reports no more use than that.
BudgetHeld ==
  Numeric =>
    /\ engine.max # NoLimit => Bill(Launched) <= engine.max
    /\ result # None => /\ result.reserved = Bill(Launched)
                        /\ result.used # NaN => result.used <= result.reserved

\* A provider is passed over exactly when its own reservation no longer fits
\* beside those admitted before it: a later, cheaper one still gets its turn.
AdmissionExact ==
  Numeric /\ pc # "plan" =>
    \A i \in Providers :
      i \notin Admitted <=>
        /\ engine.max # NoLimit
        /\ Bill({j \in Admitted : j < i}) + engine.reserve[i] > engine.max

\* When the run leaves the thread pool, by any exit, every admitted call has
\* ended and nothing of it can act later; passed over providers were never called.
NoCallOutlivesRun ==
  /\ pc \in {"assess", "returned", "raised"} =>
       queue = <<>> /\ \A i \in Admitted : call[i] = "finished"
  /\ Launched \subseteq Admitted

\* "A provider failure is a normal run outcome": run() raises only for a
\* BaseException, a misbehaving validator or a value without canonical text.
OrdinaryFailureContained ==
  pc = "raised" =>
    \/ \E i \in Launched : answer[i] # None /\ answer[i].tag = "aborts"
    \/ "fails" \in Verdicts(engine)
    \/ \E k \in DOMAIN assessments : assessments[k].claim.value \in Unencodable

\* The answers that count: of admitted providers, well-formed, within budget.
Good == {i \in Launched : call[i] = "finished" /\ Valid(engine, i, answer[i])}
Kept == {assessments[k].claim : k \in {j \in DOMAIN assessments :
                                         assessments[j].verdict # "rejected"}}
KeptOn(name) == {c \in Kept : Strip[c.field] = name}
Settled(name) ==
  /\ Cardinality({Canonical[c.value] : c \in KeptOn(name)}) = 1
  /\ \E c \in KeptOn(name) : c.kind = "observed"

\* The fields a person must look at: disputed or merely inferred ones, those
\* the validator questioned, and the requested ones nothing is known about.
Open ==
  {name \in {Strip[c.field] : c \in Kept} : ~ Settled(name)}
    \cup {Strip[assessments[k].claim.field] : k \in
            {j \in DOMAIN assessments : assessments[j].verdict = "needs_review"}}
    \cup {name \in ToSet(Dedupe(engine.requested)) : KeptOn(name) = {}}

\* The review list is exactly the open fields and the status says what
\* happened: nothing is completed unless every provider gave a valid answer
\* and no field is open; a run without a single valid answer has failed.
StatusFailsClosed ==
  result # None =>
    /\ ToSet(result.review) = Open
    /\ result.status = "failed" <=> Good = {}
    /\ result.status = "completed" <=> Good = Providers /\ Good # {} /\ Open = {}
    /\ result.status = "partial" <=> Good # {} /\ Good # Providers /\ Open = {}

\* Every claim of a valid answer is assessed once, under the provider that
\* made it and in the order of the configuration; nothing of a failed, over-
\* spending or passed over provider is.
LedgerComplete ==
  result # None =>
    [k \in DOMAIN assessments |->
       [provider |-> assessments[k].provider, claim |-> assessments[k].claim]]
      = FlattenSeq([i \in Providers |->
          IF i \in Good
          THEN [k \in DOMAIN answer[i].claims |-> [provider |-> i, claim |-> answer[i].claims[k]]]
          ELSE <<>>])

\* A resolved attribute quotes a claim the validator let pass, and a field all
\* of whose claims were rejected is not resolved at all.
RejectedNeverResolved ==
  result # None =>
    /\ DOMAIN result.attributes = {Strip[c.field] : c \in Kept}
    /\ \A name \in DOMAIN result.attributes :
         \E c \in KeptOn(name) :
           result.attributes[name] =
             [value |-> c.value, url |-> c.url, at |-> c.at, conf |-> c.conf]

-------------------------------------------------------------------------------
(* The inductive invariant behind the safety theorems.                      *)

\* Seen from outside the run is the contract: threads, queue, futures, loop
\* indices and the table of runs are hidden.
Contract == INSTANCE ResearchContract
              WITH outcome <- IF Over THEN pc ELSE "pending"

\* Providers are admitted in order, each once.
PlanInv ==
  /\ \A j, k \in DOMAIN scheduled : j < k => scheduled[j] < scheduled[k]
  /\ pc = "plan" => \A k \in DOMAIN scheduled : scheduled[k] < cursor

\* What is reserved never exceeds a numeric maximum.
BudgetInv == ~ OverBudget(engine, reserved)

\* The queue holds exactly the queued calls, each once; only admitted
\* providers are called, all of them once submission is over.
PoolInv ==
  /\ \A j, k \in DOMAIN queue : queue[j] = queue[k] => j = k
  /\ \A i \in Providers : call[i] = "queued" <=> i \in ToSet(queue)
  /\ \A i \in Providers : call[i] # "none" => i \in Admitted
  /\ \A i \in Providers : call[i] = "finished" <=> answer[i] # None
  /\ pc = "plan" => \A i \in Providers : call[i] = "none"
  /\ pc = "submit" =>
       \A k \in DOMAIN scheduled : call[scheduled[k]] = "none" <=> k >= cursor
  /\ pc \notin {"plan", "submit"} => \A i \in Admitted : call[i] # "none"
  /\ pc \in {"assess", "returned", "raised"} => PoolIdle

\* Every provider passed over or collected has its run, so that none is missed
\* when the runs are put in order (a KeyError in the code).
RunsInv ==
  /\ \A i \in Providers :
       i \notin Admitted /\ (pc = "plan" => i < cursor) => runs[i] # None
  /\ pc = "collect" =>
       \A k \in DOMAIN scheduled : k < cursor => runs[scheduled[k]] # None
  /\ pc \in {"assess", "returned"} => \A i \in Providers : runs[i] # None

\* The call is unwinding only because of a provider that aborted.
ExitInv ==
  /\ pc = "unwind" => \E i \in Launched : answer[i] # None /\ answer[i].tag = "aborts"
  /\ OrdinaryFailureContained

\* What is recorded of a provider is what its answer, or its being passed over,
\* amounts to; nothing is recorded of one not considered yet.
RecordInv ==
  /\ \A i \in Providers : runs[i] # None =>
       IF i \in Admitted
       THEN /\ call[i] = "finished" /\ answer[i].tag # "aborts"
            /\ runs[i] = Outcome(engine, i, answer[i])
       ELSE runs[i] = Skipped
  /\ pc = "plan" => \A i \in Providers : i >= cursor => runs[i] = None

\* The running total is the bill of the admitted providers, and whom it admits
\* so far is settled by the reservations.
BillInv ==
  Numeric =>
    /\ reserved = Bill(Admitted)
    /\ \A i \in Providers : (pc = "plan" => i < cursor) =>
         (i \notin Admitted <=>
            /\ engine.max # NoLimit
            /\ Bill({j \in Admitted : j < i}) + engine.reserve[i] > engine.max)

\* The result is the report of what was recorded, which no longer changes.
ResultInv ==
  result # None =>
    pc = "returned" /\ result = Report(engine, runs, assessments, reserved)

\* The claims recorded of provider i, and of the first n providers, in order.
Entries(run, i) ==
  [k \in DOMAIN run[i].claims |-> [provider |-> i, claim |-> run[i].claims[k]]]
Filed(run, n) == FlattenSeq([i \in 1..n |-> Entries(run, i)])

Items(log) ==
  [k \in DOMAIN log |-> [provider |-> log[k].provider, claim |-> log[k].claim]]

\* The assessments follow the claims of the recorded runs, one by one.
LedgerInv ==
  /\ pc \notin {"assess", "returned", "raised"} => assessments = <<>> /\ judged = 0
  /\ pc = "assess" /\ cursor <= NumProviders =>
       /\ judged <= Len(runs[cursor].claims)
       /\ Items(assessments)
            = Filed(runs, cursor - 1) \o SubSeq(Entries(runs, cursor), 1, judged)
  /\ pc = "assess" /\ cursor > NumProviders =>
       cursor = NumProviders + 1 /\ judged = 0
  /\ \/ pc = "assess" /\ cursor > NumProviders
     \/ pc = "returned"
     => Items(assessments) = Filed(runs, NumProviders)

\* The plan is the one of the contract.
BookedInv ==
  LET considered == IF pc = "plan" THEN cursor - 1 ELSE NumProviders
  IN  /\ considered \in 0..NumProviders
      /\ reserved = Contract!Booked(engine)[considered]
      /\ Admitted = Contract!Admitted(engine) \cap 1..considered

\* The engine reaches only consistent plans, pools and exits.
IInv == /\ TypeOK /\ PlanInv /\ BudgetInv /\ PoolInv /\ RunsInv /\ ExitInv
        /\ RecordInv /\ BillInv /\ ResultInv /\ LedgerInv /\ BookedInv

-------------------------------------------------------------------------------
(* Refinement, liveness, and two claims of the documentation.             *)

\* The engine implements its contract: the result depends on the answers and
\* the verdicts, not on the schedule.
ImplementsContract == Contract!Spec

\* As long as every provider call ends, the run ends.
Terminates == <>Over

\* An admitted provider is called to the end, also when an earlier one aborts.
AdmittedIsCalled ==
  \A i \in Providers : i \in Admitted ~> call[i] = "finished"

\* A doc's claim about the configured budget: the budget handed to the engine
\* may already be partly reserved, and what is launched fits what remains.
RemainingBudgetHeld ==
  Numeric /\ engine.max # NoLimit /\ engine.spent # NaN =>
    Bill(Launched) <= engine.max - engine.spent

\* A doc's claim about every admitted provider: no provider is launched after
\* the numeric reservations before it have exhausted the budget.
ExhaustedMeansClosed ==
  engine.max \in Nat =>
    Bill({i \in Launched : engine.reserve[i] # NaN}) <= engine.max
===============================================================================
