--------------------------- MODULE ResearchContract ---------------------------
(***************************************************************************)
(* What ResearchEngine.run promises, without its threads: which providers   *)
(* are asked is settled by the reservations alone, each of them answers     *)
(* once and in any order, the claims are judged in provider order, and the  *)
(* result is a function of the answers and the verdicts - never of the      *)
(* order in which the providers happened to answer.                         *)
(***************************************************************************)
EXTENDS ResearchReport

VARIABLES
  engine,        \* configuration of the run
  answer,        \* provider |-> its answer, None before
  assessments,   \* verdicts given so far
  outcome,       \* "pending" | "returned" | "raised"
  result         \* the ResearchResult of a run that returned

vars == <<engine, answer, assessments, outcome, result>>

\* booked[k]: the units reserved once the first k providers were considered.
Booked(e) ==
  LET booked[k \in 0..NumProviders] ==
        IF k = 0 THEN 0
        ELSE LET next == Plus(booked[k - 1], e.reserve[k])
             IN  IF OverBudget(e, next) THEN booked[k - 1] ELSE next
  IN  booked

Admitted(e) ==
  {i \in Providers : ~ OverBudget(e, Plus(Booked(e)[i - 1], e.reserve[i]))}

Answered == \A i \in Admitted(engine) : answer[i] # None
Torn == \E i \in Admitted(engine) : answer[i] # None /\ answer[i].tag = "aborts"

Runs ==
  [i \in Providers |-> IF i \in Admitted(engine)
                       THEN Outcome(engine, i, answer[i]) ELSE Skipped]

\* The claims to be judged: those of the valid answers, in provider order.
Docket ==
  FlattenSeq([i \in Providers |->
    [k \in DOMAIN Runs[i].claims |-> [provider |-> i, claim |-> Runs[i].claims[k]]]])

Init ==
  /\ engine \in Engines
  /\ answer = [i \in Providers |-> None]
  /\ assessments = <<>>
  /\ outcome = "pending"
  /\ result = None

Reply(i, a) ==
  /\ i \in Admitted(engine) /\ answer[i] = None
  /\ answer' = [answer EXCEPT ![i] = a]
  /\ UNCHANGED <<engine, assessments, outcome, result>>

Judgeable == Answered /\ ~ Torn /\ outcome = "pending"
Pending == Judgeable /\ Len(assessments) < Len(Docket)

Judge(verdict) ==
  /\ Pending /\ verdict \in Verdicts(engine) \ {"fails"}
  /\ LET item == Docket[Len(assessments) + 1]
     IN  assessments' = Append(assessments,
           [provider |-> item.provider, claim |-> item.claim, verdict |-> verdict])
  /\ UNCHANGED <<engine, answer, outcome, result>>

Deliver ==
  /\ Judgeable /\ ~ Pending
  /\ CanReport(engine, assessments, Booked(engine)[NumProviders])
  /\ outcome' = "returned"
  /\ result' = Report(engine, Runs, assessments, Booked(engine)[NumProviders])
  /\ UNCHANGED <<engine, answer, assessments>>

\* The run raises only after every admitted provider answered, and only for an
\* aborting provider, a failing validator or a value that cannot be encoded.
Raise ==
  /\ outcome = "pending" /\ Answered
  /\ \/ Torn
     \/ Pending /\ "fails" \in Verdicts(engine)
     \/ ~ Pending /\ ~ Encodable(assessments)
  /\ outcome' = "raised"
  /\ UNCHANGED <<engine, answer, assessments, result>>

Next ==
  \/ \E i \in Providers, a \in Answers : Reply(i, a)
  \/ \E verdict \in Judgements \cup {"accepted"} : Judge(verdict)
  \/ Deliver \/ Raise

Spec == Init /\ [][Next]_vars
===============================================================================
