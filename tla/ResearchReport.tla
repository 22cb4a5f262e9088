---------------------------- MODULE ResearchReport ----------------------------
(***************************************************************************)
(* The data of a research run and the pure part of ResearchEngine.run: what *)
(* one provider answer amounts to, and the ResearchResult that the runs and *)
(* the assessment log amount to.  The contract and the engine share it.     *)
(*                                                                         *)
(* Units are floats in the code.  A unit here is a natural number or NaN,   *)
(* the one float that every comparison of the code lets through.            *)
(***************************************************************************)
EXTENDS Reconciliation

CONSTANTS
  NumProviders,  \* providers are 1..NumProviders, in the caller's order
  Engines,       \* configurations: [reserve, max, spent, requested, validates]
  Answers,       \* what a provider may do: [tag, units, claims]
  Judgements,    \* what a validator may do with a claim
  NaN,           \* float("nan")
  NoLimit,       \* max_units=None
  None           \* no run, no answer, no result yet

Providers == 1..NumProviders
Units == Nat \cup {NaN}

\* "garbage" is a value that is not a ProviderOutput, "aborts" a BaseException
\* that is not an Exception; a rejected ProviderOutput is one that "raises".
Answer == [tag : {"output", "raises", "garbage", "aborts"}, units : Units,
           claims : Seq(Claim)]

\* A ProviderRun, its error text and metadata left out.
Run == [status : {"succeeded", "failed", "skipped_budget"}, reserved : Units,
        used : Units, claims : Seq(Claim)]

\* spent is the reserved_units of the ResearchBudget the engine is given.
ASSUME ResearchAssumption ==
  /\ NumProviders \in Nat
  /\ NaN \notin Nat /\ NoLimit \notin Units
  /\ Answers \subseteq Answer /\ Answers # {} /\ None \notin Answers \cup Run
  /\ Judgements \subseteq {"accepted", "needs_review", "rejected", "fails"}
  /\ \A e \in Engines : /\ e.reserve \in [Providers -> Units]
                        /\ e.max \in Units \cup {NoLimit}
                        /\ e.spent \in Units
                        /\ e.requested \in Seq(DOMAIN Strip)
                        /\ e.validates \in BOOLEAN

\* Float arithmetic as the code uses it: NaN absorbs sums, fails comparisons.
Plus(x, y) == IF x = NaN \/ y = NaN THEN NaN ELSE x + y
Exceeds(x, y) == x # NaN /\ y # NaN /\ x > y
Total(units) == FoldLeft(Plus, 0, units)

\* max_units is not None and units > max_units
OverBudget(e, units) == e.max # NoLimit /\ Exceeds(units, e.max)

-------------------------------------------------------------------------------
(* One provider.                                                            *)

Skipped == [status |-> "skipped_budget", reserved |-> 0, used |-> 0, claims |-> <<>>]

\* _run_provider: the answer is a ProviderOutput within its reservation.
Valid(e, i, a) == a.tag = "output" /\ ~ Exceeds(a.units, e.reserve[i])

Failed(e, i) ==
  [status |-> "failed", reserved |-> e.reserve[i], used |-> 0, claims |-> <<>>]
Succeeded(e, i, a) ==
  [status |-> "succeeded", reserved |-> e.reserve[i], used |-> a.units,
   claims |-> a.claims]

Outcome(e, i, a) == IF Valid(e, i, a) THEN Succeeded(e, i, a) ELSE Failed(e, i)

\* Without a validator every claim is accepted.
Verdicts(e) == IF e.validates THEN Judgements ELSE {"accepted"}

-------------------------------------------------------------------------------
(* The report: reconciliation, coverage, review routing and the bill.       *)

\* Slip: the verdict is recorded but the claim is used all the same.
NotRejectedEver(entry) == entry.verdict \in {"accepted", "needs_review", "rejected"}

NotRejected(entry) == entry.verdict # "rejected"

\* accepted_claims
AcceptedClaims(log) ==
  LET kept == Where(log, {entry \in ToSet(log) : NotRejected(entry)})
  IN  [k \in DOMAIN kept |-> kept[k].claim]

\* validator_review_fields, as the claims spell them
QuestionedFields(log) ==
  LET asked == Where(log, {entry \in ToSet(log) : entry.verdict = "needs_review"})
  IN  [k \in DOMAIN asked |-> asked[k].claim.field]

\* Slip: partial coverage is reported before open fields.
StatusOfPartialFirst(run, review) ==
  IF \A i \in DOMAIN run : run[i].status # "succeeded" THEN "failed"
  ELSE IF \E i \in DOMAIN run : run[i].status # "succeeded" THEN "partial"
  ELSE IF review # <<>> THEN "needs_review"
  ELSE "completed"

StatusOf(run, review) ==
  IF \A i \in DOMAIN run : run[i].status # "succeeded" THEN "failed"
  ELSE IF review # <<>> THEN "needs_review"
  ELSE IF \E i \in DOMAIN run : run[i].status # "succeeded" THEN "partial"
  ELSE "completed"

\* The ResearchResult of the runs and the assessment log.
Report(e, run, log, booked) ==
  LET claims     == AcceptedClaims(log)
      attributes == Attributes(claims)
      missing    == Missing(Dedupe(e.requested), attributes)
      review     == Dedupe(ReviewFields(claims) \o QuestionedFields(log) \o missing)
  IN  [ status     |-> StatusOf(run, review),
        attributes |-> attributes,
        missing    |-> missing,
        review     |-> review,
        runs       |-> run,
        assessed   |-> log,
        reserved   |-> booked,
        used       |-> Total([i \in DOMAIN run |-> run[i].used]) ]

\* CanReconcile of the claims that were not rejected.
Encodable(log) ==
  \A k \in DOMAIN log : NotRejected(log[k]) => log[k].claim.value \notin Unencodable

\* Else reconcile_claims or the constructor of the resulting budget raises.
CanReport(e, log, booked) ==
  /\ Encodable(log)
  /\ ~ OverBudget(e, booked)
===============================================================================
