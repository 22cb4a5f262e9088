--------------------------- MODULE GroundedResearch ---------------------------
(***************************************************************************)
(* A research run as a caller deploys it: the engine of research.py, its    *)
(* providers the adapters of ProviderAdapters, each with a paid service     *)
(* behind it, and its validator the GroundingValidator, which fetches the   *)
(* page of every claim again before the claim counts.                       *)
(***************************************************************************)
EXTENDS ResearchEngine, Grounding, ProviderAdapters

CONSTANTS
  Deployments,  \* the adapters in use: provider |-> Adapter
  Responses,    \* what a service may do with a request
  Pages         \* the texts a page may have when it is fetched

VARIABLES
  adapters,  \* provider |-> its adapter
  wire,      \* provider |-> what its service answered, None before
  bill,      \* provider |-> what the service charged, request by request
  receipts,  \* provider |-> the receipt its ProviderRun names, if any
  fetches    \* what the validator fetched, claim by claim

sourceVars == <<adapters, wire, bill, receipts, fetches>>
allVars == <<vars, sourceVars>>

NoText == [tag |-> "no text", text |-> {}]
NotFetched == [tag |-> "not fetched", text |-> {}]
FetchRaised == [tag |-> "aborts", text |-> {}]
Fetched == {[tag |-> "text", text |-> page] : page \in Pages} \cup {NoText}

\* Treg bills what its headers say, and a call without a cost header is free.
ASSUME SourceAssumption ==
  /\ Deployments \subseteq [Providers -> Adapter]
  /\ Responses \subseteq Response /\ Responses # {} /\ None \notin Responses
  /\ \A r \in Responses : /\ r.cost \in Nat => r.cost = r.charge
                          /\ r.cost = NoHeader => r.charge = 0
  /\ {Raises, Aborts} \subseteq Answers
  /\ \A a \in Answers : \A k \in DOMAIN a.claims : a.claims[k] \in DOMAIN Details
  /\ \A d \in Deployments, i \in Providers, r \in Responses :
       AnswerOf(d[i], r) \in Answers
  /\ \A e \in Engines : e.validates
  /\ Judgements = {"accepted", "needs_review", "rejected", "fails"}

SourceInit ==
  /\ Init
  /\ adapters \in Deployments
  /\ wire = [i \in Providers |-> None]
  /\ bill = [i \in Providers |-> <<>>]
  /\ receipts = [i \in Providers |-> None]
  /\ fetches = <<>>

-------------------------------------------------------------------------------
(* The calls.                                                               *)

\* research() ends before anything is sent.
RequestFails(i) ==
  /\ adapters[i].request # "builds"
  /\ FinishCall(i, IF adapters[i].request = "raises" THEN Raises ELSE Aborts)
  /\ UNCHANGED sourceVars

\* Slip: a request that gets no answer waits for it.
RespondWithoutTimeout(i, r) ==
  /\ call[i] = "running" /\ adapters[i].request = "builds" /\ wire[i] = None
  /\ \/ r.status # "lost" /\ FinishCall(i, AnswerOf(adapters[i], r))
     \/ r.status = "lost" /\ UNCHANGED vars
  /\ wire' = [wire EXCEPT ![i] = r]
  /\ bill' = [bill EXCEPT ![i] = Append(@, r.charge)]
  /\ UNCHANGED <<adapters, receipts, fetches>>

\* The one request is sent, and answered, refused or given up after its
\* timeout; the service charges what it likes.  research() then ends.
Respond(i, r) ==
  /\ adapters[i].request = "builds"
  /\ FinishCall(i, AnswerOf(adapters[i], r))
  /\ wire' = [wire EXCEPT ![i] = r]
  /\ bill' = [bill EXCEPT ![i] = Append(@, r.charge)]
  /\ UNCHANGED <<adapters, receipts, fetches>>

\* The run keeps the metadata of an output it accepts, and the text of an
\* error: the output of a provider that overspends is dropped, receipt and all.
ReceiptKept(i) ==
  IF wire[i] = None \/ (answer[i].tag = "output" /\ ~ Valid(engine, i, answer[i]))
  THEN None
  ELSE Receipt(adapters[i], wire[i])

Collect ==
  /\ CollectRun
  /\ receipts' = [receipts EXCEPT ![scheduled[cursor]] = ReceiptKept(scheduled[cursor])]
  /\ UNCHANGED <<adapters, wire, bill, fetches>>

-------------------------------------------------------------------------------
(* The validator.                                                           *)

CurrentClaim == runs[cursor].claims[judged + 1]
Validating == pc = "assess" /\ cursor <= NumProviders /\ Assessable(cursor)

\* A claim without anything to look for is not fetched.
Judge(fetched) ==
  /\ Validating
  /\ Assess(Validate(CurrentClaim, fetched))
  /\ fetches' = Append(fetches, IF Targets(CurrentClaim) = {} THEN NotFetched ELSE fetched)
  /\ UNCHANGED <<adapters, wire, bill, receipts>>

\* fetch raises a BaseException, which validate lets through.
FetchAborts ==
  /\ Validating /\ Targets(CurrentClaim) # {}
  /\ ValidatorFails
  /\ fetches' = Append(fetches, FetchRaised)
  /\ UNCHANGED <<adapters, wire, bill, receipts>>

-------------------------------------------------------------------------------

\* The steps of the engine that concern neither a service nor a page.
EngineStep ==
  /\ \/ Admit \/ EndPlan \/ Submit \/ EndSubmit
     \/ CollectAbort \/ EndCollect \/ Unwind
     \/ NextRun \/ Return \/ ReportFails
  /\ UNCHANGED sourceVars

Thread == EngineStep \/ Collect \/ (\E fetched \in Fetched : Judge(fetched)) \/ FetchAborts
Start == StartCall /\ UNCHANGED sourceVars
Conclude(i) == RequestFails(i) \/ \E r \in Responses : Respond(i, r)
Rest == Over /\ UNCHANGED allVars

SourceNext == Thread \/ Start \/ (\E i \in Providers : Conclude(i)) \/ Rest

\* The calling thread waits for a future, or for the whole pool: the states
\* besides Over in which Thread is not enabled.
Blocked ==
  IF pc = "collect" /\ cursor <= Len(scheduled)
  THEN call[scheduled[cursor]] # "finished"
  ELSE pc \in {"collect", "unwind"} /\ ~ PoolIdle

\* Treg's client, Keenable and the search engines send with a timeout, so that
\* every call ends; Scrapefold is taken to return as well.  The first conjunct
\* is WF_allVars(Thread) with its enabling condition written out, for computing
\* ENABLED would build the whole report.
SourceFairness ==
  /\ []<>(Over \/ Blocked) \/ []<><<Thread>>_allVars
  /\ WF_allVars(Start)
  /\ \A i \in Providers : WF_allVars(Conclude(i))

SourceSpec == SourceInit /\ [][SourceNext]_allVars
SourceFairSpec == SourceSpec /\ SourceFairness
-------------------------------------------------------------------------------
(* Properties.                                                              *)

FetchLog == Fetched \cup {NotFetched, FetchRaised}

SourceType ==
  /\ adapters \in Deployments
  /\ wire \in [Providers -> Responses \cup {None}]
  /\ bill \in [Providers -> Seq(Nat)]
  /\ DOMAIN receipts = Providers
  /\ fetches \in Seq(FetchLog)

\* A request is answered and charged once, by a call that then ends the way the
\* adapter says.
CallInv ==
  \A i \in Providers :
    IF wire[i] = None
    THEN bill[i] = <<>> /\ (answer[i] # None => answer[i] \in {Raises, Aborts})
    ELSE /\ call[i] = "finished"
         /\ bill[i] = <<wire[i].charge>>
         /\ answer[i] = AnswerOf(adapters[i], wire[i])

\* Each assessment has its fetch; one more is the fetch that tore the run down.
FetchInv ==
  \/ Len(fetches) = Len(assessments)
  \/ /\ Len(fetches) = Len(assessments) + 1
     /\ fetches[Len(fetches)] = FetchRaised
     /\ pc = "raised"

\* A run is recorded once, from the answer of its call, together with the
\* receipt of that very call; a completed result is one of succeeded runs.
ReceiptInv ==
  /\ \A i \in Providers :
       runs[i] \notin {None, Skipped} =>
         /\ answer[i] # None
         /\ runs[i] = Outcome(engine, i, answer[i])
         /\ receipts[i] = ReceiptKept(i)
  /\ \A i \in Admitted : runs[i] # Skipped
  /\ pc = "plan" => \A i \in Providers : i >= cursor => runs[i] = None
  /\ result # None =>
       /\ pc = "returned"
       /\ result.status = "completed" => \A i \in Providers : runs[i].status = "succeeded"

\* The texts a claim asserts, spelling by spelling, and those of them a reader
\* who minds neither case nor blanks sees on a page.
Asserted(c) ==
  {Strip[AsText[v]] : v \in {c.value} \cup (IF WithDetails THEN Details[c] ELSE {})} \ {Blank}
Legible(c, page) ==
  {t \in Asserted(c) : CaseFold[t] \in {CaseFold[other] : other \in page}}

\* What is on a page suffices for a claim: the required share, and not nothing.
Suffices(page, c) ==
  /\ Legible(c, page) # {}
  /\ 100 * Cardinality(Legible(c, page)) >= MinCoverage * Cardinality(Asserted(c))

\* The verdicts on record are those of the pages on record: what is accepted was
\* there to be read, and an unreadable page left its claim to a person.
VerdictInv ==
  \A k \in DOMAIN assessments :
    LET claim == assessments[k].claim
    IN  /\ assessments[k].verdict = "accepted" =>
             fetches[k].tag = "text" /\ Suffices(fetches[k].text, claim)
        /\ fetches[k].tag = "no text" => assessments[k].verdict = "needs_review"

\* A claim is accepted only with its page read: something of what it asserts is
\* there and, under the default threshold, all of it.
AcceptedIsRead ==
  \A k \in DOMAIN assessments :
    LET claim == assessments[k].claim
    IN  assessments[k].verdict = "accepted" =>
          /\ fetches[k].tag = "text"
          /\ \E t \in Candidates(Targets(claim)) : Occurs(t, fetches[k].text)
          /\ MinCoverage = 100 =>
               \A t \in Candidates(Targets(claim)) : Occurs(t, fetches[k].text)

\* Whatever the services and the pages do, requests, charges, answers, receipts
\* and fetches stay in step with the calls and the assessments of the engine.
SourceInv ==
  SourceType /\ CallInv /\ FetchInv /\ ReceiptInv /\ AcceptedIsRead /\ VerdictInv

\* The composition raises only for a BaseException of a provider or of fetch,
\* or for a value without canonical text.
RaisesOnlyWhenTorn ==
  pc = "raised" =>
    \/ \E i \in Launched : answer[i] # None /\ answer[i].tag = "aborts"
    \/ fetches # <<>> /\ fetches[Len(fetches)] = FetchRaised
    \/ \E k \in DOMAIN assessments : assessments[k].claim.value \in Unencodable

\* A page that cannot be read costs neither the run nor its claim: the run
\* returns, and the field of the claim goes to a person, whatever else is known.
FetchFailureContained ==
  /\ RaisesOnlyWhenTorn
  /\ result # None =>
       \A k \in DOMAIN assessments :
         fetches[k].tag = "no text" =>
           /\ Strip[assessments[k].claim.field] \in ToSet(result.review)
           /\ \E c \in Kept : c = assessments[k].claim

\* "This adapter closes that gap": an attribute of the result that is not up
\* for review quotes a claim of which, when its own page was fetched again, at
\* least the required share was there to be read.
SettledIsGrounded ==
  result # None =>
    \A name \in DOMAIN result.attributes :
      \/ name \in ToSet(result.review)
      \/ \E k \in DOMAIN assessments :
           LET c == assessments[k].claim
           IN  /\ Strip[c.field] = name
               /\ result.attributes[name].value = c.value
               /\ result.attributes[name].url = c.url
               /\ fetches[k].tag = "text" /\ Suffices(fetches[k].text, c)

\* Nobody pays twice, or for a provider that was passed over.
PaidOnce ==
  \A i \in Providers :
    /\ Len(bill[i]) <= 1
    /\ bill[i] # <<>> => i \in Admitted

\* All that was paid for is in the result: the answer came, every row of it
\* could be read, and every claim made of it was assessed.
UsedInFull(i) ==
  /\ wire[i] # None /\ wire[i].mapper = "maps"
  /\ \/ wire[i].status = "ok"
     \/ adapters[i].kind = "keenable" /\ wire[i].status = "pending"
  /\ adapters[i].kind \in {"treg", "keenable"} => wire[i].json
  /\ adapters[i].kind = "keenable" => wire[i].rows
  /\ \A c \in ToSet(wire[i].claims) :
       \E k \in DOMAIN assessments :
         assessments[k].provider = i /\ assessments[k].claim = c

\* "ProviderRun.metadata retains the ... call ID ... and actual cost" and
\* pending tasks "report their call ID and are not resubmitted": every charge
\* of a succeeded Treg run is in its receipt to the unit, a pending task can be
\* polled, and a completed result leaves no Treg charge unexplained and, of no
\* adapter, an answer lost or used in part.
ChargesTraceable ==
  /\ PaidOnce
  /\ result # None =>
       \A i \in {j \in Providers : adapters[j].kind = "treg"} :
         /\ bill[i] # <<>> /\ wire[i].status = "pending" =>
              receipts[i] # None /\ receipts[i].call = wire[i].call
         /\ runs[i].status = "succeeded" \/ result.status = "completed" =>
              receipts[i] # None /\ bill[i] = <<receipts[i].cost>>
  /\ result # None /\ result.status = "completed" => \A i \in Providers : UsedInFull(i)
===============================================================================
