# Enrichfold: specifications, checks and proofs

Enrichfold turns what independent providers claim about a company or a person
into decisions that are either safe to act on or marked for review. This
directory holds TLA+ models of its core, TLC runs over small instances and
TLAPS proofs that hold for every size.

## The system

| Component | State it keeps | Operations | Where |
|---|---|---|---|
| Data contracts | none (frozen dataclasses) | validation in `__post_init__`, `canonical_value` | `models.py` |
| Reconciliation | none | `reconcile_claims`: group, elect, list alternatives | `pipeline.py` |
| Enrichment pipeline | claims so far | `enrich`: providers in turn, then reconcile | `pipeline.py` |
| Research engine | reservation total, futures, runs, assessments | `run`: admit, submit, collect, assess, report | `research.py` |
| Grounding validator | none; calls a `fetch` | `validate(claim)`: verdict of one claim | `grounding.py` |
| Company identity | none | `derive_company_identity`, `deriveCompanyIdentity` | `identity.py`, `packages/node` |
| Search fan-out | results per engine | `search`: concurrent engines, fusion, truncation | `search/api.py` |
| Rank fusion | scores per URL | `reciprocal_rank_fusion` | `search/fusion.py` |
| Search engines | none (one HTML parser state machine) | `search` of one engine | `search/engines/` |
| Treg client | none; paid calls on the other side | `call`, receipts, pending answers | `treg.py` |
| Keenable, Scrapefold | none | adapters from an entity to claims | `keenable.py`, `scrapefold.py` |

How they interact. A caller configures a `ResearchEngine` with provider specs,
a budget and perhaps a validator (the grounding validator is one) and calls
`run`. The engine calls the providers (the adapters are such providers) on the
threads of a `ThreadPoolExecutor`, calls the validator on its own thread for
every claim, and ends with `reconcile_claims`. `EnrichmentPipeline` is the
older orchestrator: sequential, no budget, no validator, the same
`reconcile_claims`. The identity gates stand beside both; the TypeScript one
is a second implementation of the Python one. The search fan-out is a provider
with concurrency of its own (`asyncio.gather`).

What is hard: providers that finish in any order, fail, overspend or tear the
run down; a budget that must be settled before anything runs; decisions that
must not depend on the order of arrival; one step of many failing; two
implementations of one decision table. PROJECT.json lists each such place with
its line under `hazards`.

What makes each component correct:

- *Reconciliation*: accepted exactly when all claims of a field agree and one
  was observed; no asserted value lost; nothing depends on order but the
  observation date of a full tie; a conflict never disappears.
- *Research engine*: never more reserved than the maximum, at any exit no call
  left behind, ordinary failures are run outcomes, the result is a function of
  answers and verdicts, `completed` is never said too early.
- *Pipeline*: result traceable to evidence, requests accounted for.
- *Identity*: verified only if mailbox, website and name (or same-domain site
  metadata) corroborate each other, never for a free mailbox; the gates agree;
  the gate always answers.
- *Fan-out and fusion*: one engine's failure costs only its results, every
  returned page carries the exact and explained score, truncation comes last,
  neither the order of settlement nor the order of the engines decides.
- *Search engines*: a malformed row costs itself only; a scraped page is read as
  it is written, however its anchors are nested or left open.
- *Grounding*: a claim counts only if its page was fetched again and enough of
  what the claim asserts was on it; a page that cannot be read costs neither
  the run nor the claim, which goes to a person.
- *Adapters and their services*: a request is sent once and charged once, it
  ends whatever the service does, the Treg charges of a completed result can be
  traced to their receipts, and a completed result has lost no part of an answer.

## The modules

```
Reconciliation            pure reconcile_claims            (models.py, pipeline.py)
    ReconciliationProofs  on FoldTheorems, used by every proof module below it
  ClaimReview             the loops of reconcile_claims, claim by claim
    ClaimReviewProofs
  EnrichmentPipeline      enrich()
    PipelineProofs
  ResearchReport          data of a run and the pure report of research.py
    ResearchContract      what run() promises, without threads
    ResearchEngine        run() with its pool; implements ResearchContract
      ResearchEngineProofs      the run, its result, and that it implements
                                the contract
Grounding                 pure GroundingValidator          (grounding.py)
ProviderAdapters          the adapters and their services  (treg.py, keenable.py,
                                                 scrapefold.py, search/provider.py)
  GroundedResearch        ResearchEngine with adapters, services and validator
    GroundedResearchProofs      on ResearchEngineProofs
IdentityInputs            domains, inputs, early-return chains
  PythonIdentity, NodeIdentity      the two gates
    IdentityGates         the same question to both
      IdentityProofs
Fusion                    pure reciprocal_rank_fusion      (search/fusion.py)
  SearchEngines           registry, rows, DuckDuckGo page  (search/engines/)
    SearchFanout          search() and its concurrent engines (search/api.py)
      SearchProofs        the fusion, the rows, and what a search returns
FoldTheorems              what a fold over a sequence or a set computes
```

`MC*.tla` modules only give constants their values. Definitions that start
with "Slip:" are wrong on purpose: each is a plausible bug of the definition
below it, PROJECT.json `mutants` names it, and with it in place of the real
definition TLC finds the named property violated.

**Reconciliation.** A claim is a record `[field, value, kind, conf, url, at]`.
Python compares confidences, URLs and canonical JSON texts only by order, so
they are numbers; `Strip` and `Canonical` are constants that say what
`str.strip` and `canonical_value` do (several values may share a canonical
text, as a date and its string do, because of `default=str`), `Unencodable` is
the set of values `json.dumps(sort_keys=True)` raises on. `Rank`, `Best`,
`Representatives`, `Resolve` and `ReconcileClaims` follow `_rank` and
`reconcile_claims`; `Dedupe` is `_dedupe`. The loops are folds: `Where` filters,
`Sorted` inserts one claim after the other where it belongs, which is what a
stable sort amounts to.

**ClaimReview.** The loops of `reconcile_claims`: `Take` files the next claim of
the iterable in `by_field` (a dict: `order` is its insertion order, `byField` its
lists), `Return` resolves every list into `fields`. `claims` is a history variable.
`FiledByField` is the loop invariant that ties these to `ReconcileClaims`. Since the
iterable may end after any claim, `ReconcileClaims(claims)` is what the call returns
if it ends here: the invariants are about that value, the action properties about
what one claim more makes of it.

**EnrichmentPipeline.** `pc`, `provider`, `claims`, `result` are the locals of
`enrich`; `discovered` is a history variable. `Discover` is one turn of the
inner loop, `Fail` any exception of a provider or its iterator or of `Claim`.

**ResearchEngine.** `pc` and `cursor` are the calling thread: `plan` (`Admit`,
lines 206-216), `submit` (220-221), `collect` (222-240), `unwind` (a
`BaseException` leaving the `with` block), `assess` (246-255), `returned`,
`raised`. `queue` and `call` are the executor, modelled from its use: a FIFO
queue served by at most `Workers` threads; leaving the `with` block waits for
`PoolIdle`. `FinishCall(i, a)` lets a provider answer anything in `Answers` at
any time: an output, a value that is no `ProviderOutput` (`garbage`), an
exception (`raises`), a `BaseException` (`aborts`). `runs`, `assessments` and
`reserved` are the locals of the same names; `judged` is the position in the
inner loop. `Report` is lines 257-299. Float units are natural numbers or
`NaN`: sums with `NaN` are `NaN`, comparisons with it are false.

**ResearchContract.** The same run seen from outside: which providers are
asked follows from the reservations alone (`Booked`), they reply in any order,
claims are judged in provider order (`Docket`), then one `Deliver` or `Raise`.
`ResearchEngine!ImplementsContract` is the refinement; the mapping hides `pc`,
`cursor`, `queue`, `call`, `runs`, `scheduled` and maps `outcome` to `pc` once
the run is over.

**PythonIdentity, NodeIdentity.** A domain is its sequence of labels; a label
is plain, short, international or bad, which is what the two patterns
distinguish. A website is a host and a shape (padded, blank, other scheme,
impossible port, unparsable). Each decision table is a chain of rows, first
match wins, in the order of the code's early returns. `Corroborated` says without
the gates' helpers what a verified decision rests on: a mailbox on no free list in
one domain with the host of the website if one was given, and a name that is the domain's (the
domain being that name and a top-level label) or that of a site in the same
domain as the website.

**Grounding.** Pure. A page is the set of the texts that occur in it, which is
what the two substring passes of `find_citations` ask of it; `CaseFold` is
`_normalize`, `AsText` is `_as_text`, `Details` the attributes of a claim's
evidence. `Validate` is `validate` once `fetch` has returned text, returned
something else, or raised. The threshold is in per cent; `found > 0` stands for
the coverage of an empty list of candidates being 0, below every threshold.

**ProviderAdapters.** An adapter is its kind, the units it reports and whether
its request can be built. A `Response` is everything a service may do with one
request: answer, refuse, accept without finishing (HTTP 202), or not answer in
time; with a body that is JSON or not, rows or not, receipt headers or not; and
the charge it books, which the client may or may not learn. `AnswerOf` is what
`research()` then amounts to for the engine: an output, an exception or a
`BaseException`. `Receipt` is what the run knows of the charge.

**GroundedResearch.** The composition: `ResearchEngine` unchanged, its
`FinishCall` fed by `RequestFails` and `Respond` instead of by any answer, its
`Assess` fed by the verdict `Validate` gives on a page fetched in that step
(the page may be another one each time). `SettledIsGrounded` counts what a claim asserts by spellings, as the
code does (`grounding.py:87` dedupes before it folds case): two spellings of one
text are two candidates, found together. Weak fairness of the calling thread is
written out with `Blocked`, since the thread waits in two places only. `wire` and `bill` are the services'
side, `receipts` what each `ProviderRun` names, `fetches` the validator's log;
all four are histories that no step of the engine reads. Every step is a step
of the engine or one of the services, so the whole is a refinement of
`ResearchEngine!Spec` by construction of its actions and by proof (`Simulates`).

**SearchEngines.** The registry and what each engine makes of an answer.
`ReadRows` is the loop or comprehension the eleven JSON engines share: which
engines cut before they filter (`Cutting`), which insist on a string URL, which
have no titles or snippets. A page for DuckDuckGo is the sequence of events an
`HTMLParser` reports of it; `Feed` is the parser's three handlers, `UnwrapDdg`
the redirect with its double decoding, `ReadPage` the cut to `count`. `Target`, in
`SearchFanout`, is where an anchor really leads. `PageReadExactly` demands it of every hit but
those of a redirect whose target the second decoding changes (`Literal`);
`RedirectsResolved`, what the docstring says, demands it of these too and is
violated.

**Fusion, SearchFanout.** A URL is a record of the parts `_normalize_url`
looks at, with `ok` FALSE when `urlparse` raises on it; a title is its length.
`Update` is what the body of the loop does to an entry, `Collate` to the dict,
`Aggregate` the loop, `Above` the sort key, `Ordered` the sorted keys.
`SearchFanout` starts with the options and the environment (which engines have
their key); `Select` is `_select_engines`, `Answer` and `EngineFails` are the
two ways `SearchEngine.search` ends as an outcome of `gather`, `Gathered` the
zip of engines and outcomes, `PerEngine` the dict by engine name in which an
engine asked twice overwrites itself (`Merge`, one `Record` after the other).
`settled` is a history variable. The properties are stated over the outcomes
by sums over sets of places (`Score`, `Voters`), not by the loops.

## The runs

| Run | Instance | Shows |
|---|---|---|
| `reconcile` | 9 claims on 2 fields, up to 4 taken | the loops compute the reconciliation; fail closed, nothing lost, order independence, sticky conflicts |
| `pipeline` | 2 providers, 7 pieces of evidence, up to 4 found | `IInv`, traceable results, requests and disagreements accounted for |
| `research_budget` | 3 providers reserving 1, 2 or NaN, maximum 0, 3 or none, 2 threads, 5 answers | budget, admission, no call left behind, `IInv`, termination, every admitted provider is called |
| `research_routing` | 3 providers, 7 answers (an abort and an unencodable value among them), 3 verdicts or a validator that raises, 2 threads | status, review list, ledger, rejected claims, what a run raises for, refinement |
| `grounded` | 2 providers, 2 threads, 4 deployments, 11 ways to answer, 4 pages or none, threshold 50 % | `SourceInv`: calls, charges, receipts and fetches in step; settled means read; charges traceable, answers used in full; termination |
| `identity` | 11 emails, 6 names, 13 websites, 4 sites, 6 list pairs | what verified rests on, where the gates agree |
| `search` | up to 3 engines at once and each engine alone, 1 alias, 1 unknown name, responses of up to 3 rows, pages of up to 5 tokens of every nesting or 3 whole titles and snippets, counts 0, 2, 10 | `IInv`: only registered engines, each counting with its own answer; rows and pages read exactly, exact explained ranking, order freedom, failure isolation |
| `search_fault_isolation` | violation | one malformed URL fails the whole search |
| `research_nan` | violation | a NaN reservation turns the budget off |
| `research_shared_budget` | violation | reserved units of the given budget are ignored |
| `search_redirects` | violation | a redirect is resolved to another URL than its target |
| `identity_answers` | violation | a malformed website raises |

Why the bounds suffice. Four claims contain a winner, a tie, an agreement and
a conflict arriving in every order; three providers are one before, one at and
one after any event of interest (a skip, an abort, a failure), and two threads
with three calls give queueing and overtaking at once; in `grounded`, two calls on two
threads overlap in every way. In `research_budget` the maximum 3 is hit exactly, exceeded and
undercut by the reservations. The identity instance is the full product of one
input of every form the patterns and conditions distinguish. Three engines and three hits
give a page listed by none to all of them, twice in one list, tied at its best
position, and (`K = 1`, 1/2 = 1/4 + 1/4) ties of score with different
consensus. Five tokens are enough for an anchor inside an anchor, an anchor left
open and a snippet under a dropped title. The responses of `grounded` are one of
each outcome the adapters distinguish, with a cost header that is right, absent
and unreadable; its claims have a value that is found, found in another case,
missing while its detail is there (with a page that carries the claim over the
threshold by the detail alone), blank, or without canonical text.
Bounds appear as `MaxClaims`, `MaxEvidence`, `MaxHits`, `MaxRows`, `MaxTokens`
and `MaxPieces`; everything else is finite by itself.
`CHECK_DEADLOCK FALSE` is used where the caller may stop asking: when
`MaxClaims` is reached, and once both gates have answered. A finished run
stutters explicitly (`Stop`), so a deadlock anywhere else is found.

Fairness (`research_budget`, `grounded`). Weak fairness of the calling thread,
of a free pool thread taking a queued call, and of each running provider call
ending. The first two are the operating system's scheduling. The third is an
assumption on the providers in `research_budget`: `future.result()` has no
timeout (`research.py:224`), so without it a run can wait for ever. In
`grounded` it is weak fairness of `Conclude`, and the reason is in the code:
Treg's client (`treg.py:67`), Keenable (`keenable.py:57`) and the search engines
send with a timeout, so even an unanswered request (`lost`) ends. Scrapefold is
called without one (`scrapefold.py:40`) and is taken to return. With a client
that waits for its answer (`RespondWithoutTimeout`), `Terminates` fails.

## The findings

1. `research_nan`: `reserved_units < 0` lets NaN in, and then no comparison
   with the budget is ever true again (`research.py:64`, `208`).
2. `research_shared_budget`: the `reserved_units` of the configured budget are
   never read (`research.py:203`), `remaining_units` notwithstanding.
3. `search_redirects`: a redirect of a results page is decoded twice, by
   `parse_qs` and by `unquote` (`duckduckgo.py:46`), so a target with an escape in
   its own text becomes another URL, against the docstring's "the real target URL".
4. `identity_answers`: `urlsplit` raises on `https://[acme.com` and nothing
   catches it (`identity.py:67`).
5. `search_fault_isolation`: the fusion raises on a hit whose URL is no string
   (TypeError, the trace of the run, with one engine alone) or has an unclosed
   bracket (`https://[foo`, ValueError) at `fusion.py:32`, where no engine is at
   fault any more and nothing is skipped, against the promise of `api.py:5-6`.

Two things to know that no run reports as a violation. The gates are not the "same
gate" of `README.md:340-341` of the repository: they differ in default free mailboxes
(a company called Mail at `mail.ru` is verified by Python only), in replacing or
extending lists, in blank and padded websites, one-letter top labels, international
hosts, impossible ports and names without a slug; `GatesAgreeOnCommonGround` says
where they do agree. And the receipt of a Treg call
is kept by succeeded runs only. `README.md:233-234` of the repository and `docs/index.html:468`
say that the metadata of a run keep it; a call that was billed and then failed
in the client or in the mapper, or overspent its reservation, leaves no call ID
behind. `ChargesTraceable` says what does hold of Treg's charges: succeeded runs,
pending tasks and completed results, provided the service bills what its headers
say. The other services send no receipt; of them it says that a completed result
has used all of every answer.

## The proofs

Everything below holds for every value of the constants: any number of
providers, threads, claims, answers, verdicts, pages, domains, engines, hits and
lists. All safety properties that passing runs check are proved. The runs found the formulas to be true on small instances before they
were proved; `IInv` of the engine is an invariant of `research_budget`, `IInv` of
the pipeline one of `pipeline`, `SourceInv` one of `grounded`, `IInv` of the
search one of `search`.

**FoldTheorems: what loops compute.** The models write the loops of the code as
folds. The library's theorems on recursive functions and on induction take an
operator as argument, which the backends do not instantiate. Here induction is over
*sets* of numbers, sequences or subsets (`NatSetInduction`, `SeqSetInduction`,
`FiniteSubsetInduction`), and the operator of a fold is a constant of the module,
given a value by `INSTANCE`. `FoldAppend` says what one more element does to
`FoldSeq`; `SetFoldAdd` what one more member does to a fold over a set, when
the operator commutes; `FlatStep` what one more list does to `FlattenSeq`. They
are proved from the definitions of the community modules by the existence and
uniqueness of the table of intermediate values.

**ReconciliationProofs** needs only `StripAssumption` (stripping twice is stripping
once, canonical texts compare as numbers).
`WhereKeeps`, `DistinctKeeps`, `SortedSorts` and `BestIsLeast` say what the helpers return.
`RankedOrders` is that `_rank` orders any claims totally but for ties. From these:
`AcceptedIsCorroborated`, `ResolutionIsComplete`, `ChosenOnlyImproves`,
`ReviewFieldsAreOpen`, `AttributesQuote`.

**ClaimReviewProofs** lifts them to any sequence of claims. `LoopsReconcile` proves
the loop invariant `FiledByField`: one more claim changes only the list of its stripped
name, and adds that name to the keys if it is new. `OrderDecidesNothing` is the longest: two orders of the same claims keep the same set of claims
(`ShuffledKeeps`); each resolution keeps one strongest claim per canonical text
(`KeptAreStrongest`), in strictly descending rank (`RankedBySight`); two strongest
claims of a text differ in nothing a reader sees (`TiedLookAlike`); and two strictly ordered
lists of the same things agree place by place (`SameOrder`). Assumption:
`ReviewAssumption`.

**PipelineProofs.** `IInv`: the claims are those of the evidence discovered, and the
result is made of all of them. `TypeOK` says nothing of the link between
evidence and claims, on which all three promises rest (`ResultIsTraced`,
`RequestsAreAccounted`, `DisagreementIsReviewed`). Assumption:
`PipelineAssumption`.

**ResearchEngineProofs.** Assumptions: `ResearchAssumption` (types of the
constants; `None`, `NaN` and `NoLimit` are not numbers or records) and
`WorkersAssumption`. `IInv` has a part per concern.
`TypeOK` alone is not inductive: that a
collected answer is an answer needs `PoolInv` (a call is finished exactly when
it has an answer), and that the claims of a run can be assessed needs `RunsInv`
(no provider is without a run when the runs are put in order - a `KeyError` in
the code). `PlanInv` (admitted in order, so once) makes `Submit` queue each
provider once. `PoolInv` says that the queue holds exactly the queued calls;
with an idle pool every admitted call is then finished, which is
`NoCallOutlivesRun`. `BudgetInv` closes the one path on which the report could
raise for the budget, so `ExitInv` can name every reason to raise.

The other parts relate the state to what came before:
`RecordInv` (what is recorded of a provider is what its answer amounts to),
`BillInv` (the running total is the sum over the admitted providers, a fold
over a set), `LedgerInv` (the assessments so far are a prefix of the claims of the
recorded runs, concatenated in the caller's order), `ResultInv` (the result is the
report of these) and `BookedInv` (the plan so far is the contract's). `BudgetIsHeld` and
`AdmissionIsExact` follow from `BillInv`, `LedgerIsComplete` from `LedgerInv`.

What a run returns: `ReportRoutes` says as sets what the final report
resolves, misses and sends to review, for any log; `StatusesFailClosed` and
`RejectedClaimsUnused` combine it with `IInv`. `EngineImplementsContract` is the
refinement, step by step (`StepsAsContract`): calls that end and claims that are judged
map to the contract's steps; admission, submission, dequeuing and collecting
are stutters; delivery needs that a report is a function of runs and assessments
(`SameReport`), that an idle pool has answered (`IdleMeansAnswered`) and that the
next claim of the inner loop is the next one of the docket (`NextOfDocket`).

**GroundedResearchProofs** is about the deployed engine, for any adapters,
services, pages and threshold:

- `Simulates`: every behaviour of `SourceSpec` is one of the engine's `Spec`
  (each action implies one of the engine's, or leaves its variables alone), so
  `IInv` and the theorems above carry over; `SourceCallsJoined` is one of them.
- `SourceCorrect`: `SourceInv`. Its parts need each other and the engine's
  `IInv`: `CallInv` (a call has its answer from its one response, charged once)
  is kept by `Respond` because a running call has not answered (`PoolInv`);
  `ReceiptInv` (a run is recorded from the answer of that call) is kept by
  `Collect` because what is collected is finished and was admitted once
  (`PlanInv`); `FetchInv` pairs fetches and assessments, and `VerdictInv` says
  that each verdict is the one of its page.
- `AcceptedClaimsRead`: from `AcceptedIsRead`, with the cardinality lemmas of
  `FiniteSetTheorems`: an accepting verdict under a positive threshold means
  that something was found on the page, under the default threshold everything.
- `SettledAreGrounded`: an attribute not up for review quotes a claim whose own
  verdict was `accepted` (`ReportRoutes`), so its page sufficed (`VerdictInv`).
- `FetchFailuresContained`: a page that could not be read left its claim to a
  person, and `ReportRoutes` puts the field on the review list.
- `ChargesAreTraceable`: an output comes of an answer that could be read whole
  (`OutputReadWhole`), and each claim of a recorded run is in the log (`ClaimsFiled`,
  from the engine's `LedgerInv`). `SourceFailuresContained` is part of the induction.

They rest on `SourceAssumption` (the constants fit together; Treg bills what its
headers say, and a call without a cost header is free), `AdaptersAssumption` and
`GroundingAssumption` (a claim asserts finitely many values).

**IdentityProofs.** Each gate is a chain of rows of which the first match answers
(`FirstRow`, `Chain`). A verified answer is therefore the row that verifies, with the
conditions of all rows above it refuted (`PythonVerdict`, `NodeVerdict`);
these conditions are the corroboration promised (`PythonPromise`, `NodePromise`).
`GatesAgree` adds that on common ground both gates see the same domains
(`SameDomains`) under the same pattern (`SamePattern`). Assumptions:
`LabelAssumption`, `DomainAssumption`, `InputAssumption` (an input is any question
over the domains).

**SearchProofs** has five layers, each a fold unfolded by `FoldTheorems`.

- *Fusion.* `AppearancesListed` flattens the lists; `AggregationIsExact` is the
  loop: after any appearances, the dict knows of each page its score, that
  score split by engine (`Tallied`; sums over changing sets, `SumReindex`), the first hit
  at the best position (`FirstBest`) and the longest texts. `OrderedSorts` is the sort:
  the keys are totally ordered, so the number of keys above each tells its place (`RanksSort`).
  `FusionIsExact` puts them together, for lists with one entry per engine.
- *Engines.* `ComprehendKeeps` says what a comprehension keeps and where;
  `RowsCostThemselves` applies it to the rows. `ReadType`: whatever a page or a
  response is made of, it becomes hits or a failure.
- *Pages.* `PagesReadExactly` relates the parser's three flags and its running
  texts to a definition by places in the page. `HasRead` is the invariant of the
  feeding: a flag is up where such an anchor is open (`OpenIn`), the texts are
  those since its last opening, and the results are the hits of the titles kept
  (`HitsOf`). What is open at a place depends on the tokens before it only
  (`PrefixSame`), so one more token changes what `TokenAdvances` and `TokenKeeps`
  say: a closed title adds its hit (`HitsKept`), a closed snippet goes to the
  last one (`HitsSnippet`), all else stays (`HitsUnchanged`). `TargetUnwraps` relates
  the URL the parser takes to the one the anchor leads to.
- *Gathering.* `MergeKeepsLatest`: the dict by engine name holds, for any
  outcomes, each engine's last answer that is no failure, in the order of the
  engines' first such answers.
- *search().* `IInv` adds to the types that an outcome is made of its own
  engine's answer, that `settled` lists what has settled, and that the search
  ends with everything settled and for a reason. `RankingIsExact`,
  `EnginesCountOnce` and `ShownIsBest` restate `FusionIsExact` in the terms of the
  answers that count (`ListsCount`, `ReturnedIsFused`); `RankingIsOrderFree` needs
  in addition that the fusion's facts determine scores and places (`ExactIsUnique`).

Assumptions: `FusionAssumption`, `EnginesAssumption`, `SearchAssumption` (types
of what is asked and offered; a page is what DuckDuckGo answers with, and only
DuckDuckGo). `Contribution` is exact for lists of up to `MaxHits` hits; for
any `MaxHits` there is a `Scale` that makes it so.

**Only model-checked.** Liveness (`Terminates`, `AdmittedIsCalled`): the prover
has no `ENABLED`, which fairness is defined by.

## Not modelled, and why

- Error redaction, metadata, wording of reasons, slugs: no decision depends on
  them (but for an empty slug in the Node gate, which is modelled).
- Float rounding of units and scores. `hazards` names where it bites; the
  fusion properties say nothing of the order of two pages with the same exact
  score when one is listed three times or more, since doubles added in another
  order may then differ in the last bit. For two terms or less addition is
  commutative, and the exact order is the order of the doubles.
- Negative `count` (a slice from the end) and `rrf_k` below 0.
- Search engines: the bodies of requests and the names of JSON fields; titles and
  excerpts that are no strings (a URL that is none is modelled: `str`); a scalar in
  place of a list. Engines a caller adds with `register()`.
- Grounding: which text occurs inside which (substrings, so a value such as `5`
  is found almost anywhere); the double division of the coverage, which agrees
  with the exact comparison for the thresholds in per cent and the few values of
  a claim that are checked.
- Services: request bodies, the order in which a client refuses its arguments,
  the upstream name in a receipt. Constructors of adapters that raise before
  there is a run.
- `enrichfold/__init__.py`: re-exports, no behaviour.

## Plan

Done: all components above, from reconciliation to the adapters and their
composition with the engine; the proofs of reconciliation, claim review, pipeline,
research engine with its contract, deployed engine, identity gates and search.

Left: double addition in the fusion (ties decided by the last bit).
