------------------------------ MODULE SearchFanout ------------------------------
(***************************************************************************)
(* search() of search/api.py: select engines, ask them all concurrently     *)
(* (asyncio.gather), skip those that fail, fuse the answers of the others,  *)
(* truncate.  The engines are tasks of one event loop: they settle one at a *)
(* time, in any order.                                                      *)
(***************************************************************************)
EXTENDS SearchEngines

CONSTANTS
  Questions,   \* what is asked: [engines, count, keys]; see requested and the like
  Offers,      \* what the services may answer: Offers[requested engines][engine]
  Pending, None

ASSUME SearchAssumption ==
  /\ Questions \subseteq
       [engines : DOMAIN Offers, count : Nat, keys : SUBSET ToSet(Registry)]
  /\ \A names \in DOMAIN Offers :
       /\ names \in Seq(ToSet(names))
       /\ \A engine \in ToSet(Registry) :
            Offers[names][engine] \subseteq
              {r \in ServiceResponse : r.kind = "page" <=> engine = "duckduckgo"}
  /\ Pending \notin Seq(Hit) \cup {Failed}
  /\ None \notin ServiceResponse

VARIABLES
  requested,   \* opts.engines; <<>> stands for None and ()
  count,       \* opts.count
  keys,        \* engines whose API key is configured
  pc,          \* "select" | "gather" | "returned" | "raised" | "cancelled"
  engines,     \* the engines asked, in order
  responses,   \* history: per engine asked, what its service answered
  outcomes,    \* per engine asked: Pending, Failed or its hits
  settled,     \* history: indices of engines in the order they settled
  result       \* the list of SearchResults

question == <<requested, count, keys>>
vars == <<question, pc, engines, responses, outcomes, settled, result>>

Init ==
  /\ \E q \in Questions : requested = q.engines /\ count = q.count /\ keys = q.keys
  /\ pc = "select"
  /\ engines = <<>> /\ responses = <<>> /\ outcomes = <<>> /\ settled = <<>>
  /\ result = None

\* Slip: an unknown name is not skipped.
InstancesOfAll(names) == [n \in DOMAIN names |-> ResolveAlias(names[n])]

\* _instantiate: unknown names are skipped.
Instances(names) ==
  Comprehend([name \in {n \in ToSet(names) : Known(n)} |-> ResolveAlias(name)], names)

\* is_available
Available(engine) == RequiresKey(engine) => engine \in keys

Keyless == <<"duckduckgo">>

\* _select_engines.  Explicit names are taken whether or not their key is there.
SelectEngines ==
  LET named == IF requested # <<>> THEN Instances(requested)
               ELSE Comprehend([e \in {n \in ToSet(Registry) : Available(n)} |-> e],
                               Instances(Registry))
  IN  IF named # <<>> THEN named ELSE Instances(Keyless)

Select ==
  /\ pc = "select"
  /\ pc' = "gather"
  /\ engines' = SelectEngines
  /\ responses' = [i \in DOMAIN SelectEngines |-> None]
  /\ outcomes' = [i \in DOMAIN SelectEngines |-> Pending]
  /\ UNCHANGED <<question, settled, result>>

Unsettled == {i \in DOMAIN outcomes : outcomes[i] = Pending}

Settle(i, outcome) ==
  /\ pc = "gather" /\ i \in Unsettled
  /\ outcomes' = [outcomes EXCEPT ![i] = outcome]
  /\ settled' = Append(settled, i)
  /\ UNCHANGED <<question, pc, engines, result>>

\* The service answers.  TregClient cannot even be built without its token.
Answer(i, response) ==
  /\ engines[i] = "treg" => "treg" \in keys
  /\ Settle(i, Read(engines[i], response, count))
  /\ responses' = [responses EXCEPT ![i] = response]

\* _search raises (wrapped by SearchEngine.search) or the task is cancelled:
\* gather(return_exceptions=True) makes either an outcome.
EngineFails(i) ==
  /\ Settle(i, Failed)
  /\ UNCHANGED responses

AllSettled == pc = "gather" /\ Unsettled = {}

\* per_engine[NAME] = hits: one entry per engine, the later answer of an
\* engine that was asked twice replacing the earlier one in its place.
Record(lists, answer) ==
  IF \E n \in DOMAIN lists : lists[n].engine = answer.engine
  THEN [n \in DOMAIN lists |->
          IF lists[n].engine = answer.engine THEN answer ELSE lists[n]]
  ELSE Append(lists, answer)

Merge(answers) ==
  FoldLeft(LAMBDA lists, answer :
             IF answer.hits = Failed THEN lists ELSE Record(lists, answer),
           <<>>, answers)

\* zip(engines, outcomes)
Gathered ==
  [i \in DOMAIN outcomes |-> [engine |-> engines[i], hits |-> outcomes[i]]]

\* Slip: answers are kept per task, so an engine asked twice counts twice.
PerTask ==
  FoldLeft(LAMBDA lists, answer :
             IF answer.hits = Failed THEN lists ELSE Append(lists, answer),
           <<>>, Gathered)

\* Slip: answers are recorded as they arrive.
PerArrival == Merge([n \in DOMAIN settled |-> Gathered[settled[n]]])

PerEngine == Merge(Gathered)

\* Slip: every list is cut to count before it is fused.
SearchResultsOfCutLists ==
  UpTo(count, Fuse([n \in DOMAIN PerEngine |->
                      [PerEngine[n] EXCEPT !.hits = UpTo(count, @)]]))

\* fused[:count]
SearchResults ==
  UpTo(count, Fuse(PerEngine))

Return ==
  /\ AllSettled /\ PerEngine # <<>> /\ CanFuse(PerEngine)
  /\ pc' = "returned"
  /\ result' = SearchResults
  /\ UNCHANGED <<question, engines, responses, outcomes, settled>>

\* Slip: one failed engine fails the search.
RaiseOnAnyFailure ==
  /\ AllSettled /\ \E i \in DOMAIN outcomes : outcomes[i] = Failed
  /\ pc' = "raised"
  /\ UNCHANGED <<question, engines, responses, outcomes, settled, result>>

\* SearchEngineError("search", "all search engines failed")
AllEnginesFailed ==
  /\ AllSettled /\ PerEngine = <<>>
  /\ pc' = "raised"
  /\ UNCHANGED <<question, engines, responses, outcomes, settled, result>>

\* The fusion raises on a URL; nothing in search() catches that.
FusionFails ==
  /\ AllSettled /\ PerEngine # <<>> /\ ~ CanFuse(PerEngine)
  /\ pc' = "raised"
  /\ UNCHANGED <<question, engines, responses, outcomes, settled, result>>

\* The task running search() is cancelled (a timeout of the caller): gather
\* cancels its engines.
Cancel ==
  /\ pc = "gather" /\ engines # <<>>
  /\ pc' = "cancelled"
  /\ UNCHANGED <<question, engines, responses, outcomes, settled, result>>

Done == pc \in {"returned", "raised", "cancelled"} /\ UNCHANGED vars

Next ==
  \/ Select
  \/ \E i \in Unsettled :
       EngineFails(i) \/ \E response \in Offers[requested][engines[i]] : Answer(i, response)
  \/ Return \/ AllEnginesFailed \/ FusionFails \/ Cancel \/ Done

Spec == Init /\ [][Next]_vars

-------------------------------------------------------------------------------
(* What a search promises, stated over the outcomes and without the loops.  *)

TypeOK ==
  /\ [engines |-> requested, count |-> count, keys |-> keys] \in Questions
  /\ pc \in {"select", "gather", "returned", "raised", "cancelled"}
  /\ pc = "select" => engines = <<>>
  /\ engines \in Seq(ToSet(Registry))
  /\ responses \in [DOMAIN engines -> ServiceResponse \cup {None}]
  /\ outcomes \in [DOMAIN engines -> Seq(Hit) \cup {Pending, Failed}]
  /\ settled \in Seq(DOMAIN engines)

\* Only engines of the registry are asked.  What counts as the answer of one
\* is what it makes of the answer of its own service, whatever settled in
\* between, and the search ends only when all have settled: with the fusion of
\* their answers, or because there is none.
IInv ==
  /\ TypeOK
  /\ ToSet(settled) = {i \in DOMAIN outcomes : outcomes[i] # Pending}
  /\ \A i \in DOMAIN outcomes :
       IF responses[i] = None THEN outcomes[i] \in {Pending, Failed}
       ELSE /\ responses[i] \in Offers[requested][engines[i]]
            /\ outcomes[i] = Read(engines[i], responses[i], count)
  /\ pc \in {"returned", "raised"} => Unsettled = {}
  /\ pc = "returned" =>
       PerEngine # <<>> /\ CanFuse(PerEngine) /\ result = SearchResults
  /\ pc = "raised" => PerEngine = <<>> \/ ~ CanFuse(PerEngine)

\* The answers that count: of an engine asked more than once, the last one
\* that is not a failure.
Counted ==
  { Gathered[i] : i \in
      {j \in DOMAIN outcomes :
         /\ outcomes[j] # Failed
         /\ \A l \in DOMAIN outcomes :
              l > j /\ engines[l] = engines[j] => outcomes[l] = Failed} }

\* Where a page is listed: by which engine, at which position, with which hit.
Places(key) ==
  UNION { {[engine |-> answer.engine, position |-> p, hit |-> answer.hits[p]] :
             p \in {q \in DOMAIN answer.hits : NormalizeUrl(answer.hits[q].url) = key}} :
          answer \in Counted }

Pages == UNION { {NormalizeUrl(h.url) : h \in ToSet(answer.hits)} : answer \in Counted }

Score(key)   == SumFunction([place \in Places(key) |-> Contribution(place.position)])
Voters(key)  == {place.engine : place \in Places(key)}
Weight(key)  == <<-Score(key), -Cardinality(Voters(key))>> \o key

\* Neither addition has more than two terms, so doubles add up exactly alike.
Comparable(k, l) ==
  Score(k) = Score(l) => Cardinality(Places(k)) <= 2 /\ Cardinality(Places(l)) <= 2

\* The ranking is exact: the pages returned are distinct, each carries the sum
\* of its contributions, explained engine by engine, they are as many as asked
\* for and found, in order, and no page left out should have come before one
\* that was returned -- truncation happens after fusion, never before.
RankingExact ==
  pc = "returned" =>
    LET key(r) == NormalizeUrl(result[r].url)
        kept   == {key(r) : r \in DOMAIN result}
    IN  /\ Len(result) = Cardinality(kept)
        /\ \/ kept = Pages
           \/ Len(result) = count /\ kept \subseteq Pages
        /\ \A r \in DOMAIN result :
             /\ result[r].score = Score(key(r))
             /\ result[r].score = SumFunction(result[r].breakdown)
             /\ DOMAIN result[r].breakdown = Voters(key(r))
             /\ \A other \in (Pages \ kept) \cup {key(s) : s \in (r + 1)..Len(result)} :
                  Comparable(key(r), other) =>
                    KeyBefore(Weight(key(r)), Weight(other))

\* An engine counts at most once per place it lists a page at, also when the
\* caller names it twice (by its name and by an alias): no engine can give a
\* page more than its own list is worth.
NoEngineCountsTwice ==
  pc = "returned" =>
    \A r \in DOMAIN result : \A e \in DOMAIN result[r].breakdown :
      \E answer \in ToSet(Gathered) :
        /\ answer.engine = e /\ answer.hits # Failed
        /\ result[r].breakdown[e] =
             SumFunction(
               [p \in {q \in DOMAIN answer.hits :
                         NormalizeUrl(answer.hits[q].url) = NormalizeUrl(result[r].url)}
                  |-> Contribution(p)])

\* The URL and the text shown for a page come from hits of that page: the URL
\* from one at its best position, title and snippet the longest.  Which engine settled
\* first plays no part: on a tie it is the engine that was named first.
ShownFromBestHit ==
  pc = "returned" =>
    \A r \in DOMAIN result :
      LET places == Places(NormalizeUrl(result[r].url))
          rank(place) == Min({i \in DOMAIN outcomes :
                                engines[i] = place.engine /\ outcomes[i] # Failed})
          first == CHOOSE place \in places :
                     \A other \in places \ {place} :
                       \/ place.position < other.position
                       \/ place.position = other.position /\ rank(place) < rank(other)
      IN  /\ result[r].url = first.hit.url
          /\ result[r].title = Max({place.hit.title : place \in places})
          /\ result[r].snippet = Max({place.hit.snippet : place \in places})

\* The ranking does not depend on the order in which the engines are named:
\* the pages, their scores and, but for ties of long sums, which of two pages
\* comes first are the same for every order of the engines' lists.
RankingOrderFree ==
  pc = "returned" =>
    LET scored(fused) == {<<NormalizeUrl(f.url), f.score, f.breakdown>> : f \in ToSet(fused)}
        before(fused) ==
          {pair \in Pages \X Pages :
             /\ Comparable(pair[1], pair[2])
             /\ \E r, t \in DOMAIN fused :
                  /\ r < t /\ NormalizeUrl(fused[r].url) = pair[1]
                  /\ NormalizeUrl(fused[t].url) = pair[2]}
    IN  \A lists \in SetToSeqs(ToSet(PerEngine)) :
          /\ scored(Fuse(lists)) = scored(Fuse(PerEngine))
          /\ before(Fuse(lists)) = before(Fuse(PerEngine))

\* A search fails only for a reason: every engine failed, or an answer that
\* counts has a URL that cannot be parsed.  A failing engine costs its own
\* results and nothing else.
FailureExplained ==
  /\ pc = "raised" =>
       \/ \A i \in DOMAIN outcomes : outcomes[i] = Failed
       \/ \E answer \in Counted : \E h \in ToSet(answer.hits) : ~ h.url.ok
  /\ pc = "returned" =>
       /\ Counted # {}
       /\ \A answer \in Counted : \A h \in ToSet(answer.hits) : h.url.ok

-------------------------------------------------------------------------------
(* What an engine may make of the answer of its service, row by row and     *)
(* anchor by anchor.                                                        *)

\* A bad row costs itself and nothing else: it neither fails the engine nor
\* ends its list, and the rows after it move up, with their own texts.  But
\* for an engine that cuts, it has taken one of the count places.
BadRowCostsItself ==
  \A i \in DOMAIN responses :
    responses[i] # None /\ responses[i].kind = "rows" =>
      LET rows == responses[i].rows
          used == {r \in DOMAIN rows :
                     /\ rows[r].object /\ rows[r].url # NoUrl
                     /\ engines[i] = "treg" => rows[r].str
                     /\ engines[i] \in Cutting => r <= count}
          at(r) == outcomes[i][Cardinality({s \in used : s <= r})]
      IN  /\ outcomes[i] # Failed /\ Len(outcomes[i]) = Cardinality(used)
          /\ \A r \in used :
               /\ at(r).url = rows[r].url
               /\ at(r).title \in {0, rows[r].title}
               /\ at(r).snippet \in {0, rows[r].snippet}

\* What is open before the t-th token of a page: a title anchor that no end
\* closed, and a snippet anchor that only ends of titles passed by.
InTitle(page, t) ==
  \E o \in 1..(t - 1) : /\ page[o].kind = "title"
                        /\ \A e \in (o + 1)..(t - 1) : page[e].kind # "end"
ClosesTitle(page, t) == page[t].kind = "end" /\ InTitle(page, t)
InSnippet(page, t) ==
  \E o \in 1..(t - 1) :
    /\ page[o].kind = "snippet"
    /\ \A e \in (o + 1)..(t - 1) : page[e].kind = "end" => ClosesTitle(page, e)
ClosesSnippet(page, t) == page[t].kind = "end" /\ ~ InTitle(page, t) /\ InSnippet(page, t)

\* The anchor that is open, and the text in it: a title takes the text of a
\* snippet it stands in.
LastOf(page, kind, t) == Max({o \in 1..(t - 1) : page[o].kind = kind})
HrefAt(page, t) == page[LastOf(page, "title", t)].href
Text(page, places) ==
  SumFunction([d \in {o \in places : page[o].kind = "data"} |-> page[d].text])
TitleText(page, t) ==
  Text(page, {d \in LastOf(page, "title", t)..(t - 1) : InTitle(page, d)})
SnippetText(page, t) ==
  Text(page, {d \in LastOf(page, "snippet", t)..(t - 1) : ~ InTitle(page, d)})

\* The URL an anchor leads to: a redirect to the target its query names, which
\* is href.url since a query is decoded once; NoUrl if the anchor names none.
Target(href) ==
  IF href.form = "relative" THEN [href.url EXCEPT !.scheme = Https] ELSE href.url

\* No redirect, or one whose target decoding does not change again.
Literal(href) ==
  href.form = "redirect" => Unquote[href.url.path] = href.url.path

\* The snippets with a text closed after t and before the next title of kept,
\* and the text of the first.
SnippetsAfter(page, kept, t) ==
  {s \in (t + 1)..Len(page) :
     /\ ClosesSnippet(page, s) /\ SnippetText(page, s) > 0
     /\ \A u \in kept : ~ (t < u /\ u < s)}
SnippetAt(page, kept, t) ==
  LET snippets == SnippetsAfter(page, kept, t)
  IN  IF snippets = {} THEN 0 ELSE SnippetText(page, Min(snippets))

\* A results page is read as written, however its anchors are nested or left
\* open: one hit for each closed title that names a target, in page order,
\* with the text inside its anchor and the first non-empty snippet closed
\* after it and before the next such title - also when that snippet stood
\* under a title without a target.  It has the URL the title leads to, but for
\* the redirects RedirectsResolved is about.  A title urlparse rejects empties
\* the page.
PageReadExactly ==
  \A i \in DOMAIN responses :
    responses[i] # None /\ engines[i] = "duckduckgo" =>
      LET page   == responses[i].tokens
          closed == {t \in DOMAIN page : ClosesTitle(page, t)}
          kept   == {t \in closed : Target(HrefAt(page, t)) # NoUrl}
          place(t) == Cardinality({u \in kept : u <= t})
      IN  IF \E t \in closed : HrefAt(page, t).form = "broken"
          THEN outcomes[i] = <<>>
          ELSE /\ Len(outcomes[i]) =
                    IF count < Cardinality(kept) THEN count ELSE Cardinality(kept)
               /\ \A t \in kept : place(t) <= count =>
                    LET hit  == outcomes[i][place(t)]
                        href == HrefAt(page, t)
                    IN  /\ hit.title = TitleText(page, t)
                        /\ hit.snippet = SnippetAt(page, kept, t)
                        /\ Literal(href) => hit.url = Target(href)

\* The docstring of _unwrap_ddg: a redirect is resolved "to the real target
\* URL", so every hit of a page has the URL one of its titles leads to.
RedirectsResolved ==
  \A i \in DOMAIN responses :
    responses[i] # None /\ engines[i] = "duckduckgo" =>
      LET page == responses[i].tokens
      IN  \A hit \in ToSet(outcomes[i]) :
            \E t \in DOMAIN page : ClosesTitle(page, t) /\ hit.url = Target(HrefAt(page, t))

\* The docstring of search/api.py: engines that error are skipped; the search
\* only fails if every engine fails.
FailsOnlyIfAllFail ==
  pc = "raised" => \A i \in DOMAIN outcomes : outcomes[i] = Failed
===============================================================================
