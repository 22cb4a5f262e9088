----------------------------- MODULE SearchEngines -----------------------------
(***************************************************************************)
(* search/engines: the registry, and what each engine makes of the answer   *)
(* of its service.  Eleven engines read rows of JSON, DuckDuckGo scrapes a  *)
(* page with an HTMLParser.  All of it is pure: the requests and their      *)
(* failures belong to SearchFanout.                                         *)
(***************************************************************************)
EXTENDS Fusion

CONSTANTS
  Unquote,   \* path of a URL |-> the path unquote makes of it
  NoUrl,     \* no URL, or an empty one
  Failed     \* the engine raises

ASSUME EnginesAssumption ==
  /\ Unquote \in [Paths -> Paths]
  /\ NoUrl \notin Url /\ Failed \notin Seq(Hit)

\* [f(x) for x in seq if ...], the function f being defined where x passes: a
\* fold, so that it can be reasoned about.
Comprehend(f, seq) ==
  FoldLeft(LAMBDA kept, x : IF x \in DOMAIN f THEN Append(kept, f[x]) ELSE kept,
           <<>>, seq)

-------------------------------------------------------------------------------
(* The registry.                                                            *)

\* list_search_engine_names
Registry ==
  << "browserbase", "duckduckgo", "exa", "linkup", "nimble", "parallel",
     "seltz", "serper", "tavily", "tinyfish", "treg", "you" >>

Aliases == "ddg" :> "duckduckgo"

ResolveAlias(name) == IF name \in DOMAIN Aliases THEN Aliases[name] ELSE name

\* get_search_engine raises KeyError for any other name.
Known(name) == ResolveAlias(name) \in ToSet(Registry)

\* The only class with REQUIRES_API_KEY = False.
RequiresKey(engine) == engine # "duckduckgo"

-------------------------------------------------------------------------------
(* Rows.  A response is [kind, rows, tokens]; kind "rows" is a list of      *)
(* results, "absent" no or an empty value in its place, "object" a JSON     *)
(* object in its place.  A row is [object, url, str, title, snippet]:       *)
(* whether it is a JSON object, its URL or NoUrl, whether that is a string. *)

JsonRow == [ object : BOOLEAN, url : Url \cup {NoUrl}, str : BOOLEAN,
             title : Nat, snippet : Nat ]

Cutting == {"linkup", "parallel", "tinyfish", "treg", "you"}

Usable(engine, row) ==
  /\ row.object
  /\ row.url # NoUrl
  /\ engine = "treg" => row.str

\* Seltz has no titles, Browserbase no snippets.
HitOf(engine, row) ==
  [ url     |-> row.url,
    title   |-> IF engine = "seltz" THEN 0 ELSE row.title,
    snippet |-> IF engine = "browserbase" THEN 0 ELSE row.snippet ]

UpTo(count, seq) == SubSeq(seq, 1, IF count < Len(seq) THEN count ELSE Len(seq))

\* Slip: the first bad row ends the list.
ReadRowsToFirstBad(engine, rows, count) ==
  LET considered == IF engine \in Cutting THEN UpTo(count, rows) ELSE rows
      good == {n \in DOMAIN considered : \A m \in 1..n : Usable(engine, considered[m])}
  IN  [n \in good |-> HitOf(engine, considered[n])]

\* The rows are cut to count, by the engines that cut, before bad ones are skipped.
ReadRows(engine, rows, count) ==
  LET considered == IF engine \in Cutting THEN UpTo(count, rows) ELSE rows
      usable     == {row \in ToSet(considered) : Usable(engine, row)}
  IN  Comprehend([row \in usable |-> HitOf(engine, row)], considered)

\* An object in place of the list cannot be sliced; iterated, it is keys only.
ReadResponse(engine, response, count) ==
  CASE response.kind = "rows"   -> ReadRows(engine, response.rows, count)
    [] response.kind = "absent" -> IF engine = "treg" THEN Failed ELSE <<>>
    [] response.kind = "object" -> IF engine \in Cutting THEN Failed ELSE <<>>

-------------------------------------------------------------------------------
(* The DuckDuckGo page.  A token is what HTMLParser reports of an anchor    *)
(* or of text: [kind, href, text] with kind "title" or "snippet" for <a>    *)
(* of that class, "data" and "end".  Texts are their lengths.               *)

\* An href is [form, url]: absent, a plain URL, one without a scheme, a
\* redirect with or without its target, or one urlparse raises on.
Href == [form : {"plain", "relative", "redirect"}, url : Url]
          \cup [form : {"none", "no target", "broken"}, url : {NoUrl}]
PageToken == [kind : {"title", "snippet", "data", "end"}, href : Href, text : Nat]
ServiceResponse ==
  [kind : {"rows", "absent", "object"}, rows : Seq(JsonRow), tokens : {<<>>}]
    \cup [kind : {"page"}, rows : {<<>>}, tokens : Seq(PageToken)]

NoHref == [form |-> "none", url |-> NoUrl]

\* parse_qs decodes the target of a redirect, unquote decodes it once more.
UnwrapDdg(href) ==
  CASE href.form = "redirect" -> [href.url EXCEPT !.path = Unquote[@]]
    [] href.form = "relative" -> [href.url EXCEPT !.scheme = Https]
    [] href.form = "plain"    -> href.url
    [] href.form \in {"none", "no target"} -> NoUrl

FreshParser ==
  [ results |-> <<>>, inTitle |-> FALSE, inSnippet |-> FALSE, href |-> NoHref,
    title |-> 0, snippet |-> 0, raised |-> FALSE ]

\* handle_endtag in a title: the result is kept if it has a URL.
EndTitle(p) ==
  LET closed == [p EXCEPT !.inTitle = FALSE, !.href = NoHref]
      found  == [url |-> UnwrapDdg(p.href), title |-> p.title, snippet |-> 0]
  IN  IF p.href.form = "broken" THEN [closed EXCEPT !.raised = TRUE]
      ELSE IF found.url = NoUrl THEN closed
      ELSE [closed EXCEPT !.results = Append(@, found)]

\* Slip: the last snippet wins.
EndSnippetLast(p) ==
  LET closed == [p EXCEPT !.inSnippet = FALSE]
      n      == Len(p.results)
  IN  IF n > 0 THEN [closed EXCEPT !.results[n].snippet = p.snippet] ELSE closed

\* handle_endtag in a snippet: it goes to the last result, if that has none.
EndSnippet(p) ==
  LET closed == [p EXCEPT !.inSnippet = FALSE]
      n      == Len(p.results)
  IN  IF n > 0 /\ p.results[n].snippet = 0
      THEN [closed EXCEPT !.results[n].snippet = p.snippet] ELSE closed

\* Feeding ends where a handler raises.
Feed(p, token) ==
  IF p.raised THEN p
  ELSE CASE token.kind = "title" ->
              [p EXCEPT !.inTitle = TRUE, !.href = token.href, !.title = 0]
         [] token.kind = "snippet" -> [p EXCEPT !.inSnippet = TRUE, !.snippet = 0]
         [] token.kind = "data" ->
              IF p.inTitle THEN [p EXCEPT !.title = @ + token.text]
              ELSE IF p.inSnippet THEN [p EXCEPT !.snippet = @ + token.text] ELSE p
         [] token.kind = "end" ->
              IF p.inTitle THEN EndTitle(p)
              ELSE IF p.inSnippet THEN EndSnippet(p) ELSE p

\* A page that makes the parser raise counts as a page without results.
ReadPage(tokens, count) ==
  LET parsed == FoldLeft(Feed, FreshParser, tokens)
  IN  IF parsed.raised THEN <<>> ELSE UpTo(count, parsed.results)

\* _search of the engine, once its service has answered without an error.
Read(engine, response, count) ==
  IF engine = "duckduckgo" THEN ReadPage(response.tokens, count)
  ELSE ReadResponse(engine, response, count)
===============================================================================
