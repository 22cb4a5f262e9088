-------------------------------- MODULE MCSearch --------------------------------
(* Three engines of the registry, one for each way of reading an answer (in *)
(* full, cut to count, a page), asked together about four pages; and every  *)
(* engine alone on many answers.  K = 1 makes 1/2 = 1/4 + 1/4, so that ties *)
(* of score with different consensus occur.                                 *)
EXTENDS SearchFanout

CONSTANTS
  MaxTokens,  \* bound: tokens of a page
  MaxPieces,  \* bound: titles and snippets of a page
  MaxRows     \* bound: rows of a response of an engine asked alone

\* Path 1 is path 0 with a character escaped: in a query, escaped twice.
MCPaths == {0, 1}
MCUnquote == [path \in MCPaths |-> 0]

U(scheme, host, slashes, tracked) ==
  [ scheme |-> scheme, host |-> host, upper |-> FALSE, path |-> 0,
    slashes |-> slashes, tracked |-> tracked, query |-> 0, ok |-> TRUE ]
P  == U(2, 1, 0, FALSE)
P2 == [U(0, 1, 1, TRUE) EXCEPT !.upper = TRUE]     \* the same page, spelled otherwise
Q  == U(2, 2, 0, FALSE)
Q2 == U(2, 2, 1, FALSE)
R  == U(1, 2, 0, FALSE)                            \* http, not https: another page
S  == U(2, 2, 2, FALSE)                            \* one slash more: another page
E  == [P EXCEPT !.path = 1]                        \* an escape in the path
Bad == [U(2, 3, 0, FALSE) EXCEPT !.ok = FALSE]

(* Rows. *)
Row(url, title, snippet) ==
  [object |-> TRUE, url |-> url, str |-> TRUE, title |-> title, snippet |-> snippet]
Junk   == [Row(NoUrl, 0, 0) EXCEPT !.object = FALSE]
Nameless == Row(NoUrl, 1, 1)
Number == [Row(Bad, 1, 2) EXCEPT !.str = FALSE]    \* a URL that is not a string

Response(kind, rows) == [kind |-> kind, rows |-> rows, tokens |-> <<>>]
Rows(rows) == Response("rows", rows)

(* Pages. *)
Token(kind, href, text) == [kind |-> kind, href |-> href, text |-> text]
Title(form, url) == Token("title", [form |-> form, url |-> url], 0)
Snippet == Token("snippet", NoHref, 0)
Data(text) == Token("data", NoHref, text)
End == Token("end", NoHref, 0)

\* Every piece of text of a page has a length that says where it stands.
Page(tokens) ==
  [ kind |-> "page", rows |-> <<>>,
    tokens |-> [t \in DOMAIN tokens |->
                  IF tokens[t].kind = "data" THEN [tokens[t] EXCEPT !.text = 2 ^ t]
                  ELSE tokens[t]] ]

Heads == { Title("redirect", E), Title("plain", Q), Title("no target", NoUrl),
           Title("broken", NoUrl) }
Tokens == Heads \cup {Snippet, Data(1), End}
Pieces == { <<head, Data(1), End>> : head \in Heads \cup {Title("redirect", P)} }
            \cup { <<Snippet, Data(1), End>>, <<Snippet, End>>, <<Title("relative", R), Snippet>> }

MCPages == { Page(t) : t \in BoundedSeq(Tokens, MaxTokens) }
             \cup { Page(FlattenSeq(p)) : p \in BoundedSeq(Pieces, MaxPieces) }

(* What the engines are asked, and what their services offer. *)
Together == { <<>>, <<"ddg", "treg", "duckduckgo">>, <<"typo">>, <<"tavily", "typo", "treg">> }
Alone == { <<engine>> : engine \in ToSet(Registry) }

MCQuestions ==
  [engines : Together, count : {0, 2, 10}, keys : {{}, {"tavily", "treg"}}]
    \cup [engines : Alone, count : {0, 2, 10}, keys : {{"tavily", "treg"}}]

\* Rows of an engine asked alone, and of one asked together with others.
ManyRows ==
  { Rows(rows) : rows \in BoundedSeq({Row(P, 1, 2), Row(Q, 2, 1), Junk, Nameless, Number}, MaxRows) }
    \cup { Response("absent", <<>>), Response("object", <<>>) }
FewRows ==
  { Rows(<<>>), Rows(<<Row(P, 1, 0), Junk, Row(Q, 0, 3)>>),
    Rows(<<Row(R, 0, 1), Row(Q2, 2, 0), Row(P2, 0, 2)>>),
    Rows(<<Row(S, 1, 1), Row(R, 2, 0), Row(P2, 2, 1)>>),
    Rows(<<Row(Q2, 0, 0), Row(P2, 0, 4), Row(Q, 3, 1)>>),  \* one page twice in one list
    Rows(<<Row(P, 0, 0), Number>>), Response("object", <<>>) }
FewPages ==
  { Page(tokens) : tokens \in
      { <<>>, <<Title("redirect", E), Data(1), End, Snippet, Data(1), End, Title("plain", Q), End>>,
        <<Title("plain", Q), Data(1), End>>,
        <<Title("relative", P2), End, Title("plain", Q2), Data(1), End, Title("plain", S), End>>,
        <<Title("plain", R), Data(1), End, Title("broken", NoUrl), End>> } }

MCOffers ==
  [ names \in Together \cup Alone |->
      [ engine \in ToSet(Registry) |->
          IF names \in Alone
          THEN IF engine = "duckduckgo" THEN MCPages ELSE ManyRows
          ELSE IF engine = "duckduckgo" THEN FewPages ELSE FewRows ] ]
===============================================================================
