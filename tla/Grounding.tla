------------------------------- MODULE Grounding -------------------------------
(***************************************************************************)
(* grounding.py: the GroundingValidator fetches the page a claim quotes and *)
(* looks for the claim's value, and for what else its evidence asserts, in  *)
(* the text of that page.  Pure: the fetch is an argument.                  *)
(*                                                                         *)
(* A text of a page is the set of the texts that occur in it.               *)
(***************************************************************************)
EXTENDS ResearchReport, FiniteSets

CONSTANTS
  AsText,       \* value |-> the text it is looked for as (_as_text)
  CaseFold,     \* text |-> the text in one case, runs of blanks collapsed
  Details,      \* claim |-> the values of its evidence.attributes
  MinCoverage,  \* min_accept_coverage in per cent
  WithDetails   \* include_attributes

ASSUME GroundingAssumption ==
  /\ MinCoverage \in 1..100
  /\ WithDetails \in BOOLEAN
  /\ DOMAIN Canonical \subseteq DOMAIN AsText
  /\ IsFiniteSet({Strip[AsText[v]] : v \in DOMAIN AsText})
  /\ \A c \in DOMAIN Details : Details[c] \subseteq DOMAIN AsText

\* _targets.  Only a text that is empty as it stands is dropped here.
Targets(claim) ==
  LET values == {claim.value} \cup (IF WithDetails THEN Details[claim] ELSE {})
  IN  {AsText[v] : v \in values} \ {Blank}

\* The distinct texts that count: stripped, without blank ones.
Candidates(targets) == {Strip[t] : t \in targets} \ {Blank}

\* Slip: one exact word of the page is enough.
OccursAnywhere(text, page) == page # {}

\* Verbatim, or else with case and blanks normalized on both sides.
Occurs(text, page) ==
  \/ text \in page
  \/ \E other \in page : CaseFold[text] = CaseFold[other]

\* CitationCoverage: what was found and what was not.
FindCitations(page, targets) ==
  LET matched == {t \in Candidates(targets) : Occurs(t, page)}
  IN  [matched |-> matched, unmatched |-> Candidates(targets) \ matched]

\* coverage >= min_accept_coverage; without candidates the coverage is 0.
Covered(coverage) ==
  LET found == Cardinality(coverage.matched)
  IN  found > 0 /\ 100 * found >= MinCoverage * (found + Cardinality(coverage.unmatched))

\* _verdict
VerdictOn(coverage) ==
  CASE Covered(coverage) -> "accepted"
    [] ~ Covered(coverage) /\ coverage.matched = {} -> "rejected"
    [] OTHER -> "needs_review"

\* Slip: a page that cannot be read has nothing on it.
ValidateUnread(claim, fetched) ==
  IF Targets(claim) = {} THEN "needs_review"
  ELSE VerdictOn(FindCitations(IF fetched.tag = "text" THEN fetched.text ELSE {}, Targets(claim)))

\* validate, once fetch(source_url) has returned or raised an Exception.  What
\* is fetched is [tag, text]: a "text", or "no text" when fetch fails or
\* returns something that is not a str.
Validate(claim, fetched) ==
  IF Targets(claim) = {} \/ fetched.tag = "no text" THEN "needs_review"
  ELSE VerdictOn(FindCitations(fetched.text, Targets(claim)))
===============================================================================
