---------------------------- MODULE IdentityInputs ----------------------------
(***************************************************************************)
(* The questions put to the company identity gates of identity.py and of    *)
(* packages/node/src/index.ts.  A domain is the sequence of its labels, in  *)
(* lower case; of a label only its form and its letters and digits matter.  *)
(*                                                                         *)
(* An input is [email, name, website, site, free, generic]:                 *)
(*   email    domain part of a well-formed address, or None                 *)
(*   name     [text, folded, key, nodeSlug], or None: the name as shown,    *)
(*            case-folded, reduced to [a-z0-9], and whether the Node slugify *)
(*            leaves anything of it (the Python gate never asks its own)     *)
(*   website  [shape, host], or None for a missing or empty one             *)
(*   site     [name, domain] of a caller-verified site, or None             *)
(*   free, generic  the caller's own lists, or None for the defaults        *)
(***************************************************************************)
EXTENDS Integers, Sequences, SequencesExt

CONSTANTS
  Labels,        \* label |-> [form, key]; key: the label without hyphens
  Puny,          \* international label |-> the ASCII label of the URL parser
  None,
  PyFreeDomains, NodeFreeDomains,   \* DEFAULT_FREE_EMAIL_DOMAINS
  GenericNames                      \* DEFAULT_GENERIC_COMPANY_NAMES, both gates

\* "plain" fits every domain pattern, "short" is a single letter or digit,
\* "intl" has letters beyond ASCII, "bad" fits no pattern.
ASSUME LabelAssumption ==
  /\ \A l \in DOMAIN Labels : Labels[l].form \in {"plain", "short", "intl", "bad"}
  /\ \A l \in DOMAIN Puny : /\ Labels[l].form = "intl"
                            /\ Puny[l] \in DOMAIN Labels /\ Labels[Puny[l]].form = "plain"

\* "blank" is whitespace only, "leading" starts with it, "foreign" has another
\* scheme than http(s), "port" an impossible port, and no URL parser takes
\* "unparsable" (a stray "[").
Shapes == {"plain", "blank", "leading", "foreign", "port", "unparsable"}

Domain == Seq(DOMAIN Labels) \ {<<>>}
ASSUME DomainAssumption ==
  /\ None \notin Domain
  /\ PyFreeDomains \subseteq Domain /\ NodeFreeDomains \subseteq Domain

Optional(S) == {None} \cup S
Question ==
  [ email   : Optional(Domain),
    name    : Optional([text : STRING, folded : STRING, key : STRING, nodeSlug : BOOLEAN]),
    website : Optional([shape : Shapes, host : Domain]),
    site    : Optional([name : STRING, domain : Domain]),
    free    : Optional(SUBSET Domain),
    generic : Optional(SUBSET STRING) ]

Form(domain, k) == Labels[domain[k]].form

Decision(status, name, domain, reason) ==
  [status |-> status, name |-> name, domain |-> domain, reason |-> reason]

\* An early-return chain: rows of a condition and the decision it returns.
Row(condition, decision) == [when |-> condition, then |-> decision]
FirstOf(rows) ==
  rows[CHOOSE k \in DOMAIN rows :
         rows[k].when /\ \A j \in 1..(k - 1) : ~ rows[j].when].then
===============================================================================
