---------------------------- MODULE IdentityGates ----------------------------
(***************************************************************************)
(* The same question put to both company identity gates, and what the two   *)
(* answers promise.  The README calls them the same gate; the properties    *)
(* say where that is so and what each gate guarantees on its own.           *)
(***************************************************************************)
EXTENDS IdentityInputs

CONSTANT Inputs  \* the questions asked

Py == INSTANCE PythonIdentity
Node == INSTANCE NodeIdentity

\* None is no list of mailboxes.
ASSUME InputAssumption ==
  /\ Inputs \subseteq Question
  /\ \A question \in Inputs : Py!FreeDomains(question) \cup {question.email} # None

VARIABLES input, python, node

vars == <<input, python, node>>

Init ==
  /\ input \in Inputs
  /\ python = None
  /\ node = None

AskPython ==
  /\ python = None
  /\ python' = Py!DeriveCompanyIdentity(input)
  /\ UNCHANGED <<input, node>>

AskNode ==
  /\ node = None
  /\ node' = Node!DeriveCompanyIdentity(input)
  /\ UNCHANGED <<input, python>>

Next == AskPython \/ AskNode
Spec == Init /\ [][Next]_vars

-------------------------------------------------------------------------------

Statuses == {"verified", "needs_review", "raised"}

TypeOK ==
  /\ input \in Inputs
  /\ \A d \in {python, node} :
       d # None => /\ d.status \in Statuses
                   /\ d.domain # None => Len(d.domain) >= 2
                   /\ d.status = "verified" => d.name # None /\ d.domain # None

\* A leading www. aside.
Bare(domain) ==
  IF Len(domain) > 1 /\ Head(domain) = "www" THEN Tail(domain) ELSE domain

\* One domain, or one of them inside the other.
SameSite(left, right) == IsSuffix(left, right) \/ IsSuffix(right, left)

\* The domain is the company's name and a top-level label, nothing between.
NamedAfter(name, domain) ==
  LET bare == Bare(domain)
  IN  Len(bare) = 2 /\ name.key # "" /\ Labels[bare[1]].key = name.key

\* What a verified identity rests on, whichever rule produced it: a mailbox on
\* no list of free ones, in the same domain as the host of the website if one
\* was given, and a name that either is the domain's or was read from a site
\* that lies in the same domain as that website.
Corroborated(question, host, d, free) ==
  /\ question.email # None /\ question.email \notin free
  /\ question.name # None /\ d.name = question.name
  /\ d.domain = IF host = None THEN question.email ELSE Bare(host)
  /\ SameSite(d.domain, question.email)
  /\ \/ NamedAfter(question.name, d.domain)
     \/ /\ host # None /\ question.site # None
        /\ question.site.name = question.name.text
        /\ SameSite(d.domain, Bare(question.site.domain))

\* The host each gate reads from the website it was given.
PyHost(question) ==
  IF question.website = None THEN None ELSE question.website.host
NodeHost(question) ==
  IF Node!Supplied(question.website) THEN Node!Hostname(question.website.host) ELSE None

\* "Free mailboxes and conflicts never become automatically verified", and site
\* metadata counts only if it is "same-domain", for the Python gate and the
\* list it was given.
PythonVerifiedIsCorroborated ==
  python # None /\ python.status = "verified" =>
    Corroborated(input, PyHost(input), python, Py!FreeDomains(input))

\* The same promise of the Node gate, whose list is at least its default.
NodeVerifiedIsCorroborated ==
  node # None /\ node.status = "verified" =>
    Corroborated(input, NodeHost(input), node, NodeFreeDomains)

\* Where the gates are the same gate: a plainly written website or none, ASCII
\* domains with a top-level label of two letters or more, a name that leaves a
\* slug, and lists that give both the same sets.
CommonGround ==
  /\ input.website # None =>
       /\ input.website.shape \in {"plain", "foreign"}
       /\ \A k \in DOMAIN input.website.host : Form(input.website.host, k) # "intl"
       /\ Form(input.website.host, Len(input.website.host)) # "short"
  /\ input.email # None => Form(input.email, Len(input.email)) # "short"
  /\ input.name # None => input.name.nodeSlug
  /\ input.email # None =>
       (input.email \in Py!FreeDomains(input) <=> input.email \in Node!FreeDomains(input))
  /\ input.name # None =>
       (input.name.folded \in Py!Generic(input) <=> input.name.folded \in Node!Generic(input))

\* On the common ground the two gates return the same decision.
GatesAgreeOnCommonGround ==
  python # None /\ node # None /\ CommonGround => python = node

\* A caller who adds the asker's own mail domain to the free mailboxes never
\* gets a verified identity from either gate, whatever the website or the site
\* metadata say.
FreeListOnlyTightens ==
  \A extra \in {input.email} \ {None} :
    LET wider == [input EXCEPT !.free = Py!FreeDomains(input) \cup {extra}]
    IN  /\ Py!DeriveCompanyIdentity(wider).status # "verified"
        /\ Node!DeriveCompanyIdentity(wider).status # "verified"

\* Site metadata, right or wrong, never costs a company its verification and
\* never moves it to another domain.
SiteMetadataOnlyHelps ==
  LET bare == [input EXCEPT !.site = None]
      KeptBy(before, after) ==
        before.status = "verified" =>
          after.status = "verified" /\ after.domain = before.domain
  IN  /\ KeptBy(Py!DeriveCompanyIdentity(bare), Py!DeriveCompanyIdentity(input))
      /\ KeptBy(Node!DeriveCompanyIdentity(bare), Node!DeriveCompanyIdentity(input))

\* A doc's claim of the Python gate: "invalid sites ... receive a review
\* status", so the gate always answers.
PythonAlwaysAnswers == python # None => python.status # "raised"
===============================================================================
