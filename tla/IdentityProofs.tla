---------------------------- MODULE IdentityProofs ----------------------------
(***************************************************************************)
(* The two company identity gates for any labels, any defaults and any      *)
(* question.  Both are chains of early returns, so each is first shown to   *)
(* verify a company exactly when a basis for it holds; what a verified      *)
(* identity promises follows from that basis.                               *)
(***************************************************************************)
EXTENDS IdentityGates, SequenceTheorems, TLAPS

-------------------------------------------------------------------------------
(* Early returns.                                                           *)

\* The row of an early-return chain that decides: the first whose condition holds.
LEMMA FirstRow ==
  ASSUME NEW rows, DOMAIN rows \subseteq Nat \ {0},
         NEW k \in DOMAIN rows, rows[k].when, \A j \in 1..(k - 1) : ~ rows[j].when
  PROVE  FirstOf(rows) = rows[k].then
  <1> DEFINE Decides(m) == rows[m].when /\ \A j \in 1..(m - 1) : ~ rows[j].when
             i == CHOOSE m \in DOMAIN rows : Decides(m)
  <1>1. i \in DOMAIN rows /\ Decides(i)
    OBVIOUS
  <1>2. FirstOf(rows) = rows[i].then
    BY DEF FirstOf
  <1> HIDE DEF i
  <1>3. ~ i < k /\ ~ k < i
    BY <1>1
  <1> QED
    BY <1>1, <1>2, <1>3

\* A chain of eleven returns, the last unconditional, is one nested conditional.
LEMMA Chain ==
  ASSUME NEW rows, DOMAIN rows = 1..11, rows[11].when
  PROVE  FirstOf(rows) =
           IF rows[1].when THEN rows[1].then ELSE IF rows[2].when THEN rows[2].then
           ELSE IF rows[3].when THEN rows[3].then ELSE IF rows[4].when THEN rows[4].then
           ELSE IF rows[5].when THEN rows[5].then ELSE IF rows[6].when THEN rows[6].then
           ELSE IF rows[7].when THEN rows[7].then ELSE IF rows[8].when THEN rows[8].then
           ELSE IF rows[9].when THEN rows[9].then ELSE IF rows[10].when THEN rows[10].then
           ELSE rows[11].then
  <1>1. \A k \in 1..11 : rows[k].when /\ (\A j \in 1..(k - 1) : ~ rows[j].when)
                           => FirstOf(rows) = rows[k].then
    BY FirstRow
  <1>2. ASSUME rows[1].when
        PROVE  FirstOf(rows) = rows[1].then
    <2>1. 1 \in 1..11 /\ 1..(1 - 1) = {}
      OBVIOUS
    <2> QED
      BY <1>1, <1>2, <2>1
  <1>3. ASSUME ~ rows[1].when /\ rows[2].when
        PROVE  FirstOf(rows) = rows[2].then
    <2>1. 2 \in 1..11 /\ 1..(2 - 1) = {1}
      OBVIOUS
    <2> QED
      BY <1>1, <1>3, <2>1
  <1>4. ASSUME ~ rows[1].when /\ ~ rows[2].when /\ rows[3].when
        PROVE  FirstOf(rows) = rows[3].then
    <2>1. 3 \in 1..11 /\ 1..(3 - 1) = {1, 2}
      OBVIOUS
    <2> QED
      BY <1>1, <1>4, <2>1
  <1>5. ASSUME ~ rows[1].when /\ ~ rows[2].when /\ ~ rows[3].when /\
               rows[4].when
        PROVE  FirstOf(rows) = rows[4].then
    <2>1. 4 \in 1..11 /\ 1..(4 - 1) = {1, 2, 3}
      OBVIOUS
    <2> QED
      BY <1>1, <1>5, <2>1
  <1>6. ASSUME ~ rows[1].when /\ ~ rows[2].when /\ ~ rows[3].when /\
               ~ rows[4].when /\ rows[5].when
        PROVE  FirstOf(rows) = rows[5].then
    <2>1. 5 \in 1..11 /\ 1..(5 - 1) = {1, 2, 3, 4}
      OBVIOUS
    <2> QED
      BY <1>1, <1>6, <2>1
  <1>7. ASSUME ~ rows[1].when /\ ~ rows[2].when /\ ~ rows[3].when /\
               ~ rows[4].when /\ ~ rows[5].when /\ rows[6].when
        PROVE  FirstOf(rows) = rows[6].then
    <2>1. 6 \in 1..11 /\ 1..(6 - 1) = {1, 2, 3, 4, 5}
      OBVIOUS
    <2> QED
      BY <1>1, <1>7, <2>1
  <1>8. ASSUME ~ rows[1].when /\ ~ rows[2].when /\ ~ rows[3].when /\
               ~ rows[4].when /\ ~ rows[5].when /\ ~ rows[6].when /\
               rows[7].when
        PROVE  FirstOf(rows) = rows[7].then
    <2>1. 7 \in 1..11 /\ 1..(7 - 1) = {1, 2, 3, 4, 5, 6}
      OBVIOUS
    <2> QED
      BY <1>1, <1>8, <2>1
  <1>9. ASSUME ~ rows[1].when /\ ~ rows[2].when /\ ~ rows[3].when /\
               ~ rows[4].when /\ ~ rows[5].when /\ ~ rows[6].when /\
               ~ rows[7].when /\ rows[8].when
        PROVE  FirstOf(rows) = rows[8].then
    <2>1. 8 \in 1..11 /\ 1..(8 - 1) = {1, 2, 3, 4, 5, 6, 7}
      OBVIOUS
    <2> QED
      BY <1>1, <1>9, <2>1
  <1>10. ASSUME ~ rows[1].when /\ ~ rows[2].when /\ ~ rows[3].when /\
               ~ rows[4].when /\ ~ rows[5].when /\ ~ rows[6].when /\
               ~ rows[7].when /\ ~ rows[8].when /\ rows[9].when
        PROVE  FirstOf(rows) = rows[9].then
    <2>1. 9 \in 1..11 /\ 1..(9 - 1) = {1, 2, 3, 4, 5, 6, 7, 8}
      OBVIOUS
    <2> QED
      BY <1>1, <1>10, <2>1
  <1>11. ASSUME ~ rows[1].when /\ ~ rows[2].when /\ ~ rows[3].when /\
               ~ rows[4].when /\ ~ rows[5].when /\ ~ rows[6].when /\
               ~ rows[7].when /\ ~ rows[8].when /\ ~ rows[9].when /\
               rows[10].when
        PROVE  FirstOf(rows) = rows[10].then
    <2>1. 10 \in 1..11 /\ 1..(10 - 1) = {1, 2, 3, 4, 5, 6, 7, 8, 9}
      OBVIOUS
    <2> QED
      BY <1>1, <1>11, <2>1
  <1>12. ASSUME ~ rows[1].when /\ ~ rows[2].when /\ ~ rows[3].when /\
               ~ rows[4].when /\ ~ rows[5].when /\ ~ rows[6].when /\
               ~ rows[7].when /\ ~ rows[8].when /\ ~ rows[9].when /\
               ~ rows[10].when
        PROVE  FirstOf(rows) = rows[11].then
    <2>1. 11 \in 1..11 /\ 1..(11 - 1) = {1, 2, 3, 4, 5, 6, 7, 8, 9, 10}
      OBVIOUS
    <2> QED
      BY <1>1, <1>12, <2>1
  <1> QED
    BY <1>2, <1>3, <1>4, <1>5, <1>6, <1>7, <1>8, <1>9, <1>10, <1>11, <1>12

-------------------------------------------------------------------------------
(* The Python gate.                                                         *)

\* The instance reads its chains and compares its domains as this module does.
LEMMA PythonHelpers ==
  /\ \A rows : Py!FirstOf(rows) = FirstOf(rows)
  /\ \A c, d : Py!Row(c, d) = Row(c, d)
  /\ \A left, right : Py!IsSuffix(left, right) <=> IsSuffix(left, right)
  BY DEF Py!FirstOf, FirstOf, Py!Row, Row, Py!IsSuffix, IsSuffix, Py!IsPrefix, IsPrefix,
         Py!Reverse, Reverse

PyMail(q) == Py!CompanyEmailDomain(q.email)
PySite(q) == Py!CanonicalWebsiteDomain(q.website)

PyShown(q) ==
  /\ q.name # None /\ PySite(q) # None /\ q.site # None
  /\ q.site.name = q.name.text
  /\ Py!DomainsMatch(PySite(q), Py!WithoutWww(q.site.domain))

\* The decisions both gates choose from, in the order of their conditions.
Answer(name, mail, website, generic, unread, free, agree, shown, onSite, onMail) ==
  LET Review(domain, reason) == Decision("needs_review", name, domain, reason)
      Verified(domain, reason) == Decision("verified", name, domain, reason)
  IN  IF generic THEN Decision("needs_review", None,
                               IF website # None THEN website ELSE mail,
                               "missing_company_name")
      ELSE IF mail = None THEN Review(website, "invalid_email")
      ELSE IF unread THEN Review(None, "invalid_website")
      ELSE IF website # None /\ ~ free /\ ~ agree THEN Review(website, "domain_conflict")
      ELSE IF website # None /\ free
           THEN Review(website, "free_email_with_unverified_website")
      ELSE IF shown THEN Verified(website, "corporate_email_domain_site_metadata")
      ELSE IF website # None /\ onSite THEN Verified(website, "matching_email_and_website")
      ELSE IF website # None THEN Review(website, "corporate_email_domain_unverified")
      ELSE IF free THEN Review(None, "free_email_without_website")
      ELSE IF onMail THEN Verified(mail, "corporate_email_domain")
      ELSE Review(mail, "corporate_email_domain_unverified")

\* derive_company_identity answers in that order.
LEMMA PythonAnswers ==
  ASSUME NEW q
  PROVE  Py!Decide(q) =
              Answer(q.name, PyMail(q), PySite(q), Py!IsGenericCompanyName(q),
                     q.website # None /\ PySite(q) = None, PyMail(q) \in Py!FreeDomains(q),
                     Py!DomainsMatch(PyMail(q), PySite(q)), PyShown(q),
                     Py!CompanyNameMatchesDomain(q.name, PySite(q)),
                     Py!CompanyNameMatchesDomain(q.name, PyMail(q)))
  <1> DEFINE name    == q.name
             mail    == PyMail(q)
             website == PySite(q)
             free    == mail \in Py!FreeDomains(q)
             Review(domain, reason) == Decision("needs_review", name, domain, reason)
             Verified(domain, reason) == Decision("verified", name, domain, reason)
             c1 == Py!IsGenericCompanyName(q)
             c2 == mail = None
             c3 == q.website # None /\ website = None
             c4 == website # None /\ ~ free /\ ~ Py!DomainsMatch(mail, website)
             c5 == website # None /\ free
             c6 == PyShown(q)
             c7 == website # None /\ Py!CompanyNameMatchesDomain(name, website)
             c8 == website # None
             c9 == free
             c10 == Py!CompanyNameMatchesDomain(name, mail)
             d1 == Decision("needs_review", None,
                            IF website # None THEN website ELSE mail, "missing_company_name")
             d2 == Review(website, "invalid_email")
             d3 == Review(None, "invalid_website")
             d4 == Review(website, "domain_conflict")
             d5 == Review(website, "free_email_with_unverified_website")
             d6 == Verified(website, "corporate_email_domain_site_metadata")
             d7 == Verified(website, "matching_email_and_website")
             d8 == Review(website, "corporate_email_domain_unverified")
             d9 == Review(None, "free_email_without_website")
             d10 == Verified(mail, "corporate_email_domain")
             d11 == Review(mail, "corporate_email_domain_unverified")
             rows == << Row(c1, d1), Row(c2, d2), Row(c3, d3), Row(c4, d4), Row(c5, d5),
                        Row(c6, d6), Row(c7, d7), Row(c8, d8), Row(c9, d9), Row(c10, d10),
                        Row(TRUE, d11) >>
  <1>1. Py!Decide(q) = FirstOf(rows)
    BY Zenon DEF Py!Decide, PyMail, PySite, PyShown, Py!Decision, Decision, Py!FirstOf, FirstOf,
           Py!Row, Row, Py!SiteCorroborates
  <1>2. /\ c1 \in BOOLEAN /\ c2 \in BOOLEAN /\ c3 \in BOOLEAN /\ c4 \in BOOLEAN
        /\ c5 \in BOOLEAN /\ c6 \in BOOLEAN /\ c7 \in BOOLEAN /\ c8 \in BOOLEAN
        /\ c9 \in BOOLEAN /\ c10 \in BOOLEAN
    BY DEF Py!IsGenericCompanyName, Py!CompanyNameMatchesDomain, PyShown
  <1> HIDE DEF c1, c2, c3, c4, c5, c6, c7, c8, c9, c10, d1, d2, d3, d4, d5, d6, d7, d8,
               d9, d10, d11
  <1>3. /\ DOMAIN rows = 1..11
        /\ rows[1] = Row(c1, d1) /\ rows[2] = Row(c2, d2) /\ rows[3] = Row(c3, d3)
        /\ rows[4] = Row(c4, d4) /\ rows[5] = Row(c5, d5) /\ rows[6] = Row(c6, d6)
        /\ rows[7] = Row(c7, d7) /\ rows[8] = Row(c8, d8) /\ rows[9] = Row(c9, d9)
        /\ rows[10] = Row(c10, d10) /\ rows[11] = Row(TRUE, d11)
    OBVIOUS
  <1> HIDE DEF rows
  <1>4. Py!Decide(q) =
          IF c1 THEN d1 ELSE IF c2 THEN d2 ELSE IF c3 THEN d3 ELSE IF c4 THEN d4
          ELSE IF c5 THEN d5 ELSE IF c6 THEN d6 ELSE IF c7 THEN d7 ELSE IF c8 THEN d8
          ELSE IF c9 THEN d9 ELSE IF c10 THEN d10 ELSE d11
    BY <1>1, <1>2, <1>3, Chain DEF Row
  <1> QED
    BY <1>4 DEF Answer, c1, c2, c3, c4, c5, c6, c7, c8, c9, c10, d1, d2, d3, d4, d5, d6,
                d7, d8, d9, d10, d11

\* What the Python gate verifies a company on.
PyBasis(q) ==
  /\ ~ Py!IsGenericCompanyName(q)
  /\ PyMail(q) # None /\ PyMail(q) \notin Py!FreeDomains(q)
  /\ \/ /\ PySite(q) # None /\ Py!DomainsMatch(PyMail(q), PySite(q))
        /\ PyShown(q) \/ Py!CompanyNameMatchesDomain(q.name, PySite(q))
     \/ q.website = None /\ Py!CompanyNameMatchesDomain(q.name, PyMail(q))

\* derive_company_identity verifies exactly on that basis, and then answers
\* with the name it was given and the website's domain, or the mailbox's.
LEMMA PythonVerdict ==
  ASSUME NEW q
  PROVE  LET d == Py!Decide(q)
         IN  /\ d.status \in {"verified", "needs_review"}
             /\ d.domain \in {None, PySite(q), PyMail(q)}
             /\ d.status = "verified" <=> PyBasis(q)
             /\ d.status = "verified" =>
                  /\ d.name = q.name
                  /\ d.domain = IF q.website # None THEN PySite(q) ELSE PyMail(q)
  <1> DEFINE name    == q.name
             mail    == PyMail(q)
             website == PySite(q)
             free    == mail \in Py!FreeDomains(q)
             generic == Py!IsGenericCompanyName(q)
             agree   == Py!DomainsMatch(mail, website)
             onSite  == Py!CompanyNameMatchesDomain(name, website)
             onMail  == Py!CompanyNameMatchesDomain(name, mail)
             shown   == PyShown(q)
             Review(domain, reason) == Decision("needs_review", name, domain, reason)
             Verified(domain, reason) == Decision("verified", name, domain, reason)
  <1>1. Py!Decide(q) =
          Answer(name, mail, website, generic, q.website # None /\ website = None, free,
                 agree, shown, onSite, onMail)
    BY PythonAnswers
  <1>2. /\ name = q.name /\ mail = PyMail(q) /\ website = PySite(q)
        /\ q.website = None => website = None
    BY DEF PySite, Py!CanonicalWebsiteDomain
  <1>3. /\ generic \in BOOLEAN /\ onSite \in BOOLEAN /\ onMail \in BOOLEAN
        /\ ~ generic => name # None
    BY Zenon DEF Py!IsGenericCompanyName, Py!CompanyNameMatchesDomain
  <1>4. shown => website # None
    BY DEF PyShown
  <1>5. PyBasis(q) <=>
             /\ ~ generic /\ mail # None /\ ~ free
             /\ \/ website # None /\ agree /\ (shown \/ onSite)
                \/ q.website = None /\ onMail
    BY <1>3 DEF PyBasis
  <1> DEFINE d == Py!Decide(q)
  <1>6. \A s, n, w, r :
          /\ Decision(s, n, w, r).status = s /\ Decision(s, n, w, r).name = n
          /\ Decision(s, n, w, r).domain = w
    BY DEF Decision
  <1> HIDE DEF name, mail, website, free, generic, agree, onSite, onMail, shown, d
  <1>7. CASE PyBasis(q)
    <2>1. CASE website # None
      <3>1. d \in {Verified(website, "corporate_email_domain_site_metadata"),
                   Verified(website, "matching_email_and_website")}
        BY <1>1, <1>5, <1>7, <1>2, <2>1 DEF Answer, d
      <3> QED
        BY <1>2, <1>6, <1>7, <2>1, <3>1 DEF d
    <2>2. CASE website = None
      <3>1. d = Verified(mail, "corporate_email_domain")
        BY <1>1, <1>4, <1>5, <1>7, <2>2 DEF Answer, d
      <3>2. q.website = None
        BY <1>5, <1>7, <2>2
      <3> QED
        BY <1>2, <1>6, <1>7, <3>1, <3>2 DEF d
    <2> QED
      BY <2>1, <2>2
  <1>8. CASE ~ PyBasis(q)
    <2>1. \E n, w, r : w \in {None, website, mail} /\ d = Decision("needs_review", n, w, r)
      BY <1>1, <1>3, <1>4, <1>5, <1>8 DEF Answer, d
    <2>2. d.status = "needs_review" /\ d.domain \in {None, website, mail}
      BY <1>6, <2>1
    <2> QED
      BY <1>2, <1>8, <2>2 DEF d
  <1> QED
    BY <1>7, <1>8

-------------------------------------------------------------------------------
(* Domains.                                                                 *)

\* A domain without its www. is a domain.
LEMMA BareDomain == \A d \in Domain : Py!WithoutWww(d) \in Domain
  <1>1. ASSUME NEW d \in Domain PROVE Py!WithoutWww(d) \in Domain
    <2>1. d \in Seq(DOMAIN Labels) /\ d # <<>>
      BY DEF Domain
    <2>2. Tail(d) \in Seq(DOMAIN Labels) /\ Len(Tail(d)) = Len(d) - 1 /\ Len(d) \in Nat
      BY <2>1, HeadTailProperties
    <2>3. Tail(d) = <<>> => Len(Tail(d)) = 0
      BY <2>2, EmptySeq
    <2> QED
      BY <2>1, <2>2, <2>3 DEF Py!WithoutWww, Domain
  <1> QED
    BY <1>1

\* A mailbox's domain and a website's are domain names of two labels or more.
LEMMA PythonDomains ==
  ASSUME NEW q \in Question
  PROVE  /\ PyMail(q) # None => /\ PyMail(q) = q.email /\ q.email \in Domain
                                /\ Len(q.email) >= 2
         /\ PySite(q) # None => /\ PySite(q) \in Domain /\ Len(PySite(q)) >= 2
                                /\ q.website # None
  <1>1. /\ q.email # None => q.email \in Domain
        /\ q.website # None => q.website.host \in Domain
    BY DEF Question, Optional
  <1>2. \A d \in Domain : Py!WithoutWww(d) \in Domain
    BY BareDomain
  <1> QED
    BY <1>1, <1>2 DEF PyMail, PySite, Py!CompanyEmailDomain, Py!CanonicalWebsiteDomain,
                     Py!IsDomain

\* A domain is a suffix of itself.
LEMMA SuffixOfItself ==
  ASSUME NEW d \in Domain
  PROVE  IsSuffix(d, d)
  <1>1. Reverse(d) \in Seq(DOMAIN Labels)
    BY DEF Reverse, Domain
  <1>2. Len(Reverse(d)) \in Nat
    BY <1>1
  <1> QED
    BY <1>2 DEF IsSuffix, IsPrefix

\* Both gates compare names and domains as the promise does.
LEMMA PythonMatching ==
  /\ \A d : Py!WithoutWww(d) = Bare(d)
  /\ \A left, right : Py!DomainsMatch(left, right) => SameSite(left, right)
  /\ \A name, d : Py!CompanyNameMatchesDomain(name, d) => NamedAfter(name, d)
  <1>1. \A d : Py!WithoutWww(d) = Bare(d)
    BY DEF Py!WithoutWww, Bare
  <1>2. \A left, right : Py!DomainsMatch(left, right) => SameSite(left, right)
    BY PythonHelpers DEF Py!DomainsMatch, SameSite
  <1>3. \A name, d : Py!CompanyNameMatchesDomain(name, d) => NamedAfter(name, d)
    BY <1>1, Zenon DEF Py!CompanyNameMatchesDomain, NamedAfter
  <1> QED
    BY <1>1, <1>2, <1>3

-------------------------------------------------------------------------------
(* What the Python gate promises.                                           *)

\* "Free mailboxes and conflicts never become automatically verified."
LEMMA PythonPromise ==
  ASSUME NEW q \in Question, PyBasis(q)
  PROVE  LET d == Py!Decide(q)
         IN  /\ d.domain \in Domain /\ Len(d.domain) >= 2 /\ d.name # None
             /\ Corroborated(q, PyHost(q), d, Py!FreeDomains(q))
  <1> DEFINE d == Py!Decide(q)
  <1>1. d.name = q.name /\ d.domain = IF q.website # None THEN PySite(q) ELSE PyMail(q)
    BY PythonVerdict
  <1> HIDE DEF d
  <1>2. q.name # None
    BY Zenon DEF PyBasis, Py!IsGenericCompanyName
  <1>3. /\ PyMail(q) # None /\ PyMail(q) \notin Py!FreeDomains(q)
        /\ PyMail(q) = q.email /\ q.email \in Domain /\ Len(q.email) >= 2
    BY PythonDomains DEF PyBasis
  <1>4. q.email # None
    BY <1>3, DomainAssumption
  <1>5. CASE q.website = None
    <2>1. PySite(q) = None /\ PyHost(q) = None /\ d.domain = q.email
      BY <1>1, <1>3, <1>5 DEF PySite, Py!CanonicalWebsiteDomain, PyHost
    <2>2. NamedAfter(q.name, d.domain)
      BY <1>3, <2>1, PythonMatching DEF PyBasis
    <2>3. SameSite(d.domain, q.email)
      BY <1>3, <2>1, SuffixOfItself DEF SameSite
    <2>4. Corroborated(q, PyHost(q), d, Py!FreeDomains(q))
      BY <1>1, <1>2, <1>3, <1>4, <2>1, <2>2, <2>3 DEF Corroborated
    <2> QED
      BY <1>1, <1>2, <1>3, <2>1, <2>4 DEF d
  <1>6. CASE q.website # None
    <2>1. /\ PySite(q) # None /\ Py!DomainsMatch(q.email, PySite(q))
          /\ PyShown(q) \/ Py!CompanyNameMatchesDomain(q.name, PySite(q))
      BY <1>3, <1>6 DEF PyBasis
    <2>2. PySite(q) \in Domain /\ Len(PySite(q)) >= 2 /\ d.domain = PySite(q)
      BY <1>1, <1>6, <2>1, PythonDomains
    <2>3. PySite(q) = Bare(q.website.host) /\ PyHost(q) = q.website.host
      BY <1>6, <2>1, PythonMatching DEF PySite, Py!CanonicalWebsiteDomain, PyHost
    <2>4. PyHost(q) # None
      <3>1. q.website.host \in Domain
        BY <1>6 DEF Question, Optional
      <3> QED
        BY <2>3, <3>1, DomainAssumption
    <2>5. SameSite(d.domain, q.email)
      BY <2>1, <2>2, PythonMatching DEF SameSite
    <2>6. \/ NamedAfter(q.name, d.domain)
          \/ /\ q.site # None /\ q.site.name = q.name.text
             /\ SameSite(d.domain, Bare(q.site.domain))
      BY <2>1, <2>2, PythonMatching DEF PyShown
    <2>7. Corroborated(q, PyHost(q), d, Py!FreeDomains(q))
      BY <1>1, <1>2, <1>3, <1>4, <2>2, <2>3, <2>4, <2>5, <2>6 DEF Corroborated
    <2> QED
      BY <1>1, <1>2, <2>2, <2>7 DEF d
  <1> QED
    BY <1>5, <1>6

-------------------------------------------------------------------------------
(* The Node gate.                                                           *)

NodeMail(q) == Node!CompanyEmailDomain(q.email)
NodeSite(q) == Node!CanonicalWebsiteDomain(q.website)

NodeUnnamed(q) == Node!IsGenericCompanyName(q) \/ ~ q.name.nodeSlug

NodeShown(q) ==
  /\ q.name # None /\ NodeSite(q) # None /\ q.site # None
  /\ q.site.name = q.name.text
  /\ Node!DomainsMatch(NodeSite(q), Node!WithoutWww(q.site.domain))

\* deriveCompanyIdentity answers in that order.
LEMMA NodeAnswers ==
  ASSUME NEW q
  PROVE  Node!DeriveCompanyIdentity(q) =
              Answer(q.name, NodeMail(q), NodeSite(q), NodeUnnamed(q),
                     Node!Supplied(q.website) /\ NodeSite(q) = None,
                     NodeMail(q) \in Node!FreeDomains(q),
                     Node!DomainsMatch(NodeMail(q), NodeSite(q)), NodeShown(q),
                     Node!CompanyNameMatchesDomain(q.name, NodeSite(q)),
                     Node!CompanyNameMatchesDomain(q.name, NodeMail(q)))
  <1> DEFINE name    == q.name
             mail    == NodeMail(q)
             website == NodeSite(q)
             free    == mail \in Node!FreeDomains(q)
             Review(domain, reason) == Decision("needs_review", name, domain, reason)
             Verified(domain, reason) == Decision("verified", name, domain, reason)
             c1 == NodeUnnamed(q)
             c2 == mail = None
             c3 == Node!Supplied(q.website) /\ website = None
             c4 == website # None /\ ~ free /\ ~ Node!DomainsMatch(mail, website)
             c5 == website # None /\ free
             c6 == NodeShown(q)
             c7 == website # None /\ Node!CompanyNameMatchesDomain(name, website)
             c8 == website # None
             c9 == free
             c10 == Node!CompanyNameMatchesDomain(name, mail)
             d1 == Decision("needs_review", None,
                            IF website # None THEN website ELSE mail, "missing_company_name")
             d2 == Review(website, "invalid_email")
             d3 == Review(None, "invalid_website")
             d4 == Review(website, "domain_conflict")
             d5 == Review(website, "free_email_with_unverified_website")
             d6 == Verified(website, "corporate_email_domain_site_metadata")
             d7 == Verified(website, "matching_email_and_website")
             d8 == Review(website, "corporate_email_domain_unverified")
             d9 == Review(None, "free_email_without_website")
             d10 == Verified(mail, "corporate_email_domain")
             d11 == Review(mail, "corporate_email_domain_unverified")
             rows == << Row(c1, d1), Row(c2, d2), Row(c3, d3), Row(c4, d4), Row(c5, d5),
                        Row(c6, d6), Row(c7, d7), Row(c8, d8), Row(c9, d9), Row(c10, d10),
                        Row(TRUE, d11) >>
  <1>1. Node!DeriveCompanyIdentity(q) = FirstOf(rows)
    BY Zenon DEF Node!DeriveCompanyIdentity, NodeMail, NodeSite, NodeShown, NodeUnnamed,
           Node!Decision, Decision, Node!FirstOf, FirstOf, Node!Row, Row,
           Node!SiteCorroborates
  <1>2. /\ c1 \in BOOLEAN /\ c2 \in BOOLEAN /\ c3 \in BOOLEAN /\ c4 \in BOOLEAN
        /\ c5 \in BOOLEAN /\ c6 \in BOOLEAN /\ c7 \in BOOLEAN /\ c8 \in BOOLEAN
        /\ c9 \in BOOLEAN /\ c10 \in BOOLEAN
    BY DEF NodeUnnamed, Node!IsGenericCompanyName, Node!CompanyNameMatchesDomain, NodeShown
  <1> HIDE DEF c1, c2, c3, c4, c5, c6, c7, c8, c9, c10, d1, d2, d3, d4, d5, d6, d7, d8,
               d9, d10, d11
  <1>3. /\ DOMAIN rows = 1..11
        /\ rows[1] = Row(c1, d1) /\ rows[2] = Row(c2, d2) /\ rows[3] = Row(c3, d3)
        /\ rows[4] = Row(c4, d4) /\ rows[5] = Row(c5, d5) /\ rows[6] = Row(c6, d6)
        /\ rows[7] = Row(c7, d7) /\ rows[8] = Row(c8, d8) /\ rows[9] = Row(c9, d9)
        /\ rows[10] = Row(c10, d10) /\ rows[11] = Row(TRUE, d11)
    OBVIOUS
  <1> HIDE DEF rows
  <1>4. Node!DeriveCompanyIdentity(q) =
          IF c1 THEN d1 ELSE IF c2 THEN d2 ELSE IF c3 THEN d3 ELSE IF c4 THEN d4
          ELSE IF c5 THEN d5 ELSE IF c6 THEN d6 ELSE IF c7 THEN d7 ELSE IF c8 THEN d8
          ELSE IF c9 THEN d9 ELSE IF c10 THEN d10 ELSE d11
    BY <1>1, <1>2, <1>3, Chain DEF Row
  <1> QED
    BY <1>4 DEF Answer, c1, c2, c3, c4, c5, c6, c7, c8, c9, c10, d1, d2, d3, d4, d5, d6,
                d7, d8, d9, d10, d11

\* What the Node gate verifies a company on.
NodeBasis(q) ==
  /\ ~ NodeUnnamed(q)
  /\ NodeMail(q) # None /\ NodeMail(q) \notin Node!FreeDomains(q)
  /\ \/ /\ NodeSite(q) # None /\ Node!DomainsMatch(NodeMail(q), NodeSite(q))
        /\ NodeShown(q) \/ Node!CompanyNameMatchesDomain(q.name, NodeSite(q))
     \/ /\ NodeSite(q) = None /\ ~ Node!Supplied(q.website)
        /\ Node!CompanyNameMatchesDomain(q.name, NodeMail(q))

\* deriveCompanyIdentity verifies exactly on that basis, and then answers
\* with the name it was given and the website's domain, or the mailbox's.
LEMMA NodeVerdict ==
  ASSUME NEW q
  PROVE  LET d == Node!DeriveCompanyIdentity(q)
         IN  /\ d.status \in {"verified", "needs_review"}
             /\ d.domain \in {None, NodeSite(q), NodeMail(q)}
             /\ d.status = "verified" <=> NodeBasis(q)
             /\ d.status = "verified" =>
                  /\ d.name = q.name
                  /\ d.domain = IF NodeSite(q) # None THEN NodeSite(q) ELSE NodeMail(q)
  <1> DEFINE name    == q.name
             mail    == NodeMail(q)
             website == NodeSite(q)
             free    == mail \in Node!FreeDomains(q)
             generic == NodeUnnamed(q)
             agree   == Node!DomainsMatch(mail, website)
             onSite  == Node!CompanyNameMatchesDomain(name, website)
             onMail  == Node!CompanyNameMatchesDomain(name, mail)
             shown   == NodeShown(q)
             Review(domain, reason) == Decision("needs_review", name, domain, reason)
             Verified(domain, reason) == Decision("verified", name, domain, reason)
  <1>1. Node!DeriveCompanyIdentity(q) =
          Answer(name, mail, website, generic, Node!Supplied(q.website) /\ website = None, free,
                 agree, shown, onSite, onMail)
    BY NodeAnswers
  <1>2. /\ name = q.name /\ mail = NodeMail(q) /\ website = NodeSite(q)
    OBVIOUS
  <1>3. /\ generic \in BOOLEAN /\ onSite \in BOOLEAN /\ onMail \in BOOLEAN
        /\ ~ generic => name # None
    BY Zenon DEF NodeUnnamed, Node!IsGenericCompanyName, Node!CompanyNameMatchesDomain
  <1>4. shown => website # None
    BY DEF NodeShown
  <1>5. NodeBasis(q) <=>
             /\ ~ generic /\ mail # None /\ ~ free
             /\ \/ website # None /\ agree /\ (shown \/ onSite)
                \/ website = None /\ ~ Node!Supplied(q.website) /\ onMail
    BY <1>3 DEF NodeBasis
  <1> DEFINE d == Node!DeriveCompanyIdentity(q)
  <1>6. \A s, n, w, r :
          /\ Decision(s, n, w, r).status = s /\ Decision(s, n, w, r).name = n
          /\ Decision(s, n, w, r).domain = w
    BY DEF Decision
  <1> HIDE DEF name, mail, website, free, generic, agree, onSite, onMail, shown, d
  <1>7. CASE NodeBasis(q)
    <2>1. CASE website # None
      <3>1. d \in {Verified(website, "corporate_email_domain_site_metadata"),
                   Verified(website, "matching_email_and_website")}
        BY <1>1, <1>5, <1>7, <1>2, <2>1 DEF Answer, d
      <3> QED
        BY <1>2, <1>6, <1>7, <2>1, <3>1 DEF d
    <2>2. CASE website = None
      <3>1. d = Verified(mail, "corporate_email_domain")
        BY <1>1, <1>4, <1>5, <1>7, <2>2 DEF Answer, d
      <3> QED
        BY <1>2, <1>6, <1>7, <2>2, <3>1 DEF d
    <2> QED
      BY <2>1, <2>2
  <1>8. CASE ~ NodeBasis(q)
    <2>1. \E n, w, r : w \in {None, website, mail} /\ d = Decision("needs_review", n, w, r)
      BY <1>1, <1>3, <1>4, <1>5, <1>8 DEF Answer, d
    <2>2. d.status = "needs_review" /\ d.domain \in {None, website, mail}
      BY <1>6, <2>1
    <2> QED
      BY <1>2, <1>8, <2>2 DEF d
  <1> QED
    BY <1>7, <1>8

\* Both gates compare domains and names in the same way.
LEMMA SameMatching ==
  /\ \A left, right : Node!DomainsMatch(left, right) <=> Py!DomainsMatch(left, right)
  /\ \A d : Node!WithoutWww(d) = Py!WithoutWww(d)
  /\ \A name, d :
       Node!CompanyNameMatchesDomain(name, d) <=> Py!CompanyNameMatchesDomain(name, d)
  <1>1. \A left, right : Node!DomainsMatch(left, right) <=> Py!DomainsMatch(left, right)
    BY DEF Node!DomainsMatch, Py!DomainsMatch, Node!IsSuffix, Py!IsSuffix, Node!IsPrefix,
           Py!IsPrefix, Node!Reverse, Py!Reverse
  <1>2. \A d : Node!WithoutWww(d) = Py!WithoutWww(d)
    BY DEF Node!WithoutWww, Py!WithoutWww
  <1>3. \A name, d :
          Node!CompanyNameMatchesDomain(name, d) <=> Py!CompanyNameMatchesDomain(name, d)
    BY Zenon DEF Node!CompanyNameMatchesDomain, Py!CompanyNameMatchesDomain,
                 Node!WithoutWww, Py!WithoutWww
  <1> QED
    BY <1>1, <1>2, <1>3

\* The URL parser turns a host into a domain of as many labels.
LEMMA HostnameKeeps ==
  ASSUME NEW d \in Domain
  PROVE  /\ Node!Hostname(d) \in Domain
         /\ (\A k \in DOMAIN d : Form(d, k) # "intl") => Node!Hostname(d) = d
  <1> DEFINE n == Len(d)
             h == Node!Hostname(d)
  <1>1. /\ d \in Seq(DOMAIN Labels) /\ n \in Nat /\ DOMAIN d = 1..n /\ d # <<>>
        /\ d = [k \in 1..n |-> d[k]]
    BY DEF Domain
  <1>2. n # 0
    BY <1>1, EmptySeq
  <1>3. h = [k \in 1..n |-> IF d[k] \in DOMAIN Puny THEN Puny[d[k]] ELSE d[k]]
    BY <1>1 DEF Node!Hostname
  <1>4. \A k \in 1..n : /\ d[k] \in DOMAIN Labels
                        /\ d[k] \in DOMAIN Puny => /\ Puny[d[k]] \in DOMAIN Labels
                                                   /\ Form(d, k) = "intl"
    BY <1>1, LabelAssumption DEF Form
  <1> HIDE DEF n, h
  <1>5. h \in Seq(DOMAIN Labels) /\ Len(h) = n
    <2>1. \A k \in 1..n : h[k] \in DOMAIN Labels
      BY <1>3, <1>4
    <2>2. h = [k \in 1..n |-> h[k]]
      BY <1>3
    <2>3. n \in Nat
      BY <1>1
    <2> QED
      BY ONLY <2>1, <2>2, <2>3
  <1>6. h # <<>>
    BY <1>2, <1>5, EmptySeq
  <1>7. (\A k \in DOMAIN d : Form(d, k) # "intl") => h = d
    BY <1>1, <1>3, <1>4
  <1> QED
    BY <1>5, <1>6, <1>7 DEF Domain, h

\* A mailbox's domain and a website's are domain names of two labels or more.
LEMMA NodeDomains ==
  ASSUME NEW q \in Question
  PROVE  /\ NodeMail(q) # None => /\ NodeMail(q) = q.email /\ q.email \in Domain
                                  /\ Len(q.email) >= 2
         /\ NodeSite(q) # None => /\ NodeSite(q) \in Domain /\ Len(NodeSite(q)) >= 2
                                  /\ q.website # None
  <1>1. /\ q.email # None => q.email \in Domain
        /\ q.website # None => q.website.host \in Domain
    BY DEF Question, Optional
  <1>2. \A d \in Domain : Node!WithoutWww(Node!Hostname(d)) \in Domain
    BY HostnameKeeps, BareDomain, SameMatching
  <1> QED
    BY <1>1, <1>2 DEF NodeMail, NodeSite, Node!CompanyEmailDomain,
                      Node!CanonicalWebsiteDomain, Node!IsDomain

\* The same promise, for a list that is at least the default one.
LEMMA NodePromise ==
  ASSUME NEW q \in Question, NodeBasis(q)
  PROVE  LET d == Node!DeriveCompanyIdentity(q)
         IN  /\ d.domain \in Domain /\ Len(d.domain) >= 2 /\ d.name # None
             /\ Corroborated(q, NodeHost(q), d, NodeFreeDomains)
  <1> DEFINE d == Node!DeriveCompanyIdentity(q)
  <1>1. d.name = q.name /\ d.domain = IF NodeSite(q) # None THEN NodeSite(q) ELSE NodeMail(q)
    BY NodeVerdict
  <1> HIDE DEF d
  <1>2. q.name # None
    BY Zenon DEF NodeBasis, NodeUnnamed, Node!IsGenericCompanyName
  <1>3. /\ NodeMail(q) # None /\ NodeMail(q) \notin NodeFreeDomains
        /\ NodeMail(q) = q.email /\ q.email \in Domain /\ Len(q.email) >= 2
    BY NodeDomains DEF NodeBasis, Node!FreeDomains
  <1>4. q.email # None
    BY <1>3, DomainAssumption
  <1>5. CASE NodeSite(q) = None
    <2>1. NodeHost(q) = None /\ d.domain = q.email
      BY <1>1, <1>3, <1>5 DEF NodeBasis, NodeHost
    <2>2. NamedAfter(q.name, d.domain)
      BY <1>3, <1>5, <2>1, SameMatching, PythonMatching DEF NodeBasis
    <2>3. SameSite(d.domain, q.email)
      BY <1>3, <2>1, SuffixOfItself DEF SameSite
    <2>4. Corroborated(q, NodeHost(q), d, NodeFreeDomains)
      BY <1>1, <1>2, <1>3, <1>4, <2>1, <2>2, <2>3 DEF Corroborated
    <2> QED
      BY <1>1, <1>2, <1>3, <2>1, <2>4 DEF d
  <1>6. CASE NodeSite(q) # None
    <2>1. /\ Py!DomainsMatch(q.email, NodeSite(q))
          /\ NodeShown(q) \/ Py!CompanyNameMatchesDomain(q.name, NodeSite(q))
      BY <1>3, <1>6, SameMatching DEF NodeBasis
    <2>2. NodeSite(q) \in Domain /\ Len(NodeSite(q)) >= 2 /\ d.domain = NodeSite(q)
      BY <1>1, <1>6, NodeDomains
    <2>3. /\ NodeSite(q) = Bare(NodeHost(q))
          /\ NodeHost(q) = Node!Hostname(q.website.host) /\ q.website # None
      <3>1. q.website # None /\ q.website.shape = "plain"
        BY <1>6 DEF NodeSite, Node!CanonicalWebsiteDomain
      <3>2. NodeHost(q) = Node!Hostname(q.website.host)
        BY <3>1 DEF NodeHost, Node!Supplied
      <3>3. NodeSite(q) = Py!WithoutWww(Node!Hostname(q.website.host))
        BY <1>6, SameMatching DEF NodeSite, Node!CanonicalWebsiteDomain
      <3> QED
        BY <3>1, <3>2, <3>3, PythonMatching
    <2>4. NodeHost(q) # None
      <3>1. q.website.host \in Domain
        BY <2>3 DEF Question, Optional
      <3>2. NodeHost(q) \in Domain
        BY <2>3, <3>1, HostnameKeeps
      <3> QED
        BY <3>2, DomainAssumption
    <2>5. SameSite(d.domain, q.email)
      BY <2>1, <2>2, PythonMatching DEF SameSite
    <2>6. \/ NamedAfter(q.name, d.domain)
          \/ /\ q.site # None /\ q.site.name = q.name.text
             /\ SameSite(d.domain, Bare(q.site.domain))
      BY <2>1, <2>2, SameMatching, PythonMatching DEF NodeShown
    <2>7. Corroborated(q, NodeHost(q), d, NodeFreeDomains)
      BY <1>1, <1>2, <1>3, <1>4, <2>2, <2>3, <2>4, <2>5, <2>6 DEF Corroborated
    <2> QED
      BY <1>1, <1>2, <2>2, <2>7 DEF d
  <1> QED
    BY <1>5, <1>6

-------------------------------------------------------------------------------
(* The answers the caller compares.                                         *)

\* The Python gate raises on what urlsplit cannot split and decides otherwise.
LEMMA PythonRaisesOrDecides ==
  ASSUME NEW q
  PROVE  LET d == Py!DeriveCompanyIdentity(q)
         IN  \/ d.status = "raised" /\ d.domain = None /\ d = Decision("raised", None, None, "ValueError")
             \/ d = Py!Decide(q)
  BY DEF Py!DeriveCompanyIdentity, Py!Decision, Decision

\* Every gate that has answered gave its answer to the question asked.
Answered ==
  /\ input \in Question
  /\ python \in {None, Py!DeriveCompanyIdentity(input)}
  /\ node \in {None, Node!DeriveCompanyIdentity(input)}

\* The question is asked once and each answer stays as given.
THEOREM AnswersStand == Spec => []Answered
  <1>1. Init => Answered
    BY InputAssumption DEF Init, Answered
  <1>2. Answered /\ [Next]_vars => Answered'
    BY DEF Answered, Next, AskPython, AskNode, vars
  <1> QED
    BY <1>1, <1>2, PTL DEF Spec

\* What the Python gate's answer says if it is "verified".
LEMMA PythonVerified ==
  ASSUME Answered, python # None, python.status = "verified"
  PROVE  python = Py!Decide(input) /\ PyBasis(input) /\ input \in Question
  <1>1. python = Py!DeriveCompanyIdentity(input) /\ input \in Question
    BY DEF Answered
  <1>2. python = Py!Decide(input)
    BY <1>1, PythonRaisesOrDecides, "raised" # "verified"
  <1> QED
    BY <1>1, <1>2, PythonVerdict

\* A company the Python gate verifies has a mailbox on no list of free ones, in
\* the domain of its website if one was given, and a name that is that domain's
\* or was read from a verified site in the website's domain.
THEOREM PythonVerifiesTheCorroborated == Spec => []PythonVerifiedIsCorroborated
  <1>1. Answered => PythonVerifiedIsCorroborated
    <2> SUFFICES ASSUME Answered, python # None, python.status = "verified"
                 PROVE  Corroborated(input, PyHost(input), python, Py!FreeDomains(input))
      BY DEF PythonVerifiedIsCorroborated
    <2>1. python = Py!Decide(input) /\ PyBasis(input) /\ input \in Question
      BY PythonVerified
    <2> QED
      BY <2>1, PythonPromise
  <1> QED
    BY <1>1, AnswersStand, PTL

\* The Node gate promises the same of its default list, which a caller extends
\* and cannot shorten.
THEOREM NodeVerifiesTheCorroborated == Spec => []NodeVerifiedIsCorroborated
  <1>1. Answered => NodeVerifiedIsCorroborated
    <2> SUFFICES ASSUME Answered, node # None, node.status = "verified"
                 PROVE  Corroborated(input, NodeHost(input), node, NodeFreeDomains)
      BY DEF NodeVerifiedIsCorroborated
    <2>1. node = Node!DeriveCompanyIdentity(input) /\ NodeBasis(input) /\ input \in Question
      BY NodeVerdict DEF Answered
    <2> QED
      BY <2>1, NodePromise
  <1> QED
    BY <1>1, AnswersStand, PTL

\* Answers are decisions, and a verified one names a company and a domain.
THEOREM DecisionsAreWellFormed == Spec => []TypeOK
  <1>1. Init => input \in Inputs
    BY DEF Init
  <1>2. input \in Inputs /\ [Next]_vars => (input \in Inputs)'
    BY DEF Next, AskPython, AskNode, vars
  <1>3. ASSUME Answered, python # None
        PROVE  /\ python.status \in Statuses
               /\ python.domain # None => Len(python.domain) >= 2
               /\ python.status = "verified" => python.name # None /\ python.domain # None
    <2>1. python = Py!DeriveCompanyIdentity(input) /\ input \in Question
      BY <1>3 DEF Answered
    <2>2. CASE python.status = "raised" /\ python.domain = None
      BY <2>2 DEF Statuses
    <2>3. CASE python = Py!Decide(input)
      <3> DEFINE d == Py!Decide(input)
      <3>1. /\ d.status \in {"verified", "needs_review"}
            /\ d.domain \in {None, PySite(input), PyMail(input)}
            /\ d.status = "verified" => PyBasis(input)
        BY PythonVerdict
      <3>2. PyBasis(input) => d.domain \in Domain /\ d.name # None
        BY <2>1, PythonPromise
      <3> HIDE DEF d
      <3>3. d.domain # None => Len(d.domain) >= 2
        BY <2>1, <3>1, PythonDomains
      <3> QED
        BY <2>3, <3>1, <3>2, <3>3, DomainAssumption DEF Statuses, d
    <2> QED
      BY <2>1, <2>2, <2>3, PythonRaisesOrDecides
  <1>4. ASSUME Answered, node # None
        PROVE  /\ node.status \in Statuses
               /\ node.domain # None => Len(node.domain) >= 2
               /\ node.status = "verified" => node.name # None /\ node.domain # None
    <2>1. node = Node!DeriveCompanyIdentity(input) /\ input \in Question
      BY <1>4 DEF Answered
    <2> DEFINE d == Node!DeriveCompanyIdentity(input)
    <2>2. /\ d.status \in {"verified", "needs_review"}
          /\ d.domain \in {None, NodeSite(input), NodeMail(input)}
          /\ d.status = "verified" => NodeBasis(input)
      BY NodeVerdict
    <2>3. NodeBasis(input) => d.domain \in Domain /\ d.name # None
      BY <2>1, NodePromise
    <2> HIDE DEF d
    <2>4. d.domain # None => Len(d.domain) >= 2
      BY <2>1, <2>2, NodeDomains
    <2> QED
      BY <2>1, <2>2, <2>3, <2>4, DomainAssumption DEF Statuses, d
  <1>5. Answered /\ input \in Inputs => TypeOK
    BY <1>3, <1>4 DEF TypeOK
  <1> QED
    BY <1>1, <1>2, <1>5, AnswersStand, PTL DEF Spec

\* Adding the asker's own domain to the free mailboxes leaves no gate anything
\* to verify, whatever the website and the site metadata say.
THEOREM FreeMailboxesAreNeverVerified == Spec => []FreeListOnlyTightens
  <1>1. ASSUME NEW q, NEW wider, wider.email = q.email, wider.free # None,
               wider.free = Py!FreeDomains(q) \cup {q.email}
        PROVE  /\ Py!DeriveCompanyIdentity(wider).status # "verified"
               /\ Node!DeriveCompanyIdentity(wider).status # "verified"
    <2>1. q.email \in Py!FreeDomains(wider) /\ q.email \in Node!FreeDomains(wider)
      BY <1>1 DEF Py!FreeDomains, Node!FreeDomains
    <2>2. PyMail(wider) \in {None, q.email} /\ NodeMail(wider) \in {None, q.email}
      BY <1>1 DEF PyMail, NodeMail, Py!CompanyEmailDomain, Node!CompanyEmailDomain
    <2>3. ~ PyBasis(wider) /\ ~ NodeBasis(wider)
      BY <2>1, <2>2 DEF PyBasis, NodeBasis
    <2>4. Py!Decide(wider).status # "verified"
      BY <2>3, PythonVerdict
    <2> QED
      BY <2>3, <2>4, PythonRaisesOrDecides, NodeVerdict, "raised" # "verified"
  <1>2. input \in Inputs => FreeListOnlyTightens
    <2> SUFFICES ASSUME input \in Inputs, input.email # None
                 PROVE  LET wider == [input EXCEPT !.free = Py!FreeDomains(input) \cup {input.email}]
                        IN  /\ Py!DeriveCompanyIdentity(wider).status # "verified"
                            /\ Node!DeriveCompanyIdentity(wider).status # "verified"
      BY DEF FreeListOnlyTightens
    <2> DEFINE list  == Py!FreeDomains(input) \cup {input.email}
               wider == [input EXCEPT !.free = list]
    <2>1. input \in Question /\ list # None
      BY InputAssumption
    <2> HIDE DEF list
    <2>2. wider.email = input.email /\ wider.free = list
      BY <2>1 DEF Question
    <2> HIDE DEF wider
    <2>3. /\ Py!DeriveCompanyIdentity(wider).status # "verified"
          /\ Node!DeriveCompanyIdentity(wider).status # "verified"
      BY <1>1, <2>1, <2>2 DEF list
    <2> QED
      BY <2>3 DEF wider, list
  <1>3. Init => input \in Inputs
    BY DEF Init
  <1>4. input \in Inputs /\ [Next]_vars => (input \in Inputs)'
    BY DEF Next, AskPython, AskNode, vars
  <1> QED
    BY <1>2, <1>3, <1>4, PTL DEF Spec

\* What the caller says it read from the site can add a verification, and can
\* neither withdraw one nor move it to another domain.
THEOREM SiteMetadataNeverHurts == Spec => []SiteMetadataOnlyHelps
  <1>1. ASSUME NEW q, NEW bare, bare.email = q.email, bare.name = q.name,
               bare.website = q.website, bare.free = q.free, bare.generic = q.generic,
               bare.site = None
        PROVE  /\ Py!DeriveCompanyIdentity(bare).status = "verified" =>
                    /\ Py!DeriveCompanyIdentity(q).status = "verified"
                    /\ Py!DeriveCompanyIdentity(q).domain = Py!DeriveCompanyIdentity(bare).domain
               /\ Node!DeriveCompanyIdentity(bare).status = "verified" =>
                    /\ Node!DeriveCompanyIdentity(q).status = "verified"
                    /\ Node!DeriveCompanyIdentity(q).domain = Node!DeriveCompanyIdentity(bare).domain
    <2>1. /\ PyMail(bare) = PyMail(q) /\ PySite(bare) = PySite(q)
          /\ Py!FreeDomains(bare) = Py!FreeDomains(q)
          /\ NodeMail(bare) = NodeMail(q) /\ NodeSite(bare) = NodeSite(q)
          /\ Node!FreeDomains(bare) = Node!FreeDomains(q)
      BY <1>1 DEF PyMail, PySite, NodeMail, NodeSite, Py!FreeDomains, Node!FreeDomains
    <2>2. /\ Py!IsGenericCompanyName(bare) <=> Py!IsGenericCompanyName(q)
          /\ NodeUnnamed(bare) <=> NodeUnnamed(q)
      BY <1>1, Zenon DEF Py!IsGenericCompanyName, Py!Generic, NodeUnnamed,
                         Node!IsGenericCompanyName, Node!Generic
    <2>3. ~ PyShown(bare) /\ ~ NodeShown(bare)
      BY <1>1 DEF PyShown, NodeShown
    <2>4. PyBasis(bare) => PyBasis(q)
      BY <1>1, <2>1, <2>2, <2>3 DEF PyBasis
    <2>5. NodeBasis(bare) => NodeBasis(q)
      BY <1>1, <2>1, <2>2, <2>3 DEF NodeBasis
    <2>6. Node!DeriveCompanyIdentity(bare).status = "verified" =>
            /\ Node!DeriveCompanyIdentity(q).status = "verified"
            /\ Node!DeriveCompanyIdentity(q).domain = Node!DeriveCompanyIdentity(bare).domain
      BY <2>1, <2>5, NodeVerdict
    <2>7. Py!Decide(bare).status = "verified" =>
            /\ Py!Decide(q).status = "verified" /\ Py!Decide(q).domain = Py!Decide(bare).domain
      BY <1>1, <2>1, <2>4, PythonVerdict
    <2>8. \/ /\ Py!DeriveCompanyIdentity(bare) = Decision("raised", None, None, "ValueError")
          \/ /\ Py!DeriveCompanyIdentity(bare) = Py!Decide(bare)
             /\ Py!DeriveCompanyIdentity(q) = Py!Decide(q)
      BY <1>1 DEF Py!DeriveCompanyIdentity, Py!Decision, Decision
    <2>9. Decision("raised", None, None, "ValueError").status # "verified"
      BY DEF Decision
    <2> QED
      BY <2>6, <2>7, <2>8, <2>9
  <1>2. input \in Inputs => SiteMetadataOnlyHelps
    <2> SUFFICES ASSUME input \in Inputs PROVE SiteMetadataOnlyHelps
      OBVIOUS
    <2> DEFINE bare == [input EXCEPT !.site = None]
    <2>1. /\ bare.email = input.email /\ bare.name = input.name
          /\ bare.website = input.website /\ bare.free = input.free
          /\ bare.generic = input.generic /\ bare.site = None
      BY InputAssumption DEF Question
    <2> HIDE DEF bare
    <2>2. /\ Py!DeriveCompanyIdentity(bare).status = "verified" =>
               /\ Py!DeriveCompanyIdentity(input).status = "verified"
               /\ Py!DeriveCompanyIdentity(input).domain = Py!DeriveCompanyIdentity(bare).domain
          /\ Node!DeriveCompanyIdentity(bare).status = "verified" =>
               /\ Node!DeriveCompanyIdentity(input).status = "verified"
               /\ Node!DeriveCompanyIdentity(input).domain = Node!DeriveCompanyIdentity(bare).domain
      BY <1>1, <2>1
    <2> QED
      BY <2>2 DEF SiteMetadataOnlyHelps, bare
  <1>3. Init => input \in Inputs
    BY DEF Init
  <1>4. input \in Inputs /\ [Next]_vars => (input \in Inputs)'
    BY DEF Next, AskPython, AskNode, vars
  <1> QED
    BY <1>2, <1>3, <1>4, PTL DEF Spec

-------------------------------------------------------------------------------
(* Where the gates are the same gate.                                       *)

\* Removing www. leaves the top-level label.
LEMMA LastLabel ==
  ASSUME NEW d \in Domain
  PROVE  Py!WithoutWww(d)[Len(Py!WithoutWww(d))] = d[Len(d)]
  <1>1. d \in Seq(DOMAIN Labels) /\ d # <<>> /\ Len(d) \in Nat
    BY DEF Domain
  <1>2. CASE Len(d) > 1 /\ Head(d) = "www"
    <2>1. /\ Py!WithoutWww(d) = Tail(d) /\ Len(Tail(d)) = Len(d) - 1
          /\ \A k \in 1..Len(Tail(d)) : Tail(d)[k] = d[k + 1]
      BY <1>1, <1>2, HeadTailProperties DEF Py!WithoutWww
    <2>2. Len(d) - 1 \in 1..(Len(d) - 1) /\ (Len(d) - 1) + 1 = Len(d)
      BY <1>1, <1>2
    <2> QED
      BY <2>1, <2>2
  <1>3. CASE ~ (Len(d) > 1 /\ Head(d) = "www")
    BY <1>3 DEF Py!WithoutWww
  <1> QED
    BY <1>2, <1>3

\* The patterns differ on nothing but top-level labels of one character.
LEMMA SamePattern ==
  ASSUME NEW d \in Domain, Form(d, Len(d)) # "short"
  PROVE  Py!IsDomain(d) <=> Node!IsDomain(d)
  <1>1. Len(d) \in Nat /\ DOMAIN d = 1..Len(d)
    BY DEF Domain
  <1>2. \A k : Py!Form(d, k) = Form(d, k) /\ Node!Form(d, k) = Form(d, k)
    BY DEF Py!Form, Node!Form, Form
  <1>3. Len(d) >= 2 => Len(d) \in DOMAIN d
    BY <1>1
  <1> QED
    BY <1>2, <1>3 DEF Py!IsDomain, Node!IsDomain

\* On the common ground both gates read the same mailbox and the same website.
LEMMA SameDomains ==
  ASSUME input \in Question, CommonGround
  PROVE  /\ PyMail(input) = NodeMail(input)
         /\ PySite(input) = NodeSite(input)
         /\ ~ Py!UrlsplitRaises(input.website)
         /\ Node!Supplied(input.website) <=> input.website # None
  <1>1. /\ input.email # None => input.email \in Domain
        /\ input.website # None => input.website.host \in Domain
    BY DEF Question, Optional
  <1>2. PyMail(input) = NodeMail(input)
    BY <1>1, SamePattern DEF CommonGround, PyMail, NodeMail, Py!CompanyEmailDomain,
                             Node!CompanyEmailDomain
  <1>3. CASE input.website = None
    BY <1>2, <1>3 DEF PySite, NodeSite, Py!CanonicalWebsiteDomain,
                      Node!CanonicalWebsiteDomain, Py!UrlsplitRaises, Node!Supplied
  <1>4. CASE input.website # None
    <2> DEFINE host == input.website.host
               bare == Py!WithoutWww(host)
    <2>1. /\ input.website.shape \in {"plain", "foreign"} /\ host \in Domain
          /\ \A k \in DOMAIN host : Form(host, k) # "intl"
          /\ Form(host, Len(host)) # "short"
      BY <1>1, <1>4 DEF CommonGround
    <2>2. Node!Hostname(host) = host
      BY <2>1, HostnameKeeps
    <2>3. Node!WithoutWww(host) = bare /\ bare \in Domain
      BY <2>1, SameMatching, BareDomain
    <2>4. bare[Len(bare)] = host[Len(host)]
      BY <2>1, LastLabel
    <2>5. Form(bare, Len(bare)) # "short"
      BY <2>1, <2>4 DEF Form
    <2>6. Py!IsDomain(bare) <=> Node!IsDomain(bare)
      BY <2>3, <2>5, SamePattern
    <2>7. PySite(input) = NodeSite(input)
      BY <1>4, <2>1, <2>2, <2>3, <2>6
      DEF PySite, NodeSite, Py!CanonicalWebsiteDomain, Node!CanonicalWebsiteDomain
    <2> QED
      BY <1>2, <1>4, <2>1, <2>7 DEF Py!UrlsplitRaises, Node!Supplied
  <1> QED
    BY <1>3, <1>4

\* "The same offline company identity gate": on plainly written websites, ASCII
\* domains and equal lists the two gates give the same decision.
THEOREM GatesAgree == Spec => []GatesAgreeOnCommonGround
  <1>1. Answered => GatesAgreeOnCommonGround
    <2> SUFFICES ASSUME Answered, python # None, node # None, CommonGround
                 PROVE  python = node
      BY DEF GatesAgreeOnCommonGround
    <2> DEFINE q    == input
               name == q.name
               mail == PyMail(q)
               site == PySite(q)
               unnamed == Py!IsGenericCompanyName(q)
               unread  == q.website # None /\ site = None
               free    == mail \in Py!FreeDomains(q)
               agree   == Py!DomainsMatch(mail, site)
               shown   == PyShown(q)
               onSite  == Py!CompanyNameMatchesDomain(name, site)
               onMail  == Py!CompanyNameMatchesDomain(name, mail)
               unnamed2 == NodeUnnamed(q)
               unread2  == Node!Supplied(q.website) /\ NodeSite(q) = None
               free2    == NodeMail(q) \in Node!FreeDomains(q)
               agree2   == Node!DomainsMatch(NodeMail(q), NodeSite(q))
               shown2   == NodeShown(q)
               onSite2  == Node!CompanyNameMatchesDomain(name, NodeSite(q))
               onMail2  == Node!CompanyNameMatchesDomain(name, NodeMail(q))
    <2>1. /\ q \in Question
          /\ python = Py!DeriveCompanyIdentity(q) /\ node = Node!DeriveCompanyIdentity(q)
      BY DEF Answered
    <2>2. /\ mail = NodeMail(q) /\ site = NodeSite(q)
          /\ ~ Py!UrlsplitRaises(q.website)
          /\ Node!Supplied(q.website) <=> q.website # None
      BY <2>1, SameDomains
    <2>3. python = Py!Decide(q)
      BY <2>1, <2>2 DEF Py!DeriveCompanyIdentity
    <2>4. unnamed <=> unnamed2
      BY Zenon DEF CommonGround, NodeUnnamed, Py!IsGenericCompanyName,
                   Node!IsGenericCompanyName
    <2>5. mail # None => (free <=> free2)
      <3>1. mail # None => mail = q.email /\ q.email # None
        BY DEF PyMail, Py!CompanyEmailDomain
      <3> QED
        BY <2>2, <3>1 DEF CommonGround
    <2>6. /\ unread <=> unread2
          /\ agree <=> agree2
          /\ shown <=> shown2
          /\ onSite <=> onSite2
          /\ onMail <=> onMail2
      BY <2>2, SameMatching DEF PyShown, NodeShown
    <2>7. python = Answer(name, mail, site, unnamed, unread, free, agree, shown, onSite, onMail)
      BY <2>3, PythonAnswers
    <2>8. node = Answer(name, NodeMail(q), NodeSite(q), unnamed2, unread2, free2, agree2,
                        shown2, onSite2, onMail2)
      BY <2>1, NodeAnswers
    <2>9. node = Answer(name, mail, site, unnamed2, unread2, free2, agree2,
                        shown2, onSite2, onMail2)
      BY <2>2, <2>8
    <2> HIDE DEF name, mail, site, unnamed, unread, free, agree, shown, onSite, onMail,
                 unnamed2, unread2, free2, agree2, shown2, onSite2, onMail2
    <2> QED
      BY <2>4, <2>5, <2>6, <2>7, <2>9 DEF Answer
  <1> QED
    BY <1>1, AnswersStand, PTL

===============================================================================
