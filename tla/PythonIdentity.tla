---------------------------- MODULE PythonIdentity ----------------------------
(* The identity gate of src/enrichfold/identity.py.                         *)
EXTENDS IdentityInputs

\* Slip: a bare top-level label passes for a domain.
IsDomainOrLabel(domain) ==
  /\ Len(domain) >= 1
  /\ \A k \in DOMAIN domain : Form(domain, k) \in {"plain", "short"}
  /\ Form(domain, Len(domain)) = "plain"

\* _DOMAIN_RE: the last label has at least two characters.
IsDomain(domain) ==
  /\ Len(domain) >= 2
  /\ \A k \in DOMAIN domain : Form(domain, k) \in {"plain", "short"}
  /\ Form(domain, Len(domain)) = "plain"

WithoutWww(domain) ==
  IF Len(domain) > 1 /\ Head(domain) = "www" THEN Tail(domain) ELSE domain

\* Slip: the mail domain is stripped of www. like a website's.
CompanyEmailDomainWithoutWww(email) ==
  IF email # None /\ IsDomain(email) THEN WithoutWww(email) ELSE None

CompanyEmailDomain(email) ==
  IF email # None /\ IsDomain(email) THEN email ELSE None

\* urlsplit raises on what it cannot split, before the gate decides anything.
UrlsplitRaises(website) == website # None /\ website.shape = "unparsable"

CanonicalWebsiteDomain(website) ==
  IF /\ website # None /\ website.shape \in {"plain", "leading", "port"}
     /\ IsDomain(WithoutWww(website.host))
  THEN WithoutWww(website.host) ELSE None

\* A caller's lists replace the defaults.
FreeDomains(input) == IF input.free = None THEN PyFreeDomains ELSE input.free
Generic(input) == IF input.generic = None THEN GenericNames ELSE input.generic

IsGenericCompanyName(input) ==
  input.name = None \/ input.name.folded \in Generic(input) \cup {""}

\* Nothing matches what is missing.
DomainsMatch(left, right) ==
  /\ left # None /\ right # None
  /\ IsSuffix(left, right) \/ IsSuffix(right, left)

CompanyNameMatchesDomain(name, domain) ==
  /\ name # None /\ domain # None
  /\ LET bare == WithoutWww(domain)
     IN  /\ Len(bare) = 2
         /\ name.key # "" /\ name.key = Labels[bare[1]].key

\* Slip: the name of a site of any domain will do.
SiteCorroboratesAnywhere(name, website, site) ==
  /\ name # None /\ website # None /\ site # None
  /\ site.name = name.text

\* The caller's verified site bears the name and lies in the website's domain.
SiteCorroborates(name, website, site) ==
  /\ name # None /\ website # None /\ site # None
  /\ site.name = name.text
  /\ DomainsMatch(website, WithoutWww(site.domain))

\* derive_company_identity, once urlsplit has returned.
Decide(input) ==
  LET name    == input.name
      mail    == CompanyEmailDomain(input.email)
      website == CanonicalWebsiteDomain(input.website)
      free    == mail \in FreeDomains(input)
      Review(domain, reason) == Decision("needs_review", name, domain, reason)
      Verified(domain, reason) == Decision("verified", name, domain, reason)
  IN  FirstOf(<<
    Row(IsGenericCompanyName(input),
        Decision("needs_review", None,
                 IF website # None THEN website ELSE mail, "missing_company_name")),
    Row(mail = None, Review(website, "invalid_email")),
    Row(input.website # None /\ website = None, Review(None, "invalid_website")),
    Row(website # None /\ ~ free /\ ~ DomainsMatch(mail, website),
        Review(website, "domain_conflict")),
    Row(website # None /\ free,
        Review(website, "free_email_with_unverified_website")),
    Row(SiteCorroborates(name, website, input.site),
        Verified(website, "corporate_email_domain_site_metadata")),
    Row(website # None /\ CompanyNameMatchesDomain(name, website),
        Verified(website, "matching_email_and_website")),
    Row(website # None, Review(website, "corporate_email_domain_unverified")),
    Row(free, Review(None, "free_email_without_website")),
    Row(CompanyNameMatchesDomain(name, mail), Verified(mail, "corporate_email_domain")),
    Row(TRUE, Review(mail, "corporate_email_domain_unverified")) >>)

\* Slip: the verified site stands in for the website that was given.
DeriveFromSite(input) ==
  IF UrlsplitRaises(input.website) THEN Decision("raised", None, None, "ValueError")
  ELSE IF input.site = None THEN Decide(input)
  ELSE Decide([input EXCEPT !.website = [shape |-> "plain", host |-> input.site.domain]])

\* derive_company_identity: the decision, or the exception the caller gets.
DeriveCompanyIdentity(input) ==
  IF UrlsplitRaises(input.website)
  THEN Decision("raised", None, None, "ValueError") ELSE Decide(input)
===============================================================================
