----------------------------- MODULE NodeIdentity -----------------------------
(* The identity gate of packages/node/src/index.ts, without the optional    *)
(* normalizeCompanyNameForDomain hook, which the Python gate does not have. *)
EXTENDS IdentityInputs

\* DOMAIN_PATTERN: the last label may be a single character.
IsDomain(domain) ==
  /\ Len(domain) >= 2
  /\ \A k \in DOMAIN domain : Form(domain, k) \in {"plain", "short"}

\* Slip: the hostname is compared as the URL spells it.
KeepWww(domain) == domain

WithoutWww(domain) ==
  IF Len(domain) > 1 /\ Head(domain) = "www" THEN Tail(domain) ELSE domain

CompanyEmailDomain(email) ==
  IF email # None /\ IsDomain(email) THEN email ELSE None

\* new URL(): international labels become ASCII ones.  A scheme is looked for
\* before any trimming, so leading space makes the URL unparsable.
Hostname(host) ==
  [k \in DOMAIN host |-> IF host[k] \in DOMAIN Puny THEN Puny[host[k]] ELSE host[k]]

CanonicalWebsiteDomain(website) ==
  IF /\ website # None /\ website.shape = "plain"
     /\ IsDomain(WithoutWww(Hostname(website.host)))
  THEN WithoutWww(Hostname(website.host)) ELSE None

\* website?.trim()
Supplied(website) == website # None /\ website.shape # "blank"

\* A caller's lists extend the defaults.
FreeDomains(input) ==
  IF input.free = None THEN NodeFreeDomains ELSE NodeFreeDomains \cup input.free
Generic(input) ==
  IF input.generic = None THEN GenericNames ELSE GenericNames \cup input.generic

IsGenericCompanyName(input) ==
  input.name = None \/ input.name.folded \in Generic(input) \cup {""}

\* Nothing matches what is missing.
DomainsMatch(left, right) ==
  /\ left # None /\ right # None
  /\ IsSuffix(left, right) \/ IsSuffix(right, left)

CompanyNameMatchesDomain(name, domain) ==
  /\ name # None /\ domain # None
  /\ LET bare == WithoutWww(domain)
     IN  /\ Len(bare) = 2
         /\ name.key # "" /\ name.key = Labels[bare[1]].key

\* Slip: the name of a site of any domain will do.
SiteCorroboratesAnywhere(name, website, site) ==
  /\ name # None /\ website # None /\ site # None
  /\ site.name = name.text

\* The caller's verified site bears the name and lies in the website's domain.
SiteCorroborates(name, website, site) ==
  /\ name # None /\ website # None /\ site # None
  /\ site.name = name.text
  /\ DomainsMatch(website, WithoutWww(site.domain))

\* deriveCompanyIdentity
DeriveCompanyIdentity(input) ==
  LET name    == input.name
      mail    == CompanyEmailDomain(input.email)
      website == CanonicalWebsiteDomain(input.website)
      free    == mail \in FreeDomains(input)
      Review(domain, reason) == Decision("needs_review", name, domain, reason)
      Verified(domain, reason) == Decision("verified", name, domain, reason)
  IN  FirstOf(<<
    Row(IsGenericCompanyName(input) \/ ~ name.nodeSlug,
        Decision("needs_review", None,
                 IF website # None THEN website ELSE mail, "missing_company_name")),
    Row(mail = None, Review(website, "invalid_email")),
    Row(Supplied(input.website) /\ website = None, Review(None, "invalid_website")),
    Row(website # None /\ ~ free /\ ~ DomainsMatch(mail, website),
        Review(website, "domain_conflict")),
    Row(website # None /\ free,
        Review(website, "free_email_with_unverified_website")),
    Row(SiteCorroborates(name, website, input.site),
        Verified(website, "corporate_email_domain_site_metadata")),
    Row(website # None /\ CompanyNameMatchesDomain(name, website),
        Verified(website, "matching_email_and_website")),
    Row(website # None, Review(website, "corporate_email_domain_unverified")),
    Row(free, Review(None, "free_email_without_website")),
    Row(CompanyNameMatchesDomain(name, mail), Verified(mail, "corporate_email_domain")),
    Row(TRUE, Review(mail, "corporate_email_domain_unverified")) >>)
===============================================================================
