-------------------------- MODULE EnrichmentPipeline --------------------------
(***************************************************************************)
(* EnrichmentPipeline.enrich of pipeline.py: the providers are asked one    *)
(* after the other on the calling thread, their evidence is turned into     *)
(* claims as it is iterated, and the claims are reconciled at the end.  A   *)
(* provider's exception, also one from the middle of its iterator, leaves   *)
(* enrich() at once.                                                        *)
(***************************************************************************)
EXTENDS Reconciliation

CONSTANTS
  NumProviders,  \* providers are 1..NumProviders
  EvidenceSet,   \* what may be discovered: [url, conf, at, attributes]
  Requests,      \* the requested_fields a caller may pass
  MaxEvidence,   \* bound: evidence discovered in one run
  None

Evidence == [url : Nat, conf : Nat, at : STRING,
             attributes : Seq([name : DOMAIN Strip, value : DOMAIN Canonical])]

ResolvedAttribute == [value : DOMAIN Canonical, url : Nat, at : STRING, conf : Nat]
EnrichmentResult ==
  [attributes : UNION {[names -> ResolvedAttribute] : names \in SUBSET Named},
   missing : Seq(Named), review : Seq(Named)]

ASSUME PipelineAssumption ==
  /\ NumProviders \in Nat /\ MaxEvidence \in Nat
  /\ EvidenceSet \subseteq Evidence
  /\ Requests \subseteq Seq(DOMAIN Strip)
  /\ None \notin EnrichmentResult

VARIABLES
  requested,     \* requested_fields
  pc,            \* "discover" | "returned" | "raised"
  provider,      \* index of the provider being asked
  discovered,    \* history: the evidence so far, in order
  claims,        \* the claims made of it
  result         \* the EnrichmentResult

vars == <<requested, pc, provider, discovered, claims, result>>

Init ==
  /\ requested \in Requests
  /\ pc = "discover"
  /\ provider = 1
  /\ discovered = <<>>
  /\ claims = <<>>
  /\ result = None

\* Slip: the claim is dated by the first evidence seen, not by its own.
ClaimsOfFixedDate(evidence) ==
  [k \in DOMAIN evidence.attributes |->
    [ field |-> evidence.attributes[k].name, value |-> evidence.attributes[k].value,
      kind |-> "observed", conf |-> evidence.conf, url |-> evidence.url,
      at |-> IF discovered = <<>> THEN evidence.at ELSE discovered[1].evidence.at ]]

\* Claim(field=attribute, value=value, evidence=evidence) per attribute, in the
\* order of the mapping; the kind is the default one.
ClaimsOf(evidence) ==
  [k \in DOMAIN evidence.attributes |->
    [ field |-> evidence.attributes[k].name, value |-> evidence.attributes[k].value,
      kind |-> "observed", conf |-> evidence.conf, url |-> evidence.url,
      at |-> evidence.at ]]

\* Slip: blank attribute names are let through.
ClaimableAlways(evidence) == evidence \in EvidenceSet

\* Claim.__post_init__ refuses a blank field.
Claimable(evidence) ==
  \A k \in DOMAIN evidence.attributes : Strip[evidence.attributes[k].name] # Blank

Discover(evidence) ==
  /\ pc = "discover" /\ provider <= NumProviders
  /\ Len(discovered) < MaxEvidence
  /\ Claimable(evidence)
  /\ discovered' = Append(discovered, [provider |-> provider, evidence |-> evidence])
  /\ claims' = claims \o ClaimsOf(evidence)
  /\ UNCHANGED <<requested, pc, provider, result>>

\* The provider raises, or its evidence has a blank attribute name.
Fail ==
  /\ pc = "discover" /\ provider <= NumProviders
  /\ pc' = "raised"
  /\ UNCHANGED <<requested, provider, discovered, claims, result>>

NextProvider ==
  /\ pc = "discover" /\ provider <= NumProviders
  /\ provider' = provider + 1
  /\ UNCHANGED <<requested, pc, discovered, claims, result>>

\* What enrich() makes of the claims.
Enrichment ==
  [ attributes |-> Attributes(claims),
    missing    |-> Missing(Dedupe(requested), Attributes(claims)),
    review     |-> ReviewFields(claims) ]

Return ==
  /\ pc = "discover" /\ provider > NumProviders
  /\ CanReconcile(claims)
  /\ pc' = "returned"
  /\ result' = Enrichment
  /\ UNCHANGED <<requested, provider, discovered, claims>>

\* canonical_value raises on one of the values.
ReconcileFails ==
  /\ pc = "discover" /\ provider > NumProviders
  /\ ~ CanReconcile(claims)
  /\ pc' = "raised"
  /\ UNCHANGED <<requested, provider, discovered, claims, result>>

Stop == pc # "discover" /\ UNCHANGED vars

Next ==
  \/ \E evidence \in EvidenceSet : Discover(evidence)
  \/ Fail \/ NextProvider \/ Return \/ ReconcileFails \/ Stop

Spec == Init /\ [][Next]_vars

-------------------------------------------------------------------------------

TypeOK ==
  /\ requested \in Requests
  /\ pc \in {"discover", "returned", "raised"}
  /\ provider \in 1..(NumProviders + 1)
  /\ discovered \in Seq([provider : 1..NumProviders, evidence : EvidenceSet])
  /\ claims \in Seq(Claim) /\ \A c \in ToSet(claims) : c.kind = "observed"
  /\ result # None <=> pc = "returned"

\* The claims are those of the evidence discovered, none lost and none added,
\* and the result is made of all of them: the three never come apart, wherever
\* the iteration of a provider's evidence stops.
IInv ==
  /\ TypeOK
  /\ ToSet(claims) = UNION {ToSet(ClaimsOf(d.evidence)) : d \in ToSet(discovered)}
  /\ result # None => result = Enrichment

\* What the evidence says of a field, however the evidence spells it:
\* [value, url, at, conf] records.
Said(name) ==
  UNION { { [ value |-> e.attributes[k].value, url |-> e.url, at |-> e.at,
              conf |-> e.conf ] :
              k \in {j \in DOMAIN e.attributes : Strip[e.attributes[j].name] = name} } :
          e \in {discovered[d].evidence : d \in DOMAIN discovered} }

\* The result can be traced: every resolved attribute quotes one discovered
\* piece of evidence, whole, and no other evidence for it is more confident.
ResultTraced ==
  result # None =>
    \A name \in DOMAIN result.attributes :
      /\ result.attributes[name] \in Said(name)
      /\ \A other \in Said(name) : other.conf <= result.attributes[name].conf

\* Every requested field ends up in one place: resolved when anything was
\* discovered for it, and missing when nothing was; blank requests vanish.
RequestsAccounted ==
  result # None =>
    ToSet(result.missing) =
      {name \in {Strip[requested[k]] : k \in DOMAIN requested} \ {Blank} :
         Said(name) = {}}

\* A field goes to review exactly when the evidence disagrees about it, be it
\* two providers or one page that names the attribute twice.
DisagreementReviewed ==
  result # None =>
    ToSet(result.review) =
      {name \in DOMAIN result.attributes :
         Cardinality({Canonical[said.value] : said \in Said(name)}) > 1}
===============================================================================
