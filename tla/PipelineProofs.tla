---------------------------- MODULE PipelineProofs ----------------------------
(***************************************************************************)
(* EnrichmentPipeline.enrich for any number of providers, any evidence and  *)
(* any requests: what it returns can be traced to the evidence, accounts    *)
(* for every requested field and sends every disagreement to a person.      *)
(***************************************************************************)
EXTENDS EnrichmentPipeline, ReconciliationProofs

-------------------------------------------------------------------------------
(* Claims of evidence.                                                      *)

\* What Attributes makes of the chosen claim, and Said of an attribute.
Quote(c) == [value |-> c.value, url |-> c.url, at |-> c.at, conf |-> c.conf]

\* Evidence the constructor of Claim accepts makes observed claims.
LEMMA ClaimsOfType ==
  ASSUME NEW e \in EvidenceSet, Claimable(e)
  PROVE  ClaimsOf(e) \in Seq(Claim) /\ \A c \in ToSet(ClaimsOf(e)) : c.kind = "observed"
  <1> DEFINE list == e.attributes
             n == Len(list)
  <1>1. /\ list \in Seq([name : DOMAIN Strip, value : DOMAIN Canonical])
        /\ e.url \in Nat /\ e.conf \in Nat /\ e.at \in STRING
        /\ \A k \in DOMAIN list : Strip[list[k].name] # Blank
    BY PipelineAssumption DEF Evidence, Claimable
  <1>0. ClaimsOf(e) = [k \in DOMAIN list |->
          [field |-> list[k].name, value |-> list[k].value, kind |-> "observed",
           conf |-> e.conf, url |-> e.url, at |-> e.at]]
    BY DEF ClaimsOf
  <1> HIDE DEF list
  <1>2. /\ n \in Nat /\ DOMAIN list = 1..n
        /\ \A k \in DOMAIN list : /\ list[k].name \in Named
                                  /\ list[k].value \in DOMAIN Canonical
    <2> DEFINE R == [name : DOMAIN Strip, value : DOMAIN Canonical]
    <2>0. list \in Seq(R)
      BY <1>1
    <2>2. \A x \in R : x.name \in DOMAIN Strip /\ x.value \in DOMAIN Canonical
      OBVIOUS
    <2> HIDE DEF R
    <2>1. n \in Nat /\ DOMAIN list = 1..n /\ \A k \in DOMAIN list : list[k] \in R
      BY ONLY <2>0
    <2> HIDE DEF n
    <2> QED
      BY <1>1, <2>1, <2>2 DEF Named
  <1>3. ASSUME NEW k \in DOMAIN list
        PROVE  ClaimsOf(e)[k] \in Claim /\ ClaimsOf(e)[k].kind = "observed"
    BY <1>0, <1>1, <1>2, <1>3 DEF Claim, Kinds
  <1>4. DOMAIN ClaimsOf(e) = DOMAIN list
    BY <1>0
  <1> HIDE DEF n
  <1>5. ClaimsOf(e) \in [1..n -> Claim]
    <2>1. ClaimsOf(e) = [k \in 1..n |-> ClaimsOf(e)[k]]
      BY <1>0, <1>2, <1>4
    <2> QED
      BY <1>2, <1>3, <2>1
  <1>6. ClaimsOf(e) \in Seq(Claim)
    BY <1>2, <1>5
  <1>7. \A c \in ToSet(ClaimsOf(e)) : c.kind = "observed"
    BY <1>3, <1>4 DEF ToSet
  <1> QED
    BY <1>6, <1>7

\* The evidence of a field and the claims on it say the same.
LEMMA SaidIsClaimed ==
  ASSUME IInv, NEW name
  PROVE  Said(name) = {Quote(c) : c \in ClaimedOn(claims, name)}
  <1> DEFINE Speaks(d, k) == /\ d \in DOMAIN discovered
                             /\ k \in DOMAIN discovered[d].evidence.attributes
                             /\ Strip[discovered[d].evidence.attributes[k].name] = name
             Says(d, k) == LET e == discovered[d].evidence
                           IN  [value |-> e.attributes[k].value, url |-> e.url,
                                at |-> e.at, conf |-> e.conf]
  <1>1. \A q : q \in Said(name) <=> \E d, k : Speaks(d, k) /\ q = Says(d, k)
    BY DEF Said
  <1>2. \A c : c \in ToSet(claims) <=>
          \E d \in DOMAIN discovered : c \in ToSet(ClaimsOf(discovered[d].evidence))
    BY DEF IInv, ToSet
  <1>3. \A d, k : k \in DOMAIN discovered[d].evidence.attributes =>
          LET c == ClaimsOf(discovered[d].evidence)[k]
          IN  /\ c.field = discovered[d].evidence.attributes[k].name
              /\ Quote(c) = Says(d, k)
    BY DEF ClaimsOf, Quote
  <1>4. \A d, c : c \in ToSet(ClaimsOf(discovered[d].evidence)) <=>
          \E k \in DOMAIN discovered[d].evidence.attributes :
            c = ClaimsOf(discovered[d].evidence)[k]
    BY DEF ToSet, ClaimsOf
  <1>5. ASSUME NEW q \in Said(name)
        PROVE  \E c \in ClaimedOn(claims, name) : q = Quote(c)
    <2>1. PICK d, k : Speaks(d, k) /\ q = Says(d, k)
      BY <1>1
    <2> DEFINE c == ClaimsOf(discovered[d].evidence)[k]
    <2>2. c \in ToSet(claims) /\ Strip[c.field] = name /\ q = Quote(c)
      BY <1>2, <1>3, <1>4, <2>1
    <2> HIDE DEF c
    <2> QED
      BY <2>2 DEF ClaimedOn
  <1>6. ASSUME NEW c \in ClaimedOn(claims, name)
        PROVE  Quote(c) \in Said(name)
    <2>1. c \in ToSet(claims) /\ Strip[c.field] = name
      BY DEF ClaimedOn
    <2>2. PICK d \in DOMAIN discovered : c \in ToSet(ClaimsOf(discovered[d].evidence))
      BY <1>2, <2>1
    <2>3. PICK k \in DOMAIN discovered[d].evidence.attributes :
            c = ClaimsOf(discovered[d].evidence)[k]
      BY <1>4, <2>2
    <2>4. Speaks(d, k) /\ Quote(c) = Says(d, k)
      BY <1>3, <2>1, <2>3
    <2> QED
      BY <1>1, <2>4
  <1> QED
    BY <1>5, <1>6

-------------------------------------------------------------------------------
(* The invariant.                                                           *)

LEMMA InitInv == Init => IInv
  <1> SUFFICES ASSUME Init PROVE IInv
    OBVIOUS
  <1>1. claims = <<>> /\ discovered = <<>> /\ result = None /\ pc = "discover" /\ provider = 1
        /\ requested \in Requests
    BY DEF Init
  <1>2. ToSet(<<>>) = {}
    BY DEF ToSet
  <1>3. provider \in 1..(NumProviders + 1)
    BY <1>1, PipelineAssumption
  <1>4. TypeOK
    BY <1>1, <1>2, <1>3 DEF TypeOK
  <1>5. ToSet(claims) = UNION {ToSet(ClaimsOf(d.evidence)) : d \in ToSet(discovered)}
    BY <1>1, <1>2
  <1> QED
    BY <1>1, <1>4, <1>5 DEF IInv

\* The result enrich() builds is never None.
LEMMA EnrichmentType ==
  ASSUME TypeOK
  PROVE  Enrichment \in EnrichmentResult
  <1>1. /\ claims \in Seq(Claim) /\ requested \in Seq(DOMAIN Strip)
        /\ \A c \in Claim : Comparable(c) /\ c.field \in Named
    BY ClaimsCompare, PipelineAssumption DEF TypeOK
  <1>2. \A c \in ToSet(claims) : c \in Claim /\ c.field \in DOMAIN Strip /\ Strip[c.field] \in Named
    BY <1>1, SeqOfElements, StripAgain
  <1>3. NamesOf(claims) \subseteq Named
    BY <1>2 DEF NamesOf
  <1> DEFINE names == NamesOf(claims)
             attributes == Attributes(claims)
  <1>4. /\ DOMAIN attributes = names
        /\ \A name \in names : \E c \in ClaimedOn(claims, name) : attributes[name] = Quote(c)
    BY <1>1, AttributesQuote DEF Quote
  <1>5. \A name : \A c \in ClaimedOn(claims, name) : Quote(c) \in ResolvedAttribute
    BY <1>2 DEF ClaimedOn, Quote, Claim, ResolvedAttribute
  <1>6. attributes = [name \in names |-> attributes[name]]
    BY <1>4 DEF Attributes
  <1> HIDE DEF attributes
  <1>7. attributes \in [names -> ResolvedAttribute]
    BY <1>4, <1>5, <1>6
  <1>8. attributes \in UNION {[some -> ResolvedAttribute] : some \in SUBSET Named}
    BY <1>3, <1>7
  <1>9. Missing(Dedupe(requested), attributes) \in Seq(Named)
    BY <1>1, DedupeKeeps, MissingIsTheRest
  <1>10. ReviewFields(claims) \in Seq(Named)
    <2>1. ReviewFields(claims) \in Seq(names)
      BY <1>1, ReviewFieldsAreOpen
    <2> QED
      BY <1>3, <2>1, SeqMonotonic
  <1> QED
    BY <1>8, <1>9, <1>10 DEF Enrichment, EnrichmentResult, attributes

LEMMA StepInv == IInv /\ [Next]_vars => IInv'
  <1> SUFFICES ASSUME IInv, [Next]_vars PROVE IInv'
    OBVIOUS
  <1>0. TypeOK
    BY DEF IInv
  <1>1. ASSUME NEW e \in EvidenceSet, Discover(e)
        PROVE  IInv'
    <2> DEFINE d == [provider |-> provider, evidence |-> e]
               D == [provider : 1..NumProviders, evidence : EvidenceSet]
    <2>1. /\ pc = "discover" /\ provider <= NumProviders /\ Claimable(e)
          /\ discovered' = Append(discovered, d) /\ claims' = claims \o ClaimsOf(e)
          /\ UNCHANGED <<requested, pc, provider, result>>
      BY <1>1 DEF Discover
    <2>2. /\ ClaimsOf(e) \in Seq(Claim)
          /\ \A c \in ToSet(ClaimsOf(e)) : c.kind = "observed"
      BY <2>1, ClaimsOfType
    <2>3. d \in D /\ discovered \in Seq(D) /\ d.evidence = e
      BY <1>0, <2>1, PipelineAssumption DEF TypeOK
    <2> HIDE DEF d, D
    <2>4. discovered' \in Seq(D) /\ ToSet(discovered') = ToSet(discovered) \cup {d}
      BY <2>1, <2>3, ToSetAppend
    <2>5. claims' \in Seq(Claim) /\ ToSet(claims') = ToSet(claims) \cup ToSet(ClaimsOf(e))
      BY <1>0, <2>1, <2>2, ToSetConcat, ConcatProperties DEF TypeOK
    <2>6. ToSet(claims) = UNION {ToSet(ClaimsOf(x.evidence)) : x \in ToSet(discovered)}
      BY DEF IInv
    <2>7. ToSet(claims') = UNION {ToSet(ClaimsOf(x.evidence)) : x \in ToSet(discovered')}
      BY <2>3, <2>4, <2>5, <2>6
    <2>8. TypeOK'
      BY <1>0, <2>1, <2>2, <2>4, <2>5 DEF TypeOK, D
    <2>9. result' = None
      BY <1>0, <2>1 DEF TypeOK
    <2> QED
      BY <2>7, <2>8, <2>9 DEF IInv, ClaimsOf
  <1>2. CASE Fail \/ NextProvider \/ ReconcileFails
    <2>1. pc = "discover" /\ pc' # "returned" /\ result' = result
          /\ UNCHANGED <<requested, discovered, claims>>
      BY <1>2 DEF Fail, NextProvider, ReconcileFails
    <2>2. result = None
      BY <1>0, <2>1 DEF TypeOK
    <2>3. provider' \in 1..(NumProviders + 1) /\ pc' \in {"discover", "raised"}
      BY <1>0, <1>2, <2>1, PipelineAssumption DEF TypeOK, Fail, NextProvider, ReconcileFails
    <2>4. TypeOK'
      BY <1>0, <2>1, <2>2, <2>3 DEF TypeOK
    <2> QED
      BY <2>1, <2>2, <2>4 DEF IInv, ClaimsOf
  <1>3. CASE Return
    <2>1. /\ pc = "discover" /\ pc' = "returned" /\ result' = Enrichment
          /\ UNCHANGED <<requested, provider, discovered, claims>>
      BY <1>3 DEF Return
    <2>2. Enrichment' = Enrichment
      BY <2>1 DEF Enrichment
    <2>3. result' # None
      BY <1>0, <2>1, EnrichmentType, PipelineAssumption
    <2>4. TypeOK'
      BY <1>0, <2>1, <2>3 DEF TypeOK
    <2> QED
      BY <2>1, <2>2, <2>4 DEF IInv, ClaimsOf
  <1>4. CASE UNCHANGED vars
    <2>1. UNCHANGED <<requested, pc, provider, discovered, claims, result>>
      BY <1>4 DEF vars
    <2> QED
      BY <2>1 DEF IInv, TypeOK, Enrichment, ClaimsOf
  <1> QED
    BY <1>1, <1>2, <1>3, <1>4 DEF Next, Stop

\* Claims, evidence and result never come apart (pipeline.py:77-110).
THEOREM Inductive == Spec => []IInv
  BY InitInv, StepInv, PTL DEF Spec

-------------------------------------------------------------------------------
(* The result.                                                              *)

\* A result is made of well-formed, observed claims.
LEMMA ResultOfClaims ==
  ASSUME IInv, result # None
  PROVE  /\ claims \in Seq(Claim) /\ \A c \in Claim : Comparable(c)
         /\ \A c \in ToSet(claims) : c \in Claim /\ c.kind = "observed"
         /\ requested \in Seq(DOMAIN Strip)
         /\ result.attributes = Attributes(claims)
         /\ result.missing = Missing(Dedupe(requested), Attributes(claims))
         /\ result.review = ReviewFields(claims)
  <1>1. /\ claims \in Seq(Claim) /\ \A c \in ToSet(claims) : c.kind = "observed"
        /\ requested \in Seq(DOMAIN Strip)
    BY PipelineAssumption DEF IInv, TypeOK
  <1>2. \A c \in ToSet(claims) : c \in Claim
    BY <1>1, SeqOfElements
  <1>3. result = Enrichment
    BY DEF IInv
  <1> QED
    BY <1>1, <1>2, <1>3, ClaimsCompare DEF Enrichment

\* Every attribute of the result quotes one piece of evidence whole, and no
\* other evidence for it is more confident (pipeline.py:93-102).
THEOREM ResultIsTraced == Spec => []ResultTraced
  <1>1. ASSUME IInv, result # None, NEW name \in DOMAIN result.attributes
        PROVE  /\ result.attributes[name] \in Said(name)
               /\ \A other \in Said(name) : other.conf <= result.attributes[name].conf
    <2> DEFINE best == ReconcileClaims(claims)[name].chosen
    <2>1. /\ claims \in Seq(Claim) /\ \A c \in Claim : Comparable(c)
          /\ \A c \in ToSet(claims) : c \in Claim /\ c.kind = "observed"
          /\ result.attributes = Attributes(claims)
      BY <1>1, ResultOfClaims
    <2>2. name \in NamesOf(claims)
      BY <1>1, <2>1, AttributesQuote
    <2>3. best \in ClaimedOn(claims, name) /\ Attributes(claims)[name] = Quote(best)
      BY <2>1, <2>2, AttributesQuote DEF Quote
    <2>4. \A c \in ClaimedOn(claims, name) : ~ Ranked(c, best)
      BY <2>1, <2>2, ReconcilesEachField
    <2> HIDE DEF best
    <2>5. \A c \in ClaimedOn(claims, name) : c \in Claim /\ c.kind = "observed"
      BY <2>1 DEF ClaimedOn
    <2>6. ASSUME NEW c \in ClaimedOn(claims, name) PROVE c.conf <= best.conf
      <3>1. Comparable(c) /\ Comparable(best) /\ KindRank(c) = KindRank(best)
        BY <2>1, <2>3, <2>5 DEF KindRank
      <3>2. ~ (c.conf > best.conf)
        BY <2>4, <3>1, RankedIsLexicographic
      <3> QED
        BY <3>1, <3>2 DEF Comparable
    <2>7. Said(name) = {Quote(c) : c \in ClaimedOn(claims, name)}
      BY <1>1, SaidIsClaimed
    <2>8. \A c : Quote(c).conf = c.conf
      BY DEF Quote
    <2>9. result.attributes[name] = Quote(best)
      BY <2>1, <2>3
    <2> QED
      BY <2>3, <2>6, <2>7, <2>8, <2>9
  <1>2. IInv => ResultTraced
    BY <1>1 DEF ResultTraced
  <1> QED
    BY Inductive, <1>2, PTL

\* Every requested field is resolved when anything was discovered for it and
\* missing when nothing was (pipeline.py:103-104).
THEOREM RequestsAreAccounted == Spec => []RequestsAccounted
  <1>1. ASSUME IInv, result # None PROVE RequestsAccounted
    <2>1. /\ claims \in Seq(Claim) /\ \A c \in Claim : Comparable(c)
          /\ requested \in Seq(DOMAIN Strip)
          /\ result.missing = Missing(Dedupe(requested), Attributes(claims))
      BY <1>1, ResultOfClaims
    <2>2. DOMAIN Attributes(claims) = NamesOf(claims)
      BY <2>1, AttributesQuote
    <2>3. /\ Dedupe(requested) \in Seq(Named)
          /\ ToSet(Dedupe(requested)) = {Strip[name] : name \in ToSet(requested)} \cap Named
      BY <2>1, DedupeKeeps
    <2>4. ToSet(result.missing) = ToSet(Dedupe(requested)) \ NamesOf(claims)
      BY <2>1, <2>2, <2>3, MissingIsTheRest
    <2> DEFINE asked == {Strip[requested[k]] : k \in DOMAIN requested}
    <2>5. ToSet(Dedupe(requested)) = asked \ {Blank}
      <3>1. {Strip[name] : name \in ToSet(requested)} = asked
        BY DEF ToSet
      <3>2. asked \subseteq DOMAIN Strip
        BY <2>1, StripAgain
      <3>3. \A name \in asked : name \in Named <=> name # Blank
        <4>1. \A k \in DOMAIN requested : requested[k] \in DOMAIN Strip
          BY <2>1
        <4>2. \A name \in asked : Strip[name] = name
          BY <4>1, StripAgain
        <4> QED
          BY <3>2, <4>2 DEF Named
      <3> QED
        BY <2>3, <3>1, <3>3
    <2>6. \A name : name \in NamesOf(claims) <=> Said(name) # {}
      <3>1. ASSUME NEW name PROVE name \in NamesOf(claims) <=> Said(name) # {}
        <4>1. Said(name) = {Quote(c) : c \in ClaimedOn(claims, name)}
          BY <1>1, SaidIsClaimed
        <4>2. name \in NamesOf(claims) <=> ClaimedOn(claims, name) # {}
          BY DEF NamesOf, ClaimedOn
        <4> QED
          BY <4>1, <4>2
      <3> QED
        BY <3>1
    <2> HIDE DEF asked
    <2>7. ToSet(result.missing) = {name \in asked \ {Blank} : Said(name) = {}}
      BY <2>4, <2>5, <2>6
    <2> QED
      BY <2>7 DEF RequestsAccounted, asked
  <1>2. IInv => RequestsAccounted
    BY <1>1 DEF RequestsAccounted
  <1> QED
    BY Inductive, <1>2, PTL

\* A field goes to review exactly when the evidence disagrees about it: what is
\* discovered is observed, so nothing else can raise a doubt
\* (pipeline.py:40-66, models.py:105-110).
THEOREM DisagreementIsReviewed == Spec => []DisagreementReviewed
  <1>1. ASSUME IInv, result # None PROVE DisagreementReviewed
    <2>1. /\ claims \in Seq(Claim) /\ \A c \in Claim : Comparable(c)
          /\ \A c \in ToSet(claims) : c.kind = "observed"
          /\ result.attributes = Attributes(claims) /\ result.review = ReviewFields(claims)
      BY <1>1, ResultOfClaims
    <2>2. /\ DOMAIN result.attributes = NamesOf(claims)
          /\ ToSet(result.review) = {name \in NamesOf(claims) : ~ Corroborated(claims, name)}
      BY <2>1, AttributesQuote, ReviewFieldsAreOpen
    <2>3. ASSUME NEW name \in NamesOf(claims)
          PROVE  ~ Corroborated(claims, name) <=>
                   Cardinality({Canonical[said.value] : said \in Said(name)}) > 1
      <3> DEFINE on == ClaimedOn(claims, name)
                 texts == {Canonical[c.value] : c \in on}
      <3>1. {Canonical[said.value] : said \in Said(name)} = texts
        <4>1. Said(name) = {Quote(c) : c \in on}
          BY <1>1, SaidIsClaimed
        <4>2. \A c : Quote(c).value = c.value
          BY DEF Quote
        <4> HIDE DEF on
        <4> QED
          BY <4>1, <4>2
      <3>2. on \in SUBSET ToSet(claims) /\ on # {} /\ \A c \in on : c.kind = "observed"
        BY <2>1, <2>3 DEF ClaimedOn, NamesOf
      <3> HIDE DEF on
      <3>3. IsFiniteSet(texts) /\ texts # {}
        BY <2>1, <3>2, TextsFinite
      <3>4. Corroborated(claims, name) <=> Cardinality(texts) = 1
        BY <3>2 DEF Corroborated, on
      <3> HIDE DEF texts
      <3>5. Cardinality(texts) \in Nat /\ Cardinality(texts) # 0
        BY <3>3, FS_CardinalityType, FS_EmptySet
      <3>6. Cardinality(texts) > 1 <=> Cardinality(texts) # 1
        BY <3>5
      <3>7. Cardinality({Canonical[said.value] : said \in Said(name)}) = Cardinality(texts)
        BY <3>1
      <3> QED
        BY <3>4, <3>6, <3>7, Zenon
    <2> QED
      BY <2>2, <2>3 DEF DisagreementReviewed
  <1>2. IInv => DisagreementReviewed
    BY <1>1 DEF DisagreementReviewed
  <1> QED
    BY Inductive, <1>2, PTL
===============================================================================
