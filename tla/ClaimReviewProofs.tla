--------------------------- MODULE ClaimReviewProofs ---------------------------
(***************************************************************************)
(* The loops of reconcile_claims, for any claims and any number of them:    *)
(* they compute the reconciliation, which says this of its claims, and may  *)
(* differ thus from the one of a claim fewer.                               *)
(***************************************************************************)
EXTENDS ClaimReview, ReconciliationProofs

\* Every claim of the universe can be ranked.
LEMMA UniverseCompares == \A c \in Universe : Comparable(c)
  BY ReviewAssumption, ClaimsCompare

-------------------------------------------------------------------------------
(* The loops.                                                               *)

\* The claims on a field grow by the new claim if it is on that field.
LEMMA ClaimsOnAppend ==
  ASSUME NEW S, NEW list \in Seq(S), NEW x \in S, NEW name
  PROVE  ClaimsOn(Append(list, x), name)
           = IF Strip[x.field] = name THEN Append(ClaimsOn(list, name), x)
                                      ELSE ClaimsOn(list, name)
  <1> DEFINE more   == Append(list, x)
             those  == {c \in ToSet(list) : Strip[c.field] = name}
             others == {c \in ToSet(more) : Strip[c.field] = name}
  <1>1. ToSet(more) = ToSet(list) \cup {x}
    BY ToSetAppend
  <1>2. Where(list, others) = Where(list, those)
    BY <1>1, WhereDepends
  <1>3. x \in others <=> Strip[x.field] = name
    BY <1>1
  <1>4. ClaimsOn(more, name) = Where(more, others) /\ ClaimsOn(list, name) = Where(list, those)
    BY DEF ClaimsOn
  <1> HIDE DEF those, others
  <1> QED
    BY <1>2, <1>3, <1>4, WhereUnfolds DEF more

\* The keys of the dict grow by the name of the new claim if it is a new name.
LEMMA FieldOrderAppend ==
  ASSUME NEW S, NEW list \in Seq(S), NEW x \in S
  PROVE  FieldOrder(Append(list, x))
           = IF Strip[x.field] \in Names(list) THEN FieldOrder(list)
                                               ELSE Append(FieldOrder(list), Strip[x.field])
  <1> DEFINE T    == {Strip[c.field] : c \in S}
             old  == [k \in DOMAIN list |-> Strip[list[k].field]]
             name == Strip[x.field]
             more == Append(list, x)
             new  == [k \in DOMAIN more |-> Strip[more[k].field]]
  <1>1. Len(list) \in Nat /\ DOMAIN list = 1..Len(list) /\ \A k \in 1..Len(list) : list[k] \in S
    OBVIOUS
  <1>2. old \in Seq(T) /\ name \in T /\ Len(old) = Len(list)
    BY <1>1
  <1>3. new = Append(old, name)
    <2>1. /\ DOMAIN new = 1..(Len(list) + 1)
          /\ \A k \in 1..(Len(list) + 1) : new[k] = IF k <= Len(list) THEN old[k] ELSE name
      BY <1>1
    <2>2. /\ Append(old, name) \in Seq(T) /\ Len(Append(old, name)) = Len(list) + 1
          /\ \A k \in 1..(Len(list) + 1) :
               Append(old, name)[k] = IF k <= Len(list) THEN old[k] ELSE name
      BY <1>1, <1>2
    <2> QED
      BY <1>1, <2>1, <2>2
  <1>4. ToSet(old) = Names(list)
    BY DEF ToSet, Names
  <1>5. FieldOrder(list) = Distinct(old) /\ FieldOrder(more) = Distinct(new)
    BY DEF FieldOrder
  <1> HIDE DEF old, new, name, more, T
  <1>6. Distinct(old) \in Seq(T) /\ ToSet(Distinct(old)) = Names(list)
    BY <1>2, <1>4, DistinctKeeps
  <1>7. Contains(Distinct(old), name) <=> name \in Names(list)
    BY <1>6 DEF Contains, ToSet
  <1>8. Distinct(Append(old, name))
          = IF Contains(Distinct(old), name) THEN Distinct(old) ELSE Append(Distinct(old), name)
    BY <1>2, DistinctUnfolds
  <1> QED
    BY <1>3, <1>5, <1>7, <1>8 DEF name, more

\* The keys of the reconciliation are the names claimed.
LEMMA NamesOrdered ==
  ASSUME NEW S, NEW list \in Seq(S)
  PROVE  ToSet(FieldOrder(list)) = Names(list)
  <1>1. ToSet(FieldOrder(list)) = {Strip[c.field] : c \in ToSet(list)}
    BY FieldOrderKeeps
  <1> QED
    BY <1>1 DEF Names, ToSet

\* One claim is filed under its stripped name, the other lists stay.
LEMMA TakeFiles ==
  ASSUME FiledByField, NEW c \in Universe, Take(c)
  PROVE  FiledByField'
  <1> DEFINE name == Strip[c.field]
  <1>1. /\ claims \in Seq(Universe) /\ Len(claims) < MaxClaims /\ MaxClaims \in Nat
        /\ claims' = Append(claims, c) /\ returned = FALSE /\ returned' = FALSE
        /\ fields = <<>> /\ fields' = <<>>
        /\ order = FieldOrder(claims) /\ byField = [n \in Names(claims) |-> ClaimsOn(claims, n)]
    BY ReviewAssumption DEF FiledByField, Take
  <1>2. claims' \in Seq(Universe) /\ Len(claims') <= MaxClaims
    <2>1. Len(claims) \in Nat /\ Len(claims') = Len(claims) + 1 /\ claims' \in Seq(Universe)
      BY <1>1
    <2> QED
      BY <1>1, <2>1
  <1>3. DOMAIN byField = Names(claims)
    BY <1>1
  <1>4. order' = FieldOrder(claims')
    <2>1. order' = IF name \in Names(claims) THEN order ELSE Append(order, name)
      BY <1>3 DEF Take, File
    <2> QED
      BY <1>1, <2>1, FieldOrderAppend
  <1>5. Names(claims') = Names(claims) \cup {name}
    <2>1. /\ Names(claims) = {Strip[d.field] : d \in ToSet(claims)}
          /\ Names(claims') = {Strip[d.field] : d \in ToSet(claims')}
      BY DEF Names, ToSet
    <2>2. ToSet(claims') = ToSet(claims) \cup {c}
      BY <1>1, ToSetAppend
    <2> QED
      BY <2>1, <2>2
  <1>6. \A n \in Names(claims') :
          ClaimsOn(claims', n) = IF n = name THEN Append(ClaimsOn(claims, n), c)
                                             ELSE ClaimsOn(claims, n)
    BY <1>1, ClaimsOnAppend
  <1>7. ASSUME name \notin Names(claims) PROVE ClaimsOn(claims, name) = <<>>
    <2>1. {d \in ToSet(claims) : Strip[d.field] = name} = {}
      BY <1>7 DEF Names, ToSet
    <2>2. ClaimsOn(claims, name) \in Seq(Universe) /\ ToSet(ClaimsOn(claims, name)) = {}
      BY <1>1, <2>1, ClaimsOnKeeps
    <2> DEFINE group == ClaimsOn(claims, name)
    <2> HIDE DEF group
    <2>3. group \in Seq(Universe) /\ ToSet(group) = {}
      BY <2>2 DEF group
    <2>4. group = <<>>
      BY <2>3, SeqOfElements
    <2> QED
      BY <2>4 DEF group
  <1>8. byField' = [n \in Names(claims) \cup {name} |->
                      IF n = name
                        THEN Append(IF name \in Names(claims) THEN byField[name] ELSE <<>>, c)
                        ELSE byField[n]]
    BY <1>3 DEF Take, File
  <1> HIDE DEF name
  <1>9. byField' = [n \in Names(claims') |-> ClaimsOn(claims', n)]
    <2>1. ASSUME NEW n \in Names(claims')
          PROVE  byField'[n] = ClaimsOn(claims', n)
      <3>1. CASE n = name
        BY <1>1, <1>5, <1>6, <1>7, <1>8, <3>1
      <3>2. CASE n # name
        BY <1>1, <1>5, <1>6, <1>8, <3>2
      <3> QED
        BY <3>1, <3>2
    <2> QED
      BY <1>5, <1>8, <2>1
  <1> QED
    BY <1>1, <1>2, <1>4, <1>9 DEF FiledByField

\* Resolving every list of the dict is reconciling all the claims.
LEMMA ReturnReconciles ==
  ASSUME FiledByField, Return
  PROVE  FiledByField'
  <1>1. /\ claims \in Seq(Universe) /\ Len(claims) <= MaxClaims
        /\ order = FieldOrder(claims) /\ byField = [n \in Names(claims) |-> ClaimsOn(claims, n)]
        /\ claims' = claims /\ order' = order /\ byField' = byField /\ returned' = TRUE
        /\ fields' = [n \in DOMAIN byField |-> Resolve(byField[n])]
    BY DEF FiledByField, Return
  <1>2. DOMAIN byField = Names(claims) /\ \A n \in Names(claims) : byField[n] = ClaimsOn(claims, n)
    BY <1>1
  <1>3. fields' = [n \in Names(claims) |-> Resolve(ClaimsOn(claims, n))]
    BY <1>1, <1>2
  <1>4. fields' = ReconcileClaims(claims')
    BY <1>1, <1>3, NamesOrdered DEF ReconcileClaims
  <1> QED
    BY <1>1, <1>4 DEF FiledByField

\* For any claims, the loops of reconcile_claims file every claim once under
\* its stripped name, keep the order of the claims and of first mention, and
\* return the reconciliation of exactly the claims the iterable yielded: the
\* definition both orchestrators are checked with is what the code computes.
THEOREM LoopsReconcile == Spec => []FiledByField
  <1>1. Init => FiledByField
    <2> SUFFICES ASSUME Init PROVE FiledByField
      OBVIOUS
    <2>1. Names(claims) = {} /\ claims = <<>> /\ <<>> \in Seq(Universe) /\ Len(<<>>) = 0
      BY DEF Init, Names
    <2>2. byField = [name \in Names(claims) |-> ClaimsOn(claims, name)]
      BY <2>1 DEF Init
    <2>3. FieldOrder(claims) = <<>>
      <3>1. [k \in DOMAIN claims |-> Strip[claims[k].field]] = <<>>
        BY <2>1
      <3> QED
        BY <3>1, DistinctUnfolds DEF FieldOrder
    <2>4. Len(claims) <= MaxClaims /\ claims \in Seq(Universe)
      BY <2>1, ReviewAssumption
    <2>5. /\ order = FieldOrder(claims) /\ returned \in BOOLEAN
          /\ fields = IF returned THEN ReconcileClaims(claims) ELSE <<>>
      BY <2>3 DEF Init
    <2> QED
      BY <2>2, <2>4, <2>5 DEF FiledByField
  <1>2. FiledByField /\ [Next]_vars => FiledByField'
    <2> SUFFICES ASSUME FiledByField, [Next]_vars PROVE FiledByField'
      OBVIOUS
    <2>1. ASSUME NEW c \in Universe, Take(c) PROVE FiledByField'
      BY <2>1, TakeFiles
    <2>2. CASE Return
      BY <2>2, ReturnReconciles
    <2>3. CASE UNCHANGED vars
      BY <2>3 DEF FiledByField, vars
    <2> QED
      BY <2>1, <2>2, <2>3 DEF Next
  <1> QED
    BY <1>1, <1>2, PTL DEF Spec

-------------------------------------------------------------------------------
(* One reconciliation and its claims.                                       *)

\* A field is claimed by somebody.
LEMMA NamesAreClaimed ==
  ASSUME NEW list, NEW name
  PROVE  /\ Names(list) = NamesOf(list)
         /\ On(list, name) = ClaimedOn(list, name)
         /\ Texts(list, name) = {Canonical[c.value] : c \in ClaimedOn(list, name)}
  BY DEF Names, NamesOf, On, ClaimedOn, Texts, ToSet

\* reconcile_claims fails closed, and is not more suspicious than that: a field
\* is accepted exactly when its claims agree and one of them was observed.
THEOREM AcceptanceIsCorroboration == Spec => []AcceptedIffCorroborated
  <1>1. FiledByField => AcceptedIffCorroborated
    <2> SUFFICES ASSUME FiledByField, NEW name \in Names(claims)
                 PROVE  ReconcileClaims(claims)[name].status = "accepted"
                          <=> /\ Cardinality(Texts(claims, name)) = 1
                              /\ \E c \in On(claims, name) : c.kind = "observed"
      BY DEF AcceptedIffCorroborated
    <2>1. claims \in Seq(Universe) /\ name \in NamesOf(claims)
      BY NamesAreClaimed DEF FiledByField
    <2>2. ReconcileClaims(claims)[name].status = "accepted" <=> Corroborated(claims, name)
      BY <2>1, UniverseCompares, ReconcilesEachField
    <2> QED
      BY <2>2, NamesAreClaimed DEF Corroborated
  <1> QED
    BY <1>1, LoopsReconcile, PTL

\* reconcile_claims loses no text: the suggestion and its alternatives are
\* claims really made, one for each text, from the strongest to the weakest.
THEOREM NoClaimedTextIsLost == Spec => []NothingLost
  <1>1. FiledByField => NothingLost
    <2> SUFFICES ASSUME FiledByField, NEW name \in Names(claims)
                 PROVE  LET r    == ReconcileClaims(claims)[name]
                            kept == <<r.chosen>> \o r.alternatives
                        IN  /\ ToSet(kept) \subseteq On(claims, name)
                            /\ {Canonical[c.value] : c \in ToSet(kept)} = Texts(claims, name)
                            /\ Len(kept) = Cardinality(Texts(claims, name))
                            /\ \A j, k \in DOMAIN kept : j < k => Ranked(kept[j], kept[k])
      BY DEF NothingLost
    <2>1. claims \in Seq(Universe) /\ name \in NamesOf(claims)
      BY NamesAreClaimed DEF FiledByField
    <2> DEFINE on   == ClaimsOn(claims, name)
               r    == ReconcileClaims(claims)[name]
               kept == <<r.chosen>> \o r.alternatives
    <2>2. /\ r = Resolve(on) /\ on \in Seq(Universe) /\ on # <<>>
          /\ ToSet(on) = ClaimedOn(claims, name)
      BY <2>1, UniverseCompares, ReconcilesEachField
    <2> HIDE DEF on, r
    <2>3. /\ ToSet(kept) \subseteq ToSet(on)
          /\ {Canonical[c.value] : c \in ToSet(kept)} = {Canonical[c.value] : c \in ToSet(on)}
          /\ Len(kept) = Cardinality({Canonical[c.value] : c \in ToSet(on)})
          /\ \A j, k \in DOMAIN kept : j < k => Ranked(kept[j], kept[k])
      BY <2>2, UniverseCompares, ResolutionIsComplete
    <2>4. /\ ToSet(on) = On(claims, name)
          /\ {Canonical[c.value] : c \in ToSet(on)} = Texts(claims, name)
      BY <2>2, NamesAreClaimed
    <2> HIDE DEF kept
    <2>5. /\ ToSet(kept) \subseteq On(claims, name)
          /\ {Canonical[c.value] : c \in ToSet(kept)} = Texts(claims, name)
          /\ Len(kept) = Cardinality(Texts(claims, name))
      BY <2>3, <2>4
    <2> QED
      BY <2>3, <2>5 DEF kept, r
  <1> QED
    BY <1>1, LoopsReconcile, PTL

-------------------------------------------------------------------------------
(* A reconciliation and the next.                                           *)

\* What one more claim does to the resolution of a field.
LEMMA Collecting ==
  ASSUME FiledByField, NEW x \in Universe, NEW name \in Names(claims)
  PROVE  LET old == ReconcileClaims(claims)[name]
             new == ReconcileClaims(Append(claims, x))[name]
         IN  /\ new.chosen # old.chosen => Ranked(new.chosen, old.chosen)
             /\ old.alternatives # <<>>
                  => new.alternatives # <<>> /\ new.status = "needs_review"
  <1> DEFINE more == Append(claims, x)
             on   == ClaimsOn(claims, name)
             next == ClaimsOn(more, name)
             TextsOf(q) == {Canonical[c.value] : c \in ToSet(q)}
  <1>1. claims \in Seq(Universe) /\ name \in NamesOf(claims)
    BY NamesAreClaimed DEF FiledByField
  <1>2. more \in Seq(Universe) /\ ToSet(more) = ToSet(claims) \cup {x}
    BY <1>1, ToSetAppend
  <1>3. name \in NamesOf(more)
    BY <1>1, <1>2 DEF NamesOf
  <1>4. next = IF Strip[x.field] = name THEN Append(on, x) ELSE on
    BY <1>1, ClaimsOnAppend
  <1> HIDE DEF more
  <1>5. /\ ReconcileClaims(claims)[name] = Resolve(on) /\ on \in Seq(Universe) /\ on # <<>>
        /\ ReconcileClaims(more)[name] = Resolve(next) /\ next \in Seq(Universe) /\ next # <<>>
    BY <1>1, <1>2, <1>3, UniverseCompares, ReconcilesEachField
  <1> HIDE DEF on, next
  <1> DEFINE old == Resolve(on)
             new == Resolve(next)
  <1>6. new.chosen # old.chosen => Ranked(new.chosen, old.chosen)
    <2>1. CASE next = on
      BY <2>1
    <2>2. CASE next = Append(on, x)
      BY <1>5, <2>2, UniverseCompares, ChosenOnlyImproves
    <2> QED
      BY <1>4, <2>1, <2>2
  <1>7. ToSet(on) \subseteq ToSet(next)
    BY <1>4, <1>5, ToSetAppend
  <1>8. TextsOf(on) \subseteq TextsOf(next)
    BY <1>7
  <1>9. /\ old.alternatives = <<>> <=> TextsOf(on) = {Canonical[old.chosen.value]}
        /\ old.chosen \in ToSet(on)
    BY <1>5, UniverseCompares, AcceptedIsCorroborated, ChosenIsBest
  <1>10. /\ new.alternatives = <<>> <=> TextsOf(next) = {Canonical[new.chosen.value]}
         /\ new.status \in {"accepted", "needs_review"}
         /\ new.status = "accepted" => new.alternatives = <<>>
    BY <1>5, UniverseCompares, AcceptedIsCorroborated
  <1>11. Canonical[old.chosen.value] \in TextsOf(on)
    BY <1>9
  <1> HIDE DEF old, new, TextsOf
  <1>12. old.alternatives # <<>> => new.alternatives # <<>> /\ new.status = "needs_review"
    BY <1>8, <1>9, <1>10, <1>11
  <1> QED
    BY <1>5, <1>6, <1>12 DEF old, new, more

\* A field with a disagreement stays disputed and under review, whatever is
\* collected later: no later claim makes reconcile_claims drop an alternative
\* altogether.
THEOREM DisagreementIsPermanent == Spec => ConflictSticks
  <1> DEFINE Keeps == \A name \in Names(claims) :
                        ReconcileClaims(claims)[name].alternatives # <<>>
                          => /\ ReconcileClaims(claims')[name].alternatives # <<>>
                             /\ ReconcileClaims(claims')[name].status = "needs_review"
  <1>1. FiledByField /\ [Next]_vars => [Keeps]_claims
    <2> SUFFICES ASSUME FiledByField, NEW c \in Universe, Take(c)
                 PROVE  Keeps
      BY DEF Next, Return, vars
    <2>1. claims' = Append(claims, c)
      BY DEF Take
    <2> QED
      BY <2>1, Collecting
  <1> HIDE DEF Keeps
  <1>2. Spec => [][Keeps]_claims
    BY <1>1, LoopsReconcile, PTL DEF Spec
  <1> QED
    BY <1>2 DEF Keeps, ConflictSticks

\* The suggested claim of a field is replaced only by one that ranks strictly
\* before it: min(key=_rank) keeps the first of equals.
THEOREM SuggestionImproves == Spec => SuggestionOnlyImproves
  <1> DEFINE Improves == \A name \in Names(claims) :
                           LET old == ReconcileClaims(claims)[name].chosen
                               new == ReconcileClaims(claims')[name].chosen
                           IN  new # old => Ranked(new, old)
  <1>1. FiledByField /\ [Next]_vars => [Improves]_claims
    <2> SUFFICES ASSUME FiledByField, NEW c \in Universe, Take(c)
                 PROVE  Improves
      BY DEF Next, Return, vars
    <2>1. claims' = Append(claims, c)
      BY DEF Take
    <2> QED
      BY <2>1, Collecting
  <1> HIDE DEF Improves
  <1>2. Spec => [][Improves]_claims
    BY <1>1, LoopsReconcile, PTL DEF Spec
  <1> QED
    BY <1>2 DEF Improves, SuggestionOnlyImproves

-------------------------------------------------------------------------------
(* The order of arrival.                                                    *)

\* a and b list the same things, both in the strict order R.
ListedAlike(n, a, b, R) ==
  /\ \A x, y : <<x, y>> \in R => <<y, x>> \notin R
  /\ \A j, k \in 1..n : j < k => <<a[j], a[k]>> \in R /\ <<b[j], b[k]>> \in R
  /\ \A k \in 1..n : \E m \in 1..n : a[k] = b[m]
  /\ \A k \in 1..n : \E m \in 1..n : b[k] = a[m]

\* There is one way to list things in a strict order.
LEMMA SameOrder ==
  ASSUME NEW n \in Nat, NEW a, NEW b, NEW R, ListedAlike(n, a, b, R)
  PROVE  \A k \in 1..n : a[k] = b[k]
  <1> USE DEF ListedAlike
  <1> DEFINE Q == {l \in Nat : \A k \in 1..n : k <= l => a[k] = b[k]}
  <1>1. 0 \in Q
    OBVIOUS
  <1>2. ASSUME NEW l \in Nat, l \in Q PROVE l + 1 \in Q
    <2>1. l \in Nat /\ \A k \in 1..n : k <= l => a[k] = b[k]
      BY <1>2
    <2>2. ASSUME l + 1 \in 1..n PROVE a[l + 1] = b[l + 1]
      <3> DEFINE k == l + 1
      <3>1. PICK m \in 1..n : a[k] = b[m]
        BY <2>2
      <3>2. PICK i \in 1..n : b[k] = a[i]
        BY <2>2
      <3>3. ~ m < k /\ ~ i < k
        <4>1. \A x : <<x, x>> \notin R
          OBVIOUS
        <4>2. ASSUME m < k PROVE FALSE
          <5>1. a[m] = b[m]
            BY <2>1, <2>2, <4>2
          <5>2. <<a[m], a[k]>> \in R
            BY <2>2, <4>2
          <5> QED
            BY <3>1, <4>1, <5>1, <5>2
        <4>3. ASSUME i < k PROVE FALSE
          <5>1. a[i] = b[i]
            BY <2>1, <2>2, <4>3
          <5>2. <<b[i], b[k]>> \in R
            BY <2>2, <4>3
          <5> QED
            BY <3>2, <4>1, <5>1, <5>2
        <4> QED
          BY <4>2, <4>3
      <3>4. CASE m = k \/ i = k
        BY <3>1, <3>2, <3>4
      <3>5. CASE k < m /\ k < i
        <4>1. <<b[k], b[m]>> \in R /\ <<a[k], a[i]>> \in R
          BY <2>2, <3>5
        <4> QED
          BY <3>1, <3>2, <4>1
      <3>6. (m = k \/ i = k) \/ (k < m /\ k < i)
        <4>1. m \in Int /\ i \in Int /\ k \in Int
          BY <1>2
        <4> HIDE DEF k
        <4> QED
          BY ONLY <3>3, <4>1
      <3> QED
        BY ONLY <3>4, <3>5, <3>6
    <2>3. ASSUME NEW k \in 1..n, k <= l + 1 PROVE a[k] = b[k]
      <3>1. k <= l \/ k = l + 1
        BY <1>2, <2>3
      <3> QED
        BY <2>1, <2>2, <3>1
    <2> QED
      BY <2>1, <2>3
  <1>3. Nat \subseteq Q
    <2> HIDE DEF Q
    <2> QED
      BY <1>1, <1>2, Sorts!NatSetInduction
  <1> QED
    BY <1>3

\* What a reader sees of two claims decides which ranks before the other.
LEMMA RankedBySight ==
  ASSUME NEW b, NEW c, NEW d, NEW e, Seen(b) = Seen(d), Seen(c) = Seen(e)
  PROVE  Ranked(b, c) <=> Ranked(d, e)
  <1>1. Rank(b) = Rank(d) /\ Rank(c) = Rank(e)
    BY DEF Seen, Rank
  <1> QED
    BY <1>1 DEF Ranked

\* A suggestion or an alternative is the strongest claim for its text.
LEMMA KeptAreStrongest ==
  ASSUME NEW S, \A c \in S : Comparable(c), NEW list \in Seq(S), list # <<>>,
         NEW r \in ToSet(<<Resolve(list).chosen>> \o Resolve(list).alternatives)
  PROVE  \A c \in ToSet(list) : Canonical[c.value] = Canonical[r.value] => ~ Ranked(c, r)
  <1> DEFINE best == Resolve(list).chosen
             rest == Resolve(list).alternatives
             reps == Representatives(list)
             one  == <<best>>
  <1>1. best \in ToSet(list) /\ best \in ToSet(reps)
    BY ChosenIsBest
  <1>2. rest \in Seq(ToSet(list)) /\ ToSet(rest) \subseteq ToSet(reps)
    BY AlternativesAreRivals
  <1>3. \A x \in ToSet(reps) : x = Best(Asserting(list, Canonical[x.value]))
    BY RepresentativesStand
  <1> HIDE DEF best, rest, reps
  <1>4. one \in Seq(ToSet(list)) /\ ToSet(one) = {best}
    BY <1>1 DEF ToSet
  <1> HIDE DEF one
  <1>5. ToSet(one \o rest) = ToSet(one) \cup ToSet(rest)
    BY <1>2, <1>4, ToSetConcat
  <1>6. r \in ToSet(reps)
    BY <1>1, <1>2, <1>4, <1>5 DEF one, best, rest
  <1>7. ASSUME NEW c \in ToSet(list), Canonical[c.value] = Canonical[r.value]
        PROVE  ~ Ranked(c, r)
    <2> DEFINE q == Asserting(list, Canonical[r.value])
    <2>1. q \in Seq(S) /\ c \in ToSet(q) /\ q # <<>>
      BY <1>7, AssertingKeeps
    <2>2. r = Best(q)
      BY <1>3, <1>6
    <2> HIDE DEF q
    <2> QED
      BY <2>1, <2>2, BestIsLeast
  <1> QED
    BY <1>7

\* Ranked neither way, claims with one text look the same.
LEMMA TiedLookAlike ==
  ASSUME NEW c, NEW d, Comparable(c), Comparable(d),
         ~ Ranked(c, d), ~ Ranked(d, c)
  PROVE  Seen(c) = Seen(d)
  <1>1. /\ c.kind \in Kinds /\ d.kind \in Kinds
        /\ c.conf \in Int /\ d.conf \in Int /\ c.url \in Int /\ d.url \in Int
        /\ Canonical[c.value] \in Int /\ Canonical[d.value] \in Int
    BY DEF Comparable
  <1>2. /\ KindRank(c) = KindRank(d) /\ c.conf = d.conf /\ c.url = d.url
        /\ Canonical[c.value] = Canonical[d.value]
    BY <1>1, RankedIsLexicographic DEF KindRank
  <1>3. c.kind = d.kind
    BY <1>1, <1>2 DEF KindRank, Kinds
  <1> QED
    BY <1>2, <1>3 DEF Seen

\* The claims resolved decide what a reader sees of their resolution, position
\* by position; their order does not.
LEMMA SameClaimsSameSight ==
  ASSUME NEW S, \A c \in S : Comparable(c),
         NEW s \in Seq(S), s # <<>>, NEW t \in Seq(S), t # <<>>, ToSet(s) = ToSet(t)
  PROVE  LET p == <<Resolve(s).chosen>> \o Resolve(s).alternatives
             q == <<Resolve(t).chosen>> \o Resolve(t).alternatives
         IN  /\ Resolve(s).status = Resolve(t).status
             /\ Len(p) = Len(q)
             /\ \A k \in DOMAIN p : Seen(p[k]) = Seen(q[k])
  <1> DEFINE p     == <<Resolve(s).chosen>> \o Resolve(s).alternatives
             q     == <<Resolve(t).chosen>> \o Resolve(t).alternatives
             T     == ToSet(s)
             texts == {Canonical[c.value] : c \in T}
  <1>1. /\ ToSet(p) \subseteq T /\ {Canonical[c.value] : c \in ToSet(p)} = texts
        /\ Len(p) = Cardinality(texts)
        /\ \A j, k \in DOMAIN p : j < k => Ranked(p[j], p[k])
    BY ResolutionIsComplete
  <1>2. /\ ToSet(q) \subseteq T /\ {Canonical[c.value] : c \in ToSet(q)} = texts
        /\ Len(q) = Cardinality(texts)
        /\ \A j, k \in DOMAIN q : j < k => Ranked(q[j], q[k])
    BY ResolutionIsComplete
  <1>3. \A r \in ToSet(p), c \in T : Canonical[c.value] = Canonical[r.value] => ~ Ranked(c, r)
    BY KeptAreStrongest
  <1>4. \A r \in ToSet(q), c \in T : Canonical[c.value] = Canonical[r.value] => ~ Ranked(c, r)
    BY KeptAreStrongest
  <1>5. p \in Seq(S) /\ q \in Seq(S)
    <2>1. /\ Resolve(s).chosen \in S /\ Resolve(t).chosen \in S
          /\ Resolve(s).alternatives \in Seq(S) /\ Resolve(t).alternatives \in Seq(S)
      BY ChosenIsBest, AlternativesAreRivals, SeqOfElements, SeqMonotonic
    <2>2. <<Resolve(s).chosen>> \in Seq(S) /\ <<Resolve(t).chosen>> \in Seq(S)
      BY <2>1
    <2> QED
      BY <2>1, <2>2, ConcatProperties
  <1>6. T \subseteq S
    BY SeqOfElements
  <1>7. Resolve(s).status = Resolve(t).status
    <2>1. /\ Resolve(s).status \in {"accepted", "needs_review"}
          /\ Resolve(s).status = "accepted" <=> /\ Cardinality(texts) = 1
                                                /\ \E c \in T : c.kind = "observed"
      BY AcceptedIsCorroborated
    <2>2. /\ Resolve(t).status \in {"accepted", "needs_review"}
          /\ Resolve(t).status = "accepted" <=> /\ Cardinality(texts) = 1
                                                /\ \E c \in T : c.kind = "observed"
      BY AcceptedIsCorroborated
    <2> QED
      BY <2>1, <2>2
  <1> HIDE DEF p, q, T
  <1> DEFINE n == Len(p)
             R == {x \in {Seen(c) : c \in S} \X {Seen(c) : c \in S} :
                     \E c, d \in S : Seen(c) = x[1] /\ Seen(d) = x[2] /\ Ranked(c, d)}
             a == [k \in 1..n |-> Seen(p[k])]
             b == [k \in 1..n |-> Seen(q[k])]
  <1>8. /\ n \in Nat /\ DOMAIN p = 1..n /\ DOMAIN q = 1..n
        /\ \A k \in 1..n : /\ p[k] \in S /\ p[k] \in ToSet(p) /\ p[k] \in T
                           /\ q[k] \in S /\ q[k] \in ToSet(q) /\ q[k] \in T
    <2>1. Len(q) = Len(p)
      BY <1>1, <1>2
    <2>2. /\ \A k \in DOMAIN p : p[k] \in S /\ p[k] \in ToSet(p)
          /\ \A k \in DOMAIN q : q[k] \in S /\ q[k] \in ToSet(q)
      BY <1>5, SeqOfElements
    <2>3. n \in Nat /\ DOMAIN p = 1..n /\ DOMAIN q = 1..n
      BY <1>5, <2>1
    <2> QED
      BY <1>1, <1>2, <2>2, <2>3
  <1>9. \A c, d \in S : Ranked(c, d) => <<Seen(c), Seen(d)>> \in R
    OBVIOUS
  <1>10. \A x, y : <<x, y>> \in R => <<y, x>> \notin R
    <2> SUFFICES ASSUME NEW x, NEW y, <<x, y>> \in R, <<y, x>> \in R PROVE FALSE
      OBVIOUS
    <2>1. PICK c, d \in S : Seen(c) = x /\ Seen(d) = y /\ Ranked(c, d)
      OBVIOUS
    <2>2. PICK e, f \in S : Seen(e) = y /\ Seen(f) = x /\ Ranked(e, f)
      OBVIOUS
    <2>3. Ranked(d, c)
      BY <2>1, <2>2, RankedBySight
    <2> QED
      BY <2>1, <2>3, RankedOrders
  <1>11. \A r, c \in T :
           r \in ToSet(p) /\ c \in ToSet(q) /\ Canonical[c.value] = Canonical[r.value]
             => Seen(c) = Seen(r)
    <2> SUFFICES ASSUME NEW r \in T, NEW c \in T, r \in ToSet(p), c \in ToSet(q),
                        Canonical[c.value] = Canonical[r.value]
                 PROVE  Seen(c) = Seen(r)
      OBVIOUS
    <2>1. ~ Ranked(c, r) /\ ~ Ranked(r, c)
      BY <1>3, <1>4
    <2>2. Comparable(c) /\ Comparable(r)
      BY <1>6
    <2> QED
      BY <2>1, <2>2, TiedLookAlike
  <1> HIDE DEF R, n, texts
  <1>12. \A k \in 1..n : \E m \in 1..n : a[k] = b[m]
    <2> SUFFICES ASSUME NEW k \in 1..n PROVE \E m \in 1..n : Seen(p[k]) = Seen(q[m])
      OBVIOUS
    <2>1. PICK c \in ToSet(q) : Canonical[c.value] = Canonical[p[k].value]
      BY <1>1, <1>2, <1>8
    <2>2. PICK m \in 1..n : c = q[m]
      BY <1>8 DEF ToSet
    <2> QED
      BY <1>8, <1>11, <2>1, <2>2
  <1>13. \A k \in 1..n : \E m \in 1..n : b[k] = a[m]
    <2> SUFFICES ASSUME NEW k \in 1..n PROVE \E m \in 1..n : Seen(q[k]) = Seen(p[m])
      OBVIOUS
    <2>1. PICK c \in ToSet(p) : Canonical[c.value] = Canonical[q[k].value]
      BY <1>1, <1>2, <1>8
    <2>2. PICK m \in 1..n : c = p[m]
      BY <1>8 DEF ToSet
    <2> QED
      BY <1>8, <1>11, <2>1, <2>2
  <1>14. \A j, k \in 1..n : j < k => <<a[j], a[k]>> \in R /\ <<b[j], b[k]>> \in R
    BY <1>1, <1>2, <1>8, <1>9
  <1>15. \A k \in 1..n : a[k] = Seen(p[k]) /\ b[k] = Seen(q[k])
    OBVIOUS
  <1> HIDE DEF a, b
  <1>16. \A k \in 1..n : a[k] = b[k]
    <2>1. n \in Nat
      BY <1>8
    <2>2. ListedAlike(n, a, b, R)
      BY <1>10, <1>12, <1>13, <1>14 DEF ListedAlike
    <2> QED
      BY <2>1, <2>2, SameOrder
  <1> QED
    BY <1>1, <1>2, <1>7, <1>8, <1>15, <1>16 DEF p, q

\* A permutation of a list keeps its elements.
LEMMA ShuffledKeeps ==
  ASSUME NEW S, NEW list \in Seq(S),
         NEW p \in Bijection(DOMAIN list, DOMAIN list)
  PROVE  LET shuffled == [k \in DOMAIN list |-> list[p[k]]]
         IN  shuffled \in Seq(S) /\ ToSet(shuffled) = ToSet(list)
  <1> DEFINE n == Len(list)
             shuffled == [k \in 1..n |-> list[p[k]]]
  <1>1. n \in Nat /\ DOMAIN list = 1..n /\ \A k \in 1..n : list[k] \in S
    OBVIOUS
  <1>2. p \in [1..n -> 1..n] /\ \A m \in 1..n : \E k \in 1..n : p[k] = m
    BY <1>1 DEF Bijection, Surjection
  <1>3. \A k \in 1..n : shuffled[k] \in S
    BY <1>1, <1>2
  <1>4. shuffled \in Seq(S)
    BY <1>1, <1>3
  <1>5. ToSet(shuffled) = ToSet(list)
    BY <1>1, <1>2 DEF ToSet
  <1> QED
    BY <1>1, <1>4, <1>5

\* reconcile_claims does not depend on the order of arrival: whatever order the
\* claims come in, a reader sees the same status, suggestion and alternatives;
\* only the observation date quoted on a full tie of _rank may differ.
THEOREM OrderDecidesNothing == Spec => []OrderIndependent
  <1>1. FiledByField => OrderIndependent
    <2> SUFFICES ASSUME FiledByField, NEW p \in Bijection(DOMAIN claims, DOMAIN claims),
                        NEW name \in Names(claims)
                 PROVE  Outline([k \in DOMAIN claims |-> claims[p[k]]], name)
                          = Outline(claims, name)
      BY DEF OrderIndependent
    <2> DEFINE shuffled == [k \in DOMAIN claims |-> claims[p[k]]]
               s == ClaimsOn(shuffled, name)
               t == ClaimsOn(claims, name)
    <2>1. claims \in Seq(Universe) /\ name \in NamesOf(claims)
      BY NamesAreClaimed DEF FiledByField
    <2>2. shuffled \in Seq(Universe) /\ ToSet(shuffled) = ToSet(claims)
      BY <2>1, ShuffledKeeps
    <2> HIDE DEF shuffled
    <2>3. name \in NamesOf(shuffled)
      BY <2>1, <2>2 DEF NamesOf
    <2>4. /\ ReconcileClaims(shuffled)[name] = Resolve(s) /\ s \in Seq(Universe) /\ s # <<>>
          /\ ToSet(s) = ClaimedOn(shuffled, name)
      BY <2>2, <2>3, UniverseCompares, ReconcilesEachField
    <2>5. /\ ReconcileClaims(claims)[name] = Resolve(t) /\ t \in Seq(Universe) /\ t # <<>>
          /\ ToSet(t) = ClaimedOn(claims, name)
      BY <2>1, UniverseCompares, ReconcilesEachField
    <2>6. ToSet(s) = ToSet(t)
      BY <2>2, <2>4, <2>5 DEF ClaimedOn
    <2> HIDE DEF s, t
    <2> DEFINE one == Resolve(s).chosen
               two == Resolve(t).chosen
               ones == Resolve(s).alternatives
               twos == Resolve(t).alternatives
    <2>7. /\ Resolve(s).status = Resolve(t).status
          /\ Len(<<one>> \o ones) = Len(<<two>> \o twos)
          /\ \A k \in DOMAIN (<<one>> \o ones) :
               Seen((<<one>> \o ones)[k]) = Seen((<<two>> \o twos)[k])
      BY <2>4, <2>5, <2>6, UniverseCompares, SameClaimsSameSight
    <2>8. ones \in Seq(ToSet(s)) /\ twos \in Seq(ToSet(t))
      BY <2>4, <2>5, UniverseCompares, AlternativesAreRivals
    <2>9. /\ Outline(shuffled, name)
               = <<Resolve(s).status, Seen(one), [k \in DOMAIN ones |-> Seen(ones[k])]>>
          /\ Outline(claims, name)
               = <<Resolve(t).status, Seen(two), [k \in DOMAIN twos |-> Seen(twos[k])]>>
      BY <2>4, <2>5 DEF Outline
    <2> HIDE DEF one, two, ones, twos
    <2>10. /\ Len(ones) \in Nat /\ Len(ones) = Len(twos)
           /\ DOMAIN ones = 1..Len(ones) /\ DOMAIN twos = 1..Len(ones)
      BY <2>7, <2>8
    <2>11. Seen(one) = Seen(two)
      BY <2>7, <2>8, <2>10
    <2>12. ASSUME NEW k \in 1..Len(ones) PROVE Seen(ones[k]) = Seen(twos[k])
      <3>1. /\ k + 1 \in DOMAIN (<<one>> \o ones)
            /\ (<<one>> \o ones)[k + 1] = ones[k] /\ (<<two>> \o twos)[k + 1] = twos[k]
        BY <2>8, <2>10
      <3> QED
        BY <2>7, <3>1
    <2>13. [k \in DOMAIN ones |-> Seen(ones[k])] = [k \in DOMAIN twos |-> Seen(twos[k])]
      BY <2>10, <2>12
    <2> QED
      BY <2>7, <2>9, <2>11, <2>13 DEF shuffled
  <1> QED
    BY <1>1, LoopsReconcile, PTL

===============================================================================
