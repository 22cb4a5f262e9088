------------------------- MODULE ReconciliationProofs -------------------------
(***************************************************************************)
(* What reconcile_claims computes, for claims of any number and content:    *)
(* the lists it builds by insertion order, the claim min(key=_rank) elects, *)
(* what sorted(key=_rank) keeps, and what the resolution of a field says of *)
(* its claims.  The proofs about the orchestrators rest on these facts.     *)
(***************************************************************************)
EXTENDS Reconciliation, FiniteSetTheorems, SequenceTheorems, TLAPS

Filters == INSTANCE FoldTheorems
             WITH Op <- LAMBDA those, x, kept :
                          IF x \in those THEN Append(kept, x) ELSE kept
Firsts == INSTANCE FoldTheorems
            WITH Op <- LAMBDA p, x, seen :
                         IF Contains(seen, x) THEN seen ELSE Append(seen, x)
Sorts == INSTANCE FoldTheorems
           WITH Op <- LAMBDA p, c, sorted : InsertAt(sorted, Slot(sorted, c) + 1, c)

-------------------------------------------------------------------------------
(* Lists.                                                                   *)

\* Sequences without repetition, as dict.fromkeys leaves them.
Once(q) == \A j, k \in DOMAIN q : q[j] = q[k] => j = k

\* Appending an element adds it to the elements, and repeats none if it is new.
LEMMA ToSetAppend ==
  ASSUME NEW S, NEW q \in Seq(S), NEW x \in S
  PROVE  /\ ToSet(Append(q, x)) = ToSet(q) \cup {x}
         /\ Once(q) /\ x \notin ToSet(q) => Once(Append(q, x))
  <1>1. /\ DOMAIN Append(q, x) = DOMAIN q \cup {Len(q) + 1}
        /\ Append(q, x)[Len(q) + 1] = x
        /\ \A k \in DOMAIN q : k # Len(q) + 1 /\ Append(q, x)[k] = q[k]
    OBVIOUS
  <1>2. ToSet(Append(q, x)) = ToSet(q) \cup {x}
    BY <1>1 DEF ToSet
  <1>3. Once(q) /\ x \notin ToSet(q) => Once(Append(q, x))
    BY <1>1 DEF ToSet, Once
  <1> QED
    BY <1>2, <1>3

\* A list repeats nothing exactly when it has as many entries as elements.
LEMMA OnceIsCardinality ==
  ASSUME NEW S, NEW q \in Seq(S)
  PROVE  IsFiniteSet(ToSet(q)) /\ (Once(q) <=> Cardinality(ToSet(q)) = Len(q))
  <1>1. Len(q) \in Nat /\ DOMAIN q = 1..Len(q) /\ q = [k \in 1..Len(q) |-> q[k]]
    OBVIOUS
  <1>2. q \in Surjection(1..Len(q), ToSet(q))
    BY <1>1 DEF Surjection, ToSet
  <1>3. IsFiniteSet(1..Len(q)) /\ Cardinality(1..Len(q)) = Len(q)
    <2> DEFINE n == Len(q)
    <2>1. n \in Nat
      OBVIOUS
    <2> HIDE DEF n
    <2>2. n \in Int /\ 1 \in Int /\ (IF 1 > n THEN 0 ELSE n - 1 + 1) = n
      BY ONLY <2>1
    <2>3. IsFiniteSet(1..n) /\ Cardinality(1..n) = IF 1 > n THEN 0 ELSE n - 1 + 1
      BY ONLY <2>2, FS_Interval
    <2> QED
      BY <2>2, <2>3 DEF n
  <1>4. /\ IsFiniteSet(ToSet(q))
        /\ Cardinality(ToSet(q)) = Cardinality(1..Len(q))
             <=> q \in Injection(1..Len(q), ToSet(q))
    BY <1>2, <1>3, FS_Surjection
  <1>5. q \in Injection(1..Len(q), ToSet(q)) <=> Once(q)
    BY <1>1, <1>2 DEF Injection, IsInjective, Surjection, Once
  <1> QED
    BY <1>3, <1>4, <1>5

\* A queue without repetition that gives up its head keeps all the others.
LEMMA ToSetTail ==
  ASSUME NEW S, NEW q \in Seq(S), q # <<>>, Once(q)
  PROVE  /\ ToSet(Tail(q)) = ToSet(q) \ {Head(q)}
         /\ Head(q) \in ToSet(q)
         /\ Once(Tail(q))
  <1>1. /\ 1 \in DOMAIN q /\ Head(q) = q[1]
        /\ \A k \in DOMAIN Tail(q) : k + 1 \in DOMAIN q /\ Tail(q)[k] = q[k + 1]
        /\ \A k \in DOMAIN q : k # 1 => k - 1 \in DOMAIN Tail(q) /\ Tail(q)[k - 1] = q[k]
        /\ DOMAIN Tail(q) \subseteq Nat \ {0} /\ DOMAIN q \subseteq Nat
    OBVIOUS
  <1>2. ToSet(Tail(q)) \subseteq ToSet(q) \ {Head(q)}
    BY <1>1 DEF ToSet, Once
  <1>3. ASSUME NEW x \in ToSet(q) \ {Head(q)}
        PROVE  x \in ToSet(Tail(q))
    <2>1. PICK k \in DOMAIN q : q[k] = x
      BY DEF ToSet
    <2>2. k - 1 \in DOMAIN Tail(q) /\ Tail(q)[k - 1] = x
      BY <1>1, <2>1
    <2> QED
      BY <2>2 DEF ToSet
  <1>4. Once(Tail(q))
    BY <1>1 DEF Once
  <1> QED
    BY <1>1, <1>2, <1>3, <1>4 DEF ToSet


\* The elements of a concatenation.
LEMMA ToSetConcat ==
  ASSUME NEW S, NEW s \in Seq(S), NEW t \in Seq(S)
  PROVE  ToSet(s \o t) = ToSet(s) \cup ToSet(t)
  <1>1. /\ s \o t \in Seq(S) /\ Len(s \o t) = Len(s) + Len(t)
        /\ \A i \in 1..(Len(s) + Len(t)) :
             (s \o t)[i] = IF i <= Len(s) THEN s[i] ELSE t[i - Len(s)]
    BY ConcatProperties
  <1> DEFINE u == s \o t
             m == Len(s)
             n == Len(t)
  <1>2. /\ DOMAIN s = 1..m /\ DOMAIN t = 1..n /\ DOMAIN u = 1..(m + n)
        /\ m \in Nat /\ n \in Nat
    BY <1>1
  <1> HIDE DEF u, m, n
  <1>3. \A i \in 1..m : u[i] = s[i] /\ i \in 1..(m + n)
    BY <1>1, <1>2 DEF u, m, n
  <1>4. \A i \in 1..n : u[m + i] = t[i] /\ m + i \in 1..(m + n)
    BY <1>1, <1>2 DEF u, m, n
  <1>5. \A i \in 1..(m + n) : i \in 1..m \/ \E j \in 1..n : i = m + j
    <2>1. \A i \in 1..(m + n) : i \in 1..m \/ (i - m \in 1..n /\ i = m + (i - m))
      BY <1>2
    <2> QED
      BY <2>1
  <1>6. ASSUME NEW i \in 1..(m + n) PROVE u[i] \in ToSet(s) \cup ToSet(t)
    <2>1. CASE i \in 1..m
      BY <1>2, <1>3, <2>1 DEF ToSet
    <2>2. CASE \E j \in 1..n : i = m + j
      BY <1>2, <1>4, <2>2 DEF ToSet
    <2> QED
      BY <1>5, <2>1, <2>2
  <1>7. ToSet(s) \subseteq ToSet(u) /\ ToSet(t) \subseteq ToSet(u)
    BY <1>2, <1>3, <1>4 DEF ToSet
  <1>8. ToSet(u) \subseteq ToSet(s) \cup ToSet(t)
    <2>1. ToSet(u) = {u[i] : i \in 1..(m + n)}
      BY <1>2 DEF ToSet
    <2> QED
      BY <1>6, <2>1
  <1> QED
    BY <1>7, <1>8 DEF u

\* The elements of a sequence are those of the set it is a sequence over.
LEMMA SeqOfElements ==
  ASSUME NEW S, NEW s \in Seq(S)
  PROVE  /\ s \in Seq(ToSet(s)) /\ ToSet(s) \subseteq S
         /\ \A k \in DOMAIN s : s[k] \in ToSet(s)
         /\ s # <<>> <=> ToSet(s) # {}
  <1>1. DOMAIN s = 1..Len(s) /\ Len(s) \in Nat /\ \A k \in 1..Len(s) : s[k] \in S
    OBVIOUS
  <1>2. \A k \in 1..Len(s) : s[k] \in ToSet(s)
    BY <1>1 DEF ToSet
  <1>3. s \in Seq(ToSet(s))
    BY <1>1, <1>2
  <1>4. ToSet(s) \subseteq S
    BY <1>1 DEF ToSet
  <1>5. s # <<>> => ToSet(s) # {}
    BY <1>1, <1>2, EmptySeq
  <1>6. s = <<>> => ToSet(s) = {}
    BY DEF ToSet
  <1> QED
    BY <1>1, <1>2, <1>3, <1>4, <1>5, <1>6

\* A sequence computed element by element.
LEMMA ToSetMap ==
  ASSUME NEW S, NEW s \in Seq(S), NEW f
  PROVE  /\ [k \in DOMAIN s |-> f[s[k]]] \in Seq({f[x] : x \in ToSet(s)})
         /\ ToSet([k \in DOMAIN s |-> f[s[k]]]) = {f[x] : x \in ToSet(s)}
  <1> DEFINE m == [k \in DOMAIN s |-> f[s[k]]]
  <1>1. DOMAIN s = 1..Len(s) /\ Len(s) \in Nat
    OBVIOUS
  <1>2. \A k \in 1..Len(s) : m[k] \in {f[x] : x \in ToSet(s)}
    BY <1>1 DEF ToSet
  <1>3. m \in Seq({f[x] : x \in ToSet(s)})
    BY <1>1, <1>2
  <1>4. ToSet(m) = {f[x] : x \in ToSet(s)}
    BY <1>1 DEF ToSet
  <1> QED
    BY <1>3, <1>4

\* Where keeps elements one by one, in order.
LEMMA WhereUnfolds ==
  /\ \A those : Where(<<>>, those) = <<>>
  /\ \A those, S : \A s \in Seq(S), x \in S :
       /\ x \in those => Where(Append(s, x), those) = Append(Where(s, those), x)
       /\ x \notin those => Where(Append(s, x), those) = Where(s, those)
  <1>1. \A T : Max(T) = Filters!Max(T)
    BY DEF Max, Filters!Max
  <1>2. \A those, s : Where(s, those) = Filters!Fold(those, <<>>, s)
    BY <1>1 DEF Where, FoldLeft, MapThenFoldSet,
                Filters!Fold, Filters!FoldLeft, Filters!MapThenFoldSet
  <1> QED
    BY <1>2, Filters!FoldEmpty, Filters!FoldAppend

\* A comprehension with a filter keeps exactly the elements that pass it.
THEOREM WhereKeeps ==
  ASSUME NEW S, NEW s \in Seq(S), NEW those
  PROVE  Where(s, those) \in Seq(S) /\ ToSet(Where(s, those)) = ToSet(s) \cap those
  <1> DEFINE Q == {t \in Seq(S) : /\ Where(t, those) \in Seq(S)
                                  /\ ToSet(Where(t, those)) = ToSet(t) \cap those}
  <1>1. <<>> \in Q
    <2>1. <<>> \in Seq(S) /\ ToSet(<<>>) = {}
      BY DEF ToSet
    <2>2. Where(<<>>, those) = <<>>
      BY WhereUnfolds
    <2> QED
      BY <2>1, <2>2
  <1>2. ASSUME NEW t \in Seq(S), t \in Q, NEW x \in S
        PROVE  Append(t, x) \in Q
    <2>1. Append(t, x) \in Seq(S) /\ ToSet(Append(t, x)) = ToSet(t) \cup {x}
      BY AppendProperties, ToSetAppend
    <2>2. Where(t, those) \in Seq(S) /\ ToSet(Where(t, those)) = ToSet(t) \cap those
      BY <1>2
    <2>3. CASE x \in those
      <3>1. Where(Append(t, x), those) = Append(Where(t, those), x)
        BY <2>3, WhereUnfolds
      <3>2. Append(Where(t, those), x) \in Seq(S)
        BY <2>2, AppendProperties
      <3>3. ToSet(Append(Where(t, those), x)) = ToSet(Where(t, those)) \cup {x}
        BY <2>2, ToSetAppend
      <3> QED
        BY <2>1, <2>2, <2>3, <3>1, <3>2, <3>3
    <2>4. CASE x \notin those
      <3>1. Where(Append(t, x), those) = Where(t, those)
        BY <2>4, WhereUnfolds
      <3> QED
        BY <2>1, <2>2, <2>4, <3>1
    <2> QED
      BY <2>3, <2>4
  <1>3. Seq(S) \subseteq Q
    <2> HIDE DEF Q
    <2> QED
      BY <1>1, <1>2, Filters!SeqSetInduction
  <1> QED
    BY <1>3

\* dict.fromkeys keeps a key the first time it appears.
LEMMA DistinctUnfolds ==
  /\ Distinct(<<>>) = <<>>
  /\ \A S : \A s \in Seq(S), x \in S :
       Distinct(Append(s, x)) =
         IF Contains(Distinct(s), x) THEN Distinct(s) ELSE Append(Distinct(s), x)
  <1>1. \A T : Max(T) = Firsts!Max(T)
    BY DEF Max, Firsts!Max
  <1>2. \A s : Distinct(s) = Firsts!Fold(0, <<>>, s)
    BY <1>1 DEF Distinct, FoldLeft, MapThenFoldSet,
                Firsts!Fold, Firsts!FoldLeft, Firsts!MapThenFoldSet
  <1> QED
    BY <1>2, Firsts!FoldEmpty, Firsts!FoldAppend

\* dict.fromkeys loses no key and repeats none.
THEOREM DistinctKeeps ==
  ASSUME NEW S, NEW s \in Seq(S)
  PROVE  /\ Distinct(s) \in Seq(S) /\ ToSet(Distinct(s)) = ToSet(s)
         /\ Once(Distinct(s))
  <1> DEFINE Q == {t \in Seq(S) : /\ Distinct(t) \in Seq(S)
                                  /\ ToSet(Distinct(t)) = ToSet(t)
                                  /\ Once(Distinct(t))}
  <1>1. <<>> \in Q
    <2>1. <<>> \in Seq(S) /\ Once(<<>>)
      BY DEF Once
    <2>2. Distinct(<<>>) = <<>>
      BY DistinctUnfolds
    <2> QED
      BY <2>1, <2>2
  <1>2. ASSUME NEW t \in Seq(S), t \in Q, NEW x \in S
        PROVE  Append(t, x) \in Q
    <2>1. Append(t, x) \in Seq(S) /\ ToSet(Append(t, x)) = ToSet(t) \cup {x}
      BY AppendProperties, ToSetAppend
    <2>2. /\ Distinct(t) \in Seq(S) /\ ToSet(Distinct(t)) = ToSet(t)
          /\ Once(Distinct(t))
      BY <1>2
    <2>3. Contains(Distinct(t), x) <=> x \in ToSet(t)
      <3>1. DOMAIN Distinct(t) = 1..Len(Distinct(t))
        BY <2>2
      <3> QED
        BY <2>2, <3>1 DEF Contains, ToSet
    <2>4. CASE x \in ToSet(t)
      <3>1. Distinct(Append(t, x)) = Distinct(t)
        BY <2>3, <2>4, DistinctUnfolds
      <3> QED
        BY <2>1, <2>2, <2>4, <3>1
    <2>5. CASE x \notin ToSet(t)
      <3>1. Distinct(Append(t, x)) = Append(Distinct(t), x)
        BY <2>3, <2>5, DistinctUnfolds
      <3>2. Append(Distinct(t), x) \in Seq(S)
        BY <2>2, AppendProperties
      <3>3. /\ ToSet(Append(Distinct(t), x)) = ToSet(Distinct(t)) \cup {x}
            /\ Once(Append(Distinct(t), x))
        BY <2>2, <2>5, ToSetAppend
      <3> QED
        BY <2>1, <2>2, <3>1, <3>2, <3>3
    <2> QED
      BY <2>4, <2>5
  <1>3. Seq(S) \subseteq Q
    <2> HIDE DEF Q
    <2> QED
      BY <1>1, <1>2, Firsts!SeqSetInduction
  <1> QED
    BY <1>3

-------------------------------------------------------------------------------
(* The order of claims.                                                     *)

\* Claims whose ranks Python can compare.
Comparable(c) ==
  /\ c.kind \in Kinds /\ c.conf \in Int /\ c.url \in Int
  /\ Canonical[c.value] \in Int

KindRank(c) == IF c.kind = "observed" THEN 0 ELSE 1

\* Tuples are compared component by component.
LEMMA RankedIsLexicographic ==
  ASSUME NEW c, NEW d, Comparable(c), Comparable(d)
  PROVE  Ranked(c, d) <=>
           \/ KindRank(c) < KindRank(d)
           \/ KindRank(c) = KindRank(d) /\ c.conf > d.conf
           \/ KindRank(c) = KindRank(d) /\ c.conf = d.conf /\ c.url < d.url
           \/ /\ KindRank(c) = KindRank(d) /\ c.conf = d.conf /\ c.url = d.url
              /\ Canonical[c.value] < Canonical[d.value]
  <1> DEFINE r == Rank(c)
             s == Rank(d)
  <1>1. /\ r[1] = KindRank(c) /\ r[2] = -c.conf /\ r[3] = c.url
        /\ r[4] = Canonical[c.value] /\ DOMAIN r = 1..4
        /\ s[1] = KindRank(d) /\ s[2] = -d.conf /\ s[3] = d.url
        /\ s[4] = Canonical[d.value]
    BY DEF Rank, KindRank
  <1>2. Ranked(c, d) <=> \E k \in 1..4 : r[k] < s[k] /\ \A j \in 1..(k - 1) : r[j] = s[j]
    BY <1>1 DEF Ranked, Below
  <1> HIDE DEF r, s
  <1>3. (\E k \in 1..4 : r[k] < s[k] /\ \A j \in 1..(k - 1) : r[j] = s[j]) <=>
           \/ r[1] < s[1]
           \/ r[1] = s[1] /\ r[2] < s[2]
           \/ r[1] = s[1] /\ r[2] = s[2] /\ r[3] < s[3]
           \/ r[1] = s[1] /\ r[2] = s[2] /\ r[3] = s[3] /\ r[4] < s[4]
    <2>1. 1..4 = {1, 2, 3, 4} /\ 1..(1 - 1) = {} /\ 1..(2 - 1) = {1}
          /\ 1..(3 - 1) = {1, 2} /\ 1..(4 - 1) = {1, 2, 3}
      OBVIOUS
    <2> QED
      BY <2>1
  <1>4. KindRank(c) \in Int /\ KindRank(d) \in Int
    BY DEF KindRank
  <1>5. /\ -c.conf < -d.conf <=> c.conf > d.conf
        /\ -c.conf = -d.conf <=> c.conf = d.conf
    BY DEF Comparable
  <1> QED
    BY <1>1, <1>2, <1>3, <1>4, <1>5

\* Ranking is a strict weak order: what is not ranked is transitive too.
LEMMA RankedOrders ==
  ASSUME NEW S, \A c \in S : Comparable(c)
  PROVE  /\ \A c \in S : ~ Ranked(c, c)
         /\ \A c, d \in S : Ranked(c, d) => ~ Ranked(d, c)
         /\ \A b, c, d \in S : ~ Ranked(b, c) /\ ~ Ranked(c, d) => ~ Ranked(b, d)
  <1>1. \A c \in S : KindRank(c) \in Int /\ c.conf \in Int /\ c.url \in Int
                     /\ Canonical[c.value] \in Int
    BY DEF Comparable, KindRank
  <1>2. \A c, d \in S : Ranked(c, d) <=>
           \/ KindRank(c) < KindRank(d)
           \/ KindRank(c) = KindRank(d) /\ c.conf > d.conf
           \/ KindRank(c) = KindRank(d) /\ c.conf = d.conf /\ c.url < d.url
           \/ /\ KindRank(c) = KindRank(d) /\ c.conf = d.conf /\ c.url = d.url
              /\ Canonical[c.value] < Canonical[d.value]
    BY RankedIsLexicographic
  <1>3. \A b, c, d \in S : ~ Ranked(b, c) /\ ~ Ranked(c, d) => ~ Ranked(b, d)
    <2> SUFFICES ASSUME NEW b \in S, NEW c \in S, NEW d \in S,
                        ~ Ranked(b, c), ~ Ranked(c, d)
                 PROVE  ~ Ranked(b, d)
      OBVIOUS
    <2>1. /\ KindRank(b) \in Int /\ KindRank(c) \in Int /\ KindRank(d) \in Int
          /\ b.conf \in Int /\ c.conf \in Int /\ d.conf \in Int
          /\ b.url \in Int /\ c.url \in Int /\ d.url \in Int
          /\ Canonical[b.value] \in Int /\ Canonical[c.value] \in Int
          /\ Canonical[d.value] \in Int
      BY <1>1
    <2> QED
      BY <1>2, <2>1
  <1>4. \A c, d \in S : Ranked(c, d) => ~ Ranked(d, c)
    BY <1>1, <1>2
  <1> QED
    BY <1>3, <1>4

\* The index min() stops at.
First(claims, i) ==
  \A j \in DOMAIN claims :
    /\ ~ Ranked(claims[j], claims[i])
    /\ j < i => Ranked(claims[i], claims[j])

\* A list of claims that is not empty has a first claim of least rank.
LEMMA FirstExists ==
  ASSUME NEW S, \A c \in S : Comparable(c)
  PROVE  \A claims \in Seq(S) : claims # <<>> =>
           \E i \in DOMAIN claims : First(claims, i)
  <1> DEFINE Q == {t \in Seq(S) : t = <<>> \/ \E i \in DOMAIN t : First(t, i)}
  <1>1. <<>> \in Q
    OBVIOUS
  <1>2. ASSUME NEW t \in Seq(S), t \in Q, NEW x \in S
        PROVE  Append(t, x) \in Q
    <2> DEFINE u == Append(t, x)
               n == Len(t)
    <2>1. /\ u \in Seq(S) /\ DOMAIN u = 1..(n + 1) /\ u[n + 1] = x /\ n \in Nat
          /\ DOMAIN t = 1..n /\ \A j \in 1..n : u[j] = t[j] /\ t[j] \in S
      OBVIOUS
    <2> HIDE DEF u, n
    <2>2. CASE t = <<>>
      <3>1. n = 0
        BY <2>2 DEF n
      <3>2. First(u, 1)
        BY <2>1, <3>1, RankedOrders DEF First
      <3> QED
        BY <2>1, <3>1, <3>2 DEF u
    <2>3. CASE t # <<>>
      <3>1. PICK i \in 1..n : First(t, i)
        BY <1>2, <2>1, <2>3
      <3>2. \A j \in 1..n : /\ ~ Ranked(t[j], t[i])
                            /\ j < i => Ranked(t[i], t[j])
        BY <2>1, <3>1 DEF First
      <3>3. CASE Ranked(x, t[i])
        <4>1. \A j \in 1..n : ~ Ranked(t[j], x) /\ Ranked(x, t[j])
          BY <2>1, <3>2, <3>3, RankedOrders
        <4>2. First(u, n + 1)
          BY <2>1, <4>1, RankedOrders DEF First
        <4> QED
          BY <2>1, <4>2 DEF u
      <3>4. CASE ~ Ranked(x, t[i])
        <4>1. First(u, i)
          BY <2>1, <3>2, <3>4 DEF First
        <4> QED
          BY <2>1, <4>1 DEF u
      <3> QED
        BY <3>3, <3>4
    <2> QED
      BY <2>2, <2>3
  <1>3. Seq(S) \subseteq Q
    <2> HIDE DEF Q
    <2> QED
      BY <1>1, <1>2, Sorts!SeqSetInduction
  <1> QED
    BY <1>3

\* min(claims, key=_rank) is one of the claims, and none ranks before it.
THEOREM BestIsLeast ==
  ASSUME NEW S, \A c \in S : Comparable(c), NEW claims \in Seq(S), claims # <<>>
  PROVE  /\ Best(claims) \in ToSet(claims)
         /\ \A c \in ToSet(claims) : ~ Ranked(c, Best(claims))
  <1> DEFINE i == CHOOSE k \in DOMAIN claims : First(claims, k)
  <1>1. \E k \in DOMAIN claims : First(claims, k)
    BY FirstExists
  <1>2. i \in DOMAIN claims /\ First(claims, i)
    BY <1>1
  <1>3. Best(claims) = claims[i]
    BY DEF Best, First
  <1> HIDE DEF i
  <1> QED
    BY <1>2, <1>3 DEF First, ToSet

-------------------------------------------------------------------------------
(* sorted(claims, key=_rank).                                               *)

InOrder(s) == \A j, k \in DOMAIN s : j < k => ~ Ranked(s[k], s[j])

\* An ordered list has a place for every claim.
LEMMA SlotExists ==
  ASSUME NEW S, \A c \in S : Comparable(c), NEW s \in Seq(S), InOrder(s), NEW c \in S
  PROVE  /\ Slot(s, c) \in 0..Len(s)
         /\ \A j \in 1..Slot(s, c) : ~ Ranked(c, s[j])
         /\ \A j \in (Slot(s, c) + 1)..Len(s) : Ranked(c, s[j])
  <1> DEFINE n == Len(s)
             Fits(k) == /\ \A j \in 1..k : ~ Ranked(c, s[j])
                        /\ \A j \in (k + 1)..n : Ranked(c, s[j])
             Part(k, m) == /\ \A j \in 1..k : ~ Ranked(c, s[j])
                           /\ \A j \in (k + 1)..m : Ranked(c, s[j])
             Q == {m \in Nat : m <= n => \E k \in 0..m : Part(k, m)}
  <1>1. n \in Nat /\ DOMAIN s = 1..n /\ \A j \in 1..n : s[j] \in S
    OBVIOUS
  <1> HIDE DEF n
  <1>2. 0 \in Q
    OBVIOUS
  <1>3. ASSUME NEW m \in Nat, m \in Q
        PROVE  m + 1 \in Q
    <2> SUFFICES ASSUME m + 1 <= n
                 PROVE  \E k \in 0..(m + 1) : Part(k, m + 1)
      OBVIOUS
    <2>1. PICK k \in 0..m : Part(k, m)
      BY <1>1, <1>3
    <2>2. CASE Ranked(c, s[m + 1])
      <3>1. \A j \in (k + 1)..(m + 1) : Ranked(c, s[j])
        BY <2>1, <2>2
      <3>2. Part(k, m + 1) /\ k \in 0..(m + 1)
        BY <2>1, <3>1
      <3> QED
        BY <3>2
    <2>3. CASE ~ Ranked(c, s[m + 1])
      <3>1. \A j \in 1..m : ~ Ranked(s[m + 1], s[j])
        BY <1>1 DEF InOrder
      <3>2. \A j \in 1..(m + 1) : ~ Ranked(c, s[j])
        BY <1>1, <2>3, <3>1, RankedOrders
      <3>3. Part(m + 1, m + 1) /\ m + 1 \in 0..(m + 1)
        BY <3>2
      <3> QED
        BY <3>3
    <2> QED
      BY <2>2, <2>3
  <1>4. Nat \subseteq Q
    <2> HIDE DEF Q
    <2> QED
      BY <1>2, <1>3, Sorts!NatSetInduction
  <1>5. \E k \in 0..n : Fits(k)
    <2>1. n \in Q
      BY <1>1, <1>4
    <2>2. \E k \in 0..n : Part(k, n)
      BY <1>1, <2>1
    <2> QED
      BY <2>2
  <1>6. Slot(s, c) = CHOOSE k \in 0..n : Fits(k)
    BY DEF Slot, n
  <1> HIDE DEF Fits
  <1>7. Slot(s, c) \in 0..n /\ Fits(Slot(s, c))
    BY <1>5, <1>6
  <1> QED
    BY <1>7 DEF Fits, n

\* Inserting in that place keeps the order.
LEMMA InsertKeeps ==
  ASSUME NEW S, \A c \in S : Comparable(c), NEW s \in Seq(S), InOrder(s), NEW c \in S
  PROVE  LET t == InsertAt(s, Slot(s, c) + 1, c)
         IN  /\ t \in Seq(S) /\ ToSet(t) = ToSet(s) \cup {c} /\ InOrder(t)
             /\ Len(t) = Len(s) + 1
  <1> DEFINE n == Len(s)
             k == Slot(s, c)
             front == SubSeq(s, 1, (k + 1) - 1)
             back == SubSeq(s, k + 1, Len(s))
             t == InsertAt(s, k + 1, c)
  <1>1. /\ k \in 0..n
        /\ \A j \in 1..k : ~ Ranked(c, s[j])
        /\ \A j \in (k + 1)..n : Ranked(c, s[j])
    BY SlotExists
  <1>2. n \in Nat /\ DOMAIN s = 1..n /\ \A j \in 1..n : s[j] \in S
    OBVIOUS
  <1> HIDE DEF k
  <1>3. front \in Seq(S) /\ Len(front) = k /\ \A j \in 1..k : front[j] = s[j]
    BY <1>1, <1>2, SubSeqProperties
  <1>4. back \in Seq(S) /\ Len(back) = n - k /\ \A j \in 1..(n - k) : back[j] = s[k + j]
    <2>1. \A j \in (k + 1)..Len(s) : s[j] \in S
      BY <1>1, <1>2
    <2>2. /\ back \in Seq(S)
          /\ Len(back) = IF k + 1 <= Len(s) THEN Len(s) - (k + 1) + 1 ELSE 0
          /\ \A j \in 1..(Len(s) - (k + 1) + 1) : back[j] = s[(k + 1) + j - 1]
      BY <1>1, <1>2, <2>1, SubSeqProperties
    <2>3. Len(s) - (k + 1) + 1 = n - k /\ (k + 1 <= Len(s) \/ n - k = 0)
      <3>1. k \in Int /\ n \in Int /\ k <= n /\ n = Len(s)
        BY <1>1, <1>2
      <3> HIDE DEF n
      <3> QED
        BY ONLY <3>1
    <2>4. \A j \in 1..(n - k) : (k + 1) + j - 1 = k + j
      BY <1>1, <1>2
    <2> HIDE DEF back, n
    <2>5. Len(back) = n - k
      BY <2>2, <2>3
    <2> QED
      BY <2>2, <2>3, <2>4, <2>5
  <1>5. t = (front \o <<c>>) \o back
    BY DEF InsertAt
  <1> HIDE DEF front, back, t, n
  <1>6. /\ front \o <<c>> \in Seq(S) /\ Len(front \o <<c>>) = k + 1
        /\ (front \o <<c>>)[k + 1] = c
        /\ \A j \in 1..k : (front \o <<c>>)[j] = s[j]
    <2>1. <<c>> \in Seq(S) /\ Len(<<c>>) = 1 /\ <<c>>[1] = c
      OBVIOUS
    <2> QED
      BY <1>1, <1>2, <1>3, <2>1, ConcatProperties
  <1>7. /\ t \in Seq(S) /\ Len(t) = n + 1
        /\ \A j \in 1..k : t[j] = s[j]
        /\ t[k + 1] = c
        /\ \A j \in (k + 2)..(n + 1) : t[j] = s[j - 1]
    <2> DEFINE p == front \o <<c>>
    <2>1. /\ p \o back \in Seq(S) /\ Len(p \o back) = Len(p) + Len(back)
          /\ \A j \in 1..(Len(p) + Len(back)) :
               (p \o back)[j] = IF j <= Len(p) THEN p[j] ELSE back[j - Len(p)]
      <3>1. p \in Seq(S) /\ back \in Seq(S)
        BY <1>4, <1>6
      <3> HIDE DEF p
      <3> QED
        BY ONLY <3>1, ConcatProperties
    <2> HIDE DEF p
    <2>2. /\ p \in Seq(S) /\ Len(p) = k + 1 /\ p[k + 1] = c
          /\ t = p \o back
          /\ \A j \in 1..k : p[j] = s[j]
      BY <1>5, <1>6 DEF p
    <2>3. k \in Int /\ n \in Int /\ 0 <= k /\ k <= n
      BY <1>1, <1>2
    <2>4. Len(p) + Len(back) = n + 1
      BY <1>4, <2>2, <2>3
    <2>5. \A j \in 1..(k + 1) : t[j] = p[j]
      BY <2>1, <2>2, <2>3, <2>4
    <2>6. ASSUME NEW j \in (k + 2)..(n + 1)
          PROVE  t[j] = s[j - 1]
      <3>1. j \in 1..(n + 1) /\ ~ j <= k + 1 /\ j - (k + 1) \in 1..(n - k)
        BY <2>3
      <3>2. t[j] = back[j - (k + 1)]
        BY <2>1, <2>2, <2>4, <3>1
      <3>3. k + (j - (k + 1)) = j - 1
        BY <2>3
      <3> QED
        BY <1>4, <3>1, <3>2, <3>3
    <2>7. t \in Seq(S) /\ Len(t) = n + 1
      BY <2>1, <2>2, <2>4
    <2>8. t[k + 1] = c /\ \A j \in 1..k : t[j] = s[j]
      BY <2>2, <2>3, <2>5
    <2> QED
      BY <2>6, <2>7, <2>8
  <1>8. DOMAIN t = 1..(n + 1)
    BY <1>7
  <1>9. ToSet(t) = ToSet(s) \cup {c}
    <2>1. ASSUME NEW x \in ToSet(t)
          PROVE  x \in ToSet(s) \cup {c}
      <3>1. PICK j \in 1..(n + 1) : x = t[j]
        BY <1>8 DEF ToSet
      <3>2. \/ j \in 1..k /\ x = s[j]
            \/ x = c
            \/ j - 1 \in 1..n /\ x = s[j - 1]
        BY <1>1, <1>2, <1>7, <3>1
      <3> QED
        BY <1>1, <1>2, <3>2 DEF ToSet
    <2>2. ASSUME NEW x \in ToSet(s) \cup {c}
          PROVE  x \in ToSet(t)
      <3>1. CASE x = c
        BY <1>1, <1>2, <1>7, <1>8, <3>1 DEF ToSet
      <3>2. CASE x \in ToSet(s)
        <4>1. PICK j \in 1..n : x = s[j]
          BY <1>2, <3>2 DEF ToSet
        <4>2. \/ j \in 1..(n + 1) /\ t[j] = x
              \/ j + 1 \in 1..(n + 1) /\ t[j + 1] = x
          BY <1>1, <1>2, <1>7, <4>1
        <4> QED
          BY <1>8, <4>2 DEF ToSet
      <3> QED
        BY <3>1, <3>2
    <2> QED
      BY <2>1, <2>2
  <1>10. InOrder(t)
    <2>1. ASSUME NEW i \in 1..(n + 1), NEW j \in 1..(n + 1), i < j
          PROVE  ~ Ranked(t[j], t[i])
      <3>1. CASE j <= k
        <4>1. i \in 1..k /\ j \in 1..k /\ i \in 1..n /\ j \in 1..n
          BY <1>1, <1>2, <2>1, <3>1
        <4>2. t[i] = s[i] /\ t[j] = s[j]
          BY <1>7, <4>1
        <4> QED
          BY <1>2, <2>1, <4>1, <4>2 DEF InOrder
      <3>2. CASE j = k + 1
        <4>1. i \in 1..k /\ i \in 1..n /\ t[i] = s[i] /\ t[j] = c
          BY <1>1, <1>2, <1>7, <2>1, <3>2
        <4> QED
          BY <1>1, <4>1
      <3>3. CASE j > k + 1 /\ i = k + 1
        <4>1. j - 1 \in (k + 1)..n /\ t[j] = s[j - 1] /\ t[i] = c /\ j - 1 \in 1..n
          BY <1>1, <1>2, <1>7, <2>1, <3>3
        <4>2. Ranked(c, s[j - 1])
          BY <1>1, <4>1
        <4> QED
          BY <1>2, <4>1, <4>2, RankedOrders
      <3>4. CASE j > k + 1 /\ i <= k
        <4>1. j - 1 \in 1..n /\ t[j] = s[j - 1] /\ t[i] = s[i] /\ i \in 1..n /\ i < j - 1
          BY <1>1, <1>2, <1>7, <2>1, <3>4
        <4> QED
          BY <1>2, <4>1 DEF InOrder
      <3>5. CASE j > k + 1 /\ i > k + 1
        <4>1. /\ j - 1 \in 1..n /\ t[j] = s[j - 1] /\ t[i] = s[i - 1]
              /\ i - 1 \in 1..n /\ i - 1 < j - 1
          BY <1>1, <1>2, <1>7, <2>1, <3>5
        <4> QED
          BY <1>2, <4>1 DEF InOrder
      <3> QED
        BY <1>1, <1>2, <2>1, <3>1, <3>2, <3>3, <3>4, <3>5
    <2> QED
      BY <1>8, <2>1 DEF InOrder
  <1> QED
    BY <1>7, <1>9, <1>10 DEF t, k, n

\* Sorting inserts claim by claim.
LEMMA SortedUnfolds ==
  /\ Sorted(<<>>) = <<>>
  /\ \A S : \A s \in Seq(S), c \in S :
       Sorted(Append(s, c)) = InsertAt(Sorted(s), Slot(Sorted(s), c) + 1, c)
  <1>1. \A T : Max(T) = Sorts!Max(T)
    BY DEF Max, Sorts!Max
  <1>2. \A s : Sorted(s) = Sorts!Fold(0, <<>>, s)
    BY <1>1 DEF Sorted, FoldLeft, MapThenFoldSet,
                Sorts!Fold, Sorts!FoldLeft, Sorts!MapThenFoldSet
  <1> QED
    BY <1>2, Sorts!FoldEmpty, Sorts!FoldAppend

\* sorted(key=_rank) returns all the claims, in the order of their ranks.
THEOREM SortedSorts ==
  ASSUME NEW S, \A c \in S : Comparable(c), NEW s \in Seq(S)
  PROVE  /\ Sorted(s) \in Seq(S) /\ ToSet(Sorted(s)) = ToSet(s)
         /\ InOrder(Sorted(s))
         /\ Len(Sorted(s)) = Len(s) /\ (Once(s) => Once(Sorted(s)))
  <1> DEFINE Q == {t \in Seq(S) : /\ Sorted(t) \in Seq(S)
                                  /\ ToSet(Sorted(t)) = ToSet(t)
                                  /\ InOrder(Sorted(t)) /\ Len(Sorted(t)) = Len(t)}
  <1>1. <<>> \in Q
    <2>1. <<>> \in Seq(S) /\ InOrder(<<>>)
      BY DEF InOrder
    <2>2. Sorted(<<>>) = <<>>
      BY SortedUnfolds
    <2> QED
      BY <2>1, <2>2
  <1>2. ASSUME NEW t \in Seq(S), t \in Q, NEW x \in S
        PROVE  Append(t, x) \in Q
    <2>1. /\ Append(t, x) \in Seq(S) /\ ToSet(Append(t, x)) = ToSet(t) \cup {x}
          /\ Len(Append(t, x)) = Len(t) + 1
      BY AppendProperties, ToSetAppend
    <2>2. /\ Sorted(t) \in Seq(S) /\ ToSet(Sorted(t)) = ToSet(t)
          /\ InOrder(Sorted(t)) /\ Len(Sorted(t)) = Len(t)
      BY <1>2
    <2> DEFINE u == InsertAt(Sorted(t), Slot(Sorted(t), x) + 1, x)
    <2>3. /\ u \in Seq(S) /\ ToSet(u) = ToSet(Sorted(t)) \cup {x} /\ InOrder(u)
          /\ Len(u) = Len(Sorted(t)) + 1
      BY <2>2, InsertKeeps
    <2>4. Sorted(Append(t, x)) = u
      BY SortedUnfolds
    <2> HIDE DEF u
    <2> QED
      BY <2>1, <2>2, <2>3, <2>4
  <1>3. Seq(S) \subseteq Q
    <2> HIDE DEF Q
    <2> QED
      BY <1>1, <1>2, Sorts!SeqSetInduction
  <1>4. /\ Sorted(s) \in Seq(S) /\ ToSet(Sorted(s)) = ToSet(s)
        /\ InOrder(Sorted(s)) /\ Len(Sorted(s)) = Len(s)
    BY <1>3
  <1>5. Once(s) => Once(Sorted(s))
    BY <1>4, OnceIsCardinality
  <1> QED
    BY <1>4, <1>5

\* A filter repeats nothing and keeps the order.
LEMMA WhereOrdered ==
  ASSUME NEW S, NEW s \in Seq(S), NEW those
  PROVE  /\ Once(s) => Once(Where(s, those))
         /\ InOrder(s) => InOrder(Where(s, those))
  <1> DEFINE Q == {t \in Seq(S) : /\ Once(t) => Once(Where(t, those))
                                  /\ InOrder(t) => InOrder(Where(t, those))}
  <1>1. <<>> \in Q
    BY WhereUnfolds DEF Once, InOrder
  <1>2. ASSUME NEW t \in Seq(S), t \in Q, NEW x \in S
        PROVE  Append(t, x) \in Q
    <2> DEFINE u == Append(t, x)
               n == Len(t)
               v == Where(t, those)
               w == Append(v, x)
               m == Len(v)
    <2>1. /\ u \in Seq(S) /\ DOMAIN u = 1..(n + 1) /\ u[n + 1] = x /\ n \in Nat
          /\ DOMAIN t = 1..n /\ \A j \in 1..n : u[j] = t[j]
      OBVIOUS
    <2>2. v \in Seq(S) /\ ToSet(v) = ToSet(t) \cap those
      BY WhereKeeps
    <2> HIDE DEF u, v
    <2>3. /\ DOMAIN w = 1..(m + 1) /\ w[m + 1] = x /\ m \in Nat
          /\ DOMAIN v = 1..m /\ \A j \in 1..m : w[j] = v[j]
      BY <2>2
    <2> HIDE DEF n, w, m
    <2>4. /\ Once(u) => Once(t) /\ x \notin ToSet(t)
          /\ InOrder(u) => InOrder(t) /\ \A y \in ToSet(t) : ~ Ranked(x, y)
      <3>1. \A j \in 1..n : j \in 1..(n + 1) /\ j < n + 1 /\ j # n + 1 /\ n + 1 \in 1..(n + 1)
        BY <2>1
      <3>2. Once(u) => Once(t) /\ x \notin ToSet(t)
        BY <2>1, <3>1 DEF Once, ToSet
      <3>3. InOrder(u) => InOrder(t) /\ \A y \in ToSet(t) : ~ Ranked(x, y)
        BY <2>1, <3>1 DEF InOrder, ToSet
      <3> QED
        BY <3>2, <3>3
    <2>5. \A j \in 1..m : v[j] \in ToSet(t)
      BY <2>2, <2>3 DEF ToSet
    <2>6. /\ (Once(v) /\ x \notin ToSet(t)) => Once(w)
          /\ (InOrder(v) /\ \A y \in ToSet(t) : ~ Ranked(x, y)) => InOrder(w)
      <3>1. \A j, k \in 1..(m + 1) : j < k => j \in 1..m /\ (k \in 1..m \/ k = m + 1)
        BY <2>3
      <3>2. \A k \in 1..(m + 1) : k \in 1..m \/ k = m + 1
        BY <2>3
      <3>3. (Once(v) /\ x \notin ToSet(t)) => Once(w)
        BY <2>3, <2>5, <3>2 DEF Once
      <3>4. (InOrder(v) /\ \A y \in ToSet(t) : ~ Ranked(x, y)) => InOrder(w)
        BY <2>3, <2>5, <3>1 DEF InOrder
      <3> QED
        BY <3>3, <3>4
    <2>7. /\ Once(t) => Once(v)
          /\ InOrder(t) => InOrder(v)
      BY <1>2 DEF v
    <2>8. Where(u, those) = w \/ Where(u, those) = v
      BY WhereUnfolds DEF u, w, v
    <2> QED
      BY <2>1, <2>4, <2>6, <2>7, <2>8 DEF u
  <1>3. Seq(S) \subseteq Q
    <2> HIDE DEF Q
    <2> QED
      BY <1>1, <1>2, Filters!SeqSetInduction
  <1> QED
    BY <1>3

\* Only the elements of the list decide what a filter keeps of it.
LEMMA WhereDepends ==
  ASSUME NEW S, NEW those, NEW others
  PROVE  \A s \in Seq(S) : (\A x \in ToSet(s) : x \in those <=> x \in others)
                             => Where(s, those) = Where(s, others)
  <1> DEFINE Agree(t) == \A x \in ToSet(t) : x \in those <=> x \in others
             Q == {t \in Seq(S) : Agree(t) => Where(t, those) = Where(t, others)}
  <1>1. <<>> \in Q
    BY WhereUnfolds
  <1>2. ASSUME NEW t \in Seq(S), t \in Q, NEW x \in S
        PROVE  Append(t, x) \in Q
    <2>1. Append(t, x) \in Seq(S) /\ ToSet(Append(t, x)) = ToSet(t) \cup {x}
      BY AppendProperties, ToSetAppend
    <2>2. ASSUME Agree(Append(t, x))
          PROVE  Where(Append(t, x), those) = Where(Append(t, x), others)
      <3>1. Agree(t) /\ (x \in those <=> x \in others)
        BY <2>1, <2>2
      <3>2. Where(t, those) = Where(t, others)
        BY <1>2, <3>1
      <3> HIDE DEF Agree
      <3> QED
        BY <3>1, <3>2, WhereUnfolds
    <2> HIDE DEF Agree
    <2> QED
      BY <2>1, <2>2
  <1>3. Seq(S) \subseteq Q
    <2> HIDE DEF Q
    <2> QED
      BY <1>1, <1>2, Filters!SeqSetInduction
  <1> QED
    BY <1>3

\* One more claim is the least when it ranks before the least so far, and
\* changes nothing otherwise: the first of equals wins.
LEMMA BestAppend ==
  ASSUME NEW S, \A c \in S : Comparable(c), NEW claims \in Seq(S), claims # <<>>,
         NEW x \in S
  PROVE  Best(Append(claims, x)) = IF Ranked(x, Best(claims)) THEN x ELSE Best(claims)
  <1> DEFINE Chosen(q) == CHOOSE k \in DOMAIN q : First(q, k)
             i == Chosen(claims)
             u == Append(claims, x)
             n == Len(claims)
  <1>1. \A q \in Seq(S), k \in Nat : k \in DOMAIN q /\ First(q, k) => Best(q) = q[k]
    <2>1. ASSUME NEW q \in Seq(S), NEW k \in DOMAIN q, First(q, k)
          PROVE  Best(q) = q[k]
      <3>1. Chosen(q) \in DOMAIN q /\ First(q, Chosen(q))
        BY <2>1
      <3>2. Best(q) = q[Chosen(q)]
        BY DEF Best, First
      <3> HIDE DEF Chosen
      <3>3. DOMAIN q \subseteq Nat
        OBVIOUS
      <3>4. k < Chosen(q) \/ Chosen(q) < k \/ k = Chosen(q)
        BY <3>1, <3>3
      <3>5. k = Chosen(q)
        BY <2>1, <3>1, <3>4 DEF First
      <3> QED
        BY <3>2, <3>5
    <2> QED
      BY <2>1
  <1>2. PICK k \in DOMAIN claims : First(claims, k)
    BY FirstExists
  <1>3. /\ u \in Seq(S) /\ DOMAIN u = 1..(n + 1) /\ u[n + 1] = x /\ n \in Nat
        /\ DOMAIN claims = 1..n /\ \A j \in 1..n : u[j] = claims[j] /\ claims[j] \in S
    OBVIOUS
  <1>4. Best(claims) = claims[k] /\ k \in 1..n /\ k \in 1..(n + 1) /\ k < n + 1 /\ k \in Nat
    BY <1>1, <1>2, <1>3
  <1> HIDE DEF u, n
  <1>5. \A j \in 1..n : /\ ~ Ranked(claims[j], claims[k])
                        /\ j < k => Ranked(claims[k], claims[j])
    BY <1>2, <1>3 DEF First
  <1>6. \A j \in 1..(n + 1) : j \in 1..n \/ j = n + 1
    BY <1>3
  <1>7. CASE Ranked(x, claims[k])
    <2>1. \A j \in 1..n : ~ Ranked(claims[j], x) /\ Ranked(x, claims[j])
      BY <1>3, <1>4, <1>5, <1>7, RankedOrders
    <2>2. First(u, n + 1)
      BY <1>3, <1>6, <2>1, RankedOrders DEF First
    <2>3. n + 1 \in Nat /\ n + 1 \in DOMAIN u
      BY <1>3
    <2>4. Best(u) = x
      BY <1>1, <1>3, <2>2, <2>3
    <2> QED
      BY <1>4, <1>7, <2>4 DEF u
  <1>8. CASE ~ Ranked(x, claims[k])
    <2>1. First(u, k)
      <3>1. \A j \in 1..(n + 1) : ~ Ranked(u[j], u[k])
        BY <1>3, <1>4, <1>5, <1>6, <1>8
      <3>2. \A j \in 1..(n + 1) : j < k => j \in 1..n
        BY <1>3, <1>4
      <3>3. \A j \in 1..(n + 1) : j < k => Ranked(u[k], u[j])
        BY <1>3, <1>4, <1>5, <3>2
      <3> QED
        BY <1>3, <3>1, <3>3 DEF First
    <2>2. Best(u) = claims[k]
      BY <1>1, <1>3, <1>4, <2>1
    <2> QED
      BY <1>4, <1>8, <2>2 DEF u
  <1> QED
    BY <1>7, <1>8

-------------------------------------------------------------------------------
(* Grouping.                                                                *)

\* Stripping is idempotent and never blanks a name that was not blank.
LEMMA StripAgain ==
  /\ \A raw \in DOMAIN Strip : Strip[raw] \in DOMAIN Strip /\ Strip[Strip[raw]] = Strip[raw]
  /\ \A raw \in Named : raw \in DOMAIN Strip /\ Strip[raw] \in Named
  /\ Named \subseteq DOMAIN Strip
  BY StripAssumption DEF Named

\* What _dedupe is left with: the names that are not blank, stripped, once each.
THEOREM DedupeKeeps ==
  ASSUME NEW names \in Seq(DOMAIN Strip)
  PROVE  /\ Dedupe(names) \in Seq(Named) /\ Once(Dedupe(names))
         /\ ToSet(Dedupe(names)) = {Strip[name] : name \in ToSet(names)} \cap Named
  <1> DEFINE stripped == [k \in DOMAIN names |-> Strip[names[k]]]
             T == {Strip[name] : name \in ToSet(names)}
             kept == Where(stripped, Named)
  <1>1. stripped \in Seq(T) /\ ToSet(stripped) = T
    BY ToSetMap
  <1> HIDE DEF stripped, T
  <1>2. kept \in Seq(T) /\ ToSet(kept) = T \cap Named
    BY <1>1, WhereKeeps
  <1> HIDE DEF kept
  <1>3. kept \in Seq(T \cap Named)
    BY <1>2, SeqOfElements
  <1>4. /\ Distinct(kept) \in Seq(T \cap Named) /\ ToSet(Distinct(kept)) = T \cap Named
        /\ Once(Distinct(kept))
    BY <1>2, <1>3, DistinctKeeps
  <1>5. Distinct(kept) \in Seq(Named)
    BY <1>4, SeqMonotonic, T \cap Named \subseteq Named
  <1>6. Dedupe(names) = Distinct(kept)
    BY DEF Dedupe, kept, stripped
  <1> QED
    BY <1>4, <1>5, <1>6 DEF T

\* The fields of a reconciliation are the stripped fields of its claims.
LEMMA FieldOrderKeeps ==
  ASSUME NEW S, NEW claims \in Seq(S)
  PROVE  /\ FieldOrder(claims) \in Seq({Strip[c.field] : c \in ToSet(claims)})
         /\ ToSet(FieldOrder(claims)) = {Strip[c.field] : c \in ToSet(claims)}
  <1> DEFINE f == [c \in S |-> Strip[c.field]]
             m == [k \in DOMAIN claims |-> f[claims[k]]]
  <1>1. /\ m \in Seq({f[c] : c \in ToSet(claims)})
        /\ ToSet(m) = {f[c] : c \in ToSet(claims)}
    <2> HIDE DEF f
    <2> QED
      BY ToSetMap
  <1>2. ToSet(claims) \subseteq S /\ \A k \in DOMAIN claims : claims[k] \in S
    BY SeqOfElements
  <1>3. {f[c] : c \in ToSet(claims)} = {Strip[c.field] : c \in ToSet(claims)}
    BY <1>2
  <1>4. m = [k \in DOMAIN claims |-> Strip[claims[k].field]]
    BY <1>2
  <1> HIDE DEF f, m
  <1>5. FieldOrder(claims) = Distinct(m)
    BY <1>4 DEF FieldOrder
  <1> QED
    BY <1>1, <1>3, <1>5, DistinctKeeps

\* The texts of a list of claims, in order.
LEMMA TextsKept ==
  ASSUME NEW S, NEW claims \in Seq(S)
  PROVE  LET texts == Distinct([k \in DOMAIN claims |-> Canonical[claims[k].value]])
         IN  /\ texts \in Seq({Canonical[c.value] : c \in ToSet(claims)})
             /\ ToSet(texts) = {Canonical[c.value] : c \in ToSet(claims)}
             /\ Once(texts)
  <1> DEFINE f == [c \in S |-> Canonical[c.value]]
             m == [k \in DOMAIN claims |-> f[claims[k]]]
  <1>1. /\ m \in Seq({f[c] : c \in ToSet(claims)})
        /\ ToSet(m) = {f[c] : c \in ToSet(claims)}
    <2> HIDE DEF f
    <2> QED
      BY ToSetMap
  <1>2. ToSet(claims) \subseteq S /\ \A k \in DOMAIN claims : claims[k] \in S
    BY SeqOfElements
  <1>3. {f[c] : c \in ToSet(claims)} = {Canonical[c.value] : c \in ToSet(claims)}
    BY <1>2
  <1>4. m = [k \in DOMAIN claims |-> Canonical[claims[k].value]]
    BY <1>2
  <1> HIDE DEF f, m
  <1> QED
    BY <1>1, <1>3, <1>4, DistinctKeeps

\* The claims on a field, however they spell it.
LEMMA ClaimsOnKeeps ==
  ASSUME NEW S, NEW claims \in Seq(S), NEW name
  PROVE  /\ ClaimsOn(claims, name) \in Seq(S)
         /\ ToSet(ClaimsOn(claims, name)) = {c \in ToSet(claims) : Strip[c.field] = name}
         /\ (\E c \in ToSet(claims) : Strip[c.field] = name) => ClaimsOn(claims, name) # <<>>
  <1>1. /\ ClaimsOn(claims, name) \in Seq(S)
        /\ ToSet(ClaimsOn(claims, name))
             = ToSet(claims) \cap {c \in ToSet(claims) : Strip[c.field] = name}
    BY WhereKeeps DEF ClaimsOn
  <1>2. ClaimsOn(claims, name) = <<>> => ToSet(ClaimsOn(claims, name)) = {}
    BY <1>1, SeqOfElements
  <1> QED
    BY <1>1, <1>2

\* The claims for one canonical text.
LEMMA AssertingKeeps ==
  ASSUME NEW S, NEW claims \in Seq(S), NEW text
  PROVE  /\ Asserting(claims, text) \in Seq(S)
         /\ ToSet(Asserting(claims, text))
              = {c \in ToSet(claims) : Canonical[c.value] = text}
         /\ (\E c \in ToSet(claims) : Canonical[c.value] = text)
              => Asserting(claims, text) # <<>>
  <1>1. /\ Asserting(claims, text) \in Seq(S)
        /\ ToSet(Asserting(claims, text))
             = ToSet(claims) \cap {c \in ToSet(claims) : Canonical[c.value] = text}
    BY WhereKeeps DEF Asserting
  <1>2. Asserting(claims, text) = <<>> => ToSet(Asserting(claims, text)) = {}
    BY <1>1, SeqOfElements
  <1> QED
    BY <1>1, <1>2

-------------------------------------------------------------------------------
(* The resolution of a field.                                               *)

\* Every canonical text has one representative: the best claim for it.
LEMMA RepresentativesStand ==
  ASSUME NEW S, \A c \in S : Comparable(c), NEW claims \in Seq(S), claims # <<>>
  PROVE  LET reps == Representatives(claims)
         IN  /\ reps \in Seq(ToSet(claims)) /\ reps # <<>>
             /\ \A r \in ToSet(reps) : r = Best(Asserting(claims, Canonical[r.value]))
             /\ {Canonical[r.value] : r \in ToSet(reps)}
                  = {Canonical[c.value] : c \in ToSet(claims)}
             /\ \A j, k \in DOMAIN reps :
                  Canonical[reps[j].value] = Canonical[reps[k].value] => j = k
  <1> DEFINE T == {Canonical[c.value] : c \in ToSet(claims)}
             texts == Distinct([k \in DOMAIN claims |-> Canonical[claims[k].value]])
             reps == [g \in DOMAIN texts |-> Best(Asserting(claims, texts[g]))]
  <1>1. texts \in Seq(T) /\ ToSet(texts) = T /\ Once(texts)
    BY TextsKept
  <1>2. ASSUME NEW text \in T
        PROVE  /\ Best(Asserting(claims, text)) \in ToSet(claims)
               /\ Canonical[Best(Asserting(claims, text)).value] = text
    <2>1. /\ Asserting(claims, text) \in Seq(S) /\ Asserting(claims, text) # <<>>
          /\ ToSet(Asserting(claims, text))
               = {c \in ToSet(claims) : Canonical[c.value] = text}
      BY AssertingKeeps
    <2>2. Best(Asserting(claims, text)) \in ToSet(Asserting(claims, text))
      BY <2>1, BestIsLeast
    <2> QED
      BY <2>1, <2>2
  <1>3. Representatives(claims) = reps
    BY DEF Representatives
  <1> HIDE DEF texts, T
  <1>4. DOMAIN texts = 1..Len(texts) /\ Len(texts) \in Nat /\ \A g \in DOMAIN texts : texts[g] \in T
    BY <1>1
  <1>5. /\ \A g \in DOMAIN texts : reps[g] \in ToSet(claims) /\ Canonical[reps[g].value] = texts[g]
        /\ DOMAIN reps = DOMAIN texts
    BY <1>2, <1>4
  <1>6. reps \in Seq(ToSet(claims))
    BY <1>4, <1>5
  <1>7. reps # <<>>
    <2>1. ToSet(claims) # {}
      BY SeqOfElements
    <2>2. T # {}
      BY <2>1 DEF T
    <2>3. texts # <<>>
      BY <1>1, <2>2, SeqOfElements
    <2>4. Len(texts) # 0
      BY <1>1, <2>3, EmptySeq
    <2> QED
      BY <1>4, <1>5, <2>4
  <1>8. \A r \in ToSet(reps) : r = Best(Asserting(claims, Canonical[r.value]))
    BY <1>5 DEF ToSet
  <1>9. {Canonical[r.value] : r \in ToSet(reps)} = T
    <2>1. T = {texts[g] : g \in DOMAIN texts}
      BY <1>1 DEF ToSet
    <2>2. ToSet(reps) = {reps[g] : g \in DOMAIN texts}
      BY <1>5 DEF ToSet
    <2> HIDE DEF reps
    <2> QED
      BY <1>5, <2>1, <2>2
  <1>10. \A j, k \in DOMAIN reps : Canonical[reps[j].value] = Canonical[reps[k].value] => j = k
    BY <1>1, <1>5 DEF Once
  <1> HIDE DEF reps
  <1> QED
    BY <1>3, <1>6, <1>7, <1>8, <1>9, <1>10 DEF T

\* The suggested claim of a field is one of its claims, none ranks before it,
\* and it is the representative of its own text.
LEMMA ChosenIsBest ==
  ASSUME NEW S, \A c \in S : Comparable(c), NEW claims \in Seq(S), claims # <<>>
  PROVE  LET chosen == Resolve(claims).chosen
         IN  /\ chosen \in ToSet(claims)
             /\ \A c \in ToSet(claims) : ~ Ranked(c, chosen)
             /\ chosen = Best(Asserting(claims, Canonical[chosen.value]))
             /\ chosen \in ToSet(Representatives(claims))
  <1> DEFINE reps == Representatives(claims)
             chosen == Best(reps)
  <1>1. Resolve(claims).chosen = chosen
    BY DEF Resolve
  <1>2. /\ reps \in Seq(ToSet(claims)) /\ reps # <<>>
        /\ \A r \in ToSet(reps) : r = Best(Asserting(claims, Canonical[r.value]))
        /\ {Canonical[r.value] : r \in ToSet(reps)} = {Canonical[c.value] : c \in ToSet(claims)}
    BY RepresentativesStand
  <1>3. ToSet(claims) \subseteq S /\ ToSet(reps) \subseteq ToSet(claims)
    BY <1>2, SeqOfElements
  <1>4. \A c \in ToSet(claims) : Comparable(c)
    BY <1>3
  <1> HIDE DEF reps
  <1>5. chosen \in ToSet(reps) /\ \A r \in ToSet(reps) : ~ Ranked(r, chosen)
    BY <1>2, <1>4, BestIsLeast
  <1> HIDE DEF chosen
  <1>6. ASSUME NEW c \in ToSet(claims)
        PROVE  ~ Ranked(c, chosen)
    <2>1. PICK r \in ToSet(reps) : Canonical[r.value] = Canonical[c.value]
      BY <1>2
    <2>2. /\ Asserting(claims, Canonical[c.value]) \in Seq(S)
          /\ c \in ToSet(Asserting(claims, Canonical[c.value]))
          /\ Asserting(claims, Canonical[c.value]) # <<>>
      BY AssertingKeeps
    <2>3. r = Best(Asserting(claims, Canonical[c.value]))
      BY <1>2, <2>1
    <2>4. ~ Ranked(c, r)
      BY <2>2, <2>3, BestIsLeast
    <2> QED
      BY <1>3, <1>5, <2>4, RankedOrders
  <1> QED
    BY <1>1, <1>2, <1>3, <1>5, <1>6 DEF reps

\* The alternatives are the representatives of the other texts, in order.
LEMMA AlternativesAreRivals ==
  ASSUME NEW S, \A c \in S : Comparable(c), NEW claims \in Seq(S), claims # <<>>
  PROVE  LET r == Resolve(claims)
         IN  /\ r.alternatives \in Seq(ToSet(claims))
             /\ ToSet(r.alternatives)
                  = {c \in ToSet(Representatives(claims)) :
                       Canonical[c.value] # Canonical[r.chosen.value]}
             /\ {Canonical[c.value] : c \in ToSet(r.alternatives)}
                  = {Canonical[c.value] : c \in ToSet(claims)}
                      \ {Canonical[r.chosen.value]}
             /\ Once(r.alternatives) /\ InOrder(r.alternatives)
  <1> DEFINE reps == Representatives(claims)
             chosen == Best(reps)
             others == Where(Sorted(reps), Rivals(reps, chosen))
  <1>1. Resolve(claims).chosen = chosen /\ Resolve(claims).alternatives = others
    BY DEF Resolve
  <1>2. /\ reps \in Seq(ToSet(claims))
        /\ {Canonical[r.value] : r \in ToSet(reps)} = {Canonical[c.value] : c \in ToSet(claims)}
        /\ \A j, k \in DOMAIN reps : Canonical[reps[j].value] = Canonical[reps[k].value] => j = k
    BY RepresentativesStand
  <1>3. \A c \in ToSet(claims) : Comparable(c)
    BY SeqOfElements
  <1> HIDE DEF reps
  <1>4. /\ Sorted(reps) \in Seq(ToSet(claims)) /\ ToSet(Sorted(reps)) = ToSet(reps)
        /\ Once(Sorted(reps)) /\ InOrder(Sorted(reps))
    <2>1. Once(reps)
      BY <1>2 DEF Once
    <2> QED
      BY <1>2, <1>3, <2>1, SortedSorts
  <1> HIDE DEF chosen
  <1>5. /\ others \in Seq(ToSet(claims))
        /\ ToSet(others) = ToSet(reps) \cap Rivals(reps, chosen)
        /\ Once(others) /\ InOrder(others)
    BY <1>4, WhereKeeps, WhereOrdered
  <1> HIDE DEF others
  <1>6. ToSet(others) = {c \in ToSet(reps) : Canonical[c.value] # Canonical[chosen.value]}
    BY <1>5 DEF Rivals
  <1>7. {Canonical[c.value] : c \in ToSet(others)}
          = {Canonical[c.value] : c \in ToSet(claims)} \ {Canonical[chosen.value]}
    BY <1>2, <1>6
  <1> QED
    BY <1>1, <1>5, <1>6, <1>7 DEF reps

\* reconcile_claims fails closed: a field is accepted exactly when its claims
\* assert one canonical text and at least one of them was observed.
THEOREM AcceptedIsCorroborated ==
  ASSUME NEW S, \A c \in S : Comparable(c), NEW claims \in Seq(S), claims # <<>>
  PROVE  LET r     == Resolve(claims)
             texts == {Canonical[c.value] : c \in ToSet(claims)}
         IN  /\ r.status \in {"accepted", "needs_review"}
             /\ r.status = "accepted" <=>
                  /\ r.alternatives = <<>>
                  /\ r.chosen.kind = "observed"
             /\ r.alternatives = <<>> <=> texts = {Canonical[r.chosen.value]}
             /\ r.status = "accepted" <=> /\ Cardinality(texts) = 1
                                          /\ \E c \in ToSet(claims) : c.kind = "observed"
  <1> DEFINE r == Resolve(claims)
             texts == {Canonical[c.value] : c \in ToSet(claims)}
  <1>1. /\ r.chosen \in ToSet(claims)
        /\ \A c \in ToSet(claims) : ~ Ranked(c, r.chosen)
    BY ChosenIsBest
  <1>2. /\ r.alternatives \in Seq(ToSet(claims))
        /\ {Canonical[c.value] : c \in ToSet(r.alternatives)}
             = texts \ {Canonical[r.chosen.value]}
    BY AlternativesAreRivals
  <1>3. r.status = IF r.alternatives # <<>> \/ r.chosen.kind = "inferred"
                   THEN "needs_review" ELSE "accepted"
    BY DEF Resolve
  <1>4. ToSet(claims) \subseteq S
    BY SeqOfElements
  <1> HIDE DEF r
  <1>5. r.chosen.kind \in Kinds
    BY <1>1, <1>4 DEF Comparable
  <1>6. r.alternatives = <<>> <=> ToSet(r.alternatives) = {}
    BY <1>2, SeqOfElements
  <1>7. Canonical[r.chosen.value] \in texts
    BY <1>1
  <1>8. r.alternatives = <<>> <=> texts = {Canonical[r.chosen.value]}
    <2>1. ToSet(r.alternatives) = {}
            <=> {Canonical[c.value] : c \in ToSet(r.alternatives)} = {}
      OBVIOUS
    <2> HIDE DEF texts
    <2> QED
      BY <1>2, <1>6, <1>7, <2>1
  <1>9. Cardinality(texts) = 1 <=> texts = {Canonical[r.chosen.value]}
    <2> HIDE DEF texts
    <2>1. CASE texts = {Canonical[r.chosen.value]}
      BY <2>1, FS_Singleton
    <2>2. CASE Cardinality(texts) = 1
      <3>1. IsFiniteSet(texts)
        <4> DEFINE f == [k \in 1..Len(claims) |-> Canonical[claims[k].value]]
        <4>1. texts = {f[k] : k \in 1..Len(claims)}
          BY DEF texts, ToSet
        <4>2. f \in Surjection(1..Len(claims), texts)
          BY <4>1 DEF Surjection
        <4>3. IsFiniteSet(1..Len(claims))
          BY FS_Interval
        <4> QED
          BY <4>2, <4>3, FS_Surjection
      <3>2. \E x : texts = {x}
        BY <2>2, <3>1, FS_Singleton
      <3>3. texts = {Canonical[r.chosen.value]}
        BY <1>7, <3>2
      <3> QED
        BY <2>2, <3>3
    <2> QED
      BY <2>1, <2>2
  <1>10. r.chosen.kind = "observed" <=> \E c \in ToSet(claims) : c.kind = "observed"
    <2>1. ASSUME NEW c \in ToSet(claims), c.kind = "observed", r.chosen.kind # "observed"
          PROVE  FALSE
      <3>1. Comparable(c) /\ Comparable(r.chosen)
        BY <1>1, <1>4
      <3>2. Ranked(c, r.chosen)
        BY <2>1, <3>1, RankedIsLexicographic DEF KindRank
      <3> QED
        BY <1>1, <3>2
    <2> QED
      BY <1>1, <2>1
  <1> HIDE DEF texts
  <1>11. r.status = "accepted" <=> r.alternatives = <<>> /\ r.chosen.kind = "observed"
    BY <1>3, <1>5 DEF Kinds
  <1>12. r.status \in {"accepted", "needs_review"}
    BY <1>3
  <1> QED
    BY <1>8, <1>9, <1>10, <1>11, <1>12 DEF r, texts

\* The suggestion and its alternatives together carry every text once, from the
\* strongest to the weakest.
THEOREM ResolutionIsComplete ==
  ASSUME NEW S, \A c \in S : Comparable(c), NEW claims \in Seq(S), claims # <<>>
  PROVE  LET r     == Resolve(claims)
             kept  == <<r.chosen>> \o r.alternatives
             texts == {Canonical[c.value] : c \in ToSet(claims)}
         IN  /\ ToSet(kept) \subseteq ToSet(claims)
             /\ {Canonical[c.value] : c \in ToSet(kept)} = texts
             /\ Len(kept) = Cardinality(texts)
             /\ \A j, k \in DOMAIN kept : j < k => Ranked(kept[j], kept[k])
  <1> DEFINE best  == Resolve(claims).chosen
             rest  == Resolve(claims).alternatives
             kept  == <<best>> \o rest
             reps  == Representatives(claims)
             texts == {Canonical[c.value] : c \in ToSet(claims)}
             T     == ToSet(claims)
  <1>1. /\ best \in T /\ best \in ToSet(reps)
        /\ \A c \in T : ~ Ranked(c, best)
    BY ChosenIsBest
  <1>2. /\ rest \in Seq(T) /\ Once(rest) /\ InOrder(rest)
        /\ ToSet(rest) = {c \in ToSet(reps) : Canonical[c.value] # Canonical[best.value]}
        /\ {Canonical[c.value] : c \in ToSet(rest)} = texts \ {Canonical[best.value]}
    BY AlternativesAreRivals
  <1>3. \A b, c \in ToSet(reps) : Canonical[b.value] = Canonical[c.value] => b = c
    BY RepresentativesStand
  <1>4. \A c \in T : Comparable(c)
    BY SeqOfElements
  <1>5. \A b, c \in T : Canonical[b.value] # Canonical[c.value] => Ranked(b, c) \/ Ranked(c, b)
    <2>1. ASSUME NEW b \in T, NEW c \in T, Canonical[b.value] # Canonical[c.value]
          PROVE  Ranked(b, c) \/ Ranked(c, b)
      BY <1>4, <2>1, RankedIsLexicographic DEF Comparable, KindRank
    <2> QED
      BY <2>1
  <1>6. Canonical[best.value] \in texts
    BY <1>1
  <1> HIDE DEF best, rest, reps
  <1> DEFINE n == Len(rest)
  <1>7. /\ n \in Nat /\ DOMAIN rest = 1..n
        /\ \A k \in 1..n : rest[k] \in T /\ rest[k] \in ToSet(rest)
    BY <1>2, SeqOfElements
  <1>8. /\ kept \in Seq(T) /\ Len(kept) = n + 1 /\ DOMAIN kept = 1..(n + 1)
        /\ kept[1] = best /\ \A k \in 2..(n + 1) : kept[k] = rest[k - 1]
        /\ ToSet(kept) = {best} \cup ToSet(rest)
    <2>1. <<best>> \in Seq(T) /\ Len(<<best>>) = 1 /\ <<best>>[1] = best
      BY <1>1
    <2>2. /\ kept \in Seq(T) /\ Len(kept) = 1 + n
          /\ \A k \in 1..(1 + n) : kept[k] = IF k <= 1 THEN <<best>>[k] ELSE rest[k - 1]
      BY <1>2, <2>1, ConcatProperties
    <2>3. ToSet(<<best>>) = {best}
      BY <2>1 DEF ToSet
    <2>4. ToSet(kept) = {best} \cup ToSet(rest)
      <3> DEFINE one == <<best>>
      <3>1. one \in Seq(T) /\ rest \in Seq(T) /\ ToSet(one) = {best}
        BY <1>2, <2>1, <2>3
      <3> HIDE DEF one, T
      <3>2. ToSet(one \o rest) = ToSet(one) \cup ToSet(rest)
        BY <3>1, ToSetConcat
      <3> QED
        BY <3>1, <3>2 DEF one
    <2> HIDE DEF kept, n
    <2>5. 1 + n = n + 1 /\ 1 \in 1..(1 + n) /\ \A k \in 2..(n + 1) : k \in 1..(1 + n) /\ ~ k <= 1
      BY <1>7
    <2> QED
      BY <2>1, <2>2, <2>4, <2>5
  <1> HIDE DEF kept, n, T
  <1>9. ASSUME NEW j \in 1..(n + 1), NEW k \in 1..(n + 1), j < k
        PROVE  Ranked(kept[j], kept[k]) /\ Canonical[kept[j].value] # Canonical[kept[k].value]
    <2>1. k \in 2..(n + 1) /\ k - 1 \in 1..n
      BY <1>7, <1>9
    <2>2. CASE j = 1
      <3>1. Canonical[rest[k - 1].value] # Canonical[best.value]
        BY <1>2, <1>7, <2>1
      <3>2. Ranked(best, rest[k - 1])
        BY <1>1, <1>5, <1>7, <2>1, <3>1
      <3> QED
        BY <1>8, <2>1, <2>2, <3>1, <3>2
    <2>3. CASE j # 1
      <3>1. j \in 2..(n + 1) /\ j - 1 \in 1..n /\ j - 1 < k - 1 /\ j - 1 # k - 1
        BY <1>7, <1>9, <2>3
      <3>2. rest[j - 1] # rest[k - 1] /\ ~ Ranked(rest[k - 1], rest[j - 1])
        BY <1>2, <1>7, <2>1, <3>1 DEF Once, InOrder
      <3>3. Canonical[rest[j - 1].value] # Canonical[rest[k - 1].value]
        BY <1>2, <1>3, <1>7, <2>1, <3>1, <3>2
      <3>4. Ranked(rest[j - 1], rest[k - 1])
        BY <1>5, <1>7, <2>1, <3>1, <3>2, <3>3
      <3> QED
        BY <1>8, <2>1, <3>1, <3>3, <3>4
    <2> QED
      BY <2>2, <2>3
  <1>10. {Canonical[c.value] : c \in ToSet(kept)} = texts
    <2>1. {Canonical[c.value] : c \in ToSet(kept)}
            = {Canonical[best.value]} \cup {Canonical[c.value] : c \in ToSet(rest)}
      BY <1>8
    <2> HIDE DEF texts
    <2> QED
      BY <1>2, <1>6, <2>1
  <1>11. Cardinality(texts) = n + 1
    <2> DEFINE f == [k \in 1..(n + 1) |-> Canonical[kept[k].value]]
               U == {Canonical[c.value] : c \in ToSet(kept)}
    <2>1. ToSet(f) = U
      BY <1>8 DEF ToSet
    <2>2. \A k \in 1..(n + 1) : f[k] \in U
      BY <1>8 DEF ToSet
    <2>3. DOMAIN f = 1..(n + 1) /\ \A k \in 1..(n + 1) : f[k] = Canonical[kept[k].value]
      OBVIOUS
    <2>4. f = [k \in 1..(n + 1) |-> f[k]]
      OBVIOUS
    <2> HIDE DEF f, U
    <2>5. n + 1 \in Nat
      BY <1>7
    <2>6. f \in Seq(U) /\ Len(f) = n + 1
      BY <2>2, <2>3, <2>4, <2>5
    <2>7. ASSUME NEW j \in 1..(n + 1), NEW k \in 1..(n + 1), f[j] = f[k]
          PROVE  j = k
      <3>1. ~ j < k /\ ~ k < j
        BY <1>9, <2>3, <2>7
      <3> QED
        BY <1>7, <3>1
    <2>8. Once(f)
      BY <2>3, <2>7 DEF Once
    <2>9. Cardinality(U) = n + 1
      BY <2>1, <2>6, <2>8, OnceIsCardinality
    <2> QED
      BY <1>10, <2>9 DEF U
  <1>12. ToSet(kept) \subseteq T
    BY <1>8, SeqOfElements
  <1> HIDE DEF texts
  <1> QED
    BY <1>8, <1>9, <1>10, <1>11, <1>12 DEF kept, best, rest, texts, T

\* The suggestion moves only to a claim that ranks strictly before it.
THEOREM ChosenOnlyImproves ==
  ASSUME NEW S, \A c \in S : Comparable(c), NEW claims \in Seq(S), claims # <<>>,
         NEW x \in S
  PROVE  LET old == Resolve(claims).chosen
             new == Resolve(Append(claims, x)).chosen
         IN  new # old => Ranked(new, old)
  <1> DEFINE old  == Resolve(claims).chosen
             more == Append(claims, x)
             new  == Resolve(more).chosen
  <1>1. more \in Seq(S) /\ more # <<>> /\ ToSet(more) = ToSet(claims) \cup {x}
    BY ToSetAppend
  <1>2. /\ old \in ToSet(claims)
        /\ old = Best(Asserting(claims, Canonical[old.value]))
    BY ChosenIsBest
  <1> HIDE DEF more
  <1>3. /\ new \in ToSet(more) /\ \A c \in ToSet(more) : ~ Ranked(c, new)
        /\ new = Best(Asserting(more, Canonical[new.value]))
    BY <1>1, ChosenIsBest
  <1> HIDE DEF old, new
  <1> SUFFICES ASSUME new # old, ~ Ranked(new, old) PROVE FALSE
    BY DEF old, new, more
  <1>4. old \in ToSet(more) /\ old \in S /\ new \in S /\ Comparable(old) /\ Comparable(new)
    BY <1>1, <1>2, <1>3, SeqOfElements
  <1>5. Canonical[new.value] = Canonical[old.value]
    BY <1>3, <1>4, RankedIsLexicographic DEF Comparable, KindRank
  <1> DEFINE text == Canonical[old.value]
             q == Asserting(claims, text)
  <1>6. q \in Seq(S) /\ q # <<>> /\ old = Best(q)
    BY <1>2, AssertingKeeps
  <1>7. Asserting(more, text) = IF Canonical[x.value] = text THEN Append(q, x) ELSE q
    <2> DEFINE those == {c \in ToSet(claims) : Canonical[c.value] = text}
               others == {c \in ToSet(more) : Canonical[c.value] = text}
    <2>1. Where(claims, others) = Where(claims, those)
      BY <1>1, WhereDepends
    <2>2. x \in others <=> Canonical[x.value] = text
      BY <1>1
    <2>3. Asserting(more, text) = Where(more, others) /\ q = Where(claims, those)
      BY DEF Asserting
    <2> HIDE DEF those, others, q, text
    <2> QED
      BY <2>1, <2>2, <2>3, WhereUnfolds DEF more
  <1> HIDE DEF q, text
  <1>8. new = Best(Asserting(more, text))
    BY <1>3, <1>5 DEF text
  <1>9. new = old \/ (new = x /\ Ranked(x, old))
    BY <1>6, <1>7, <1>8, BestAppend
  <1> QED
    BY <1>9

-------------------------------------------------------------------------------
(* The reconciliation.                                                      *)

\* Python can rank every claim.
LEMMA ClaimsCompare == \A c \in Claim : Comparable(c) /\ c.field \in Named
  <1> SUFFICES ASSUME NEW c \in Claim
               PROVE  Comparable(c) /\ c.field \in Named
    OBVIOUS
  <1>1. /\ c.field \in Named /\ c.value \in DOMAIN Canonical /\ c.kind \in Kinds
        /\ c.conf \in Nat /\ c.url \in Nat
    BY DEF Claim
  <1>2. Canonical[c.value] \in Int
    BY <1>1, StripAssumption
  <1> QED
    BY <1>1, <1>2 DEF Comparable

\* Finitely many claims assert finitely many texts.
LEMMA TextsFinite ==
  ASSUME NEW S, NEW claims \in Seq(S), NEW those \in SUBSET ToSet(claims)
  PROVE  IsFiniteSet(ToSet(claims)) /\ IsFiniteSet({Canonical[c.value] : c \in those})
  <1> DEFINE texts == {Canonical[c.value] : c \in those}
  <1>1. IsFiniteSet(ToSet(claims))
    BY OnceIsCardinality
  <1>2. IsFiniteSet(those)
    BY <1>1, FS_Subset
  <1> DEFINE f == [c \in those |-> Canonical[c.value]]
  <1>3. f \in Surjection(those, texts)
    BY DEF Surjection
  <1> HIDE DEF f, texts
  <1>4. IsFiniteSet(texts)
    BY <1>2, <1>3, FS_Surjection
  <1> QED
    BY <1>1, <1>4 DEF texts

NamesOf(claims) == {Strip[c.field] : c \in ToSet(claims)}
ClaimedOn(claims, name) == {c \in ToSet(claims) : Strip[c.field] = name}

\* Agreed and seen: the fields nobody has to look at.
Corroborated(claims, name) ==
  /\ Cardinality({Canonical[c.value] : c \in ClaimedOn(claims, name)}) = 1
  /\ \E c \in ClaimedOn(claims, name) : c.kind = "observed"

\* What the reconciliation says of each of its fields.
THEOREM ReconcilesEachField ==
  ASSUME NEW S, \A c \in S : Comparable(c), NEW claims \in Seq(S), NEW name \in NamesOf(claims)
  PROVE  LET r == ReconcileClaims(claims)[name]
         IN  /\ r = Resolve(ClaimsOn(claims, name))
             /\ ClaimsOn(claims, name) \in Seq(S) /\ ClaimsOn(claims, name) # <<>>
             /\ ToSet(ClaimsOn(claims, name)) = ClaimedOn(claims, name)
             /\ r.chosen \in ClaimedOn(claims, name)
             /\ \A c \in ClaimedOn(claims, name) : ~ Ranked(c, r.chosen)
             /\ r.status \in {"accepted", "needs_review"}
             /\ r.status = "accepted" <=> Corroborated(claims, name)
  <1> DEFINE on == ClaimsOn(claims, name)
  <1>1. ToSet(FieldOrder(claims)) = NamesOf(claims)
    BY FieldOrderKeeps DEF NamesOf
  <1>2. ReconcileClaims(claims)[name] = Resolve(on)
    BY <1>1 DEF ReconcileClaims
  <1>3. on \in Seq(S) /\ on # <<>> /\ ToSet(on) = ClaimedOn(claims, name)
    BY ClaimsOnKeeps DEF NamesOf, ClaimedOn
  <1> HIDE DEF on
  <1>4. /\ Resolve(on).chosen \in ToSet(on)
        /\ \A c \in ToSet(on) : ~ Ranked(c, Resolve(on).chosen)
    BY <1>3, ChosenIsBest
  <1>5. /\ Resolve(on).status \in {"accepted", "needs_review"}
        /\ Resolve(on).status = "accepted" <=>
             /\ Cardinality({Canonical[c.value] : c \in ToSet(on)}) = 1
             /\ \E c \in ToSet(on) : c.kind = "observed"
    BY <1>3, AcceptedIsCorroborated
  <1> QED
    BY <1>2, <1>3, <1>4, <1>5 DEF Corroborated, on

\* review_fields lists exactly the fields that are disputed or only inferred.
THEOREM ReviewFieldsAreOpen ==
  ASSUME NEW S, \A c \in S : Comparable(c), NEW claims \in Seq(S)
  PROVE  /\ ReviewFields(claims) \in Seq(NamesOf(claims))
         /\ ToSet(ReviewFields(claims))
              = {name \in NamesOf(claims) : ~ Corroborated(claims, name)}
  <1> DEFINE those == {name \in ToSet(FieldOrder(claims)) :
                         ReconcileClaims(claims)[name].status = "needs_review"}
  <1>1. /\ FieldOrder(claims) \in Seq(NamesOf(claims))
        /\ ToSet(FieldOrder(claims)) = NamesOf(claims)
    BY FieldOrderKeeps DEF NamesOf
  <1>2. /\ Where(FieldOrder(claims), those) \in Seq(NamesOf(claims))
        /\ ToSet(Where(FieldOrder(claims), those)) = NamesOf(claims) \cap those
    BY <1>1, WhereKeeps
  <1>3. those = {name \in NamesOf(claims) : ~ Corroborated(claims, name)}
    <2>1. \A name \in NamesOf(claims) :
            ReconcileClaims(claims)[name].status = "needs_review"
              <=> ~ Corroborated(claims, name)
      BY ReconcilesEachField
    <2> QED
      BY <1>1, <2>1
  <1>4. ReviewFields(claims) = Where(FieldOrder(claims), those)
    BY DEF ReviewFields
  <1> HIDE DEF those
  <1> QED
    BY <1>2, <1>3, <1>4

\* Every field with a claim is an attribute, and its attribute quotes a claim.
THEOREM AttributesQuote ==
  ASSUME NEW S, \A c \in S : Comparable(c), NEW claims \in Seq(S)
  PROVE  /\ DOMAIN Attributes(claims) = NamesOf(claims)
         /\ \A name \in NamesOf(claims) :
              LET c == ReconcileClaims(claims)[name].chosen
              IN  /\ c \in ClaimedOn(claims, name)
                  /\ Attributes(claims)[name] =
                       [value |-> c.value, url |-> c.url, at |-> c.at, conf |-> c.conf]
  <1>1. ToSet(FieldOrder(claims)) = NamesOf(claims)
    BY FieldOrderKeeps DEF NamesOf
  <1>2. \A name \in NamesOf(claims) :
          ReconcileClaims(claims)[name].chosen \in ClaimedOn(claims, name)
    BY ReconcilesEachField
  <1> QED
    BY <1>1, <1>2 DEF Attributes

\* The requested fields without an attribute.
THEOREM MissingIsTheRest ==
  ASSUME NEW S, NEW requested \in Seq(S), NEW attributes
  PROVE  /\ Missing(requested, attributes) \in Seq(S)
         /\ ToSet(Missing(requested, attributes)) = ToSet(requested) \ DOMAIN attributes
  <1>1. /\ Missing(requested, attributes) \in Seq(S)
        /\ ToSet(Missing(requested, attributes))
             = ToSet(requested) \cap (ToSet(requested) \ DOMAIN attributes)
    BY WhereKeeps DEF Missing
  <1> QED
    BY <1>1

===============================================================================
