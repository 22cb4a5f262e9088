------------------------------ MODULE SearchProofs ------------------------------
(***************************************************************************)
(* What a search returns, proved for any engines asked, any answers of      *)
(* their services and any order in which they settle.                       *)
(***************************************************************************)
EXTENDS SearchFanout, FiniteSetTheorems, SequenceTheorems, TLAPS

Comprehensions == INSTANCE FoldTheorems
                    WITH Op <- LAMBDA f, x, kept :
                                 IF x \in DOMAIN f THEN Append(kept, f[x]) ELSE kept
Merges == INSTANCE FoldTheorems
            WITH Op <- LAMBDA p, answer, lists :
                         IF answer.hits = Failed THEN lists ELSE Record(lists, answer)
Parsers == INSTANCE FoldTheorems WITH Op <- LAMBDA p, token, parser : Feed(parser, token)
Collates == INSTANCE FoldTheorems WITH Op <- LAMBDA p, a, agg : Collate(agg, a)
Sums == INSTANCE FoldTheorems WITH Op <- LAMBDA p, x, acc : x + acc

-------------------------------------------------------------------------------
(* Lists.                                                                   *)

Once(q) == \A j, k \in DOMAIN q : q[j] = q[k] => j = k

\* Appending an element adds it to the elements, and repeats none if it is new.
LEMMA ToSetAppend ==
  ASSUME NEW S, NEW q \in Seq(S), NEW x \in S
  PROVE  /\ ToSet(Append(q, x)) = ToSet(q) \cup {x}
         /\ Once(q) /\ x \notin ToSet(q) => Once(Append(q, x))
  <1>1. /\ DOMAIN Append(q, x) = DOMAIN q \cup {Len(q) + 1}
        /\ Append(q, x)[Len(q) + 1] = x
        /\ \A k \in DOMAIN q : k # Len(q) + 1 /\ Append(q, x)[k] = q[k]
    OBVIOUS
  <1>2. ToSet(Append(q, x)) = ToSet(q) \cup {x}
    BY <1>1 DEF ToSet
  <1>3. Once(q) /\ x \notin ToSet(q) => Once(Append(q, x))
    BY <1>1 DEF ToSet, Once
  <1> QED
    BY <1>2, <1>3

\* A comprehension adds the next element if it passes.
LEMMA ComprehendUnfolds ==
  /\ \A f : Comprehend(f, <<>>) = <<>>
  /\ \A f, S : \A s \in Seq(S), x \in S :
       Comprehend(f, Append(s, x)) =
         IF x \in DOMAIN f THEN Append(Comprehend(f, s), f[x]) ELSE Comprehend(f, s)
  <1>1. \A T : Max(T) = Comprehensions!Max(T)
    BY DEF Max, Comprehensions!Max
  <1>2. \A f, s : Comprehend(f, s) = Comprehensions!Fold(f, <<>>, s)
    BY <1>1 DEF Comprehend, FoldLeft, MapThenFoldSet, Comprehensions!Fold,
                Comprehensions!FoldLeft, Comprehensions!MapThenFoldSet
  <1> QED
    BY <1>2, Comprehensions!FoldEmpty, Comprehensions!FoldAppend

Passing(f, s) == {n \in DOMAIN s : s[n] \in DOMAIN f}
UpToPlace(f, s, n) == {m \in Passing(f, s) : m <= n}

\* What one more element does to the passing ones.
Grows(f, s, x) ==
  /\ Passing(f, s) \subseteq 1..Len(s) /\ Len(s) + 1 \notin Passing(f, s)
  /\ x \in DOMAIN f =>
       /\ Passing(f, Append(s, x)) = Passing(f, s) \cup {Len(s) + 1}
       /\ UpToPlace(f, Append(s, x), Len(s) + 1) = Passing(f, s) \cup {Len(s) + 1}
  /\ x \notin DOMAIN f => Passing(f, Append(s, x)) = Passing(f, s)
  /\ \A r \in Passing(f, s) : UpToPlace(f, Append(s, x), r) = UpToPlace(f, s, r)

LEMMA PassingAppend ==
  ASSUME NEW f, NEW S, NEW s \in Seq(S), NEW x \in S
  PROVE  Grows(f, s, x)
  <1> DEFINE t == Append(s, x)
             n == Len(s) + 1
  <1>1. /\ Len(s) \in Nat /\ DOMAIN s = 1..Len(s) /\ DOMAIN t = 1..n
        /\ t[n] = x /\ \A k \in 1..Len(s) : t[k] = s[k]
    OBVIOUS
  <1> HIDE DEF t
  <1>2. Passing(f, s) \subseteq 1..Len(s) /\ n \notin Passing(f, s)
    BY <1>1 DEF Passing
  <1>3. \A k : k \in 1..n <=> k \in 1..Len(s) \/ k = n
    BY <1>1
  <1>4. Passing(f, t) = IF x \in DOMAIN f THEN Passing(f, s) \cup {n} ELSE Passing(f, s)
    BY <1>1, <1>3 DEF Passing
  <1>5. \A m \in Passing(f, s) : m <= n
    BY <1>1, <1>2
  <1>6. \A r \in Passing(f, s) : ~ n <= r
    BY <1>1, <1>2
  <1>7. \A r \in Passing(f, s) : UpToPlace(f, t, r) = UpToPlace(f, s, r)
    BY <1>4, <1>6 DEF UpToPlace
  <1>8. x \in DOMAIN f => UpToPlace(f, t, n) = Passing(f, s) \cup {n}
    BY <1>1, <1>4, <1>5 DEF UpToPlace
  <1> QED
    BY <1>2, <1>4, <1>7, <1>8 DEF t, Grows

\* One element for each that passes, in their order.
KeepsPassing(T, f, s) ==
  /\ IsFiniteSet(Passing(f, s))
  /\ Comprehend(f, s) \in Seq(T)
  /\ Len(Comprehend(f, s)) = Cardinality(Passing(f, s))
  /\ \A r \in Passing(f, s) :
       /\ Cardinality(UpToPlace(f, s, r)) \in 1..Cardinality(Passing(f, s))
       /\ Comprehend(f, s)[Cardinality(UpToPlace(f, s, r))] = f[s[r]]

\* A comprehension has one element for each that passes, in their order.
THEOREM ComprehendKeeps ==
  ASSUME NEW S, NEW T, NEW f, \A x \in DOMAIN f : f[x] \in T, NEW s \in Seq(S)
  PROVE  KeepsPassing(T, f, s)
  <1> DEFINE Keeps(t) == KeepsPassing(T, f, t)
             Q == {t \in Seq(S) : Keeps(t)}
  <1>1. <<>> \in Q
    <2>1. Comprehend(f, <<>>) = <<>>
      BY ComprehendUnfolds
    <2>2. Passing(f, <<>>) = {}
      BY DEF Passing
    <2>3. IsFiniteSet({}) /\ Cardinality({}) = 0
      BY FS_EmptySet
    <2>4. <<>> \in Seq(S) /\ <<>> \in Seq(T) /\ Len(<<>>) = 0
      OBVIOUS
    <2>5. Keeps(<<>>)
      BY <2>1, <2>2, <2>3, <2>4 DEF KeepsPassing
    <2> HIDE DEF Keeps
    <2> QED
      BY <2>4, <2>5
  <1>2. ASSUME NEW t \in Seq(S), t \in Q, NEW x \in S
        PROVE  Append(t, x) \in Q
    <2> DEFINE u == Append(t, x)
               n == Len(t) + 1
               c == Comprehend(f, t)
    <2>1. /\ IsFiniteSet(Passing(f, t)) /\ c \in Seq(T)
          /\ Len(c) = Cardinality(Passing(f, t))
          /\ \A r \in Passing(f, t) :
               /\ Cardinality(UpToPlace(f, t, r)) \in 1..Cardinality(Passing(f, t))
               /\ c[Cardinality(UpToPlace(f, t, r))] = f[t[r]]
      BY <1>2 DEF KeepsPassing
    <2>2. u \in Seq(S) /\ u[n] = x /\ \A r \in 1..Len(t) : u[r] = t[r]
      OBVIOUS
    <2>3. /\ Passing(f, t) \subseteq 1..Len(t) /\ n \notin Passing(f, t)
          /\ x \in DOMAIN f => /\ Passing(f, u) = Passing(f, t) \cup {n}
                               /\ UpToPlace(f, u, n) = Passing(f, t) \cup {n}
          /\ x \notin DOMAIN f => Passing(f, u) = Passing(f, t)
          /\ \A r \in Passing(f, t) : UpToPlace(f, u, r) = UpToPlace(f, t, r)
      <3>1. Grows(f, t, x)
        BY PassingAppend
      <3> QED
        BY <3>1 DEF Grows
    <2>4. Comprehend(f, u) = IF x \in DOMAIN f THEN Append(c, f[x]) ELSE c
      BY ComprehendUnfolds
    <2>5. Cardinality(Passing(f, t)) \in Nat
      BY <2>1, FS_CardinalityType
    <2> HIDE DEF u, n
    <2>6. ASSUME x \notin DOMAIN f PROVE Keeps(u)
      BY <2>1, <2>2, <2>3, <2>4, <2>6 DEF KeepsPassing
    <2>7. ASSUME x \in DOMAIN f PROVE Keeps(u)
      <3> DEFINE P == Passing(f, t)
      <3>1. /\ IsFiniteSet(P \cup {n})
            /\ Cardinality(P \cup {n}) = Cardinality(P) + 1
        BY <2>1, <2>3, FS_AddElement
      <3>2. /\ Append(c, f[x]) \in Seq(T) /\ Len(Append(c, f[x])) = Len(c) + 1
            /\ Append(c, f[x])[Len(c) + 1] = f[x]
            /\ \A k \in 1..Len(c) : Append(c, f[x])[k] = c[k]
        <4>1. c \in Seq(T) /\ f[x] \in T
          BY <2>1, <2>7
        <4> HIDE DEF c
        <4> QED
          BY <4>1
      <3>3. ASSUME NEW r \in P
            PROVE  /\ Cardinality(UpToPlace(f, u, r)) \in 1..(Cardinality(P) + 1)
                   /\ Append(c, f[x])[Cardinality(UpToPlace(f, u, r))] = f[u[r]]
        <4>1. Cardinality(UpToPlace(f, u, r)) \in 1..Cardinality(P)
          BY <2>1, <2>3
        <4>2. Len(c) = Cardinality(P) /\ u[r] = t[r]
          BY <2>1, <2>2, <2>3
        <4>3. Append(c, f[x])[Cardinality(UpToPlace(f, u, r))] = f[t[r]]
          BY <2>1, <2>3, <3>2, <4>1, <4>2
        <4> QED
          BY <2>5, <4>1, <4>2, <4>3
      <3>4. /\ Cardinality(UpToPlace(f, u, n)) = Cardinality(P) + 1
            /\ Append(c, f[x])[Cardinality(P) + 1] = f[u[n]]
        BY <2>1, <2>2, <2>3, <2>7, <3>1, <3>2
      <3>5. Cardinality(P) + 1 \in 1..(Cardinality(P) + 1)
        BY <2>5
      <3>6. /\ Passing(f, u) = P \cup {n} /\ Comprehend(f, u) = Append(c, f[x])
            /\ Len(c) = Cardinality(P)
        BY <2>1, <2>3, <2>4, <2>7
      <3> HIDE DEF P, c
      <3> QED
        BY <3>1, <3>2, <3>3, <3>4, <3>5, <3>6 DEF KeepsPassing
    <2> HIDE DEF Keeps
    <2> QED
      BY <2>2, <2>6, <2>7 DEF u
  <1>3. Seq(S) \subseteq Q
    <2> HIDE DEF Q
    <2> QED
      BY <1>1, <1>2, Comprehensions!SeqSetInduction
  <1> QED
    BY <1>3

-------------------------------------------------------------------------------
(* Sums.                                                                    *)

SumOver(f, S) == Sums!SetFold(<<>>, 0, f, S)

LEMMA SumIsSumOver == \A f : SumFunction(f) = SumOver(f, DOMAIN f)
  BY DEF SumFunction, SumFunctionOnSet, FoldFunctionOnSet, MapThenFoldSet,
         SumOver, Sums!SetFold, Sums!MapThenFoldSet

LEMMA FiniteForSums == \A S : Sums!IsFiniteSet(S) <=> IsFiniteSet(S)
  BY DEF IsFiniteSet, Sums!IsFiniteSet

\* A sum grows by the value of each element that is added.
LEMMA SumAdd ==
  ASSUME NEW f, NEW S, IsFiniteSet(S), NEW x, x \notin S,
         \A y \in S \cup {x} : f[y] \in Int
  PROVE  SumOver(f, S \cup {x}) = f[x] + SumOver(f, S)
  <1>1. Sums!Commutes(<<>>, 0, f, S \cup {x}, Int)
    BY DEF Sums!Commutes
  <1>2. Sums!SetFold(<<>>, 0, f, S \cup {x}) = f[x] + Sums!SetFold(<<>>, 0, f, S)
    BY <1>1, FiniteForSums, Sums!SetFoldAdd
  <1> QED
    BY <1>2 DEF SumOver

LEMMA SumEmpty == \A f : SumOver(f, {}) = 0
  BY Sums!SetFoldEmpty DEF SumOver

LEMMA SumType ==
  ASSUME NEW f, NEW S, IsFiniteSet(S), \A y \in S : f[y] \in Nat
  PROVE  SumOver(f, S) \in Nat
  <1>1. Sums!Commutes(<<>>, 0, f, S, Nat)
    BY DEF Sums!Commutes
  <1>2. Sums!SetFold(<<>>, 0, f, S) \in Nat
    BY <1>1, FiniteForSums, Sums!SetFoldType
  <1> QED
    BY <1>2 DEF SumOver

\* Sums of equal terms are equal, whatever the terms are indexed by.
LEMMA SumReindex ==
  ASSUME NEW f, NEW S, IsFiniteSet(S), NEW g, NEW b,
         \A x \in S : f[x] \in Int /\ g[b[x]] = f[x],
         \A x, y \in S : b[x] = b[y] => x = y
  PROVE  SumOver(f, S) = SumOver(g, {b[x] : x \in S})
  <1> DEFINE img(T) == {b[x] : x \in T}
             Q == {T \in SUBSET S : IsFiniteSet(img(T)) /\ SumOver(f, T) = SumOver(g, img(T))}
  <1>1. {} \in Q
    <2>1. img({}) = {}
      OBVIOUS
    <2> HIDE DEF img
    <2> QED
      BY <2>1, SumEmpty, FS_EmptySet
  <1>2. ASSUME NEW T \in SUBSET S, NEW x \in S, IsFiniteSet(T), x \notin T, T \in Q
        PROVE  T \cup {x} \in Q
    <2>1. /\ img(T \cup {x}) = img(T) \cup {b[x]} /\ b[x] \notin img(T)
          /\ \A y \in img(T) \cup {b[x]} : g[y] \in Int
          /\ \A y \in T \cup {x} : f[y] \in Int
      <3>1. img(T \cup {x}) = img(T) \cup {b[x]}
        OBVIOUS
      <3>2. b[x] \notin img(T)
        BY <1>2
      <3>3. \A y \in T \cup {x} : y \in S /\ f[y] \in Int /\ g[b[y]] \in Int
        BY <1>2
      <3>4. \A y \in img(T) \cup {b[x]} : \E z \in T \cup {x} : y = b[z]
        OBVIOUS
      <3> HIDE DEF img
      <3> QED
        BY <3>1, <3>2, <3>3, <3>4
    <2>2. IsFiniteSet(img(T)) /\ SumOver(f, T) = SumOver(g, img(T))
      BY <1>2
    <2> HIDE DEF img
    <2>3. SumOver(f, T \cup {x}) = f[x] + SumOver(f, T)
      BY <1>2, <2>1, SumAdd
    <2>4. SumOver(g, img(T) \cup {b[x]}) = g[b[x]] + SumOver(g, img(T))
      BY <2>1, <2>2, SumAdd
    <2>5. IsFiniteSet(img(T) \cup {b[x]})
      BY <2>2, FS_AddElement
    <2> QED
      BY <2>1, <2>2, <2>3, <2>4, <2>5
  <1>3. S \in Q
    <2> HIDE DEF Q
    <2> QED
      BY <1>1, <1>2, FiniteForSums, Sums!FiniteSubsetInduction
  <1> QED
    BY <1>3

LEMMA SumSame ==
  ASSUME NEW f, NEW g, NEW S, IsFiniteSet(S), \A x \in S : f[x] \in Int /\ g[x] = f[x]
  PROVE  SumOver(f, S) = SumOver(g, S)
  <1> DEFINE b == [x \in S |-> x]
  <1>1. {b[x] : x \in S} = S
    OBVIOUS
  <1>2. /\ \A x \in S : f[x] \in Int /\ g[b[x]] = f[x]
        /\ \A x, y \in S : b[x] = b[y] => x = y
    OBVIOUS
  <1> HIDE DEF b
  <1>3. SumOver(f, S) = SumOver(g, {b[x] : x \in S})
    BY <1>2, SumReindex
  <1> QED
    BY <1>1, <1>3

\* One more term, or one term that grows, and the sum of a function.
LEMMA SumOfOneMore ==
  ASSUME NEW f, IsFiniteSet(DOMAIN f), \A y \in DOMAIN f : f[y] \in Nat,
         NEW x, NEW amount \in Nat,
         NEW g, DOMAIN g = DOMAIN f \cup {x},
         \A y \in DOMAIN f \ {x} : g[y] = f[y],
         g[x] = (IF x \in DOMAIN f THEN f[x] ELSE 0) + amount
  PROVE  SumFunction(g) = SumFunction(f) + amount
  <1> DEFINE R == DOMAIN f \ {x}
  <1>1. /\ IsFiniteSet(R) /\ x \notin R /\ DOMAIN g = R \cup {x}
        /\ \A y \in R : f[y] \in Int /\ g[y] = f[y]
        /\ \A y \in R \cup {x} : g[y] \in Int
    BY FS_RemoveElement
  <1> HIDE DEF R
  <1>2. SumOver(f, R) = SumOver(g, R)
    BY <1>1, SumSame
  <1>3. SumFunction(g) = g[x] + SumOver(g, R)
    BY <1>1, SumAdd, SumIsSumOver
  <1>4. SumOver(f, R) \in Nat
    BY <1>1, SumType DEF R
  <1>5. CASE x \in DOMAIN f
    <2>1. DOMAIN f = R \cup {x}
      BY <1>5 DEF R
    <2>01. \A y \in R \cup {x} : f[y] \in Int
      BY <1>5 DEF R
    <2>2. SumFunction(f) = f[x] + SumOver(f, R)
      BY <1>1, <2>1, <2>01, SumAdd, SumIsSumOver
    <2> QED
      BY <1>2, <1>3, <1>4, <1>5, <2>2
  <1>6. CASE x \notin DOMAIN f
    <2>1. R = DOMAIN f
      BY <1>6 DEF R
    <2> QED
      BY <1>2, <1>3, <1>4, <1>6, <2>1, SumIsSumOver
  <1> QED
    BY <1>5, <1>6

-------------------------------------------------------------------------------
(* Where pages appear, one appearance after the other.                      *)

Lists(E) == [engine : E, hits : Seq(Hit)]
Appearance(E) == [engine : E, position : Nat \ {0}, hit : Hit]

\* The appearance at position p of the n-th list.
At(lists, n, p) ==
  [engine |-> lists[n].engine, position |-> p, hit |-> lists[n].hits[p]]

\* a appears before b: in an earlier list, or earlier in the same.
AppearsBefore(lists, a, b) ==
  \E m, n \in DOMAIN lists : \E p \in DOMAIN lists[m].hits, q \in DOMAIN lists[n].hits :
    /\ a = At(lists, m, p) /\ b = At(lists, n, q)
    /\ m < n \/ (m = n /\ p < q)

\* s lists the appearances of the first n lists, in order.
Listed(E, lists, n, s) ==
  /\ s \in Seq(Appearance(E))
  /\ \A m \in 1..n : \A p \in DOMAIN lists[m].hits : At(lists, m, p) \in ToSet(s)
  /\ \A a \in ToSet(s) : \E m \in 1..n : \E p \in DOMAIN lists[m].hits : a = At(lists, m, p)
  /\ \A i, j \in DOMAIN s : i < j => AppearsBefore(lists, s[i], s[j])

LEMMA AppearancesListed ==
  ASSUME NEW E, NEW lists \in Seq(Lists(E))
  PROVE  Listed(E, lists, Len(lists), Appearances(lists))
  <1> DEFINE N == Len(lists)
             f == [n \in DOMAIN lists |-> [p \in DOMAIN lists[n].hits |-> At(lists, n, p)]]
             flat(n) == Collates!Flat(f, n)
             Q == {n \in Nat : n <= N => Listed(E, lists, n, flat(n))}
  <1>0. /\ N \in Nat /\ DOMAIN lists = 1..N
        /\ \A n \in 1..N : lists[n].engine \in E /\ lists[n].hits \in Seq(Hit)
    <2>1. N \in Nat /\ DOMAIN lists = 1..N /\ \A n \in 1..N : lists[n] \in Lists(E)
      OBVIOUS
    <2> QED
      BY <2>1 DEF Lists
  <1>1. ASSUME NEW n \in 1..N PROVE f[n] \in Seq(Appearance(E))
    <2>1. lists[n].hits \in Seq(Hit) /\ lists[n].engine \in E /\ n \in DOMAIN lists
      BY <1>0
    <2>2. \A p \in DOMAIN lists[n].hits : At(lists, n, p) \in Appearance(E)
      BY <2>1 DEF At, Appearance
    <2>3. f[n] = [p \in 1..Len(lists[n].hits) |-> At(lists, n, p)]
      BY <2>1
    <2> QED
      BY <2>1, <2>2, <2>3
  <1>2. \A n \in 1..N : /\ DOMAIN f[n] = DOMAIN lists[n].hits
                        /\ \A p \in DOMAIN f[n] : f[n][p] = At(lists, n, p)
    BY <1>0
  <1>3. 0 \in Q
    <2>1. flat(0) = <<>>
      BY Collates!FlatEmpty
    <2>2. DOMAIN <<>> = {} /\ <<>> \in Seq(Appearance(E))
      OBVIOUS
    <2> QED
      <3>1. Listed(E, lists, 0, <<>>)
        BY <2>2 DEF Listed, ToSet
      <3> HIDE DEF flat, f
      <3> QED
        BY <2>1, <3>1
  <1> HIDE DEF f, N
  <1>4. ASSUME NEW n \in Nat, n \in Q PROVE n + 1 \in Q
    <2>1. ASSUME n + 1 <= N PROVE Listed(E, lists, n + 1, flat(n + 1))
      <3> DEFINE s == flat(n)
                 t == f[n + 1]
      <3>1. Listed(E, lists, n, s)
        BY <1>0, <1>4, <2>1
      <3>2. n + 1 \in 1..N /\ 1..n \subseteq 1..N
        BY <1>0, <2>1
      <3>3. \A i \in 1..(n + 1) : f[i] \in Seq(Appearance(E))
        BY <1>0, <1>1, <2>1
      <3>4. flat(n + 1) = s \o t
        BY <3>3, Collates!FlatStep
      <3>5. s \in Seq(Appearance(E)) /\ t \in Seq(Appearance(E))
        BY <3>1, <3>2, <3>3 DEF Listed
      <3>6. DOMAIN t = DOMAIN lists[n + 1].hits /\ \A p \in DOMAIN t : t[p] = At(lists, n + 1, p)
        BY <1>2, <3>2
      <3> HIDE DEF s, t
      <3> DEFINE u == s \o t
                 k == Len(s)
      <3>7. /\ u \in Seq(Appearance(E)) /\ k \in Nat /\ DOMAIN s = 1..k
            /\ DOMAIN u = 1..(k + Len(t)) /\ Len(t) \in Nat /\ DOMAIN t = 1..Len(t)
            /\ \A i \in 1..k : u[i] = s[i]
            /\ \A p \in 1..Len(t) : u[k + p] = t[p]
        BY <3>5
      <3> HIDE DEF u, k
      <3>8. \A i \in DOMAIN u : i \in 1..k \/ \E p \in DOMAIN t : i = k + p
        <4>1. ASSUME NEW i \in DOMAIN u, i \notin 1..k PROVE \E p \in DOMAIN t : i = k + p
          <5>1. i - k \in 1..Len(t) /\ i = k + (i - k)
            BY <3>7, <4>1
          <5> QED
            BY <3>7, <5>1
        <4> QED
          BY <4>1
      <3>9. ToSet(u) = ToSet(s) \cup ToSet(t)
        <4>1. ToSet(u) \subseteq ToSet(s) \cup ToSet(t)
          BY <3>7, <3>8 DEF ToSet
        <4>2. ToSet(s) \subseteq ToSet(u)
          BY <3>7 DEF ToSet
        <4>3. ASSUME NEW p \in DOMAIN t PROVE t[p] \in ToSet(u)
          <5>1. k + p \in DOMAIN u /\ u[k + p] = t[p]
            BY <3>7
          <5> QED
            BY <5>1 DEF ToSet
        <4> QED
          BY <4>1, <4>2, <4>3 DEF ToSet
      <3>10. \A m \in 1..(n + 1) : \A p \in DOMAIN lists[m].hits : At(lists, m, p) \in ToSet(u)
        <4>1. ASSUME NEW m \in 1..(n + 1), NEW p \in DOMAIN lists[m].hits
              PROVE  At(lists, m, p) \in ToSet(u)
          <5>1. CASE m \in 1..n
            BY <3>1, <3>9, <5>1 DEF Listed
          <5>2. CASE m = n + 1
            BY <3>6, <3>9, <5>2 DEF ToSet
          <5> QED
            BY <5>1, <5>2
        <4> QED
          BY <4>1
      <3>11. ASSUME NEW a \in ToSet(u)
             PROVE  \E m \in 1..(n + 1) : \E p \in DOMAIN lists[m].hits : a = At(lists, m, p)
        <4>1. CASE a \in ToSet(s)
          <5>1. PICK m \in 1..n : \E p \in DOMAIN lists[m].hits : a = At(lists, m, p)
            BY <3>1, <4>1 DEF Listed
          <5>2. m \in 1..(n + 1)
            OBVIOUS
          <5> QED
            BY <5>1, <5>2
        <4>2. CASE a \in ToSet(t)
          <5>1. PICK p \in DOMAIN t : a = t[p]
            BY <4>2 DEF ToSet
          <5>2. n + 1 \in 1..(n + 1)
            OBVIOUS
          <5> QED
            BY <3>6, <5>1, <5>2
        <4> QED
          BY <3>9, <4>1, <4>2
      <3>12. ASSUME NEW i \in DOMAIN u, NEW j \in DOMAIN u, i < j
             PROVE  AppearsBefore(lists, u[i], u[j])
        <4>1. CASE j \in 1..k
          <5>1. i \in DOMAIN s /\ j \in DOMAIN s
            BY <3>7, <3>12, <4>1
          <5> QED
            BY <3>1, <3>7, <3>12, <5>1 DEF Listed
        <4>2. ASSUME NEW q \in DOMAIN t, j = k + q PROVE AppearsBefore(lists, u[i], u[j])
          <5>1. u[j] = At(lists, n + 1, q) /\ q \in DOMAIN lists[n + 1].hits /\ n + 1 \in DOMAIN lists
            BY <1>0, <3>2, <3>6, <3>7, <4>2 DEF N
          <5>2. CASE i \in 1..k
            <6>1. s[i] \in ToSet(s) /\ u[i] = s[i]
              BY <3>7, <5>2 DEF ToSet
            <6>2. PICK m \in 1..n : \E p \in DOMAIN lists[m].hits : s[i] = At(lists, m, p)
              BY <3>1, <6>1 DEF Listed
            <6>3. m \in DOMAIN lists /\ m < n + 1
              BY <1>0, <3>2 DEF N
            <6> QED
              BY <5>1, <6>1, <6>2, <6>3 DEF AppearsBefore
          <5>3. ASSUME NEW p \in DOMAIN t, i = k + p PROVE AppearsBefore(lists, u[i], u[j])
            <6>1. u[i] = At(lists, n + 1, p) /\ p \in DOMAIN lists[n + 1].hits /\ p < q
              BY <3>6, <3>7, <3>12, <4>2, <5>3
            <6> QED
              BY <5>1, <6>1 DEF AppearsBefore
          <5> QED
            BY <3>8, <5>2, <5>3
        <4> QED
          BY <3>8, <4>1, <4>2
      <3>13. Listed(E, lists, n + 1, u)
        BY <3>7, <3>10, <3>11, <3>12 DEF Listed
      <3> QED
        BY <3>4, <3>13 DEF u
    <2> QED
      BY <2>1
  <1>5. N \in Q
    <2> HIDE DEF Q
    <2> QED
      BY <1>0, <1>3, <1>4, Collates!NatSetInduction
  <1>6. Appearances(lists) = flat(N)
    <2>1. f = [n \in DOMAIN lists |->
                 [p \in DOMAIN lists[n].hits |->
                   [engine |-> lists[n].engine, position |-> p, hit |-> lists[n].hits[p]]]]
      BY DEF f, At
    <2>2. f = [n \in 1..N |-> f[n]]
      BY <1>0 DEF f
    <2>3. \A q : FlattenSeq(q) = Collates!FlattenSeq(q)
      BY DEF FlattenSeq, Collates!FlattenSeq
    <2>4. Appearances(lists) = FlattenSeq(f)
      BY <2>1 DEF Appearances
    <2> QED
      BY <2>2, <2>3, <2>4 DEF Collates!Flat
  <1> QED
    BY <1>0, <1>5, <1>6 DEF N

-------------------------------------------------------------------------------
(* What the loop makes of the appearances.                                  *)

PageOf(a) == NormalizeUrl(a.hit.url)
Of(s, key) == {a \in ToSet(s) : PageOf(a) = key}
Worth(A) == SumFunction([a \in A |-> Contribution(a.position)])
ByEngine(A, e) == {a \in A : a.engine = e}

\* The score is the worth of the appearances A, explained engine by engine.
Tallied(entry, A) ==
  /\ entry.score = Worth(A) /\ entry.score \in Nat
  /\ entry.breakdown \in [{a.engine : a \in A} -> Nat]
  /\ \A e \in DOMAIN entry.breakdown : entry.breakdown[e] = Worth(ByEngine(A, e))
  /\ SumFunction(entry.breakdown) = entry.score

\* The URL is that of the first appearance at the best position.
FirstBest(entry, s, key) ==
  \E j \in DOMAIN s :
    /\ PageOf(s[j]) = key /\ entry.url = s[j].hit.url /\ entry.best = s[j].position
    /\ \A i \in DOMAIN s :
         PageOf(s[i]) = key =>
           s[j].position < s[i].position \/ (s[j].position = s[i].position /\ j <= i)

\* The texts are the longest.
Longest(entry, A) ==
  /\ entry.title \in {a.hit.title : a \in A} /\ \A a \in A : a.hit.title <= entry.title
  /\ entry.snippet \in {a.hit.snippet : a \in A} /\ \A a \in A : a.hit.snippet <= entry.snippet

Collated(s, agg) ==
  /\ DOMAIN agg = {PageOf(a) : a \in ToSet(s)}
  /\ \A key \in DOMAIN agg : /\ Tallied(agg[key], Of(s, key))
                             /\ FirstBest(agg[key], s, key)
                             /\ Longest(agg[key], Of(s, key))

LEMMA ContributionType == \A p \in Nat \ {0} : Contribution(p) \in Nat
  <1>1. ASSUME NEW p \in Nat \ {0} PROVE Contribution(p) \in Nat
    <2>1. K + p \in Nat /\ K + p > 0 /\ Scale \in Nat
      BY FusionAssumption
    <2> QED
      BY <2>1 DEF Contribution
  <1> QED
    BY <1>1

LEMMA WorthAdd ==
  ASSUME NEW E, NEW A \in SUBSET Appearance(E), IsFiniteSet(A),
         NEW x \in Appearance(E), x \notin A
  PROVE  Worth(A \cup {x}) = Worth(A) + Contribution(x.position)
  <1> DEFINE f == [a \in A |-> Contribution(a.position)]
             g == [a \in A \cup {x} |-> Contribution(a.position)]
  <1>1. \A a \in A \cup {x} : Contribution(a.position) \in Nat
    <2>1. \A a \in A \cup {x} : a.position \in Nat \ {0}
      BY DEF Appearance
    <2> QED
      BY <2>1, ContributionType
  <1>2. /\ IsFiniteSet(DOMAIN f) /\ x \notin DOMAIN f /\ DOMAIN g = DOMAIN f \cup {x}
        /\ \A a \in DOMAIN f : f[a] \in Nat /\ g[a] = f[a]
        /\ g[x] = 0 + Contribution(x.position) /\ Contribution(x.position) \in Nat
    BY <1>1
  <1> HIDE DEF f, g
  <1>3. SumFunction(g) = SumFunction(f) + Contribution(x.position)
    BY <1>2, SumOfOneMore
  <1> QED
    BY <1>3 DEF Worth, f, g

LEMMA WorthEmpty == Worth({}) = 0
  <1>1. DOMAIN [a \in {} |-> Contribution(a.position)] = {}
    OBVIOUS
  <1> QED
    BY <1>1, SumIsSumOver, SumEmpty DEF Worth

LEMMA TalliedNothing ==
  ASSUME NEW a
  PROVE  Tallied(NewEntry(a), {})
  <1>1. NewEntry(a).score = 0 /\ NewEntry(a).breakdown = <<>> /\ DOMAIN <<>> = {}
    BY DEF NewEntry
  <1>2. SumFunction(<<>>) = 0
    BY <1>1, SumIsSumOver, SumEmpty
  <1>3. <<>> \in [{a0.engine : a0 \in {}} -> Nat]
    OBVIOUS
  <1> QED
    BY <1>1, <1>2, <1>3, WorthEmpty DEF Tallied

\* One more appearance is added to the score and to its engine's part of it.
LEMMA TalliedUpdate ==
  ASSUME NEW E, NEW A \in SUBSET Appearance(E), IsFiniteSet(A),
         NEW x \in Appearance(E), x \notin A, NEW entry, Tallied(entry, A)
  PROVE  Tallied(Update(entry, x), A \cup {x})
  <1> DEFINE new == Update(entry, x)
             amount == Contribution(x.position)
             old == entry.breakdown
             credited == Credit(old, x.engine, amount)
  <1>1. amount \in Nat
    BY ContributionType DEF Appearance
  <1>2. new.score = entry.score + amount /\ new.breakdown = credited
    BY DEF Update
  <1>3. new.score = Worth(A \cup {x}) /\ new.score \in Nat
    BY <1>1, <1>2, WorthAdd DEF Tallied
  <1>4. /\ DOMAIN old = {a.engine : a \in A}
        /\ \A e \in DOMAIN old : old[e] \in Nat /\ old[e] = Worth(ByEngine(A, e))
        /\ SumFunction(old) = entry.score
    BY DEF Tallied
  <1> HIDE DEF old
  <1>5. /\ DOMAIN credited = DOMAIN old \cup {x.engine}
        /\ \A e \in DOMAIN old \ {x.engine} : credited[e] = old[e]
        /\ credited[x.engine] = (IF x.engine \in DOMAIN old THEN old[x.engine] ELSE 0) + amount
    <2>1. credited = [e \in DOMAIN old \cup {x.engine} |->
                        (IF e \in DOMAIN old THEN old[e] ELSE 0)
                          + (IF e = x.engine THEN amount ELSE 0)]
      BY DEF Credit
    <2>2. \A e \in DOMAIN old \ {x.engine} : credited[e] = old[e] + 0
      BY <2>1
    <2>3. \A e \in DOMAIN old \ {x.engine} : old[e] + 0 = old[e]
      BY <1>4
    <2>4. credited[x.engine] = (IF x.engine \in DOMAIN old THEN old[x.engine] ELSE 0) + amount
      BY <2>1
    <2>5. DOMAIN credited = DOMAIN old \cup {x.engine}
      BY <2>1
    <2> HIDE DEF credited
    <2> QED
      BY <2>2, <2>3, <2>4, <2>5
  <1>50. credited = [e \in DOMAIN credited |-> credited[e]]
    BY DEF Credit
  <1> HIDE DEF credited, amount
  <1>6. DOMAIN credited = {a.engine : a \in A \cup {x}}
    BY <1>4, <1>5
  <1>7. SumFunction(credited) = SumFunction(old) + amount
    <2>1. IsFiniteSet(DOMAIN old)
      <3> DEFINE eng == [a \in A |-> a.engine]
      <3>1. eng \in Surjection(A, DOMAIN old)
        BY <1>4 DEF Surjection
      <3> QED
        BY <3>1, FS_Surjection
    <2> QED
      <3> DEFINE e == x.engine
      <3>1. \A y \in DOMAIN old : old[y] \in Nat
        BY <1>4
      <3>2. /\ DOMAIN credited = DOMAIN old \cup {e}
            /\ \A y \in DOMAIN old \ {e} : credited[y] = old[y]
            /\ credited[e] = (IF e \in DOMAIN old THEN old[e] ELSE 0) + amount
        BY <1>5
      <3> HIDE DEF e
      <3> QED
        BY ONLY <1>1, <2>1, <3>1, <3>2, SumOfOneMore
  <1>8. ASSUME NEW e \in DOMAIN credited
        PROVE  credited[e] \in Nat /\ credited[e] = Worth(ByEngine(A \cup {x}, e))
    <2>1. CASE e # x.engine
      <3>1. ByEngine(A \cup {x}, e) = ByEngine(A, e)
        BY <2>1 DEF ByEngine
      <3> QED
        BY <1>4, <1>5, <2>1, <3>1
    <2>2. CASE e = x.engine
      <3> DEFINE B == ByEngine(A, e)
      <3>1. ByEngine(A \cup {x}, e) = B \cup {x} /\ x \notin B /\ B \in SUBSET Appearance(E)
            /\ B \in SUBSET A
        BY <2>2 DEF ByEngine
      <3> HIDE DEF B
      <3>2. IsFiniteSet(B)
        BY <3>1, FS_Subset
      <3>3. Worth(B \cup {x}) = Worth(B) + amount
        BY <3>1, <3>2, WorthAdd DEF amount
      <3>4. credited[e] = (IF e \in DOMAIN old THEN old[e] ELSE 0) + amount
        BY <1>5, <2>2
      <3>5. CASE e \in DOMAIN old
        <4>1. old[e] \in Nat /\ old[e] = Worth(B)
          BY <1>4, <3>5 DEF B
        <4>2. credited[e] = old[e] + amount
          BY <3>4, <3>5
        <4> QED
          BY ONLY <1>1, <3>1, <3>3, <4>1, <4>2
      <3>6. CASE e \notin DOMAIN old
        <4>1. B = {}
          BY <1>4, <3>6 DEF B, ByEngine
        <4> QED
          BY <1>1, <3>1, <3>3, <3>4, <3>6, <4>1, WorthEmpty
      <3> QED
        BY <3>5, <3>6
    <2> QED
      BY <2>1, <2>2
  <1>9. credited \in [{a.engine : a \in A \cup {x}} -> Nat]
    BY <1>50, <1>6, <1>8
  <1> HIDE DEF new
  <1> QED
    BY <1>2, <1>3, <1>4, <1>7, <1>8, <1>9 DEF Tallied, new

\* One more appearance, of a page seen before or of a new one.
LEMMA CollatedAppend ==
  ASSUME NEW E, NEW s \in Seq(Appearance(E)), NEW x \in Appearance(E), x \notin ToSet(s),
         NEW agg, Collated(s, agg)
  PROVE  Collated(Append(s, x), Collate(agg, x))
  <1> DEFINE t == Append(s, x)
             n == Len(s) + 1
             key == PageOf(x)
             entry == IF key \in DOMAIN agg THEN agg[key] ELSE NewEntry(x)
             new == Collate(agg, x)
  <1>1. /\ DOMAIN t = DOMAIN s \cup {n} /\ t[n] = x /\ n \in Nat
        /\ \A i \in DOMAIN s : t[i] = s[i] /\ i < n /\ i \in Nat
        /\ \A i \in DOMAIN s : s[i] \in Appearance(E)
    OBVIOUS
  <1>2. ToSet(t) = ToSet(s) \cup {x}
    BY ToSetAppend
  <1>3. IsFiniteSet(ToSet(s)) /\ ToSet(s) \subseteq Appearance(E)
    <2>1. s \in Surjection(DOMAIN s, ToSet(s))
      BY DEF Surjection, ToSet
    <2>2. IsFiniteSet(DOMAIN s)
      BY FS_Interval
    <2> QED
      BY <2>1, <2>2, FS_Surjection DEF ToSet
  <1> HIDE DEF t, n
  <1>4. /\ Of(t, key) = Of(s, key) \cup {x} /\ x \notin Of(s, key)
        /\ Of(s, key) \in SUBSET Appearance(E)
        /\ \A k : k # key => Of(t, k) = Of(s, k)
    BY <1>2, <1>3 DEF Of
  <1>5. IsFiniteSet(Of(s, key))
    <2>1. Of(s, key) \in SUBSET ToSet(s)
      BY DEF Of
    <2> QED
      BY <1>3, <2>1, FS_Subset
  <1>6. /\ DOMAIN new = DOMAIN agg \cup {key}
        /\ \A k \in DOMAIN agg \ {key} : new[k] = agg[k]
        /\ new[key] = Update(entry, x)
    BY DEF Collate, PageOf
  <1> HIDE DEF new
  <1>7. DOMAIN new = {PageOf(a) : a \in ToSet(t)}
    BY <1>2, <1>6 DEF Collated
  <1>8. x.position \in Nat /\ x.hit.title \in Nat /\ x.hit.snippet \in Nat
    BY DEF Appearance, Hit
  <1>9. key \notin DOMAIN agg => Of(s, key) = {} /\ \A i \in DOMAIN s : PageOf(s[i]) # key
    BY DEF Collated, Of, ToSet
  <1>10. Tallied(Update(entry, x), Of(t, key))
    <2>1. Tallied(entry, Of(s, key))
      BY <1>9, TalliedNothing DEF Collated
    <2> HIDE DEF entry
    <2> QED
      BY <1>4, <1>5, <2>1, TalliedUpdate
  <1>11. FirstBest(Update(entry, x), t, key)
    <2> DEFINE e == Update(entry, x)
    <2>1. /\ e.url = IF x.position < entry.best THEN x.hit.url ELSE entry.url
          /\ e.best = IF x.position < entry.best THEN x.position ELSE entry.best
      BY DEF Update
    <2> HIDE DEF e
    <2>2. CASE key \in DOMAIN agg
      <3>1. PICK j \in DOMAIN s :
                   /\ PageOf(s[j]) = key /\ entry.url = s[j].hit.url /\ entry.best = s[j].position
                   /\ \A i \in DOMAIN s :
                        PageOf(s[i]) = key =>
                          \/ s[j].position < s[i].position
                          \/ s[j].position = s[i].position /\ j <= i
        BY <2>2 DEF Collated, FirstBest
      <3>2. \A i \in DOMAIN s : s[i].position \in Nat
        BY <1>1 DEF Appearance
      <3> HIDE DEF key, entry
      <3>3. CASE x.position < entry.best
        <4>1. \A i \in DOMAIN s : PageOf(s[i]) = key => x.position < s[i].position
          BY <1>8, <3>1, <3>2, <3>3
        <4>2. e.url = x.hit.url /\ e.best = x.position
          BY <2>1, <3>3
        <4>3. \A i \in DOMAIN t :
                PageOf(t[i]) = key =>
                  t[n].position < t[i].position \/ (t[n].position = t[i].position /\ n <= i)
          BY <1>1, <4>1
        <4> QED
          BY <1>1, <4>2, <4>3 DEF FirstBest, e, key
      <3>4. CASE ~ x.position < entry.best
        <4>1. e.url = t[j].hit.url /\ e.best = t[j].position /\ j \in DOMAIN t /\ PageOf(t[j]) = key
          BY <1>1, <2>1, <3>1, <3>4
        <4>2. \A i \in DOMAIN t :
                PageOf(t[i]) = key =>
                  t[j].position < t[i].position \/ (t[j].position = t[i].position /\ j <= i)
          BY <1>1, <1>8, <3>1, <3>2, <3>4
        <4> QED
          BY <4>1, <4>2 DEF FirstBest, e
      <3> QED
        BY <3>3, <3>4
    <2>3. CASE key \notin DOMAIN agg
      <3>1. entry.url = x.hit.url /\ entry.best = x.position
        BY <2>3 DEF NewEntry
      <3>2. e.url = x.hit.url /\ e.best = x.position
        BY <2>1, <3>1
      <3>3. \A i \in DOMAIN t : PageOf(t[i]) = key => i = n
        BY <1>1, <1>9, <2>3
      <3>4. \A i \in DOMAIN t :
              PageOf(t[i]) = key =>
                t[n].position < t[i].position \/ (t[n].position = t[i].position /\ n <= i)
        BY <1>1, <3>3
      <3> QED
        BY <1>1, <3>2, <3>4 DEF FirstBest, e, key
    <2> QED
      BY <2>2, <2>3
  <1>12. Longest(Update(entry, x), Of(t, key))
    <2> DEFINE e == Update(entry, x)
               A == Of(s, key)
    <2>1. /\ e.title = IF x.hit.title > entry.title THEN x.hit.title ELSE entry.title
          /\ e.snippet = IF x.hit.snippet > entry.snippet THEN x.hit.snippet ELSE entry.snippet
      BY DEF Update, Longer
    <2>2. \A a \in A : a.hit.title \in Nat /\ a.hit.snippet \in Nat
      BY <1>4 DEF Appearance, Hit
    <2>3. Of(t, key) = A \cup {x}
      BY <1>4
    <2> HIDE DEF e, A
    <2>4. CASE key \in DOMAIN agg
      <3>1. Longest(entry, A)
        BY <2>4 DEF Collated, A
      <3> HIDE DEF key, entry
      <3>2. entry.title \in Nat /\ entry.snippet \in Nat
        BY <2>2, <3>1 DEF Longest
      <3>3. e.title \in {a.hit.title : a \in A \cup {x}} /\ \A a \in A \cup {x} : a.hit.title <= e.title
        BY <1>8, <2>1, <2>2, <3>1, <3>2 DEF Longest
      <3>4. e.snippet \in {a.hit.snippet : a \in A \cup {x}} /\ \A a \in A \cup {x} : a.hit.snippet <= e.snippet
        BY <1>8, <2>1, <2>2, <3>1, <3>2 DEF Longest
      <3> QED
        BY <2>3, <3>3, <3>4 DEF Longest, e
    <2>5. CASE key \notin DOMAIN agg
      <3>1. entry.title = 0 /\ entry.snippet = 0
        BY <2>5 DEF NewEntry
      <3>2. A = {}
        BY <1>9, <2>5 DEF A
      <3>3. e.title = x.hit.title /\ e.snippet = x.hit.snippet
        BY <1>8, <2>1, <3>1
      <3> QED
        BY <1>8, <2>3, <3>2, <3>3 DEF Longest, e
    <2> QED
      BY <2>4, <2>5
  <1>13. ASSUME NEW k \in DOMAIN agg, k # key
         PROVE  Tallied(new[k], Of(t, k)) /\ FirstBest(new[k], t, k) /\ Longest(new[k], Of(t, k))
    <2>1. new[k] = agg[k] /\ Of(t, k) = Of(s, k)
      BY <1>4, <1>6, <1>13
    <2>2. Tallied(agg[k], Of(s, k)) /\ FirstBest(agg[k], s, k) /\ Longest(agg[k], Of(s, k))
      BY <1>13 DEF Collated
    <2>3. FirstBest(agg[k], t, k)
      <3>1. PICK j \in DOMAIN s :
                   /\ PageOf(s[j]) = k /\ agg[k].url = s[j].hit.url /\ agg[k].best = s[j].position
                   /\ \A i \in DOMAIN s :
                        PageOf(s[i]) = k =>
                          \/ s[j].position < s[i].position
                          \/ s[j].position = s[i].position /\ j <= i
        BY <2>2 DEF FirstBest
      <3>2. PageOf(t[n]) # k
        BY <1>1, <1>13
      <3>3. \A i \in DOMAIN t : PageOf(t[i]) = k => i \in DOMAIN s
        BY <1>1, <3>2
      <3>4. \A i \in DOMAIN t :
              PageOf(t[i]) = k =>
                t[j].position < t[i].position \/ (t[j].position = t[i].position /\ j <= i)
        BY <1>1, <3>1, <3>3
      <3> QED
        BY <1>1, <3>1, <3>4 DEF FirstBest
    <2> QED
      BY <2>1, <2>2, <2>3
  <1>14. \A k \in DOMAIN new :
           Tallied(new[k], Of(t, k)) /\ FirstBest(new[k], t, k) /\ Longest(new[k], Of(t, k))
    BY <1>6, <1>10, <1>11, <1>12, <1>13
  <1> QED
    BY <1>7, <1>14 DEF Collated, t, new

CollateAll(s) == FoldLeft(Collate, <<>>, s)

\* The loop knows of every page its exact score, how it comes about, and what to show.
THEOREM AggregationIsExact ==
  ASSUME NEW E, NEW apps \in Seq(Appearance(E)), Once(apps)
  PROVE  Collated(apps, CollateAll(apps))
  <1> DEFINE Q == {s \in Seq(Appearance(E)) : Once(s) => Collated(s, CollateAll(s))}
  <1>1. \A T : Max(T) = Collates!Max(T)
    BY DEF Max, Collates!Max
  <1>2. \A s : CollateAll(s) = Collates!Fold(<<>>, <<>>, s)
    BY <1>1 DEF CollateAll, FoldLeft, MapThenFoldSet, Collates!Fold,
                Collates!FoldLeft, Collates!MapThenFoldSet
  <1>3. <<>> \in Q
    <2>1. CollateAll(<<>>) = <<>> /\ DOMAIN <<>> = {} /\ <<>> \in Seq(Appearance(E))
      BY <1>2, Collates!FoldEmpty
    <2> QED
      BY <2>1 DEF Collated, ToSet
  <1>4. ASSUME NEW s \in Seq(Appearance(E)), s \in Q, NEW x \in Appearance(E)
        PROVE  Append(s, x) \in Q
    <2>1. CollateAll(Append(s, x)) = Collate(CollateAll(s), x)
      BY <1>2, Collates!FoldAppend
    <2>2. ASSUME Once(Append(s, x)) PROVE Collated(Append(s, x), CollateAll(Append(s, x)))
      <3>1. /\ DOMAIN Append(s, x) = DOMAIN s \cup {Len(s) + 1} /\ Append(s, x)[Len(s) + 1] = x
            /\ \A i \in DOMAIN s : Append(s, x)[i] = s[i] /\ i # Len(s) + 1
        OBVIOUS
      <3>2. Once(s) /\ x \notin ToSet(s)
        BY <2>2, <3>1 DEF Once, ToSet
      <3>3. Collated(s, CollateAll(s))
        BY <1>4, <3>2
      <3> QED
        BY <2>1, <3>2, <3>3, CollatedAppend
    <2>3. Append(s, x) \in Seq(Appearance(E))
      OBVIOUS
    <2> QED
      BY <2>2, <2>3
  <1>5. apps \in Q
    <2> HIDE DEF Q
    <2> QED
      BY <1>3, <1>4, Collates!SeqSetInduction
  <1> QED
    BY <1>5

-------------------------------------------------------------------------------
(* Sorting the pages.                                                       *)

StrictTotalOrder(R, S) ==
  /\ \A a \in S : <<a, a>> \notin R
  /\ \A a, b, c \in S : <<a, b>> \in R /\ <<b, c>> \in R => <<a, c>> \in R
  /\ \A a, b \in S : a # b => <<a, b>> \in R \/ <<b, a>> \in R

Before(R, S, k) == {l \in S : <<l, k>> \in R}

\* The number of those before it tells every element of a total order its place.
LEMMA RanksSort ==
  ASSUME NEW S, IsFiniteSet(S), NEW R, StrictTotalOrder(R, S)
  PROVE  /\ \A k \in S : Cardinality(Before(R, S, k)) \in Nat
         /\ \A k \in S : Cardinality(Before(R, S, k)) + 1 \in 1..Cardinality(S)
         /\ \A r \in 1..Cardinality(S) : \E k \in S : Cardinality(Before(R, S, k)) = r - 1
         /\ \A a, b \in S :
              /\ Cardinality(Before(R, S, a)) = Cardinality(Before(R, S, b)) => a = b
              /\ Cardinality(Before(R, S, a)) < Cardinality(Before(R, S, b)) => <<a, b>> \in R
  <1> DEFINE N == Cardinality(S)
             rank == [k \in S |-> Cardinality(Before(R, S, k)) + 1]
  <1>1. N \in Nat
    BY FS_CardinalityType
  <1>2. ASSUME NEW k \in S
        PROVE  /\ IsFiniteSet(Before(R, S, k)) /\ Cardinality(Before(R, S, k)) \in Nat
               /\ rank[k] \in 1..N
    <2>1. Before(R, S, k) \in SUBSET S /\ k \notin Before(R, S, k)
      BY DEF Before, StrictTotalOrder
    <2>2. IsFiniteSet(Before(R, S, k)) /\ Cardinality(Before(R, S, k)) \in Nat
      BY <2>1, FS_Subset, FS_CardinalityType
    <2>3. Cardinality(Before(R, S, k)) <= Cardinality(S \ {k})
      <3>1. IsFiniteSet(S \ {k}) /\ Before(R, S, k) \in SUBSET (S \ {k})
        BY <2>1, FS_RemoveElement
      <3> QED
        BY <3>1, FS_Subset
    <2>4. Cardinality(S \ {k}) = N - 1
      BY FS_RemoveElement
    <2> QED
      BY <1>1, <2>2, <2>3, <2>4
  <1>3. ASSUME NEW a \in S, NEW b \in S, <<a, b>> \in R PROVE rank[a] < rank[b]
    <2> DEFINE A == Before(R, S, a)
               B == Before(R, S, b)
    <2>1. a \notin A /\ A \cup {a} \in SUBSET B
      BY <1>3 DEF Before, StrictTotalOrder
    <2>2. Cardinality(A \cup {a}) = Cardinality(A) + 1
      BY <1>2, <2>1, FS_AddElement
    <2>3. Cardinality(A \cup {a}) <= Cardinality(B)
      BY <1>2, <2>1, FS_Subset
    <2>4. Cardinality(A) \in Nat /\ Cardinality(B) \in Nat
      BY <1>2
    <2> HIDE DEF A, B
    <2>5. rank[a] = Cardinality(A) + 1 /\ rank[b] = Cardinality(B) + 1
      BY DEF A, B
    <2> QED
      BY <2>2, <2>3, <2>4, <2>5
  <1> DEFINE Before1(k) == Cardinality(Before(R, S, k))
  <1>4. \A k \in S : rank[k] = Before1(k) + 1 /\ Before1(k) \in Nat /\ rank[k] \in 1..N
    BY <1>2
  <1>5. DOMAIN rank = S
    OBVIOUS
  <1> HIDE DEF rank, N, Before1
  <1>7. \A a, b \in S : rank[a] = rank[b] => a = b
    <2>1. \A a, b \in S : a # b => rank[a] < rank[b] \/ rank[b] < rank[a]
      BY <1>3 DEF StrictTotalOrder
    <2> QED
      BY <1>1, <1>4, <2>1
  <1>8. rank \in Surjection(S, 1..N)
    <2>1. rank \in [S -> 1..N]
      <3>1. rank = [k \in S |-> rank[k]]
        BY DEF rank
      <3> QED
        BY <1>4, <3>1
    <2>2. rank \in Injection(S, 1..N)
      BY <1>5, <1>7, <2>1 DEF Injection, IsInjective
    <2>3. IsFiniteSet(1..N) /\ Cardinality(1..N) = N
      BY <1>1, FS_Interval
    <2> QED
      BY <2>2, <2>3, FS_Injection DEF N
  <1>9. \A r \in 1..N : \E k \in S : Before1(k) = r - 1
    <2>1. ASSUME NEW r \in 1..N PROVE \E k \in S : Before1(k) = r - 1
      <3>1. PICK k \in S : rank[k] = r
        BY <1>8 DEF Surjection
      <3>2. Before1(k) = r - 1
        BY <1>1, <1>4, <3>1
      <3> QED
        BY <3>2
    <2> QED
      BY <2>1
  <1>10. ASSUME NEW a \in S, NEW b \in S, Before1(a) < Before1(b) PROVE <<a, b>> \in R
    <2>1. a # b /\ ~ (rank[b] < rank[a])
      BY <1>4, <1>10
    <2> QED
      BY <1>3, <2>1 DEF StrictTotalOrder
  <1>11. \A a, b \in S : Before1(a) = Before1(b) => a = b
    BY <1>4, <1>7
  <1>12. \A k \in S : Before1(k) + 1 \in 1..N
    BY <1>4
  <1> QED
    BY <1>4, <1>9, <1>10, <1>11, <1>12 DEF N, Before1

PageKey == {k \in Seq(Nat) : Len(k) = 5}

LEMMA NormalizeType == \A url \in Url : NormalizeUrl(url) \in PageKey
  <1>1. ASSUME NEW url \in Url PROVE NormalizeUrl(url) \in PageKey
    <2>1. /\ url.scheme \in Nat /\ url.host \in Nat /\ url.path \in Nat
          /\ url.slashes \in Nat /\ url.query \in Nat
      BY FusionAssumption DEF Url
    <2> QED
      BY <2>1 DEF NormalizeUrl, PageKey, Https
  <1> QED
    BY <1>1

LEMMA KeysOrdered ==
  /\ \A k \in PageKey : ~ KeyBefore(k, k)
  /\ \A k, l, m \in PageKey : KeyBefore(k, l) /\ KeyBefore(l, m) => KeyBefore(k, m)
  /\ \A k, l \in PageKey : k # l => KeyBefore(k, l) \/ KeyBefore(l, k)
  <1>1. \A k \in PageKey : DOMAIN k = 1..5 /\ \A n \in 1..5 : k[n] \in Nat
    <2>1. \A k \in PageKey : k \in Seq(Nat) /\ Len(k) = 5
      BY DEF PageKey
    <2> HIDE DEF PageKey
    <2>2. ASSUME NEW k \in PageKey PROVE DOMAIN k = 1..5 /\ \A n \in 1..5 : k[n] \in Nat
      BY <2>1
    <2> QED
      BY <2>2
  <1>2. \A k \in PageKey : ~ KeyBefore(k, k)
    BY <1>1 DEF KeyBefore
  <1>3. ASSUME NEW k \in PageKey, NEW l \in PageKey, NEW m \in PageKey,
               KeyBefore(k, l), KeyBefore(l, m)
        PROVE  KeyBefore(k, m)
    <2>1. PICK i \in 1..5 : k[i] < l[i] /\ \A j \in 1..(i - 1) : k[j] = l[j]
      BY <1>1, <1>3 DEF KeyBefore
    <2>2. PICK h \in 1..5 : l[h] < m[h] /\ \A j \in 1..(h - 1) : l[j] = m[j]
      BY <1>1, <1>3 DEF KeyBefore
    <2>3. CASE i <= h
      <3>1. k[i] < m[i]
        BY <1>1, <2>1, <2>2, <2>3
      <3>2. \A j \in 1..(i - 1) : k[j] = m[j]
        BY <2>1, <2>2, <2>3
      <3> QED
        BY <1>1, <3>1, <3>2 DEF KeyBefore
    <2>4. CASE h < i
      <3>1. k[h] < m[h]
        BY <1>1, <2>1, <2>2, <2>4
      <3>2. \A j \in 1..(h - 1) : k[j] = m[j]
        BY <2>1, <2>2, <2>4
      <3> QED
        BY <1>1, <3>1, <3>2 DEF KeyBefore
    <2> QED
      BY <2>3, <2>4
  <1>4. ASSUME NEW k \in PageKey, NEW l \in PageKey, k # l
        PROVE  KeyBefore(k, l) \/ KeyBefore(l, k)
    <2>1. \E i \in 1..5 : k[i] # l[i]
      BY <1>4, SeqEqual DEF PageKey
    <2>2. \E i \in 1..5 : k[i] # l[i] /\ \A j \in 1..(i - 1) : k[j] = l[j]
      <3>1. CASE k[1] # l[1]
        <4>1. \A j \in 1..(1 - 1) : k[j] = l[j]
          OBVIOUS
        <4> QED
          BY <3>1, <4>1
      <3>2. CASE k[1] = l[1] /\ k[2] # l[2]
        <4>1. \A j \in 1..(2 - 1) : k[j] = l[j]
          BY <3>2
        <4> QED
          BY <3>2, <4>1
      <3>3. CASE k[1] = l[1] /\ k[2] = l[2] /\ k[3] # l[3]
        <4>1. \A j \in 1..(3 - 1) : k[j] = l[j]
          BY <3>3
        <4> QED
          BY <3>3, <4>1
      <3>4. CASE k[1] = l[1] /\ k[2] = l[2] /\ k[3] = l[3] /\ k[4] # l[4]
        <4>1. \A j \in 1..(4 - 1) : k[j] = l[j]
          BY <3>4
        <4> QED
          BY <3>4, <4>1
      <3>5. CASE k[1] = l[1] /\ k[2] = l[2] /\ k[3] = l[3] /\ k[4] = l[4]
        <4>1. \A j \in 1..(5 - 1) : k[j] = l[j]
          BY <3>5
        <4>2. k[5] # l[5]
          BY <2>1, <3>5
        <4> QED
          BY <4>1, <4>2
      <3> QED
        BY <3>1, <3>2, <3>3, <3>4, <3>5
    <2> QED
      BY <1>1, <2>2 DEF KeyBefore
  <1> QED
    BY <1>2, <1>3, <1>4

\* What is known of pages that can be sorted.
Sortable(agg) ==
  /\ IsFiniteSet(DOMAIN agg) /\ DOMAIN agg \subseteq PageKey
  /\ \A k \in DOMAIN agg : agg[k].score \in Nat /\ Consensus(agg[k]) \in Nat

Rank(agg, k) == Cardinality({l \in DOMAIN agg : Above(agg, l, k)})

\* sorted lists all pages of agg once, each above those that follow it.
Sorted(agg, sorted) ==
  /\ sorted \in Seq(DOMAIN agg) /\ Len(sorted) = Cardinality(DOMAIN agg)
  /\ ToSet(sorted) = DOMAIN agg /\ Once(sorted)
  /\ \A r, t \in DOMAIN sorted : r < t => Above(agg, sorted[r], sorted[t])
  /\ \A r \in DOMAIN sorted : Rank(agg, sorted[r]) = r - 1
  /\ \A k, l \in DOMAIN agg : Rank(agg, k) = Rank(agg, l) => k = l

LEMMA OrderedSorts ==
  ASSUME NEW agg, Sortable(agg)
  PROVE  Sorted(agg, Ordered(agg))
  <1> DEFINE S == DOMAIN agg
             R == {p \in S \X S : Above(agg, p[1], p[2])}
             sorted == Ordered(agg)
  <1>1. \A k, l \in S : <<k, l>> \in R <=> Above(agg, k, l)
    OBVIOUS
  <1>2. \A k \in S : k \in PageKey /\ agg[k].score \in Nat /\ Consensus(agg[k]) \in Nat
    BY DEF Sortable
  <1> HIDE DEF R
  <1>3. StrictTotalOrder(R, S)
    <2>1. \A a \in S : ~ Above(agg, a, a)
      BY <1>2, KeysOrdered DEF Above
    <2>2. \A a, b, c \in S : Above(agg, a, b) /\ Above(agg, b, c) => Above(agg, a, c)
      BY <1>2, KeysOrdered DEF Above
    <2>3. \A a, b \in S : a # b => Above(agg, a, b) \/ Above(agg, b, a)
      BY <1>2, KeysOrdered DEF Above
    <2> HIDE DEF S
    <2> QED
      BY <1>1, <2>1, <2>2, <2>3 DEF StrictTotalOrder
  <1>4. Cardinality(S) \in Nat /\ IsFiniteSet(S)
    BY FS_CardinalityType DEF Sortable
  <1>5. \A k \in S : Before(R, S, k) = {l \in S : Above(agg, l, k)}
    BY <1>1 DEF Before
  <1> DEFINE above(k) == Cardinality({l \in S : Above(agg, l, k)})
             N == Cardinality(S)
             at(r) == CHOOSE k \in S : above(k) = r - 1
  <1>60. sorted = [r \in 1..N |-> at(r)] /\ \A r \in 1..N : sorted[r] = at(r)
    BY DEF Ordered
  <1>7. /\ \A k \in S : above(k) \in Nat /\ above(k) + 1 \in 1..N
        /\ \A r \in 1..N : \E k \in S : above(k) = r - 1
        /\ \A a, b \in S : /\ above(a) = above(b) => a = b
                           /\ above(a) < above(b) => <<a, b>> \in R
    <2>1. \A k \in S : above(k) = Cardinality(Before(R, S, k))
      BY <1>5
    <2>2. /\ \A k \in S : Cardinality(Before(R, S, k)) \in Nat
          /\ \A k \in S : Cardinality(Before(R, S, k)) + 1 \in 1..N
          /\ \A r \in 1..N : \E k \in S : Cardinality(Before(R, S, k)) = r - 1
          /\ \A a, b \in S :
               /\ Cardinality(Before(R, S, a)) = Cardinality(Before(R, S, b)) => a = b
               /\ Cardinality(Before(R, S, a)) < Cardinality(Before(R, S, b)) => <<a, b>> \in R
      BY <1>3, <1>4, RanksSort
    <2> HIDE DEF above
    <2> QED
      BY <2>1, <2>2
  <1> HIDE DEF S, sorted, above, N, at
  <1>70. ASSUME NEW r \in 1..N PROVE sorted[r] \in S /\ above(sorted[r]) = r - 1
    <2>1. \E k \in S : above(k) = r - 1
      BY <1>7
    <2>2. at(r) \in S /\ above(at(r)) = r - 1
      BY <2>1 DEF at
    <2> QED
      BY <1>60, <2>2
  <1>8. sorted \in Seq(S) /\ Len(sorted) = N /\ DOMAIN sorted = 1..N /\ N \in Nat
    BY <1>4, <1>60, <1>70 DEF N
  <1>9. ToSet(sorted) = S
    <2>1. ASSUME NEW k \in S PROVE \E r \in 1..N : sorted[r] = k
      <3>1. PICK r \in 1..N : r = above(k) + 1 /\ above(k) \in Nat
        BY <1>7
      <3>2. sorted[r] \in S /\ above(sorted[r]) = r - 1 /\ r - 1 = above(k)
        BY <1>70, <3>1
      <3>3. above(sorted[r]) = above(k)
        BY <3>2
      <3>4. \A a, b \in S : above(a) = above(b) => a = b
        BY <1>7
      <3> QED
        BY <3>2, <3>3, <3>4
    <2> QED
      BY <1>70, <1>8, <2>1 DEF ToSet
  <1>10. ASSUME NEW r \in DOMAIN sorted, NEW t \in DOMAIN sorted, r < t
         PROVE  Above(agg, sorted[r], sorted[t])
    <2>1. /\ sorted[r] \in S /\ above(sorted[r]) = r - 1 /\ sorted[t] \in S /\ above(sorted[t]) = t - 1
          /\ r \in Nat /\ t \in Nat
      BY <1>8, <1>70
    <2>2. above(sorted[r]) < above(sorted[t])
      BY <1>10, <2>1
    <2>3. <<sorted[r], sorted[t]>> \in R
      BY ONLY <1>7, <2>1, <2>2
    <2> QED
      BY <1>1, <2>1, <2>3
  <1>11. Once(sorted)
    <2>1. ASSUME NEW r \in DOMAIN sorted, NEW t \in DOMAIN sorted, sorted[r] = sorted[t] PROVE r = t
      <3>1. r - 1 = t - 1 /\ r \in Nat /\ t \in Nat
        BY <1>8, <1>70, <2>1
      <3> QED
        BY <3>1
    <2> QED
      BY <2>1 DEF Once
  <1>12. \A k : above(k) = Rank(agg, k)
    BY DEF above, S, Rank
  <1>13. \A r \in DOMAIN sorted : Rank(agg, sorted[r]) = r - 1
    BY <1>8, <1>12, <1>70
  <1>14. \A k, l \in S : Rank(agg, k) = Rank(agg, l) => k = l
    BY <1>7, <1>12
  <1> QED
    BY <1>8, <1>9, <1>10, <1>11, <1>13, <1>14 DEF Sorted, S, sorted, N

-------------------------------------------------------------------------------
(* The fusion as a whole.                                                   *)

OnePerEngine(lists) ==
  \A m, n \in DOMAIN lists : lists[m].engine = lists[n].engine => m = n

\* The appearances in a set of lists, and those of one page.
AppearancesIn(L) ==
  UNION { {[engine |-> l.engine, position |-> p, hit |-> l.hits[p]] : p \in DOMAIN l.hits} :
          l \in L }
Showing(L, key) == {a \in AppearancesIn(L) : PageOf(a) = key}

\* The appearances are those in the lists, each once, in order.
LEMMA AppearancesOnce ==
  ASSUME NEW E, NEW lists \in Seq(Lists(E)), OnePerEngine(lists)
  PROVE  /\ Appearances(lists) \in Seq(Appearance(E)) /\ Once(Appearances(lists))
         /\ ToSet(Appearances(lists)) = AppearancesIn(ToSet(lists))
         /\ \A key : Of(Appearances(lists), key) = Showing(ToSet(lists), key)
         /\ \A i, j \in DOMAIN Appearances(lists) :
              i < j => AppearsBefore(lists, Appearances(lists)[i], Appearances(lists)[j])
  <1> DEFINE s == Appearances(lists)
  <1>1. Listed(E, lists, Len(lists), s) /\ DOMAIN lists = 1..Len(lists)
    BY AppearancesListed
  <1> HIDE DEF s
  <1>2. \A p : \A n \in DOMAIN lists : At(lists, n, p) =
          [engine |-> lists[n].engine, position |-> p, hit |-> lists[n].hits[p]]
    BY DEF At
  <1>3. ToSet(s) = AppearancesIn(ToSet(lists))
    <2>1. ToSet(s) = UNION { {At(lists, n, p) : p \in DOMAIN lists[n].hits} : n \in DOMAIN lists }
      BY <1>1 DEF Listed
    <2>2. AppearancesIn(ToSet(lists))
            = UNION { {At(lists, n, p) : p \in DOMAIN lists[n].hits} : n \in DOMAIN lists }
      BY DEF AppearancesIn, ToSet, At
    <2> QED
      BY <2>1, <2>2
  <1>4. \A a, b : AppearsBefore(lists, a, b) => a # b
    <2>1. ASSUME NEW m \in DOMAIN lists, NEW n \in DOMAIN lists, NEW p, NEW q,
                 At(lists, m, p) = At(lists, n, q)
          PROVE  m = n /\ p = q
      BY <2>1, <1>2 DEF OnePerEngine
    <2>2. ASSUME NEW a, NEW b, AppearsBefore(lists, a, b), a = b PROVE FALSE
      <3>1. PICK m \in DOMAIN lists, n \in DOMAIN lists :
              \E p \in DOMAIN lists[m].hits, q \in DOMAIN lists[n].hits :
                /\ a = At(lists, m, p) /\ b = At(lists, n, q)
                /\ m < n \/ (m = n /\ p < q)
        BY <2>2 DEF AppearsBefore
      <3>2. PICK p \in DOMAIN lists[m].hits, q \in DOMAIN lists[n].hits :
                /\ a = At(lists, m, p) /\ b = At(lists, n, q)
                /\ m < n \/ (m = n /\ p < q)
        BY <3>1
      <3>3. m = n /\ p = q
        <4>1. At(lists, m, p) = At(lists, n, q)
          BY <2>2, <3>2
        <4> QED
          BY <2>1, <4>1
      <3>4. m \in Int /\ p \in Int
        <4>1. lists[m].hits \in Seq(Hit)
          <5>1. lists[m] \in Lists(E)
            OBVIOUS
          <5> QED
            BY <5>1 DEF Lists
        <4> QED
          BY <4>1
      <3> QED
        BY <3>2, <3>3, <3>4
    <2> QED
      BY <2>2
  <1>5. Once(s)
    <2>1. s \in Seq(Appearance(E)) /\ \A i, j \in DOMAIN s : i < j => s[i] # s[j]
      BY <1>1, <1>4 DEF Listed
    <2>2. \A i, j \in DOMAIN s : i # j => i < j \/ j < i
      BY <2>1
    <2> QED
      BY <2>1, <2>2 DEF Once
  <1>6. \A key : Of(s, key) = Showing(ToSet(lists), key)
    BY <1>3 DEF Of, Showing
  <1> QED
    BY <1>1, <1>3, <1>5, <1>6 DEF Listed, s

\* What the fusion of the lists shows, of whatever lists.
Exact(lists, L, agg, sorted, fused) ==
  /\ Sorted(agg, sorted)
  /\ DOMAIN agg = {PageOf(a) : a \in AppearancesIn(L)} /\ DOMAIN agg \subseteq PageKey
  /\ \A k \in DOMAIN agg :
       /\ Tallied(agg[k], Showing(L, k)) /\ Longest(agg[k], Showing(L, k))
       /\ FirstBest(agg[k], Appearances(lists), k) /\ NormalizeUrl(agg[k].url) = k
  /\ fused \in Seq([url : {agg[k].url : k \in DOMAIN agg}, title : {agg[k].title : k \in DOMAIN agg},
                    snippet : {agg[k].snippet : k \in DOMAIN agg},
                    score : {agg[k].score : k \in DOMAIN agg},
                    breakdown : {agg[k].breakdown : k \in DOMAIN agg}])
  /\ DOMAIN fused = DOMAIN sorted
  /\ \A r \in DOMAIN sorted :
       /\ NormalizeUrl(fused[r].url) = sorted[r]
       /\ fused[r].url = agg[sorted[r]].url
       /\ fused[r].title = agg[sorted[r]].title /\ fused[r].snippet = agg[sorted[r]].snippet
       /\ fused[r].score = agg[sorted[r]].score /\ fused[r].breakdown = agg[sorted[r]].breakdown

\* Reciprocal rank fusion is exact: every page of the lists once, with the sum
\* of its contributions, explained engine by engine, in order.
THEOREM FusionIsExact ==
  ASSUME NEW E, NEW lists \in Seq(Lists(E)), OnePerEngine(lists)
  PROVE  Exact(lists, ToSet(lists), Aggregate(lists), Ordered(Aggregate(lists)), Fuse(lists))
  <1> DEFINE s == Appearances(lists)
             L == ToSet(lists)
             agg == Aggregate(lists)
             sorted == Ordered(agg)
             fused == Fuse(lists)
  <1>1. /\ s \in Seq(Appearance(E)) /\ Once(s) /\ ToSet(s) = AppearancesIn(L)
        /\ \A key : Of(s, key) = Showing(L, key)
    BY AppearancesOnce
  <1>2. agg = CollateAll(s)
    BY DEF Aggregate, CollateAll
  <1>3. fused = [r \in DOMAIN sorted |->
                   [ url |-> agg[sorted[r]].url,
                     title |-> agg[sorted[r]].title, snippet |-> agg[sorted[r]].snippet,
                     score |-> agg[sorted[r]].score, breakdown |-> agg[sorted[r]].breakdown ]]
    BY DEF Fuse
  <1> HIDE DEF s, L, agg, fused
  <1>4. Collated(s, agg)
    BY <1>1, <1>2, AggregationIsExact
  <1>5. ToSet(s) \subseteq Appearance(E) /\ IsFiniteSet(ToSet(s))
    <2>1. s \in Seq(Appearance(E)) /\ DOMAIN s = 1..Len(s) /\ Len(s) \in Nat
      BY <1>1
    <2>2. IsFiniteSet(DOMAIN s)
      BY <2>1, FS_Interval
    <2>3. s \in [DOMAIN s -> ToSet(s)] /\ \A x \in ToSet(s) : \E i \in DOMAIN s : s[i] = x
      BY <2>1 DEF ToSet
    <2>4. s \in Surjection(DOMAIN s, ToSet(s))
      BY <2>3 DEF Surjection
    <2>5. ToSet(s) \subseteq Appearance(E)
      BY <2>1 DEF ToSet
    <2> QED
      BY <2>2, <2>4, <2>5, FS_Surjection
  <1>6. IsFiniteSet(DOMAIN agg) /\ DOMAIN agg \subseteq PageKey
    <2> DEFINE page == [a \in ToSet(s) |-> PageOf(a)]
    <2>1. page \in Surjection(ToSet(s), DOMAIN agg)
      BY <1>4 DEF Surjection, Collated
    <2>2. \A a \in Appearance(E) : PageOf(a) \in PageKey
      BY NormalizeType DEF Appearance, Hit, PageOf
    <2> QED
      BY <1>4, <1>5, <2>1, <2>2, FS_Surjection DEF Collated
  <1>7. ASSUME NEW k \in DOMAIN agg
        PROVE  /\ Tallied(agg[k], Showing(L, k)) /\ Longest(agg[k], Showing(L, k))
               /\ FirstBest(agg[k], s, k) /\ NormalizeUrl(agg[k].url) = k
               /\ agg[k].score \in Nat /\ Consensus(agg[k]) \in Nat
    <2>1. Tallied(agg[k], Of(s, k)) /\ FirstBest(agg[k], s, k) /\ Longest(agg[k], Of(s, k))
      BY <1>4, <1>7 DEF Collated
    <2>2. NormalizeUrl(agg[k].url) = k
      BY <2>1 DEF FirstBest, PageOf
    <2>3. agg[k].score \in Nat /\ DOMAIN agg[k].breakdown = {a.engine : a \in Of(s, k)}
      BY <2>1 DEF Tallied
    <2>4. Consensus(agg[k]) \in Nat
      <3> DEFINE eng == [a \in Of(s, k) |-> a.engine]
      <3>1. eng \in Surjection(Of(s, k), {a.engine : a \in Of(s, k)})
        BY DEF Surjection
      <3>2. IsFiniteSet(Of(s, k))
        <4>1. Of(s, k) \in SUBSET ToSet(s)
          BY DEF Of
        <4> QED
          BY <1>5, <4>1, FS_Subset
      <3>3. IsFiniteSet(DOMAIN agg[k].breakdown)
        BY <2>3, <3>1, <3>2, FS_Surjection
      <3> QED
        BY <3>3, FS_CardinalityType DEF Consensus
    <2> QED
      BY <1>1, <2>1, <2>2, <2>3, <2>4
  <1>8. Sorted(agg, sorted)
    BY <1>6, <1>7, OrderedSorts DEF Sortable
  <1> HIDE DEF sorted
  <1>9. sorted \in Seq(DOMAIN agg) /\ \A r \in DOMAIN sorted : sorted[r] \in DOMAIN agg
    BY <1>8 DEF Sorted
  <1> DEFINE T == [url : {agg[k].url : k \in DOMAIN agg}, title : {agg[k].title : k \in DOMAIN agg},
                   snippet : {agg[k].snippet : k \in DOMAIN agg},
                   score : {agg[k].score : k \in DOMAIN agg},
                   breakdown : {agg[k].breakdown : k \in DOMAIN agg}]
  <1>10. fused \in Seq(T)
    <2>1. \A r \in DOMAIN sorted : fused[r] \in T
      BY <1>3, <1>9
    <2>2. DOMAIN sorted = 1..Len(sorted) /\ Len(sorted) \in Nat
      BY <1>9
    <2>3. fused = [r \in 1..Len(sorted) |-> fused[r]]
      BY <1>3, <2>2
    <2> HIDE DEF T
    <2> QED
      BY <2>1, <2>2, <2>3
  <1>11. /\ DOMAIN fused = DOMAIN sorted
         /\ \A r \in DOMAIN sorted :
              /\ NormalizeUrl(fused[r].url) = sorted[r]
              /\ fused[r].url = agg[sorted[r]].url
              /\ fused[r].title = agg[sorted[r]].title /\ fused[r].snippet = agg[sorted[r]].snippet
              /\ fused[r].score = agg[sorted[r]].score
              /\ fused[r].breakdown = agg[sorted[r]].breakdown
    BY <1>3, <1>7, <1>9
  <1>12. DOMAIN agg = {PageOf(a) : a \in AppearancesIn(L)}
    BY <1>1, <1>4 DEF Collated
  <1>13. \A k \in DOMAIN agg :
           /\ Tallied(agg[k], Showing(L, k)) /\ Longest(agg[k], Showing(L, k))
           /\ FirstBest(agg[k], Appearances(lists), k) /\ NormalizeUrl(agg[k].url) = k
    BY <1>7 DEF s
  <1>14. Exact(lists, L, agg, sorted, fused)
    BY <1>6, <1>8, <1>10, <1>11, <1>12, <1>13 DEF Exact
  <1> QED
    BY <1>14 DEF L, agg, sorted, fused

-------------------------------------------------------------------------------
(* Selecting the engines and reading their answers.                         *)

LEMMA RegistryType ==
  /\ Registry \in Seq(ToSet(Registry))
  /\ "duckduckgo" \in ToSet(Registry) /\ "treg" \in ToSet(Registry)
  <1>1. Registry = [i \in 1..12 |-> Registry[i]]
    BY DEF Registry
  <1>2. /\ 2 \in DOMAIN Registry /\ Registry[2] = "duckduckgo"
        /\ 11 \in DOMAIN Registry /\ Registry[11] = "treg"
    BY DEF Registry
  <1> HIDE DEF Registry
  <1>3. \A i \in 1..12 : Registry[i] \in ToSet(Registry)
    <2>1. DOMAIN Registry = 1..12
      BY <1>1
    <2> QED
      BY <2>1 DEF ToSet
  <1>4. Registry \in Seq(ToSet(Registry))
    BY <1>1, <1>3
  <1> QED
    BY <1>2, <1>4 DEF ToSet

\* Only engines of the registry are asked.
LEMMA SelectType ==
  ASSUME requested \in Seq(ToSet(requested))
  PROVE  SelectEngines \in Seq(ToSet(Registry))
  <1> DEFINE E == ToSet(Registry)
  <1>1. ASSUME NEW S, NEW names \in Seq(S) PROVE Instances(names) \in Seq(E)
    <2> DEFINE f == [name \in {n \in ToSet(names) : Known(n)} |-> ResolveAlias(name)]
    <2>1. \A name \in DOMAIN f : f[name] \in E
      BY DEF Known
    <2> HIDE DEF f, E
    <2>2. Comprehend(f, names) \in Seq(E)
      BY <2>1, ComprehendKeeps DEF KeepsPassing
    <2> QED
      BY <2>2 DEF Instances, f
  <1>2. Instances(Keyless) \in Seq(E)
    <2>1. \A S : \A x \in S : <<x>> \in Seq(S)
      OBVIOUS
    <2>2. Keyless \in Seq({"duckduckgo"})
      BY <2>1 DEF Keyless
    <2> QED
      BY <1>1, <2>2
  <1>3. Instances(Registry) \in Seq(E)
    BY <1>1, RegistryType
  <1>4. Comprehend([e \in {n \in ToSet(Registry) : Available(n)} |-> e],
                   Instances(Registry)) \in Seq(E)
    <2> DEFINE f == [e \in {n \in ToSet(Registry) : Available(n)} |-> e]
    <2>1. \A e \in DOMAIN f : f[e] \in E
      OBVIOUS
    <2> HIDE DEF f, E
    <2>2. Comprehend(f, Instances(Registry)) \in Seq(E)
      BY <1>3, <2>1, ComprehendKeeps DEF KeepsPassing
    <2> QED
      BY <2>2 DEF f
  <1> HIDE DEF E
  <1> QED
    BY <1>1, <1>2, <1>4 DEF SelectEngines, E

\* A list cut to count is a beginning of it.
LEMMA UpToType ==
  ASSUME NEW S, NEW s \in Seq(S), NEW n \in Nat
  PROVE  /\ UpTo(n, s) \in Seq(S)
         /\ DOMAIN UpTo(n, s) = {r \in DOMAIN s : r <= n}
         /\ Len(UpTo(n, s)) = IF n < Len(s) THEN n ELSE Len(s)
         /\ \A r \in DOMAIN UpTo(n, s) : UpTo(n, s)[r] = s[r]
  <1> DEFINE m == IF n < Len(s) THEN n ELSE Len(s)
  <1>1. m \in Nat /\ m <= Len(s) /\ DOMAIN s = 1..Len(s)
    OBVIOUS
  <1>2. SubSeq(s, 1, m) \in Seq(S) /\ Len(SubSeq(s, 1, m)) = m
    BY <1>1
  <1>3. \A r \in 1..m : SubSeq(s, 1, m)[r] = s[r]
    BY <1>1
  <1>4. DOMAIN SubSeq(s, 1, m) = 1..m
    BY <1>2
  <1>5. 1..m = {r \in DOMAIN s : r <= n}
    BY <1>1
  <1> QED
    BY <1>2, <1>3, <1>4, <1>5 DEF UpTo

\* Rows are read as hits, one for each usable row among those considered.
LEMMA RowsType ==
  ASSUME NEW engine, NEW rows \in Seq(JsonRow), NEW n \in Nat
  PROVE  ReadRows(engine, rows, n) \in Seq(Hit)
  <1> DEFINE considered == IF engine \in Cutting THEN UpTo(n, rows) ELSE rows
             usable == {row \in ToSet(considered) : Usable(engine, row)}
             f == [row \in usable |-> HitOf(engine, row)]
  <1>1. considered \in Seq(JsonRow)
    BY UpToType
  <1> HIDE DEF considered
  <1>2. ToSet(considered) \subseteq JsonRow
    BY <1>1 DEF ToSet
  <1>3. \A row \in usable : HitOf(engine, row) \in Hit
    BY <1>2 DEF Usable, HitOf, JsonRow, Hit
  <1>4. \A row \in DOMAIN f : f[row] \in Hit
    BY <1>3
  <1> HIDE DEF f
  <1>5. Comprehend(f, considered) \in Seq(Hit)
    BY <1>1, <1>4, ComprehendKeeps DEF KeepsPassing
  <1> QED
    BY <1>5 DEF f, considered, ReadRows

Parser == [ results : Seq(Hit), inTitle : BOOLEAN, inSnippet : BOOLEAN, href : Href,
            title : Nat, snippet : Nat, raised : BOOLEAN ]

LEMMA FeedType ==
  ASSUME NEW p \in Parser, NEW token \in PageToken
  PROVE  Feed(p, token) \in Parser
  <1>0. /\ p.results \in Seq(Hit) /\ p.href \in Href /\ token.href \in Href
        /\ p.title \in Nat /\ p.snippet \in Nat /\ token.text \in Nat
        /\ p.inTitle \in BOOLEAN /\ p.inSnippet \in BOOLEAN /\ p.raised \in BOOLEAN
        /\ token.kind \in {"title", "snippet", "data", "end"}
    BY DEF Parser, PageToken
  <1>1. NoHref \in Href
    BY DEF NoHref, Href
  <1>2. CASE p.raised
    BY <1>2 DEF Feed
  <1>3. CASE ~ p.raised /\ token.kind = "title"
    <2>1. Feed(p, token) = [p EXCEPT !.inTitle = TRUE, !.href = token.href, !.title = 0]
      BY <1>3 DEF Feed
    <2>2. [p EXCEPT !.inTitle = TRUE] \in Parser
      BY DEF Parser
    <2>3. [[p EXCEPT !.inTitle = TRUE] EXCEPT !.href = token.href] \in Parser
      BY <1>0, <2>2 DEF Parser
    <2>4. [[[p EXCEPT !.inTitle = TRUE] EXCEPT !.href = token.href]
             EXCEPT !.title = 0] \in Parser
      BY <2>3 DEF Parser
    <2> QED
      BY <2>1, <2>4
  <1>4. CASE ~ p.raised /\ token.kind = "snippet"
    <2>1. Feed(p, token) = [p EXCEPT !.inSnippet = TRUE, !.snippet = 0]
      BY <1>4 DEF Feed
    <2>2. [p EXCEPT !.inSnippet = TRUE] \in Parser
      BY DEF Parser
    <2>3. [[p EXCEPT !.inSnippet = TRUE] EXCEPT !.snippet = 0] \in Parser
      BY <2>2 DEF Parser
    <2> QED
      BY <2>1, <2>3
  <1>5. CASE ~ p.raised /\ token.kind = "data"
    <2>1. Feed(p, token) = IF p.inTitle THEN [p EXCEPT !.title = @ + token.text]
                           ELSE IF p.inSnippet THEN [p EXCEPT !.snippet = @ + token.text]
                           ELSE p
      BY <1>5 DEF Feed
    <2> QED
      BY <1>0, <2>1 DEF Parser
  <1>6. CASE ~ p.raised /\ token.kind = "end"
    <2>1. Feed(p, token) = IF p.inTitle THEN EndTitle(p)
                           ELSE IF p.inSnippet THEN EndSnippet(p) ELSE p
      BY <1>6 DEF Feed
    <2>2. EndTitle(p) \in Parser
      <3> DEFINE closed == [p EXCEPT !.inTitle = FALSE, !.href = NoHref]
                 found  == [url |-> UnwrapDdg(p.href), title |-> p.title, snippet |-> 0]
      <3>1. closed \in Parser /\ closed.results = p.results
        BY <1>0, <1>1 DEF Parser
      <3>2. [closed EXCEPT !.raised = TRUE] \in Parser
        BY <3>1 DEF Parser
      <3>3. ASSUME p.href.form # "broken", found.url # NoUrl
            PROVE  [closed EXCEPT !.results = Append(@, found)] \in Parser
        <4>1. UnwrapDdg(p.href) \in Url
          <5>1. CASE p.href \in [form : {"plain", "relative", "redirect"}, url : Url]
            <6>1. p.href.url \in Url /\ p.href.form \in {"plain", "relative", "redirect"}
              BY <5>1
            <6>2. [p.href.url EXCEPT !.scheme = Https] \in Url
              BY <6>1 DEF Url, Https
            <6>3. [p.href.url EXCEPT !.path = Unquote[@]] \in Url
              BY <6>1, EnginesAssumption DEF Url
            <6> QED
              BY <6>1, <6>2, <6>3 DEF UnwrapDdg
          <5>2. CASE p.href \in [form : {"none", "no target", "broken"}, url : {NoUrl}]
            <6>1. UnwrapDdg(p.href) = NoUrl
              BY <3>3, <5>2 DEF UnwrapDdg
            <6> QED
              BY <3>3, <6>1
          <5> QED
            BY <1>0, <5>1, <5>2 DEF Href
        <4>2. found \in Hit
          BY <1>0, <4>1 DEF Hit
        <4> HIDE DEF found
        <4>3. Append(p.results, found) \in Seq(Hit)
          BY <1>0, <4>2
        <4> HIDE DEF closed
        <4> QED
          BY <3>1, <4>3 DEF Parser
      <3> QED
        BY <3>1, <3>2, <3>3 DEF EndTitle
    <2>3. EndSnippet(p) \in Parser
      <3> DEFINE closed == [p EXCEPT !.inSnippet = FALSE]
                 n == Len(p.results)
      <3>1. closed \in Parser /\ closed.results = p.results
        BY <1>0 DEF Parser
      <3>2. ASSUME n > 0
            PROVE  [closed EXCEPT !.results[n].snippet = p.snippet] \in Parser
        <4>1. n \in DOMAIN p.results /\ p.results[n] \in Hit
          BY <1>0, <3>2
        <4>2. [p.results[n] EXCEPT !.snippet = p.snippet] \in Hit
          BY <1>0, <4>1 DEF Hit
        <4>3. [p.results EXCEPT ![n] = [p.results[n] EXCEPT !.snippet = p.snippet]] \in Seq(Hit)
          BY <1>0, <4>1, <4>2
        <4> HIDE DEF closed, n
        <4>4. [closed EXCEPT !.results[n].snippet = p.snippet]
                = [closed EXCEPT !.results =
                     [p.results EXCEPT ![n] = [p.results[n] EXCEPT !.snippet = p.snippet]]]
          BY <3>1 DEF Parser
        <4> QED
          BY <3>1, <4>3, <4>4 DEF Parser
      <3> QED
        BY <3>1, <3>2 DEF EndSnippet
    <2> QED
      BY <2>1, <2>2, <2>3
  <1> QED
    BY <1>0, <1>2, <1>3, <1>4, <1>5, <1>6

LEMMA PageType ==
  ASSUME NEW tokens \in Seq(PageToken), NEW n \in Nat
  PROVE  ReadPage(tokens, n) \in Seq(Hit)
  <1> DEFINE parsed(s) == FoldLeft(Feed, FreshParser, s)
             Q == {s \in Seq(PageToken) : parsed(s) \in Parser}
  <1>1. \A T : Max(T) = Parsers!Max(T)
    BY DEF Max, Parsers!Max
  <1>2. \A s : parsed(s) = Parsers!Fold(<<>>, FreshParser, s)
    BY <1>1 DEF FoldLeft, MapThenFoldSet, Parsers!Fold,
                Parsers!FoldLeft, Parsers!MapThenFoldSet
  <1> HIDE DEF parsed
  <1>3. FreshParser \in Parser
    BY DEF FreshParser, Parser, NoHref, Href
  <1>4. <<>> \in Q
    BY <1>2, <1>3, Parsers!FoldEmpty
  <1>5. ASSUME NEW s \in Seq(PageToken), s \in Q, NEW token \in PageToken
        PROVE  Append(s, token) \in Q
    <2>1. parsed(Append(s, token)) = Feed(parsed(s), token)
      BY <1>2, Parsers!FoldAppend
    <2> QED
      BY <1>5, <2>1, FeedType
  <1>6. tokens \in Q
    <2> HIDE DEF Q
    <2> QED
      BY <1>4, <1>5, Parsers!SeqSetInduction
  <1>7. parsed(tokens).results \in Seq(Hit)
    BY <1>6 DEF Parser
  <1>8. UpTo(n, parsed(tokens).results) \in Seq(Hit)
    BY <1>7, UpToType
  <1> QED
    BY <1>8 DEF ReadPage, parsed

\* What an engine makes of an answer of its service: hits, or it fails.
LEMMA ReadType ==
  ASSUME NEW engine, NEW response \in ServiceResponse, NEW n \in Nat,
         response.kind = "page" <=> engine = "duckduckgo"
  PROVE  Read(engine, response, n) \in Seq(Hit) \cup {Failed}
  <1>1. CASE engine = "duckduckgo"
    <2>1. response.tokens \in Seq(PageToken)
      BY <1>1 DEF ServiceResponse
    <2> QED
      BY <1>1, <2>1, PageType DEF Read
  <1>2. CASE engine # "duckduckgo"
    <2>1. response.rows \in Seq(JsonRow) /\ response.kind \in {"rows", "absent", "object"}
      BY <1>2 DEF ServiceResponse
    <2>2. ReadRows(engine, response.rows, n) \in Seq(Hit)
      BY <2>1, RowsType
    <2>3. <<>> \in Seq(Hit)
      OBVIOUS
    <2>4. ReadResponse(engine, response, n) \in Seq(Hit) \cup {Failed}
      BY <2>1, <2>2, <2>3 DEF ReadResponse
    <2> QED
      BY <1>2, <2>4 DEF Read
  <1> QED
    BY <1>1, <1>2

-------------------------------------------------------------------------------
(* The inductive invariant.                                                 *)

LEMMA Same ==
  ASSUME UNCHANGED <<question, engines, outcomes>>
  PROVE  /\ Unsettled' = Unsettled /\ PerEngine' = PerEngine
         /\ SearchResults' = SearchResults
  BY DEF question, Unsettled, Gathered, PerEngine, SearchResults

LEMMA QuestionType ==
  ASSUME TypeOK
  PROVE  /\ requested \in Seq(ToSet(requested)) /\ count \in Nat
         /\ \A engine \in ToSet(Registry) : \A response \in Offers[requested][engine] :
              /\ response \in ServiceResponse /\ response # None
              /\ Read(engine, response, count) \in Seq(Hit) \cup {Failed}
  <1>1. PICK q \in Questions : q.engines = requested /\ q.count = count
    BY DEF TypeOK
  <1>2. count \in Nat /\ requested \in DOMAIN Offers
    BY <1>1, SearchAssumption
  <1>3. requested \in Seq(ToSet(requested))
    BY <1>2, SearchAssumption
  <1>4. ASSUME NEW engine \in ToSet(Registry), NEW response \in Offers[requested][engine]
        PROVE  /\ response \in ServiceResponse /\ response # None
               /\ Read(engine, response, count) \in Seq(Hit) \cup {Failed}
    <2>1. /\ response \in ServiceResponse
          /\ response.kind = "page" <=> engine = "duckduckgo"
      BY <1>2, <1>4, SearchAssumption
    <2> QED
      BY <1>2, <2>1, ReadType, SearchAssumption
  <1> QED
    BY <1>2, <1>3, <1>4

LEMMA InitInv == Init => IInv
  <1> SUFFICES ASSUME Init PROVE IInv
    OBVIOUS
  <1>1. PICK q \in Questions : requested = q.engines /\ count = q.count /\ keys = q.keys
    BY DEF Init
  <1>2. /\ engines = <<>> /\ responses = <<>> /\ outcomes = <<>> /\ settled = <<>>
        /\ pc = "select" /\ DOMAIN <<>> = {}
    BY DEF Init
  <1>3. [engines |-> requested, count |-> count, keys |-> keys] \in Questions
    BY <1>1, SearchAssumption
  <1>4. /\ engines \in Seq(ToSet(Registry)) /\ settled \in Seq(DOMAIN engines)
        /\ responses \in [DOMAIN engines -> ServiceResponse \cup {None}]
        /\ outcomes \in [DOMAIN engines -> Seq(Hit) \cup {Pending, Failed}]
    BY <1>2
  <1>5. ToSet(settled) = {}
    BY <1>2 DEF ToSet
  <1> QED
    BY <1>2, <1>3, <1>4, <1>5 DEF IInv, TypeOK

\* An engine settles: as failed, or with what it makes of an answer.
LEMMA SettleInv ==
  ASSUME IInv, NEW i, NEW outcome, NEW response, Settle(i, outcome),
         \/ response = None /\ outcome = Failed
         \/ response \in Offers[requested][engines[i]] /\ outcome = Read(engines[i], response, count),
         responses' = IF response = None THEN responses
                      ELSE [responses EXCEPT ![i] = response]
  PROVE  IInv'
  <1> DEFINE D == DOMAIN engines
  <1>1. /\ i \in D /\ DOMAIN outcomes = D /\ DOMAIN responses = D /\ outcomes[i] = Pending
        /\ engines[i] \in ToSet(Registry)
    <2>1. /\ engines \in Seq(ToSet(Registry))
          /\ responses \in [D -> ServiceResponse \cup {None}]
          /\ outcomes \in [D -> Seq(Hit) \cup {Pending, Failed}]
      BY DEF IInv, TypeOK
    <2>2. i \in DOMAIN outcomes /\ outcomes[i] = Pending
      BY DEF Settle, Unsettled
    <2> QED
      BY <2>1, <2>2
  <1>2. /\ outcome \in Seq(Hit) \cup {Failed} /\ response \in ServiceResponse \cup {None}
        /\ outcome # Pending
    BY <1>1, QuestionType, SearchAssumption DEF IInv
  <1>3. /\ UNCHANGED <<question, pc, engines, result>>
        /\ outcomes' = [outcomes EXCEPT ![i] = outcome]
        /\ settled' = Append(settled, i) /\ pc = "gather"
    BY DEF Settle
  <1>4. responses[i] = None
    BY <1>1, QuestionType, SearchAssumption DEF IInv
  <1>5. TypeOK'
    <2>1. outcomes' \in [D -> Seq(Hit) \cup {Pending, Failed}]
      BY <1>1, <1>2, <1>3 DEF IInv, TypeOK
    <2>2. responses' \in [D -> ServiceResponse \cup {None}]
      BY <1>1, <1>2 DEF IInv, TypeOK
    <2>3. settled' \in Seq(D)
      BY <1>1, <1>3 DEF IInv, TypeOK
    <2> QED
      BY <1>3, <2>1, <2>2, <2>3 DEF IInv, TypeOK, question
  <1>6. ToSet(settled') = {j \in D : outcomes'[j] # Pending}
    <2>1. settled \in Seq(D) /\ ToSet(settled) = {j \in D : outcomes[j] # Pending}
      BY <1>1 DEF IInv, TypeOK
    <2>2. ToSet(Append(settled, i)) = ToSet(settled) \cup {i}
      BY <1>1, <2>1, ToSetAppend
    <2> QED
      BY <1>1, <1>2, <1>3, <2>1, <2>2
  <1>7. ASSUME NEW j \in D
        PROVE  IF responses'[j] = None THEN outcomes'[j] \in {Pending, Failed}
               ELSE /\ responses'[j] \in Offers[requested][engines[j]]
                    /\ outcomes'[j] = Read(engines[j], responses'[j], count)
    <2>1. CASE j # i
      <3>1. responses'[j] = responses[j] /\ outcomes'[j] = outcomes[j]
        BY <1>1, <1>3, <2>1
      <3> QED
        BY <1>1, <3>1 DEF IInv
    <2>2. CASE j = i
      <3>1. outcomes'[i] = outcome /\ responses'[i] = response
        BY <1>1, <1>3, <1>4
      <3>2. response = None => outcome = Failed
        BY <1>1, QuestionType DEF IInv
      <3>3. response # None => response \in Offers[requested][engines[i]]
                               /\ outcome = Read(engines[i], response, count)
        OBVIOUS
      <3> QED
        BY <2>2, <3>1, <3>2, <3>3
    <2> QED
      BY <2>1, <2>2
  <1>8. DOMAIN outcomes' = D
    BY <1>1, <1>3
  <1> QED
    BY <1>3, <1>5, <1>6, <1>7, <1>8 DEF IInv, question

LEMMA StepInv == IInv /\ [Next]_vars => IInv'
  <1> SUFFICES ASSUME IInv, [Next]_vars PROVE IInv'
    OBVIOUS
  <1>1. CASE Select
    <2> DEFINE E == SelectEngines
    <2>1. E \in Seq(ToSet(Registry))
      BY QuestionType, SelectType DEF IInv
    <2>2. settled = <<>>
      <3>1. DOMAIN engines = {} /\ settled \in Seq(DOMAIN engines)
        BY <1>1 DEF Select, IInv, TypeOK
      <3> QED
        BY <3>1
    <2> HIDE DEF E
    <2>3. /\ UNCHANGED <<question, settled, result>> /\ pc' = "gather" /\ engines' = E
          /\ responses' = [i \in DOMAIN E |-> None]
          /\ outcomes' = [i \in DOMAIN E |-> Pending]
      BY <1>1 DEF Select, E
    <2>4. TypeOK'
      BY <2>1, <2>2, <2>3 DEF IInv, TypeOK, question
    <2>5. ToSet(settled') = {i \in DOMAIN outcomes' : outcomes'[i] # Pending}
      BY <2>2, <2>3 DEF ToSet
    <2> QED
      BY <2>3, <2>4, <2>5 DEF IInv, question
  <1>2. ASSUME NEW i \in Unsettled, EngineFails(i) PROVE IInv'
    BY <1>2, SettleInv DEF EngineFails
  <1>3. ASSUME NEW i \in Unsettled, NEW response \in Offers[requested][engines[i]],
               Answer(i, response)
        PROVE  IInv'
    <2>1. engines[i] \in ToSet(Registry)
      BY <1>3 DEF Unsettled, IInv, TypeOK
    <2>2. response # None
      BY <1>3, <2>1, QuestionType DEF IInv
    <2> QED
      BY <1>3, <2>2, SettleInv DEF Answer
  <1>4. ASSUME UNCHANGED <<question, engines, responses, outcomes, settled>>,
               pc' \in {"select", "gather", "returned", "raised", "cancelled"},
               pc' = "select" => engines = <<>>,
               pc' \in {"returned", "raised"} => Unsettled = {},
               pc' = "returned" =>
                 PerEngine # <<>> /\ CanFuse(PerEngine) /\ result' = SearchResults,
               pc' = "raised" => PerEngine = <<>> \/ ~ CanFuse(PerEngine)
        PROVE  IInv'
    <2>1. Unsettled' = Unsettled /\ PerEngine' = PerEngine /\ SearchResults' = SearchResults
      BY <1>4, Same
    <2>2. TypeOK'
      BY <1>4 DEF IInv, TypeOK, question
    <2> QED
      BY <1>4, <2>1, <2>2 DEF IInv, question
  <1>5. CASE Return
    BY <1>4, <1>5 DEF Return, AllSettled
  <1>6. CASE AllEnginesFailed
    BY <1>4, <1>6 DEF AllEnginesFailed, AllSettled
  <1>7. CASE FusionFails
    BY <1>4, <1>7 DEF FusionFails, AllSettled
  <1>8. CASE Cancel
    BY <1>4, <1>8 DEF Cancel
  <1>9. CASE UNCHANGED vars
    BY <1>4, <1>9 DEF vars, IInv, TypeOK
  <1> QED
    BY <1>1, <1>2, <1>3, <1>5, <1>6, <1>7, <1>8, <1>9 DEF Next, Done

\* Only engines of the registry are asked, each counts with what it makes of
\* the answer of its own service, and the search ends when all have settled,
\* for every question, every answer and every order of settling.
THEOREM Inductive == Spec => []IInv
  BY InitInv, StepInv, PTL DEF Spec

\* A bad row costs itself and nothing else (the adapters of search/engines):
\* for every list of rows, the hits are those of the usable ones, in order.
THEOREM RowsCostThemselves == Spec => []BadRowCostsItself
  <1>1. ASSUME IInv PROVE BadRowCostsItself
    <2> SUFFICES ASSUME NEW i \in DOMAIN responses, responses[i] # None,
                        responses[i].kind = "rows"
                 PROVE  LET rows == responses[i].rows
                            used == {r \in DOMAIN rows :
                                       /\ rows[r].object /\ rows[r].url # NoUrl
                                       /\ engines[i] = "treg" => rows[r].str
                                       /\ engines[i] \in Cutting => r <= count}
                            at(r) == outcomes[i][Cardinality({s \in used : s <= r})]
                        IN  /\ outcomes[i] # Failed
                            /\ Len(outcomes[i]) = Cardinality(used)
                            /\ \A r \in used :
                                 /\ at(r).url = rows[r].url
                                 /\ at(r).title \in {0, rows[r].title}
                                 /\ at(r).snippet \in {0, rows[r].snippet}
      BY DEF BadRowCostsItself
    <2> DEFINE rows == responses[i].rows
               used == {r \in DOMAIN rows :
                          /\ rows[r].object /\ rows[r].url # NoUrl
                          /\ engines[i] = "treg" => rows[r].str
                          /\ engines[i] \in Cutting => r <= count}
               considered == IF engines[i] \in Cutting THEN UpTo(count, rows) ELSE rows
               usable == {row \in ToSet(considered) : Usable(engines[i], row)}
               f == [row \in usable |-> HitOf(engines[i], row)]
    <2>1. /\ i \in DOMAIN outcomes /\ engines[i] \in ToSet(Registry)
          /\ responses[i] \in Offers[requested][engines[i]]
          /\ outcomes[i] = Read(engines[i], responses[i], count)
      BY <1>1 DEF IInv, TypeOK
    <2>2. /\ count \in Nat /\ responses[i] \in ServiceResponse
          /\ responses[i].kind = "page" <=> engines[i] = "duckduckgo"
      <3>1. PICK q \in Questions : q.engines = requested /\ q.count = count
        BY <1>1 DEF IInv, TypeOK
      <3> QED
        BY <2>1, <3>1, SearchAssumption
    <2>3. rows \in Seq(JsonRow)
      BY <2>2 DEF ServiceResponse
    <2>4. outcomes[i] = Comprehend(f, considered)
      BY <2>1, <2>2 DEF Read, ReadResponse, ReadRows
    <2>5. considered \in Seq(JsonRow) /\ DOMAIN considered \subseteq DOMAIN rows
      BY <2>2, <2>3, UpToType
    <2>6. \A r \in DOMAIN rows :
            /\ r \in DOMAIN considered <=> (engines[i] \in Cutting => r <= count)
            /\ r \in DOMAIN considered => considered[r] = rows[r]
      BY <2>2, <2>3, UpToType
    <2> HIDE DEF considered
    <2>7. Passing(f, considered) = used
      <3>1. \A r \in DOMAIN considered :
              r \in Passing(f, considered) <=> Usable(engines[i], considered[r])
        BY DEF Passing, ToSet
      <3> HIDE DEF f, rows
      <3>2. \A r : r \in Passing(f, considered) => r \in DOMAIN considered
        BY DEF Passing
      <3> QED
        BY <2>5, <2>6, <3>1, <3>2 DEF Usable
    <2>8. \A row \in DOMAIN f : f[row] \in Hit
      <3>1. ToSet(considered) \subseteq JsonRow
        BY <2>5 DEF ToSet
      <3> QED
        BY <3>1 DEF Usable, HitOf, JsonRow, Hit
    <2>9. ASSUME NEW r \in used
          PROVE  LET hit == f[rows[r]]
                 IN  /\ hit.url = rows[r].url
                     /\ hit.title \in {0, rows[r].title}
                     /\ hit.snippet \in {0, rows[r].snippet}
      <3>1. rows[r] \in DOMAIN f
        BY <2>6, <2>7 DEF Passing
      <3>2. f[rows[r]] = HitOf(engines[i], rows[r])
        BY <3>1
      <3> HIDE DEF f, rows
      <3> QED
        BY <3>2 DEF HitOf
    <2> HIDE DEF f
    <2>10. /\ Comprehend(f, considered) \in Seq(Hit)
           /\ Len(Comprehend(f, considered)) = Cardinality(Passing(f, considered))
           /\ \A r \in Passing(f, considered) :
                Comprehend(f, considered)[Cardinality(UpToPlace(f, considered, r))]
                  = f[considered[r]]
      <3>1. considered \in Seq(JsonRow)
        BY <2>5
      <3>2. KeepsPassing(Hit, f, considered)
        BY ONLY <3>1, <2>8, ComprehendKeeps
      <3> QED
        BY <3>2 DEF KeepsPassing
    <2>11. \A r \in used : UpToPlace(f, considered, r) = {s \in used : s <= r}
      BY <2>7 DEF UpToPlace
    <2>12. \A r \in used : considered[r] = rows[r]
      BY <2>6, <2>7 DEF Passing
    <2>13. \A r \in used : outcomes[i][Cardinality({s \in used : s <= r})] = f[rows[r]]
      BY <2>4, <2>7, <2>10, <2>11, <2>12
    <2>14. outcomes[i] # Failed /\ Len(outcomes[i]) = Cardinality(used)
      BY <2>4, <2>7, <2>10, EnginesAssumption
    <2> HIDE DEF used, rows
    <2> QED
      BY <2>9, <2>13, <2>14 DEF rows, used
  <1> QED
    BY <1>1, Inductive, PTL

-------------------------------------------------------------------------------
(* Gathering the answers: one list per engine.                              *)

AnswerRecord == [engine : ToSet(Registry), hits : Seq(Hit) \cup {Failed}]
HitList == [engine : ToSet(Registry), hits : Seq(Hit)]

\* The answers that count: of every engine the last that is no failure.
Latest(answers) ==
  { answers[i] : i \in
      {j \in DOMAIN answers :
         /\ answers[j].hits # Failed
         /\ \A l \in DOMAIN answers :
              l > j /\ answers[l].engine = answers[j].engine => answers[l].hits = Failed} }

Succeeded(answers, engine) ==
  {i \in DOMAIN answers : answers[i].engine = engine /\ answers[i].hits # Failed}

\* Engine e answered before engine f first did.
Earlier(answers, e, f) ==
  \E i \in Succeeded(answers, e) : \A j \in Succeeded(answers, f) : i < j

\* lists holds the answers that count, in the order of the engines' first answers.
Merged(answers, lists) ==
  /\ lists \in Seq(HitList)
  /\ OnePerEngine(lists)
  /\ ToSet(lists) = Latest(answers)
  /\ \A e : Succeeded(answers, e) # {} <=> \E n \in DOMAIN lists : lists[n].engine = e
  /\ \A m, n \in DOMAIN lists :
       m < n => Earlier(answers, lists[m].engine, lists[n].engine)

LEMMA MergeUnfolds ==
  /\ Merge(<<>>) = <<>>
  /\ \A S : \A s \in Seq(S), x \in S :
       Merge(Append(s, x)) = IF x.hits = Failed THEN Merge(s) ELSE Record(Merge(s), x)
  <1>1. \A T : Max(T) = Merges!Max(T)
    BY DEF Max, Merges!Max
  <1>2. \A s : Merge(s) = Merges!Fold(<<>>, <<>>, s)
    BY <1>1 DEF Merge, FoldLeft, MapThenFoldSet, Merges!Fold,
                Merges!FoldLeft, Merges!MapThenFoldSet
  <1> QED
    BY <1>2, Merges!FoldEmpty, Merges!FoldAppend

\* What one more answer does to those that count.
LEMMA LatestAppend ==
  ASSUME NEW s \in Seq(AnswerRecord), NEW x \in AnswerRecord
  PROVE  /\ Latest(Append(s, x)) =
              IF x.hits = Failed THEN Latest(s)
              ELSE {a \in Latest(s) : a.engine # x.engine} \cup {x}
         /\ \A e : Succeeded(Append(s, x), e) =
              IF x.hits # Failed /\ x.engine = e THEN Succeeded(s, e) \cup {Len(s) + 1}
              ELSE Succeeded(s, e)
  <1> DEFINE t == Append(s, x)
             n == Len(s) + 1
             counts(q, j) == /\ q[j].hits # Failed
                             /\ \A l \in DOMAIN q : l > j /\ q[l].engine = q[j].engine
                                                      => q[l].hits = Failed
  <1>1. /\ DOMAIN t = DOMAIN s \cup {n} /\ n \notin DOMAIN s /\ t[n] = x
        /\ \A k \in DOMAIN s : t[k] = s[k] /\ k < n
        /\ n \in Nat /\ DOMAIN s \subseteq Nat
    OBVIOUS
  <1> HIDE DEF t, n
  <1>2. \A q : Latest(q) = {q[i] : i \in {j \in DOMAIN q : counts(q, j)}}
    BY DEF Latest
  <1>3. \A j \in DOMAIN s :
          counts(t, j) <=> counts(s, j) /\ (x.engine = s[j].engine => x.hits = Failed)
    BY <1>1
  <1>4. counts(t, n) <=> x.hits # Failed
    <2>1. \A l \in DOMAIN t : ~ (l > n)
      BY <1>1
    <2> QED
      BY <1>1, <2>1
  <1> HIDE DEF counts
  <1>5. CASE x.hits = Failed
    <2>1. {j \in DOMAIN t : counts(t, j)} = {j \in DOMAIN s : counts(s, j)}
      BY <1>1, <1>3, <1>4, <1>5
    <2>2. Latest(t) = Latest(s)
      BY <1>1, <1>2, <2>1
    <2>3. \A e : Succeeded(t, e) = Succeeded(s, e)
      BY <1>1, <1>5 DEF Succeeded
    <2> QED
      BY <1>5, <2>2, <2>3 DEF t
  <1>6. CASE x.hits # Failed
    <2>1. {j \in DOMAIN t : counts(t, j)}
            = {j \in DOMAIN s : counts(s, j) /\ s[j].engine # x.engine} \cup {n}
      BY <1>1, <1>3, <1>4, <1>6
    <2>2. Latest(t) = {a \in Latest(s) : a.engine # x.engine} \cup {x}
      BY <1>1, <1>2, <2>1
    <2>3. \A e : Succeeded(t, e) = IF x.engine = e THEN Succeeded(s, e) \cup {n}
                                   ELSE Succeeded(s, e)
      BY <1>1, <1>6 DEF Succeeded
    <2> QED
      BY <1>6, <2>2, <2>3 DEF t, n
  <1> QED
    BY <1>5, <1>6

\* Recording an answer replaces the engine's earlier one or adds it at the end.
LEMMA RecordKeeps ==
  ASSUME NEW lists \in Seq(HitList), OnePerEngine(lists), NEW x \in HitList
  PROVE  /\ Record(lists, x) \in Seq(HitList)
         /\ OnePerEngine(Record(lists, x))
         /\ ToSet(Record(lists, x)) = {a \in ToSet(lists) : a.engine # x.engine} \cup {x}
         /\ \A n \in DOMAIN lists :
              n \in DOMAIN Record(lists, x) /\ Record(lists, x)[n].engine = lists[n].engine
         /\ \A n \in DOMAIN Record(lists, x) \ DOMAIN lists :
              /\ Record(lists, x)[n].engine = x.engine /\ \A m \in DOMAIN lists : m < n
              /\ \A m \in DOMAIN lists : lists[m].engine # x.engine
  <1> DEFINE r == Record(lists, x)
  <1>1. CASE \E n \in DOMAIN lists : lists[n].engine = x.engine
    <2>1. r = [n \in DOMAIN lists |-> IF lists[n].engine = x.engine THEN x ELSE lists[n]]
      BY <1>1 DEF Record
    <2>2. r \in Seq(HitList) /\ DOMAIN r = DOMAIN lists
      BY <2>1
    <2>3. \A n \in DOMAIN lists : r[n].engine = lists[n].engine
      BY <2>1
    <2>4. ToSet(r) = {a \in ToSet(lists) : a.engine # x.engine} \cup {x}
      BY <1>1, <2>1 DEF ToSet
    <2> HIDE DEF r
    <2>5. OnePerEngine(r)
      BY <2>2, <2>3 DEF OnePerEngine
    <2> QED
      BY <2>2, <2>3, <2>4, <2>5 DEF r
  <1>2. CASE ~ \E n \in DOMAIN lists : lists[n].engine = x.engine
    <2>1. r = Append(lists, x)
      BY <1>2 DEF Record
    <2> DEFINE k == Len(lists) + 1
    <2>2. /\ r \in Seq(HitList) /\ DOMAIN r = DOMAIN lists \cup {k} /\ r[k] = x
          /\ \A n \in DOMAIN lists : r[n] = lists[n] /\ n < k
      BY <2>1
    <2>3. ToSet(r) = ToSet(lists) \cup {x}
      BY <2>1, ToSetAppend
    <2>4. ToSet(lists) = {a \in ToSet(lists) : a.engine # x.engine}
      BY <1>2 DEF ToSet
    <2> HIDE DEF r, k
    <2>5. OnePerEngine(r)
      BY <1>2, <2>2 DEF OnePerEngine
    <2> QED
      BY <1>2, <2>2, <2>3, <2>4, <2>5 DEF r
  <1> QED
    BY <1>1, <1>2

\* Answers become one list per engine that answered: its last answer that is
\* no failure, in the order in which the engines are first named.
THEOREM MergeKeepsLatest ==
  ASSUME NEW answers \in Seq(AnswerRecord)
  PROVE  Merged(answers, Merge(answers))
  <1> DEFINE Q == {s \in Seq(AnswerRecord) : Merged(s, Merge(s))}
  <1>1. <<>> \in Q
    <2>1. DOMAIN <<>> = {} /\ <<>> \in Seq(AnswerRecord) /\ <<>> \in Seq(HitList)
      OBVIOUS
    <2>2. Merged(<<>>, <<>>)
      BY <2>1 DEF Merged, OnePerEngine, ToSet, Latest, Succeeded
    <2> QED
      BY <2>1, <2>2, MergeUnfolds
  <1>2. ASSUME NEW s \in Seq(AnswerRecord), s \in Q, NEW x \in AnswerRecord
        PROVE  Append(s, x) \in Q
    <2> DEFINE t == Append(s, x)
               L == Merge(s)
               k == Len(s) + 1
    <2>1. t \in Seq(AnswerRecord) /\ Merged(s, L)
      BY <1>2
    <2>2. Merge(t) = IF x.hits = Failed THEN L ELSE Record(L, x)
      BY MergeUnfolds
    <2>3. /\ Latest(t) = IF x.hits = Failed THEN Latest(s)
                         ELSE {a \in Latest(s) : a.engine # x.engine} \cup {x}
          /\ \A e : Succeeded(t, e) =
               IF x.hits # Failed /\ x.engine = e THEN Succeeded(s, e) \cup {k}
               ELSE Succeeded(s, e)
      BY LatestAppend
    <2>4. \A e : \A i \in Succeeded(s, e) : i < k
      BY DEF Succeeded
    <2> HIDE DEF t, L, k
    <2>5. CASE x.hits = Failed
      <3>1. \A e : Succeeded(t, e) = Succeeded(s, e)
        BY <2>3, <2>5
      <3>2. Merged(t, L)
        BY <2>1, <2>3, <2>5, <3>1 DEF Merged, Earlier
      <3> QED
        BY <2>1, <2>2, <2>5, <3>2 DEF t
    <2>6. CASE x.hits # Failed
      <3> DEFINE M == Record(L, x)
      <3>1. x \in HitList
        BY <2>6 DEF AnswerRecord, HitList
      <3>2. L \in Seq(HitList) /\ OnePerEngine(L)
        BY <2>1 DEF Merged
      <3>3. /\ M \in Seq(HitList) /\ OnePerEngine(M)
            /\ ToSet(M) = {a \in ToSet(L) : a.engine # x.engine} \cup {x}
            /\ \A n \in DOMAIN L : n \in DOMAIN M /\ M[n].engine = L[n].engine
            /\ \A n \in DOMAIN M \ DOMAIN L :
                 /\ M[n].engine = x.engine /\ \A m \in DOMAIN L : m < n
                 /\ \A m \in DOMAIN L : L[m].engine # x.engine
        BY <3>1, <3>2, RecordKeeps
      <3> HIDE DEF M
      <3>4. ToSet(M) = Latest(t)
        BY <2>1, <2>3, <2>6, <3>3 DEF Merged
      <3>5. \E n \in DOMAIN M : M[n].engine = x.engine
        BY <3>3 DEF ToSet
      <3>6. \A e : Succeeded(t, e) # {} <=> \E n \in DOMAIN M : M[n].engine = e
        <4>1. ASSUME NEW e PROVE Succeeded(t, e) # {} <=> \E n \in DOMAIN M : M[n].engine = e
          <5>1. CASE e = x.engine
            BY <2>3, <2>6, <3>5, <5>1
          <5>2. CASE e # x.engine
            <6>1. Succeeded(t, e) = Succeeded(s, e)
              BY <2>3, <5>2
            <6>2. (\E n \in DOMAIN M : M[n].engine = e) <=> \E n \in DOMAIN L : L[n].engine = e
              BY <3>3, <5>2
            <6>3. Succeeded(s, e) # {} <=> \E n \in DOMAIN L : L[n].engine = e
              BY <2>1 DEF Merged
            <6> QED
              BY <6>1, <6>2, <6>3
          <5> QED
            BY <5>1, <5>2
        <4> QED
          BY <4>1
      <3>7. ASSUME NEW m \in DOMAIN M, NEW n \in DOMAIN M, m < n
            PROVE  Earlier(t, M[m].engine, M[n].engine)
        <4>1. CASE n \in DOMAIN L
          <5>1. m \in DOMAIN L
            <6>1. m \in 1..Len(M) /\ n \in 1..Len(L)
              BY <3>2, <3>3, <4>1
            <6>2. Len(L) \in Nat /\ Len(M) \in Nat /\ DOMAIN L = 1..Len(L)
              BY <3>2, <3>3
            <6> QED
              BY <3>7, <6>1, <6>2
          <5>2. Earlier(s, L[m].engine, L[n].engine)
            BY <2>1, <3>7, <4>1, <5>1 DEF Merged
          <5>3. PICK i \in Succeeded(s, L[m].engine) :
                       \A j \in Succeeded(s, L[n].engine) : i < j
            BY <5>2 DEF Earlier
          <5>4. /\ i \in Succeeded(t, L[m].engine)
                /\ \A j \in Succeeded(t, L[n].engine) : i < j
            BY <2>3, <2>4, <5>3
          <5> QED
            BY <3>3, <4>1, <5>1, <5>4 DEF Earlier
        <4>2. CASE n \notin DOMAIN L
          <5>1. m \in DOMAIN L
            BY <3>3, <3>7, <4>2 DEF OnePerEngine
          <5>2. M[n].engine = x.engine /\ M[m].engine = L[m].engine /\ L[m].engine # x.engine
            BY <3>3, <4>2, <5>1
          <5>3. Succeeded(s, x.engine) = {} /\ Succeeded(s, L[m].engine) # {}
            BY <2>1, <3>3, <4>2, <5>1 DEF Merged
          <5>4. PICK i \in Succeeded(s, L[m].engine) : TRUE
            BY <5>3
          <5>5. /\ i \in Succeeded(t, L[m].engine)
                /\ \A j \in Succeeded(t, x.engine) : i < j
            BY <2>3, <2>4, <2>6, <5>2, <5>3, <5>4
          <5> QED
            BY <5>2, <5>5 DEF Earlier
        <4> QED
          BY <4>1, <4>2
      <3>8. Merged(t, M)
        BY <3>3, <3>4, <3>6, <3>7 DEF Merged
      <3> QED
        BY <2>1, <2>2, <2>6, <3>8 DEF t, M
    <2> QED
      BY <2>5, <2>6
  <1>3. answers \in Q
    <2> HIDE DEF Q
    <2> QED
      BY <1>1, <1>2, Merges!SeqSetInduction
  <1> QED
    BY <1>3

\* Once all engines have settled, the lists to be fused are the answers that count.
LEMMA ListsCount ==
  ASSUME IInv, Unsettled = {}
  PROVE  /\ Gathered \in Seq(AnswerRecord) /\ Merged(Gathered, PerEngine)
         /\ Counted = Latest(Gathered) /\ ToSet(PerEngine) = Counted
         /\ DOMAIN Gathered = DOMAIN outcomes
         /\ \A i \in DOMAIN outcomes :
              Gathered[i].engine = engines[i] /\ Gathered[i].hits = outcomes[i]
  <1>1. /\ engines \in Seq(ToSet(Registry))
        /\ outcomes \in [DOMAIN engines -> Seq(Hit) \cup {Pending, Failed}]
    BY DEF IInv, TypeOK
  <1>2. \A i \in DOMAIN outcomes : outcomes[i] # Pending
    BY DEF Unsettled
  <1>3. /\ DOMAIN outcomes = 1..Len(engines) /\ Len(engines) \in Nat
        /\ \A i \in DOMAIN outcomes : /\ engines[i] \in ToSet(Registry)
                                      /\ outcomes[i] \in Seq(Hit) \cup {Failed}
    BY <1>1, <1>2
  <1>4. DOMAIN Gathered = DOMAIN outcomes
    BY DEF Gathered
  <1>5. \A i \in DOMAIN outcomes :
          /\ Gathered[i].engine = engines[i] /\ Gathered[i].hits = outcomes[i]
          /\ Gathered[i] \in AnswerRecord
    BY <1>3 DEF Gathered, AnswerRecord
  <1>6. Gathered \in Seq(AnswerRecord)
    <2>1. Gathered = [i \in 1..Len(engines) |-> Gathered[i]]
      BY <1>3 DEF Gathered
    <2> QED
      BY <1>3, <1>5, <2>1
  <1>7. Merged(Gathered, PerEngine)
    BY <1>6, MergeKeepsLatest DEF PerEngine
  <1>8. Counted = Latest(Gathered)
    <2>1. {j \in DOMAIN outcomes :
             /\ outcomes[j] # Failed
             /\ \A l \in DOMAIN outcomes :
                  l > j /\ engines[l] = engines[j] => outcomes[l] = Failed}
            = {j \in DOMAIN Gathered :
                 /\ Gathered[j].hits # Failed
                 /\ \A l \in DOMAIN Gathered :
                      l > j /\ Gathered[l].engine = Gathered[j].engine
                        => Gathered[l].hits = Failed}
      BY <1>4, <1>5
    <2> QED
      BY <2>1 DEF Counted, Latest
  <1> QED
    BY <1>4, <1>5, <1>6, <1>7, <1>8 DEF Merged

\* A search fails only because every engine failed or because an answer that
\* counts has a URL that cannot be parsed, and succeeds only if some engine
\* answered (api.py:70-80).
THEOREM FailuresExplained == Spec => []FailureExplained
  <1>1. ASSUME IInv PROVE FailureExplained
    <2>1. ASSUME pc = "raised"
          PROVE  \/ \A i \in DOMAIN outcomes : outcomes[i] = Failed
                 \/ \E answer \in Counted : \E h \in ToSet(answer.hits) : ~ h.url.ok
      <3>1. Unsettled = {} /\ (PerEngine = <<>> \/ ~ CanFuse(PerEngine))
        BY <1>1, <2>1 DEF IInv
      <3>2. CASE PerEngine = <<>>
        <4>1. \A e : Succeeded(Gathered, e) = {}
          <5>1. DOMAIN PerEngine = {}
            BY <3>2
          <5> QED
            BY <1>1, <3>1, <5>1, ListsCount DEF Merged
        <4>2. ASSUME NEW i \in DOMAIN outcomes PROVE outcomes[i] = Failed
          <5>1. i \notin Succeeded(Gathered, Gathered[i].engine)
            BY <4>1
          <5>2. i \in DOMAIN Gathered /\ Gathered[i].hits = outcomes[i]
            BY <1>1, <3>1, ListsCount
          <5> QED
            BY <5>1, <5>2 DEF Succeeded
        <4> QED
          BY <4>2
      <3>3. CASE ~ CanFuse(PerEngine)
        <4>1. PICK n \in DOMAIN PerEngine :
                     \E p \in DOMAIN PerEngine[n].hits : ~ PerEngine[n].hits[p].url.ok
          BY <3>3 DEF CanFuse
        <4>2. PerEngine[n] \in Counted
          BY <1>1, <3>1, ListsCount DEF ToSet
        <4> QED
          BY <4>1, <4>2 DEF ToSet
      <3> QED
        BY <3>1, <3>2, <3>3
    <2>2. ASSUME pc = "returned"
          PROVE  /\ Counted # {}
                 /\ \A answer \in Counted : \A h \in ToSet(answer.hits) : h.url.ok
      <3>1. Unsettled = {} /\ PerEngine # <<>> /\ CanFuse(PerEngine)
        BY <1>1, <2>2 DEF IInv
      <3>2. ToSet(PerEngine) = Counted /\ PerEngine \in Seq(HitList)
        BY <1>1, <3>1, ListsCount DEF Merged
      <3>3. 1 \in DOMAIN PerEngine
        BY <3>1, <3>2
      <3> QED
        BY <3>1, <3>2, <3>3 DEF ToSet, CanFuse
    <2> QED
      BY <2>1, <2>2 DEF FailureExplained
  <1> QED
    BY <1>1, Inductive, PTL

-------------------------------------------------------------------------------
(* What is returned.                                                        *)

\* What is known of the result, the pages found being ordered as sorted and agg
\* holding what the fusion knows of each.
Returned(agg, sorted) ==
  /\ Sorted(agg, sorted) /\ DOMAIN agg = Pages /\ Pages \subseteq PageKey
  /\ IsFiniteSet(Pages)
  /\ \A k \in Pages : /\ Tallied(agg[k], Places(k)) /\ Longest(agg[k], Places(k))
                      /\ FirstBest(agg[k], Appearances(PerEngine), k)
                      /\ NormalizeUrl(agg[k].url) = k
  /\ Len(result) \in Nat /\ DOMAIN result = 1..Len(result)
  /\ Len(result) = IF count < Len(sorted) THEN count ELSE Len(sorted)
  /\ \A r \in DOMAIN result :
       /\ r \in DOMAIN sorted /\ NormalizeUrl(result[r].url) = sorted[r]
       /\ result[r].url = agg[sorted[r]].url
       /\ result[r].title = agg[sorted[r]].title /\ result[r].snippet = agg[sorted[r]].snippet
       /\ result[r].score = agg[sorted[r]].score
       /\ result[r].breakdown = agg[sorted[r]].breakdown

\* Places and Pages are the appearances in the answers that count.
LEMMA PlacesShown ==
  /\ \A key : Places(key) = Showing(Counted, key)
  /\ Counted \subseteq HitList => Pages = {PageOf(a) : a \in AppearancesIn(Counted)}
  <1>1. ASSUME NEW key PROVE Places(key) = Showing(Counted, key)
    <2> DEFINE app(answer, p) == [engine |-> answer.engine, position |-> p, hit |-> answer.hits[p]]
    <2>1. \A answer, p : PageOf(app(answer, p)) = NormalizeUrl(answer.hits[p].url)
      BY DEF PageOf
    <2>2. Places(key) = UNION { {app(answer, p) :
                  p \in {q \in DOMAIN answer.hits : NormalizeUrl(answer.hits[q].url) = key}} :
                answer \in Counted }
      BY DEF Places
    <2>3. AppearancesIn(Counted) = UNION { {app(answer, p) : p \in DOMAIN answer.hits} :
                                            answer \in Counted }
      BY DEF AppearancesIn
    <2> HIDE DEF app
    <2>4. \A a : a \in Places(key) <=>
            \E answer \in Counted : \E p \in DOMAIN answer.hits :
              a = app(answer, p) /\ NormalizeUrl(answer.hits[p].url) = key
      BY <2>2
    <2>5. \A a : a \in Showing(Counted, key) <=>
            /\ \E answer \in Counted : \E p \in DOMAIN answer.hits : a = app(answer, p)
            /\ PageOf(a) = key
      BY <2>3 DEF Showing
    <2>6. \A a : a \in Places(key) <=> a \in Showing(Counted, key)
      BY <2>1, <2>4, <2>5
    <2> QED
      BY <2>6
  <1>2. ASSUME Counted \subseteq HitList
        PROVE  Pages = {PageOf(a) : a \in AppearancesIn(Counted)}
    <2> DEFINE app(answer, p) == [engine |-> answer.engine, position |-> p, hit |-> answer.hits[p]]
    <2>1. \A answer, p : PageOf(app(answer, p)) = NormalizeUrl(answer.hits[p].url)
      BY DEF PageOf
    <2>2. AppearancesIn(Counted) = UNION { {app(answer, p) : p \in DOMAIN answer.hits} :
                                            answer \in Counted }
      BY DEF AppearancesIn
    <2> HIDE DEF app
    <2>3. \A k : k \in Pages <=> \E answer \in Counted : \E p \in DOMAIN answer.hits :
                                   k = NormalizeUrl(answer.hits[p].url)
      BY DEF Pages, ToSet
    <2>4. \A k : k \in {PageOf(a) : a \in AppearancesIn(Counted)} <=>
            \E answer \in Counted : \E p \in DOMAIN answer.hits : k = PageOf(app(answer, p))
      BY <2>2
    <2> DEFINE shown == {PageOf(a) : a \in AppearancesIn(Counted)}
    <2>5. \A k : k \in Pages <=> k \in shown
      BY <2>1, <2>3, <2>4
    <2> HIDE DEF shown
    <2>6. Pages = shown
      BY <2>5
    <2> QED
      BY <2>6 DEF shown
  <1> QED
    BY <1>1, <1>2

\* A page is listed at finitely many places.
LEMMA PlacesFinite ==
  ASSUME IInv, pc = "returned", NEW k
  PROVE  IsFiniteSet(Places(k))
  <1> DEFINE s == Appearances(PerEngine)
  <1>1. Merged(Gathered, PerEngine) /\ ToSet(PerEngine) = Counted
    BY ListsCount DEF IInv
  <1>2. PerEngine \in Seq(Lists(ToSet(Registry))) /\ OnePerEngine(PerEngine)
    BY <1>1 DEF Merged, HitList, Lists
  <1>3. s \in Seq(Appearance(ToSet(Registry))) /\ Of(s, k) = Showing(Counted, k)
    BY <1>1, <1>2, AppearancesOnce
  <1> HIDE DEF s
  <1>4. DOMAIN s = 1..Len(s) /\ Len(s) \in Nat
    BY <1>3
  <1>5. IsFiniteSet(DOMAIN s)
    BY <1>4, FS_Interval
  <1>6. s \in [DOMAIN s -> ToSet(s)] /\ \A x \in ToSet(s) : \E i \in DOMAIN s : s[i] = x
    BY <1>3 DEF ToSet
  <1>7. s \in Surjection(DOMAIN s, ToSet(s))
    BY <1>6 DEF Surjection
  <1>8. IsFiniteSet(ToSet(s))
    BY <1>5, <1>7, FS_Surjection
  <1>9. Places(k) \in SUBSET ToSet(s)
    BY <1>3, PlacesShown DEF Of
  <1> QED
    BY <1>8, <1>9, FS_Subset

LEMMA ReturnedIsFused ==
  ASSUME IInv, pc = "returned"
  PROVE  /\ Returned(Aggregate(PerEngine), Ordered(Aggregate(PerEngine)))
         /\ PerEngine \in Seq(HitList) /\ OnePerEngine(PerEngine) /\ ToSet(PerEngine) = Counted
         /\ Merged(Gathered, PerEngine) /\ Counted = Latest(Gathered)
         /\ Fuse(PerEngine) \in Seq(ToSet(Fuse(PerEngine)))
  <1> DEFINE agg == Aggregate(PerEngine)
             sorted == Ordered(agg)
             fused == Fuse(PerEngine)
  <1>1. Unsettled = {} /\ result = UpTo(count, fused)
    BY DEF IInv, SearchResults
  <1>2. /\ Merged(Gathered, PerEngine) /\ Counted = Latest(Gathered)
        /\ ToSet(PerEngine) = Counted
    BY <1>1, ListsCount
  <1>3. /\ PerEngine \in Seq(HitList) /\ OnePerEngine(PerEngine)
        /\ Counted \subseteq HitList
    BY <1>2 DEF Merged, ToSet
  <1>4. HitList = Lists(ToSet(Registry))
    BY DEF HitList, Lists
  <1>5. Exact(PerEngine, Counted, agg, sorted, fused)
    BY <1>2, <1>3, <1>4, FusionIsExact
  <1>6. DOMAIN agg = Pages /\ \A k : Places(k) = Showing(Counted, k)
    BY <1>3, <1>5, PlacesShown DEF Exact
  <1>7. count \in Nat
    BY QuestionType DEF IInv
  <1> HIDE DEF agg, sorted, fused
  <1>8. Sorted(agg, sorted) /\ DOMAIN fused = DOMAIN sorted
    BY <1>5 DEF Exact
  <1>9. sorted \in Seq(DOMAIN agg) /\ \E T : fused \in Seq(T)
    BY <1>5 DEF Exact, Sorted
  <1>10. PICK T : fused \in Seq(T)
    BY <1>9
  <1>11. Len(fused) = Len(sorted)
    BY <1>8, <1>9, <1>10
  <1>12. /\ result \in Seq(T) /\ DOMAIN result = {r \in DOMAIN fused : r <= count}
         /\ Len(result) = IF count < Len(sorted) THEN count ELSE Len(sorted)
         /\ \A r \in DOMAIN result : result[r] = fused[r]
    BY <1>1, <1>7, <1>10, <1>11, UpToType
  <1>13. IsFiniteSet(Pages)
    <2>1. sorted \in [DOMAIN sorted -> Pages] /\ DOMAIN sorted = 1..Len(sorted) /\ Len(sorted) \in Nat
      BY <1>6, <1>9
    <2>2. \A k \in Pages : \E r \in DOMAIN sorted : sorted[r] = k
      BY <1>6, <1>8 DEF Sorted, ToSet
    <2>3. sorted \in Surjection(DOMAIN sorted, Pages)
      BY <2>1, <2>2 DEF Surjection
    <2>4. IsFiniteSet(DOMAIN sorted)
      BY <2>1, FS_Interval
    <2> QED
      BY <2>3, <2>4, FS_Surjection
  <1>14. \A k \in Pages : /\ Tallied(agg[k], Places(k)) /\ Longest(agg[k], Places(k))
                          /\ FirstBest(agg[k], Appearances(PerEngine), k)
                          /\ NormalizeUrl(agg[k].url) = k
    BY <1>5, <1>6 DEF Exact
  <1>15. ASSUME NEW r \in DOMAIN result
         PROVE  /\ r \in DOMAIN sorted /\ NormalizeUrl(result[r].url) = sorted[r]
                /\ result[r].url = agg[sorted[r]].url
                /\ result[r].title = agg[sorted[r]].title
                /\ result[r].snippet = agg[sorted[r]].snippet
                /\ result[r].score = agg[sorted[r]].score
                /\ result[r].breakdown = agg[sorted[r]].breakdown
    <2>1. r \in DOMAIN sorted /\ result[r] = fused[r]
      BY <1>8, <1>12
    <2> QED
      BY <1>5, <2>1 DEF Exact
  <1>16. Pages \subseteq PageKey
    BY <1>5, <1>6 DEF Exact
  <1>17. Returned(agg, sorted)
    BY <1>6, <1>8, <1>12, <1>13, <1>14, <1>15, <1>16 DEF Returned
  <1>18. fused \in Seq(ToSet(fused))
    BY <1>10 DEF ToSet
  <1> QED
    BY <1>2, <1>3, <1>17, <1>18 DEF agg, sorted, fused

\* No engine gives a page more than its own list is worth, also when the
\* caller names it twice (the dict of api.py:71).
THEOREM EnginesCountOnce == Spec => []NoEngineCountsTwice
  <1>1. ASSUME IInv PROVE NoEngineCountsTwice
    <2> SUFFICES ASSUME pc = "returned", NEW r \in DOMAIN result,
                        NEW e \in DOMAIN result[r].breakdown
                 PROVE  \E answer \in ToSet(Gathered) :
                          /\ answer.engine = e /\ answer.hits # Failed
                          /\ result[r].breakdown[e] =
                               SumFunction(
                                 [p \in {q \in DOMAIN answer.hits :
                                           NormalizeUrl(answer.hits[q].url)
                                             = NormalizeUrl(result[r].url)}
                                    |-> Contribution(p)])
      BY DEF NoEngineCountsTwice
    <2> DEFINE agg == Aggregate(PerEngine)
               sorted == Ordered(agg)
               k == sorted[r]
    <2>1. /\ Returned(agg, sorted) /\ PerEngine \in Seq(HitList) /\ OnePerEngine(PerEngine)
          /\ ToSet(PerEngine) = Counted /\ Counted = Latest(Gathered)
      BY <1>1, ReturnedIsFused
    <2> HIDE DEF agg, sorted
    <2>2. /\ k \in Pages /\ NormalizeUrl(result[r].url) = k
          /\ result[r].breakdown = agg[k].breakdown
      BY <2>1 DEF Returned, Sorted, ToSet
    <2>3. Tallied(agg[k], Places(k))
      BY <2>1, <2>2 DEF Returned
    <2> HIDE DEF k
    <2>4. /\ e \in {a.engine : a \in Places(k)}
          /\ result[r].breakdown[e] = Worth(ByEngine(Places(k), e))
      BY <2>2, <2>3 DEF Tallied
    <2>5. PICK answer \in Counted : answer.engine = e
      BY <2>4 DEF Places
    <2>6. answer \in HitList /\ answer \in ToSet(Gathered) /\ answer.hits # Failed
      BY <2>1, <2>5 DEF ToSet, Latest
    <2>7. \A other \in Counted : other.engine = e => other = answer
      BY <2>1, <2>5 DEF OnePerEngine, ToSet
    <2> DEFINE D == {q \in DOMAIN answer.hits : NormalizeUrl(answer.hits[q].url) = k}
               at == [p \in D |-> [engine |-> answer.engine, position |-> p,
                                   hit |-> answer.hits[p]]]
               own == [p \in D |-> Contribution(p)]
               A == ByEngine(Places(k), e)
               worths == [a \in A |-> Contribution(a.position)]
    <2>8. A = {at[p] : p \in D}
      <3>1. \A a \in A : a \in {at[p] : p \in D}
        BY <2>5, <2>7 DEF ByEngine, Places
      <3>2. \A p \in D : at[p] \in A
        BY <2>5 DEF ByEngine, Places
      <3> QED
        BY <3>1, <3>2
    <2>9. D \subseteq Nat \ {0} /\ IsFiniteSet(D)
      <3>1. answer.hits \in Seq(Hit)
        BY <2>6 DEF HitList
      <3>2. D \in SUBSET (1..Len(answer.hits)) /\ Len(answer.hits) \in Nat
        BY <3>1
      <3>3. IsFiniteSet(1..Len(answer.hits))
        <4>1. 1 \in Int /\ Len(answer.hits) \in Int
          BY <3>2
        <4> QED
          BY ONLY <4>1, FS_Interval
      <3>4. IsFiniteSet(D)
        BY <3>2, <3>3, FS_Subset
      <3>5. D \subseteq Nat \ {0}
        BY <3>2
      <3> QED
        BY <3>4, <3>5
    <2>10. \A p \in D : own[p] \in Int /\ worths[at[p]] = own[p]
      BY <2>8, <2>9, ContributionType
    <2>11. \A p, q \in D : at[p] = at[q] => p = q
      <3>1. \A p \in D : at[p].position = p
        OBVIOUS
      <3> QED
        BY <3>1
    <2>12. DOMAIN own = D /\ DOMAIN worths = A
      OBVIOUS
    <2>13. Worth(A) = SumFunction(worths)
      BY DEF Worth
    <2> HIDE DEF D, at, own, A, worths
    <2>14. SumOver(own, D) = SumOver(worths, {at[p] : p \in D})
      BY <2>9, <2>10, <2>11, SumReindex
    <2>15. Worth(A) = SumFunction(own)
      BY <2>8, <2>12, <2>13, <2>14, SumIsSumOver
    <2>16. result[r].breakdown[e] = SumFunction(own)
      BY <2>4, <2>15 DEF A
    <2> QED
      BY <2>2, <2>5, <2>6, <2>16 DEF own, D
  <1> QED
    BY <1>1, Inductive, PTL

\* A set of natural numbers that is not empty has a least element.
LEMMA MinMember ==
  ASSUME NEW S \in SUBSET Nat, S # {}
  PROVE  Min(S) \in S /\ \A y \in S : Min(S) <= y
  <1>1. ASSUME ~ \E x \in S : \A y \in S : x <= y PROVE FALSE
    <2> DEFINE Q == {n \in Nat : \A m \in 0..n : m \notin S}
    <2>1. 0 \in Q
      BY <1>1
    <2>2. ASSUME NEW n \in Nat, n \in Q PROVE n + 1 \in Q
      <3>1. \A y \in S : n + 1 <= y
        BY <2>2
      <3>2. n + 1 \notin S
        BY <1>1, <3>1
      <3>3. \A m \in 0..(n + 1) : m \in 0..n \/ m = n + 1
        BY <2>2
      <3> QED
        BY <2>2, <3>2, <3>3
    <2>3. Nat \subseteq Q
      <3> HIDE DEF Q
      <3> QED
        BY <2>1, <2>2, Collates!NatSetInduction
    <2>4. PICK x \in S : TRUE
      OBVIOUS
    <2>5. x \in Nat /\ x \in 0..x
      OBVIOUS
    <2> QED
      BY <2>3, <2>4, <2>5
  <1> QED
    BY <1>1 DEF Min

\* The hit shown: that at the best position, of the engine named first.
LEMMA FirstBestIsFirst ==
  ASSUME IInv, pc = "returned", NEW k \in Pages, NEW entry,
         FirstBest(entry, Appearances(PerEngine), k),
         NEW rank,
         \A e : Succeeded(Gathered, e) # {} => rank[e] = Min(Succeeded(Gathered, e))
  PROVE  \E first \in Places(k) :
           /\ entry.url = first.hit.url
           /\ \A other \in Places(k) :
                /\ other.position \in Nat /\ rank[other.engine] \in Nat
                /\ other # first =>
                     \/ first.position < other.position
                     \/ /\ first.position = other.position
                        /\ rank[first.engine] < rank[other.engine]
  <1> DEFINE s == Appearances(PerEngine)
  <1>1. /\ PerEngine \in Seq(HitList) /\ OnePerEngine(PerEngine)
        /\ ToSet(PerEngine) = Counted /\ Merged(Gathered, PerEngine)
    BY ReturnedIsFused
  <1>2. PerEngine \in Seq(Lists(ToSet(Registry)))
    BY <1>1 DEF HitList, Lists
  <1>3. /\ s \in Seq(Appearance(ToSet(Registry)))
        /\ ToSet(s) = AppearancesIn(Counted)
        /\ Of(s, k) = Showing(Counted, k)
        /\ \A i, j \in DOMAIN s : i < j => AppearsBefore(PerEngine, s[i], s[j])
    BY <1>1, <1>2, AppearancesOnce
  <1>4. Places(k) = Of(s, k)
    BY <1>3, PlacesShown
  <1> HIDE DEF s
  <1>5. PICK j \in DOMAIN s :
          /\ PageOf(s[j]) = k /\ entry.url = s[j].hit.url
          /\ \A i \in DOMAIN s :
               PageOf(s[i]) = k =>
                 s[j].position < s[i].position \/ (s[j].position = s[i].position /\ j <= i)
    BY DEF FirstBest, s
  <1>6. ASSUME NEW e, Succeeded(Gathered, e) # {}
        PROVE  /\ rank[e] \in Nat /\ rank[e] \in Succeeded(Gathered, e)
               /\ \A i \in Succeeded(Gathered, e) : rank[e] <= i
    <2>1. Succeeded(Gathered, e) \in SUBSET Nat
      <3>1. Gathered \in Seq(AnswerRecord)
        BY ListsCount DEF IInv
      <3> QED
        BY <3>1 DEF Succeeded
    <2> QED
      BY <1>6, <2>1, MinMember
  <1>7. ASSUME NEW i \in DOMAIN s
        PROVE  s[i].position \in Nat /\ Succeeded(Gathered, s[i].engine) # {}
    <2>1. s[i] \in Appearance(ToSet(Registry)) /\ s[i] \in AppearancesIn(Counted)
      BY <1>3 DEF ToSet
    <2>2. \E n \in DOMAIN PerEngine : PerEngine[n].engine = s[i].engine
      BY <1>1, <2>1 DEF AppearancesIn, ToSet
    <2> QED
      BY <1>1, <2>1, <2>2 DEF Merged, Appearance
  <1>8. ASSUME NEW i \in DOMAIN s, j < i, s[j].position = s[i].position
        PROVE  rank[s[j].engine] < rank[s[i].engine]
    <2>1. PICK m \in DOMAIN PerEngine, n \in DOMAIN PerEngine :
            \E p \in DOMAIN PerEngine[m].hits, q \in DOMAIN PerEngine[n].hits :
              /\ s[j] = At(PerEngine, m, p) /\ s[i] = At(PerEngine, n, q)
              /\ m < n \/ (m = n /\ p < q)
      BY <1>3, <1>8 DEF AppearsBefore
    <2>2. PICK p \in DOMAIN PerEngine[m].hits, q \in DOMAIN PerEngine[n].hits :
              /\ s[j] = At(PerEngine, m, p) /\ s[i] = At(PerEngine, n, q)
              /\ m < n \/ (m = n /\ p < q)
      BY <2>1
    <2>3. /\ p = q /\ s[j].engine = PerEngine[m].engine /\ s[i].engine = PerEngine[n].engine
      BY <1>8, <2>2 DEF At
    <2>4. q \in Nat
      <3>1. PerEngine[n] \in HitList
        BY <1>1
      <3>2. PerEngine[n].hits \in Seq(Hit)
        BY <3>1 DEF HitList
      <3> QED
        BY <2>2, <3>2
    <2>5. m < n
      BY <2>2, <2>3, <2>4
    <2>6. Earlier(Gathered, s[j].engine, s[i].engine)
      BY <1>1, <2>3, <2>5 DEF Merged
    <2>7. PICK x \in Succeeded(Gathered, s[j].engine) :
             \A y \in Succeeded(Gathered, s[i].engine) : x < y
      BY <2>6 DEF Earlier
    <2>8. /\ rank[s[j].engine] <= x /\ rank[s[j].engine] \in Nat
          /\ rank[s[i].engine] \in Succeeded(Gathered, s[i].engine) /\ rank[s[i].engine] \in Nat
      BY <1>6, <1>7, <2>7
    <2>9. x < rank[s[i].engine] /\ x \in Nat
      <3>1. Gathered \in Seq(AnswerRecord)
        BY ListsCount DEF IInv
      <3> QED
        BY <2>7, <2>8, <3>1 DEF Succeeded
    <2> QED
      BY <2>8, <2>9
  <1>9. s[j] \in Places(k)
    BY <1>4, <1>5 DEF Of, ToSet
  <1>10. ASSUME NEW other \in Places(k)
         PROVE  /\ other.position \in Nat /\ rank[other.engine] \in Nat
                /\ other # s[j] =>
                     \/ s[j].position < other.position
                     \/ /\ s[j].position = other.position
                        /\ rank[s[j].engine] < rank[other.engine]
    <2>1. PICK i \in DOMAIN s : other = s[i] /\ PageOf(s[i]) = k
      BY <1>4 DEF Of, ToSet
    <2>2. i \in Nat /\ j \in Nat
      BY <1>3
    <2>3. s[i].position \in Nat /\ rank[s[i].engine] \in Nat
      BY <1>6, <1>7
    <2>4. i = j \/ j < i \/ ~ (j <= i)
      BY <2>2
    <2> QED
      BY <1>5, <1>8, <2>1, <2>3, <2>4
  <1> QED
    BY <1>5, <1>9, <1>10

\* What is shown of a page comes from its hits: the URL from the one at the
\* best position, of the engine named first where positions tie, the texts the
\* longest (fusion.py:88-101); no order of settling changes it.
THEOREM ShownIsBest == Spec => []ShownFromBestHit
  <1>1. ASSUME IInv PROVE ShownFromBestHit
    <2> SUFFICES ASSUME pc = "returned", NEW r \in DOMAIN result
                 PROVE  LET places == Places(NormalizeUrl(result[r].url))
                            rank(place) == Min({i \in DOMAIN outcomes :
                                                  engines[i] = place.engine /\ outcomes[i] # Failed})
                            first == CHOOSE place \in places :
                                       \A other \in places \ {place} :
                                         \/ place.position < other.position
                                         \/ /\ place.position = other.position
                                            /\ rank(place) < rank(other)
                        IN  /\ result[r].url = first.hit.url
                            /\ result[r].title = Max({place.hit.title : place \in places})
                            /\ result[r].snippet = Max({place.hit.snippet : place \in places})
      BY DEF ShownFromBestHit
    <2> DEFINE agg == Aggregate(PerEngine)
               sorted == Ordered(agg)
               k == sorted[r]
               places == Places(k)
    <2>1. Returned(agg, sorted)
      BY <1>1, ReturnedIsFused
    <2> HIDE DEF agg, sorted
    <2>2. /\ k \in Pages /\ NormalizeUrl(result[r].url) = k
          /\ result[r].url = agg[k].url
          /\ result[r].title = agg[k].title /\ result[r].snippet = agg[k].snippet
      BY <2>1 DEF Returned, Sorted, ToSet
    <2>3. Longest(agg[k], Places(k)) /\ FirstBest(agg[k], Appearances(PerEngine), k)
      BY <2>1, <2>2 DEF Returned
    <2> HIDE DEF k
    <2> DEFINE tasks(e) == {i \in DOMAIN outcomes : engines[i] = e /\ outcomes[i] # Failed}
               rank == [e \in ToSet(Registry) |-> Min(tasks(e))]
    <2>4. /\ Gathered \in Seq(AnswerRecord)
          /\ \A e : tasks(e) = Succeeded(Gathered, e)
      BY <1>1, ListsCount DEF IInv, Succeeded
    <2>5. \A place \in places : place.engine \in ToSet(Registry)
      <3>1. Counted \subseteq HitList
        BY <1>1, ReturnedIsFused DEF ToSet
      <3> QED
        BY <3>1 DEF Places, HitList
    <2>6. \A e : Succeeded(Gathered, e) # {} => e \in ToSet(Registry)
      <3>1. \A i \in DOMAIN Gathered : Gathered[i].engine \in ToSet(Registry)
        <4>1. \A i \in DOMAIN Gathered : Gathered[i] \in AnswerRecord
          BY <2>4
        <4> QED
          BY <4>1 DEF AnswerRecord
      <3> QED
        BY <3>1 DEF Succeeded
    <2> HIDE DEF tasks
    <2>7. \A e : Succeeded(Gathered, e) # {} => rank[e] = Min(Succeeded(Gathered, e))
      BY <2>4, <2>6
    <2>8. \A place \in places : rank[place.engine] = Min(tasks(place.engine))
      BY <2>5
    <2> HIDE DEF rank
    <2>9. PICK best \in places :
            /\ agg[k].url = best.hit.url
            /\ \A other \in places :
                 /\ other.position \in Nat /\ rank[other.engine] \in Nat
                 /\ other # best =>
                      \/ best.position < other.position
                      \/ best.position = other.position /\ rank[best.engine] < rank[other.engine]
      BY <1>1, <2>2, <2>3, <2>7, FirstBestIsFirst
    <2> HIDE DEF places
    <2> DEFINE Leads(place) ==
                 \A other \in places \ {place} :
                   \/ place.position < other.position
                   \/ /\ place.position = other.position
                      /\ Min(tasks(place.engine)) < Min(tasks(other.engine))
    <2>10. Leads(best)
      BY <2>8, <2>9
    <2>11. ASSUME NEW place \in places, Leads(place) PROVE place = best
      <3>1. CASE place # best
        <4>1. \/ place.position < best.position
              \/ place.position = best.position /\ rank[place.engine] < rank[best.engine]
          BY <2>8, <2>11, <3>1
        <4>2. \/ best.position < place.position
              \/ best.position = place.position /\ rank[best.engine] < rank[place.engine]
          BY <2>9, <3>1
        <4>3. /\ best.position \in Nat /\ place.position \in Nat
              /\ rank[best.engine] \in Nat /\ rank[place.engine] \in Nat
          BY <2>9
        <4> QED
          BY <4>1, <4>2, <4>3
      <3> QED
        BY <3>1
    <2>12. (CHOOSE place \in places : Leads(place)) = best
      <3> HIDE DEF Leads
      <3> QED
        BY <2>10, <2>11
    <2>13. /\ result[r].title = Max({place.hit.title : place \in places})
           /\ result[r].snippet = Max({place.hit.snippet : place \in places})
      <3>1. \A place \in places : place.hit \in Hit
        <4>1. Counted \subseteq HitList
          BY <1>1, ReturnedIsFused DEF ToSet
        <4>2. \A answer \in Counted : \A p \in DOMAIN answer.hits : answer.hits[p] \in Hit
          BY <4>1 DEF HitList
        <4> QED
          BY <4>2 DEF places, Places
      <3>2. \A place \in places : place.hit.title \in Nat /\ place.hit.snippet \in Nat
        BY <3>1 DEF Hit
      <3>3. ASSUME NEW T \in SUBSET Nat, NEW m \in T, \A x \in T : x <= m PROVE m = Max(T)
        <4>1. m \in T /\ \A x \in T : m >= x
          BY <3>3
        <4>2. Max(T) \in T /\ \A x \in T : Max(T) >= x
          BY <4>1 DEF Max
        <4>3. m \in Nat /\ Max(T) \in Nat
          BY <4>1, <4>2
        <4>4. m >= Max(T) /\ Max(T) >= m
          BY <4>1, <4>2
        <4> QED
          BY ONLY <4>3, <4>4
      <3>4. /\ {place.hit.title : place \in places} \in SUBSET Nat
            /\ {place.hit.snippet : place \in places} \in SUBSET Nat
        BY <3>2
      <3>5. /\ agg[k].title \in {place.hit.title : place \in places}
            /\ \A x \in {place.hit.title : place \in places} : x <= agg[k].title
            /\ agg[k].snippet \in {place.hit.snippet : place \in places}
            /\ \A x \in {place.hit.snippet : place \in places} : x <= agg[k].snippet
        BY <2>3 DEF Longest, places
      <3>6. agg[k].title = Max({place.hit.title : place \in places})
        BY <3>3, <3>4, <3>5
      <3>7. agg[k].snippet = Max({place.hit.snippet : place \in places})
        BY <3>3, <3>4, <3>5
      <3> QED
        BY <2>2, <3>6, <3>7
    <2>14. result[r].url = (CHOOSE place \in places : Leads(place)).hit.url
      BY <2>2, <2>9, <2>12
    <2> QED
      BY <2>2, <2>13, <2>14 DEF Leads, tasks, places
  <1> QED
    BY <1>1, Inductive, PTL

\* A page above another comes before it by its weight.
LEMMA WeightOrders ==
  ASSUME NEW k \in PageKey, NEW l \in PageKey,
         Score(k) \in Nat, Score(l) \in Nat,
         Cardinality(Voters(k)) \in Nat, Cardinality(Voters(l)) \in Nat,
         \/ Score(k) > Score(l)
         \/ /\ Score(k) = Score(l)
            /\ \/ Cardinality(Voters(k)) > Cardinality(Voters(l))
               \/ Cardinality(Voters(k)) = Cardinality(Voters(l)) /\ KeyBefore(k, l)
  PROVE  KeyBefore(Weight(k), Weight(l))
  <1> DEFINE w(m) == Weight(m)
  <1>1. ASSUME NEW m \in {k, l}
        PROVE  /\ DOMAIN Weight(m) = 1..7
               /\ Weight(m)[1] = -Score(m) /\ Weight(m)[2] = -Cardinality(Voters(m))
               /\ \A n \in 1..5 : Weight(m)[n + 2] = m[n]
               /\ DOMAIN m = 1..5
    <2> DEFINE head == <<-Score(m), -Cardinality(Voters(m))>>
               whole == head \o m
    <2>1. m \in Seq(Int) /\ Len(m) = 5
      <3>1. m \in Seq(Nat) /\ Len(m) = 5
        BY DEF PageKey
      <3> QED
        BY <3>1
    <2>2. -Score(m) \in Int /\ -Cardinality(Voters(m)) \in Int
      OBVIOUS
    <2>3. /\ head \in Seq(Int) /\ Len(head) = 2
          /\ head[1] = -Score(m) /\ head[2] = -Cardinality(Voters(m))
      BY <2>2
    <2> HIDE DEF head
    <2>4. /\ whole \in Seq(Int) /\ Len(whole) = 7
          /\ \A i \in 1..7 : whole[i] = IF i <= 2 THEN head[i] ELSE m[i - 2]
      <3>1. /\ whole \in Seq(Int) /\ Len(whole) = Len(head) + Len(m)
            /\ \A i \in 1..(Len(head) + Len(m)) :
                 whole[i] = IF i <= Len(head) THEN head[i] ELSE m[i - Len(head)]
        BY <2>1, <2>3, ConcatProperties
      <3> HIDE DEF whole
      <3> QED
        BY <2>1, <2>3, <3>1
    <2>5. whole = Weight(m)
      BY DEF Weight, head
    <2> HIDE DEF whole
    <2>6. DOMAIN whole = 1..7 /\ DOMAIN m = 1..5
      BY <2>1, <2>4
    <2>7. whole[1] = head[1] /\ whole[2] = head[2] /\ \A n \in 1..5 : whole[n + 2] = m[n]
      BY <2>4
    <2> QED
      BY <2>3, <2>5, <2>6, <2>7
  <1>2. CASE Score(k) > Score(l)
    <2>1. 1 \in DOMAIN Weight(k) /\ Weight(k)[1] < Weight(l)[1]
      BY <1>1, <1>2
    <2>2. \A m \in 1..(1 - 1) : Weight(k)[m] = Weight(l)[m]
      OBVIOUS
    <2> QED
      BY <2>1, <2>2 DEF KeyBefore
  <1>3. CASE /\ Score(k) = Score(l)
             /\ Cardinality(Voters(k)) > Cardinality(Voters(l))
    <2>1. 2 \in DOMAIN Weight(k) /\ Weight(k)[2] < Weight(l)[2]
      BY <1>1, <1>3
    <2>2. \A m \in 1..(2 - 1) : Weight(k)[m] = Weight(l)[m]
      <3>1. Weight(k)[1] = Weight(l)[1]
        BY <1>1, <1>3
      <3> QED
        BY <3>1
    <2> QED
      BY <2>1, <2>2 DEF KeyBefore
  <1>4. CASE /\ Score(k) = Score(l) /\ Cardinality(Voters(k)) = Cardinality(Voters(l))
             /\ KeyBefore(k, l)
    <2>1. DOMAIN k = 1..5
      BY <1>1
    <2>2. PICK n \in 1..5 : k[n] < l[n] /\ \A m \in 1..(n - 1) : k[m] = l[m]
      BY <1>4, <2>1 DEF KeyBefore
    <2>3. n + 2 \in DOMAIN Weight(k) /\ Weight(k)[n + 2] < Weight(l)[n + 2]
      BY <1>1, <2>2
    <2>4. ASSUME NEW m \in 1..(n + 2 - 1) PROVE Weight(k)[m] = Weight(l)[m]
      <3>1. CASE m \in {1, 2}
        BY <1>1, <1>4, <3>1
      <3>2. CASE m \notin {1, 2}
        <4>1. m - 2 \in 1..(n - 1) /\ m - 2 \in 1..5 /\ (m - 2) + 2 = m
          BY <3>2
        <4>2. Weight(k)[m] = k[m - 2] /\ Weight(l)[m] = l[m - 2]
          BY <1>1, <4>1
        <4> QED
          BY <2>2, <4>1, <4>2
      <3> QED
        BY <3>1, <3>2
    <2> QED
      BY <2>3, <2>4 DEF KeyBefore
  <1> QED
    BY <1>2, <1>3, <1>4

\* The pages returned are distinct, carry their exact scores, and none comes
\* before or instead of one that ranks higher (fusion.py:103-117, api.py:81).
THEOREM RankingIsExact == Spec => []RankingExact
  <1>1. ASSUME IInv PROVE RankingExact
    <2> DEFINE key(r) == NormalizeUrl(result[r].url)
               kept == {key(r) : r \in DOMAIN result}
               agg == Aggregate(PerEngine)
               sorted == Ordered(agg)
               n == Len(result)
    <2> SUFFICES ASSUME pc = "returned"
                 PROVE  /\ n = Cardinality(kept)
                        /\ \/ kept = Pages
                           \/ n = count /\ kept \subseteq Pages
                        /\ \A r \in DOMAIN result :
                             /\ result[r].score = Score(key(r))
                             /\ result[r].score = SumFunction(result[r].breakdown)
                             /\ DOMAIN result[r].breakdown = Voters(key(r))
                             /\ \A other \in (Pages \ kept) \cup {key(s) : s \in (r + 1)..n} :
                                  KeyBefore(Weight(key(r)), Weight(other))
      BY DEF RankingExact
    <2>1. Returned(agg, sorted)
      BY <1>1, ReturnedIsFused
    <2> HIDE DEF agg, sorted
    <2>2. /\ sorted \in Seq(Pages) /\ ToSet(sorted) = Pages /\ Once(sorted)
          /\ \A r, t \in DOMAIN sorted : r < t => Above(agg, sorted[r], sorted[t])
      BY <2>1 DEF Returned, Sorted
    <2>3. /\ n \in Nat /\ DOMAIN result = 1..n
          /\ n = IF count < Len(sorted) THEN count ELSE Len(sorted)
          /\ \A r \in DOMAIN result : r \in DOMAIN sorted /\ key(r) = sorted[r]
      BY <2>1 DEF Returned
    <2>4. DOMAIN sorted = 1..Len(sorted) /\ Len(sorted) \in Nat
      BY <2>2
    <2>5. kept \subseteq Pages
      BY <2>2, <2>3
    <2>6. kept = {sorted[r] : r \in 1..n}
      BY <2>3
    <2>7. \A k \in Pages : /\ agg[k].score = Score(k) /\ Score(k) \in Nat
                           /\ agg[k].score = SumFunction(agg[k].breakdown)
                           /\ DOMAIN agg[k].breakdown = Voters(k)
      BY <2>1 DEF Returned, Tallied, Worth, Score, Voters
    <2>8. ASSUME NEW r \in DOMAIN result
          PROVE  /\ key(r) = sorted[r] /\ sorted[r] \in Pages
                 /\ result[r].score = agg[sorted[r]].score
                 /\ result[r].breakdown = agg[sorted[r]].breakdown
      BY <2>1, <2>2, <2>3 DEF Returned
    <2> HIDE DEF key, kept, n
    <2>9. n = Cardinality(kept)
      <3> DEFINE f == [r \in 1..n |-> sorted[r]]
      <3>1. f \in Surjection(1..n, kept)
        BY <2>6 DEF Surjection
      <3>2. \A r, t \in 1..n : f[r] = f[t] => r = t
        BY <2>2, <2>3 DEF Once
      <3>3. f \in Injection(1..n, kept)
        BY <3>1, <3>2 DEF Surjection, Injection, IsInjective
      <3>4. IsFiniteSet(1..n) /\ Cardinality(1..n) = n
        <4>1. 1 \in Int /\ n \in Int /\ n \in Nat
          BY <2>3
        <4>2. IsFiniteSet(1..n) /\ Cardinality(1..n) = IF 1 > n THEN 0 ELSE n - 1 + 1
          BY ONLY <4>1, FS_Interval
        <4> QED
          BY <4>1, <4>2
      <3> HIDE DEF f
      <3>5. Cardinality(kept) = Cardinality(1..n)
        BY <3>1, <3>3, <3>4, FS_Surjection
      <3> QED
        BY <3>4, <3>5
    <2>10. kept = Pages \/ (n = count /\ kept \subseteq Pages)
      <3>1. CASE n = Len(sorted)
        BY <2>2, <2>4, <2>6, <3>1 DEF ToSet
      <3>2. CASE n # Len(sorted)
        BY <2>3, <2>5, <3>2
      <3> QED
        BY <3>1, <3>2
    <2>11. \A k \in Pages : Cardinality(Voters(k)) = Consensus(agg[k])
      BY <2>7 DEF Consensus
    <2>12. \A k \in Pages : Consensus(agg[k]) \in Nat
      <3> SUFFICES ASSUME NEW k \in Pages PROVE Cardinality(Voters(k)) \in Nat
        BY <2>11
      <3> DEFINE eng == [place \in Places(k) |-> place.engine]
      <3>1. eng \in Surjection(Places(k), Voters(k))
        BY DEF Surjection, Voters
      <3>2. IsFiniteSet(Places(k))
        BY <1>1, PlacesFinite
      <3> HIDE DEF eng
      <3> QED
        BY <3>1, <3>2, FS_Surjection, FS_CardinalityType
    <2>13. ASSUME NEW r \in DOMAIN result,
                  NEW other \in (Pages \ kept) \cup {key(s) : s \in (r + 1)..n}
           PROVE  KeyBefore(Weight(key(r)), Weight(other))
      <3>1. PICK t \in DOMAIN sorted : other = sorted[t] /\ r < t
        <4>1. CASE other \in Pages \ kept
          <5>1. PICK t \in DOMAIN sorted : other = sorted[t]
            BY <2>2, <4>1 DEF ToSet
          <5>2. t \notin 1..n
            BY <2>6, <4>1, <5>1
          <5>3. r < t
            <6>1. r \in 1..n /\ t \in 1..Len(sorted) /\ n \in Nat /\ Len(sorted) \in Nat
              BY <2>3, <2>4
            <6> QED
              BY <5>2, <6>1
          <5> QED
            BY <5>1, <5>3
        <4>2. CASE other \in {key(s) : s \in (r + 1)..n}
          <5>1. PICK t \in (r + 1)..n : other = key(t)
            BY <4>2
          <5>2. t \in DOMAIN result /\ r < t
            BY <2>3, <5>1
          <5> QED
            BY <2>3, <2>8, <5>1, <5>2
        <4> QED
          BY <4>1, <4>2
      <3>2. Above(agg, key(r), other) /\ key(r) \in Pages /\ other \in Pages
        BY <2>2, <2>3, <2>8, <3>1
      <3>3. key(r) \in PageKey /\ other \in PageKey
        BY <2>1, <3>2 DEF Returned
      <3> QED
        BY <2>7, <2>11, <2>12, <3>2, <3>3, WeightOrders DEF Above
    <2> QED
      BY <2>7, <2>8, <2>9, <2>10, <2>13
  <1> QED
    BY <1>1, Inductive, PTL

\* What the fusion of a set of lists ranks does not depend on their order.
LEMMA ExactIsUnique ==
  ASSUME NEW L, NEW lists, NEW agg, NEW sorted, NEW fused,
         Exact(lists, L, agg, sorted, fused),
         NEW lists2, NEW agg2, NEW sorted2, NEW fused2,
         Exact(lists2, L, agg2, sorted2, fused2)
  PROVE  /\ DOMAIN fused2 = DOMAIN fused
         /\ \A r \in DOMAIN fused :
              /\ NormalizeUrl(fused2[r].url) = NormalizeUrl(fused[r].url)
              /\ fused2[r].score = fused[r].score
              /\ fused2[r].breakdown = fused[r].breakdown
  <1>1. /\ Sorted(agg, sorted) /\ Sorted(agg2, sorted2)
        /\ DOMAIN agg2 = DOMAIN agg
        /\ DOMAIN fused = DOMAIN sorted /\ DOMAIN fused2 = DOMAIN sorted2
    BY DEF Exact
  <1>2. ASSUME NEW k \in DOMAIN agg
        PROVE  agg2[k].score = agg[k].score /\ agg2[k].breakdown = agg[k].breakdown
    <2> DEFINE A == Showing(L, k)
    <2>1. Tallied(agg[k], A) /\ Tallied(agg2[k], A)
      BY <1>1 DEF Exact
    <2> HIDE DEF A
    <2>2. agg2[k].score = agg[k].score
      BY <2>1 DEF Tallied
    <2>3. /\ agg[k].breakdown \in [{a.engine : a \in A} -> Nat]
          /\ agg2[k].breakdown \in [{a.engine : a \in A} -> Nat]
          /\ \A e \in {a.engine : a \in A} : agg2[k].breakdown[e] = agg[k].breakdown[e]
      BY <2>1 DEF Tallied
    <2>4. agg2[k].breakdown = agg[k].breakdown
      BY <2>3
    <2> QED
      BY <2>2, <2>4
  <1>3. \A k, l \in DOMAIN agg : Above(agg2, k, l) <=> Above(agg, k, l)
    BY <1>2 DEF Above, Consensus
  <1>4. \A k \in DOMAIN agg : Rank(agg2, k) = Rank(agg, k)
    <2>1. \A k \in DOMAIN agg :
            {l \in DOMAIN agg2 : Above(agg2, l, k)} = {l \in DOMAIN agg : Above(agg, l, k)}
      BY <1>1, <1>3
    <2> QED
      BY <2>1 DEF Rank
  <1>5. DOMAIN sorted2 = DOMAIN sorted
    <2>1. /\ sorted \in Seq(DOMAIN agg) /\ sorted2 \in Seq(DOMAIN agg)
          /\ Len(sorted) = Len(sorted2)
      BY <1>1 DEF Sorted
    <2> QED
      BY <2>1
  <1>6. ASSUME NEW r \in DOMAIN sorted PROVE sorted2[r] = sorted[r] /\ sorted[r] \in DOMAIN agg
    <2>1. sorted[r] \in DOMAIN agg /\ sorted2[r] \in DOMAIN agg
      BY <1>1, <1>5 DEF Sorted, ToSet
    <2>2. Rank(agg, sorted[r]) = r - 1 /\ Rank(agg2, sorted2[r]) = r - 1
      BY <1>1, <1>5 DEF Sorted
    <2>3. Rank(agg, sorted[r]) = Rank(agg, sorted2[r])
      BY <1>4, <2>1, <2>2
    <2> QED
      BY <1>1, <2>1, <2>3 DEF Sorted
  <1>7. ASSUME NEW r \in DOMAIN sorted
        PROVE  /\ NormalizeUrl(fused2[r].url) = NormalizeUrl(fused[r].url)
               /\ fused2[r].score = fused[r].score
               /\ fused2[r].breakdown = fused[r].breakdown
    <2>1. /\ NormalizeUrl(fused[r].url) = sorted[r]
          /\ fused[r].score = agg[sorted[r]].score
          /\ fused[r].breakdown = agg[sorted[r]].breakdown
      BY DEF Exact
    <2>2. /\ NormalizeUrl(fused2[r].url) = sorted2[r]
          /\ fused2[r].score = agg2[sorted2[r]].score
          /\ fused2[r].breakdown = agg2[sorted2[r]].breakdown
      BY <1>5 DEF Exact
    <2> QED
      BY <1>2, <1>6, <2>1, <2>2
  <1> QED
    BY <1>1, <1>5, <1>7

\* The pages, their scores and their order are the same whatever the order in
\* which the engines are named (fusion.py:78-117).
THEOREM RankingIsOrderFree == Spec => []RankingOrderFree
  <1>1. ASSUME IInv PROVE RankingOrderFree
    <2> DEFINE scored(fused) ==
                 {<<NormalizeUrl(f.url), f.score, f.breakdown>> : f \in ToSet(fused)}
               before(fused) ==
                 {pair \in Pages \X Pages :
                    /\ Comparable(pair[1], pair[2])
                    /\ \E r, t \in DOMAIN fused :
                         /\ r < t /\ NormalizeUrl(fused[r].url) = pair[1]
                         /\ NormalizeUrl(fused[t].url) = pair[2]}
    <2> SUFFICES ASSUME pc = "returned", NEW lists \in SetToSeqs(ToSet(PerEngine))
                 PROVE  /\ scored(Fuse(lists)) = scored(Fuse(PerEngine))
                        /\ before(Fuse(lists)) = before(Fuse(PerEngine))
      BY DEF RankingOrderFree
    <2> DEFINE S == ToSet(PerEngine)
               D == 1..Cardinality(S)
    <2>1. PerEngine \in Seq(HitList) /\ OnePerEngine(PerEngine)
      BY <1>1, ReturnedIsFused
    <2>2. S \subseteq HitList /\ IsFiniteSet(S) /\ Cardinality(S) \in Nat
      <3>1. /\ PerEngine \in [DOMAIN PerEngine -> S]
            /\ DOMAIN PerEngine = 1..Len(PerEngine) /\ Len(PerEngine) \in Nat
            /\ S \subseteq HitList
        BY <2>1 DEF ToSet
      <3>2. PerEngine \in Surjection(DOMAIN PerEngine, S)
        BY <3>1 DEF Surjection, ToSet
      <3>3. IsFiniteSet(DOMAIN PerEngine)
        <4>1. 1 \in Int /\ Len(PerEngine) \in Int
          BY <3>1
        <4> QED
          BY <3>1, <4>1, FS_Interval
      <3> HIDE DEF S
      <3> QED
        BY <3>1, <3>2, <3>3, FS_Surjection, FS_CardinalityType
    <2>3. lists \in [D -> S] /\ \A i, j \in D : i # j => lists[i] # lists[j]
      BY DEF SetToSeqs
    <2>4. ToSet(lists) = S
      <3> HIDE DEF S
      <3>1. lists \in Injection(D, S)
        BY <2>3 DEF Injection, IsInjective
      <3>2. Cardinality(D) = Cardinality(S)
        <4> DEFINE c == Cardinality(S)
        <4>1. 1 \in Int /\ c \in Int /\ c \in Nat
          BY <2>2
        <4> HIDE DEF c
        <4>2. Cardinality(1..c) = IF 1 > c THEN 0 ELSE c - 1 + 1
          BY ONLY <4>1, FS_Interval
        <4> QED
          BY <4>1, <4>2 DEF c
      <3>3. lists \in Surjection(D, S)
        BY <2>2, <3>1, <3>2, FS_Injection
      <3> QED
        BY <2>3, <3>3 DEF Surjection, ToSet
    <2>5. lists \in Seq(HitList)
      BY <2>2, <2>3
    <2>6. OnePerEngine(lists)
      <3>1. \A a, b \in S : a.engine = b.engine => a = b
        BY <2>1 DEF OnePerEngine, ToSet
      <3> HIDE DEF S
      <3>2. \A m, n \in D : lists[m].engine = lists[n].engine => m = n
        BY <2>3, <3>1
      <3> QED
        BY <2>3, <3>2 DEF OnePerEngine
    <2>7. HitList = Lists(ToSet(Registry))
      BY DEF HitList, Lists
    <2> HIDE DEF S, D
    <2> DEFINE fused == Fuse(PerEngine)
               fused2 == Fuse(lists)
    <2>8. Exact(PerEngine, S, Aggregate(PerEngine), Ordered(Aggregate(PerEngine)), fused)
      BY <2>1, <2>7, FusionIsExact DEF S
    <2>9. Exact(lists, S, Aggregate(lists), Ordered(Aggregate(lists)), fused2)
      BY <2>4, <2>5, <2>6, <2>7, FusionIsExact
    <2> HIDE DEF fused, fused2
    <2>10. /\ DOMAIN fused2 = DOMAIN fused
           /\ \A r \in DOMAIN fused :
                /\ NormalizeUrl(fused2[r].url) = NormalizeUrl(fused[r].url)
                /\ fused2[r].score = fused[r].score
                /\ fused2[r].breakdown = fused[r].breakdown
      BY <2>8, <2>9, ExactIsUnique
    <2>11. scored(fused2) = scored(fused)
      <3> DEFINE row(f) == <<NormalizeUrl(f.url), f.score, f.breakdown>>
      <3>1. \A r \in DOMAIN fused : row(fused2[r]) = row(fused[r])
        BY <2>10
      <3> HIDE DEF row
      <3>2. {row(f) : f \in ToSet(fused2)} = {row(f) : f \in ToSet(fused)}
        BY <2>10, <3>1 DEF ToSet
      <3> QED
        BY <3>2 DEF row
    <2>12. before(fused2) = before(fused)
      BY <2>10
    <2> QED
      BY <2>11, <2>12 DEF fused, fused2
  <1> QED
    BY <1>1, Inductive, PTL

-------------------------------------------------------------------------------
(* What the parser reads, token by token: what is open, and the hits kept,  *)
(* after a page s follow from what was open before its last token.          *)

\* What the parser makes of an href, and of the title closed at t.
Unwrapped(href) == IF href.form = "broken" THEN NoUrl ELSE UnwrapDdg(href)
HitRead(page, kept, t) ==
  [ url     |-> Unwrapped(HrefAt(page, t)),
    title   |-> TitleText(page, t),
    snippet |-> SnippetAt(page, kept, t) ]

Here(s) == Len(s) + 1
Closed(s) == {t \in DOMAIN s : ClosesTitle(s, t)}
Kept(s) == {t \in Closed(s) : Target(HrefAt(s, t)) # NoUrl}
Place(kept, t) == Cardinality({u \in kept : u <= t})
BrokenTitle(s) == \E t \in Closed(s) : HrefAt(s, t).form = "broken"

\* The places before t where an anchor of this kind opens.
Opened(page, kind, t) == {o \in 1..(t - 1) : page[o].kind = kind}

LEMMA LastMember ==
  ASSUME NEW s, NEW kind, NEW t \in Nat, Opened(s, kind, t) # {}
  PROVE  LastOf(s, kind, t) \in Opened(s, kind, t)
  <1>1. Opened(s, kind, t) \in SUBSET (1..(t - 1)) /\ 1..(t - 1) \subseteq Nat
    BY DEF Opened
  <1>2. 1 \in Int /\ t - 1 \in Int
    OBVIOUS
  <1>3. IsFiniteSet(1..(t - 1))
    BY ONLY <1>2, FS_Interval
  <1>4. IsFiniteSet(Opened(s, kind, t))
    BY ONLY <1>1, <1>3, FS_Subset
  <1>5. Collates!IsFiniteSet(Opened(s, kind, t))
    BY <1>4 DEF IsFiniteSet, Collates!IsFiniteSet
  <1>6. Collates!Max(Opened(s, kind, t)) \in Opened(s, kind, t)
    <2>1. Opened(s, kind, t) \in SUBSET Nat
      BY <1>1
    <2> QED
      BY ONLY <2>1, <1>5, Collates!MaxMember, Opened(s, kind, t) # {}
  <1> QED
    BY <1>6 DEF LastOf, Opened, Max, Collates!Max

\* What is open before t, and the text in it, depends on the tokens before t.
SameBefore(s, r, t) ==
  /\ InTitle(r, t) <=> InTitle(s, t)
  /\ InSnippet(r, t) <=> InSnippet(s, t)
  /\ \A kind : LastOf(r, kind, t) = LastOf(s, kind, t)
  /\ InTitle(s, t) => HrefAt(r, t) = HrefAt(s, t) /\ TitleText(r, t) = TitleText(s, t)
  /\ InSnippet(s, t) => SnippetText(r, t) = SnippetText(s, t)

LEMMA TextType ==
  ASSUME NEW s \in Seq(PageToken), NEW P \in SUBSET DOMAIN s
  PROVE  Text(s, P) \in Nat
  <1> DEFINE D == {o \in P : s[o].kind = "data"}
             f == [d \in D |-> s[d].text]
  <1>1. IsFiniteSet(D)
    <2>1. 1 \in Int /\ Len(s) \in Int /\ DOMAIN s = 1..Len(s)
      OBVIOUS
    <2>2. IsFiniteSet(DOMAIN s)
      BY ONLY <2>1, FS_Interval
    <2>3. D \in SUBSET DOMAIN s
      OBVIOUS
    <2> QED
      BY ONLY <2>2, <2>3, FS_Subset
  <1>2. \A d \in D : f[d] \in Nat
    <2>1. \A d \in D : s[d] \in PageToken
      OBVIOUS
    <2> QED
      BY <2>1 DEF PageToken
  <1>3. DOMAIN f = D
    OBVIOUS
  <1> HIDE DEF f, D
  <1>4. SumOver(f, D) \in Nat
    BY ONLY <1>1, <1>2, SumType
  <1> QED
    BY <1>3, <1>4, SumIsSumOver DEF Text, f, D

\* The text at the places P, and at one more place at the end.
LEMMA TextAppend ==
  ASSUME NEW s \in Seq(PageToken), NEW x \in PageToken, NEW P \in SUBSET DOMAIN s
  PROVE  /\ Text(Append(s, x), P) = Text(s, P)
         /\ Text(Append(s, x), P \cup {Here(s)}) =
              Text(s, P) + (IF x.kind = "data" THEN x.text ELSE 0)
  <1> DEFINE r == Append(s, x)
             D == {o \in P : s[o].kind = "data"}
             f == [d \in D |-> s[d].text]
             E == {o \in P \cup {Here(s)} : r[o].kind = "data"}
             g == [d \in E |-> r[d].text]
  <1>1. /\ \A o \in P : r[o] = s[o]
        /\ r[Here(s)] = x /\ Here(s) \notin P
    BY DEF Here
  <1> HIDE DEF r
  <1>2. Text(r, P) = Text(s, P)
    <2>1. {o \in P : r[o].kind = "data"} = D
      BY <1>1
    <2>2. [d \in D |-> r[d].text] = f
      BY <1>1
    <2> QED
      BY <2>1, <2>2 DEF Text
  <1>3. x.text \in Nat
    BY DEF PageToken
  <1>4. CASE x.kind # "data"
    <2>1. E = D
      BY <1>1, <1>4
    <2>2. g = f
      BY <1>1, <2>1
    <2>3. Text(r, P \cup {Here(s)}) = Text(s, P)
      BY <2>2 DEF Text
    <2>4. Text(s, P) \in Nat
      BY TextType
    <2> QED
      BY <1>2, <1>4, <2>3, <2>4 DEF r
  <1>5. CASE x.kind = "data"
    <2>1. E = D \cup {Here(s)} /\ Here(s) \notin D
      BY <1>1, <1>5
    <2>2. IsFiniteSet(D)
      <3>1. 1 \in Int /\ Len(s) \in Int /\ DOMAIN s = 1..Len(s)
        OBVIOUS
      <3>2. IsFiniteSet(DOMAIN s)
        BY ONLY <3>1, FS_Interval
      <3>3. D \in SUBSET DOMAIN s
        OBVIOUS
      <3> QED
        BY ONLY <3>2, <3>3, FS_Subset
    <2>3. \A d \in D : f[d] \in Nat
      <3>1. \A d \in D : s[d] \in PageToken
        OBVIOUS
      <3> QED
        BY <3>1 DEF PageToken
    <2>4. DOMAIN f = D /\ DOMAIN g = DOMAIN f \cup {Here(s)}
      BY <2>1
    <2>5. \A d \in D : g[d] = f[d]
      BY <1>1, <2>1
    <2>6. g[Here(s)] = x.text /\ Here(s) \notin DOMAIN f
      BY <1>1, <2>1
    <2>7. /\ Text(s, P) = SumFunction(f)
          /\ Text(r, P \cup {Here(s)}) = SumFunction(g)
      BY DEF Text
    <2> HIDE DEF f, g, D, E
    <2> DEFINE n == Here(s)
               amount == x.text
    <2>8. IsFiniteSet(DOMAIN f) /\ (\A d \in DOMAIN f : f[d] \in Nat)
      BY <2>2, <2>3, <2>4
    <2>9. /\ DOMAIN g = DOMAIN f \cup {n}
          /\ \A d \in DOMAIN f \ {n} : g[d] = f[d]
          /\ g[n] = (IF n \in DOMAIN f THEN f[n] ELSE 0) + amount
      BY <1>3, <2>4, <2>5, <2>6
    <2>10. amount \in Nat
      BY <1>3
    <2> HIDE DEF n, amount
    <2>11. SumFunction(g) = SumFunction(f) + amount
      BY ONLY <2>8, <2>9, <2>10, SumOfOneMore
    <2> QED
      BY <1>2, <1>5, <2>7, <2>11 DEF r, amount
  <1> QED
    BY <1>4, <1>5

Extends(s, r) ==
  /\ \A t \in 1..Here(s) : SameBefore(s, r, t)
  /\ \A t \in DOMAIN s : /\ ClosesTitle(r, t) <=> ClosesTitle(s, t)
                         /\ ClosesSnippet(r, t) <=> ClosesSnippet(s, t)

LEMMA PrefixSame ==
  ASSUME NEW s \in Seq(PageToken), NEW x \in PageToken
  PROVE  Extends(s, Append(s, x))
  <1> DEFINE r == Append(s, x)
  <1>1. /\ Len(s) \in Nat /\ DOMAIN s = 1..Len(s) /\ Here(s) = Len(s) + 1
        /\ \A o \in 1..Len(s) : r[o] = s[o]
    BY DEF Here
  <1>2. \A P \in SUBSET DOMAIN s : Text(r, P) = Text(s, P)
    BY TextAppend
  <1> HIDE DEF r
  <1>3. ASSUME NEW t \in 1..Here(s)
        PROVE  InTitle(r, t) <=> InTitle(s, t)
    <2>1. \A o \in 1..(t - 1) : o \in 1..Len(s) /\ \A e \in (o + 1)..(t - 1) : e \in 1..Len(s)
      BY <1>1
    <2>2. \A o \in 1..(t - 1) : r[o] = s[o] /\ \A e \in (o + 1)..(t - 1) : r[e] = s[e]
      BY <1>1, <2>1
    <2> QED
      BY ONLY <2>2 DEF InTitle
  <1>4. ASSUME NEW t \in 1..Len(s)
        PROVE  ClosesTitle(r, t) <=> ClosesTitle(s, t)
    <2>1. t \in 1..Here(s)
      BY <1>1
    <2> QED
      BY <1>1, <1>3, <2>1 DEF ClosesTitle
  <1>5. ASSUME NEW t \in 1..Here(s)
        PROVE  InSnippet(r, t) <=> InSnippet(s, t)
    <2>1. \A o \in 1..(t - 1) : o \in 1..Len(s) /\ \A e \in (o + 1)..(t - 1) : e \in 1..Len(s)
      BY <1>1
    <2>2. \A o \in 1..(t - 1) :
            /\ r[o] = s[o]
            /\ \A e \in (o + 1)..(t - 1) :
                 r[e] = s[e] /\ (ClosesTitle(r, e) <=> ClosesTitle(s, e))
      BY <1>1, <1>4, <2>1
    <2> QED
      BY ONLY <2>2 DEF InSnippet
  <1>6. ASSUME NEW t \in 1..Len(s)
        PROVE  ClosesSnippet(r, t) <=> ClosesSnippet(s, t)
    <2>1. t \in 1..Here(s)
      BY <1>1
    <2> QED
      BY <1>1, <1>3, <1>5, <2>1 DEF ClosesSnippet
  <1>7. ASSUME NEW t \in 1..Here(s), NEW kind
        PROVE  LastOf(r, kind, t) = LastOf(s, kind, t)
    <2>1. \A o \in 1..(t - 1) : r[o] = s[o]
      BY <1>1
    <2>2. {o \in 1..(t - 1) : r[o].kind = kind} = {o \in 1..(t - 1) : s[o].kind = kind}
      BY <2>1
    <2> QED
      BY <2>2 DEF LastOf
  <1>8. ASSUME NEW t \in 1..Here(s), NEW kind, Opened(s, kind, t) # {}
        PROVE  LastOf(s, kind, t) \in 1..(t - 1)
    <2>1. t \in Nat
      BY <1>1
    <2> QED
      BY <1>8, <2>1, LastMember DEF Opened
  <1>9. ASSUME NEW t \in 1..Here(s), InTitle(s, t)
        PROVE  HrefAt(r, t) = HrefAt(s, t) /\ TitleText(r, t) = TitleText(s, t)
    <2> DEFINE l == LastOf(s, "title", t)
               P == {d \in l..(t - 1) : InTitle(s, d)}
    <2>1. Opened(s, "title", t) # {}
      BY <1>9 DEF InTitle, Opened
    <2>2. l \in 1..(t - 1) /\ LastOf(r, "title", t) = l
      BY <1>7, <1>8, <2>1
    <2> HIDE DEF l
    <2>3. HrefAt(r, t) = HrefAt(s, t)
      <3>1. r[l] = s[l]
        BY <1>1, <2>2
      <3> QED
        BY <2>2, <3>1 DEF HrefAt, l
    <2>4. \A d \in l..(t - 1) : d \in 1..Here(s) /\ d \in DOMAIN s
      BY <1>1, <2>2
    <2>5. {d \in l..(t - 1) : InTitle(r, d)} = P /\ P \in SUBSET DOMAIN s
      BY <1>3, <2>4
    <2> HIDE DEF P
    <2>6. TitleText(r, t) = TitleText(s, t)
      BY <1>2, <2>2, <2>5 DEF TitleText, P, l
    <2> QED
      BY <2>3, <2>6
  <1>10. ASSUME NEW t \in 1..Here(s), InSnippet(s, t)
         PROVE  SnippetText(r, t) = SnippetText(s, t)
    <2> DEFINE l == LastOf(s, "snippet", t)
               P == {d \in l..(t - 1) : ~ InTitle(s, d)}
    <2>1. Opened(s, "snippet", t) # {}
      BY <1>10 DEF InSnippet, Opened
    <2>2. l \in 1..(t - 1) /\ LastOf(r, "snippet", t) = l
      BY <1>7, <1>8, <2>1
    <2> HIDE DEF l
    <2>4. \A d \in l..(t - 1) : d \in 1..Here(s) /\ d \in DOMAIN s
      BY <1>1, <2>2
    <2>5. {d \in l..(t - 1) : ~ InTitle(r, d)} = P /\ P \in SUBSET DOMAIN s
      BY <1>3, <2>4
    <2> HIDE DEF P
    <2> QED
      BY <1>2, <2>2, <2>5 DEF SnippetText, P, l
  <1>11. \A t \in 1..Here(s) : SameBefore(s, r, t)
    BY <1>3, <1>5, <1>7, <1>9, <1>10 DEF SameBefore
  <1> QED
    BY <1>1, <1>4, <1>6, <1>11 DEF r, Extends

\* What the last token opens or closes.
Advances(s, x, r) ==
  LET n == Here(s)
  IN  /\ InTitle(r, n + 1) <=> x.kind = "title" \/ (x.kind # "end" /\ InTitle(s, n))
      /\ InSnippet(r, n + 1) <=>
           \/ x.kind = "snippet"
           \/ InSnippet(s, n) /\ (x.kind = "end" => InTitle(s, n))
      /\ ClosesTitle(r, n) <=> x.kind = "end" /\ InTitle(s, n)
      /\ ClosesSnippet(r, n) <=> x.kind = "end" /\ ~ InTitle(s, n) /\ InSnippet(s, n)
      /\ x.kind = "title" => HrefAt(r, n + 1) = x.href /\ TitleText(r, n + 1) = 0
      /\ x.kind \in {"snippet", "data"} /\ InTitle(s, n) =>
           /\ HrefAt(r, n + 1) = HrefAt(s, n)
           /\ TitleText(r, n + 1) =
                TitleText(s, n) + (IF x.kind = "data" THEN x.text ELSE 0)
      /\ x.kind = "snippet" => SnippetText(r, n + 1) = 0
      /\ x.kind # "snippet" /\ InSnippet(s, n) =>
           SnippetText(r, n + 1) =
             SnippetText(s, n) + (IF x.kind = "data" /\ ~ InTitle(s, n) THEN x.text ELSE 0)

LEMMA TokenAdvances ==
  ASSUME NEW s \in Seq(PageToken), NEW x \in PageToken
  PROVE  Advances(s, x, Append(s, x))
  <1> DEFINE r == Append(s, x)
             n == Here(s)
  <1>1. /\ Len(s) \in Nat /\ DOMAIN s = 1..Len(s) /\ n = Len(s) + 1 /\ n \in Nat
        /\ \A o \in 1..Len(s) : r[o] = s[o]
        /\ r[n] = x /\ r \in Seq(PageToken) /\ n \in DOMAIN r /\ n \in 1..Here(s)
    BY DEF Here
  <1>2. /\ \A t \in 1..Here(s) : SameBefore(s, r, t)
        /\ \A t \in DOMAIN s : ClosesTitle(r, t) <=> ClosesTitle(s, t)
    BY PrefixSame DEF Extends
  <1>3. \A P \in SUBSET DOMAIN s :
          /\ Text(r, P) = Text(s, P)
          /\ Text(r, P \cup {n}) = Text(s, P) + (IF x.kind = "data" THEN x.text ELSE 0)
    BY TextAppend
  <1> HIDE DEF r, n
  <1>4. (InTitle(r, n) <=> InTitle(s, n)) /\ (InSnippet(r, n) <=> InSnippet(s, n))
    BY <1>1, <1>2 DEF SameBefore
  <1>5. /\ ClosesTitle(r, n) <=> x.kind = "end" /\ InTitle(s, n)
        /\ ClosesSnippet(r, n) <=> x.kind = "end" /\ ~ InTitle(s, n) /\ InSnippet(s, n)
    BY <1>1, <1>4 DEF ClosesTitle, ClosesSnippet
  <1>6. InTitle(r, n + 1) <=> x.kind = "title" \/ (x.kind # "end" /\ InTitle(s, n))
    <2>1. (n + 1) - 1 = n /\ n - 1 = Len(s) /\ 1..n = 1..(n - 1) \cup {n}
      BY <1>1
    <2>2. /\ (n + 1)..n = {} /\ \A o \in 1..(n - 1) : (o + 1)..n = (o + 1)..(n - 1) \cup {n}
      BY <1>1
    <2>3. InTitle(r, n + 1) <=>
            \E o \in 1..n : r[o].kind = "title" /\ \A e \in (o + 1)..n : r[e].kind # "end"
      BY <2>1 DEF InTitle
    <2>4. InTitle(r, n) <=>
            \E o \in 1..(n - 1) : /\ r[o].kind = "title"
                                  /\ \A e \in (o + 1)..(n - 1) : r[e].kind # "end"
      BY DEF InTitle
    <2>5. ASSUME NEW o \in 1..(n - 1)
          PROVE  (\A e \in (o + 1)..n : r[e].kind # "end") <=>
                   x.kind # "end" /\ \A e \in (o + 1)..(n - 1) : r[e].kind # "end"
      BY <1>1, <2>2
    <2>6. x.kind = "title" => InTitle(r, n + 1)
      BY <1>1, <2>1, <2>2, <2>3
    <2>7. x.kind # "end" /\ InTitle(r, n) => InTitle(r, n + 1)
      BY <2>1, <2>3, <2>4, <2>5
    <2>8. ASSUME InTitle(r, n + 1), x.kind # "title"
          PROVE  x.kind # "end" /\ InTitle(r, n)
      <3>1. PICK o \in 1..n : r[o].kind = "title" /\ \A e \in (o + 1)..n : r[e].kind # "end"
        BY <2>3, <2>8
      <3>2. o \in 1..(n - 1)
        BY <1>1, <2>1, <2>8, <3>1
      <3> QED
        BY <2>4, <2>5, <3>1, <3>2
    <2> QED
      BY <1>4, <2>6, <2>7, <2>8
  <1>7. InSnippet(r, n + 1) <=>
          \/ x.kind = "snippet"
          \/ InSnippet(s, n) /\ (x.kind = "end" => InTitle(s, n))
    <2> DEFINE passes(e) == r[e].kind = "end" => ClosesTitle(r, e)
    <2>1. (n + 1) - 1 = n /\ n - 1 = Len(s) /\ 1..n = 1..(n - 1) \cup {n}
      BY <1>1
    <2>2. /\ (n + 1)..n = {} /\ \A o \in 1..(n - 1) : (o + 1)..n = (o + 1)..(n - 1) \cup {n}
      BY <1>1
    <2>3. InSnippet(r, n + 1) <=>
            \E o \in 1..n : r[o].kind = "snippet" /\ \A e \in (o + 1)..n : passes(e)
      BY <2>1 DEF InSnippet
    <2>4. InSnippet(r, n) <=>
            \E o \in 1..(n - 1) : /\ r[o].kind = "snippet"
                                  /\ \A e \in (o + 1)..(n - 1) : passes(e)
      BY DEF InSnippet
    <2>02. passes(n) <=> (x.kind = "end" => InTitle(s, n))
      BY <1>1, <1>5
    <2> HIDE DEF passes
    <2>5. ASSUME NEW o \in 1..(n - 1)
          PROVE  (\A e \in (o + 1)..n : passes(e)) <=>
                   passes(n) /\ \A e \in (o + 1)..(n - 1) : passes(e)
      BY <2>2
    <2>6. x.kind = "snippet" => InSnippet(r, n + 1)
      BY <1>1, <2>1, <2>2, <2>3
    <2>7. passes(n) /\ InSnippet(r, n) => InSnippet(r, n + 1)
      BY <2>1, <2>3, <2>4, <2>5
    <2>8. ASSUME InSnippet(r, n + 1), x.kind # "snippet"
          PROVE  passes(n) /\ InSnippet(r, n)
      <3>1. PICK o \in 1..n : r[o].kind = "snippet" /\ \A e \in (o + 1)..n : passes(e)
        BY <2>3, <2>8
      <3>2. o \in 1..(n - 1)
        BY <1>1, <2>1, <2>8, <3>1
      <3> QED
        BY <2>4, <2>5, <3>1, <3>2
    <2> QED
      BY <1>4, <2>02, <2>6, <2>7, <2>8
  <1>8. ASSUME NEW kind, x.kind = kind PROVE LastOf(r, kind, n + 1) = n
    <2> DEFINE O == Opened(r, kind, n + 1)
    <2>1. n \in O /\ \A o \in O : o \in 1..n
      BY <1>1, <1>8 DEF Opened
    <2>2. LastOf(r, kind, n + 1) \in O /\ \A o \in O : LastOf(r, kind, n + 1) >= o
      <3>1. O \in SUBSET Nat /\ IsFiniteSet(O)
        <4>1. 1 \in Int /\ n \in Int
          BY <1>1
        <4>2. IsFiniteSet(1..n)
          BY ONLY <4>1, FS_Interval
        <4>3. O \in SUBSET (1..n)
          BY <2>1
        <4>4. IsFiniteSet(O)
          BY ONLY <4>2, <4>3, FS_Subset
        <4> QED
          BY <4>3, <4>4
      <3>2. Collates!IsFiniteSet(O)
        BY <3>1 DEF IsFiniteSet, Collates!IsFiniteSet
      <3> HIDE DEF O
      <3>3. Collates!Max(O) \in O /\ \A o \in O : Collates!Max(O) >= o
        BY <2>1, <3>1, <3>2, Collates!MaxMember
      <3> QED
        BY <3>3 DEF O, LastOf, Opened, Max, Collates!Max
    <2>3. LastOf(r, kind, n + 1) \in 1..n /\ LastOf(r, kind, n + 1) >= n
      <3> HIDE DEF O
      <3> QED
        BY <2>1, <2>2
    <2> QED
      BY <1>1, <2>3
  <1>9. ASSUME NEW kind, x.kind # kind PROVE LastOf(r, kind, n + 1) = LastOf(s, kind, n)
    <2>1. (n + 1) - 1 = n /\ 1..n = 1..(n - 1) \cup {n} /\ n - 1 = Len(s)
      BY <1>1
    <2>2. {o \in 1..((n + 1) - 1) : r[o].kind = kind} = {o \in 1..(n - 1) : s[o].kind = kind}
      BY <1>1, <1>9, <2>1
    <2> QED
      BY <2>2 DEF LastOf
  <1>10. Text(r, {}) = 0 /\ Text(r, {n}) = (IF x.kind = "data" THEN x.text ELSE 0)
    <2>1. Text(s, {}) = 0
      <3>1. SumFunction([d \in {o \in {} : s[o].kind = "data"} |-> s[d].text])
              = SumOver([d \in {o \in {} : s[o].kind = "data"} |-> s[d].text], {})
        BY SumIsSumOver
      <3> QED
        BY <3>1, SumEmpty DEF Text
    <2>2. x.text \in Nat
      BY DEF PageToken
    <2>3. {} \in SUBSET DOMAIN s /\ {} \cup {n} = {n}
      OBVIOUS
    <2> QED
      BY <1>3, <2>1, <2>2, <2>3
  <1>12. ASSUME x.kind = "title" PROVE HrefAt(r, n + 1) = x.href /\ TitleText(r, n + 1) = 0
    <2>1. LastOf(r, "title", n + 1) = n /\ (n + 1) - 1 = n
      BY <1>1, <1>8, <1>12
    <2>2. {d \in n..n : InTitle(r, d)} \in {{}, {n}}
      BY <1>1
    <2> QED
      BY <1>1, <1>10, <1>12, <2>1, <2>2 DEF HrefAt, TitleText
  <1>13. ASSUME x.kind = "snippet" PROVE SnippetText(r, n + 1) = 0
    <2>1. LastOf(r, "snippet", n + 1) = n /\ (n + 1) - 1 = n
      BY <1>1, <1>8, <1>13
    <2>2. {d \in n..n : ~ InTitle(r, d)} \in {{}, {n}}
      BY <1>1
    <2> QED
      BY <1>10, <1>13, <2>1, <2>2 DEF SnippetText
  <1>14. ASSUME x.kind \in {"snippet", "data"}, InTitle(s, n)
         PROVE  /\ HrefAt(r, n + 1) = HrefAt(s, n)
                /\ TitleText(r, n + 1) =
                     TitleText(s, n) + (IF x.kind = "data" THEN x.text ELSE 0)
    <2> DEFINE l == LastOf(s, "title", n)
               P == {d \in l..(n - 1) : InTitle(s, d)}
    <2>1. LastOf(r, "title", n + 1) = l /\ (n + 1) - 1 = n
      BY <1>1, <1>9, <1>14
    <2>2. l \in 1..(n - 1)
      <3>1. Opened(s, "title", n) # {}
        BY <1>14 DEF InTitle, Opened
      <3> QED
        BY <1>1, <3>1, LastMember DEF Opened
    <2> HIDE DEF l
    <2>3. HrefAt(r, n + 1) = HrefAt(s, n)
      BY <1>1, <2>1, <2>2 DEF HrefAt, l
    <2>4. P \in SUBSET DOMAIN s /\ {d \in l..n : InTitle(r, d)} = P \cup {n}
      <3>1. l..n = l..(n - 1) \cup {n} /\ \A d \in l..(n - 1) : d \in 1..Here(s) /\ d \in DOMAIN s
        <4>1. l \in Nat /\ 1 <= l /\ l <= n - 1 /\ Here(s) = n
          BY <1>1, <2>2 DEF n
        <4>2. l..n = l..(n - 1) \cup {n}
          BY <1>1, <4>1
        <4> QED
          BY <1>1, <4>1, <4>2
      <3>2. \A d \in l..(n - 1) : InTitle(r, d) <=> InTitle(s, d)
        BY <1>2, <3>1 DEF SameBefore
      <3> QED
        BY <1>4, <1>14, <3>1, <3>2
    <2> HIDE DEF P
    <2>5. TitleText(r, n + 1) = Text(r, P \cup {n}) /\ TitleText(s, n) = Text(s, P)
      BY <2>1, <2>4 DEF TitleText, P, l
    <2> QED
      BY <1>3, <2>3, <2>4, <2>5
  <1>15. ASSUME x.kind # "snippet", InSnippet(s, n)
         PROVE  SnippetText(r, n + 1) = SnippetText(s, n)
                  + (IF x.kind = "data" /\ ~ InTitle(s, n) THEN x.text ELSE 0)
    <2> DEFINE l == LastOf(s, "snippet", n)
               P == {d \in l..(n - 1) : ~ InTitle(s, d)}
    <2>1. LastOf(r, "snippet", n + 1) = l /\ (n + 1) - 1 = n
      BY <1>1, <1>9, <1>15
    <2>2. l \in 1..(n - 1)
      <3>1. Opened(s, "snippet", n) # {}
        BY <1>15 DEF InSnippet, Opened
      <3> QED
        BY <1>1, <3>1, LastMember DEF Opened
    <2> HIDE DEF l
    <2>4. P \in SUBSET DOMAIN s
          /\ {d \in l..n : ~ InTitle(r, d)} = IF InTitle(s, n) THEN P ELSE P \cup {n}
      <3>1. l..n = l..(n - 1) \cup {n} /\ \A d \in l..(n - 1) : d \in 1..Here(s) /\ d \in DOMAIN s
        <4>1. l \in Nat /\ 1 <= l /\ l <= n - 1 /\ Here(s) = n
          BY <1>1, <2>2 DEF n
        <4>2. l..n = l..(n - 1) \cup {n}
          BY <1>1, <4>1
        <4> QED
          BY <1>1, <4>1, <4>2
      <3>2. \A d \in l..(n - 1) : InTitle(r, d) <=> InTitle(s, d)
        BY <1>2, <3>1 DEF SameBefore
      <3> QED
        BY <1>4, <3>1, <3>2
    <2> HIDE DEF P
    <2>5. SnippetText(r, n + 1) = Text(r, IF InTitle(s, n) THEN P ELSE P \cup {n})
          /\ SnippetText(s, n) = Text(s, P)
      BY <2>1, <2>4 DEF SnippetText, P, l
    <2>6. Text(s, P) \in Nat
      BY <2>4, TextType
    <2>7. CASE InTitle(s, n)
      <3>1. Text(r, P) = Text(s, P)
        BY <1>3, <2>4
      <3>2. SnippetText(r, n + 1) = SnippetText(s, n)
        BY <2>5, <2>7, <3>1
      <3> QED
        BY <2>5, <2>6, <2>7, <3>2
    <2>8. CASE ~ InTitle(s, n)
      BY <1>3, <2>4, <2>5, <2>6, <2>8
    <2> QED
      BY <2>7, <2>8
  <1> QED
    BY <1>5, <1>6, <1>7, <1>12, <1>13, <1>14, <1>15 DEF Advances, r, n

\* The places of the titles kept, in page order, and that of one after them.
Placed(kept, n) ==
  /\ IsFiniteSet(kept) /\ Cardinality(kept) \in Nat
  /\ \A t \in kept : Place(kept, t) \in 1..Cardinality(kept)
  /\ \A t \in kept : Place(kept, t) = Cardinality(kept) <=> \A u \in kept : u <= t
  /\ Cardinality(kept \cup {n}) = Cardinality(kept) + 1
  /\ Place(kept \cup {n}, n) = Cardinality(kept) + 1
  /\ \A t \in kept : Place(kept \cup {n}, t) = Place(kept, t)

LEMMA PlacesGrow ==
  ASSUME NEW n \in Nat, NEW kept \in SUBSET (1..n)
  PROVE  Placed(kept, n + 1)
  <1>1. IsFiniteSet(kept)
    <2>1. 1 \in Int /\ n \in Int
      OBVIOUS
    <2>2. IsFiniteSet(1..n)
      BY ONLY <2>1, FS_Interval
    <2> QED
      BY ONLY <2>2, kept \in SUBSET (1..n), FS_Subset
  <1>2. Cardinality(kept) \in Nat
    BY <1>1, FS_CardinalityType
  <1>3. ASSUME NEW t \in kept
        PROVE  /\ Place(kept, t) \in 1..Cardinality(kept)
               /\ Place(kept, t) = Cardinality(kept) <=> \A u \in kept : u <= t
    <2> DEFINE U == {u \in kept : u <= t}
    <2>1. U \in SUBSET kept /\ t \in U
      OBVIOUS
    <2>2. U = kept <=> \A u \in kept : u <= t
      OBVIOUS
    <2> HIDE DEF U
    <2>3. /\ IsFiniteSet(U) /\ Cardinality(U) <= Cardinality(kept)
          /\ Cardinality(U) = Cardinality(kept) => U = kept
      BY <1>1, <2>1, FS_Subset
    <2>4. Cardinality(U) \in Nat /\ Cardinality(U) # 0
      BY <2>1, <2>3, FS_CardinalityType, FS_EmptySet
    <2>5. Place(kept, t) = Cardinality(U)
      BY DEF Place, U
    <2> QED
      BY <1>2, <2>2, <2>3, <2>4, <2>5
  <1>4. n + 1 \notin kept /\ \A u \in kept : u <= n + 1
    OBVIOUS
  <1>5. Cardinality(kept \cup {n + 1}) = Cardinality(kept) + 1
    BY <1>1, <1>4, FS_AddElement
  <1>6. Place(kept \cup {n + 1}, n + 1) = Cardinality(kept) + 1
    <2>1. {u \in kept \cup {n + 1} : u <= n + 1} = kept \cup {n + 1}
      <3>1. \A u \in kept \cup {n + 1} : u <= n + 1
        BY <1>4
      <3> QED
        BY ONLY <3>1
    <2> QED
      BY <1>5, <2>1 DEF Place
  <1>7. ASSUME NEW t \in kept PROVE Place(kept \cup {n + 1}, t) = Place(kept, t)
    <2>1. {u \in kept \cup {n + 1} : u <= t} = {u \in kept : u <= t}
      OBVIOUS
    <2> QED
      BY <2>1 DEF Place
  <1> QED
    <2>1. \A t \in kept : Place(kept, t) \in 1..Cardinality(kept)
      BY <1>3
    <2>2. \A t \in kept : Place(kept, t) = Cardinality(kept) <=> \A u \in kept : u <= t
      BY <1>3
    <2> DEFINE m == n + 1
    <2>3. /\ Cardinality(kept \cup {m}) = Cardinality(kept) + 1
          /\ Place(kept \cup {m}, m) = Cardinality(kept) + 1
          /\ \A t \in kept : Place(kept \cup {m}, t) = Place(kept, t)
      BY <1>5, <1>6, <1>7
    <2> HIDE DEF m
    <2>4. Placed(kept, m)
      BY ONLY <1>1, <1>2, <2>1, <2>2, <2>3 DEF Placed
    <2> QED
      BY <2>4 DEF m

\* What the last token adds to the titles kept and to the snippets after them.
KeptGrows(s, x, r) ==
  LET n == Here(s)
      keeps == /\ x.kind = "end" /\ InTitle(s, n)
               /\ Target(HrefAt(s, n)) # NoUrl
      adds(t) == /\ x.kind = "end" /\ ~ InTitle(s, n) /\ InSnippet(s, n)
                 /\ SnippetText(s, n) > 0
                 /\ \A u \in Kept(s) : u <= t
  IN  /\ Kept(r) = IF keeps THEN Kept(s) \cup {n} ELSE Kept(s)
      /\ \A t \in Kept(s) :
           /\ HrefAt(r, t) = HrefAt(s, t) /\ TitleText(r, t) = TitleText(s, t)
           /\ SnippetsAfter(r, Kept(r), t) =
                IF adds(t) THEN SnippetsAfter(s, Kept(s), t) \cup {n}
                ELSE SnippetsAfter(s, Kept(s), t)
           /\ \A u \in SnippetsAfter(s, Kept(s), t) : SnippetText(r, u) = SnippetText(s, u)
      /\ SnippetText(r, n) = SnippetText(s, n) \/ ~ InSnippet(s, n)
      /\ keeps => /\ HrefAt(r, n) = HrefAt(s, n) /\ TitleText(r, n) = TitleText(s, n)
                  /\ SnippetsAfter(r, Kept(r), n) = {}
      /\ BrokenTitle(r) <=> \/ BrokenTitle(s)
                            \/ /\ x.kind = "end" /\ InTitle(s, n)
                               /\ HrefAt(s, n).form = "broken"

LEMMA TokenKeeps ==
  ASSUME NEW s \in Seq(PageToken), NEW x \in PageToken
  PROVE  KeptGrows(s, x, Append(s, x))
  <1> DEFINE r == Append(s, x)
             n == Here(s)
             keeps == /\ x.kind = "end" /\ InTitle(s, n)
                      /\ Target(HrefAt(s, n)) # NoUrl
             adds(t) == /\ x.kind = "end" /\ ~ InTitle(s, n) /\ InSnippet(s, n)
                        /\ SnippetText(s, n) > 0
                        /\ \A u \in Kept(s) : u <= t
  <1>1. /\ Len(s) \in Nat /\ DOMAIN s = 1..Len(s) /\ n = Len(s) + 1 /\ n \in Nat
        /\ DOMAIN r = DOMAIN s \cup {n} /\ Len(r) = n /\ n \in 1..Here(s)
        /\ n \notin DOMAIN s /\ Here(s) = n
    BY DEF Here
  <1>2. /\ \A t \in 1..Here(s) : SameBefore(s, r, t)
        /\ \A t \in DOMAIN s : /\ ClosesTitle(r, t) <=> ClosesTitle(s, t)
                               /\ ClosesSnippet(r, t) <=> ClosesSnippet(s, t)
    BY PrefixSame DEF Extends
  <1>3. /\ ClosesTitle(r, n) <=> x.kind = "end" /\ InTitle(s, n)
        /\ ClosesSnippet(r, n) <=> x.kind = "end" /\ ~ InTitle(s, n) /\ InSnippet(s, n)
    BY TokenAdvances DEF Advances
  <1> HIDE DEF r, n
  <1>4. ASSUME NEW t \in 1..n, InTitle(s, t)
        PROVE  HrefAt(r, t) = HrefAt(s, t) /\ TitleText(r, t) = TitleText(s, t)
    BY <1>1, <1>2, <1>4 DEF SameBefore
  <1>5. ASSUME NEW t \in 1..n, InSnippet(s, t)
        PROVE  SnippetText(r, t) = SnippetText(s, t)
    BY <1>1, <1>2, <1>5 DEF SameBefore
  <1>6. \A t \in DOMAIN s : t \in 1..n
    BY <1>1
  <1>7. \A t \in DOMAIN s : ClosesTitle(s, t) =>
          HrefAt(r, t) = HrefAt(s, t) /\ TitleText(r, t) = TitleText(s, t)
    BY <1>4, <1>6 DEF ClosesTitle
  <1>8. Closed(r) = IF x.kind = "end" /\ InTitle(s, n) THEN Closed(s) \cup {n} ELSE Closed(s)
    BY <1>1, <1>2, <1>3 DEF Closed
  <1>9. n \in 1..n
    BY <1>1
  <1>10. /\ \A t \in Closed(s) : /\ HrefAt(r, t) = HrefAt(s, t)
                                 /\ TitleText(r, t) = TitleText(s, t)
         /\ InTitle(s, n) => HrefAt(r, n) = HrefAt(s, n) /\ TitleText(r, n) = TitleText(s, n)
    BY <1>4, <1>7, <1>9 DEF Closed
  <1>11. Kept(r) = IF keeps THEN Kept(s) \cup {n} ELSE Kept(s)
    BY <1>8, <1>10 DEF Kept
  <1>12. BrokenTitle(r) <=> \/ BrokenTitle(s)
                            \/ /\ x.kind = "end" /\ InTitle(s, n)
                               /\ HrefAt(s, n).form = "broken"
    BY <1>8, <1>10 DEF BrokenTitle
  <1>13. Kept(s) \subseteq Closed(s) /\ Closed(s) \subseteq DOMAIN s
    BY DEF Kept, Closed
  <1>14. \A t \in DOMAIN s : ClosesSnippet(s, t) => SnippetText(r, t) = SnippetText(s, t)
    BY <1>5, <1>6 DEF ClosesSnippet
  <1>15. keeps => ~ ClosesSnippet(r, n)
    BY <1>3
  <1>16. InSnippet(s, n) => SnippetText(r, n) = SnippetText(s, n)
    BY <1>5, <1>9
  <1> HIDE DEF keeps
  <1>17. ASSUME NEW t \in Kept(s)
         PROVE  /\ SnippetsAfter(r, Kept(r), t) =
                     IF adds(t) THEN SnippetsAfter(s, Kept(s), t) \cup {n}
                     ELSE SnippetsAfter(s, Kept(s), t)
                /\ \A u \in SnippetsAfter(s, Kept(s), t) : SnippetText(r, u) = SnippetText(s, u)
    <2>1. t \in 1..Len(s)
      BY <1>1, <1>13
    <2>2. (t + 1)..Len(r) = (t + 1)..Len(s) \cup {n} /\ n \notin (t + 1)..Len(s)
          /\ \A v \in (t + 1)..Len(s) : v \in DOMAIN s
      BY <1>1, <2>1
    <2>3. ASSUME NEW v \in (t + 1)..Len(s)
          PROVE  v \in SnippetsAfter(r, Kept(r), t) <=> v \in SnippetsAfter(s, Kept(s), t)
      <3>1. ~ n < v /\ v \in DOMAIN s
        BY <1>1, <2>1, <2>3
      <3>2. ClosesSnippet(r, v) /\ SnippetText(r, v) > 0
              <=> ClosesSnippet(s, v) /\ SnippetText(s, v) > 0
        BY <1>2, <1>14, <3>1
      <3>3. (\A u \in Kept(r) : ~ (t < u /\ u < v)) <=> (\A u \in Kept(s) : ~ (t < u /\ u < v))
        BY <1>11, <3>1
      <3> QED
        BY <2>2, <2>3, <3>2, <3>3 DEF SnippetsAfter
    <2>4. n \in SnippetsAfter(r, Kept(r), t) <=> adds(t)
      <3>1. \A u \in Kept(s) : u \in 1..Len(s)
        BY <1>1, <1>13
      <3>2. (\A u \in Kept(s) : ~ (t < u /\ u < n)) <=> (\A u \in Kept(s) : u <= t)
        BY <1>1, <2>1, <3>1
      <3>3. (\A u \in Kept(r) : ~ (t < u /\ u < n)) <=> (\A u \in Kept(s) : ~ (t < u /\ u < n))
        BY <1>1, <1>11
      <3>4. n \in SnippetsAfter(r, Kept(r), t) <=>
              /\ ClosesSnippet(r, n) /\ SnippetText(r, n) > 0
              /\ \A u \in Kept(r) : ~ (t < u /\ u < n)
        BY <2>2 DEF SnippetsAfter
      <3> QED
        BY <1>3, <1>16, <3>2, <3>3, <3>4
    <2>5. /\ \A v \in SnippetsAfter(r, Kept(r), t) : v \in (t + 1)..Len(s) \cup {n}
          /\ \A v \in SnippetsAfter(s, Kept(s), t) : v \in (t + 1)..Len(s) /\ ClosesSnippet(s, v)
      BY <2>2 DEF SnippetsAfter
    <2> HIDE DEF adds
    <2>6. SnippetsAfter(r, Kept(r), t) =
            IF adds(t) THEN SnippetsAfter(s, Kept(s), t) \cup {n}
            ELSE SnippetsAfter(s, Kept(s), t)
      <3> DEFINE A == SnippetsAfter(r, Kept(r), t)
                 B == SnippetsAfter(s, Kept(s), t)
                 I == (t + 1)..Len(s)
      <3>1. /\ \A v \in I : v \in A <=> v \in B
            /\ n \in A <=> adds(t)
            /\ \A v \in A : v \in I \/ v = n
            /\ \A v \in B : v \in I
        BY <2>3, <2>4, <2>5
      <3> HIDE DEF A, B, I
      <3>2. adds(t) => A = B \cup {n}
        BY <3>1
      <3>3. ~ adds(t) => A = B
        BY <3>1
      <3> QED
        BY <3>2, <3>3 DEF A, B
    <2>7. \A u \in SnippetsAfter(s, Kept(s), t) : SnippetText(r, u) = SnippetText(s, u)
      BY <1>14, <2>2, <2>5
    <2> QED
      BY <2>6, <2>7
  <1>18. SnippetsAfter(r, Kept(r), n) = {}
    <2>1. (n + 1)..Len(r) = {}
      BY <1>1
    <2> QED
      BY <2>1 DEF SnippetsAfter
  <1>19. /\ \A t \in Kept(s) : HrefAt(r, t) = HrefAt(s, t) /\ TitleText(r, t) = TitleText(s, t)
         /\ keeps => HrefAt(r, n) = HrefAt(s, n) /\ TitleText(r, n) = TitleText(s, n)
    BY <1>10, <1>13 DEF keeps
  <1> QED
    BY <1>11, <1>12, <1>16, <1>17, <1>18, <1>19 DEF KeptGrows, keeps, r, n

\* The hits of a page: those of its titles kept, in page order.
HitsOf(s, hits) ==
  /\ Len(hits) = Cardinality(Kept(s))
  /\ \A t \in Kept(s) : hits[Place(Kept(s), t)] = HitRead(s, Kept(s), t)

LEMMA KeptPlaced ==
  ASSUME NEW s \in Seq(PageToken)
  PROVE  Placed(Kept(s), Here(s))
  <1>1. Len(s) \in Nat /\ Kept(s) \in SUBSET (1..Len(s)) /\ Here(s) = Len(s) + 1
    BY DEF Kept, Closed, Here
  <1> QED
    BY <1>1, PlacesGrow

LEMMA AfterType ==
  ASSUME NEW s \in Seq(PageToken), NEW t \in Kept(s)
  PROVE  LET S == SnippetsAfter(s, Kept(s), t)
         IN  /\ S \in SUBSET Nat
             /\ S # {} => Min(S) \in S /\ \A y \in S : Min(S) <= y
             /\ \A v \in S : v < Here(s) /\ SnippetText(s, v) > 0
  <1> DEFINE S == SnippetsAfter(s, Kept(s), t)
  <1>1. /\ S \in SUBSET Nat
        /\ \A v \in S : v < Here(s) /\ SnippetText(s, v) > 0
    <2>1. Len(s) \in Nat /\ t \in 1..Len(s) /\ Here(s) = Len(s) + 1
      BY DEF Kept, Closed, Here
    <2>2. \A v \in (t + 1)..Len(s) : v \in Nat /\ v < Here(s)
      BY <2>1
    <2> QED
      BY <2>2 DEF SnippetsAfter
  <1> HIDE DEF S
  <1>2. S # {} => Min(S) \in S /\ \A y \in S : Min(S) <= y
    BY <1>1, MinMember
  <1> QED
    BY <1>1, <1>2 DEF S

\* A title kept keeps its hit until a snippet is closed after it.
LEMMA HitStays ==
  ASSUME NEW s \in Seq(PageToken), NEW r, NEW t \in Kept(s),
         HrefAt(r, t) = HrefAt(s, t), TitleText(r, t) = TitleText(s, t),
         SnippetsAfter(r, Kept(r), t) = SnippetsAfter(s, Kept(s), t),
         \A u \in SnippetsAfter(s, Kept(s), t) : SnippetText(r, u) = SnippetText(s, u)
  PROVE  HitRead(r, Kept(r), t) = HitRead(s, Kept(s), t)
  <1> DEFINE S == SnippetsAfter(s, Kept(s), t)
  <1>1. S # {} => Min(S) \in S
    BY AfterType
  <1>2. S # {} => SnippetText(r, Min(S)) = SnippetText(s, Min(S))
    BY <1>1
  <1>3. SnippetsAfter(r, Kept(r), t) = S
    OBVIOUS
  <1> HIDE DEF S
  <1>4. /\ HitRead(r, Kept(r), t) =
             [ url |-> Unwrapped(HrefAt(s, t)), title |-> TitleText(s, t),
               snippet |-> IF S = {} THEN 0 ELSE SnippetText(r, Min(S)) ]
        /\ HitRead(s, Kept(s), t) =
             [ url |-> Unwrapped(HrefAt(s, t)), title |-> TitleText(s, t),
               snippet |-> IF S = {} THEN 0 ELSE SnippetText(s, Min(S)) ]
    BY <1>3 DEF HitRead, SnippetAt, S
  <1> QED
    BY <1>2, <1>4

Keeps(s, x) ==
  /\ x.kind = "end" /\ InTitle(s, Here(s))
  /\ Target(HrefAt(s, Here(s))) # NoUrl
Adds(s, x) == x.kind = "end" /\ ~ InTitle(s, Here(s)) /\ InSnippet(s, Here(s))

LEMMA HitsUnchanged ==
  ASSUME NEW s \in Seq(PageToken), NEW x \in PageToken, NEW hits,
         HitsOf(s, hits), ~ Keeps(s, x), ~ Adds(s, x)
  PROVE  HitsOf(Append(s, x), hits)
  <1> DEFINE r == Append(s, x)
  <1>1. KeptGrows(s, x, r)
    BY TokenKeeps
  <1> HIDE DEF r
  <1>2. Kept(r) = Kept(s)
    BY <1>1 DEF KeptGrows, Keeps
  <1>3. ASSUME NEW t \in Kept(s) PROVE HitRead(r, Kept(r), t) = HitRead(s, Kept(s), t)
    <2>1. /\ HrefAt(r, t) = HrefAt(s, t) /\ TitleText(r, t) = TitleText(s, t)
          /\ SnippetsAfter(r, Kept(r), t) = SnippetsAfter(s, Kept(s), t)
          /\ \A u \in SnippetsAfter(s, Kept(s), t) : SnippetText(r, u) = SnippetText(s, u)
      BY <1>1 DEF KeptGrows, Adds
    <2> QED
      BY <2>1, HitStays
  <1> QED
    BY <1>2, <1>3 DEF HitsOf, r

\* A title that names a target appends its hit.
LEMMA HitsKept ==
  ASSUME NEW s \in Seq(PageToken), NEW x \in PageToken, NEW hits \in Seq(Hit),
         HitsOf(s, hits), Keeps(s, x), NEW found \in Hit,
         found = [url |-> Unwrapped(HrefAt(s, Here(s))), title |-> TitleText(s, Here(s)),
                  snippet |-> 0]
  PROVE  HitsOf(Append(s, x), Append(hits, found))
  <1> DEFINE r == Append(s, x)
             n == Here(s)
             T == Kept(s)
             q == Append(hits, found)
  <1>1. KeptGrows(s, x, r) /\ Placed(T, n)
    BY TokenKeeps, KeptPlaced
  <1>2. /\ Len(hits) = Cardinality(T) /\ Len(hits) \in Nat
        /\ Len(q) = Len(hits) + 1 /\ q[Len(hits) + 1] = found
        /\ \A k \in 1..Len(hits) : q[k] = hits[k]
    BY DEF HitsOf
  <1> HIDE DEF r, n, q
  <1>3. /\ Kept(r) = T \cup {n}
        /\ HrefAt(r, n) = HrefAt(s, n) /\ TitleText(r, n) = TitleText(s, n)
        /\ SnippetsAfter(r, Kept(r), n) = {}
    BY <1>1 DEF KeptGrows, Keeps, n
  <1>4. HitRead(r, Kept(r), n) = found
    BY <1>3 DEF HitRead, SnippetAt, n
  <1>5. ASSUME NEW t \in T PROVE HitRead(r, Kept(r), t) = HitRead(s, T, t)
    <2>1. /\ HrefAt(r, t) = HrefAt(s, t) /\ TitleText(r, t) = TitleText(s, t)
          /\ SnippetsAfter(r, Kept(r), t) = SnippetsAfter(s, Kept(s), t)
          /\ \A u \in SnippetsAfter(s, Kept(s), t) : SnippetText(r, u) = SnippetText(s, u)
      BY <1>1 DEF KeptGrows, Keeps
    <2> QED
      BY <2>1, HitStays
  <1>6. \A t \in T : hits[Place(T, t)] = HitRead(s, T, t)
    BY DEF HitsOf
  <1> HIDE DEF T
  <1>7. /\ Cardinality(Kept(r)) = Len(hits) + 1
        /\ Place(Kept(r), n) = Len(hits) + 1
        /\ \A t \in T : Place(Kept(r), t) = Place(T, t) /\ Place(T, t) \in 1..Len(hits)
    BY <1>1, <1>2, <1>3 DEF Placed
  <1>8. ASSUME NEW t \in Kept(r) PROVE q[Place(Kept(r), t)] = HitRead(r, Kept(r), t)
    <2>1. CASE t = n
      BY <1>2, <1>4, <1>7, <2>1
    <2>2. CASE t \in T
      BY <1>2, <1>5, <1>6, <1>7, <2>2
    <2> QED
      BY <1>3, <2>1, <2>2
  <1> QED
    BY <1>2, <1>7, <1>8 DEF HitsOf, r, q

\* A snippet closed goes to the last title kept, if it has none.
LEMMA HitsSnippet ==
  ASSUME NEW s \in Seq(PageToken), NEW x \in PageToken, NEW hits \in Seq(Hit),
         HitsOf(s, hits), Adds(s, x), SnippetText(s, Here(s)) \in Nat
  PROVE  HitsOf(Append(s, x),
                IF Len(hits) > 0 /\ hits[Len(hits)].snippet = 0
                THEN [hits EXCEPT ![Len(hits)].snippet = SnippetText(s, Here(s))]
                ELSE hits)
  <1> DEFINE r == Append(s, x)
             n == Here(s)
             T == Kept(s)
             l == Len(hits)
             given == SnippetText(s, n)
             q == IF l > 0 /\ hits[l].snippet = 0
                  THEN [hits EXCEPT ![l].snippet = given] ELSE hits
  <1>1. KeptGrows(s, x, r) /\ Placed(T, n)
    BY TokenKeeps, KeptPlaced
  <1>2. /\ l = Cardinality(T) /\ l \in Nat /\ given \in Nat /\ n \in Nat
        /\ \A k \in 1..l : hits[k] \in Hit
        /\ DOMAIN hits = 1..l
    BY DEF HitsOf, Here
  <1>3. /\ Len(q) = l
        /\ \A k \in 1..l : k # l => q[k] = hits[k]
        /\ l > 0 => q[l] = IF hits[l].snippet = 0
                           THEN [hits[l] EXCEPT !.snippet = given] ELSE hits[l]
    BY <1>2
  <1>4. \A t \in T : hits[Place(T, t)] = HitRead(s, T, t)
    BY DEF HitsOf
  <1> HIDE DEF r, n, q, l
  <1>5. /\ Kept(r) = T
        /\ \A t \in T : /\ HrefAt(r, t) = HrefAt(s, t) /\ TitleText(r, t) = TitleText(s, t)
                        /\ \A u \in SnippetsAfter(s, T, t) : SnippetText(r, u) = SnippetText(s, u)
                        /\ SnippetsAfter(r, Kept(r), t) =
                             IF given > 0 /\ \A u \in T : u <= t
                             THEN SnippetsAfter(s, T, t) \cup {n} ELSE SnippetsAfter(s, T, t)
        /\ SnippetText(r, n) = given
    BY <1>1 DEF KeptGrows, Adds, n
  <1>6. ASSUME NEW t \in T PROVE /\ Place(T, t) \in 1..l
                                 /\ Place(T, t) = l <=> \A u \in T : u <= t
    BY <1>1, <1>2 DEF Placed
  <1>7. ASSUME NEW t \in T PROVE q[Place(T, t)] = HitRead(r, Kept(r), t)
    <2> DEFINE S == SnippetsAfter(s, T, t)
    <2>1. /\ S \in SUBSET Nat
          /\ S # {} => Min(S) \in S /\ \A y \in S : Min(S) <= y
          /\ \A v \in S : v < n /\ SnippetText(s, v) > 0
      BY AfterType DEF n
    <2>2. /\ HrefAt(r, t) = HrefAt(s, t) /\ TitleText(r, t) = TitleText(s, t)
          /\ \A u \in S : SnippetText(r, u) = SnippetText(s, u)
      BY <1>5
    <2>3. CASE S = SnippetsAfter(r, Kept(r), t)
      <3>1. HitRead(r, Kept(r), t) = HitRead(s, T, t)
        BY <2>2, <2>3, HitStays
      <3>2. q[Place(T, t)] = hits[Place(T, t)]
        <4>1. CASE Place(T, t) # l
          BY <1>3, <1>6, <4>1
        <4>2. CASE Place(T, t) = l
          <5>1. given = 0
            <6>1. ASSUME given > 0 PROVE FALSE
              <7>1. n \in S
                BY <1>5, <1>6, <2>3, <4>2, <6>1
              <7> QED
                BY <1>2, <2>1, <7>1
            <6> QED
              BY <1>2, <6>1
          <5>2. l > 0 /\ hits[l] \in Hit
            BY <1>2, <1>6, <4>2
          <5>3. hits[l].snippet = 0 => [hits[l] EXCEPT !.snippet = 0] = hits[l]
            BY <5>2 DEF Hit
          <5> QED
            BY <1>3, <4>2, <5>1, <5>2, <5>3
        <4> QED
          BY <4>1, <4>2
      <3> QED
        BY <1>4, <3>1, <3>2
    <2>4. CASE S # SnippetsAfter(r, Kept(r), t)
      <3>1. /\ SnippetsAfter(r, Kept(r), t) = S \cup {n} /\ given > 0
            /\ \A u \in T : u <= t
        BY <1>5, <2>4
      <3>2. Place(T, t) = l /\ l > 0 /\ hits[l] \in Hit
        BY <1>2, <1>6, <3>1
      <3>3. hits[l] = HitRead(s, T, t)
        BY <1>4, <3>2
      <3>4. HitRead(s, T, t) =
              [ url |-> Unwrapped(HrefAt(s, t)), title |-> TitleText(s, t),
                snippet |-> IF S = {} THEN 0 ELSE SnippetText(s, Min(S)) ]
        BY DEF HitRead, SnippetAt
      <3>5. HitRead(r, Kept(r), t) =
              [ url |-> Unwrapped(HrefAt(s, t)), title |-> TitleText(s, t),
                snippet |-> SnippetText(r, Min(S \cup {n})) ]
        BY <2>2, <3>1 DEF HitRead, SnippetAt
      <3>6. hits[l].snippet = IF S = {} THEN 0 ELSE SnippetText(s, Min(S))
        BY <3>3, <3>4
      <3> HIDE DEF S
      <3>7. Min(S \cup {n}) \in S \cup {n} /\ \A y \in S \cup {n} : Min(S \cup {n}) <= y
        BY <1>2, <2>1, MinMember
      <3>8. CASE S = {}
        <4>1. Min(S \cup {n}) = n
          BY <3>7, <3>8
        <4>2. q[l] = [hits[l] EXCEPT !.snippet = given]
          BY <1>3, <3>2, <3>6, <3>8
        <4>3. [hits[l] EXCEPT !.snippet = given] =
                [ url |-> Unwrapped(HrefAt(s, t)), title |-> TitleText(s, t), snippet |-> given ]
          BY <3>3, <3>4
        <4> QED
          BY <1>5, <3>2, <3>5, <4>1, <4>2, <4>3
      <3>9. CASE S # {}
        <4>1. Min(S \cup {n}) = Min(S)
          <5>1. /\ Min(S) \in S /\ Min(S) \in Nat /\ Min(S) < n
                /\ Min(S \cup {n}) <= Min(S)
            BY <2>1, <3>7, <3>9
          <5>2. Min(S \cup {n}) \in S
            BY <1>2, <3>7, <5>1
          <5>3. Min(S) <= Min(S \cup {n}) /\ Min(S \cup {n}) \in Nat
            BY <2>1, <3>9, <5>2
          <5> QED
            BY <5>1, <5>3
        <4>2. SnippetText(s, Min(S)) > 0 /\ SnippetText(r, Min(S)) = SnippetText(s, Min(S))
          BY <2>1, <2>2, <3>9
        <4>3. hits[l].snippet # 0
          BY <3>2, <3>6, <3>9, <4>2 DEF Hit
        <4>4. q[l] = hits[l]
          BY <1>3, <3>2, <4>3
        <4> QED
          BY <3>2, <3>3, <3>4, <3>5, <3>9, <4>1, <4>2, <4>4
      <3> QED
        BY <3>8, <3>9
    <2> QED
      BY <2>3, <2>4
  <1>8. HitsOf(r, q)
    BY <1>2, <1>3, <1>5, <1>7 DEF HitsOf
  <1> QED
    BY <1>8 DEF r, q, n, l

\* What the parser has open after a page, and all it has read.
OpenIn(s, p) ==
  /\ p.inTitle <=> InTitle(s, Here(s))
  /\ p.inTitle => p.href = HrefAt(s, Here(s)) /\ p.title = TitleText(s, Here(s))
  /\ p.inSnippet <=> InSnippet(s, Here(s))
  /\ p.inSnippet => p.snippet = SnippetText(s, Here(s))

HasRead(s, p) ==
  IF p.raised THEN BrokenTitle(s)
  ELSE ~ BrokenTitle(s) /\ OpenIn(s, p) /\ HitsOf(s, p.results)

\* The parser finds a URL exactly where an anchor leads to one, and it is that
\* one unless a redirect's target is changed by a second decoding.
LEMMA TargetUnwraps ==
  ASSUME NEW href \in Href
  PROVE  /\ href.form # "broken" => UnwrapDdg(href) = Unwrapped(href)
         /\ href.form = "broken" => Target(href) = NoUrl
         /\ Unwrapped(href) = NoUrl <=> Target(href) = NoUrl
         /\ Literal(href) => Unwrapped(href) = Target(href)
  <1>1. CASE href \in [form : {"plain", "relative", "redirect"}, url : Url]
    <2>1. href.form \in {"plain", "relative", "redirect"} /\ href.url \in Url
      BY <1>1
    <2> DEFINE decoded == [href.url EXCEPT !.path = Unquote[@]]
               secure  == [href.url EXCEPT !.scheme = Https]
    <2>2. decoded \in Url /\ secure \in Url
      BY <2>1, EnginesAssumption DEF Url, Https
    <2>3. Unquote[href.url.path] = href.url.path => decoded = href.url
      BY <2>1 DEF Url
    <2>4. NoUrl \notin Url
      BY EnginesAssumption
    <2> HIDE DEF decoded, secure
    <2>5. CASE href.form = "redirect"
      <3>1. Unwrapped(href) = decoded /\ Target(href) = href.url
        BY <2>5 DEF Unwrapped, UnwrapDdg, Target, decoded
      <3> QED
        BY <2>1, <2>2, <2>3, <2>4, <2>5, <3>1 DEF Unwrapped, Literal
    <2>6. CASE href.form \in {"plain", "relative"}
      <3>1. Unwrapped(href) = Target(href)
        BY <2>6 DEF Unwrapped, UnwrapDdg, Target
      <3> QED
        BY <2>6, <3>1 DEF Unwrapped
    <2> QED
      BY <2>1, <2>5, <2>6
  <1>2. CASE href \in [form : {"none", "no target", "broken"}, url : {NoUrl}]
    <2>1. href.form \in {"none", "no target", "broken"} /\ href.url = NoUrl
      BY <1>2
    <2> QED
      BY <2>1 DEF Unwrapped, UnwrapDdg, Target
  <1> QED
    BY <1>1, <1>2 DEF Href

LEMMA FreshHasRead == HasRead(<<>>, FreshParser)
  <1> DEFINE s == <<>>
  <1>1. Len(s) = 0 /\ DOMAIN s = {} /\ Here(s) = 1 /\ 1..(1 - 1) = {}
    BY DEF Here
  <1>2. /\ FreshParser.inTitle = FALSE /\ FreshParser.inSnippet = FALSE
        /\ FreshParser.results = <<>> /\ FreshParser.raised = FALSE
    BY DEF FreshParser
  <1> HIDE DEF s
  <1>3. ~ InTitle(s, Here(s)) /\ ~ InSnippet(s, Here(s))
    BY <1>1 DEF InTitle, InSnippet
  <1>4. Closed(s) = {} /\ Kept(s) = {} /\ ~ BrokenTitle(s)
    BY <1>1 DEF Closed, Kept, BrokenTitle
  <1>5. HitsOf(s, <<>>)
    BY <1>4, FS_EmptySet DEF HitsOf
  <1> QED
    BY <1>2, <1>3, <1>4, <1>5 DEF HasRead, OpenIn, s

LEMMA FeedReads ==
  ASSUME NEW s \in Seq(PageToken), NEW x \in PageToken, NEW p \in Parser, HasRead(s, p)
  PROVE  HasRead(Append(s, x), Feed(p, x))
  <1> DEFINE r == Append(s, x)
             n == Here(s)
             q == Feed(p, x)
  <1>1. KeptGrows(s, x, r) /\ Advances(s, x, r) /\ Here(r) = n + 1
    BY TokenKeeps, TokenAdvances DEF Here
  <1>2. /\ x.kind \in {"title", "snippet", "data", "end"} /\ x.text \in Nat
        /\ p.results \in Seq(Hit) /\ p.href \in Href
        /\ p.title \in Nat /\ p.snippet \in Nat /\ q \in Parser
        /\ p.inTitle \in BOOLEAN /\ p.inSnippet \in BOOLEAN /\ p.raised \in BOOLEAN
    BY FeedType DEF PageToken, Parser
  <1>3. CASE p.raised
    <2>1. BrokenTitle(s) /\ q = p
      BY <1>3 DEF HasRead, Feed
    <2>2. BrokenTitle(r)
      BY <1>1, <2>1 DEF KeptGrows
    <2> QED
      BY <1>3, <2>1, <2>2 DEF HasRead
  <1>4. CASE ~ p.raised
    <2>1. ~ BrokenTitle(s) /\ OpenIn(s, p) /\ HitsOf(s, p.results)
      BY <1>4 DEF HasRead
    <2>2. ~ Keeps(s, x) /\ ~ Adds(s, x) => HitsOf(r, p.results)
      BY <2>1, HitsUnchanged
    <2>3. /\ BrokenTitle(r) <=> x.kind = "end" /\ p.inTitle /\ p.href.form = "broken"
          /\ Keeps(s, x) <=> x.kind = "end" /\ p.inTitle /\ Target(p.href) # NoUrl
          /\ Adds(s, x) <=> x.kind = "end" /\ ~ p.inTitle /\ p.inSnippet
      BY <1>1, <2>1 DEF KeptGrows, OpenIn, Keeps, Adds
    <2>4. /\ InTitle(r, n + 1) <=> x.kind = "title" \/ (x.kind # "end" /\ p.inTitle)
          /\ InSnippet(r, n + 1) <=>
               x.kind = "snippet" \/ (p.inSnippet /\ (x.kind = "end" => p.inTitle))
          /\ x.kind = "title" => HrefAt(r, n + 1) = x.href /\ TitleText(r, n + 1) = 0
          /\ x.kind \in {"snippet", "data"} /\ p.inTitle =>
               /\ HrefAt(r, n + 1) = p.href
               /\ TitleText(r, n + 1) = p.title + (IF x.kind = "data" THEN x.text ELSE 0)
          /\ x.kind = "snippet" => SnippetText(r, n + 1) = 0
          /\ x.kind # "snippet" /\ p.inSnippet =>
               SnippetText(r, n + 1) =
                 p.snippet + (IF x.kind = "data" /\ ~ p.inTitle THEN x.text ELSE 0)
      BY <1>1, <2>1 DEF Advances, OpenIn
    <2>5. Here(r) = n + 1
      BY <1>1
    <2>6. CASE x.kind = "title"
      <3>1. q = [p EXCEPT !.inTitle = TRUE, !.href = x.href, !.title = 0]
        BY <1>4, <2>6 DEF Feed
      <3>2. /\ q.raised = p.raised /\ q.results = p.results /\ q.inTitle = TRUE
            /\ q.href = x.href /\ q.title = 0
            /\ q.inSnippet = p.inSnippet /\ q.snippet = p.snippet
        BY <3>1 DEF Parser
      <3> HIDE DEF q, r, n
      <3>3. ~ q.raised
        BY <1>4, <3>2
      <3>4. ~ BrokenTitle(r)
        BY <2>3, <2>6
      <3>5. HitsOf(r, q.results)
        BY <2>2, <2>3, <2>6, <3>2
      <3>6. q.inTitle <=> InTitle(r, n + 1)
        BY <2>4, <2>6, <3>2
      <3>7. q.href = HrefAt(r, n + 1) /\ q.title = TitleText(r, n + 1)
        BY <2>4, <2>6, <3>2
      <3>8. q.inSnippet <=> InSnippet(r, n + 1)
        BY <2>4, <2>6, <3>2
      <3>9. q.inSnippet => q.snippet = SnippetText(r, n + 1)
        BY <1>2, <2>4, <2>6, <3>2
      <3> QED
        BY ONLY <2>5, <3>3, <3>4, <3>5, <3>6, <3>7, <3>8, <3>9
             DEF HasRead, OpenIn, r, q
    <2>7. CASE x.kind = "snippet"
      <3>1. q = [p EXCEPT !.inSnippet = TRUE, !.snippet = 0]
        BY <1>4, <2>7 DEF Feed
      <3>2. /\ q.raised = p.raised /\ q.results = p.results /\ q.inTitle = p.inTitle
            /\ q.href = p.href /\ q.title = p.title
            /\ q.inSnippet = TRUE /\ q.snippet = 0
        BY <3>1 DEF Parser
      <3> HIDE DEF q, r, n
      <3>3. ~ q.raised
        BY <1>4, <3>2
      <3>4. ~ BrokenTitle(r)
        BY <2>3, <2>7
      <3>5. HitsOf(r, q.results)
        BY <2>2, <2>3, <2>7, <3>2
      <3>6. q.inTitle <=> InTitle(r, n + 1)
        BY <1>2, <2>4, <2>7, <3>2
      <3>7. q.inTitle => q.href = HrefAt(r, n + 1) /\ q.title = TitleText(r, n + 1)
        BY <1>2, <2>4, <2>7, <3>2
      <3>8. q.inSnippet <=> InSnippet(r, n + 1)
        BY <1>2, <2>4, <2>7, <3>2
      <3>9. q.inSnippet => q.snippet = SnippetText(r, n + 1)
        BY <1>2, <2>4, <2>7, <3>2
      <3> QED
        BY ONLY <2>5, <3>3, <3>4, <3>5, <3>6, <3>7, <3>8, <3>9
             DEF HasRead, OpenIn, r, q
    <2>8. CASE x.kind = "data"
      <3>1. q = IF p.inTitle THEN [p EXCEPT !.title = @ + x.text]
                ELSE IF p.inSnippet THEN [p EXCEPT !.snippet = @ + x.text] ELSE p
        BY <1>4, <2>8 DEF Feed
      <3>2. /\ q.raised = p.raised /\ q.results = p.results
            /\ q.inTitle = p.inTitle /\ q.inSnippet = p.inSnippet /\ q.href = p.href
            /\ p.inTitle => q.title = p.title + x.text /\ q.snippet = p.snippet
            /\ ~ p.inTitle /\ p.inSnippet => q.snippet = p.snippet + x.text
        BY <3>1 DEF Parser
      <3> HIDE DEF q, r, n
      <3>3. ~ q.raised
        BY <1>4, <3>2
      <3>4. ~ BrokenTitle(r)
        BY <2>3, <2>8
      <3>5. HitsOf(r, q.results)
        BY <2>2, <2>3, <2>8, <3>2
      <3>6. q.inTitle <=> InTitle(r, n + 1)
        BY <1>2, <2>4, <2>8, <3>2
      <3>7. q.inTitle => q.href = HrefAt(r, n + 1) /\ q.title = TitleText(r, n + 1)
        BY <1>2, <2>4, <2>8, <3>2
      <3>8. q.inSnippet <=> InSnippet(r, n + 1)
        BY <1>2, <2>4, <2>8, <3>2
      <3>9. q.inSnippet => q.snippet = SnippetText(r, n + 1)
        BY <1>2, <2>4, <2>8, <3>2
      <3> QED
        BY ONLY <2>5, <3>3, <3>4, <3>5, <3>6, <3>7, <3>8, <3>9
             DEF HasRead, OpenIn, r, q
    <2>9. CASE x.kind = "end" /\ p.inTitle
      <3> DEFINE closed == [p EXCEPT !.inTitle = FALSE, !.href = NoHref]
                 found  == [url |-> UnwrapDdg(p.href), title |-> p.title, snippet |-> 0]
      <3>1. q = IF p.href.form = "broken" THEN [closed EXCEPT !.raised = TRUE]
                ELSE IF found.url = NoUrl THEN closed
                ELSE [closed EXCEPT !.results = Append(@, found)]
        BY <1>4, <2>9 DEF Feed, EndTitle
      <3>2. /\ closed.raised = p.raised /\ closed.results = p.results
            /\ closed.inTitle = FALSE /\ closed.inSnippet = p.inSnippet
            /\ closed.snippet = p.snippet
            /\ [closed EXCEPT !.raised = TRUE].raised = TRUE
        BY DEF Parser
      <3>3. ~ Adds(s, x)
        BY <2>3, <2>9
      <3>4. CASE p.href.form = "broken"
        <4>1. q.raised = TRUE
          BY <3>1, <3>2, <3>4
        <4>2. BrokenTitle(r)
          BY <2>3, <2>9, <3>4
        <4> QED
          BY <4>1, <4>2 DEF HasRead
      <3>5. CASE p.href.form # "broken" /\ found.url = NoUrl
        <4>1. q = closed
          BY <3>1, <3>5
        <4>2. ~ Keeps(s, x)
          BY <1>2, <2>3, <3>5, TargetUnwraps
        <4> HIDE DEF q, r, n, closed, found
        <4>3. ~ q.raised
          BY <1>4, <3>2, <4>1
        <4>4. ~ BrokenTitle(r)
          BY <2>3, <3>5
        <4>5. HitsOf(r, q.results)
          BY <2>2, <3>2, <3>3, <4>1, <4>2
        <4>6. q.inTitle <=> InTitle(r, n + 1)
          BY <1>2, <2>4, <2>9, <3>2, <4>1
        <4>7. q.inTitle => q.href = HrefAt(r, n + 1) /\ q.title = TitleText(r, n + 1)
          BY <1>2, <2>4, <2>9, <3>2, <4>1
        <4>8. q.inSnippet <=> InSnippet(r, n + 1)
          BY <1>2, <2>4, <2>9, <3>2, <4>1
        <4>9. q.inSnippet => q.snippet = SnippetText(r, n + 1)
          BY <1>2, <2>4, <2>9, <3>2, <4>1
        <4> QED
          BY ONLY <2>5, <4>3, <4>4, <4>5, <4>6, <4>7, <4>8, <4>9
             DEF HasRead, OpenIn, r, q
      <3>6. CASE p.href.form # "broken" /\ found.url # NoUrl
        <4>1. q = [closed EXCEPT !.results = Append(@, found)]
          BY <3>1, <3>6
        <4>2. found.url = Unwrapped(p.href) /\ Keeps(s, x)
          BY <1>2, <2>3, <2>9, <3>6, TargetUnwraps
        <4>3. /\ q.raised = p.raised /\ q.results = Append(p.results, found)
              /\ q.inTitle = FALSE /\ q.inSnippet = p.inSnippet /\ q.snippet = p.snippet
          BY <3>2, <4>1 DEF Parser
        <4>4. HitsOf(r, q.results)
          <5>1. found = [url |-> Unwrapped(HrefAt(s, Here(s))), title |-> TitleText(s, Here(s)),
                         snippet |-> 0]
            BY <2>1, <2>9, <4>2 DEF OpenIn
          <5>2. found \in Hit
            <6>1. Append(p.results, found) \in Seq(Hit)
              BY <1>2, <4>3 DEF Parser
            <6>2. Append(p.results, found)[Len(p.results) + 1] = found
              BY <1>2
            <6>3. Len(p.results) + 1 \in DOMAIN Append(p.results, found)
              BY <1>2
            <6> HIDE DEF found
            <6> QED
              BY <6>1, <6>2, <6>3
          <5> HIDE DEF found
          <5>3. HitsOf(Append(s, x), Append(p.results, found))
            BY <1>2, <2>1, <4>2, <5>1, <5>2, HitsKept
          <5> QED
            BY <4>3, <5>3
        <4> HIDE DEF q, r, n, closed, found
        <4>5. ~ q.raised
          BY <1>4, <4>3
        <4>6. ~ BrokenTitle(r)
          BY <2>3, <3>6
        <4>7. q.inTitle <=> InTitle(r, n + 1)
          BY <1>2, <2>4, <2>9, <4>3
        <4>8. q.inTitle => q.href = HrefAt(r, n + 1) /\ q.title = TitleText(r, n + 1)
          BY <1>2, <2>4, <2>9, <4>3
        <4>9. q.inSnippet <=> InSnippet(r, n + 1)
          BY <1>2, <2>4, <2>9, <4>3
        <4>10. q.inSnippet => q.snippet = SnippetText(r, n + 1)
          BY <1>2, <2>4, <2>9, <4>3
        <4> QED
          BY ONLY <2>5, <4>4, <4>5, <4>6, <4>7, <4>8, <4>9, <4>10
             DEF HasRead, OpenIn, r, q
      <3> QED
        BY <3>4, <3>5, <3>6
    <2>10. CASE x.kind = "end" /\ ~ p.inTitle /\ p.inSnippet
      <3> DEFINE l == Len(p.results)
                 hits == IF l > 0 /\ p.results[l].snippet = 0
                         THEN [p.results EXCEPT ![l].snippet = p.snippet]
                         ELSE p.results
      <3>1. q = EndSnippet(p)
        BY <1>4, <2>10 DEF Feed
      <3>2. /\ q.raised = p.raised /\ q.results = hits
            /\ q.inTitle = p.inTitle /\ q.inSnippet = FALSE
        BY <3>1 DEF EndSnippet, Parser
      <3>3. p.snippet = SnippetText(s, n) /\ SnippetText(s, n) \in Nat /\ Adds(s, x)
        BY <1>2, <2>1, <2>3, <2>10 DEF OpenIn
      <3>4. HitsOf(r, hits)
        BY <1>2, <2>1, <3>3, HitsSnippet
      <3>5. ~ Keeps(s, x)
        BY <2>3, <2>10
      <3> HIDE DEF q, r, n, hits
      <3>6. ~ q.raised
        BY <1>4, <3>2
      <3>7. ~ BrokenTitle(r)
        BY <2>3, <2>10
      <3>8. HitsOf(r, q.results)
        BY <3>2, <3>4
      <3>9. q.inTitle <=> InTitle(r, n + 1)
        BY <1>2, <2>4, <2>10, <3>2
      <3>10. q.inTitle => q.href = HrefAt(r, n + 1) /\ q.title = TitleText(r, n + 1)
        BY <1>2, <2>4, <2>10, <3>2
      <3>11. q.inSnippet <=> InSnippet(r, n + 1)
        BY <1>2, <2>4, <2>10, <3>2
      <3>12. q.inSnippet => q.snippet = SnippetText(r, n + 1)
        BY <1>2, <2>4, <2>10, <3>2
      <3> QED
        BY ONLY <2>5, <3>6, <3>7, <3>8, <3>9, <3>10, <3>11, <3>12
             DEF HasRead, OpenIn, r, q
    <2>11. CASE x.kind = "end" /\ ~ p.inTitle /\ ~ p.inSnippet
      <3>1. q = p
        BY <1>4, <2>11 DEF Feed
      <3>2. HitsOf(r, p.results)
        BY <2>2, <2>3, <2>11
      <3> HIDE DEF q, r, n
      <3>3. ~ q.raised
        BY <1>4, <3>1
      <3>4. ~ BrokenTitle(r)
        BY <2>3, <2>11
      <3>5. HitsOf(r, q.results)
        BY <3>1, <3>2
      <3>6. q.inTitle <=> InTitle(r, n + 1)
        BY <1>2, <2>4, <2>11, <3>1
      <3>7. q.inTitle => q.href = HrefAt(r, n + 1) /\ q.title = TitleText(r, n + 1)
        BY <1>2, <2>4, <2>11, <3>1
      <3>8. q.inSnippet <=> InSnippet(r, n + 1)
        BY <1>2, <2>4, <2>11, <3>1
      <3>9. q.inSnippet => q.snippet = SnippetText(r, n + 1)
        BY <1>2, <2>4, <2>11, <3>1
      <3> QED
        BY ONLY <2>5, <3>3, <3>4, <3>5, <3>6, <3>7, <3>8, <3>9
             DEF HasRead, OpenIn, r, q
    <2> QED
      BY <1>2, <2>6, <2>7, <2>8, <2>9, <2>10, <2>11
  <1> QED
    BY <1>3, <1>4

\* Feeding a page token by token (_DDGResultParser) leaves what the page says:
\* by induction over its tokens.
THEOREM PageIsRead ==
  ASSUME NEW tokens \in Seq(PageToken)
  PROVE  LET parsed == FoldLeft(Feed, FreshParser, tokens)
         IN  parsed \in Parser /\ HasRead(tokens, parsed)
  <1> DEFINE parsed(s) == FoldLeft(Feed, FreshParser, s)
             Q == {s \in Seq(PageToken) : parsed(s) \in Parser /\ HasRead(s, parsed(s))}
  <1>1. \A T : Max(T) = Parsers!Max(T)
    BY DEF Max, Parsers!Max
  <1>2. \A s : parsed(s) = Parsers!Fold(<<>>, FreshParser, s)
    BY <1>1 DEF FoldLeft, MapThenFoldSet, Parsers!Fold,
                Parsers!FoldLeft, Parsers!MapThenFoldSet
  <1> HIDE DEF parsed
  <1>3. FreshParser \in Parser
    BY DEF FreshParser, Parser, NoHref, Href
  <1>4. <<>> \in Q
    BY <1>2, <1>3, Parsers!FoldEmpty, FreshHasRead
  <1>5. ASSUME NEW s \in Seq(PageToken), s \in Q, NEW token \in PageToken
        PROVE  Append(s, token) \in Q
    <2>1. parsed(Append(s, token)) = Feed(parsed(s), token)
      BY <1>2, Parsers!FoldAppend
    <2> QED
      BY <1>5, <2>1, FeedType, FeedReads
  <1>6. tokens \in Q
    <2> HIDE DEF Q
    <2> QED
      BY <1>4, <1>5, Parsers!SeqSetInduction
  <1> QED
    BY <1>6 DEF parsed

\* A title that is closed has an href.
LEMMA ClosedHasHref ==
  ASSUME NEW s \in Seq(PageToken), NEW t \in Closed(s)
  PROVE  HrefAt(s, t) \in Href
  <1>1. InTitle(s, t) /\ t \in DOMAIN s
    BY DEF Closed, ClosesTitle
  <1>2. LastOf(s, "title", t) \in DOMAIN s
    <2>1. t \in Nat /\ DOMAIN s = 1..Len(s) /\ Len(s) \in Nat /\ t \in 1..Len(s)
      BY <1>1
    <2>2. Opened(s, "title", t) # {}
      BY <1>1 DEF InTitle, Opened
    <2>3. LastOf(s, "title", t) \in 1..(t - 1)
      BY <2>1, <2>2, LastMember DEF Opened
    <2> QED
      BY <2>1, <2>3
  <1>3. s[LastOf(s, "title", t)] \in PageToken
    BY <1>2
  <1>4. \A token \in PageToken : token.href \in Href
    BY DEF PageToken
  <1> QED
    BY <1>3, <1>4 DEF HrefAt

\* A results page of DuckDuckGo is read as it is written (duckduckgo.py), for
\* every sequence of tags and texts: the hits are those of the closed titles
\* that name a target, each with its own text and the first snippet after it,
\* and with that target unless a second decoding changes it.
THEOREM PagesReadExactly == Spec => []PageReadExactly
  <1>1. ASSUME IInv PROVE PageReadExactly
    <2>1. ASSUME NEW i \in DOMAIN responses, responses[i] # None, engines[i] = "duckduckgo"
          PROVE  IF BrokenTitle(responses[i].tokens) THEN outcomes[i] = <<>>
                 ELSE LET page == responses[i].tokens
                          kept == Kept(page)
                      IN  /\ Len(outcomes[i]) = IF count < Cardinality(kept) THEN count
                                                ELSE Cardinality(kept)
                          /\ \A t \in kept : Place(kept, t) <= count =>
                               LET hit == outcomes[i][Place(kept, t)]
                                   href == HrefAt(page, t)
                               IN  /\ hit.title = TitleText(page, t)
                                   /\ hit.snippet = SnippetAt(page, kept, t)
                                   /\ Literal(href) => hit.url = Target(href)
      <3> DEFINE page == responses[i].tokens
                 parsed == FoldLeft(Feed, FreshParser, page)
                 kept == Kept(page)
      <3>1. /\ i \in DOMAIN outcomes /\ engines[i] \in ToSet(Registry)
            /\ responses[i] \in Offers[requested][engines[i]]
            /\ outcomes[i] = Read(engines[i], responses[i], count)
        BY <1>1, <2>1 DEF IInv, TypeOK
      <3>2. /\ count \in Nat /\ responses[i] \in ServiceResponse
            /\ responses[i].kind = "page"
        <4>1. PICK q \in Questions : q.engines = requested /\ q.count = count
          BY <1>1 DEF IInv, TypeOK
        <4> QED
          BY <2>1, <3>1, <4>1, SearchAssumption
      <3>3. page \in Seq(PageToken)
        BY <3>2 DEF ServiceResponse
      <3>4. outcomes[i] = IF parsed.raised THEN <<>> ELSE UpTo(count, parsed.results)
        BY <2>1, <3>1 DEF Read, ReadPage
      <3> HIDE DEF page
      <3>5. parsed \in Parser /\ HasRead(page, parsed)
        BY <3>3, PageIsRead
      <3>6. Placed(kept, Here(page))
        BY <3>3, KeptPlaced
      <3> HIDE DEF parsed
      <3>7. CASE parsed.raised
        BY <3>4, <3>5, <3>7 DEF HasRead, page
      <3>8. CASE ~ parsed.raised
        <4>1. ~ BrokenTitle(page) /\ HitsOf(page, parsed.results)
          BY <3>5, <3>8 DEF HasRead
        <4>2. parsed.results \in Seq(Hit) /\ outcomes[i] = UpTo(count, parsed.results)
          BY <3>4, <3>5, <3>8 DEF Parser
        <4>3. /\ DOMAIN outcomes[i] = {r \in DOMAIN parsed.results : r <= count}
              /\ Len(outcomes[i]) = IF count < Len(parsed.results) THEN count
                                    ELSE Len(parsed.results)
              /\ \A r \in DOMAIN outcomes[i] : outcomes[i][r] = parsed.results[r]
          <5> DEFINE found == parsed.results
          <5>1. found \in Seq(Hit) /\ count \in Nat
            BY <3>2, <4>2
          <5> HIDE DEF found
          <5>2. /\ DOMAIN UpTo(count, found) = {r \in DOMAIN found : r <= count}
                /\ Len(UpTo(count, found)) = IF count < Len(found) THEN count ELSE Len(found)
                /\ \A r \in DOMAIN UpTo(count, found) : UpTo(count, found)[r] = found[r]
            BY ONLY <5>1, UpToType
          <5> QED
            BY <4>2, <5>2 DEF found
        <4>4. /\ Len(parsed.results) = Cardinality(kept)
              /\ \A t \in kept : parsed.results[Place(kept, t)] = HitRead(page, kept, t)
          BY <4>1 DEF HitsOf
        <4>5. \A t \in kept : Place(kept, t) \in DOMAIN parsed.results
          BY <3>6, <4>2, <4>4 DEF Placed
        <4> HIDE DEF kept
        <4>6. /\ Len(outcomes[i]) = IF count < Cardinality(kept) THEN count
                                    ELSE Cardinality(kept)
              /\ \A t \in kept : Place(kept, t) <= count =>
                   outcomes[i][Place(kept, t)] = HitRead(page, kept, t)
          BY <4>3, <4>4, <4>5
        <4>7. ASSUME NEW t \in kept, Place(kept, t) <= count
              PROVE  LET hit == outcomes[i][Place(kept, t)]
                         href == HrefAt(page, t)
                     IN  /\ hit.title = TitleText(page, t)
                         /\ hit.snippet = SnippetAt(page, kept, t)
                         /\ Literal(href) => hit.url = Target(href)
          <5>1. outcomes[i][Place(kept, t)] = HitRead(page, kept, t)
            BY <4>6, <4>7
          <5>2. HrefAt(page, t) \in Href
            BY <3>3, ClosedHasHref DEF kept, Kept
          <5> QED
            BY <5>1, <5>2, TargetUnwraps DEF HitRead
        <4> QED
          BY <4>1, <4>6, <4>7 DEF kept, page
      <3> QED
        BY <3>7, <3>8
    <2> QED
      BY <2>1 DEF PageReadExactly, BrokenTitle, Kept, Closed, Place
  <1> QED
    BY <1>1, Inductive, PTL
===============================================================================
