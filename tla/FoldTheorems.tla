------------------------------ MODULE FoldTheorems ------------------------------
(***************************************************************************)
(* Facts about data the proofs of the engine need: induction over numbers,  *)
(* sequences and finite sets, stated about sets instead of predicates, and  *)
(* how the folds of the community modules unfold.  The operation folded is  *)
(* a constant operator; a module that needs the facts about an operation of *)
(* its own instantiates this one.  Op(p, x, acc) adds x to acc; p stands    *)
(* for whatever else the operation depends on.                              *)
(***************************************************************************)
EXTENDS Integers, SequencesExt, SequenceTheorems,
        FiniteSetTheorems, WellFoundedInduction, TLAPS

CONSTANT Op(_, _, _)

-------------------------------------------------------------------------------
(* Induction.                                                               *)

\* A set with 0 that is closed under successor contains every natural number.
LEMMA NatSetInduction ==
  ASSUME NEW Q, 0 \in Q, \A n \in Nat : n \in Q => n + 1 \in Q
  PROVE  Nat \subseteq Q
  <1> DEFINE T == Nat \ Q
             R == {ss \in Nat \X Nat : ss[1] < ss[2]}
  <1>1. IsWellFoundedOn(R, Nat)
    BY NatLessThanWellFounded DEF OpToRel
  <1>2. ASSUME T # {} PROVE FALSE
    <2>0. T \subseteq Nat
      OBVIOUS
    <2>1. PICK n \in T : \A m \in T : ~ (<<m, n>> \in R)
      <3> HIDE DEF T, R
      <3> QED
        BY <1>1, <1>2, <2>0, WFMin
    <2>2. \A m \in T : ~ (m < n)
      BY <2>1
    <2>3. n # 0
      OBVIOUS
    <2>4. n - 1 \in Nat /\ n - 1 \in Q
      BY <2>2, <2>3
    <2> QED
      BY <2>4
  <1> QED
    BY <1>2

\* Every nonempty sequence is a sequence with an element appended.
LEMMA SeqLast ==
  ASSUME NEW S, NEW s \in Seq(S), s # <<>>
  PROVE  \E t \in Seq(S), x \in S : s = Append(t, x) /\ Len(t) = Len(s) - 1
  <1> DEFINE t == [k \in 1..(Len(s) - 1) |-> s[k]]
             x == s[Len(s)]
  <1>0. Len(s) \in Nat
    OBVIOUS
  <1>1. Len(s) \in Nat \ {0} /\ DOMAIN s = 1..Len(s)
    OBVIOUS
  <1>2. t \in Seq(S) /\ Len(t) = Len(s) - 1 /\ x \in S
    BY <1>1
  <1>3. Append(t, x) \in Seq(S) /\ Len(Append(t, x)) = Len(s)
    BY <1>1, <1>2
  <1>4. ASSUME NEW k \in 1..Len(s) PROVE Append(t, x)[k] = s[k]
    <2>1. CASE k = Len(s)
      BY <1>1, <1>2, <2>1
    <2>2. CASE k # Len(s)
      <3>1. k \in 1..(Len(s) - 1)
        BY <1>0, <2>2
      <3>2. t[k] = s[k]
        BY <3>1
      <3>3. Append(t, x)[k] = t[k]
        <4> HIDE DEF t, x
        <4> QED
          BY <1>1, <1>2, <3>1
      <3> QED
        BY <3>2, <3>3
    <2> QED
      BY <2>1, <2>2
  <1>5. s = Append(t, x)
    <2> HIDE DEF t, x
    <2> QED
      BY <1>1, <1>3, <1>4, SeqEqual
  <1> QED
    BY <1>2, <1>5

\* A set with the empty sequence that is closed under Append contains them all.
LEMMA SeqSetInduction ==
  ASSUME NEW S, NEW Q, <<>> \in Q,
         \A s \in Seq(S) : s \in Q => \A x \in S : Append(s, x) \in Q
  PROVE  Seq(S) \subseteq Q
  <1> DEFINE N == {n \in Nat : \A s \in Seq(S) : Len(s) = n => s \in Q}
  <1>1. 0 \in N
    <2>1. \A s \in Seq(S) : Len(s) = 0 => s = <<>>
      OBVIOUS
    <2> QED
      BY <2>1
  <1>2. ASSUME NEW n \in Nat, n \in N PROVE n + 1 \in N
    <2>1. ASSUME NEW s \in Seq(S), Len(s) = n + 1 PROVE s \in Q
      <3>1. s # <<>>
        BY <2>1
      <3>2. PICK t \in Seq(S), x \in S : s = Append(t, x) /\ Len(t) = Len(s) - 1
        BY <3>1, SeqLast
      <3>3. Len(t) = n
        BY <2>1, <3>2
      <3> QED
        BY <1>2, <3>2, <3>3
    <2> QED
      BY <2>1
  <1>3. Nat \subseteq N
    <2> HIDE DEF N
    <2> QED
      BY <1>1, <1>2, NatSetInduction
  <1>4. ASSUME NEW s \in Seq(S) PROVE s \in Q
    <2>1. Len(s) \in N
      BY <1>3
    <2> QED
      BY <2>1
  <1> QED
    BY <1>4

\* A family of finite sets with {} that is closed under adding one new element
\* of S contains every finite subset of S.
LEMMA FiniteSubsetInduction ==
  ASSUME NEW S, NEW Q, {} \in Q,
         \A s \in SUBSET S, x \in S :
           IsFiniteSet(s) /\ x \notin s /\ s \in Q => s \cup {x} \in Q
  PROVE  \A s \in SUBSET S : IsFiniteSet(s) => s \in Q
  <1> DEFINE N == {n \in Nat : \A s \in SUBSET S :
                                 IsFiniteSet(s) /\ Cardinality(s) = n => s \in Q}
  <1>1. 0 \in N
    BY FS_EmptySet
  <1>2. ASSUME NEW n \in Nat, n \in N PROVE n + 1 \in N
    <2>1. ASSUME NEW s \in SUBSET S, IsFiniteSet(s), Cardinality(s) = n + 1
          PROVE  s \in Q
      <3>1. PICK x \in s : TRUE
        BY <2>1, FS_EmptySet
      <3>2. IsFiniteSet(s \ {x}) /\ Cardinality(s \ {x}) = n
        <4>1. /\ IsFiniteSet(s \ {x})
              /\ Cardinality(s \ {x}) = IF x \in s THEN Cardinality(s) - 1
                                                     ELSE Cardinality(s)
          BY <2>1, FS_RemoveElement
        <4> QED
          BY <2>1, <3>1, <4>1
      <3>3. s \ {x} \in SUBSET S /\ x \in S /\ s = (s \ {x}) \cup {x}
        BY <3>1
      <3>4. s \ {x} \in Q
        BY <1>2, <3>2, <3>3
      <3> QED
        BY <3>2, <3>3, <3>4
    <2> QED
      BY <2>1
  <1>3. Nat \subseteq N
    <2> HIDE DEF N
    <2> QED
      BY <1>1, <1>2, NatSetInduction
  <1>4. ASSUME NEW s \in SUBSET S, IsFiniteSet(s) PROVE s \in Q
    <2>1. Cardinality(s) \in N
      BY <1>3, <1>4, FS_CardinalityType
    <2> QED
      BY <1>4, <2>1
  <1> QED
    BY <1>4

-------------------------------------------------------------------------------
(* Folding, whatever picks the next element.  A table holds the value of    *)
(* the fold over every set of a family closed under subsets.                *)

Table(p, base, f, pick, g) ==
  \A s \in DOMAIN g :
    /\ IsFiniteSet(s) /\ SUBSET s \subseteq DOMAIN g
    /\ s # {} => pick[s] \in s
    /\ g[s] = IF s = {} THEN base ELSE Op(p, f[pick[s]], g[s \ {pick[s]}])

\* Tables that pick the same elements, of the same value, agree.
LEMMA TablesAgree ==
  ASSUME NEW p, NEW base, NEW f1, NEW pick1, NEW g1, NEW f2, NEW pick2, NEW g2,
         Table(p, base, f1, pick1, g1), Table(p, base, f2, pick2, g2),
         \A s \in DOMAIN g1 \cap DOMAIN g2 :
           s # {} => pick1[s] = pick2[s] /\ f1[pick1[s]] = f2[pick2[s]]
  PROVE  \A s \in DOMAIN g1 \cap DOMAIN g2 : g1[s] = g2[s]
  <1> DEFINE N == {n \in Nat : \A s \in DOMAIN g1 \cap DOMAIN g2 :
                                 Cardinality(s) = n => g1[s] = g2[s]}
  <1>1. 0 \in N
    <2>1. ASSUME NEW s \in DOMAIN g1 \cap DOMAIN g2, Cardinality(s) = 0
          PROVE  g1[s] = g2[s]
      <3>1. IsFiniteSet(s)
        BY DEF Table
      <3>2. s = {}
        BY <2>1, <3>1, FS_EmptySet
      <3> QED
        BY <3>2 DEF Table
    <2> QED
      BY <2>1
  <1>2. ASSUME NEW n \in Nat, n \in N PROVE n + 1 \in N
    <2>1. ASSUME NEW s \in DOMAIN g1 \cap DOMAIN g2, Cardinality(s) = n + 1
          PROVE  g1[s] = g2[s]
      <3> DEFINE x == pick1[s]
      <3>1. IsFiniteSet(s)
        BY DEF Table
      <3>2. s # {}
        BY <2>1, FS_EmptySet
      <3>3. x \in s /\ x = pick2[s] /\ f1[x] = f2[x]
        BY <3>2 DEF Table
      <3>4. s \ {x} \in DOMAIN g1 \cap DOMAIN g2
        BY DEF Table
      <3>5. Cardinality(s \ {x}) = IF x \in s THEN Cardinality(s) - 1
                                              ELSE Cardinality(s)
        BY <3>1, FS_RemoveElement
      <3>6. Cardinality(s \ {x}) = n
        BY <2>1, <3>3, <3>5
      <3>7. g1[s \ {x}] = g2[s \ {x}]
        BY <1>2, <3>4, <3>6
      <3>8. g1[s] = Op(p, f1[x], g1[s \ {x}])
        BY <3>2 DEF Table
      <3>9. g2[s] = Op(p, f2[pick2[s]], g2[s \ {pick2[s]}])
        BY <3>2 DEF Table
      <3> HIDE DEF x
      <3> QED
        BY <3>3, <3>7, <3>8, <3>9
    <2> QED
      BY <2>1
  <1>3. Nat \subseteq N
    <2> HIDE DEF N
    <2> QED
      BY <1>1, <1>2, NatSetInduction
  <1>4. ASSUME NEW s \in DOMAIN g1 \cap DOMAIN g2 PROVE g1[s] = g2[s]
    <2>1. IsFiniteSet(s)
      BY DEF Table
    <2>2. Cardinality(s) \in N
      BY <1>3, <2>1, FS_CardinalityType
    <2> QED
      BY <2>2
  <1> QED
    BY <1>4

\* There is a table over all subsets of a finite set.
LEMMA TableExists ==
  ASSUME NEW p, NEW base, NEW f, NEW S, IsFiniteSet(S), NEW pick,
         \A s \in SUBSET S : s # {} => pick[s] \in s
  PROVE  \E g : DOMAIN g = SUBSET S /\ Table(p, base, f, pick, g)
  <1> DEFINE Dom(n) == {s \in SUBSET S : Cardinality(s) <= n}
             N == {n \in Nat : \E g : DOMAIN g = Dom(n) /\ Table(p, base, f, pick, g)}
  <1>0. \A s \in SUBSET S : IsFiniteSet(s) /\ Cardinality(s) \in Nat
    BY FS_Subset, FS_CardinalityType
  <1>00. \A s \in SUBSET S : \A t \in SUBSET s : Cardinality(t) <= Cardinality(s)
    BY <1>0, FS_Subset
  <1>1. 0 \in N
    <2> DEFINE g == [s \in Dom(0) |-> base]
    <2>1. \A s \in Dom(0) : s = {}
      BY <1>0, FS_EmptySet
    <2>2. {} \in Dom(0)
      BY FS_EmptySet
    <2>3. Table(p, base, f, pick, g)
      BY <2>1, <2>2, FS_EmptySet DEF Table
    <2>4. DOMAIN g = Dom(0)
      OBVIOUS
    <2> QED
      BY <2>3, <2>4
  <1>2. ASSUME NEW n \in Nat, n \in N PROVE n + 1 \in N
    <2>1. PICK g : DOMAIN g = Dom(n) /\ Table(p, base, f, pick, g)
      BY <1>2
    <2> DEFINE h == [s \in Dom(n + 1) |->
                       IF s = {} THEN base ELSE Op(p, f[pick[s]], g[s \ {pick[s]}])]
    <2>2. ASSUME NEW s \in Dom(n + 1), s # {}
          PROVE  pick[s] \in s /\ s \ {pick[s]} \in Dom(n)
      <3>1. pick[s] \in s
        BY <2>2
      <3>2. Cardinality(s \ {pick[s]}) = IF pick[s] \in s THEN Cardinality(s) - 1
                                                            ELSE Cardinality(s)
        BY <1>0, FS_RemoveElement
      <3>3. Cardinality(s) \in Nat /\ Cardinality(s) <= n + 1
        BY <1>0
      <3> QED
        BY <3>1, <3>2, <3>3
    <2>3. ASSUME NEW s \in Dom(n) PROVE s \in Dom(n + 1) /\ h[s] = g[s]
      <3>1. s \in Dom(n + 1)
        BY <1>0
      <3>2. g[s] = IF s = {} THEN base ELSE Op(p, f[pick[s]], g[s \ {pick[s]}])
        BY <2>1 DEF Table
      <3> QED
        BY <3>1, <3>2
    <2>4. DOMAIN h = Dom(n + 1)
      OBVIOUS
    <2>5. \A s \in Dom(n + 1) : SUBSET s \subseteq Dom(n + 1)
      <3>1. ASSUME NEW s \in Dom(n + 1), NEW t \in SUBSET s PROVE t \in Dom(n + 1)
        <4>1. /\ Cardinality(t) <= Cardinality(s) /\ Cardinality(s) <= n + 1
              /\ Cardinality(t) \in Nat /\ Cardinality(s) \in Nat
          BY <1>0, <1>00
        <4> QED
          BY <4>1
      <3> QED
        BY <3>1
    <2>6. Table(p, base, f, pick, h)
      <3>1. ASSUME NEW s \in Dom(n + 1)
            PROVE  h[s] = IF s = {} THEN base ELSE Op(p, f[pick[s]], h[s \ {pick[s]}])
        <4>1. CASE s = {}
          BY <4>1
        <4>2. CASE s # {}
          <5>1. h[s \ {pick[s]}] = g[s \ {pick[s]}]
            <6> HIDE DEF h, Dom
            <6> QED
              BY <2>2, <2>3, <4>2
          <5>2. h[s] = Op(p, f[pick[s]], g[s \ {pick[s]}])
            BY <4>2
          <5> HIDE DEF h, Dom
          <5> QED
            BY <4>2, <5>1, <5>2
        <4> QED
          BY <4>1, <4>2
      <3>2. \A s \in Dom(n + 1) : IsFiniteSet(s)
        BY <1>0
      <3> HIDE DEF h, Dom
      <3> QED
        BY <2>2, <2>4, <2>5, <3>1, <3>2 DEF Table
    <2> HIDE DEF h, Dom
    <2> QED
      BY <2>4, <2>6
  <1>3. Nat \subseteq N
    <2> HIDE DEF N
    <2> QED
      BY <1>1, <1>2, NatSetInduction
  <1>4. Cardinality(S) \in N
    BY <1>3, FS_CardinalityType
  <1>5. Dom(Cardinality(S)) = SUBSET S
    BY <1>00, <1>0
  <1> QED
    BY <1>4, <1>5

-------------------------------------------------------------------------------
(* FoldLeft of the community modules, from the first element to the last.   *)

Fold(p, base, s) == FoldLeft(LAMBDA acc, x : Op(p, x, acc), base, s)

Largest == [T \in SUBSET Nat |-> Max(T)]

LEMMA MaxMember ==
  ASSUME NEW T, T \in SUBSET Nat, IsFiniteSet(T), T # {}
  PROVE  Max(T) \in T /\ \A x \in T : Max(T) >= x
  <1> DEFINE Q == {s \in SUBSET Nat : s # {} => \E m \in s : \A x \in s : m >= x}
  <1>1. {} \in Q
    OBVIOUS
  <1>2. ASSUME NEW s \in SUBSET Nat, NEW x \in Nat, s \in Q
        PROVE  s \cup {x} \in Q
    <2>1. CASE s = {}
      BY <2>1
    <2>2. CASE s # {}
      <3>1. PICK m \in s : \A y \in s : m >= y
        BY <1>2, <2>2
      <3>2. CASE m >= x
        BY <3>1, <3>2
      <3>3. CASE ~ (m >= x)
        <4>1. \A y \in s : x >= y
          BY <3>1, <3>3
        <4> QED
          BY <4>1
      <3> QED
        BY <3>2, <3>3
    <2> QED
      BY <2>1, <2>2
  <1>3. T \in Q
    <2> HIDE DEF Q
    <2> QED
      BY <1>1, <1>2, FiniteSubsetInduction
  <1> QED
    BY <1>3 DEF Max

\* A table over the subsets of the domain of s holds the fold of s.
LEMMA FoldIsTable ==
  ASSUME NEW p, NEW base, NEW S, NEW s \in Seq(S)
  PROVE  \E g : /\ DOMAIN g = SUBSET DOMAIN s
               /\ Table(p, base, s, Largest, g)
               /\ Fold(p, base, s) = g[DOMAIN s]
  <1> DEFINE D == DOMAIN s
             IsFold(g) == g = [t \in SUBSET D |->
                               IF t = {} THEN base
                               ELSE Op(p, s[Max(t)], g[t \ {Max(t)}])]
  <1>1. D \in SUBSET Nat /\ IsFiniteSet(D)
    BY FS_Interval
  <1>2. \A t \in SUBSET D : IsFiniteSet(t) /\ t \in SUBSET Nat /\ Largest[t] = Max(t)
    BY <1>1, FS_Subset DEF Largest
  <1>3. \A t \in SUBSET D : t # {} => Largest[t] \in t
    BY <1>2, MaxMember
  <1>4. PICK g : DOMAIN g = SUBSET D /\ Table(p, base, s, Largest, g)
    BY <1>1, <1>3, TableExists
  <1> DEFINE h == [t \in SUBSET D |-> g[t]]
  <1>5. DOMAIN h = SUBSET D /\ \A t \in SUBSET D : h[t] = g[t]
    OBVIOUS
  <1>6. \A t \in SUBSET D : t \ {Max(t)} \in SUBSET D
    OBVIOUS
  <1>7. ASSUME NEW t \in SUBSET D
        PROVE  h[t] = IF t = {} THEN base ELSE Op(p, s[Max(t)], h[t \ {Max(t)}])
    <2> HIDE DEF D, h
    <2>1. g[t] = IF t = {} THEN base ELSE Op(p, s[Largest[t]], g[t \ {Largest[t]}])
      BY <1>4 DEF Table
    <2>2. Largest[t] = Max(t) /\ h[t] = g[t] /\ h[t \ {Max(t)}] = g[t \ {Max(t)}]
      BY <1>2, <1>5, <1>6
    <2> QED
      BY <2>1, <2>2
  <1>8. IsFold(h)
    <2> DEFINE k == [t \in SUBSET D |-> IF t = {} THEN base
                                       ELSE Op(p, s[Max(t)], h[t \ {Max(t)}])]
    <2>1. \A t \in SUBSET D : h[t] = k[t]
      BY <1>7
    <2>2. h = k
      BY <2>1
    <2> QED
      BY <2>2
  <1> DEFINE c == CHOOSE q : IsFold(q)
  <1>9. IsFold(c)
    <2> HIDE DEF IsFold, h
    <2> QED
      BY <1>8
  <1>10. Fold(p, base, s) = c[D]
    BY DEF Fold, FoldLeft, MapThenFoldSet
  <1>11. DOMAIN c = SUBSET D
    BY <1>9
  <1>12. ASSUME NEW t \in SUBSET D
         PROVE  c[t] = IF t = {} THEN base ELSE Op(p, s[Max(t)], c[t \ {Max(t)}])
    <2> HIDE DEF c
    <2> QED
      BY <1>9
  <1>13. Table(p, base, s, Largest, c)
    <2> HIDE DEF c, D
    <2> QED
      BY <1>2, <1>3, <1>11, <1>12 DEF Table
  <1> HIDE DEF c, D
  <1> QED
    BY <1>10, <1>11, <1>13 DEF D

\* Nothing to fold.
THEOREM FoldEmpty ==
  ASSUME NEW p, NEW base
  PROVE  Fold(p, base, <<>>) = base
  <1>1. <<>> \in Seq({})
    OBVIOUS
  <1>2. PICK g : /\ DOMAIN g = SUBSET DOMAIN <<>>
                 /\ Table(p, base, <<>>, Largest, g)
                 /\ Fold(p, base, <<>>) = g[DOMAIN <<>>]
    BY <1>1, FoldIsTable
  <1>3. DOMAIN <<>> = {}
    OBVIOUS
  <1>4. {} \in DOMAIN g
    BY <1>2, <1>3
  <1> QED
    BY <1>2, <1>3, <1>4 DEF Table

\* The last element is added to the fold of those before it.
THEOREM FoldAppend ==
  ASSUME NEW p, NEW base, NEW S, NEW s \in Seq(S), NEW x \in S
  PROVE  Fold(p, base, Append(s, x)) = Op(p, x, Fold(p, base, s))
  <1> DEFINE t == Append(s, x)
             D == DOMAIN s
             n == Len(s)
  <1>1. /\ t \in Seq(S) /\ n \in Nat /\ D = 1..n /\ DOMAIN t = 1..(n + 1)
        /\ t[n + 1] = x /\ \A k \in D : t[k] = s[k]
    OBVIOUS
  <1> HIDE DEF t, D, n
  <1>2. PICK g : /\ DOMAIN g = SUBSET D
                 /\ Table(p, base, s, Largest, g)
                 /\ Fold(p, base, s) = g[D]
    BY FoldIsTable DEF D
  <1>3. PICK h : /\ DOMAIN h = SUBSET DOMAIN t
                 /\ Table(p, base, t, Largest, h)
                 /\ Fold(p, base, t) = h[DOMAIN t]
    <2>1. t \in Seq(S)
      BY <1>1
    <2> QED
      BY ONLY <2>1, FoldIsTable
  <1>4. Largest[DOMAIN t] = n + 1
    <2>1. DOMAIN t \in SUBSET Nat /\ IsFiniteSet(DOMAIN t) /\ DOMAIN t # {}
      <3>1. n + 1 \in Int /\ 1 \in Int /\ 1..(n + 1) \in SUBSET Nat /\ 1 \in 1..(n + 1)
        BY <1>1
      <3>2. IsFiniteSet(1..(n + 1))
        BY ONLY <3>1, FS_Interval
      <3> QED
        BY <1>1, <3>1, <3>2
    <2>2. Max(DOMAIN t) \in DOMAIN t /\ \A y \in DOMAIN t : Max(DOMAIN t) >= y
      BY <2>1, MaxMember
    <2>3. n + 1 \in DOMAIN t
      BY <1>1
    <2>4. Max(DOMAIN t) = n + 1
      BY <1>1, <2>2, <2>3
    <2> QED
      BY <2>1, <2>4 DEF Largest
  <1>5. DOMAIN t # {} /\ DOMAIN t \ {n + 1} = D /\ D \subseteq DOMAIN t
    BY <1>1
  <1>6. h[DOMAIN t] = Op(p, x, h[D])
    <2>1. DOMAIN t \in DOMAIN h
      BY <1>3
    <2>2. h[DOMAIN t] = Op(p, t[Largest[DOMAIN t]], h[DOMAIN t \ {Largest[DOMAIN t]}])
      BY <1>3, <1>5, <2>1 DEF Table
    <2> QED
      BY <1>1, <1>4, <1>5, <2>2
  <1>7. h[D] = g[D]
    <2>1. \A r \in DOMAIN h \cap DOMAIN g :
            r # {} => Largest[r] = Largest[r] /\ t[Largest[r]] = s[Largest[r]]
      <3>1. \A r \in DOMAIN g : r # {} => Largest[r] \in D
        BY <1>2 DEF Table
      <3> QED
        BY <1>1, <3>1
    <2>2. D \in DOMAIN h \cap DOMAIN g
      BY <1>2, <1>3, <1>5
    <2> QED
      BY <1>2, <1>3, <2>1, <2>2, TablesAgree
  <1> QED
    BY <1>2, <1>3, <1>6, <1>7 DEF t

-------------------------------------------------------------------------------
(* FlattenSeq of the community modules.                                     *)

\* The first n sequences of f, one after the other.
Flat(f, n) == FlattenSeq([i \in 1..n |-> f[i]])

\* g holds the concatenations of the first sequences of f, up to n of them.
FlatTable(f, n, g) ==
  /\ DOMAIN g = 1..n
  /\ \A i \in 1..n : g[i] = IF i = 1 THEN f[i] ELSE g[i - 1] \o f[i]

LEMMA FlatTableExists ==
  ASSUME NEW f, NEW n \in Nat
  PROVE  \E g : g = [i \in 1..n |-> IF i = 1 THEN f[i] ELSE g[i - 1] \o f[i]]
  <1> DEFINE Tab(m, g) == g = [i \in 1..m |-> IF i = 1 THEN f[i] ELSE g[i - 1] \o f[i]]
             Q == {m \in Nat : \E g : Tab(m, g)}
  <1>1. 0 \in Q
    <2>1. Tab(0, <<>>)
      OBVIOUS
    <2> HIDE DEF Tab
    <2> QED
      BY <2>1
  <1>2. ASSUME NEW m \in Nat, m \in Q PROVE m + 1 \in Q
    <2>1. PICK g : Tab(m, g)
      BY <1>2
    <2> DEFINE h == [i \in 1..(m + 1) |-> IF i = 1 THEN f[i] ELSE g[i - 1] \o f[i]]
    <2>2. ASSUME NEW i \in 1..m PROVE h[i] = g[i]
      <3>1. i \in 1..(m + 1)
        OBVIOUS
      <3>2. g[i] = IF i = 1 THEN f[i] ELSE g[i - 1] \o f[i]
        BY <2>1
      <3> QED
        BY <3>1, <3>2
    <2>3. ASSUME NEW i \in 1..(m + 1)
          PROVE  h[i] = IF i = 1 THEN f[i] ELSE h[i - 1] \o f[i]
      <3>1. CASE i = 1
        BY <3>1
      <3>2. CASE i # 1
        <4>1. i - 1 \in 1..m
          BY <3>2
        <4>2. h[i - 1] = g[i - 1]
          BY <2>2, <4>1
        <4>3. h[i] = g[i - 1] \o f[i]
          BY <3>2
        <4> HIDE DEF h
        <4> QED
          BY <3>2, <4>2, <4>3
      <3> QED
        BY <3>1, <3>2
    <2>4. Tab(m + 1, h)
      <3> DEFINE k == [i \in 1..(m + 1) |-> IF i = 1 THEN f[i] ELSE h[i - 1] \o f[i]]
      <3>1. \A i \in 1..(m + 1) : h[i] = k[i]
        BY <2>3
      <3>2. h = k
        BY <3>1
      <3> QED
        BY <3>2
    <2> HIDE DEF Tab, h
    <2> QED
      BY <2>4
  <1>3. n \in Q
    <2> HIDE DEF Q
    <2> QED
      BY <1>1, <1>2, NatSetInduction
  <1> QED
    BY <1>3

LEMMA FlatIsTable ==
  ASSUME NEW f, NEW n \in Nat \ {0}
  PROVE  \E g : FlatTable(f, n, g) /\ Flat(f, n) = g[n]
  <1> DEFINE s == [i \in 1..n |-> f[i]]
             Tab(g) == g = [i \in 1..n |-> IF i = 1 THEN s[i] ELSE g[i - 1] \o s[i]]
             c == CHOOSE g : Tab(g)
  <1>1. Len(s) = n /\ n # 0
    OBVIOUS
  <1>2. Flat(f, n) = c[n]
    BY <1>1 DEF Flat, FlattenSeq
  <1>3. Tab(c)
    <2>1. \E g : Tab(g)
      <3> HIDE DEF s
      <3> QED
        BY FlatTableExists
    <2> HIDE DEF Tab
    <2> QED
      BY <2>1
  <1>4. \A i \in 1..n : s[i] = f[i]
    OBVIOUS
  <1>5. FlatTable(f, n, c)
    <2> HIDE DEF c, s
    <2> QED
      BY <1>3, <1>4 DEF FlatTable
  <1> HIDE DEF c
  <1> QED
    BY <1>2, <1>5

LEMMA FlatTablesAgree ==
  ASSUME NEW f, NEW m \in Nat, NEW n \in Nat, NEW g, NEW h,
         FlatTable(f, m, g), FlatTable(f, n, h)
  PROVE  \A i \in 1..m : i <= n => g[i] = h[i]
  <1> DEFINE Q == {i \in Nat : i >= 1 /\ i <= m /\ i <= n => g[i] = h[i]}
  <1>1. 0 \in Q
    OBVIOUS
  <1>2. ASSUME NEW i \in Nat, i \in Q PROVE i + 1 \in Q
    <2>1. ASSUME i + 1 <= m, i + 1 <= n PROVE g[i + 1] = h[i + 1]
      <3>1. i + 1 \in 1..m /\ i + 1 \in 1..n /\ (i + 1) - 1 = i
        BY <2>1
      <3>2. /\ g[i + 1] = IF i + 1 = 1 THEN f[i + 1] ELSE g[i] \o f[i + 1]
            /\ h[i + 1] = IF i + 1 = 1 THEN f[i + 1] ELSE h[i] \o f[i + 1]
        BY <3>1 DEF FlatTable
      <3>3. i + 1 # 1 => g[i] = h[i]
        BY <1>2, <2>1
      <3> QED
        BY <3>2, <3>3
    <2> QED
      BY <2>1
  <1>3. Nat \subseteq Q
    <2> HIDE DEF Q
    <2> QED
      BY <1>1, <1>2, NatSetInduction
  <1> QED
    BY <1>3

\* Nothing to concatenate.
THEOREM FlatEmpty ==
  ASSUME NEW f
  PROVE  Flat(f, 0) = <<>>
  BY DEF Flat, FlattenSeq

\* One more sequence is concatenated at the end.
THEOREM FlatStep ==
  ASSUME NEW f, NEW S, NEW n \in Nat, \A i \in 1..(n + 1) : f[i] \in Seq(S)
  PROVE  Flat(f, n + 1) = Flat(f, n) \o f[n + 1]
  <1>1. PICK h : FlatTable(f, n + 1, h) /\ Flat(f, n + 1) = h[n + 1]
    <2>1. n + 1 \in Nat \ {0}
      OBVIOUS
    <2> QED
      BY ONLY <2>1, FlatIsTable
  <1>2. n + 1 \in 1..(n + 1) /\ (n + 1) - 1 = n
    OBVIOUS
  <1>3. CASE n = 0
    <2>1. h[1] = f[1] /\ f[1] \in Seq(S)
      BY <1>1, <1>2, <1>3 DEF FlatTable
    <2>2. <<>> \o f[1] = f[1]
      BY <2>1
    <2> QED
      BY <1>1, <1>3, <2>1, <2>2, FlatEmpty
  <1>4. CASE n # 0
    <2>1. PICK g : FlatTable(f, n, g) /\ Flat(f, n) = g[n]
      BY <1>4, FlatIsTable
    <2>2. n \in 1..n /\ n <= n + 1
      BY <1>4
    <2>3. g[n] = h[n]
      BY <1>1, <2>1, <2>2, FlatTablesAgree
    <2>4. h[n + 1] = h[n] \o f[n + 1]
      <3>1. h[n + 1] = IF n + 1 = 1 THEN f[n + 1] ELSE h[(n + 1) - 1] \o f[n + 1]
        BY <1>1, <1>2 DEF FlatTable
      <3>2. n + 1 # 1
        BY <1>4
      <3> QED
        BY <1>2, <3>1, <3>2
    <2> QED
      BY <1>1, <2>1, <2>3, <2>4
  <1> QED
    BY <1>3, <1>4

\* A concatenation is a sequence, and what comes first is a prefix of it.
THEOREM FlatType ==
  ASSUME NEW f, NEW S, NEW n \in Nat, \A i \in 1..n : f[i] \in Seq(S)
  PROVE  Flat(f, n) \in Seq(S)
  <1> DEFINE Q == {m \in Nat : m <= n => Flat(f, m) \in Seq(S)}
  <1>1. 0 \in Q
    <2>1. Flat(f, 0) = <<>> /\ <<>> \in Seq(S)
      BY FlatEmpty
    <2> QED
      BY <2>1
  <1>2. ASSUME NEW m \in Nat, m \in Q PROVE m + 1 \in Q
    <2>1. ASSUME m + 1 <= n PROVE Flat(f, m + 1) \in Seq(S)
      <3>1. \A i \in 1..(m + 1) : f[i] \in Seq(S)
        BY <2>1
      <3>2. Flat(f, m + 1) = Flat(f, m) \o f[m + 1]
        BY <3>1, FlatStep
      <3>3. Flat(f, m) \in Seq(S) /\ f[m + 1] \in Seq(S)
        BY <1>2, <2>1, <3>1
      <3> QED
        BY <3>2, <3>3, ConcatProperties
    <2> QED
      BY <2>1
  <1>3. n \in Q
    <2> HIDE DEF Q
    <2> QED
      BY <1>1, <1>2, NatSetInduction
  <1> QED
    BY <1>3

THEOREM FlatPrefix ==
  ASSUME NEW f, NEW S, NEW n \in Nat, \A i \in 1..n : f[i] \in Seq(S),
         NEW m \in 0..n
  PROVE  /\ Len(Flat(f, m)) <= Len(Flat(f, n))
         /\ \A k \in 1..Len(Flat(f, m)) : Flat(f, n)[k] = Flat(f, m)[k]
  <1> DEFINE Extends(l) ==
               /\ Len(Flat(f, m)) <= Len(Flat(f, l))
               /\ \A k \in 1..Len(Flat(f, m)) : Flat(f, l)[k] = Flat(f, m)[k]
             Q == {l \in Nat : m <= l /\ l <= n => Extends(l)}
  <1>0. \A l \in Nat : l <= n => Flat(f, l) \in Seq(S)
    <2>1. ASSUME NEW l \in Nat, l <= n PROVE Flat(f, l) \in Seq(S)
      <3>1. \A i \in 1..l : f[i] \in Seq(S)
        BY <2>1
      <3> QED
        BY <3>1, FlatType
    <2> QED
      BY <2>1
  <1>1. Extends(m)
    <2>1. Len(Flat(f, m)) \in Nat
      BY <1>0
    <2> QED
      BY <2>1
  <1>2. 0 \in Q
    <2>1. m <= 0 => m = 0
      OBVIOUS
    <2> HIDE DEF Extends
    <2> QED
      BY <1>1, <2>1
  <1>3. ASSUME NEW l \in Nat, l \in Q PROVE l + 1 \in Q
    <2>1. ASSUME m <= l + 1, l + 1 <= n PROVE Extends(l + 1)
      <3>1. CASE m = l + 1
        <4> HIDE DEF Extends
        <4> QED
          BY <1>1, <3>1
      <3>2. CASE m # l + 1
        <4>1. m <= l /\ l <= n
          BY <2>1, <3>2
        <4>2. Extends(l)
          BY <1>3, <4>1
        <4>3. \A i \in 1..(l + 1) : f[i] \in Seq(S)
          BY <2>1
        <4>4. Flat(f, l + 1) = Flat(f, l) \o f[l + 1]
          BY <4>3, FlatStep
        <4> DEFINE a == Flat(f, l)
                   b == f[l + 1]
                   p == Flat(f, m)
        <4>5. a \in Seq(S) /\ b \in Seq(S) /\ p \in Seq(S)
          BY <1>0, <4>1, <4>3
        <4>6. Len(p) <= Len(a) /\ \A k \in 1..Len(p) : a[k] = p[k]
          BY <4>2
        <4>7. Flat(f, l + 1) = a \o b
          BY <4>4
        <4> HIDE DEF a, b
        <4>8. Len(p) <= Len(a \o b) /\ \A k \in 1..Len(p) : (a \o b)[k] = p[k]
          <5> HIDE DEF p
          <5>1. Len(a) \in Nat /\ Len(b) \in Nat /\ Len(p) \in Nat
            BY <4>5
          <5>2. Len(a \o b) = Len(a) + Len(b)
            BY <4>5
          <5>3. \A k \in 1..Len(a) : (a \o b)[k] = a[k]
            BY <4>5
          <5> QED
            BY <4>6, <5>1, <5>2, <5>3
        <4> QED
          BY <4>7, <4>8
      <3> QED
        BY <3>1, <3>2
    <2> HIDE DEF Extends
    <2> QED
      BY <2>1
  <1>4. n \in Q
    <2> HIDE DEF Q
    <2> QED
      BY <1>2, <1>3, NatSetInduction
  <1> QED
    BY <1>4

-------------------------------------------------------------------------------
(* MapThenFoldSet of the community modules, over a finite set.              *)

SetFold(p, base, f, S) ==
  MapThenFoldSet(LAMBDA x, acc : Op(p, x, acc), base, LAMBDA i : f[i],
                 LAMBDA T : CHOOSE x \in T : TRUE, S)

Choice(S) == [T \in SUBSET S |-> CHOOSE x \in T : TRUE]

\* The order does not matter to the operation on the values in V.
Commutes(p, base, f, S, V) ==
  /\ base \in V
  /\ \A i \in S, v \in V : Op(p, f[i], v) \in V
  /\ \A i, j \in S, v \in V :
       Op(p, f[i], Op(p, f[j], v)) = Op(p, f[j], Op(p, f[i], v))

\* g holds the fold over every subset of S.
SetFolds(p, base, f, S, g) ==
  /\ DOMAIN g = SUBSET S
  /\ Table(p, base, f, Choice(S), g)
  /\ SetFold(p, base, f, S) = g[S]

LEMMA SetFoldIsTable ==
  ASSUME NEW p, NEW base, NEW f, NEW S, IsFiniteSet(S)
  PROVE  \E g : SetFolds(p, base, f, S, g)
  <1> DEFINE some(t) == CHOOSE x \in t : TRUE
             IsFold(g) == g = [t \in SUBSET S |->
                               IF t = {} THEN base
                               ELSE Op(p, f[some(t)], g[t \ {some(t)}])]
  <1>1. \A t \in SUBSET S : IsFiniteSet(t)
    BY FS_Subset
  <1>2. \A t \in SUBSET S : Choice(S)[t] = some(t) /\ (t # {} => some(t) \in t)
    BY DEF Choice
  <1>3. PICK g : DOMAIN g = SUBSET S /\ Table(p, base, f, Choice(S), g)
    <2> HIDE DEF some
    <2>1. \A t \in SUBSET S : t # {} => Choice(S)[t] \in t
      BY <1>2
    <2> QED
      BY <2>1, TableExists
  <1> DEFINE h == [t \in SUBSET S |-> g[t]]
  <1>4. ASSUME NEW t \in SUBSET S
        PROVE  h[t] = IF t = {} THEN base ELSE Op(p, f[some(t)], h[t \ {some(t)}])
    <2> HIDE DEF some
    <2>1. g[t] = IF t = {} THEN base ELSE Op(p, f[Choice(S)[t]], g[t \ {Choice(S)[t]}])
      BY <1>3 DEF Table
    <2>2. t \ {some(t)} \in SUBSET S
      OBVIOUS
    <2>3. Choice(S)[t] = some(t) /\ h[t] = g[t] /\ h[t \ {some(t)}] = g[t \ {some(t)}]
      BY <1>2, <2>2
    <2> HIDE DEF h
    <2> QED
      BY <2>1, <2>3
  <1>5. IsFold(h)
    <2> HIDE DEF some
    <2> DEFINE k == [t \in SUBSET S |-> IF t = {} THEN base
                                       ELSE Op(p, f[some(t)], h[t \ {some(t)}])]
    <2>1. \A t \in SUBSET S : h[t] = k[t]
      BY <1>4
    <2>2. h = k
      BY <2>1
    <2> QED
      BY <2>2
  <1> DEFINE c == CHOOSE q : IsFold(q)
  <1>6. IsFold(c)
    <2> HIDE DEF IsFold, h
    <2> QED
      BY <1>5
  <1>7. SetFold(p, base, f, S) = c[S]
    BY DEF SetFold, MapThenFoldSet
  <1> HIDE DEF some
  <1>8. DOMAIN c = SUBSET S
    BY <1>6
  <1>9. ASSUME NEW t \in SUBSET S
        PROVE  c[t] = IF t = {} THEN base ELSE Op(p, f[some(t)], c[t \ {some(t)}])
    <2> HIDE DEF c
    <2> QED
      BY <1>6
  <1> HIDE DEF c
  <1>10. Table(p, base, f, Choice(S), c)
    BY <1>1, <1>2, <1>8, <1>9 DEF Table
  <1> QED
    BY <1>7, <1>8, <1>10 DEF SetFolds

THEOREM SetFoldEmpty ==
  ASSUME NEW p, NEW base, NEW f
  PROVE  SetFold(p, base, f, {}) = base
  <1>1. PICK g : SetFolds(p, base, f, {}, g)
    BY SetFoldIsTable, FS_EmptySet
  <1>2. {} \in DOMAIN g
    BY <1>1 DEF SetFolds
  <1> QED
    BY <1>1, <1>2 DEF Table, SetFolds

LEMMA TableType ==
  ASSUME NEW p, NEW base, NEW f, NEW S, NEW V, Commutes(p, base, f, S, V),
         NEW pick, NEW g, DOMAIN g = SUBSET S, Table(p, base, f, pick, g)
  PROVE  \A s \in SUBSET S : g[s] \in V
  <1> DEFINE N == {n \in Nat : \A s \in SUBSET S : Cardinality(s) = n => g[s] \in V}
  <1>0. \A s \in SUBSET S : IsFiniteSet(s)
    BY DEF Table
  <1>1. 0 \in N
    <2>1. ASSUME NEW s \in SUBSET S, Cardinality(s) = 0 PROVE g[s] \in V
      <3>1. s = {}
        BY <1>0, <2>1, FS_EmptySet
      <3> QED
        BY <3>1 DEF Commutes, Table
    <2> QED
      BY <2>1
  <1>2. ASSUME NEW n \in Nat, n \in N PROVE n + 1 \in N
    <2>1. ASSUME NEW s \in SUBSET S, Cardinality(s) = n + 1 PROVE g[s] \in V
      <3>1. IsFiniteSet(s) /\ s # {}
        BY <1>0, <2>1, FS_EmptySet
      <3>2. pick[s] \in s /\ g[s] = Op(p, f[pick[s]], g[s \ {pick[s]}])
        BY <3>1 DEF Table
      <3>3. Cardinality(s \ {pick[s]}) = IF pick[s] \in s THEN Cardinality(s) - 1
                                                          ELSE Cardinality(s)
        BY <3>1, FS_RemoveElement
      <3>4. Cardinality(s \ {pick[s]}) = n
        BY <2>1, <3>2, <3>3
      <3>5. g[s \ {pick[s]}] \in V /\ pick[s] \in S
        BY <1>2, <3>2, <3>4
      <3> QED
        BY <3>2, <3>5 DEF Commutes
    <2> QED
      BY <2>1
  <1>3. Nat \subseteq N
    <2> HIDE DEF N
    <2> QED
      BY <1>1, <1>2, NatSetInduction
  <1>4. ASSUME NEW s \in SUBSET S PROVE g[s] \in V
    <2>1. Cardinality(s) \in N
      BY <1>0, <1>3, FS_CardinalityType
    <2> QED
      BY <2>1
  <1> QED
    BY <1>4

\* Any element may be taken as the last one added.
LEMMA TableCommutes ==
  ASSUME NEW p, NEW base, NEW f, NEW S, NEW V, Commutes(p, base, f, S, V),
         NEW g, SetFolds(p, base, f, S, g)
  PROVE  \A x \in S : g[S] = Op(p, f[x], g[S \ {x}])
  <1> DEFINE pick == Choice(S)
             Holds(s) == \A x \in s : g[s] = Op(p, f[x], g[s \ {x}])
             N == {n \in Nat : \A s \in SUBSET S : Cardinality(s) = n => Holds(s)}
  <1>00. DOMAIN g = SUBSET S /\ Table(p, base, f, pick, g)
    BY DEF SetFolds
  <1> HIDE DEF pick
  <1>0. \A s \in SUBSET S : IsFiniteSet(s)
    BY <1>00 DEF Table
  <1>1. 0 \in N
    <2>1. ASSUME NEW s \in SUBSET S, Cardinality(s) = 0 PROVE Holds(s)
      <3>1. s = {}
        BY <1>0, <2>1, FS_EmptySet
      <3> QED
        BY <3>1
    <2> QED
      BY <2>1
  <1>2. ASSUME NEW n \in Nat, n \in N PROVE n + 1 \in N
    <2>0. ASSUME NEW s \in SUBSET S, Cardinality(s) = n PROVE Holds(s)
      BY <1>2, <2>0
    <2>1. ASSUME NEW s \in SUBSET S, Cardinality(s) = n + 1 PROVE Holds(s)
      <3> DEFINE y == pick[s]
      <3>1. IsFiniteSet(s) /\ s # {}
        BY <1>0, <2>1, FS_EmptySet
      <3>2. y \in s /\ g[s] = Op(p, f[y], g[s \ {y}])
        BY <1>00, <3>1 DEF Table
      <3>3. ASSUME NEW x \in s PROVE Cardinality(s \ {x}) = n
        <4>1. Cardinality(s \ {x}) = IF x \in s THEN Cardinality(s) - 1
                                                ELSE Cardinality(s)
          BY <3>1, FS_RemoveElement
        <4> QED
          BY <2>1, <3>3, <4>1
      <3> HIDE DEF y
      <3>4. ASSUME NEW x \in s PROVE Holds(s \ {x})
        <4>1. s \ {x} \in SUBSET S
          OBVIOUS
        <4> HIDE DEF Holds
        <4> QED
          BY <2>0, <3>3, <4>1
      <3>5. ASSUME NEW x \in s PROVE g[s] = Op(p, f[x], g[s \ {x}])
        <4>1. CASE x = y
          BY <3>2, <4>1
        <4>2. CASE x # y
          <5> DEFINE r == s \ {x, y}
          <5>1. /\ x \in s \ {y} /\ y \in s \ {x} /\ x \in S /\ y \in S
                /\ (s \ {y}) \ {x} = r /\ (s \ {x}) \ {y} = r
            BY <3>2, <4>2
          <5> HIDE DEF r
          <5>2. g[s \ {y}] = Op(p, f[x], g[r]) /\ g[s \ {x}] = Op(p, f[y], g[r])
            BY <3>2, <3>4, <5>1
          <5>3. g[r] \in V
            <6>1. r \in SUBSET S
              BY DEF r
            <6> QED
              BY <1>00, <6>1, TableType
          <5>4. Op(p, f[y], Op(p, f[x], g[r])) = Op(p, f[x], Op(p, f[y], g[r]))
            BY <5>1, <5>3 DEF Commutes
          <5> QED
            BY <3>2, <5>2, <5>4
        <4> QED
          BY <4>1, <4>2
      <3> QED
        BY <3>5
    <2> QED
      BY <2>1
  <1>3. Nat \subseteq N
    <2> HIDE DEF N
    <2> QED
      BY <1>1, <1>2, NatSetInduction
  <1>4. ASSUME NEW s \in SUBSET S PROVE Holds(s)
    <2>1. Cardinality(s) \in N
      BY <1>0, <1>3, FS_CardinalityType
    <2> QED
      BY <2>1
  <1> QED
    BY <1>4

THEOREM SetFoldType ==
  ASSUME NEW p, NEW base, NEW f, NEW S, IsFiniteSet(S), NEW V,
         Commutes(p, base, f, S, V)
  PROVE  SetFold(p, base, f, S) \in V
  <1>1. PICK g : SetFolds(p, base, f, S, g)
    BY SetFoldIsTable
  <1>2. S \in SUBSET S
    OBVIOUS
  <1>3. \A s \in SUBSET S : g[s] \in V
    BY <1>1, TableType DEF SetFolds
  <1> QED
    BY <1>1, <1>2, <1>3 DEF SetFolds

\* A new element is added to the fold of the others, whichever is picked first.
THEOREM SetFoldAdd ==
  ASSUME NEW p, NEW base, NEW f, NEW S, IsFiniteSet(S), NEW x, x \notin S,
         NEW V, Commutes(p, base, f, S \cup {x}, V)
  PROVE  SetFold(p, base, f, S \cup {x}) = Op(p, f[x], SetFold(p, base, f, S))
  <1> DEFINE D == S \cup {x}
  <1>0. IsFiniteSet(D) /\ S \in SUBSET D /\ D \in SUBSET D /\ x \in D /\ D \ {x} = S
    BY FS_AddElement
  <1>1. PICK g : SetFolds(p, base, f, S, g)
    BY SetFoldIsTable
  <1> HIDE DEF D
  <1>2. PICK h : SetFolds(p, base, f, D, h)
    <2>1. IsFiniteSet(D)
      BY <1>0
    <2> QED
      BY ONLY <2>1, SetFoldIsTable
  <1>3. h[D] = Op(p, f[x], h[S])
    <2>1. Commutes(p, base, f, D, V)
      BY DEF D
    <2>2. \A y \in D : h[D] = Op(p, f[y], h[D \ {y}])
      BY <1>2, <2>1, TableCommutes
    <2> QED
      BY <1>0, <2>2
  <1>4. h[S] = g[S]
    <2>1. \A t \in DOMAIN h \cap DOMAIN g :
            t # {} => Choice(D)[t] = Choice(S)[t] /\ f[Choice(D)[t]] = f[Choice(S)[t]]
      BY <1>0, <1>1, <1>2 DEF Choice, SetFolds
    <2>2. S \in DOMAIN h \cap DOMAIN g
      BY <1>0, <1>1, <1>2 DEF SetFolds
    <2> QED
      BY <1>1, <1>2, <2>1, <2>2, TablesAgree DEF SetFolds
  <1> QED
    BY <1>1, <1>2, <1>3, <1>4 DEF D, SetFolds
================================================================================
