--------------------------------- MODULE Fusion ---------------------------------
(***************************************************************************)
(* search/fusion.py: reciprocal rank fusion.  A pure algorithm: ranked hit  *)
(* lists of several engines become one ranking of pages.                    *)
(*                                                                         *)
(* A URL is [scheme, host, upper, path, slashes, tracked, query, ok]: the   *)
(* scheme 0 when none is written, host, path and query numbered in the      *)
(* order of their text, the host perhaps in upper case, a number of         *)
(* trailing slashes, perhaps tracking parameters; ok is FALSE when urlparse *)
(* raises on it.  Scores are exact here, multiples of 1/Scale.  The code    *)
(* adds doubles, whose sum of three or more terms may depend on their order *)
(* in the last bit: where exact scores tie and one has three terms, the     *)
(* code may rank either page first, and no property speaks of that order.   *)
(***************************************************************************)
EXTENDS Integers, Sequences, SequencesExt

CONSTANTS
  Paths,      \* the paths of URLs
  K,          \* rrf_k
  Scale,      \* the unit of scores is 1/Scale
  MaxHits     \* bound: hits of one list

ASSUME FusionAssumption ==
  /\ Paths \subseteq Nat
  /\ K \in Nat /\ MaxHits \in Nat /\ Scale \in Nat
  /\ \A d \in 1..MaxHits : Scale % (K + d) = 0

Https == 2

\* _normalize_url: https unless a scheme is written, case of the host folded,
\* one trailing slash and the tracking parameters dropped.
NormalizeUrl(url) ==
  << IF url.scheme = 0 THEN Https ELSE url.scheme, url.host, url.path,
     IF url.slashes > 0 THEN url.slashes - 1 ELSE 0, url.query >>

\* The first hit of a list is at position 1 here, at 0 in the code.
Contribution(position) == Scale \div (K + position)

-------------------------------------------------------------------------------
(* The loop over engines and hits.  lists is per_engine, a dict in its      *)
(* order: a sequence of [engine, hits].  A hit is [url, title, snippet];    *)
(* titles and snippets are their lengths.                                   *)

Url == [ scheme : Nat, host : Nat, upper : BOOLEAN, path : Paths, slashes : Nat,
         tracked : BOOLEAN, query : Nat, ok : BOOLEAN ]
Hit == [url : Url, title : Nat, snippet : Nat]

Appearances(lists) ==
  FlattenSeq([n \in DOMAIN lists |->
    [p \in DOMAIN lists[n].hits |->
      [engine |-> lists[n].engine, position |-> p, hit |-> lists[n].hits[p]]]])

NewEntry(a) ==
  [ score |-> 0, breakdown |-> <<>>, url |-> a.hit.url, best |-> a.position,
    title |-> 0, snippet |-> 0 ]

\* dict.get(engine, 0) + contribution
Credit(breakdown, engine, amount) ==
  [e \in DOMAIN breakdown \cup {engine} |->
     (IF e \in DOMAIN breakdown THEN breakdown[e] ELSE 0)
       + (IF e = engine THEN amount ELSE 0)]

Longer(text, kept) == IF text > kept THEN text ELSE kept

\* Slip: the score is assigned where it should be accumulated.
UpdateLastScore(entry, a) ==
  [ score     |-> Contribution(a.position),
    breakdown |-> Credit(entry.breakdown, a.engine, Contribution(a.position)),
    url       |-> IF a.position < entry.best THEN a.hit.url ELSE entry.url,
    best      |-> IF a.position < entry.best THEN a.position ELSE entry.best,
    title     |-> Longer(a.hit.title, entry.title),
    snippet   |-> Longer(a.hit.snippet, entry.snippet) ]

Update(entry, a) ==
  [ score     |-> entry.score + Contribution(a.position),
    breakdown |-> Credit(entry.breakdown, a.engine, Contribution(a.position)),
    url       |-> IF a.position < entry.best THEN a.hit.url ELSE entry.url,
    best      |-> IF a.position < entry.best THEN a.position ELSE entry.best,
    title     |-> Longer(a.hit.title, entry.title),
    snippet   |-> Longer(a.hit.snippet, entry.snippet) ]

\* agg is aggregated: key of a page |-> what the loop knows of it.
Collate(agg, a) ==
  LET key == NormalizeUrl(a.hit.url)
  IN  [k \in DOMAIN agg \cup {key} |->
         IF k # key THEN agg[k]
         ELSE Update(IF k \in DOMAIN agg THEN agg[k] ELSE NewEntry(a), a)]

Aggregate(lists) == FoldLeft(Collate, <<>>, Appearances(lists))

Consensus(entry) == Cardinality(DOMAIN entry.breakdown)

KeyBefore(k, l) == \E n \in DOMAIN k : k[n] < l[n] /\ \A m \in 1..(n - 1) : k[m] = l[m]

\* sorted(key=(-score, -consensus, normalized url))
Above(agg, k, l) ==
  \/ agg[k].score > agg[l].score
  \/ /\ agg[k].score = agg[l].score
     /\ \/ Consensus(agg[k]) > Consensus(agg[l])
        \/ Consensus(agg[k]) = Consensus(agg[l]) /\ KeyBefore(k, l)

\* sorted(): no two keys tie, so the r-th has r - 1 others above it.
Ordered(agg) ==
  [r \in 1..Cardinality(DOMAIN agg) |->
     CHOOSE k \in DOMAIN agg :
       Cardinality({l \in DOMAIN agg : Above(agg, l, k)}) = r - 1]

\* The SearchResults, best first; their index is their rank.
Fuse(lists) ==
  LET agg  == Aggregate(lists)
      keys == Ordered(agg)
  IN  [r \in DOMAIN keys |->
        [ url |-> agg[keys[r]].url,
          title |-> agg[keys[r]].title, snippet |-> agg[keys[r]].snippet,
          score |-> agg[keys[r]].score, breakdown |-> agg[keys[r]].breakdown ]]

\* urlparse raises on one of the hits, and fusion with it.
CanFuse(lists) ==
  \A n \in DOMAIN lists : \A p \in DOMAIN lists[n].hits : lists[n].hits[p].url.ok
===============================================================================
