---------------------------- MODULE Reconciliation ----------------------------
(***************************************************************************)
(* reconcile_claims of pipeline.py: the pure algorithm both orchestrators   *)
(* (EnrichmentPipeline and ResearchEngine) end with.  It groups claims by   *)
(* field and by canonical value, elects one representative of every value   *)
(* and one winner of every field, and fails closed on disagreement.         *)
(*                                                                         *)
(* A claim is [field, value, kind, conf, url, at].  Python compares         *)
(* confidences, URLs and canonical JSON texts only by their order, so the   *)
(* three are natural numbers here; the text of a name or a value never      *)
(* matters, only what strip() and canonical_value() make of it.             *)
(***************************************************************************)
EXTENDS Integers, Sequences, SequencesExt

CONSTANTS
  Strip,         \* str.strip() on field names: raw name |-> name or Blank
  Blank,         \* the empty string
  Canonical,     \* canonical_value: value |-> rank of its JSON text
  Unencodable    \* values json.dumps(sort_keys=True) raises on (mixed keys)

ASSUME StripAssumption ==
  /\ Blank \in DOMAIN Strip /\ Strip[Blank] = Blank
  /\ \A raw \in DOMAIN Strip : /\ Strip[raw] \in DOMAIN Strip
                               /\ Strip[Strip[raw]] = Strip[raw]
  /\ \A value \in DOMAIN Canonical : Canonical[value] \in Int

Kinds == {"observed", "inferred"}
Named == {name \in DOMAIN Strip : Strip[name] # Blank}

\* Claim.__post_init__ refuses a blank field.
Claim == [field : Named, value : DOMAIN Canonical, kind : Kinds,
          conf : Nat, url : Nat, at : STRING]

-------------------------------------------------------------------------------
(* Order of claims: kind, then confidence, then URL, then canonical text.   *)

\* Slip: the rank stops at the confidence, ties fall back on arrival order.
RankWithoutTieBreaks(claim) ==
  << IF claim.kind = "observed" THEN 0 ELSE 1, -claim.conf >>

\* Slip: confidence outranks the kind of the claim.
RankConfidenceFirst(claim) ==
  << -claim.conf, IF claim.kind = "observed" THEN 0 ELSE 1,
     claim.url, Canonical[claim.value] >>

Rank(claim) ==
  << IF claim.kind = "observed" THEN 0 ELSE 1,
     -claim.conf, claim.url, Canonical[claim.value] >>

Below(r, s) ==
  \E k \in DOMAIN r : r[k] < s[k] /\ \A j \in 1..(k - 1) : r[j] = s[j]

Ranked(c, d) == Below(Rank(c), Rank(d))

\* Slip: the latest claim wins.
BestLatest(claims) == claims[Len(claims)]

\* Python's min(claims, key=_rank): the first of the claims of least rank.
Best(claims) ==
  claims[CHOOSE i \in DOMAIN claims :
           \A j \in DOMAIN claims :
             /\ ~ Ranked(claims[j], claims[i])
             /\ j < i => Ranked(claims[i], claims[j])]

-------------------------------------------------------------------------------
(* Lists.  dict keeps insertion order: keys appear as first seen.           *)

\* (x for x in seq if x in those): a fold, so that it can be reasoned about.
Where(seq, those) ==
  FoldLeft(LAMBDA kept, x : IF x \in those THEN Append(kept, x) ELSE kept,
           <<>>, seq)

\* tuple(dict.fromkeys(seq)): the first occurrences, in order.
Distinct(seq) ==
  FoldLeft(LAMBDA seen, x : IF Contains(seen, x) THEN seen ELSE Append(seen, x),
           <<>>, seq)

\* How many of the sorted claims stay in front of claim c.
Slot(sorted, c) ==
  CHOOSE k \in 0..Len(sorted) :
    /\ \A j \in 1..k : ~ Ranked(c, sorted[j])
    /\ \A j \in (k + 1)..Len(sorted) : Ranked(c, sorted[j])

\* sorted(claims, key=_rank), stable.
Sorted(claims) ==
  FoldLeft(LAMBDA sorted, c : InsertAt(sorted, Slot(sorted, c) + 1, c), <<>>, claims)

-------------------------------------------------------------------------------
(* Grouping.                                                                *)

\* Slip: names are compared as they are written.
DedupeUnstripped(names) == Distinct(Where(names, Named))

\* _dedupe: strip, drop the blank names, keep first occurrences.
Dedupe(names) == Distinct(Where([k \in DOMAIN names |-> Strip[names[k]]], Named))

FieldOrder(claims) == Distinct([k \in DOMAIN claims |-> Strip[claims[k].field]])

ClaimsOn(claims, name) ==
  Where(claims, {c \in ToSet(claims) : Strip[c.field] = name})

Asserting(claims, text) ==
  Where(claims, {c \in ToSet(claims) : Canonical[c.value] = text})

\* One representative per canonical value, in the order the values appear.
Representatives(claims) ==
  LET texts == Distinct([k \in DOMAIN claims |-> Canonical[claims[k].value]])
  IN  [g \in DOMAIN texts |-> Best(Asserting(claims, texts[g]))]

Rivals(claims, chosen) ==
  {c \in ToSet(claims) : Canonical[c.value] # Canonical[chosen.value]}

\* Slip: a disagreement counts only when it is as confident as the winner.
ResolveIgnoringWeaker(claims) ==
  LET reps   == Representatives(claims)
      chosen == Best(reps)
      others == Sorted(Where(reps, {c \in Rivals(reps, chosen) : c.conf >= chosen.conf}))
  IN  [ chosen       |-> chosen,
        status       |-> IF others # <<>> \/ chosen.kind = "inferred"
                         THEN "needs_review" ELSE "accepted",
        alternatives |-> others ]

Resolve(claims) ==
  LET reps   == Representatives(claims)
      chosen == Best(reps)
      others == Where(Sorted(reps), Rivals(reps, chosen))
  IN  [ chosen       |-> chosen,
        status       |-> IF others # <<>> \/ chosen.kind = "inferred"
                         THEN "needs_review" ELSE "accepted",
        alternatives |-> others ]

\* field name |-> its resolution
ReconcileClaims(claims) ==
  [name \in ToSet(FieldOrder(claims)) |-> Resolve(ClaimsOn(claims, name))]

\* ReconciliationResult.review_fields
ReviewFields(claims) ==
  Where(FieldOrder(claims),
        {name \in ToSet(FieldOrder(claims)) :
           ReconcileClaims(claims)[name].status = "needs_review"})

\* canonical_value raises before any result exists.
CanReconcile(claims) == \A k \in DOMAIN claims : claims[k].value \notin Unencodable

-------------------------------------------------------------------------------
(* What both callers build from the resolutions.                            *)

Attributes(claims) ==
  [name \in ToSet(FieldOrder(claims)) |->
     LET chosen == ReconcileClaims(claims)[name].chosen
     IN  [ value |-> chosen.value, url |-> chosen.url,
           at |-> chosen.at, conf |-> chosen.conf ]]

Missing(requested, attributes) ==
  Where(requested, ToSet(requested) \ DOMAIN attributes)
===============================================================================
