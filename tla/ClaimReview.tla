------------------------------ MODULE ClaimReview ------------------------------
(***************************************************************************)
(* The loops of reconcile_claims.  Its argument is an Iterable that the     *)
(* call takes claim by claim and files in a dict of lists; when the         *)
(* iterable ends, every list is resolved.  The iterable may end after any   *)
(* claim, so ReconcileClaims(claims) is what the call returns if it ends    *)
(* here: the invariants compare that result with the claims, and the action *)
(* properties with what one claim fewer would have returned.                *)
(***************************************************************************)
EXTENDS Reconciliation

CONSTANTS
  Universe,      \* the claims the iterable may yield
  MaxClaims      \* bound: claims the iterable yields

\* A value canonical_value refuses ends the call with an exception, whatever
\* was filed before it; both orchestrators model that (CanReconcile).
ASSUME ReviewAssumption ==
  /\ Universe \subseteq {c \in Claim : c.value \notin Unencodable}
  /\ MaxClaims \in Nat

VARIABLES
  claims,        \* history: the claims taken so far, in their order
  order,         \* the keys of by_field, in insertion order
  byField,       \* by_field: stripped name |-> its claims
  fields,        \* fields: stripped name |-> its resolution
  returned       \* the call has returned

vars == << claims, order, byField, fields, returned >>

Init ==
  /\ claims = <<>>
  /\ order = <<>>
  /\ byField = <<>>
  /\ fields = <<>>
  /\ returned = FALSE

\* by_field.setdefault(name, []).append(claim)
File(claim, name) ==
  LET group == IF name \in DOMAIN byField THEN byField[name] ELSE <<>>
  IN  /\ order' = IF name \in DOMAIN byField THEN order ELSE Append(order, name)
      /\ byField' = [n \in DOMAIN byField \cup {name} |->
                       IF n = name THEN Append(group, claim) ELSE byField[n]]

\* Slip: the claim is filed under its field as it is written.
TakeUnstripped(claim) ==
  /\ ~ returned
  /\ Len(claims) < MaxClaims
  /\ claims' = Append(claims, claim)
  /\ File(claim, claim.field)
  /\ UNCHANGED << fields, returned >>

\* The iterable yields a claim.
Take(claim) ==
  /\ ~ returned
  /\ Len(claims) < MaxClaims
  /\ claims' = Append(claims, claim)
  /\ File(claim, Strip[claim.field])
  /\ UNCHANGED << fields, returned >>

\* The iterable is exhausted: resolve every list.
Return ==
  /\ ~ returned
  /\ fields' = [name \in DOMAIN byField |-> Resolve(byField[name])]
  /\ returned' = TRUE
  /\ UNCHANGED << claims, order, byField >>

Next == (\E claim \in Universe : Take(claim)) \/ Return

Spec == Init /\ [][Next]_vars

-------------------------------------------------------------------------------

Names(list) == {Strip[list[k].field] : k \in DOMAIN list}

\* The loops compute what the definitions say they do: every claim is filed
\* once, behind the earlier ones of its stripped name and never in the list of
\* another spelling, the keys stand in the order of first mention, and what is
\* returned is the reconciliation of all the claims the iterable yielded.
FiledByField ==
  /\ claims \in Seq(Universe) /\ Len(claims) <= MaxClaims
  /\ order = FieldOrder(claims)
  /\ byField = [name \in Names(claims) |-> ClaimsOn(claims, name)]
  /\ returned \in BOOLEAN
  /\ fields = IF returned THEN ReconcileClaims(claims) ELSE <<>>

On(list, name) == {c \in ToSet(list) : Strip[c.field] = name}
Texts(list, name) == {Canonical[c.value] : c \in On(list, name)}

\* A field is accepted exactly when its claims, however they spell the field,
\* all assert one canonical value and at least one of them was observed: the
\* reconciliation fails closed, and it is not more suspicious than that.
AcceptedIffCorroborated ==
  \A name \in Names(claims) :
    ReconcileClaims(claims)[name].status = "accepted"
      <=> /\ Cardinality(Texts(claims, name)) = 1
          /\ \E c \in On(claims, name) : c.kind = "observed"

\* No asserted value is lost: every canonical value claimed for a field is the
\* suggested one or exactly one alternative, each carried by a claim really
\* made, and the alternatives are listed from strongest to weakest.
NothingLost ==
  \A name \in Names(claims) :
    LET r    == ReconcileClaims(claims)[name]
        kept == <<r.chosen>> \o r.alternatives
    IN  /\ ToSet(kept) \subseteq On(claims, name)
        /\ {Canonical[c.value] : c \in ToSet(kept)} = Texts(claims, name)
        /\ Len(kept) = Cardinality(Texts(claims, name))
        /\ \A j, k \in DOMAIN kept : j < k => Ranked(kept[j], kept[k])

\* What a reader sees of a resolution, the observation date left out: on a full
\* tie of _rank the earlier claim wins, so the date may follow the order.
Seen(claim) == << claim.kind, claim.conf, claim.url, Canonical[claim.value] >>
Outline(list, name) ==
  LET r == ReconcileClaims(list)[name]
  IN  << r.status, Seen(r.chosen),
         [k \in DOMAIN r.alternatives |-> Seen(r.alternatives[k])] >>

\* The order in which claims arrive decides nothing but which of several
\* equally ranked observation dates is quoted.
OrderIndependent ==
  \A p \in Bijection(DOMAIN claims, DOMAIN claims) :
    LET shuffled == [k \in DOMAIN claims |-> claims[p[k]]]
    IN  \A name \in Names(claims) : Outline(shuffled, name) = Outline(claims, name)

\* More evidence never launders a disagreement: once a field has alternatives
\* it keeps some, and stays under review, whatever arrives later.
ConflictSticks ==
  [][\A name \in Names(claims) :
       ReconcileClaims(claims)[name].alternatives # <<>>
         => /\ ReconcileClaims(claims')[name].alternatives # <<>>
            /\ ReconcileClaims(claims')[name].status = "needs_review"]_claims

\* The suggested claim is replaced only by a strictly better ranked one, so a
\* repeated weaker or equal observation never moves the suggestion.
SuggestionOnlyImproves ==
  [][\A name \in Names(claims) :
       LET old == ReconcileClaims(claims)[name].chosen
           new == ReconcileClaims(claims')[name].chosen
       IN  new # old => Ranked(new, old)]_claims
===============================================================================
