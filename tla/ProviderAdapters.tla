---------------------------- MODULE ProviderAdapters ----------------------------
(***************************************************************************)
(* The adapters that make a service a provider of the research engine:      *)
(* treg.py, keenable.py, scrapefold.py and search/provider.py.  Each builds *)
(* one request from the entity, sends it once, and lets a function of the   *)
(* caller, the mapper, turn the answer into claims.                         *)
(*                                                                         *)
(* An adapter is [kind, usage, request].  Its request "raises" when it      *)
(* cannot be built: a blank query or URL, an endpoint, method, ceiling or   *)
(* timeout Treg's client refuses, a callable of the caller that raises.     *)
(***************************************************************************)
EXTENDS ResearchReport

CONSTANT NoHeader \* a header Treg did not send

Adapter == [kind : {"treg", "keenable", "scrapefold", "search"}, usage : Units,
            request : {"builds", "raises", "aborts"}]

\* The answer of a service.  status is "lost" when nothing arrives in time and
\* "pending" for HTTP 202; json is FALSE for a body that is not JSON, rows for
\* one that is no list of objects; call, cost are Treg's receipt headers (cost
\* NaN when it is no number); charge is what the service books for the call;
\* mapper is what the mapper does, with the claims it makes.
Response ==
  [ status : {"ok", "pending", "error", "lost"}, json : BOOLEAN, rows : BOOLEAN,
    call : Nat \cup {NoHeader}, cost : Units \cup {NoHeader}, charge : Nat,
    mapper : {"maps", "raises", "aborts"}, claims : Seq(Claim) ]

ReceiptShape == [call : Nat \cup {NoHeader}, cost : Units \cup {NoHeader}]

ASSUME AdaptersAssumption == NoHeader \notin Units /\ None \notin ReceiptShape

\* Slip: a cost header that is no number is read as no cost.
TregReturnsLenient(r) == r.status = "ok" /\ r.json

\* TregClient.call returns: no error status, not pending, JSON, a readable cost.
TregReturns(r) == r.status = "ok" /\ r.json /\ r.cost # NaN

\* Slip: rows that are no objects are passed over.
KeenableReturnsOfRows(r) == r.status \in {"ok", "pending"} /\ r.json

\* KeenableProvider: one row that is no object spoils the answer.
KeenableReturns(r) == r.status \in {"ok", "pending"} /\ r.json /\ r.rows

\* scrape() and search() return, or raise.
Returns(adapter, r) ==
  CASE adapter.kind = "treg"     -> TregReturns(r)
    [] adapter.kind = "keenable" -> KeenableReturns(r)
    [] OTHER                     -> r.status = "ok"

\* KeenableProvider always reports one unit.
UsageOf(adapter) == IF adapter.kind = "keenable" THEN 1 ELSE adapter.usage

Raises == [tag |-> "raises", units |-> 0, claims |-> <<>>]
Aborts == [tag |-> "aborts", units |-> 0, claims |-> <<>>]

\* What research() amounts to for the engine.
AnswerOf(adapter, r) ==
  CASE ~ Returns(adapter, r) -> Raises
    [] Returns(adapter, r) /\ r.mapper = "raises" -> Raises
    [] Returns(adapter, r) /\ r.mapper = "aborts" -> Aborts
    [] OTHER -> [tag |-> "output", units |-> UsageOf(adapter), claims |-> r.claims]

\* What becomes of the receipt of a call: the metadata of an output carry it,
\* the error of a pending task names its call, every other error drops it.
Receipt(adapter, r) ==
  CASE adapter.kind # "treg" -> None
    [] adapter.kind = "treg" /\ r.status = "pending" ->
         [call |-> r.call, cost |-> NoHeader]
    [] adapter.kind = "treg" /\ AnswerOf(adapter, r).tag = "output" ->
         [call |-> r.call, cost |-> IF r.cost = NoHeader THEN 0 ELSE r.cost]
    [] OTHER -> None
===============================================================================
