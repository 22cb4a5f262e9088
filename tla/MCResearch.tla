------------------------------ MODULE MCResearch ------------------------------
(* Values for the constants of ResearchEngine: a budget instance (three     *)
(* providers, many reservations, no claims) and a routing instance (three   *)
(* providers, conflicting claims, every verdict).                           *)
EXTENDS ResearchEngine

MCStrip == [n \in {"i", " i ", "r", "", "  "} |->
              IF n = " i " THEN "i" ELSE IF n = "  " THEN "" ELSE n]
MCCanonical == [v \in {"saas", "bank", "cyclic"} |->
                  IF v = "saas" THEN 1 ELSE IF v = "bank" THEN 2 ELSE 3]

Out(units, claims) == [tag |-> "output", units |-> units, claims |-> claims]
Bad(tag) == [tag |-> tag, units |-> 0, claims |-> <<>>]

Configured(reserve, max, spent, requested, validates) ==
  [reserve |-> reserve, max |-> max, spent |-> spent,
   requested |-> requested, validates |-> validates]

BudgetEngines ==
  { Configured(r, m, 0, <<>>, FALSE) :
      r \in [1..3 -> {1, 2, NaN}], m \in {0, 3, NoLimit} }
BudgetAnswers ==
  {Out(1, <<>>), Out(2, <<>>), Out(NaN, <<>>), Bad("raises"), Bad("aborts")}

C(field, value, kind, url) ==
  [field |-> field, value |-> value, kind |-> kind, conf |-> 1, url |-> url,
   at |-> "mon"]
A1 == C("i", "saas", "observed", 1)
A2 == C(" i ", "saas", "inferred", 2)
A3 == C("i", "bank", "observed", 2)
A4 == C("r", "bank", "observed", 1)
A5 == C("r", "cyclic", "observed", 1)

RoutingEngines ==
  { Configured(<<1, 1, 1>>, m, 0, <<"r", "  ", " i ", "i">>, v) :
      m \in {2, 3}, v \in BOOLEAN }
RoutingAnswers ==
  { Out(1, <<A1>>), Out(0, <<A2>>), Out(1, <<A3, A4>>), Out(2, <<A1>>),
    Out(1, <<A5>>), Bad("garbage"), Bad("aborts") }
AllJudgements == {"accepted", "needs_review", "rejected", "fails"}

\* Half of a budget of three units was reserved by an earlier run.
SharedEngines == { Configured(r, 3, 2, <<>>, FALSE) : r \in [1..2 -> {0, 1, 2}] }
===============================================================================
