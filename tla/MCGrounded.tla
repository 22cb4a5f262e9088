------------------------------ MODULE MCGrounded ------------------------------
(* Values for the constants of GroundedResearch: two providers on two       *)
(* threads, four deployments, eleven ways a service can answer, and pages   *)
(* that carry all, half or nothing of what a claim asserts.                 *)
EXTENDS GroundedResearch

Texts == {"saas", "SaaS", "bank", "row", "", " "}
MCStrip == [t \in Texts \cup {"i", "r"} |-> IF t = " " THEN "" ELSE t]
MCCaseFold == [t \in Texts |-> IF t = "SaaS" THEN "saas" ELSE t]
MCCanonical == [v \in {"saas", "bank", "cyclic", "empty"} |->
  CASE v = "saas" -> 1 [] v = "bank" -> 2 [] v = "cyclic" -> 3 [] v = "empty" -> 4]
MCAsText == [v \in DOMAIN MCCanonical |->
  CASE v = "cyclic" -> "row" [] v = "empty" -> "" [] OTHER -> v]

C(field, value, url) ==
  [field |-> field, value |-> value, kind |-> "observed", conf |-> 1, url |-> url,
   at |-> "mon"]
Saas == C("i", "saas", 1)
Bank == C("i", "bank", 2)
Odd == C("r", "cyclic", 1)
Void == C("r", "empty", 1)
MCDetails == [c \in {Saas, Bank, Odd, Void} |->
                CASE c = Saas -> {"bank"} [] c = Bank -> {"empty"} [] OTHER -> {}]

MCEngines ==
  { [reserve |-> <<1, 1>>, max |-> m, spent |-> 0, requested |-> <<"i">>,
     validates |-> TRUE] : m \in {1, 2} }

Service(kind, usage, request) == [kind |-> kind, usage |-> usage, request |-> request]
MCDeployments ==
  { <<Service("treg", 1, "builds"), Service("keenable", 0, "builds")>>,
    <<Service("treg", 0, "builds"), Service("search", 1, "aborts")>>,
    <<Service("treg", 2, "builds"), Service("treg", 0, "builds")>>,
    <<Service("treg", 1, "raises"), Service("scrapefold", 0, "builds")>> }

Reply(status, json, call_id, cost, charge, mapper, claims) ==
  [status |-> status, json |-> json, rows |-> TRUE, call |-> call_id, cost |-> cost,
   charge |-> charge, mapper |-> mapper, claims |-> claims]
MCResponses ==
  { Reply("ok", TRUE, 7, 5, 5, "maps", <<Saas>>),
    Reply("ok", TRUE, NoHeader, NoHeader, 0, "maps", <<Bank, Void>>),
    Reply("ok", TRUE, 8, 5, 5, "maps", <<Odd>>),
    Reply("ok", TRUE, 7, NaN, 5, "maps", <<Saas>>),
    Reply("ok", FALSE, 7, 5, 5, "maps", <<>>),
    Reply("ok", TRUE, 7, 5, 5, "raises", <<>>),
    Reply("ok", TRUE, 7, 5, 5, "aborts", <<>>),
    Reply("pending", TRUE, 9, 5, 5, "maps", <<Bank>>),
    Reply("lost", FALSE, NoHeader, NaN, 5, "maps", <<>>),
    Reply("error", TRUE, NoHeader, NoHeader, 0, "maps", <<>>),
    [Reply("ok", TRUE, 7, 5, 5, "maps", <<Saas>>) EXCEPT !.rows = FALSE] }

MCAnswers ==
  {Raises, Aborts} \cup
    { AnswerOf(d[i], r) : d \in MCDeployments, i \in 1..2, r \in MCResponses }
AllJudgements == {"accepted", "needs_review", "rejected", "fails"}
MCPages == { {}, {"SaaS"}, {"bank"}, {"saas", "bank", "row"} }
===============================================================================
