------------------------------ MODULE MCPipeline ------------------------------
(* Two providers, up to four pieces of evidence about two fields.           *)
EXTENDS EnrichmentPipeline

MCStrip == [n \in {"i", " i ", "r", "", "  "} |->
              IF n = " i " THEN "i" ELSE IF n = "  " THEN "" ELSE n]
MCCanonical == [v \in {"saas", "bank", "cyclic"} |->
                  IF v = "saas" THEN 1 ELSE IF v = "bank" THEN 2 ELSE 3]

E(url, conf, at, attributes) ==
  [url |-> url, conf |-> conf, at |-> at, attributes |-> attributes]
A(name, value) == [name |-> name, value |-> value]

MCEvidence ==
  { E(1, 1, "mon", <<A("i", "saas")>>),
    E(2, 2, "tue", <<A(" i ", "saas"), A("r", "bank")>>),
    E(1, 1, "tue", <<A("i", "bank")>>),
    E(3, 0, "mon", <<A("i", "saas"), A(" i ", "bank")>>),  \* one page, twice
    E(3, 1, "mon", <<A("r", "cyclic")>>),
    E(2, 1, "mon", <<A("i", "saas"), A("  ", "bank")>>),   \* a blank name
    E(2, 2, "mon", <<>>) }

MCRequests == {<<>>, <<"i", "  ", " i ", "r">>}
===============================================================================
