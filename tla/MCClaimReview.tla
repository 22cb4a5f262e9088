----------------------------- MODULE MCClaimReview -----------------------------
(* Nine claims on two fields, one of them also written with padding.        *)
EXTENDS ClaimReview

MCStrip == [n \in {"i", " i ", "r", "", "  "} |->
              IF n = " i " THEN "i" ELSE IF n = "  " THEN "" ELSE n]

\* "date" and "text" are different values with one canonical text.
MCCanonical == [v \in {"date", "text", "other"} |-> IF v = "other" THEN 2 ELSE 1]

C(field, value, kind, conf, url, at) ==
  [field |-> field, value |-> value, kind |-> kind, conf |-> conf,
   url |-> url, at |-> at]

MCUniverse ==
  { C("i", "text", "observed", 1, 1, "mon"),
    C("i", "text", "observed", 1, 1, "tue"),     \* ties with the first
    C(" i ", "date", "observed", 1, 2, "mon"),   \* same text, other page
    C("i", "text", "inferred", 2, 1, "mon"),     \* confident inference
    C("i", "other", "observed", 1, 1, "mon"),    \* conflict, same page
    C(" i ", "other", "observed", 2, 2, "tue"),  \* stronger conflict
    C("i", "other", "inferred", 0, 1, "mon"),
    C("r", "text", "observed", 1, 1, "mon"),
    C("r", "other", "inferred", 2, 2, "mon") }
===============================================================================
