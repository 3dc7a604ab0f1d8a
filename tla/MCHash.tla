------------------------------- MODULE MCHash -------------------------------
(* Three keys for TLC: "a" and "A" differ in case only, "b" may share their *)
(* slot.                                                                    *)
EXTENDS Hash

Keys    == {"a", "A", "b"}
UpperOf == [k \in Keys |-> IF k = "a" THEN "A" ELSE k]
SumOf   == [k \in Keys |-> CASE k = "a" -> 3 [] k = "A" -> 2 [] k = "b" -> 4]
=============================================================================
