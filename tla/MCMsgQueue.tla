----------------------------- MODULE MCMsgQueue -----------------------------
(* foobar, or msgquetest in its part, and msgquetest at the other end.      *)
EXTENDS MsgQueue

Two == {"device", "local"}
Pairs == {[p \in Two |-> IF p = "local" THEN "B" ELSE first] : first \in {"foobar", "A"}}
=============================================================================
