---------------------------- MODULE MCEquipment ----------------------------
(* Two sub-devices, a number that both begin with, one that none begins with, *)
(* and values of two lengths.                                                *)
EXTENDS Equipment

Numbers == {"X1", "X2", "X", "Z"}
Prefixes == {<<n, n>> : n \in Numbers} \cup ({"X"} \X {"X1", "X2"})
Texts == {"0", "1", "100"}
SizeOf == [v \in Texts |-> IF v = "100" THEN 3 ELSE 1]
Names == <<"X1", "X2">>
Values == <<"0", "100">>

Control(n, v, u) == [op |-> 106, user |-> u, no |-> n, value |-> v]
Some ==
  {[op |-> o] : o \in {-1, 0, 103}}
    \cup {[op |-> 105, user |-> u, status |-> 0] : u \in BOOLEAN}
    \cup {[op |-> 105, user |-> TRUE, status |-> NULL]}
    \cup {Control("X1", v, TRUE) : v \in {"1", "100", NULL}}
    \cup {Control("X2", "1", TRUE), Control("X", "1", TRUE), Control("Z", "1", TRUE),
          Control("X1", "1", FALSE), Control(NULL, "1", TRUE)}

Times(m, r, a) == [e \in {"message", "report", "alarm"} |->
                     CASE e = "message" -> m [] e = "report" -> r [] e = "alarm" -> a]
Loads == {Times(3, 0, 0), Times(2, 1, 0), Times(1, 1, 1)}
=============================================================================
