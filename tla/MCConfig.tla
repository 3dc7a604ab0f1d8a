------------------------------ MODULE MCConfig ------------------------------
(* Two sections, the default one among them, and two names for one key.  The *)
(* file is missing, or is one with comments in every place.                  *)
EXTENDS Config

Sections == {"", "S"}
Keys     == {"k", "K"}
LowerOf  == [n \in Sections \cup Keys |-> IF n = "K" THEN "k" ELSE n]
Values   == {"", "5"}
Texts    == {"", "a", "b"}
Comments == {<<"a">>, <<"a", "b">>}

Commented ==
  <<Remark("a"), Remark("b"), EmptyLine, Remark("a"), Setting("k", "5"), EmptyLine,
    Remark("b"), EmptyLine, EmptyLine, EmptyLine, Header("S"), Remark("a"), Setting("k", ""), Setting("K", "5"), EmptyLine>>

Files == {<<>>, Commented}
=============================================================================
