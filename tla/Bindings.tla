------------------------------ MODULE Bindings ------------------------------
(***************************************************************************)
(* What the hash table of hash.c amounts to for its callers: a stack of    *)
(* values per class of keys.  Inserting shadows the values the keys of the *)
(* class already have, removing uncovers the one before, and clearing is   *)
(* final.                                                                  *)
(***************************************************************************)
EXTENDS Sequences

CONSTANTS Key, Value

VARIABLES
  class,   \* keys of one class name the same value
  stack,   \* the values a key has, newest first
  open

vars == <<class, stack, open>>

Init ==
  /\ class \in [Key -> Key]
  /\ stack = [k \in Key |-> <<>>] /\ open = TRUE

\* s becomes the stack of every key of k's class, and of no other.
Assign(k, s) == stack' = [j \in Key |-> IF class[j] = class[k] THEN s ELSE stack[j]]

Insert(k, v) == open /\ Assign(k, <<v>> \o stack[k]) /\ UNCHANGED <<class, open>>

Remove(k) == open /\ stack[k] # <<>> /\ Assign(k, Tail(stack[k])) /\ UNCHANGED <<class, open>>

Clear == open /\ open' = FALSE /\ stack' = [k \in Key |-> <<>>] /\ UNCHANGED class

Next == Clear \/ \E k \in Key : Remove(k) \/ \E v \in Value : Insert(k, v)

Spec == Init /\ [][Next]_vars
=============================================================================
