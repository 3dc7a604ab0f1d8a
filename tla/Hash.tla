-------------------------------- MODULE Hash --------------------------------
(***************************************************************************)
(* The chained hash table of hash.c, which dictionary.c wraps call by call *)
(* (with size = 256 and ignore_case = 0).  Keys are shorter than           *)
(* KEY_MAX_LEN.                                                            *)
(***************************************************************************)
EXTENDS Integers, Sequences, FiniteSets, FiniteSetsExt

CONSTANTS
  Key, Value, NULL,
  Upper,         \* strupper, as a function on Key
  Sum,           \* what strhash computes of a key before the final modulus
  size,
  MaxCount       \* bound: entries in the table

ASSUME HashAssumption ==
  /\ Upper \in [Key -> Key] /\ Sum \in [Key -> Nat]
  /\ NULL \notin Value
  /\ size \in Nat \ {0, 1} /\ MaxCount \in Nat

VARIABLES
  ignore_case,   \* chosen by the caller of hash_init, never changed
  array,   \* one chain of entries per slot, newest first
  count,
  state    \* "live"; "cleared": h->array is NULL; "crashed": it was used so

vars == <<ignore_case, array, count, state>>

Slot  == 0..(size - 1)
Entry == [key : Key, value : Value \cup {NULL}]

TypeOK ==
  /\ ignore_case \in BOOLEAN
  /\ array \in [Slot -> Seq(Entry)] /\ count \in Nat
  /\ state \in {"live", "cleared", "crashed"}

\* hash_init.
Init ==
  /\ ignore_case \in BOOLEAN
  /\ array = [i \in Slot |-> <<>>] /\ count = 0 /\ state = "live"

Canon(k) == IF ignore_case THEN Upper[k] ELSE k

\* Seeded fault: the case of a key is ignored by strcasecmp only.
strhash_Case(k) == Sum[k] % (size - 1)
strhash(k) == Sum[Canon(k)] % (size - 1)

\* strcasecmp or strcmp.
Same(j, k) == Canon(j) = Canon(k)

Chain(k) == array[strhash(k)]

\* The places of the entries for the key.
Hits(k) == {i \in DOMAIN Chain(k) : Same(Chain(k)[i].key, k)}

\* hash_find: the place of the newest entry for the key, 0 for none.
hash_find(k) == IF Hits(k) = {} THEN 0 ELSE Min(Hits(k))

hash_value(k) == IF hash_find(k) = 0 THEN NULL ELSE Chain(k)[hash_find(k)].value

\* Seeded faults: entries are appended; the entry after the one found goes too.
Push_Back(chain, e) == Append(chain, e)
Push(chain, e) == <<e>> \o chain

Unlink_Tail(chain, i) == SubSeq(chain, 1, i - 1)
Unlink(chain, i) == SubSeq(chain, 1, i - 1) \o SubSeq(chain, i + 1, Len(chain))

\* Seeded fault: the insertion is not counted.
Counted_Not == count
Counted == count + 1

\* A value_len of 0 stores no value.
hash_insert(k, v) ==
  /\ state = "live" /\ count < MaxCount
  /\ array' = [array EXCEPT ![strhash(k)] = Push(@, [key |-> k, value |-> v])]
  /\ count' = Counted
  /\ UNCHANGED <<ignore_case, state>>

hash_remove(k) ==
  /\ state = "live" /\ hash_find(k) # 0
  /\ array' = [array EXCEPT ![strhash(k)] = Unlink(@, hash_find(k))]
  /\ count' = count - 1
  /\ UNCHANGED <<ignore_case, state>>

Occupied == UNION {{i} \X DOMAIN array[i] : i \in Slot}
Entries  == Cardinality(Occupied)

\* Frees every entry, and the array with them.
hash_clear ==
  /\ state = "live"
  /\ array' = [i \in Slot |-> <<>>]
  /\ count' = count - Entries
  /\ state' = "cleared"
  /\ UNCHANGED ignore_case

\* Any of insert, find and remove reads h->array[index].
UseCleared ==
  /\ state = "cleared" /\ state' = "crashed"
  /\ UNCHANGED <<ignore_case, array, count>>

Next ==
  \/ \E k \in Key : hash_remove(k) \/ \E v \in Value \cup {NULL} : hash_insert(k, v)
  \/ hash_clear \/ UseCleared

Spec == Init /\ [][Next]_vars

\* hash_count tells the number of entries, shadowed ones included, and a
\* cleared table counts none.
CountsEntries == count = Entries

\* The values of the entries that k finds, newest first: the n-th is the one
\* with n entries for k up to it.
UpTo(hits, i) == {j \in hits : j <= i}
Nth(hits, n)  == CHOOSE i \in hits : Cardinality(UpTo(hits, i)) = n
Held(k) == [n \in 1..Cardinality(Hits(k)) |-> Chain(k)[Nth(Hits(k), n)].value]

\* The table is a stack of values for every key, keys that share a slot do not
\* disturb each other, and letter case matters exactly when it should.
B == INSTANCE Bindings WITH
  Value <- Value \cup {NULL},
  class <- [k \in Key |-> Canon(k)],
  open  <- state = "live",
  stack <- [k \in Key |-> Held(k)]

ImplementsBindings == B!Spec
=============================================================================
