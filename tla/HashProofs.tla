----------------------------- MODULE HashProofs -----------------------------
(***************************************************************************)
(* Proofs about Hash for every set of keys, size of table and hash         *)
(* function: the count is the number of entries, and the table is for its  *)
(* callers the stack of values of Bindings.                                *)
(***************************************************************************)
EXTENDS Hash, FiniteSetTheorems, SequenceTheorems, WellFoundedInduction, TLAPS

-----------------------------------------------------------------------------
(* The n-th member of a finite set of numbers.                             *)

LEMMA LeastOf ==
  ASSUME NEW S \in SUBSET Nat, S # {} PROVE Min(S) \in S /\ \A y \in S : Min(S) <= y
<1> DEFINE R == OpToRel(<, Nat)
<1>1. IsWellFoundedOn(R, Nat) BY NatLessThanWellFounded
<1>2. PICK x \in S : \A y \in S : <<y, x>> \notin R
  <2> HIDE DEF R
  <2> QED BY <1>1, WFMin
<1>3. ASSUME NEW y \in S PROVE x <= y
  <2>1. <<y, x>> \in R <=> y < x BY DEF OpToRel
  <2> HIDE DEF R
  <2> QED BY <1>2, <2>1
<1>4. QED BY <1>3 DEF Min

\* A member is told by how many there are up to it, ...
LEMMA RankIsInjective ==
  ASSUME NEW S \in SUBSET Nat, IsFiniteSet(S)
  PROVE  /\ \A i \in S : Cardinality(UpTo(S, i)) \in 1..Cardinality(S)
         /\ \A i, j \in S : Cardinality(UpTo(S, i)) = Cardinality(UpTo(S, j)) => i = j
<1>1. ASSUME NEW i \in S
      PROVE  IsFiniteSet(UpTo(S, i)) /\ Cardinality(UpTo(S, i)) \in 1..Cardinality(S)
  <2>1. UpTo(S, i) \in SUBSET S /\ UpTo(S, i) # {} BY <1>1 DEF UpTo
  <2>2. IsFiniteSet(UpTo(S, i)) /\ Cardinality(UpTo(S, i)) <= Cardinality(S) BY <2>1, FS_Subset
  <2>3. Cardinality(UpTo(S, i)) \in Nat /\ Cardinality(S) \in Nat BY <2>2, FS_CardinalityType
  <2>4. Cardinality(UpTo(S, i)) # 0 BY <2>1, <2>2, FS_EmptySet
  <2>5. QED BY <2>2, <2>3, <2>4
<1>2. ASSUME NEW i \in S, NEW j \in S, i <= j, Cardinality(UpTo(S, i)) = Cardinality(UpTo(S, j))
      PROVE  i = j
  <2>1. UpTo(S, i) \in SUBSET UpTo(S, j)
    <3>1. \A x \in S : x \in Nat /\ i \in Nat /\ j \in Nat BY <1>2
    <3>2. \A x \in S : x <= i => x <= j BY <1>2, <3>1
    <3>3. QED BY <3>2 DEF UpTo
  <2>2. UpTo(S, j) = UpTo(S, i) BY <1>1, <1>2, <2>1, FS_Subset
  <2>3. j \in UpTo(S, i) BY <1>2, <2>2 DEF UpTo
  <2>4. QED BY <1>2, <2>3 DEF UpTo
<1>3. \A i, j \in S : i \in Nat /\ j \in Nat /\ (i <= j \/ j <= i) OBVIOUS
<1>4. QED BY <1>1, <1>2, <1>3

\* ... and every number up to the size of the set is that of a member.
LEMMA NthIsThere ==
  ASSUME NEW S \in SUBSET Nat, IsFiniteSet(S)
  PROVE  /\ \A n \in 1..Cardinality(S) : /\ Nth(S, n) \in S
                                         /\ Cardinality(UpTo(S, Nth(S, n))) = n
         /\ \A i \in S : Nth(S, Cardinality(UpTo(S, i))) = i
<1> DEFINE T == 1..Cardinality(S)
           r == [i \in S |-> Cardinality(UpTo(S, i))]
<1>1. Cardinality(S) \in Nat BY FS_CardinalityType
<1>2. IsFiniteSet(T) /\ Cardinality(T) = Cardinality(S) BY <1>1, FS_Interval
<1>3. r \in [S -> T] /\ \A i, j \in S : r[i] = r[j] => i = j BY RankIsInjective
<1>4. r \in Injection(S, T) BY <1>3 DEF Injection, IsInjective
<1>5. r \in Surjection(S, T)
  <2> HIDE DEF r, T
  <2> QED BY <1>2, <1>4, FS_Injection
<1>6. \A n \in T : \E i \in S : r[i] = n
  <2> HIDE DEF r, T
  <2> QED BY <1>5 DEF Surjection
<1>7. ASSUME NEW n \in 1..Cardinality(S)
      PROVE  Nth(S, n) \in S /\ Cardinality(UpTo(S, Nth(S, n))) = n
  <2>1. \E i \in S : Cardinality(UpTo(S, i)) = n BY <1>6, <1>7
  <2>2. QED BY <2>1 DEF Nth
<1>8. ASSUME NEW i \in S PROVE Nth(S, Cardinality(UpTo(S, i))) = i
  <2> DEFINE j == Nth(S, Cardinality(UpTo(S, i)))
  <2>1. Cardinality(UpTo(S, i)) \in 1..Cardinality(S) BY RankIsInjective
  <2>2. j \in S /\ Cardinality(UpTo(S, j)) = Cardinality(UpTo(S, i)) BY <1>7, <2>1
  <2> HIDE DEF j
  <2>3. j = i BY <1>8, <2>2, RankIsInjective
  <2>4. QED BY <2>3 DEF j
<1>9. QED BY <1>7, <1>8

\* A map that keeps the order keeps the n-th member.
LEMMA OrderKept ==
  ASSUME NEW S \in SUBSET Nat, NEW T \in SUBSET Nat, IsFiniteSet(S),
         NEW f \in [S -> T], \A t \in T : \E i \in S : f[i] = t,
         \A i, j \in S : i <= j <=> f[i] <= f[j]
  PROVE  /\ IsFiniteSet(T) /\ Cardinality(T) = Cardinality(S)
         /\ \A n \in 1..Cardinality(S) : Nth(T, n) = f[Nth(S, n)]
<1>1. \A i, j \in S : f[i] = f[j] => i = j
  <2>1. ASSUME NEW i \in S, NEW j \in S, f[i] = f[j] PROVE i = j
    <3>1. f[i] \in Nat /\ f[j] \in Nat /\ i \in Nat /\ j \in Nat OBVIOUS
    <3>2. i <= j /\ j <= i BY <2>1, <3>1
    <3>3. QED BY <3>1, <3>2
  <2>2. QED BY <2>1
<1>2. ASSUME NEW S2 \in SUBSET S, NEW T2 \in SUBSET T, \A i \in S2 : f[i] \in T2,
             \A t \in T2 : \E i \in S2 : f[i] = t
      PROVE  IsFiniteSet(T2) /\ Cardinality(T2) = Cardinality(S2)
  <2> DEFINE g == [i \in S2 |-> f[i]]
  <2>1. g \in [S2 -> T2] /\ \A t \in T2 : \E i \in S2 : g[i] = t BY <1>2
  <2>2. \A i, j \in S2 : g[i] = g[j] => i = j BY <1>1
  <2>3. g \in Bijection(S2, T2)
    BY <2>1, <2>2 DEF Bijection, Injection, Surjection, IsInjective
  <2>4. IsFiniteSet(S2) BY FS_Subset
  <2> HIDE DEF g
  <2>5. ExistsBijection(S2, T2) BY <2>3 DEF ExistsBijection
  <2>6. QED BY <2>4, <2>5, FS_Bijection
<1>3. IsFiniteSet(T) /\ Cardinality(T) = Cardinality(S) BY <1>2
<1>4. ASSUME NEW i \in S PROVE Cardinality(UpTo(T, f[i])) = Cardinality(UpTo(S, i))
  <2>1. UpTo(S, i) \in SUBSET S /\ UpTo(T, f[i]) \in SUBSET T BY DEF UpTo
  <2>2. \A j \in UpTo(S, i) : f[j] \in UpTo(T, f[i]) BY <1>4 DEF UpTo
  <2>3. ASSUME NEW t \in UpTo(T, f[i]) PROVE \E j \in UpTo(S, i) : f[j] = t
    <3>1. t \in T /\ t <= f[i] BY <2>3 DEF UpTo
    <3>2. PICK j \in S : f[j] = t BY <3>1
    <3>3. j <= i BY <1>4, <3>1, <3>2
    <3>4. QED BY <3>2, <3>3 DEF UpTo
  <2>4. QED BY <1>2, <2>1, <2>2, <2>3
<1>5. ASSUME NEW n \in 1..Cardinality(S) PROVE Nth(T, n) = f[Nth(S, n)]
  <2>1. Nth(S, n) \in S /\ Cardinality(UpTo(S, Nth(S, n))) = n BY <1>5, NthIsThere
  <2>2. f[Nth(S, n)] \in T /\ Cardinality(UpTo(T, f[Nth(S, n)])) = n BY <1>4, <2>1
  <2>3. QED BY <1>3, <2>2, NthIsThere
<1>6. QED BY <1>3, <1>5

\* The least member is the first, and the others follow it.
LEMMA FirstIsLeast ==
  ASSUME NEW S \in SUBSET Nat, IsFiniteSet(S), NEW m \in S, \A i \in S : m <= i
  PROVE  /\ IsFiniteSet(S \ {m}) /\ Cardinality(S \ {m}) = Cardinality(S) - 1
         /\ Cardinality(S) \in Nat \ {0} /\ Nth(S, 1) = m
         /\ \A n \in 1..(Cardinality(S) - 1) : Nth(S, n + 1) = Nth(S \ {m}, n)
<1> DEFINE R == S \ {m}
<1>1. IsFiniteSet(R) /\ Cardinality(R) = Cardinality(S) - 1 BY FS_RemoveElement
<1>2. Cardinality(S) \in Nat /\ Cardinality(R) \in Nat BY <1>1, FS_CardinalityType
<1>3. Cardinality(S) # 0 BY FS_EmptySet
<1>4. Nth(S, 1) = m
  <2>1. UpTo(S, m) = {m}
    <3>1. ASSUME NEW i \in S, i <= m PROVE i = m
      <4>1. i \in Nat /\ m \in Nat /\ m <= i BY <3>1
      <4>2. QED BY <3>1, <4>1
    <3>2. m <= m OBVIOUS
    <3>3. QED BY <3>1, <3>2 DEF UpTo
  <2>2. Cardinality(UpTo(S, m)) = 1 BY <2>1, FS_Singleton
  <2>3. QED BY <2>2, NthIsThere
<1>5. ASSUME NEW n \in 1..(Cardinality(S) - 1) PROVE Nth(S, n + 1) = Nth(R, n)
  <2>1. Nth(R, n) \in R /\ Cardinality(UpTo(R, Nth(R, n))) = n
    <3>1. n \in 1..Cardinality(R) BY <1>1, <1>5
    <3>2. R \in SUBSET Nat OBVIOUS
    <3> HIDE DEF R
    <3> QED BY <1>1, <3>1, <3>2, NthIsThere
  <2>2. UpTo(R, Nth(R, n)) = UpTo(S, Nth(R, n)) \ {m} BY DEF UpTo
  <2>3. m \in UpTo(S, Nth(R, n)) BY <2>1 DEF UpTo
  <2>4. IsFiniteSet(UpTo(S, Nth(R, n)))
    <3>1. UpTo(S, Nth(R, n)) \in SUBSET S BY DEF UpTo
    <3>2. QED BY <3>1, FS_Subset
  <2>5. Cardinality(UpTo(R, Nth(R, n))) = Cardinality(UpTo(S, Nth(R, n))) - 1
    <3> DEFINE U == UpTo(S, Nth(R, n))
    <3>1. m \in U /\ IsFiniteSet(U) BY <2>3, <2>4
    <3> HIDE DEF U
    <3>2. Cardinality(U \ {m}) = Cardinality(U) - 1 BY <3>1, FS_RemoveElement
    <3>3. QED BY <2>2, <3>2 DEF U
  <2>6. Cardinality(UpTo(S, Nth(R, n))) = n + 1
    <3>1. Cardinality(UpTo(S, Nth(R, n))) \in Nat BY <2>4, FS_CardinalityType
    <3>2. QED BY <1>5, <2>1, <2>5, <3>1
  <2>7. QED BY <2>1, <2>6, NthIsThere
<1>6. QED BY <1>1, <1>2, <1>3, <1>4, <1>5
-----------------------------------------------------------------------------
(* Chains.                                                                 *)

LEMMA PushFacts ==
  ASSUME NEW c \in Seq(Entry), NEW e \in Entry
  PROVE  /\ Push(c, e) \in Seq(Entry) /\ Len(Push(c, e)) = Len(c) + 1
         /\ Push(c, e)[1] = e /\ \A j \in 1..Len(c) : Push(c, e)[j + 1] = c[j]
<1>1. <<e>> \in Seq(Entry) /\ Len(<<e>>) = 1 /\ <<e>>[1] = e OBVIOUS
<1>2. <<e>> \o c \in Seq(Entry) /\ Len(<<e>> \o c) = 1 + Len(c) BY <1>1
<1>3. \A j \in 1..(1 + Len(c)) : (<<e>> \o c)[j] = IF j <= 1 THEN e ELSE c[j - 1] BY <1>1
<1>4. QED BY <1>2, <1>3 DEF Push

LEMMA UnlinkFacts ==
  ASSUME NEW c \in Seq(Entry), NEW i \in DOMAIN c
  PROVE  /\ Unlink(c, i) \in Seq(Entry) /\ Len(Unlink(c, i)) = Len(c) - 1
         /\ \A j \in 1..(i - 1) : Unlink(c, i)[j] = c[j]
         /\ \A j \in (i + 1)..Len(c) : Unlink(c, i)[j - 1] = c[j]
<1> DEFINE a == SubSeq(c, 1, i - 1)
           b == SubSeq(c, i + 1, Len(c))
<1>1. i \in 1..Len(c) /\ Len(c) \in Nat OBVIOUS
<1>2. /\ a \in Seq(Entry) /\ Len(a) = i - 1
      /\ \A j \in 1..(i - 1) : a[j] = c[j]
  BY <1>1, SubSeqProperties
<1>3. /\ b \in Seq(Entry) /\ Len(b) = Len(c) - i
      /\ \A j \in 1..(Len(c) - i) : b[j] = c[i + j]
  BY <1>1, SubSeqProperties
<1> HIDE DEF a, b
<1>4. /\ a \o b \in Seq(Entry) /\ Len(a \o b) = Len(c) - 1
      /\ \A j \in 1..(Len(c) - 1) : (a \o b)[j] = IF j <= i - 1 THEN a[j] ELSE b[j - (i - 1)]
  <2>1. (i - 1) + (Len(c) - i) = Len(c) - 1 BY <1>1
  <2>2. a \o b \in Seq(Entry) BY <1>2, <1>3, ConcatProperties
  <2>3. Len(a \o b) = Len(c) - 1 BY <1>2, <1>3, <2>1, ConcatProperties
  <2>4. \A j \in 1..(Len(a) + Len(b)) : (a \o b)[j] = IF j <= Len(a) THEN a[j] ELSE b[j - Len(a)]
    BY <1>2, <1>3, ConcatProperties
  <2>5. QED BY <1>2, <1>3, <2>1, <2>2, <2>3, <2>4
<1>5. Unlink(c, i) = a \o b BY DEF Unlink, a, b
<1>6. ASSUME NEW j \in (i + 1)..Len(c) PROVE (a \o b)[j - 1] = c[j]
  <2>1. j - 1 \in 1..(Len(c) - 1) /\ ~(j - 1 <= i - 1) /\ j - 1 - (i - 1) = j - i
        /\ j - i \in 1..(Len(c) - i) /\ i + (j - i) = j
    BY <1>1, <1>6
  <2>2. QED BY <1>3, <1>4, <2>1
<1>7. \A j \in 1..(i - 1) : (a \o b)[j] = c[j] BY <1>1, <1>2, <1>4
<1>8. QED BY <1>4, <1>5, <1>6, <1>7

-----------------------------------------------------------------------------
(* The values a key has in a chain.                                        *)

HitsIn(c, k) == {i \in DOMAIN c : Same(c[i].key, k)}
Values(c, k) == [n \in 1..Cardinality(HitsIn(c, k)) |-> c[Nth(HitsIn(c, k), n)].value]

LEMMA HitsType ==
  ASSUME NEW c \in Seq(Entry), NEW k
  PROVE  /\ HitsIn(c, k) \in SUBSET Nat /\ HitsIn(c, k) \in SUBSET DOMAIN c
         /\ IsFiniteSet(HitsIn(c, k))
         /\ Cardinality(HitsIn(c, k)) \in Nat
<1>1. HitsIn(c, k) \in SUBSET (1..Len(c)) BY DEF HitsIn
<1>2. Len(c) \in Nat OBVIOUS
<1>3. IsFiniteSet(1..Len(c)) BY <1>2, FS_Interval
<1>4. IsFiniteSet(HitsIn(c, k)) BY <1>1, <1>3, FS_Subset
<1>5. QED BY <1>1, <1>4, FS_CardinalityType

LEMMA ValuesType ==
  ASSUME NEW c \in Seq(Entry), NEW k
  PROVE  /\ Values(c, k) \in Seq(Value \cup {NULL})
         /\ Len(Values(c, k)) = Cardinality(HitsIn(c, k))
         /\ Values(c, k) = <<>> <=> HitsIn(c, k) = {}
<1> DEFINE S == HitsIn(c, k)
<1>1. /\ S \in SUBSET Nat /\ S \in SUBSET DOMAIN c
      /\ IsFiniteSet(S) /\ Cardinality(S) \in Nat
  BY HitsType
<1>2. ASSUME NEW n \in 1..Cardinality(S) PROVE c[Nth(S, n)].value \in Value \cup {NULL}
  <2> HIDE DEF S
  <2>1. Nth(S, n) \in DOMAIN c BY <1>1, <1>2, NthIsThere
  <2>2. c[Nth(S, n)] \in Entry BY <2>1
  <2>3. QED BY <2>2 DEF Entry
<1>3. Values(c, k) = [n \in 1..Cardinality(S) |-> c[Nth(S, n)].value] BY DEF Values
<1>4. Cardinality(S) = 0 <=> S = {}
  <2> HIDE DEF S
  <2> QED BY <1>1, FS_EmptySet
<1> HIDE DEF S
<1>5. Values(c, k) \in Seq(Value \cup {NULL}) /\ Len(Values(c, k)) = Cardinality(S)
  BY <1>1, <1>2, <1>3
<1>6. Values(c, k) = <<>> <=> S = {} BY <1>1, <1>4, <1>5
<1>7. QED BY <1>5, <1>6 DEF S

\* f leads from the places S of the chain c to the places T of d, in their order.
Moves(c, d, S, T, f) ==
  /\ S \in SUBSET DOMAIN c /\ T \in SUBSET DOMAIN d
  /\ f \in [S -> T] /\ \A t \in T : \E i \in S : f[i] = t
  /\ \A i, j \in S : i <= j <=> f[i] <= f[j]
  /\ \A i \in S : d[f[i]].value = c[i].value

LEMMA ValuesFollow ==
  ASSUME NEW c \in Seq(Entry), NEW d \in Seq(Entry), NEW S, NEW T, NEW f, Moves(c, d, S, T, f)
  PROVE  /\ Cardinality(T) = Cardinality(S)
         /\ \A n \in 1..Cardinality(S) : d[Nth(T, n)].value = c[Nth(S, n)].value
<1> USE DEF Moves
<1>1. S \in SUBSET (1..Len(c)) /\ S \in SUBSET Nat /\ T \in SUBSET Nat /\ Len(c) \in Nat OBVIOUS
<1>2. IsFiniteSet(S) BY <1>1, FS_Interval, FS_Subset
<1>3. /\ Cardinality(T) = Cardinality(S)
      /\ \A n \in 1..Cardinality(S) : Nth(T, n) = f[Nth(S, n)]
  BY <1>1, <1>2, OrderKept
<1>4. \A n \in 1..Cardinality(S) : Nth(S, n) \in S BY <1>1, <1>2, NthIsThere
<1>5. QED BY <1>3, <1>4

\* A new entry shadows the others of its key, ...
LEMMA PushSame ==
  ASSUME NEW c \in Seq(Entry), NEW e \in Entry, NEW k, Same(e.key, k)
  PROVE  Values(Push(c, e), k) = <<e.value>> \o Values(c, k)
<1> DEFINE d == Push(c, e)
           S == HitsIn(c, k)
           T == HitsIn(d, k)
           R == T \ {1}
           f == [i \in S |-> i + 1]
<1>1. /\ d \in Seq(Entry) /\ Len(d) = Len(c) + 1 /\ Len(c) \in Nat
      /\ d[1] = e /\ \A j \in 1..Len(c) : d[j + 1] = c[j]
  <2>1. Len(c) \in Nat OBVIOUS
  <2>2. QED BY <2>1, PushFacts
<1>2. S \in SUBSET DOMAIN c /\ S \in SUBSET Nat /\ IsFiniteSet(S) /\ Cardinality(S) \in Nat BY HitsType
<1> HIDE DEF d
<1>3. /\ T \in SUBSET DOMAIN d /\ T \in SUBSET Nat /\ IsFiniteSet(T) /\ Cardinality(T) \in Nat
  BY <1>1, HitsType
<1>4. 1 \in T /\ \A i \in T : 1 <= i BY <1>1 DEF HitsIn
<1>5. \A i \in S : i + 1 \in R /\ d[i + 1].value = c[i].value
  BY <1>1 DEF HitsIn
<1>6. ASSUME NEW t \in R PROVE \E i \in S : i + 1 = t
  <2>1. t \in 2..(Len(c) + 1) /\ Same(d[t].key, k) BY <1>1 DEF HitsIn
  <2>2. t - 1 \in 1..Len(c) /\ (t - 1) + 1 = t BY <1>1, <2>1
  <2>3. d[t] = c[t - 1] BY <1>1, <2>2
  <2>4. t - 1 \in S BY <2>1, <2>2, <2>3 DEF HitsIn
  <2>5. QED BY <2>2, <2>4
<1>7. Values(d, k) = [n \in 1..Cardinality(T) |-> d[Nth(T, n)].value]
      /\ Values(c, k) = [n \in 1..Cardinality(S) |-> c[Nth(S, n)].value]
  BY DEF Values
<1> HIDE DEF S, T
<1>8. f \in [S -> R] /\ \A t \in R : \E i \in S : f[i] = t BY <1>5, <1>6
<1>9. \A i, j \in S : i <= j <=> f[i] <= f[j] BY <1>2
<1>10. \A i \in S : d[f[i]].value = c[i].value BY <1>5
<1>11. R \in SUBSET DOMAIN d BY <1>3
<1>12. /\ Cardinality(R) = Cardinality(S)
       /\ \A n \in 1..Cardinality(S) : d[Nth(R, n)].value = c[Nth(S, n)].value
  <2> HIDE DEF f, R
  <2>1. d \in Seq(Entry) /\ Moves(c, d, S, R, f) BY <1>1, <1>2, <1>8, <1>9, <1>10, <1>11 DEF Moves
  <2>2. QED BY <2>1, ValuesFollow
<1>13. /\ Cardinality(R) = Cardinality(T) - 1 /\ Nth(T, 1) = 1
       /\ \A n \in 1..(Cardinality(T) - 1) : Nth(T, n + 1) = Nth(R, n)
  BY <1>3, <1>4, FirstIsLeast
<1> HIDE DEF f, R
<1>14. Cardinality(T) = Cardinality(S) + 1 BY <1>2, <1>3, <1>12, <1>13
<1>15. /\ \A n \in 1..Cardinality(S) : d[Nth(T, n + 1)].value = c[Nth(S, n)].value
       /\ d[Nth(T, 1)].value = e.value
  BY <1>1, <1>2, <1>12, <1>13, <1>14
<1>16. e.value \in Value \cup {NULL} BY DEF Entry
<1>17. Values(c, k) \in Seq(Value \cup {NULL}) /\ Len(Values(c, k)) = Cardinality(S) BY ValuesType DEF S
<1>18. Values(d, k) \in Seq(Value \cup {NULL}) /\ Len(Values(d, k)) = Cardinality(S) + 1
  BY <1>1, <1>14, ValuesType DEF T
<1>19. /\ <<e.value>> \o Values(c, k) \in Seq(Value \cup {NULL})
       /\ Len(<<e.value>> \o Values(c, k)) = Cardinality(S) + 1
       /\ (<<e.value>> \o Values(c, k))[1] = e.value
       /\ \A n \in 1..Cardinality(S) : (<<e.value>> \o Values(c, k))[n + 1] = Values(c, k)[n]
  BY <1>2, <1>16, <1>17
<1>20. ASSUME NEW m \in 1..(Cardinality(S) + 1)
       PROVE  Values(d, k)[m] = (<<e.value>> \o Values(c, k))[m]
  <2>1. CASE m = 1 BY <1>2, <1>7, <1>14, <1>15, <1>19, <2>1
  <2>2. CASE m # 1
    <3>1. m - 1 \in 1..Cardinality(S) /\ (m - 1) + 1 = m BY <1>2, <1>20, <2>2
    <3>2. Values(c, k)[m - 1] = c[Nth(S, m - 1)].value BY <1>7, <3>1
    <3>3. Values(d, k)[m] = d[Nth(T, m)].value BY <1>7, <1>14
    <3>4. d[Nth(T, m)].value = c[Nth(S, m - 1)].value BY <1>15, <3>1
    <3>5. (<<e.value>> \o Values(c, k))[m] = Values(c, k)[m - 1] BY <1>19, <3>1
    <3>6. QED BY <3>2, <3>3, <3>4, <3>5
  <2>3. QED BY <2>1, <2>2
<1>21. Values(d, k) = <<e.value>> \o Values(c, k) BY <1>18, <1>19, <1>20
<1>22. QED BY <1>21 DEF d

LEMMA Followed ==
  ASSUME NEW c \in Seq(Entry), NEW d \in Seq(Entry), NEW k, NEW f,
         Moves(c, d, HitsIn(c, k), HitsIn(d, k), f)
  PROVE  Values(d, k) = Values(c, k)
<1> DEFINE S == HitsIn(c, k)
           T == HitsIn(d, k)
<1>1. /\ Values(d, k) = [n \in 1..Cardinality(T) |-> d[Nth(T, n)].value]
      /\ Values(c, k) = [n \in 1..Cardinality(S) |-> c[Nth(S, n)].value]
  BY DEF Values
<1> HIDE DEF S, T
<1>2. /\ Cardinality(T) = Cardinality(S)
      /\ \A n \in 1..Cardinality(S) : d[Nth(T, n)].value = c[Nth(S, n)].value
  <2>1. Moves(c, d, S, T, f) BY DEF S, T
  <2>2. QED BY <2>1, ValuesFollow
<1>3. QED BY <1>1, <1>2

\* ... and leaves those of other keys.
LEMMA PushOther ==
  ASSUME NEW c \in Seq(Entry), NEW e \in Entry, NEW k, ~Same(e.key, k)
  PROVE  Values(Push(c, e), k) = Values(c, k)
<1> DEFINE d == Push(c, e)
           f == [i \in HitsIn(c, k) |-> i + 1]
<1>1. /\ d \in Seq(Entry) /\ Len(d) = Len(c) + 1 /\ Len(c) \in Nat
      /\ d[1] = e /\ \A j \in 1..Len(c) : d[j + 1] = c[j]
  <2>1. Len(c) \in Nat OBVIOUS
  <2>2. QED BY <2>1, PushFacts
<1> HIDE DEF d
<1>2. \A i \in HitsIn(c, k) : i + 1 \in HitsIn(d, k) /\ d[i + 1].value = c[i].value
  BY <1>1 DEF HitsIn
<1>3. ASSUME NEW t \in HitsIn(d, k) PROVE \E i \in HitsIn(c, k) : i + 1 = t
  <2>1. t \in 2..(Len(c) + 1) /\ Same(d[t].key, k) BY <1>1 DEF HitsIn
  <2>2. t - 1 \in 1..Len(c) /\ (t - 1) + 1 = t BY <1>1, <2>1
  <2>3. d[t] = c[t - 1] BY <1>1, <2>2
  <2>4. t - 1 \in HitsIn(c, k) BY <2>1, <2>2, <2>3 DEF HitsIn
  <2>5. QED BY <2>2, <2>4
<1>4. f \in [HitsIn(c, k) -> HitsIn(d, k)] /\ \A t \in HitsIn(d, k) : \E i \in HitsIn(c, k) : f[i] = t
  BY <1>2, <1>3
<1>5. \A i, j \in HitsIn(c, k) : i <= j <=> f[i] <= f[j]
  <2>1. HitsIn(c, k) \in SUBSET Nat BY HitsType
  <2>2. QED BY <2>1
<1>6. \A i \in HitsIn(c, k) : d[f[i]].value = c[i].value BY <1>2
<1>7. HitsIn(c, k) \in SUBSET DOMAIN c /\ HitsIn(d, k) \in SUBSET DOMAIN d BY DEF HitsIn
<1> HIDE DEF f
<1>8. Moves(c, d, HitsIn(c, k), HitsIn(d, k), f) BY <1>4, <1>5, <1>6, <1>7 DEF Moves
<1>9. Values(d, k) = Values(c, k) BY <1>1, <1>8, Followed
<1>10. QED BY <1>9 DEF d

\* Where the entry for the place j is when the one at p is gone.
Closed(p, j) == IF j < p THEN j ELSE j - 1

LEMMA ClosedOrder ==
  ASSUME NEW p \in Nat, NEW i \in Nat, NEW j \in Nat, i # p, j # p
  PROVE  i <= j <=> Closed(p, i) <= Closed(p, j)
BY DEF Closed

\* What is left, other than the entry taken out, keeps its order.
LEMMA UnlinkMoves ==
  ASSUME NEW c \in Seq(Entry), NEW k, NEW p \in DOMAIN c
  PROVE  Moves(c, Unlink(c, p), HitsIn(c, k) \ {p}, HitsIn(Unlink(c, p), k),
               [j \in HitsIn(c, k) \ {p} |-> Closed(p, j)])
<1> DEFINE d == Unlink(c, p)
           S == HitsIn(c, k) \ {p}
           T == HitsIn(d, k)
           f == [j \in S |-> Closed(p, j)]
<1>1. p \in 1..Len(c) /\ Len(c) \in Nat OBVIOUS
<1>2. /\ d \in Seq(Entry) /\ Len(d) = Len(c) - 1
      /\ \A j \in 1..(p - 1) : d[j] = c[j]
      /\ \A j \in (p + 1)..Len(c) : d[j - 1] = c[j]
  BY UnlinkFacts
<1> HIDE DEF d
<1>3. ASSUME NEW j \in 1..Len(c), j # p
      PROVE  Closed(p, j) \in 1..Len(d) /\ d[Closed(p, j)] = c[j]
  <2>1. CASE j < p BY <1>1, <1>2, <1>3, <2>1 DEF Closed
  <2>2. CASE j > p
    <3>1. Closed(p, j) = j - 1 /\ j \in (p + 1)..Len(c) /\ j - 1 \in 1..(Len(c) - 1)
      BY <1>1, <1>3, <2>2 DEF Closed
    <3>2. QED BY <1>2, <3>1
  <2>3. QED BY <1>1, <1>3, <2>1, <2>2
<1>4. ASSUME NEW t \in 1..Len(d) PROVE \E j \in 1..Len(c) : j # p /\ Closed(p, j) = t
  <2>1. t \in 1..(Len(c) - 1) BY <1>2
  <2>2. CASE t < p
    <3>1. t \in 1..Len(c) /\ t # p /\ Closed(p, t) = t BY <1>1, <2>1, <2>2 DEF Closed
    <3>2. QED BY <3>1
  <2>3. CASE ~(t < p)
    <3>1. t + 1 \in 1..Len(c) /\ t + 1 # p /\ Closed(p, t + 1) = t
      BY <1>1, <2>1, <2>3 DEF Closed
    <3>2. QED BY <3>1
  <2>4. QED BY <2>2, <2>3
<1>5. \A j \in S : j \in 1..Len(c) /\ j # p /\ Same(c[j].key, k) BY DEF HitsIn
<1>6. \A j \in S : Closed(p, j) \in T BY <1>2, <1>3, <1>5 DEF HitsIn
<1>7. ASSUME NEW t \in T PROVE \E j \in S : Closed(p, j) = t
  <2>1. t \in 1..Len(d) /\ Same(d[t].key, k) BY <1>2 DEF HitsIn
  <2>2. PICK j \in 1..Len(c) : j # p /\ Closed(p, j) = t BY <1>4, <2>1
  <2>3. d[t] = c[j] BY <1>3, <2>2
  <2>4. j \in S BY <2>1, <2>2, <2>3 DEF HitsIn
  <2>5. QED BY <2>2, <2>4
<1>8. S \in SUBSET DOMAIN c /\ T \in SUBSET DOMAIN d BY DEF HitsIn
<1> HIDE DEF S, T
<1>9. f \in [S -> T] /\ \A t \in T : \E j \in S : f[j] = t BY <1>6, <1>7
<1>10. \A i, j \in S : i <= j <=> f[i] <= f[j]
  <2>1. \A j \in S : j \in Nat /\ j # p /\ f[j] = Closed(p, j) BY <1>5
  <2>2. p \in Nat BY <1>1
  <2>3. QED BY <2>1, <2>2, ClosedOrder
<1>11. \A j \in S : d[f[j]].value = c[j].value BY <1>3, <1>5
<1> HIDE DEF f
<1>12. Moves(c, d, S, T, f) BY <1>8, <1>9, <1>10, <1>11 DEF Moves
<1>13. QED BY <1>12 DEF f, S, T, d

\* Taking out the first entry of a key uncovers the one it shadowed, ...
LEMMA UnlinkSame ==
  ASSUME NEW c \in Seq(Entry), NEW k, NEW p \in HitsIn(c, k), \A i \in HitsIn(c, k) : p <= i
  PROVE  Values(c, k) # <<>> /\ Values(Unlink(c, p), k) = Tail(Values(c, k))
<1> DEFINE d == Unlink(c, p)
           S == HitsIn(c, k)
           R == S \ {p}
           T == HitsIn(d, k)
           f == [j \in R |-> Closed(p, j)]
<1>1. S \in SUBSET DOMAIN c /\ S \in SUBSET Nat /\ IsFiniteSet(S) /\ Cardinality(S) \in Nat BY HitsType
<1>2. p \in DOMAIN c BY <1>1
<1>3. d \in Seq(Entry) /\ Moves(c, d, R, T, f) BY <1>2, UnlinkFacts, UnlinkMoves
<1>4. /\ Values(d, k) = [n \in 1..Cardinality(T) |-> d[Nth(T, n)].value]
      /\ Values(c, k) = [n \in 1..Cardinality(S) |-> c[Nth(S, n)].value]
  BY DEF Values
<1>5. /\ Values(c, k) \in Seq(Value \cup {NULL}) /\ Len(Values(c, k)) = Cardinality(S)
      /\ Values(c, k) # <<>>
  BY ValuesType
<1>6. p \in S /\ \A i \in S : p <= i OBVIOUS
<1> HIDE DEF d, f, S, T
<1>7. Values(d, k) \in Seq(Value \cup {NULL}) /\ Len(Values(d, k)) = Cardinality(T)
  BY <1>3, ValuesType DEF T
<1>8. /\ Cardinality(R) = Cardinality(S) - 1 /\ Cardinality(S) \in Nat \ {0}
      /\ \A n \in 1..(Cardinality(S) - 1) : Nth(S, n + 1) = Nth(R, n)
  BY <1>1, <1>6, FirstIsLeast
<1> HIDE DEF R
<1>9. /\ Cardinality(T) = Cardinality(R)
      /\ \A n \in 1..Cardinality(R) : d[Nth(T, n)].value = c[Nth(R, n)].value
  BY <1>3, ValuesFollow
<1>10. /\ Tail(Values(c, k)) \in Seq(Value \cup {NULL})
       /\ Len(Tail(Values(c, k))) = Cardinality(S) - 1
       /\ \A n \in 1..(Cardinality(S) - 1) : Tail(Values(c, k))[n] = Values(c, k)[n + 1]
  BY <1>5, <1>8
<1>11. ASSUME NEW n \in 1..(Cardinality(S) - 1) PROVE Values(d, k)[n] = Tail(Values(c, k))[n]
  <2>1. Values(d, k)[n] = c[Nth(R, n)].value BY <1>4, <1>8, <1>9
  <2>2. n + 1 \in 1..Cardinality(S) BY <1>8
  <2>3. Values(c, k)[n + 1] = c[Nth(S, n + 1)].value BY <1>4, <2>2
  <2>4. QED BY <1>8, <1>10, <2>1, <2>3
<1>12. Values(d, k) = Tail(Values(c, k)) BY <1>7, <1>8, <1>9, <1>10, <1>11
<1>13. QED BY <1>5, <1>12 DEF d

\* ... and leaves other keys alone.
LEMMA UnlinkOther ==
  ASSUME NEW c \in Seq(Entry), NEW k, NEW p \in DOMAIN c, p \notin HitsIn(c, k)
  PROVE  Values(Unlink(c, p), k) = Values(c, k)
<1>1. HitsIn(c, k) \ {p} = HitsIn(c, k) OBVIOUS
<1>2. Moves(c, Unlink(c, p), HitsIn(c, k), HitsIn(Unlink(c, p), k),
            [j \in HitsIn(c, k) |-> Closed(p, j)])
  BY <1>1, UnlinkMoves
<1>3. Unlink(c, p) \in Seq(Entry) BY UnlinkFacts
<1>4. QED BY <1>2, <1>3, Followed

-----------------------------------------------------------------------------
(* Where the entries are.                                                  *)

Places(a) == UNION {{i} \X DOMAIN a[i] : i \in Slot}

LEMMA PlacesAre ==
  ASSUME NEW a \in [Slot -> Seq(Entry)]
  PROVE  /\ \A q \in Places(a) : q = <<q[1], q[2]>> /\ q[1] \in Slot /\ q[2] \in 1..Len(a[q[1]])
         /\ \A i \in Slot : \A n \in 1..Len(a[i]) : <<i, n>> \in Places(a)
BY DEF Places

\* A chain that grows or shrinks by one entry at its end takes or frees one place.
LEMMA PlacesGrow ==
  ASSUME NEW a \in [Slot -> Seq(Entry)], NEW i \in Slot, NEW c \in Seq(Entry),
         Len(c) = Len(a[i]) + 1
  PROVE  /\ Places([a EXCEPT ![i] = c]) = Places(a) \cup {<<i, Len(c)>>}
         /\ <<i, Len(c)>> \notin Places(a)
<1> DEFINE b == [a EXCEPT ![i] = c]
<1>1. b \in [Slot -> Seq(Entry)] /\ b[i] = c /\ \A j \in Slot \ {i} : b[j] = a[j] OBVIOUS
<1>2. Len(c) \in Nat /\ \A j \in Slot : Len(a[j]) \in Nat OBVIOUS
<1> HIDE DEF b
<1>3. Places(b) \subseteq Places(a) \cup {<<i, Len(c)>>}
  <2>1. ASSUME NEW q \in Places(b) PROVE q \in Places(a) \/ q = <<i, Len(c)>>
    <3>1. q = <<q[1], q[2]>> /\ q[1] \in Slot /\ q[2] \in 1..Len(b[q[1]]) BY <1>1, <2>1, PlacesAre
    <3>2. q[2] \in 1..Len(a[q[1]]) \/ (q[1] = i /\ q[2] = Len(c)) BY <1>1, <1>2, <3>1
    <3>3. CASE q[2] \in 1..Len(a[q[1]])
      <4>1. <<q[1], q[2]>> \in Places(a) BY <3>1, <3>3, PlacesAre
      <4>2. QED BY <3>1, <4>1
    <3>4. CASE q[1] = i /\ q[2] = Len(c) BY <3>1, <3>4
    <3>5. QED BY <3>2, <3>3, <3>4
  <2>2. QED BY <2>1
<1>4. Places(a) \cup {<<i, Len(c)>>} \subseteq Places(b)
  <2>1. <<i, Len(c)>> \in Places(b)
    <3>1. Len(c) \in 1..Len(b[i]) BY <1>1, <1>2
    <3>2. QED BY <1>1, <3>1, PlacesAre
  <2>2. ASSUME NEW q \in Places(a) PROVE q \in Places(b)
    <3>1. q = <<q[1], q[2]>> /\ q[1] \in Slot /\ q[2] \in 1..Len(a[q[1]]) BY <2>2, PlacesAre
    <3>2. q[2] \in 1..Len(b[q[1]])
      <4>1. CASE q[1] = i
        <5>1. q[2] \in 1..Len(a[i]) /\ b[q[1]] = c BY <1>1, <3>1, <4>1
        <5>2. QED BY <1>2, <5>1
      <4>2. CASE q[1] # i BY <1>1, <3>1, <4>2
      <4>3. QED BY <4>1, <4>2
    <3>3. <<q[1], q[2]>> \in Places(b) BY <1>1, <3>1, <3>2, PlacesAre
    <3>4. QED BY <3>1, <3>3
  <2>3. QED BY <2>1, <2>2
<1>5. <<i, Len(c)>> \notin Places(a)
  <2>1. ASSUME <<i, Len(c)>> \in Places(a) PROVE FALSE
    <3>1. Len(c) \in 1..Len(a[i]) BY <2>1, PlacesAre
    <3>2. QED BY <1>2, <3>1
  <2>2. QED BY <2>1
<1>6. QED BY <1>3, <1>4, <1>5 DEF b

LEMMA PlacesShrink ==
  ASSUME NEW a \in [Slot -> Seq(Entry)], NEW i \in Slot, NEW c \in Seq(Entry),
         Len(c) = Len(a[i]) - 1
  PROVE  /\ Places([a EXCEPT ![i] = c]) = Places(a) \ {<<i, Len(a[i])>>}
         /\ <<i, Len(a[i])>> \in Places(a)
<1> DEFINE b == [a EXCEPT ![i] = c]
<1>1. b \in [Slot -> Seq(Entry)] /\ b[i] = c /\ a[i] \in Seq(Entry) /\ [b EXCEPT ![i] = a[i]] = a OBVIOUS
<1>2. Len(a[i]) = Len(b[i]) + 1
  <2>1. Len(c) \in Nat /\ Len(a[i]) \in Nat BY <1>1
  <2>2. QED BY <1>1, <2>1
<1> HIDE DEF b
<1>3. /\ Places(a) = Places(b) \cup {<<i, Len(a[i])>>}
      /\ <<i, Len(a[i])>> \notin Places(b)
  <2> DEFINE g == a[i]
  <2>1. g \in Seq(Entry) /\ Len(g) = Len(b[i]) + 1 /\ [b EXCEPT ![i] = g] = a BY <1>1, <1>2
  <2> HIDE DEF g
  <2>2. /\ Places([b EXCEPT ![i] = g]) = Places(b) \cup {<<i, Len(g)>>}
        /\ <<i, Len(g)>> \notin Places(b)
    BY <1>1, <2>1, PlacesGrow
  <2>3. QED BY <2>1, <2>2 DEF g
<1>4. QED BY <1>3 DEF b

-----------------------------------------------------------------------------
(* The inductive invariant.                                                *)

\* The table counts its places, of which there are finitely many.
IInv == TypeOK /\ IsFiniteSet(Occupied) /\ CountsEntries

LEMMA KeyFacts ==
  ASSUME TypeOK, NEW k \in Key
  PROVE  Canon(k) \in Key /\ strhash(k) \in Slot /\ Chain(k) \in Seq(Entry)
<1>1. Canon(k) \in Key BY HashAssumption DEF TypeOK, Canon
<1>2. Sum[Canon(k)] \in Nat /\ size - 1 \in Nat \ {0} /\ size \in Nat BY <1>1, HashAssumption
<1>3. \A x \in Nat, y \in Nat \ {0} : x % y \in 0..(y - 1) OBVIOUS
<1> DEFINE x == Sum[Canon(k)]
           y == size - 1
<1>4. x % y \in 0..(y - 1)
  <2>1. x \in Nat /\ y \in Nat \ {0} BY <1>2
  <2> HIDE DEF x, y
  <2>2. QED BY <1>3, <2>1
<1>5. strhash(k) \in Slot
  <2>1. strhash(k) = x % y BY DEF strhash
  <2>2. strhash(k) \in 0..(y - 1) BY <1>4, <2>1
  <2>3. QED BY <1>2, <2>2 DEF Slot
<1>6. QED BY <1>1, <1>5 DEF Chain, TypeOK

\* hash_find leads to the first of the entries for the key.
LEMMA FindFacts ==
  ASSUME TypeOK, NEW k \in Key
  PROVE  /\ Hits(k) = HitsIn(Chain(k), k)
         /\ hash_find(k) # 0 <=> Hits(k) # {}
         /\ Hits(k) # {} => /\ hash_find(k) \in Hits(k)
                            /\ \A i \in Hits(k) : hash_find(k) <= i
<1>1. Hits(k) = HitsIn(Chain(k), k) BY DEF Hits, HitsIn
<1>2. Hits(k) \in SUBSET (Nat \ {0})
  <2>1. DOMAIN Chain(k) \in SUBSET (Nat \ {0}) BY KeyFacts
  <2>2. QED BY <2>1 DEF Hits
<1>3. Hits(k) # {} => Min(Hits(k)) \in Hits(k) /\ \A i \in Hits(k) : Min(Hits(k)) <= i
  <2>1. Hits(k) \in SUBSET Nat BY <1>2
  <2>2. QED BY <2>1, LeastOf
<1>4. QED BY <1>1, <1>2, <1>3 DEF hash_find

LEMMA OccupiedIs == Occupied = Places(array) /\ Occupied' = Places(array')
BY DEF Occupied, Places, Slot

LEMMA InitIInv == Init => IInv
<1> SUFFICES ASSUME Init PROVE IInv OBVIOUS
<1>1. TypeOK BY DEF Init, TypeOK
<1>2. Occupied = {} BY DEF Init, Occupied
<1>3. QED BY <1>1, <1>2, FS_EmptySet DEF IInv, CountsEntries, Entries, Init

LEMMA InsertIInv ==
  ASSUME IInv, NEW k \in Key, NEW v \in Value \cup {NULL}, hash_insert(k, v)
  PROVE  IInv'
<1> DEFINE h == strhash(k)
           e == [key |-> k, value |-> v]
           c == Push(Chain(k), e)
<1>1. TypeOK /\ IsFiniteSet(Occupied) /\ count = Cardinality(Occupied) BY DEF IInv, CountsEntries, Entries
<1>2. h \in Slot /\ Chain(k) \in Seq(Entry) /\ e \in Entry BY <1>1, KeyFacts DEF Entry
<1>3. array \in [Slot -> Seq(Entry)] /\ Chain(k) = array[h] BY <1>1 DEF TypeOK, Chain
<1>4. array' = [array EXCEPT ![h] = c] BY <1>3 DEF hash_insert
<1>5. c \in Seq(Entry) /\ Len(c) = Len(array[h]) + 1
  <2> HIDE DEF e, h
  <2>1. c \in Seq(Entry) /\ Len(c) = Len(Chain(k)) + 1 BY <1>2, PushFacts
  <2>2. QED BY <1>3, <2>1
<1> HIDE DEF h, c, e
<1>6. array' \in [Slot -> Seq(Entry)] BY <1>2, <1>3, <1>4, <1>5
<1>7. Occupied' = Occupied \cup {<<h, Len(c)>>} /\ <<h, Len(c)>> \notin Occupied
  BY <1>2, <1>3, <1>4, <1>5, PlacesGrow, OccupiedIs
<1>8. IsFiniteSet(Occupied') /\ Cardinality(Occupied') = Cardinality(Occupied) + 1
  BY <1>1, <1>7, FS_AddElement
<1>9. count' = Cardinality(Occupied') BY <1>1, <1>8 DEF hash_insert, Counted
<1>10. TypeOK'
  <2>1. count' \in Nat BY <1>8, <1>9, FS_CardinalityType
  <2>2. QED BY <1>1, <1>6, <2>1 DEF TypeOK, hash_insert
<1>11. QED BY <1>8, <1>9, <1>10 DEF IInv, CountsEntries, Entries

LEMMA RemoveIInv ==
  ASSUME IInv, NEW k \in Key, hash_remove(k)
  PROVE  IInv'
<1> DEFINE h == strhash(k)
           p == hash_find(k)
           c == Unlink(Chain(k), p)
           q == <<h, Len(array[h])>>
<1>1. TypeOK /\ IsFiniteSet(Occupied) /\ count = Cardinality(Occupied) BY DEF IInv, CountsEntries, Entries
<1>2. h \in Slot /\ Chain(k) \in Seq(Entry) BY <1>1, KeyFacts
<1>3. array \in [Slot -> Seq(Entry)] /\ Chain(k) = array[h] BY <1>1 DEF TypeOK, Chain
<1>4. array' = [array EXCEPT ![h] = c] BY <1>3 DEF hash_remove
<1>5. p \in DOMAIN Chain(k) BY <1>1, FindFacts DEF hash_remove, Hits
<1>6. c \in Seq(Entry) /\ Len(c) = Len(array[h]) - 1 BY <1>2, <1>3, <1>5, UnlinkFacts
<1> HIDE DEF h, c, p
<1>7. array' \in [Slot -> Seq(Entry)] BY <1>2, <1>3, <1>4, <1>6
<1>8. Occupied' = Occupied \ {q} /\ q \in Occupied
  BY <1>2, <1>3, <1>4, <1>6, PlacesShrink, OccupiedIs
<1> HIDE DEF q
<1>9. IsFiniteSet(Occupied') /\ Cardinality(Occupied') = Cardinality(Occupied) - 1
  BY <1>1, <1>8, FS_RemoveElement
<1>10. count' = Cardinality(Occupied') BY <1>1, <1>9 DEF hash_remove
<1>11. TypeOK'
  <2>1. count' \in Nat BY <1>9, <1>10, FS_CardinalityType
  <2>2. QED BY <1>1, <1>7, <2>1 DEF TypeOK, hash_remove
<1>12. QED BY <1>9, <1>10, <1>11 DEF IInv, CountsEntries, Entries

LEMMA ClearIInv == ASSUME IInv, hash_clear PROVE IInv'
<1>1. TypeOK /\ count = Cardinality(Occupied) /\ IsFiniteSet(Occupied) BY DEF IInv, CountsEntries, Entries
<1>2. Occupied' = {} BY DEF hash_clear, Occupied
<1>3. count' = 0
  <2>1. Cardinality(Occupied) \in Nat BY <1>1, FS_CardinalityType
  <2>2. QED BY <1>1, <2>1 DEF hash_clear, Entries
<1>4. TypeOK' BY <1>1, <1>3 DEF TypeOK, hash_clear
<1>5. QED BY <1>2, <1>3, <1>4, FS_EmptySet DEF IInv, CountsEntries, Entries

LEMMA StepIInv == IInv /\ [Next]_vars => IInv'
<1> SUFFICES ASSUME IInv, [Next]_vars PROVE IInv' OBVIOUS
<1>1. ASSUME NEW k \in Key, NEW v \in Value \cup {NULL}, hash_insert(k, v) PROVE IInv' BY <1>1, InsertIInv
<1>2. ASSUME NEW k \in Key, hash_remove(k) PROVE IInv' BY <1>2, RemoveIInv
<1>3. CASE hash_clear BY <1>3, ClearIInv
<1>4. CASE UseCleared \/ UNCHANGED vars
  <2>1. array' = array /\ count' = count /\ ignore_case' = ignore_case BY <1>4 DEF UseCleared, vars
  <2>2. TypeOK' BY <1>4, <2>1 DEF IInv, TypeOK, UseCleared, vars
  <2>3. Occupied' = Occupied BY <2>1 DEF Occupied
  <2>4. QED BY <2>1, <2>2, <2>3 DEF IInv, CountsEntries, Entries
<1>5. QED BY <1>1, <1>2, <1>3, <1>4 DEF Next

LEMMA InvariantHolds == Spec => []IInv
BY InitIInv, StepIInv, PTL DEF Spec

\* hash_init to hash_deinit: chains hold entries only, and the count of the
\* table never wraps below zero.
THEOREM HashTypeCorrect == Spec => []TypeOK
<1>1. IInv => TypeOK BY DEF IInv
<1>2. QED BY <1>1, InvariantHolds, PTL

\* hash_count: the count is the number of entries in all chains, shadowed ones
\* included, after every sequence of insertions, removals and clearing.
THEOREM EveryEntryCounted == Spec => []CountsEntries
<1>1. IInv => CountsEntries BY DEF IInv
<1>2. QED BY <1>1, InvariantHolds, PTL

-----------------------------------------------------------------------------
(* The table implements Bindings.                                          *)

LEMMA HeldIs == \A k \in Key : Held(k) = Values(array[strhash(k)], k)
BY DEF Held, Values, Hits, HitsIn, Chain

LEMMA HeldNext ==
  ASSUME UNCHANGED ignore_case
  PROVE  \A k \in Key : Held(k)' = Values(array'[strhash(k)], k)
<1>1. \A k \in Key : Canon(k)' = Canon(k) BY DEF Canon
<1>2. \A k \in Key : strhash(k)' = strhash(k) BY DEF strhash, Canon
<1>3. ASSUME NEW k \in Key PROVE Held(k)' = Values(array'[strhash(k)], k)
  BY DEF Held, Values, Hits, HitsIn, Chain, Same, Canon, strhash, Nth, UpTo
<1>4. QED BY <1>3

\* Keys of one class have one chain and one list of values.
LEMMA ClassShares ==
  ASSUME NEW j \in Key, NEW k \in Key, Canon(j) = Canon(k)
  PROVE  strhash(j) = strhash(k) /\ \A c : Values(c, j) = Values(c, k)
BY DEF strhash, Values, HitsIn, Same

LEMMA InsertStep ==
  ASSUME IInv, NEW k \in Key, NEW v \in Value \cup {NULL}, hash_insert(k, v)
  PROVE  B!Insert(k, v)
<1> DEFINE h == strhash(k)
           e == [key |-> k, value |-> v]
<1>1. TypeOK BY DEF IInv
<1>2. h \in Slot /\ array \in [Slot -> Seq(Entry)] /\ array[h] \in Seq(Entry) /\ e \in Entry
  BY <1>1, KeyFacts DEF Entry, TypeOK
<1>3. array' = [array EXCEPT ![h] = Push(array[h], e)] BY DEF hash_insert
<1>4. UNCHANGED <<ignore_case, state>> /\ state = "live" BY DEF hash_insert
<1>5. ASSUME NEW j \in Key
      PROVE  Held(j)' = IF Canon(j) = Canon(k) THEN <<v>> \o Held(k) ELSE Held(j)
  <2>1. Held(j)' = Values(array'[strhash(j)], j) BY <1>4, <1>5, HeldNext
  <2>2. Held(j) = Values(array[strhash(j)], j) /\ Held(k) = Values(array[h], k)
    BY <1>5, HeldIs
  <2>3. strhash(j) \in Slot BY <1>1, <1>5, KeyFacts
  <2>4. Same(e.key, j) <=> Canon(j) = Canon(k) BY DEF Same
  <2>5. e.value = v OBVIOUS
  <2> HIDE DEF e, h
  <2>6. CASE Canon(j) = Canon(k)
    <3>1. strhash(j) = h /\ Values(array[h], j) = Values(array[h], k)
      BY <1>5, <2>6, ClassShares DEF h
    <3>2. array'[h] = Push(array[h], e) BY <1>2, <1>3
    <3>3. Values(Push(array[h], e), j) = <<v>> \o Values(array[h], j)
      BY <1>2, <2>4, <2>5, <2>6, PushSame
    <3>4. QED BY <2>1, <2>2, <2>6, <3>1, <3>2, <3>3
  <2>7. CASE Canon(j) # Canon(k) /\ strhash(j) = h
    <3>1. array'[h] = Push(array[h], e) BY <1>2, <1>3
    <3>2. Values(Push(array[h], e), j) = Values(array[h], j) BY <1>2, <2>4, <2>7, PushOther
    <3>3. QED BY <2>1, <2>2, <2>7, <3>1, <3>2
  <2>8. CASE Canon(j) # Canon(k) /\ strhash(j) # h
    <3>1. array'[strhash(j)] = array[strhash(j)] BY <1>2, <1>3, <2>3, <2>8
    <3>2. QED BY <2>1, <2>2, <2>8, <3>1
  <2>9. QED BY <2>6, <2>7, <2>8
<1>6. \A j \in Key : Canon(j)' = Canon(j) BY <1>4 DEF Canon
<1> HIDE DEF h, e
<1>7. QED BY <1>4, <1>5, <1>6 DEF B!Insert, B!Assign

LEMMA RemoveStep ==
  ASSUME IInv, NEW k \in Key, hash_remove(k)
  PROVE  B!Remove(k)
<1> DEFINE h == strhash(k)
           p == hash_find(k)
<1>1. TypeOK BY DEF IInv
<1>2. h \in Slot /\ array \in [Slot -> Seq(Entry)] /\ array[h] \in Seq(Entry)
  BY <1>1, KeyFacts DEF TypeOK
<1>3. array' = [array EXCEPT ![h] = Unlink(array[h], p)] BY DEF hash_remove
<1>4. UNCHANGED <<ignore_case, state>> /\ state = "live" BY DEF hash_remove
<1>5. p \in HitsIn(array[h], k) /\ \A i \in HitsIn(array[h], k) : p <= i
  <2>1. hash_find(k) # 0 BY DEF hash_remove
  <2>2. QED BY <1>1, <2>1, FindFacts DEF Chain
<1>6. p \in DOMAIN array[h] /\ Same(array[h][p].key, k) BY <1>5 DEF HitsIn
<1>7. Held(k) = Values(array[h], k) BY HeldIs
<1>8. \A j \in Key : Canon(j) = Canon(k) => Same(array[h][p].key, j) BY <1>6 DEF Same
<1>9. \A j \in Key : Canon(j) # Canon(k) => ~Same(array[h][p].key, j) BY <1>6 DEF Same
<1> HIDE DEF h, p
<1>10. /\ Held(k) # <<>>
       /\ Values(Unlink(array[h], p), k) = Tail(Values(array[h], k))
  BY <1>2, <1>5, <1>7, UnlinkSame
<1>11. ASSUME NEW j \in Key
       PROVE  Held(j)' = IF Canon(j) = Canon(k) THEN Tail(Held(k)) ELSE Held(j)
  <2>1. Held(j)' = Values(array'[strhash(j)], j) BY <1>4, <1>11, HeldNext
  <2>2. Held(j) = Values(array[strhash(j)], j) BY <1>11, HeldIs
  <2>3. strhash(j) \in Slot BY <1>1, <1>11, KeyFacts
  <2>4. array'[h] = Unlink(array[h], p) BY <1>2, <1>3
  <2>5. CASE Canon(j) = Canon(k)
    <3>1. strhash(j) = h /\ Values(Unlink(array[h], p), j) = Values(Unlink(array[h], p), k)
      BY <1>11, <2>5, ClassShares DEF h
    <3>2. QED BY <1>7, <1>10, <2>1, <2>4, <2>5, <3>1
  <2>6. CASE Canon(j) # Canon(k) /\ strhash(j) = h
    <3>1. p \notin HitsIn(array[h], j) BY <1>9, <1>11, <2>6 DEF HitsIn
    <3>2. Values(Unlink(array[h], p), j) = Values(array[h], j) BY <1>2, <1>6, <3>1, UnlinkOther
    <3>3. QED BY <2>1, <2>2, <2>4, <2>6, <3>2
  <2>7. CASE Canon(j) # Canon(k) /\ strhash(j) # h
    <3>1. array'[strhash(j)] = array[strhash(j)] BY <1>2, <1>3, <2>3, <2>7
    <3>2. QED BY <2>1, <2>2, <2>7, <3>1
  <2>8. QED BY <2>5, <2>6, <2>7
<1>12. \A j \in Key : Canon(j)' = Canon(j) BY <1>4 DEF Canon
<1>13. QED BY <1>4, <1>10, <1>11, <1>12 DEF B!Remove, B!Assign

LEMMA EmptyChain == \A k : Values(<<>>, k) = <<>>
<1>1. \A k : HitsIn(<<>>, k) = {} BY DEF HitsIn
<1>2. QED BY <1>1, FS_EmptySet DEF Values

LEMMA ClearStep == ASSUME IInv, hash_clear PROVE B!Clear
<1>1. state = "live" /\ state' = "cleared" /\ UNCHANGED ignore_case /\ array' = [i \in Slot |-> <<>>]
  BY DEF hash_clear
<1>2. ASSUME NEW j \in Key PROVE Held(j)' = <<>>
  <2>1. strhash(j) \in Slot BY <1>2, KeyFacts DEF IInv
  <2>2. Held(j)' = Values(array'[strhash(j)], j) BY <1>1, <1>2, HeldNext
  <2>3. array'[strhash(j)] = <<>> BY <1>1, <2>1
  <2>4. QED BY <2>2, <2>3, EmptyChain
<1>3. \A j \in Key : Canon(j)' = Canon(j) BY <1>1 DEF Canon
<1>4. QED BY <1>1, <1>2, <1>3 DEF B!Clear

LEMMA IdleStep == ASSUME UseCleared \/ UNCHANGED vars PROVE UNCHANGED B!vars
<1>1. /\ array' = array /\ UNCHANGED ignore_case
      /\ (state = "live")' = (state = "live")
  BY DEF UseCleared, vars
<1>2. ASSUME NEW j \in Key PROVE Held(j)' = Held(j) BY <1>1, <1>2, HeldNext, HeldIs
<1>3. \A j \in Key : Canon(j)' = Canon(j) BY <1>1 DEF Canon
<1>4. QED BY <1>1, <1>2, <1>3 DEF B!vars

LEMMA InitMaps == Init => B!Init
<1> SUFFICES ASSUME Init PROVE B!Init OBVIOUS
<1>1. IInv BY InitIInv
<1>2. ASSUME NEW k \in Key PROVE Canon(k) \in Key /\ Held(k) = <<>>
  <2>1. Canon(k) \in Key /\ strhash(k) \in Slot BY <1>1, <1>2, KeyFacts DEF IInv
  <2>2. array[strhash(k)] = <<>> BY <2>1 DEF Init
  <2>3. QED BY <1>2, <2>1, <2>2, HeldIs, EmptyChain
<1>3. QED BY <1>2 DEF Init, B!Init

LEMMA StepMaps == IInv /\ [Next]_vars => [B!Next]_(B!vars)
<1> SUFFICES ASSUME IInv, [Next]_vars PROVE B!Next \/ UNCHANGED B!vars OBVIOUS
<1>1. ASSUME NEW k \in Key, NEW v \in Value \cup {NULL}, hash_insert(k, v) PROVE B!Next
  BY <1>1, InsertStep DEF B!Next
<1>2. ASSUME NEW k \in Key, hash_remove(k) PROVE B!Next BY <1>2, RemoveStep DEF B!Next
<1>3. CASE hash_clear BY <1>3, ClearStep DEF B!Next
<1>4. CASE UseCleared \/ UNCHANGED vars BY <1>4, IdleStep
<1>5. QED BY <1>1, <1>2, <1>3, <1>4 DEF Next

\* hash.c: the table is for its callers a stack of values for each class of keys;
\* keys that share a slot do not disturb each other, an insertion shadows, a
\* removal uncovers, and clearing is final.
THEOREM TableImplementsBindings == Spec => ImplementsBindings
BY InvariantHolds, InitMaps, StepMaps, PTL DEF Spec, ImplementsBindings, B!Spec

\* hash_value: looking a key up in a live table yields the newest value it has,
\* and NULL just when it has none or the newest was stored without a value.
LookupNewest ==
  state = "live" =>
    \A k \in Key : hash_value(k) = IF Held(k) = <<>> THEN NULL ELSE Head(Held(k))

THEOREM LookupIsNewest == Spec => []LookupNewest
<1> DEFINE P == \A k \in Key : hash_value(k) = IF Held(k) = <<>> THEN NULL ELSE Head(Held(k))
<1>1. IInv => P
  <2> SUFFICES ASSUME IInv, NEW k \in Key
               PROVE  hash_value(k) = IF Held(k) = <<>> THEN NULL ELSE Head(Held(k))
    OBVIOUS
  <2> DEFINE c == Chain(k)
             S == HitsIn(c, k)
             m == hash_find(k)
  <2>1. TypeOK BY DEF IInv
  <2>2. c \in Seq(Entry) BY <2>1, KeyFacts
  <2>3. Held(k) = Values(c, k) BY HeldIs DEF Chain
  <2>4. S \in SUBSET Nat /\ IsFiniteSet(S) /\ Cardinality(S) \in Nat BY <2>2, HitsType
  <2>5. /\ Values(c, k) \in Seq(Value \cup {NULL}) /\ Len(Values(c, k)) = Cardinality(S)
        /\ Values(c, k) = <<>> <=> S = {}
    BY <2>2, ValuesType
  <2>6. /\ m # 0 <=> S # {}
        /\ S # {} => m \in S /\ \A i \in S : m <= i
    BY <2>1, FindFacts
  <2>7. hash_value(k) = IF m = 0 THEN NULL ELSE c[m].value BY DEF hash_value
  <2>8. Values(c, k) = [n \in 1..Cardinality(S) |-> c[Nth(S, n)].value] BY DEF Values
  <2> HIDE DEF c, S, m
  <2>9. CASE S = {} BY <2>3, <2>5, <2>6, <2>7, <2>9
  <2>10. CASE S # {}
    <3>1. Nth(S, 1) = m /\ Cardinality(S) \in Nat \ {0} BY <2>4, <2>6, <2>10, FirstIsLeast
    <3>2. Values(c, k)[1] = c[m].value BY <2>8, <3>1
    <3>3. Head(Values(c, k)) = Values(c, k)[1] BY <2>5, <2>10
    <3>4. QED BY <2>3, <2>5, <2>6, <2>7, <2>10, <3>2, <3>3
  <2>11. QED BY <2>9, <2>10
<1>2. IInv => LookupNewest BY <1>1 DEF LookupNewest
<1>3. QED BY <1>2, InvariantHolds, PTL
=============================================================================
