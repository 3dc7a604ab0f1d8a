---------------------------- MODULE ConfigProofs ----------------------------
(***************************************************************************)
(* Proofs about Config for every set of names, values and comments and     *)
(* every first file: handles and files hold what they should, no two       *)
(* sections or keys of a handle have one name, and what is saved and loaded *)
(* again has the same settings, and the same lines but blank ones, of       *)
(* which there are no more from the second save on.                        *)
(***************************************************************************)
EXTENDS Config, FiniteSetTheorems, SequenceTheorems, WellFoundedInduction, TLAPS

-----------------------------------------------------------------------------
(* Folding a sequence.                                                     *)

LEMMA Single == ASSUME NEW X, NEW x \in X PROVE <<x>> \in Seq(X)
OBVIOUS

Join(a, b) == a \o b

LEMMA JoinAssociative ==
  \A X : \A a, b, c \in Seq(X) : Join(Join(a, b), c) = Join(a, Join(b, c))
<1> SUFFICES ASSUME NEW X, NEW a \in Seq(X), NEW b \in Seq(X), NEW c \in Seq(X)
             PROVE  Join(Join(a, b), c) = Join(a, Join(b, c))
  OBVIOUS
<1> QED BY ConcatAssociative DEF Join

LEMMA JoinFacts ==
  \A X : \A a, b \in Seq(X) : /\ Join(a, b) \in Seq(X) /\ Len(Join(a, b)) = Len(a) + Len(b)
                              /\ Join(a, <<>>) = a /\ Join(<<>>, a) = a
<1> SUFFICES ASSUME NEW X, NEW a \in Seq(X), NEW b \in Seq(X)
             PROVE  /\ Join(a, b) \in Seq(X) /\ Len(Join(a, b)) = Len(a) + Len(b)
                    /\ Join(a, <<>>) = a /\ Join(<<>>, a) = a
  OBVIOUS
<1> QED BY ConcatProperties, ConcatEmptySeq DEF Join

LEMMA LeastOf ==
  ASSUME NEW S \in SUBSET Nat, S # {} PROVE Min(S) \in S /\ \A y \in S : Min(S) <= y
<1> DEFINE R == OpToRel(<, Nat)
<1>1. IsWellFoundedOn(R, Nat) BY NatLessThanWellFounded
<1>2. PICK x \in S : \A y \in S : <<y, x>> \notin R
  <2> HIDE DEF R
  <2> QED BY <1>1, WFMin
<1>3. ASSUME NEW y \in S PROVE x <= y
  <2>1. <<y, x>> \in R <=> y < x BY DEF OpToRel
  <2> HIDE DEF R
  <2> QED BY <1>2, <2>1
<1>4. QED BY <1>3 DEF Min

\* What holds at 0 and carries over to the next number holds up to N.
LEMMA Climb ==
  ASSUME NEW N \in Nat, NEW T, 0 \in T, \A n \in 1..N : n - 1 \in T => n \in T
  PROVE  \A n \in 0..N : n \in T
<1> DEFINE F == {n \in 0..N : n \notin T}
<1>1. SUFFICES ASSUME F # {} PROVE FALSE OBVIOUS
<1>2. F \in SUBSET Nat OBVIOUS
<1>3. Min(F) \in F /\ \A y \in F : Min(F) <= y
  <2> HIDE DEF F
  <2> QED BY <1>1, <1>2, LeastOf
<1>4. Min(F) \in 1..N /\ Min(F) \notin T BY <1>3
<1>5. Min(F) - 1 \in F
  <2>1. Min(F) - 1 \notin T BY <1>4
  <2>2. Min(F) - 1 \in 0..N BY <1>4
  <2>3. QED BY <2>1, <2>2
<1>6. Min(F) <= Min(F) - 1 BY <1>3, <1>5
<1>7. QED BY <1>4, <1>6

LEMMA Last1 == ASSUME NEW n \in Nat \ {0} PROVE Max(1..n) = n /\ (1..n) \ {n} = 1..(n - 1)
<1>1. n \in 1..n /\ \A y \in 1..n : n >= y OBVIOUS
<1>2. \A x \in 1..n : (\A y \in 1..n : x >= y) => x = n OBVIOUS
<1>3. Max(1..n) = n BY <1>1, <1>2 DEF Max
<1>4. QED BY <1>3

\* The function MapThenFoldSet is defined by exists.
Unfolds(h, b, n, step) ==
  \A s \in SUBSET (1..n) : h[s] = IF s = {} THEN b ELSE step[Max(s)][h[s \ {Max(s)}]]

LEMMA FoldExists ==
  ASSUME NEW R, NEW b \in R, NEW N \in Nat, NEW step \in [1..N -> [R -> R]]
  PROVE  \E h \in [SUBSET (1..N) -> R] : Unfolds(h, b, N, step)
<1> USE DEF Unfolds
<1> DEFINE Solves(h, n) == Unfolds(h, b, n, step)
           Solvable(n) == \E h \in [SUBSET (1..n) -> R] : Solves(h, n)
           T == {n \in 0..N : Solvable(n)}
<1>1. Solvable(0)
  <2> DEFINE h == [s \in SUBSET (1..0) |-> b]
  <2>1. 1..0 = {} OBVIOUS
  <2>2. h \in [SUBSET (1..0) -> R] /\ Solves(h, 0) BY <2>1
  <2> HIDE DEF h
  <2>3. QED BY <2>2
<1>2. ASSUME NEW n \in 1..N, Solvable(n - 1) PROVE Solvable(n)
  <2>1. PICK g \in [SUBSET (1..(n - 1)) -> R] : Solves(g, n - 1) BY <1>2
  <2> DEFINE h == [s \in SUBSET (1..n) |-> IF n \in s THEN step[n][g[s \ {n}]] ELSE g[s]]
  <2>2. \A s \in SUBSET (1..n) : (n \in s => s \ {n} \in SUBSET (1..(n - 1)))
                              /\ (n \notin s => s \in SUBSET (1..(n - 1)))
    OBVIOUS
  <2>3. h \in [SUBSET (1..n) -> R]
    <3>1. ASSUME NEW s \in SUBSET (1..n)
          PROVE  (IF n \in s THEN step[n][g[s \ {n}]] ELSE g[s]) \in R
      <4>1. CASE n \in s
        <5>1. g[s \ {n}] \in R BY <2>1, <2>2, <3>1, <4>1
        <5>2. step[n] \in [R -> R] BY <1>2
        <5>3. QED BY <4>1, <5>1, <5>2
      <4>2. CASE n \notin s BY <2>1, <2>2, <3>1, <4>2
      <4>3. QED BY <4>1, <4>2
    <3>2. QED BY <3>1
  <2>4. ASSUME NEW s \in SUBSET (1..n)
        PROVE  h[s] = IF s = {} THEN b ELSE step[Max(s)][h[s \ {Max(s)}]]
    <3>1. CASE n \in s
      <4>1. Max(s) = n
        <5>1. \A y \in s : n >= y BY <1>2, <2>4
        <5>2. \A x \in s : (\A y \in s : x >= y) => x = n BY <1>2, <2>4, <3>1, <5>1
        <5>3. QED BY <3>1, <5>1, <5>2 DEF Max
      <4>2. h[s] = step[n][g[s \ {n}]] BY <2>4, <3>1
      <4>3. h[s \ {n}] = g[s \ {n}] BY <2>4
      <4>4. QED BY <3>1, <4>1, <4>2, <4>3
    <3>2. CASE n \notin s
      <4>1. s \in SUBSET (1..(n - 1)) BY <2>2, <2>4, <3>2
      <4>2. h[s] = g[s] BY <2>4, <3>2
      <4>3. \A m : h[s \ {m}] = g[s \ {m}] BY <2>4, <3>2
      <4>4. g[s] = IF s = {} THEN b ELSE step[Max(s)][g[s \ {Max(s)}]] BY <2>1, <4>1
      <4>5. QED BY <4>2, <4>3, <4>4
    <3>3. QED BY <3>1, <3>2
  <2> HIDE DEF h
  <2>5. Solves(h, n) BY <2>4
  <2>6. QED BY <2>3, <2>5
<1> HIDE DEF Solvable
<1>3. 0 \in T /\ \A n \in 1..N : n - 1 \in T => n \in T BY <1>1, <1>2
<1> HIDE DEF T
<1>4. N \in T
  <2>1. \A n \in 0..N : n \in T BY <1>3, Climb
  <2>2. QED BY <2>1
<1>5. QED BY <1>4 DEF T, Solvable

LEMMA GreatestOf ==
  ASSUME NEW N \in Nat, NEW S \in SUBSET (1..N), S # {} PROVE Max(S) \in S
<1> DEFINE D == {N - x : x \in S}
<1>1. D \in SUBSET Nat /\ D # {}
  <2>1. \A x \in S : N - x \in Nat OBVIOUS
  <2>2. QED BY <2>1
<1>2. Min(D) \in D /\ \A y \in D : Min(D) <= y
  <2> HIDE DEF D
  <2> QED BY <1>1, LeastOf
<1>3. PICK x \in S : Min(D) = N - x BY <1>2
<1>4. \A y \in S : x >= y
  <2>1. \A y \in S : N - x <= N - y BY <1>2, <1>3
  <2>2. QED BY <2>1
<1>5. QED BY <1>4 DEF Max

\* What every merge of a key keeps, merging a list of keys keeps, ...
LEMMA MergeKeeps ==
  ASSUME NEW R, NEW first \in R, NEW Items, NEW list \in Seq(Items),
         \A r \in R, x \in Items : MergeKey(r, x) \in R
  PROVE  FoldLeft(MergeKey, first, list) \in R
<1> DEFINE N == Len(list)
           step == [i \in 1..N |-> [r \in R |-> MergeKey(r, list[i])]]
           Rest(s) == s \ {Max(s)}
           Solves(g) == g = [s \in SUBSET (1..N) |->
                               IF s = {} THEN first ELSE MergeKey(g[Rest(s)], list[Max(s)])]
           it == CHOOSE g : Solves(g)
<1>1. N \in Nat /\ DOMAIN list = 1..N /\ \A i \in 1..N : list[i] \in Items OBVIOUS
<1>2. PICK h \in [SUBSET (1..N) -> R] : Unfolds(h, first, N, step)
  <2>1. step \in [1..N -> [R -> R]] BY <1>1
  <2>2. N \in Nat BY <1>1
  <2> HIDE DEF step, N
  <2>3. QED BY <2>1, <2>2, FoldExists
<1>3. ASSUME NEW s \in SUBSET (1..N)
      PROVE  h[s] = IF s = {} THEN first ELSE MergeKey(h[Rest(s)], list[Max(s)])
  <2>1. CASE s = {} BY <1>2, <2>1 DEF Unfolds
  <2>2. CASE s # {}
    <3>1. Max(s) \in 1..N BY <1>1, <1>3, <2>2, GreatestOf
    <3>2. h[Rest(s)] \in R BY <1>2, <1>3
    <3>3. step[Max(s)][h[Rest(s)]] = MergeKey(h[Rest(s)], list[Max(s)]) BY <3>1, <3>2
    <3>4. QED BY <1>2, <1>3, <2>2, <3>3 DEF Unfolds
  <2>3. QED BY <2>1, <2>2
<1>4. Solves(it)
  <2>1. Solves(h) BY <1>2, <1>3
  <2> HIDE DEF Solves
  <2>2. QED BY <2>1
<1>5. FoldLeft(MergeKey, first, list) = it[1..N] BY <1>1 DEF FoldLeft, MapThenFoldSet
<1> HIDE DEF it
<1>6. \A s \in SUBSET (1..N) : it[s] = IF s = {} THEN first ELSE MergeKey(it[Rest(s)], list[Max(s)])
  BY <1>4
<1> DEFINE T == {n \in 0..N : it[1..n] \in R}
<1>7. 0 \in T
  <2>1. 1..0 = {} OBVIOUS
  <2>2. it[1..0] = first BY <1>6, <2>1
  <2>3. QED BY <1>1, <2>2
<1>8. ASSUME NEW n \in 1..N, n - 1 \in T PROVE n \in T
  <2>1. Max(1..n) = n /\ Rest(1..n) = 1..(n - 1) BY <1>8, Last1
  <2>2. 1..n \in SUBSET (1..N) /\ 1..n # {} BY <1>1, <1>8
  <2>3. it[1..n] = MergeKey(it[1..(n - 1)], list[n]) BY <1>6, <2>1, <2>2
  <2>4. it[1..(n - 1)] \in R BY <1>8
  <2>5. QED BY <1>1, <1>8, <2>3, <2>4
<1>9. \A n \in 0..N : n \in T
  <2> HIDE DEF T, N
  <2> QED BY <1>1, <1>7, <1>8, Climb
<1>10. it[1..N] \in R
  <2>1. N \in 0..N BY <1>1
  <2>2. QED BY <1>9, <2>1
<1>11. QED BY <1>5, <1>10

Read(r, lines) == FoldLeft(ReadLine, r, lines)

\* The states reading goes through, rho[n] after n lines.
Traces(rho, first, lines) ==
  /\ rho[0] = first /\ Read(first, lines) = rho[Len(lines)]
  /\ \A n \in 1..Len(lines) : rho[n] = ReadLine(rho[n - 1], lines[n])

LEMMA ReadTrace ==
  ASSUME NEW R, NEW first \in R, NEW Items, NEW list \in Seq(Items),
         \A r \in R, x \in Items : ReadLine(r, x) \in R
  PROVE  \E rho \in [0..Len(list) -> R] : Traces(rho, first, list)
<1> DEFINE N == Len(list)
           step == [i \in 1..N |-> [r \in R |-> ReadLine(r, list[i])]]
           Rest(s) == s \ {Max(s)}
           Solves(g) == g = [s \in SUBSET (1..N) |->
                               IF s = {} THEN first ELSE ReadLine(g[Rest(s)], list[Max(s)])]
           it == CHOOSE g : Solves(g)
<1>1. N \in Nat /\ DOMAIN list = 1..N /\ \A i \in 1..N : list[i] \in Items OBVIOUS
<1>2. PICK h \in [SUBSET (1..N) -> R] : Unfolds(h, first, N, step)
  <2>1. step \in [1..N -> [R -> R]] BY <1>1
  <2>2. N \in Nat BY <1>1
  <2> HIDE DEF step, N
  <2>3. QED BY <2>1, <2>2, FoldExists
<1>3. ASSUME NEW s \in SUBSET (1..N)
      PROVE  h[s] = IF s = {} THEN first ELSE ReadLine(h[Rest(s)], list[Max(s)])
  <2>1. CASE s = {} BY <1>2, <2>1 DEF Unfolds
  <2>2. CASE s # {}
    <3>1. Max(s) \in 1..N BY <1>1, <1>3, <2>2, GreatestOf
    <3>2. h[Rest(s)] \in R BY <1>2, <1>3
    <3>3. step[Max(s)][h[Rest(s)]] = ReadLine(h[Rest(s)], list[Max(s)]) BY <3>1, <3>2
    <3>4. QED BY <1>2, <1>3, <2>2, <3>3 DEF Unfolds
  <2>3. QED BY <2>1, <2>2
<1>4. Solves(it)
  <2>1. Solves(h) BY <1>2, <1>3
  <2> HIDE DEF Solves
  <2>2. QED BY <2>1
<1>5. FoldLeft(ReadLine, first, list) = it[1..N] BY <1>1 DEF FoldLeft, MapThenFoldSet
<1> HIDE DEF it
<1>6. \A s \in SUBSET (1..N) : it[s] = IF s = {} THEN first ELSE ReadLine(it[Rest(s)], list[Max(s)])
  BY <1>4
<1> DEFINE T == {n \in 0..N : it[1..n] \in R}
<1>7. 0 \in T
  <2>1. 1..0 = {} OBVIOUS
  <2>2. it[1..0] = first BY <1>6, <2>1
  <2>3. QED BY <1>1, <2>2
<1>8. ASSUME NEW n \in 1..N, n - 1 \in T PROVE n \in T
  <2>1. Max(1..n) = n /\ Rest(1..n) = 1..(n - 1) BY <1>8, Last1
  <2>2. 1..n \in SUBSET (1..N) /\ 1..n # {} BY <1>1, <1>8
  <2>3. it[1..n] = ReadLine(it[1..(n - 1)], list[n]) BY <1>6, <2>1, <2>2
  <2>4. it[1..(n - 1)] \in R BY <1>8
  <2>5. QED BY <1>1, <1>8, <2>3, <2>4
<1>9. \A n \in 0..N : n \in T
  <2> HIDE DEF T, N
  <2> QED BY <1>1, <1>7, <1>8, Climb
<1> DEFINE rho == [n \in 0..N |-> it[1..n]]
<1>10. rho \in [0..N -> R] BY <1>9
<1>11. rho[0] = first
  <2>1. 1..0 = {} OBVIOUS
  <2>2. it[1..0] = first BY <1>6, <2>1
  <2>3. QED BY <1>1, <2>2
<1>12. ASSUME NEW n \in 1..N PROVE rho[n] = ReadLine(rho[n - 1], list[n])
  <2>1. Max(1..n) = n /\ Rest(1..n) = 1..(n - 1) BY <1>12, Last1
  <2>2. 1..n \in SUBSET (1..N) /\ 1..n # {}
    <3> HIDE DEF rho, N
    <3>1. n \in Nat \ {0} /\ n <= N BY <1>1, <1>12
    <3>2. n \in 1..n /\ \A x \in 1..n : x \in 1..N BY <1>1, <3>1
    <3>3. QED BY <3>2
  <2>3. it[1..n] = ReadLine(it[1..(n - 1)], list[n]) BY <1>6, <2>1, <2>2
  <2>4. n \in 0..N /\ n - 1 \in 0..N BY <1>1, <1>12
  <2>5. QED BY <2>3, <2>4
<1>13. Read(first, list) = rho[N] BY <1>1, <1>5 DEF Read
<1> HIDE DEF rho
<1>14. QED BY <1>10, <1>11, <1>12, <1>13 DEF Traces

\* ... and what reading a line keeps, reading a file keeps.
LEMMA ReadKeeps ==
  ASSUME NEW R, NEW first \in R, NEW Items, NEW list \in Seq(Items),
         \A r \in R, x \in Items : ReadLine(r, x) \in R
  PROVE  FoldLeft(ReadLine, first, list) \in R
<1>1. PICK rho \in [0..Len(list) -> R] : Traces(rho, first, list) BY ReadTrace
<1>2. Len(list) \in 0..Len(list) BY LenProperties
<1>3. QED BY <1>1, <1>2 DEF Traces, Read

LEMMA ReadNone == ASSUME NEW r PROVE Read(r, <<>>) = r
<1>1. PICK rho \in [0..Len(<<>>) -> {r}] : Traces(rho, r, <<>>)
  <2>1. <<>> \in Seq({}) /\ r \in {r} OBVIOUS
  <2>2. \A q \in {r}, x \in {} : ReadLine(q, x) \in {r} OBVIOUS
  <2> DEFINE R == {r}
             none == <<>>
             X == {}
  <2> HIDE DEF R, none, X
  <2>3. \E rho \in [0..Len(none) -> R] : Traces(rho, r, none)
    <3>1. none \in Seq(X) /\ r \in R /\ \A q \in R, x \in X : ReadLine(q, x) \in R
      BY <2>1, <2>2 DEF R, none, X
    <3>2. QED BY <3>1, ReadTrace
  <2>4. QED BY <2>3 DEF R, none
<1>2. QED BY <1>1 DEF Traces

-----------------------------------------------------------------------------
(* What a handle holds.                                                    *)

Distinct(items) ==
  \A i, j \in DOMAIN items : Lower[items[i].name] = Lower[items[j].name] => i = j

\* The section without a header line comes before the others.
DefaultFirst(items) == \A i \in DOMAIN items : items[i].name = "" => i = 1

KeyList == {ks \in Seq(KeyRec) : Distinct(ks)}
SecRec  == [name : Section, comment : Note, keys : KeyList]
SecList == {ss \in Seq(SecRec) : Distinct(ss) /\ DefaultFirst(ss)}
Handle  == [comment : Note, sections : SecList]

\* What cfg_read has gathered, part of the way through a file.
Reader  == [comment : Note, sections : SecList, open : SecRec \cup {NULL}, above : Note]

LEMMA IndexFacts ==
  ASSUME NEW X, NEW items \in Seq(X), NEW n
  PROVE  /\ Index(items, n) \in 0..Len(items)
         /\ Index(items, n) # 0 => /\ Index(items, n) \in DOMAIN items
                                   /\ Lower[items[Index(items, n)].name] = Lower[n]
         /\ Index(items, n) = 0 => \A j \in DOMAIN items : Lower[items[j].name] # Lower[n]
<1> DEFINE I == {i \in 1..Len(items) : Same(items[i].name, n)}
<1>1. Index(items, n) = IF I # {} THEN Min(I) ELSE 0 BY DEF Index, SelectInSeq
<1>2. I \in SUBSET Nat OBVIOUS
<1>3. I # {} => Min(I) \in I
  <2> HIDE DEF I
  <2> QED BY <1>2, LeastOf
<1>4. CASE I = {} BY <1>1, <1>4 DEF Same
<1>5. CASE I # {} BY <1>1, <1>3, <1>5 DEF Same
<1>6. QED BY <1>4, <1>5

\* An item may be exchanged for another of its name, ...
LEMMA ExchangeKeepsDistinct ==
  ASSUME NEW X, NEW items \in Seq(X), Distinct(items), NEW i \in DOMAIN items, NEW x \in X,
         x.name = items[i].name
  PROVE  [items EXCEPT ![i] = x] \in Seq(X) /\ Distinct([items EXCEPT ![i] = x])
<1> DEFINE d == [items EXCEPT ![i] = x]
<1>1. d \in Seq(X) /\ DOMAIN d = DOMAIN items OBVIOUS
<1>2. \A j \in DOMAIN items : d[j].name = items[j].name OBVIOUS
<1> HIDE DEF d
<1>3. Distinct(d) BY <1>1, <1>2 DEF Distinct
<1>4. QED BY <1>1, <1>3 DEF d

\* ... one of a new name be put at either end, ...
LEMMA AppendKeepsDistinct ==
  ASSUME NEW X, NEW items \in Seq(X), Distinct(items), NEW x \in X, Index(items, x.name) = 0
  PROVE  Append(items, x) \in Seq(X) /\ Distinct(Append(items, x))
<1> DEFINE d == Append(items, x)
           N == Len(items)
<1>1. \A j \in 1..N : Lower[items[j].name] # Lower[x.name]
  <2>1. DOMAIN items = 1..N OBVIOUS
  <2>2. QED BY <2>1, IndexFacts
<1>2. /\ d \in Seq(X) /\ DOMAIN d = 1..(N + 1) /\ N \in Nat
      /\ \A j \in 1..N : d[j] = items[j]
      /\ d[N + 1] = x
  OBVIOUS
<1>3. \A i, j \in 1..N : Lower[items[i].name] = Lower[items[j].name] => i = j BY DEF Distinct
<1> HIDE DEF d, N
<1>4. ASSUME NEW i \in 1..(N + 1), NEW j \in 1..(N + 1), Lower[d[i].name] = Lower[d[j].name]
      PROVE  i = j
  <2>1. i \in 1..N \/ i = N + 1 BY <1>2
  <2>2. j \in 1..N \/ j = N + 1 BY <1>2
  <2>3. QED BY <1>1, <1>2, <1>3, <1>4, <2>1, <2>2
<1>5. Distinct(d) BY <1>2, <1>4 DEF Distinct
<1>6. QED BY <1>2, <1>5 DEF d

LEMMA PrependKeepsDistinct ==
  ASSUME NEW X, NEW items \in Seq(X), Distinct(items), NEW x \in X, Index(items, x.name) = 0
  PROVE  <<x>> \o items \in Seq(X) /\ Distinct(<<x>> \o items)
<1> DEFINE d == <<x>> \o items
           N == Len(items)
<1>1. \A j \in 1..N : Lower[items[j].name] # Lower[x.name]
  <2>1. DOMAIN items = 1..N OBVIOUS
  <2>2. QED BY <2>1, IndexFacts
<1>2. /\ d \in Seq(X) /\ DOMAIN d = 1..(1 + N) /\ N \in Nat
      /\ \A j \in 2..(1 + N) : d[j] = items[j - 1]
      /\ d[1] = x
  <2>1. <<x>> \in Seq(X) /\ Len(<<x>>) = 1 /\ <<x>>[1] = x OBVIOUS
  <2>2. QED BY <2>1
<1>3. \A i, j \in 1..N : Lower[items[i].name] = Lower[items[j].name] => i = j BY DEF Distinct
<1> HIDE DEF d, N
<1>4. ASSUME NEW i \in 1..(1 + N), NEW j \in 1..(1 + N), Lower[d[i].name] = Lower[d[j].name]
      PROVE  i = j
  <2>1. (i \in 2..(1 + N) /\ i - 1 \in 1..N) \/ i = 1 BY <1>2
  <2>2. (j \in 2..(1 + N) /\ j - 1 \in 1..N) \/ j = 1 BY <1>2
  <2>3. CASE i = 1 /\ j # 1 BY <1>1, <1>2, <1>4, <2>2, <2>3
  <2>4. CASE i # 1 /\ j = 1 BY <1>1, <1>2, <1>4, <2>1, <2>4
  <2>5. CASE i # 1 /\ j # 1
    <3>1. i - 1 = j - 1 BY <1>2, <1>3, <1>4, <2>1, <2>2, <2>5
    <3>2. QED BY <3>1
  <2>6. QED BY <2>3, <2>4, <2>5
<1>5. Distinct(d) BY <1>2, <1>4 DEF Distinct
<1>6. QED BY <1>2, <1>5 DEF d

\* ... and one be taken out.
LEMMA RemoveKeepsDistinct ==
  ASSUME NEW X, NEW items \in Seq(X), Distinct(items), NEW p \in DOMAIN items
  PROVE  /\ RemoveAt(items, p) \in Seq(X) /\ Distinct(RemoveAt(items, p))
         /\ DefaultFirst(items) => DefaultFirst(RemoveAt(items, p))
<1> DEFINE a == SubSeq(items, 1, p - 1)
           b == SubSeq(items, p + 1, Len(items))
           N == Len(items)
           At(j) == IF j <= p - 1 THEN j ELSE j + 1
<1>1. p \in 1..N /\ N \in Nat /\ DOMAIN items = 1..N OBVIOUS
<1>2. a \in Seq(X) /\ Len(a) = p - 1 /\ \A j \in 1..(p - 1) : a[j] = items[j]
  BY <1>1, SubSeqProperties
<1>3. b \in Seq(X) /\ Len(b) = N - p /\ \A j \in 1..(N - p) : b[j] = items[p + j]
  <2> DEFINE m == p + 1
  <2>1. m \in Int /\ N \in Int /\ (\A i \in m..N : items[i] \in X) BY <1>1
  <2>2. /\ N - m + 1 = N - p /\ (IF m <= N THEN N - m + 1 ELSE 0) = N - p
        /\ \A j \in 1..(N - p) : m + j - 1 = p + j
    BY <1>1
  <2>3. b = SubSeq(items, m, N) OBVIOUS
  <2> HIDE DEF b, m, N
  <2>4. /\ b \in Seq(X) /\ Len(b) = IF m <= N THEN N - m + 1 ELSE 0
        /\ \A j \in 1..(N - m + 1) : b[j] = items[m + j - 1]
    BY <2>1, <2>3, SubSeqProperties
  <2>5. QED BY <2>2, <2>4
<1> HIDE DEF a, b, N
<1>4. /\ a \o b \in Seq(X) /\ DOMAIN (a \o b) = 1..(N - 1)
      /\ \A j \in 1..(N - 1) : (a \o b)[j] = IF j <= p - 1 THEN a[j] ELSE b[j - (p - 1)]
  BY <1>1, <1>2, <1>3
<1>5. ASSUME NEW j \in 1..(N - 1) PROVE (a \o b)[j] = items[At(j)] /\ At(j) \in 1..N
  <2>1. CASE j <= p - 1 BY <1>1, <1>2, <1>4, <2>1
  <2>2. CASE ~(j <= p - 1)
    <3>1. j - (p - 1) \in 1..(N - p) /\ p + (j - (p - 1)) = j + 1 BY <1>1, <2>2
    <3>2. b[j - (p - 1)] = items[p + (j - (p - 1))] BY <1>3, <3>1
    <3>3. b[j - (p - 1)] = items[j + 1] BY <3>1, <3>2
    <3>4. At(j) = j + 1 /\ At(j) \in 1..N BY <1>1, <2>2
    <3>5. (a \o b)[j] = b[j - (p - 1)] BY <1>4, <1>5, <2>2
    <3>6. QED BY <3>3, <3>4, <3>5
  <2>3. QED BY <2>1, <2>2
<1>6. \A i, j \in 1..(N - 1) : At(i) = At(j) => i = j BY <1>1
<1> HIDE DEF At
<1>7. Distinct(a \o b)
  <2>1. ASSUME NEW i \in 1..(N - 1), NEW j \in 1..(N - 1),
               Lower[(a \o b)[i].name] = Lower[(a \o b)[j].name]
        PROVE  i = j
    <3>1. At(i) \in 1..N /\ At(j) \in 1..N /\ Lower[items[At(i)].name] = Lower[items[At(j)].name]
      BY <1>5, <2>1
    <3>2. At(i) = At(j) BY <1>1, <3>1 DEF Distinct
    <3>3. QED BY <1>6, <2>1, <3>2
  <2>2. QED BY <1>4, <2>1 DEF Distinct
<1>8. ASSUME DefaultFirst(items) PROVE DefaultFirst(a \o b)
  <2>1. \A j \in 1..(N - 1) : j \in Nat \ {0} BY <1>1
  <2>2. \A j \in 1..(N - 1) : At(j) >= j BY <1>1, <2>1 DEF At
  <2>3. \A j \in 1..(N - 1) : (a \o b)[j].name = "" => At(j) = 1 BY <1>1, <1>5, <1>8 DEF DefaultFirst
  <2>4. \A j \in 1..(N - 1) : At(j) = 1 => j = 1 BY <2>1, <2>2
  <2>5. QED BY <1>4, <2>3, <2>4 DEF DefaultFirst
<1>9. RemoveAt(items, p) = a \o b BY DEF RemoveAt, a, b
<1>10. QED BY <1>4, <1>7, <1>8, <1>9

-----------------------------------------------------------------------------
(* Merging.                                                                *)

LEMMA MergeKeyGood == ASSUME NEW ks \in KeyList, NEW k \in KeyRec PROVE MergeKey(ks, k) \in KeyList
<1> DEFINE i == Index(ks, k.name)
           x == [ks[i] EXCEPT !.value = k.value, !.comment = k.comment]
<1>1. ks \in Seq(KeyRec) /\ Distinct(ks) BY DEF KeyList
<1>2. CASE i = 0
  <2>1. MergeKey(ks, k) = Append(ks, k) BY <1>2 DEF MergeKey
  <2>2. QED BY <1>1, <1>2, <2>1, AppendKeepsDistinct DEF KeyList
<1>3. CASE i # 0
  <2>1. i \in DOMAIN ks BY <1>1, <1>3, IndexFacts
  <2>2. ks[i] \in KeyRec BY <1>1, <2>1
  <2>3. x \in KeyRec /\ x.name = ks[i].name BY <2>2 DEF KeyRec
  <2>4. MergeKey(ks, k) = [ks EXCEPT ![i] = x] BY <1>1, <1>3, <2>1, <2>2 DEF MergeKey, KeyRec
  <2> HIDE DEF x, i
  <2>5. [ks EXCEPT ![i] = x] \in Seq(KeyRec) /\ Distinct([ks EXCEPT ![i] = x])
    BY <1>1, <2>1, <2>3, ExchangeKeepsDistinct
  <2>6. QED BY <2>4, <2>5 DEF KeyList
<1>4. QED BY <1>2, <1>3

LEMMA AddSectionGood ==
  ASSUME NEW ss \in SecList, NEW s \in SecRec, Index(ss, s.name) = 0
  PROVE  cfg_add_section(ss, s) \in SecList
<1>1. ss \in Seq(SecRec) /\ Distinct(ss) /\ DefaultFirst(ss) BY DEF SecList
<1>2. \A j \in DOMAIN ss : Lower[ss[j].name] # Lower[s.name] BY <1>1, IndexFacts
<1>3. CASE s.name = ""
  <2> DEFINE d == <<s>> \o ss
  <2>1. d \in Seq(SecRec) /\ Distinct(d) BY <1>1, PrependKeepsDistinct
  <2>2. \A j \in DOMAIN d : j # 1 => j - 1 \in DOMAIN ss /\ d[j] = ss[j - 1]
    <3>1. <<s>> \in Seq(SecRec) /\ Len(<<s>>) = 1 OBVIOUS
    <3>2. QED BY <1>1, <3>1
  <2>3. cfg_add_section(ss, s) = d BY <1>3 DEF cfg_add_section
  <2> HIDE DEF d
  <2>4. DefaultFirst(d) BY <1>2, <1>3, <2>2 DEF DefaultFirst
  <2>5. QED BY <2>1, <2>3, <2>4 DEF SecList
<1>4. CASE s.name # ""
  <2> DEFINE d == Append(ss, s)
  <2>1. d \in Seq(SecRec) /\ Distinct(d) BY <1>1, AppendKeepsDistinct
  <2>2. \A j \in DOMAIN d : \/ j \in DOMAIN ss /\ d[j] = ss[j]
                            \/ d[j] = s
    BY <1>1
  <2>3. cfg_add_section(ss, s) = d BY <1>4 DEF cfg_add_section
  <2> HIDE DEF d
  <2>4. DefaultFirst(d) BY <1>1, <1>4, <2>2 DEF DefaultFirst
  <2>5. QED BY <2>1, <2>3, <2>4 DEF SecList
<1>5. QED BY <1>3, <1>4

\* A section is exchanged for one of the same name.
LEMMA ExchangeSection ==
  ASSUME NEW ss \in SecList, NEW i \in DOMAIN ss, NEW s \in SecRec, s.name = ss[i].name
  PROVE  [ss EXCEPT ![i] = s] \in SecList
<1> DEFINE d == [ss EXCEPT ![i] = s]
<1>1. ss \in Seq(SecRec) /\ Distinct(ss) /\ DefaultFirst(ss) BY DEF SecList
<1>2. DOMAIN d = DOMAIN ss /\ \A j \in DOMAIN ss : d[j].name = ss[j].name BY <1>1
<1>3. d \in Seq(SecRec) /\ Distinct(d) BY <1>1, ExchangeKeepsDistinct
<1> HIDE DEF d
<1>4. DefaultFirst(d) BY <1>1, <1>2 DEF DefaultFirst
<1>5. QED BY <1>3, <1>4 DEF SecList, d

LEMMA MergeSectionGood ==
  ASSUME NEW ss \in SecList, NEW s \in SecRec PROVE MergeSection(ss, s) \in SecList
<1> DEFINE i == Index(ss, s.name)
           ks == FoldLeft(MergeKey, ss[i].keys, s.keys)
           x == [ss[i] EXCEPT !.keys = ks]
<1>1. ss \in Seq(SecRec) BY DEF SecList
<1>2. CASE i = 0 BY <1>2, AddSectionGood DEF MergeSection
<1>3. CASE i # 0
  <2>1. i \in DOMAIN ss BY <1>1, <1>3, IndexFacts
  <2>2. ss[i] \in SecRec BY <1>1, <2>1
  <2>3. ss[i].keys \in KeyList /\ s.keys \in Seq(KeyRec) BY <2>2 DEF SecRec, KeyList
  <2>4. ks \in KeyList BY <2>3, MergeKeyGood, MergeKeeps
  <2>5. MergeSection(ss, s) = [ss EXCEPT ![i] = x] BY <1>1, <1>3, <2>1, <2>2 DEF MergeSection, SecRec
  <2> HIDE DEF ks
  <2>6. x \in SecRec /\ x.name = ss[i].name BY <2>2, <2>4 DEF SecRec
  <2> HIDE DEF x, i
  <2>7. QED BY <2>1, <2>5, <2>6, ExchangeSection
<1>4. QED BY <1>2, <1>3

-----------------------------------------------------------------------------
(* Reading.                                                                *)

LEMMA SplitGood ==
  ASSUME NEW c \in Note PROVE SplitOff(c) \in Note /\ HeadOf(c) \in Note
<1>1. CASE c = NULL BY <1>1 DEF SplitOff, HeadOf
<1>2. CASE c # NULL
  <2>1. c \in Seq(Text) /\ c # <<>> /\ Len(c) \in Nat \ {0} BY <1>2 DEF Note, Lines
  <2>2. <<Last(c)>> \in Lines
    <3>1. c[Len(c)] \in Text BY <2>1
    <3>2. QED BY <3>1 DEF Last, Lines
  <2>3. Len(c) # 1 => Front(c) \in Lines
    <3> DEFINE m == Len(c) - 1
               f == SubSeq(c, 1, m)
    <3>0. m \in Nat /\ \A i \in 1..m : c[i] \in Text BY <2>1
    <3>1. f \in Seq(Text) /\ Len(f) = m
      <4> HIDE DEF m
      <4> QED BY <3>0, SubSeqProperties
    <3>2. Len(c) # 1 => f # <<>>
      <4>1. Len(c) # 1 => m # 0 BY <2>1
      <4> HIDE DEF f, m
      <4>2. QED BY <3>1, <4>1
    <3>3. QED BY <3>1, <3>2 DEF Front, Lines
  <2>4. QED BY <2>2, <2>3 DEF SplitOff, HeadOf, Note
<1>3. QED BY <1>1, <1>2

LEMMA NoteGrows ==
  ASSUME NEW c \in Note, c # NULL, NEW t \in Text PROVE Append(c, t) \in Note
<1>1. c \in Seq(Text) BY DEF Note, Lines
<1>2. Append(c, t) \in Seq(Text) /\ Append(c, t) # <<>> BY <1>1, AppendProperties
<1>3. QED BY <1>2 DEF Note, Lines

LEMMA EmptyList == <<>> \in KeyList /\ <<>> \in SecList
BY DEF KeyList, SecList, Distinct, DefaultFirst

LEMMA BeginGood ==
  ASSUME NEW r \in Reader, NEW n \in Section
  PROVE  Begin(r, n) \in Reader /\ Begin(r, n).open \in SecRec /\ Begin(r, n).above = NULL
<1>1. /\ r.comment \in Note /\ r.sections \in SecList /\ r.open \in SecRec \cup {NULL}
      /\ r.above \in Note
  BY DEF Reader
<1>2. \A c \in Note : NoKeys(n, c) \in SecRec BY EmptyList DEF NoKeys, SecRec
<1>3. NULL \in Note BY DEF Note
<1>4. SplitOff(r.above) \in Note /\ HeadOf(r.above) \in Note BY <1>1, SplitGood
<1>5. CASE r.open = NULL
  <2>1. Begin(r, n) = [comment |-> HeadOf(r.above), sections |-> r.sections,
                       open |-> NoKeys(n, SplitOff(r.above)), above |-> NULL]
    BY <1>5 DEF Begin, Reader
  <2>2. QED BY <1>1, <1>2, <1>3, <1>4, <2>1 DEF Reader
<1>6. CASE r.open # NULL
  <2>1. Begin(r, n) = [comment |-> r.comment, sections |-> MergeSection(r.sections, r.open),
                       open |-> NoKeys(n, r.above), above |-> NULL]
    BY <1>6 DEF Begin, Reader
  <2>2. MergeSection(r.sections, r.open) \in SecList BY <1>1, <1>6, MergeSectionGood
  <2>3. QED BY <1>1, <1>2, <1>3, <2>1, <2>2 DEF Reader
<1>7. QED BY <1>5, <1>6

LEMMA ReadKeyGood ==
  ASSUME NEW r \in Reader, r.open \in SecRec, NEW l \in [type : {"key"}, text : Key, value : Value]
  PROVE  cfg_read_key(r, l) \in Reader /\ cfg_read_key(r, l).open \in SecRec
<1> DEFINE k == [name |-> l.text, value |-> l.value, comment |-> r.above]
           ks == MergeKey(r.open.keys, k)
<1>1. /\ r.comment \in Note /\ r.sections \in SecList /\ r.open \in SecRec /\ r.above \in Note
  BY DEF Reader
<1>2. k \in KeyRec BY <1>1 DEF KeyRec
<1>3. r.open.name \in Section /\ r.open.comment \in Note /\ r.open.keys \in KeyList BY <1>1 DEF SecRec
<1>4. ks \in KeyList
  <2> HIDE DEF k
  <2> QED BY <1>2, <1>3, MergeKeyGood
<1>5. cfg_read_key(r, l) = [comment |-> r.comment, sections |-> r.sections, above |-> NULL,
         open |-> [name |-> r.open.name, comment |-> r.open.comment, keys |-> ks]]
  <2>1. r = [comment |-> r.comment, sections |-> r.sections, open |-> r.open, above |-> r.above]
    BY DEF Reader
  <2>2. r.open = [name |-> r.open.name, comment |-> r.open.comment, keys |-> r.open.keys]
    BY <1>1 DEF SecRec
  <2>3. cfg_read_key(r, l) = [[r EXCEPT !.above = NULL] EXCEPT !.open = [r.open EXCEPT !.keys = ks]]
    BY <2>1, <2>2 DEF cfg_read_key
  <2> HIDE DEF ks
  <2>4. [r.open EXCEPT !.keys = ks] = [name |-> r.open.name, comment |-> r.open.comment, keys |-> ks]
    BY <2>2
  <2>5. QED BY <2>1, <2>3, <2>4
<1> HIDE DEF ks
<1>6. [name |-> r.open.name, comment |-> r.open.comment, keys |-> ks] \in SecRec BY <1>3, <1>4 DEF SecRec
<1>7. QED BY <1>1, <1>5, <1>6 DEF Reader, Note

LEMMA ReadLineGood ==
  ASSUME NEW r \in Reader, NEW l \in Line PROVE ReadLine(r, l) \in Reader
<1>1. /\ r.comment \in Note /\ r.sections \in SecList /\ r.open \in SecRec \cup {NULL}
      /\ r.above \in Note
  BY DEF Reader
<1>2. CASE l \in [type : {"comment"}, text : Text]
  <2> DEFINE a == IF r.above = NULL THEN <<l.text>> ELSE Append(r.above, l.text)
  <2>1. l.type = "comment" /\ l.text \in Text BY <1>2
  <2>2. <<l.text>> \in Note BY <2>1 DEF Note, Lines
  <2>3. a \in Note BY <1>1, <2>1, <2>2, NoteGrows
  <2>4. ReadLine(r, l) = [r EXCEPT !.above = a] BY <2>1 DEF ReadLine, Reader
  <2> HIDE DEF a
  <2>5. QED BY <1>1, <2>3, <2>4 DEF Reader
<1>3. CASE l = EmptyLine
  <2> DEFINE a == IF r.above = NULL THEN NULL ELSE Append(r.above, "")
  <2>1. l.type = "empty" BY <1>3 DEF EmptyLine
  <2>2. a \in Note
    <3>1. CASE r.above = NULL BY <3>1 DEF Note
    <3>2. CASE r.above # NULL
      <4>1. "" \in Text BY ConfigAssumption
      <4>2. QED BY <1>1, <3>2, <4>1, NoteGrows
    <3>3. QED BY <3>1, <3>2
  <2>3. ReadLine(r, l) = [r EXCEPT !.above = a] BY <2>1 DEF ReadLine, Reader
  <2> HIDE DEF a
  <2>4. QED BY <1>1, <2>2, <2>3 DEF Reader
<1>4. CASE l \in [type : {"section"}, text : Section]
  <2>1. l.type = "section" /\ l.text \in Section BY <1>4
  <2>2. ReadLine(r, l) = Begin(r, l.text) BY <2>1 DEF ReadLine
  <2>3. QED BY <2>1, <2>2, BeginGood
<1>5. CASE l \in [type : {"key"}, text : Key, value : Value]
  <2> DEFINE q == IF r.open = NULL THEN Begin(r, "") ELSE r
  <2>1. l.type = "key" BY <1>5
  <2>2. ReadLine(r, l) = cfg_read_key(q, l) BY <2>1 DEF ReadLine
  <2>3. q \in Reader /\ q.open \in SecRec
    <3>1. CASE r.open = NULL
      <4>1. "" \in Section BY ConfigAssumption
      <4>2. Begin(r, "") \in Reader /\ Begin(r, "").open \in SecRec BY <4>1, BeginGood
      <4>3. QED BY <3>1, <4>2
    <3>2. CASE r.open # NULL BY <1>1, <3>2
    <3>3. QED BY <3>1, <3>2
  <2> HIDE DEF q
  <2>4. QED BY <1>5, <2>2, <2>3, ReadKeyGood
<1>6. QED BY <1>2, <1>3, <1>4, <1>5 DEF Line

LEMMA ReadGood == ASSUME NEW lines \in Seq(Line) PROVE cfg_read(lines) \in Handle \/ cfg_read(lines) = Crash
<1> DEFINE start == [comment |-> NULL, sections |-> <<>>, open |-> NULL, above |-> NULL]
           r == FoldLeft(ReadLine, start, lines)
<1>1. start \in Reader BY EmptyList DEF Reader, Note
<1>2. r \in Reader
  <2> HIDE DEF start
  <2> QED BY <1>1, ReadLineGood, ReadKeeps
<1>3. cfg_read(lines) = IF r.open # NULL
                          THEN [comment |-> r.comment, sections |-> MergeSection(r.sections, r.open)]
                        ELSE IF r.above # NULL THEN Crash ELSE Blank
  BY DEF cfg_read
<1> HIDE DEF r
<1>4. Blank \in Handle BY EmptyList DEF Blank, Handle, Note
<1>5. CASE r.open # NULL
  <2>1. r.comment \in Note /\ MergeSection(r.sections, r.open) \in SecList
    BY <1>2, <1>5, MergeSectionGood DEF Reader
  <2>2. QED BY <1>3, <1>5, <2>1 DEF Handle
<1>6. CASE r.open = NULL BY <1>3, <1>4, <1>6
<1>7. QED BY <1>5, <1>6

-----------------------------------------------------------------------------
(* Writing.                                                                *)

\* phi[n] holds the first n pieces.
Joins(phi, ss) ==
  /\ phi[0] = <<>> /\ FlattenSeq(ss) = phi[Len(ss)]
  /\ \A n \in 1..Len(ss) : phi[n] = phi[n - 1] \o ss[n]

LEMMA FlattenTrace ==
  ASSUME NEW X, NEW ss \in Seq(Seq(X)) PROVE \E phi \in [0..Len(ss) -> Seq(X)] : Joins(phi, ss)
<1> DEFINE N == Len(ss)
           step == [i \in 1..N |-> [r \in Seq(X) |-> r \o ss[i]]]
           Solves(g) == g = [i \in 1..N |-> IF i = 1 THEN ss[i] ELSE g[i - 1] \o ss[i]]
           it == CHOOSE g : Solves(g)
<1>1. N \in Nat /\ \A i \in 1..N : ss[i] \in Seq(X) OBVIOUS
<1>2. CASE N = 0
  <2> DEFINE phi == [n \in 0..N |-> <<>>]
  <2>1. phi \in [0..N -> Seq(X)] /\ phi[0] = <<>> /\ phi[N] = <<>> BY <1>2
  <2>2. 1..N = {} BY <1>2
  <2>3. FlattenSeq(ss) = <<>> BY <1>2 DEF FlattenSeq
  <2> HIDE DEF phi
  <2>4. QED BY <2>1, <2>2, <2>3 DEF Joins
<1>3. CASE N # 0
  <2>1. <<>> \in Seq(X) OBVIOUS
  <2>2. step \in [1..N -> [Seq(X) -> Seq(X)]]
    <3>1. \A i \in 1..N : \A r \in Seq(X) : r \o ss[i] \in Seq(X) BY <1>1
    <3>2. QED BY <3>1
  <2>3. PICK h \in [SUBSET (1..N) -> Seq(X)] : Unfolds(h, <<>>, N, step)
    <3> HIDE DEF step, N
    <3> QED BY <1>1, <2>1, <2>2, FoldExists
  <2>4. h[{}] = <<>> BY <2>3 DEF Unfolds
  <2>5. ASSUME NEW i \in 1..N PROVE h[1..i] = h[1..(i - 1)] \o ss[i]
    <3>1. 1..i \in SUBSET (1..N) /\ 1..i # {} /\ Max(1..i) = i /\ (1..i) \ {i} = 1..(i - 1)
      <4>1. i \in Nat \ {0} /\ i <= N BY <1>1, <2>5
      <4>2. Max(1..i) = i /\ (1..i) \ {i} = 1..(i - 1) BY <4>1, Last1
      <4>3. i \in 1..i /\ \A x \in 1..i : x \in 1..N BY <1>1, <4>1
      <4>4. QED BY <4>2, <4>3
    <3>2. h[1..i] = step[i][h[1..(i - 1)]]
      <4> DEFINE S == 1..i
      <4>1. S \in SUBSET (1..N) /\ S # {} /\ Max(S) = i /\ S \ {i} = 1..(i - 1) BY <3>1
      <4> HIDE DEF S, N, step
      <4>2. h[S] = step[i][h[1..(i - 1)]] BY <2>3, <4>1 DEF Unfolds
      <4>3. QED BY <4>2 DEF S
    <3>3. 1..(i - 1) \in SUBSET (1..N)
      <4>1. i \in Nat /\ N \in Nat /\ i <= N BY <1>1, <2>5
      <4> HIDE DEF N
      <4>2. QED BY <4>1
    <3>4. h[1..(i - 1)] \in Seq(X) BY <2>3, <3>3
    <3>5. QED BY <2>5, <3>2, <3>4
  <2> DEFINE g == [i \in 1..N |-> h[1..i]]
  <2>6. ASSUME NEW i \in 1..N PROVE g[i] = IF i = 1 THEN ss[i] ELSE g[i - 1] \o ss[i]
    <3>1. CASE i = 1
      <4>1. 1..(1 - 1) = {} OBVIOUS
      <4>2. h[1..1] = <<>> \o ss[1] BY <2>4, <2>5, <2>6, <3>1, <4>1
      <4>3. <<>> \o ss[1] = ss[1] BY <1>1, <2>6, <3>1
      <4>4. QED BY <2>6, <3>1, <4>2, <4>3
    <3>2. CASE i # 1
      <4>1. i - 1 \in 1..N BY <1>1, <2>6, <3>2
      <4>2. QED BY <2>5, <2>6, <3>2, <4>1
    <3>3. QED BY <3>1, <3>2
  <2>7. Solves(g) BY <2>6
  <2>8. Solves(it)
    <3> HIDE DEF Solves, g
    <3> QED BY <2>7
  <2>9. FlattenSeq(ss) = it[N] BY <1>3 DEF FlattenSeq
  <2> HIDE DEF it
  <2>10. \A i \in 1..N : it[i] = IF i = 1 THEN ss[i] ELSE it[i - 1] \o ss[i] BY <2>8
  <2> DEFINE T == {n \in 0..N : n = 0 \/ it[n] \in Seq(X)}
  <2>11. 0 \in T BY <1>1
  <2>12. ASSUME NEW n \in 1..N, n - 1 \in T PROVE n \in T
    <3>1. CASE n = 1 BY <1>1, <2>10, <2>12, <3>1
    <3>2. CASE n # 1
      <4>1. it[n - 1] \in Seq(X) /\ ss[n] \in Seq(X) BY <1>1, <2>12, <3>2
      <4>2. it[n - 1] \o ss[n] \in Seq(X) BY <4>1
      <4>3. it[n] = it[n - 1] \o ss[n] BY <2>10, <2>12, <3>2
      <4>4. it[n] \in Seq(X) BY <4>2, <4>3
      <4>5. n \in 0..N BY <1>1, <2>12
      <4>6. QED BY <4>4, <4>5
    <3>3. QED BY <3>1, <3>2
  <2>13. \A n \in 0..N : n \in T
    <3> HIDE DEF T, N
    <3> QED BY <1>1, <2>11, <2>12, Climb
  <2> DEFINE phi == [n \in 0..N |-> IF n = 0 THEN <<>> ELSE it[n]]
  <2>14. phi \in [0..N -> Seq(X)]
    <3> HIDE DEF it
    <3> QED BY <2>13
  <2>15. phi[0] = <<>> /\ phi[N] = it[N] BY <1>1, <1>3
  <2>16. ASSUME NEW n \in 1..N PROVE phi[n] = phi[n - 1] \o ss[n]
    <3>1. phi[n] = it[n] /\ phi[n - 1] = (IF n = 1 THEN <<>> ELSE it[n - 1]) BY <1>1, <2>16
    <3>2. n = 1 => <<>> \o ss[n] = ss[n] BY <1>1, <2>16
    <3>3. QED BY <2>10, <2>16, <3>1, <3>2
  <2> HIDE DEF phi
  <2>17. QED BY <2>9, <2>14, <2>15, <2>16 DEF Joins
<1>4. QED BY <1>2, <1>3

LEMMA FlattenGood == ASSUME NEW X, NEW ss \in Seq(Seq(X)) PROVE FlattenSeq(ss) \in Seq(X)
<1>1. PICK phi \in [0..Len(ss) -> Seq(X)] : Joins(phi, ss) BY FlattenTrace
<1>2. Len(ss) \in 0..Len(ss) OBVIOUS
<1>3. QED BY <1>1, <1>2 DEF Joins

LEMMA FlattenConcat ==
  ASSUME NEW X, NEW s \in Seq(Seq(X)), NEW t \in Seq(Seq(X))
  PROVE  FlattenSeq(s \o t) = FlattenSeq(s) \o FlattenSeq(t)
<1> DEFINE M == Len(s)
           N == Len(t)
           st == s \o t
           f == FlattenSeq(s)
<1>1. M \in Nat /\ N \in Nat OBVIOUS
<1>2. /\ st \in Seq(Seq(X)) /\ Len(st) = M + N
      /\ \A n \in 1..M : st[n] = s[n]
      /\ \A n \in 1..N : st[M + n] = t[n] /\ t[n] \in Seq(X)
  OBVIOUS
<1> HIDE DEF st
<1>3. PICK sigma \in [0..M -> Seq(X)] : Joins(sigma, s) BY FlattenTrace
<1>4. PICK tau \in [0..N -> Seq(X)] : Joins(tau, t) BY FlattenTrace
<1>5. PICK rho \in [0..Len(st) -> Seq(X)] : Joins(rho, st) BY <1>2, FlattenTrace
<1>6. /\ sigma[0] = <<>> /\ f = sigma[M] /\ \A n \in 1..M : sigma[n] = sigma[n - 1] \o s[n]
      /\ tau[0] = <<>> /\ FlattenSeq(t) = tau[N] /\ \A n \in 1..N : tau[n] = tau[n - 1] \o t[n]
  BY <1>3, <1>4 DEF Joins
<1>7. f \in Seq(X) BY FlattenGood
<1>8. /\ rho[0] = <<>> /\ FlattenSeq(st) = rho[M + N]
      /\ \A n \in 1..(M + N) : rho[n] = rho[n - 1] \o st[n]
  BY <1>2, <1>5 DEF Joins
<1> HIDE DEF M, N, f
<1> DEFINE T == {n \in 0..M : rho[n] = sigma[n]}
<1>9. M \in T
  <2>1. 0 \in T BY <1>1, <1>6, <1>8
  <2>2. ASSUME NEW n \in 1..M, n - 1 \in T PROVE n \in T
    <3>1. n \in 1..(M + N) /\ n \in 0..M
      <4> HIDE DEF T
      <4>1. n \in 1..M BY <2>2
      <4>2. QED BY <1>1, <4>1
    <3>2. rho[n] = rho[n - 1] \o s[n] /\ sigma[n] = sigma[n - 1] \o s[n] BY <1>2, <1>6, <1>8, <2>2, <3>1
    <3>3. rho[n - 1] = sigma[n - 1] BY <2>2
    <3>4. QED BY <3>1, <3>2, <3>3
  <2> HIDE DEF T
  <2>3. \A n \in 0..M : n \in T BY <1>1, <2>1, <2>2, Climb
  <2>4. QED BY <1>1, <2>3
<1> DEFINE U == {n \in 0..N : rho[M + n] = f \o tau[n]}
<1>10. N \in U
  <2>1. 0 \in U
    <3>1. rho[M] = f BY <1>6, <1>9
    <3>2. M + 0 = M /\ 0 \in 0..N BY <1>1
    <3>3. f \o <<>> = f BY <1>7, ConcatEmptySeq
    <3>4. QED BY <1>6, <3>1, <3>2, <3>3
  <2>2. ASSUME NEW n \in 1..N, n - 1 \in U PROVE n \in U
    <3>1. M + n \in 1..(M + N) /\ n \in 0..N /\ n - 1 \in 0..N /\ (M + n) - 1 = M + (n - 1) BY <1>1, <2>2
    <3>2. rho[M + n] = rho[M + (n - 1)] \o t[n] BY <1>2, <1>8, <2>2, <3>1
    <3>3. rho[M + (n - 1)] = f \o tau[n - 1] BY <2>2
    <3>4. tau[n - 1] \in Seq(X) /\ t[n] \in Seq(X) BY <1>2, <1>4, <2>2, <3>1 DEF N
    <3>5. (f \o tau[n - 1]) \o t[n] = f \o (tau[n - 1] \o t[n])
      <4> DEFINE a == tau[n - 1]
                 b == t[n]
      <4>1. f \in Seq(X) /\ a \in Seq(X) /\ b \in Seq(X) BY <1>7, <3>4
      <4> HIDE DEF a, b, T, U
      <4>2. Join(Join(f, a), b) = Join(f, Join(a, b)) BY <4>1, JoinAssociative
      <4>3. QED BY <4>2 DEF a, b, Join
    <3>6. rho[M + n] = f \o tau[n] BY <1>6, <2>2, <3>2, <3>3, <3>5
    <3>7. QED BY <3>1, <3>6
  <2> HIDE DEF U
  <2>3. \A n \in 0..N : n \in U BY <1>1, <2>1, <2>2, Climb
  <2>4. QED BY <1>1, <2>3
<1>11. QED BY <1>6, <1>8, <1>10 DEF st, f

LEMMA FlattenFew == FlattenSeq(<<>>) = <<>> /\ \A X : \A x \in Seq(X) : FlattenSeq(<<x>>) = x
<1>1. FlattenSeq(<<>>) = <<>>
  <2>1. <<>> \in Seq(Seq({})) BY EmptySeq
  <2>2. PICK phi \in [0..Len(<<>>) -> Seq({})] : Joins(phi, <<>>)
    <3> DEFINE none == <<>>
    <3>1. none \in Seq(Seq({})) BY <2>1
    <3> HIDE DEF none
    <3>2. \E phi \in [0..Len(none) -> Seq({})] : Joins(phi, none) BY <3>1, FlattenTrace
    <3>3. QED BY <3>2 DEF none
  <2>3. Len(<<>>) = 0 BY EmptySeq
  <2>4. QED BY <2>2, <2>3 DEF Joins
<1>2. ASSUME NEW X, NEW x \in Seq(X) PROVE FlattenSeq(<<x>>) = x
  <2> DEFINE s == <<x>>
  <2>1. s \in Seq(Seq(X)) /\ Len(s) = 1 /\ s[1] = x BY Single
  <2> HIDE DEF s
  <2>2. PICK phi \in [0..Len(s) -> Seq(X)] : Joins(phi, s) BY <2>1, FlattenTrace
  <2>3. FlattenSeq(s) = <<>> \o x
    <3>1. 1 \in 1..Len(s) /\ 1 - 1 = 0 BY <2>1
    <3>2. phi[0] = <<>> /\ FlattenSeq(s) = phi[1] /\ phi[1] = phi[1 - 1] \o s[1]
      BY <2>1, <2>2, <3>1 DEF Joins
    <3>3. QED BY <2>1, <3>1, <3>2
  <2>4. <<>> \o x = x BY ConcatEmptySeq
  <2>5. QED BY <2>3, <2>4 DEF s
<1>3. QED BY <1>1, <1>2

LEMMA FlattenAppend ==
  ASSUME NEW X, NEW ss \in Seq(Seq(X)), NEW x \in Seq(X)
  PROVE  FlattenSeq(Append(ss, x)) = FlattenSeq(ss) \o x
<1>1. Append(ss, x) = ss \o <<x>> /\ <<x>> \in Seq(Seq(X)) BY Single, AppendIsConcat
<1>2. FlattenSeq(ss \o <<x>>) = FlattenSeq(ss) \o FlattenSeq(<<x>>) BY <1>1, FlattenConcat
<1>3. FlattenSeq(<<x>>) = x BY FlattenFew
<1>4. QED BY <1>1, <1>2, <1>3

\* The lines a comment is written as.
Quiet == [type : {"comment"}, text : Text \ {""}] \cup {EmptyLine}

LEMMA QuietLines == Quiet \subseteq Line /\ \A lines \in Seq(Quiet) : lines \in Seq(Line)
<1>1. Quiet \subseteq Line BY DEF Quiet, Line
<1>2. QED BY <1>1

LEMMA WriteNoteGood ==
  ASSUME NEW c \in Note
  PROVE  /\ cfg_write_comment(c) \in Seq(Quiet)
         /\ c # NULL => Len(cfg_write_comment(c)) = Len(Pieces(c)) /\ Len(Pieces(c)) <= Len(c)
<1>1. CASE c = NULL
  <2>1. cfg_write_comment(c) = <<>> BY <1>1 DEF cfg_write_comment
  <2>2. QED BY <1>1, <2>1, EmptySeq
<1>2. CASE c # NULL
  <2> DEFINE p == Pieces(c)
             At(i) == IF c[i] = "" THEN EmptyLine ELSE Remark(c[i])
  <2>1. c \in Seq(Text) /\ Len(c) \in Nat \ {0} BY <1>2 DEF Note, Lines
  <2>2. p \in Seq(Text) /\ Len(p) <= Len(c)
    <3>1. \A m \in Nat : m <= Len(c) => /\ SubSeq(c, 1, m) \in Seq(Text)
                                        /\ Len(SubSeq(c, 1, m)) = m
      <4>1. ASSUME NEW m \in Nat, m <= Len(c)
            PROVE  SubSeq(c, 1, m) \in Seq(Text) /\ Len(SubSeq(c, 1, m)) = m
        <5>1. \A i \in 1..m : c[i] \in Text BY <2>1, <4>1
        <5>2. QED BY <5>1, SubSeqProperties
      <4>2. QED BY <4>1
    <3>2. Len(c) - 1 \in Nat /\ Len(c) - 1 <= Len(c) BY <2>1
    <3>3. Front(c) \in Seq(Text) /\ Len(Front(c)) = Len(c) - 1 BY <3>1, <3>2 DEF Front
    <3>4. CASE p = c BY <2>1, <3>4
    <3>5. CASE p = Front(c) BY <3>2, <3>3, <3>5
    <3>6. QED BY <3>4, <3>5 DEF Pieces
  <2>3. \A i \in 1..Len(p) : c[i] \in Text BY <2>1, <2>2
  <2>4. \A i \in 1..Len(p) : At(i) \in Quiet BY <2>3 DEF Quiet, Remark
  <2>5. cfg_write_comment(c) = [i \in 1..Len(p) |-> At(i)] BY <1>2, <2>2 DEF cfg_write_comment
  <2>6. Len(p) \in Nat BY <2>2
  <2> HIDE DEF p, At
  <2>7. [i \in 1..Len(p) |-> At(i)] \in Seq(Quiet) /\ Len([i \in 1..Len(p) |-> At(i)]) = Len(p)
    BY <2>4, <2>6
  <2>8. QED BY <2>2, <2>5, <2>7 DEF p
<1>3. QED BY <1>1, <1>2

LEMMA WriteKeyGood == ASSUME NEW k \in KeyRec PROVE cfg_write_key(k) \in Seq(Line)
<1> DEFINE v == IF k.value = NULL THEN "" ELSE k.value
<1>1. k.name \in Key /\ k.comment \in Note /\ v \in Value BY ConfigAssumption DEF KeyRec
<1>2. cfg_write_key(k) = Append(cfg_write_comment(k.comment), Setting(k.name, v)) BY DEF cfg_write_key
<1> HIDE DEF v
<1>3. Setting(k.name, v) \in Line BY <1>1 DEF Setting, Line
<1>4. cfg_write_comment(k.comment) \in Seq(Line) BY <1>1, WriteNoteGood, QuietLines
<1>5. QED BY <1>2, <1>3, <1>4, AppendProperties

LEMMA WriteSectionGood == ASSUME NEW s \in SecRec PROVE cfg_write_section(s) \in Seq(Line)
<1> DEFINE a == cfg_write_comment(s.comment)
           b == IF s.name = "" THEN <<>> ELSE <<Header(s.name)>>
           ks == [i \in DOMAIN s.keys |-> cfg_write_key(s.keys[i])]
<1>1. s.name \in Section /\ s.comment \in Note /\ s.keys \in Seq(KeyRec) BY DEF SecRec, KeyList
<1>2. a \in Seq(Line) BY <1>1, WriteNoteGood, QuietLines
<1>3. b \in Seq(Line)
  <2>1. Header(s.name) \in Line BY <1>1 DEF Header, Line
  <2>2. <<Header(s.name)>> \in Seq(Line) BY <2>1
  <2>3. <<>> \in Seq(Line) OBVIOUS
  <2>4. QED BY <2>2, <2>3
<1>4. ks \in Seq(Seq(Line))
  <2>1. DOMAIN s.keys = 1..Len(s.keys) /\ Len(s.keys) \in Nat /\ \A i \in DOMAIN s.keys : s.keys[i] \in KeyRec
    BY <1>1
  <2>2. \A i \in DOMAIN s.keys : cfg_write_key(s.keys[i]) \in Seq(Line) BY <2>1, WriteKeyGood
  <2>3. QED BY <2>1, <2>2
<1>5. cfg_write_section(s) = a \o b \o FlattenSeq(ks) BY DEF cfg_write_section
<1> HIDE DEF a, b, ks
<1>6. FlattenSeq(ks) \in Seq(Line) BY <1>4, FlattenGood
<1>7. QED BY <1>2, <1>3, <1>5, <1>6

LEMMA WriteGood == ASSUME NEW c \in Handle PROVE cfg_write(c) \in Seq(Line)
<1> DEFINE a == IF c.comment = NULL THEN <<>> ELSE Append(cfg_write_comment(c.comment), EmptyLine)
           ss == [i \in DOMAIN c.sections |-> Append(cfg_write_section(c.sections[i]), EmptyLine)]
<1>1. c.comment \in Note /\ c.sections \in Seq(SecRec) BY DEF Handle, SecList
<1>2. EmptyLine \in Line BY DEF Line
<1>3. a \in Seq(Line)
  <2>1. cfg_write_comment(c.comment) \in Seq(Line) BY <1>1, WriteNoteGood, QuietLines
  <2>2. Append(cfg_write_comment(c.comment), EmptyLine) \in Seq(Line) BY <1>2, <2>1, AppendProperties
  <2>3. QED BY <2>2
<1>4. ss \in Seq(Seq(Line))
  <2>1. /\ DOMAIN c.sections = 1..Len(c.sections) /\ Len(c.sections) \in Nat
        /\ \A i \in DOMAIN c.sections : c.sections[i] \in SecRec
    BY <1>1
  <2>2. ASSUME NEW i \in DOMAIN c.sections
        PROVE  Append(cfg_write_section(c.sections[i]), EmptyLine) \in Seq(Line)
    <3>1. cfg_write_section(c.sections[i]) \in Seq(Line) BY <2>1, <2>2, WriteSectionGood
    <3>2. QED BY <1>2, <3>1, AppendProperties
  <2>3. QED BY <2>1, <2>2
<1>5. cfg_write(c) = a \o FlattenSeq(ss) BY DEF cfg_write
<1> HIDE DEF a, ss
<1>6. FlattenSeq(ss) \in Seq(Line) BY <1>4, FlattenGood
<1>7. QED BY <1>3, <1>5, <1>6

-----------------------------------------------------------------------------
(* Reading piece by piece.                                                 *)

LEMMA ReaderTrace ==
  ASSUME NEW r \in Reader, NEW lines \in Seq(Line)
  PROVE  \E rho \in [0..Len(lines) -> Reader] : Traces(rho, r, lines)
<1>1. \A q \in Reader, l \in Line : ReadLine(q, l) \in Reader BY ReadLineGood
<1>2. QED BY <1>1, ReadTrace

LEMMA ReadStays == ASSUME NEW r \in Reader, NEW lines \in Seq(Line) PROVE Read(r, lines) \in Reader
<1>1. PICK rho \in [0..Len(lines) -> Reader] : Traces(rho, r, lines) BY ReaderTrace
<1>2. Len(lines) \in 0..Len(lines) OBVIOUS
<1>3. QED BY <1>1, <1>2 DEF Traces

LEMMA ReadConcat ==
  ASSUME NEW r \in Reader, NEW s \in Seq(Line), NEW t \in Seq(Line)
  PROVE  Read(r, s \o t) = Read(Read(r, s), t)
<1> DEFINE M == Len(s)
           N == Len(t)
           st == s \o t
           q == Read(r, s)
<1>1. M \in Nat /\ N \in Nat OBVIOUS
<1>2. /\ st \in Seq(Line) /\ Len(st) = M + N
      /\ \A n \in 1..M : st[n] = s[n]
      /\ \A n \in 1..N : st[M + n] = t[n]
  OBVIOUS
<1>3. q \in Reader BY ReadStays
<1> HIDE DEF st, q
<1>4. PICK sigma \in [0..M -> Reader] : Traces(sigma, r, s) BY ReaderTrace
<1>5. PICK tau \in [0..N -> Reader] : Traces(tau, q, t) BY <1>3, ReaderTrace
<1>6. PICK rho \in [0..Len(st) -> Reader] : Traces(rho, r, st) BY <1>2, ReaderTrace
<1>7. /\ sigma[0] = r /\ q = sigma[M] /\ \A n \in 1..M : sigma[n] = ReadLine(sigma[n - 1], s[n])
      /\ tau[0] = q /\ Read(q, t) = tau[N] /\ \A n \in 1..N : tau[n] = ReadLine(tau[n - 1], t[n])
  BY <1>4, <1>5 DEF Traces, q
<1>8. /\ rho[0] = r /\ Read(r, st) = rho[M + N]
      /\ \A n \in 1..(M + N) : rho[n] = ReadLine(rho[n - 1], st[n])
  BY <1>2, <1>6 DEF Traces
<1> HIDE DEF M, N
<1> DEFINE T == {n \in 0..M : rho[n] = sigma[n]}
<1>9. M \in T
  <2>1. 0 \in T BY <1>1, <1>7, <1>8
  <2>2. ASSUME NEW n \in 1..M, n - 1 \in T PROVE n \in T
    <3>1. n \in 1..(M + N) /\ n \in 0..M
      <4> HIDE DEF T
      <4>1. n \in 1..M BY <2>2
      <4>2. QED BY <1>1, <4>1
    <3>2. QED BY <1>2, <1>7, <1>8, <2>2, <3>1
  <2> HIDE DEF T
  <2>3. \A n \in 0..M : n \in T BY <1>1, <2>1, <2>2, Climb
  <2>4. QED BY <1>1, <2>3
<1> DEFINE U == {n \in 0..N : rho[M + n] = tau[n]}
<1>10. N \in U
  <2>1. 0 \in U BY <1>1, <1>7, <1>9
  <2>2. ASSUME NEW n \in 1..N, n - 1 \in U PROVE n \in U
    <3>1. M + n \in 1..(M + N) /\ n \in 0..N /\ (M + n) - 1 = M + (n - 1) BY <1>1, <2>2
    <3>2. rho[M + n] = ReadLine(rho[M + (n - 1)], t[n]) BY <1>2, <1>8, <2>2, <3>1
    <3>3. QED BY <1>7, <2>2, <3>1, <3>2
  <2> HIDE DEF U
  <2>3. \A n \in 0..N : n \in U BY <1>1, <2>1, <2>2, Climb
  <2>4. QED BY <1>1, <2>3
<1>11. QED BY <1>7, <1>8, <1>10 DEF st, q

LEMMA ReadOne == ASSUME NEW r \in Reader, NEW l \in Line PROVE Read(r, <<l>>) = ReadLine(r, l)
<1> DEFINE s == <<l>>
<1>1. s \in Seq(Line) /\ Len(s) = 1 /\ s[1] = l OBVIOUS
<1> HIDE DEF s
<1>2. PICK rho \in [0..Len(s) -> Reader] : Traces(rho, r, s) BY <1>1, ReaderTrace
<1>3. QED BY <1>1, <1>2 DEF Traces, s

LEMMA ReadAppend ==
  ASSUME NEW r \in Reader, NEW s \in Seq(Line), NEW l \in Line
  PROVE  Read(r, Append(s, l)) = ReadLine(Read(r, s), l)
<1>1. Append(s, l) = s \o <<l>> /\ <<l>> \in Seq(Line) OBVIOUS
<1>2. Read(r, s \o <<l>>) = Read(Read(r, s), <<l>>) BY <1>1, ReadConcat
<1>3. Read(r, s) \in Reader BY ReadStays
<1>4. QED BY <1>1, <1>2, <1>3, ReadOne

\* rho[n] is the reader after n pieces.
ReadsPieces(rho, r, ss) ==
  /\ rho[0] = r /\ Read(r, FlattenSeq(ss)) = rho[Len(ss)]
  /\ \A n \in 1..Len(ss) : rho[n] = Read(rho[n - 1], ss[n])

LEMMA ReadFlatten ==
  ASSUME NEW r \in Reader, NEW ss \in Seq(Seq(Line))
  PROVE  \E rho \in [0..Len(ss) -> Reader] : ReadsPieces(rho, r, ss)
<1> DEFINE N == Len(ss)
<1>1. PICK phi \in [0..N -> Seq(Line)] : Joins(phi, ss) BY FlattenTrace
<1> DEFINE rho == [n \in 0..N |-> Read(r, phi[n])]
<1>2. rho \in [0..N -> Reader] BY <1>1, ReadStays
<1>3. N \in Nat /\ \A n \in 1..N : ss[n] \in Seq(Line) OBVIOUS
<1>4. rho[0] = r
  <2>1. Read(r, <<>>) = r BY ReadNone
  <2>2. QED BY <1>1, <1>3, <2>1 DEF Joins
<1>5. Read(r, FlattenSeq(ss)) = rho[N] BY <1>1, <1>3 DEF Joins
<1>6. ASSUME NEW n \in 1..N PROVE rho[n] = Read(rho[n - 1], ss[n])
  <2>1. n \in 0..N /\ n - 1 \in 0..N BY <1>3, <1>6
  <2>2. phi[n] = phi[n - 1] \o ss[n] BY <1>1, <1>6 DEF Joins
  <2>3. phi[n - 1] \in Seq(Line) /\ ss[n] \in Seq(Line) BY <1>1, <1>3, <1>6, <2>1
  <2>4. Read(r, phi[n - 1] \o ss[n]) = Read(Read(r, phi[n - 1]), ss[n]) BY <2>3, ReadConcat
  <2>5. QED BY <2>1, <2>2, <2>4
<1> HIDE DEF rho
<1>7. QED BY <1>2, <1>4, <1>5, <1>6 DEF ReadsPieces

\* Lines of comments change neither the sections read nor the open one.
LEMMA ReadQuiet ==
  ASSUME NEW r \in Reader, NEW lines \in Seq(Quiet)
  PROVE  /\ Read(r, lines) \in Reader
         /\ Read(r, lines).sections = r.sections /\ Read(r, lines).open = r.open
<1> DEFINE Like == {q \in Reader : q.sections = r.sections /\ q.open = r.open}
<1>1. r \in Like OBVIOUS
<1>2. ASSUME NEW q \in Like, NEW l \in Quiet PROVE ReadLine(q, l) \in Like
  <2>1. l \in Line /\ q \in Reader BY QuietLines
  <2>2. ReadLine(q, l) \in Reader BY <2>1, ReadLineGood
  <2>3. l.type = "comment" \/ l.type = "empty"
    <3>1. CASE l \in [type : {"comment"}, text : Text \ {""}] BY <3>1
    <3>2. CASE l = EmptyLine BY <3>2 DEF EmptyLine
    <3>3. QED BY <3>1, <3>2 DEF Quiet
  <2>4. \E a : ReadLine(q, l) = [q EXCEPT !.above = a] BY <2>3 DEF ReadLine
  <2>5. \A a : [q EXCEPT !.above = a].sections = q.sections /\ [q EXCEPT !.above = a].open = q.open
    BY <2>1 DEF Reader
  <2>6. QED BY <2>2, <2>4, <2>5
<1> HIDE DEF Like
<1>3. Read(r, lines) \in Like BY <1>1, <1>2, ReadKeeps DEF Read
<1>4. QED BY <1>3 DEF Like

-----------------------------------------------------------------------------
(* What a list of keys or sections says, wherever and however often it says *)
(* it: a missing value reads as an empty one.                               *)

Shown(v) == IF v = NULL THEN "" ELSE v

Pairs(ks, m) == {<<ks[i].name, Shown(ks[i].value)>> : i \in 1..m}
Content(ks)  == Pairs(ks, Len(ks))

Said(s)         == {s.name} \X Content(s.keys)
Settings(ss, m) == UNION {Said(ss[i]) : i \in 1..m}
All(ss)         == Settings(ss, Len(ss))

LEMMA ShownGood == ASSUME NEW v \in Value \cup {NULL} PROVE Shown(v) \in Value /\ Shown(Shown(v)) = Shown(v)
BY ConfigAssumption DEF Shown

LEMMA PairsGood == ASSUME NEW ks \in Seq(KeyRec) PROVE Content(ks) \in SUBSET (Key \X Value)
<1>1. ASSUME NEW i \in 1..Len(ks) PROVE <<ks[i].name, Shown(ks[i].value)>> \in Key \X Value
  <2>1. ks[i] \in KeyRec BY <1>1
  <2>2. ks[i].name \in Key /\ ks[i].value \in Value \cup {NULL} BY <2>1 DEF KeyRec
  <2>3. QED BY <2>2, ShownGood
<1>2. QED BY <1>1 DEF Content, Pairs

LEMMA NoPairs == ASSUME NEW ks PROVE Pairs(ks, 0) = {}
<1>1. 1..0 = {} OBVIOUS
<1>2. QED BY <1>1 DEF Pairs

LEMMA PairsGrow ==
  ASSUME NEW ks \in Seq(KeyRec), NEW m \in 1..Len(ks)
  PROVE  Pairs(ks, m) = Pairs(ks, m - 1) \cup {<<ks[m].name, Shown(ks[m].value)>>}
<1>1. 1..m = 1..(m - 1) \cup {m} OBVIOUS
<1>2. QED BY <1>1 DEF Pairs

LEMMA PairsAppend ==
  ASSUME NEW ks \in Seq(KeyRec), NEW k \in KeyRec
  PROVE  Content(Append(ks, k)) = Content(ks) \cup {<<k.name, Shown(k.value)>>}
<1> DEFINE d == Append(ks, k)
           N == Len(ks)
<1>1. /\ d \in Seq(KeyRec) /\ Len(d) = N + 1 /\ N \in Nat /\ d[N + 1] = k
      /\ \A i \in 1..N : d[i] = ks[i]
  OBVIOUS
<1> HIDE DEF d, N
<1>2. N + 1 \in 1..Len(d) /\ (N + 1) - 1 = N BY <1>1
<1>3. Pairs(d, N + 1) = Pairs(d, N) \cup {<<k.name, Shown(k.value)>>} BY <1>1, <1>2, PairsGrow
<1>4. Pairs(d, N) = Pairs(ks, N) BY <1>1 DEF Pairs
<1>5. QED BY <1>1, <1>3, <1>4 DEF Content, d, N

LEMMA NullIsNoSection == NULL \notin SecRec /\ NULL \notin SecList
<1>1. SecRec \subseteq SectionRec BY DEF SecRec, KeyList, SectionRec
<1>2. SecList \subseteq Seq(SectionRec) BY <1>1 DEF SecList
<1>3. QED BY <1>1, <1>2, ConfigAssumption

\* A key that is not there yet, and setting it.
Holding(r, S, n, P) ==
  /\ r \in Reader /\ r.open \in SecRec
  /\ r.sections = S /\ r.open.name = n /\ Content(r.open.keys) = P

LEMMA FreshKey ==
  ASSUME NEW S, NEW n, NEW P, NEW r, Holding(r, S, n, P), NEW k, \A p \in P : Lower[p[1]] # Lower[k]
  PROVE  r.open # NULL /\ Index(r.open.keys, k) = 0
<1> DEFINE ks == r.open.keys
<1>1. r.open \in SecRec /\ Content(ks) = P BY DEF Holding
<1>2. ks \in Seq(KeyRec) BY <1>1 DEF SecRec, KeyList
<1>3. ASSUME NEW j \in DOMAIN ks PROVE Lower[ks[j].name] # Lower[k]
  <2>1. <<ks[j].name, Shown(ks[j].value)>> \in Content(ks) BY <1>2, <1>3 DEF Content, Pairs
  <2>2. QED BY <1>1, <2>1
<1> HIDE DEF ks
<1>4. Index(ks, k) # 0 => Index(ks, k) \in DOMAIN ks /\ Lower[ks[Index(ks, k)].name] = Lower[k]
  BY <1>2, IndexFacts
<1>5. Index(ks, k) = 0 BY <1>3, <1>4
<1>6. QED BY <1>1, <1>5, NullIsNoSection DEF ks

LEMMA ReadSetting ==
  ASSUME NEW S, NEW n, NEW P, NEW r, Holding(r, S, n, P), NEW k \in KeyRec,
         \A p \in P : Lower[p[1]] # Lower[k.name]
  PROVE  Holding(ReadLine(r, Setting(k.name, Shown(k.value))), S, n,
                 P \cup {<<k.name, Shown(k.value)>>})
<1> DEFINE l == Setting(k.name, Shown(k.value))
           x == [name |-> k.name, value |-> Shown(k.value), comment |-> r.above]
           ks == r.open.keys
           q == ReadLine(r, l)
<1>1. /\ r \in Reader /\ r.open \in SecRec /\ r.sections = S /\ r.open.name = n
      /\ Content(ks) = P
  BY DEF Holding
<1>2. k.name \in Key /\ Shown(k.value) \in Value BY ShownGood DEF KeyRec
<1>3. r.above \in Note /\ r.open # NULL
  <2>1. NULL \notin SectionRec BY ConfigAssumption
  <2>2. SecRec \subseteq SectionRec BY DEF SecRec, KeyList, SectionRec
  <2>3. QED BY <1>1, <2>1, <2>2 DEF Reader
<1>4. x \in KeyRec BY <1>2, <1>3 DEF KeyRec
<1>5. ks \in Seq(KeyRec) BY <1>1 DEF SecRec, KeyList
<1>6. Index(ks, k.name) = 0 BY FreshKey
<1>7. q = cfg_read_key(r, l) BY <1>3 DEF ReadLine, Setting
<1>8. q.sections = S /\ q.open.name = n /\ q.open.keys = Append(ks, x)
  <2>1. r = [comment |-> r.comment, sections |-> r.sections, open |-> r.open, above |-> r.above]
    BY <1>1 DEF Reader
  <2>2. r.open = [name |-> r.open.name, comment |-> r.open.comment, keys |-> r.open.keys]
    BY <1>1 DEF SecRec
  <2>3. MergeKey(ks, x) = Append(ks, x) BY <1>6 DEF MergeKey
  <2>4. l.text = k.name /\ l.value = Shown(k.value) BY DEF Setting
  <2>5. q = [[r EXCEPT !.above = NULL] EXCEPT !.open = [r.open EXCEPT !.keys = Append(ks, x)]]
    BY <1>7, <2>1, <2>2, <2>3, <2>4 DEF cfg_read_key
  <2> HIDE DEF q, x, l
  <2>6. q.open = [r.open EXCEPT !.keys = Append(ks, x)] /\ q.sections = r.sections BY <2>1, <2>5
  <2>7. QED BY <1>1, <2>2, <2>6
<1>9. l \in [type : {"key"}, text : Key, value : Value] BY <1>2 DEF Setting
<1>10. q \in Reader /\ q.open \in SecRec
  <2> HIDE DEF q, l
  <2> QED BY <1>1, <1>7, <1>9, ReadKeyGood
<1>11. Content(Append(ks, x)) = P \cup {<<k.name, Shown(k.value)>>}
  <2>1. x.name = k.name /\ Shown(x.value) = Shown(k.value) BY ShownGood DEF KeyRec
  <2> HIDE DEF x
  <2>2. QED BY <1>1, <1>4, <1>5, <2>1, PairsAppend
<1>12. QED BY <1>8, <1>10, <1>11 DEF Holding

\* The sections with the open one put among them.
Merged(r) == IF r.open = NULL THEN r.sections ELSE MergeSection(r.sections, r.open)

LEMMA BeginOpens ==
  ASSUME NEW r \in Reader, NEW n \in Section PROVE Holding(Begin(r, n), Merged(r), n, {})
<1>1. Begin(r, n) \in Reader /\ Begin(r, n).open \in SecRec BY BeginGood
<1>2. Begin(r, n).sections = Merged(r) /\ \E c : Begin(r, n).open = NoKeys(n, c)
  BY DEF Begin, Merged, Reader
<1>3. \A c : NoKeys(n, c).name = n /\ NoKeys(n, c).keys = <<>> BY DEF NoKeys
<1>4. Content(<<>>) = {} BY DEF Content, Pairs
<1>5. QED BY <1>1, <1>2, <1>3, <1>4 DEF Holding

LEMMA ReadKeyLines ==
  ASSUME NEW S, NEW n, NEW P, NEW r, Holding(r, S, n, P), NEW k \in KeyRec,
         \A p \in P : Lower[p[1]] # Lower[k.name]
  PROVE  Holding(Read(r, cfg_write_key(k)), S, n, P \cup {<<k.name, Shown(k.value)>>})
<1> DEFINE c == cfg_write_comment(k.comment)
           l == Setting(k.name, Shown(k.value))
           q == Read(r, c)
<1>1. c \in Seq(Quiet) /\ c \in Seq(Line) BY WriteNoteGood, QuietLines DEF KeyRec
<1>2. l \in Line
  <2>1. k.name \in Key /\ Shown(k.value) \in Value BY ShownGood DEF KeyRec
  <2>2. QED BY <2>1 DEF Setting, Line
<1>3. cfg_write_key(k) = Append(c, l) BY DEF cfg_write_key, Shown
<1>4. r \in Reader BY DEF Holding
<1> HIDE DEF c, l
<1>5. Holding(q, S, n, P) BY <1>1, <1>4, ReadQuiet DEF Holding
<1>6. Read(r, Append(c, l)) = ReadLine(q, l) BY <1>1, <1>2, <1>4, ReadAppend
<1> HIDE DEF q
<1>7. Holding(ReadLine(q, l), S, n, P \cup {<<k.name, Shown(k.value)>>})
  BY <1>5, ReadSetting DEF l
<1>8. QED BY <1>3, <1>6, <1>7

\* A key before any header begins the default section.
LEMMA ReadFirstKeyLines ==
  ASSUME NEW r \in Reader, r.open = NULL, NEW k \in KeyRec
  PROVE  Holding(Read(r, cfg_write_key(k)), r.sections, "", {<<k.name, Shown(k.value)>>})
<1> DEFINE c == cfg_write_comment(k.comment)
           l == Setting(k.name, Shown(k.value))
           q == Read(r, c)
           b == Begin(q, "")
<1>1. c \in Seq(Quiet) /\ c \in Seq(Line) BY WriteNoteGood, QuietLines DEF KeyRec
<1>2. l \in Line
  <2>1. k.name \in Key /\ Shown(k.value) \in Value BY ShownGood DEF KeyRec
  <2>2. QED BY <2>1 DEF Setting, Line
<1>3. cfg_write_key(k) = Append(c, l) BY DEF cfg_write_key, Shown
<1>4. l.type = "key" BY DEF Setting
<1> HIDE DEF c, l
<1>5. q \in Reader /\ q.open = NULL /\ q.sections = r.sections BY <1>1, ReadQuiet
<1>6. Read(r, Append(c, l)) = ReadLine(q, l) BY <1>1, <1>2, ReadAppend
<1> HIDE DEF q
<1>7. Holding(b, r.sections, "", {})
  <2>1. "" \in Section BY ConfigAssumption
  <2>2. QED BY <1>5, <2>1, BeginOpens DEF Merged
<1>8. ReadLine(q, l) = ReadLine(b, l)
  <2>1. b.open # NULL BY <1>7, NullIsNoSection DEF Holding
  <2>2. ReadLine(q, l) = cfg_read_key(b, l) BY <1>4, <1>5 DEF ReadLine
  <2> HIDE DEF b
  <2>3. ReadLine(b, l) = cfg_read_key(b, l) BY <1>4, <2>1 DEF ReadLine
  <2>4. QED BY <2>2, <2>3
<1> HIDE DEF b
<1>9. Holding(ReadLine(b, l), r.sections, "", {} \cup {<<k.name, Shown(k.value)>>})
  BY <1>7, ReadSetting DEF l
<1>10. QED BY <1>3, <1>6, <1>8, <1>9

\* All keys of a section: either one is open, or none has been read.
Reading(q, S, n, P, none) ==
  \/ Holding(q, S, n, P)
  \/ q \in Reader /\ q.open = NULL /\ q.sections = S /\ n = "" /\ none

KeyLines(ks) == [i \in DOMAIN ks |-> cfg_write_key(ks[i])]

LEMMA KeyLinesGood == ASSUME NEW ks \in Seq(KeyRec) PROVE KeyLines(ks) \in Seq(Seq(Line))
<1>1. DOMAIN ks = 1..Len(ks) /\ Len(ks) \in Nat /\ \A i \in DOMAIN ks : ks[i] \in KeyRec OBVIOUS
<1>2. \A i \in DOMAIN ks : cfg_write_key(ks[i]) \in Seq(Line) BY <1>1, WriteKeyGood
<1>3. QED BY <1>1, <1>2 DEF KeyLines

\* The keys before the one at m have other names.
LEMMA EarlierKeys ==
  ASSUME NEW ks \in KeyList, NEW m \in 1..Len(ks), NEW x \in Pairs(ks, m - 1)
  PROVE  Lower[x[1]] # Lower[ks[m].name]
<1>1. Distinct(ks) /\ DOMAIN ks = 1..Len(ks) /\ Len(ks) \in Nat BY DEF KeyList
<1>2. PICK i \in 1..(m - 1) : x = <<ks[i].name, Shown(ks[i].value)>> BY DEF Pairs
<1>3. i \in 1..Len(ks) /\ i # m /\ m \in 1..Len(ks) BY <1>1
<1>4. QED BY <1>1, <1>2, <1>3 DEF Distinct

LEMMA KeysRead ==
  ASSUME NEW r, NEW S, NEW n, NEW ks \in KeyList, Reading(r, S, n, {}, TRUE),
         NEW rho, ReadsPieces(rho, r, KeyLines(ks))
  PROVE  /\ Len(KeyLines(ks)) = Len(ks) /\ \A i \in 1..Len(ks) : KeyLines(ks)[i] = cfg_write_key(ks[i])
         /\ \A m \in 0..Len(ks) : Reading(rho[m], S, n, Pairs(ks, m), m = 0)
<1> DEFINE N == Len(ks)
           ss == KeyLines(ks)
<1>1. ks \in Seq(KeyRec) /\ Distinct(ks) /\ N \in Nat /\ DOMAIN ks = 1..N BY DEF KeyList
<1>2. ss \in Seq(Seq(Line)) /\ Len(ss) = N /\ \A i \in 1..N : ss[i] = cfg_write_key(ks[i])
  <2>1. ss \in Seq(Seq(Line)) BY <1>1, KeyLinesGood
  <2>2. DOMAIN ss = 1..N /\ \A i \in 1..N : ss[i] = cfg_write_key(ks[i]) BY <1>1 DEF KeyLines
  <2> HIDE DEF ss, N
  <2>3. Len(ss) = N BY <1>1, <2>1, <2>2
  <2>4. QED BY <2>1, <2>2, <2>3
<1>5. rho[0] = r /\ \A i \in 1..N : rho[i] = Read(rho[i - 1], cfg_write_key(ks[i]))
  <2> HIDE DEF ss
  <2> QED BY <1>2 DEF ReadsPieces, ss
<1> HIDE DEF ss, N
<1> DEFINE T == {m \in 0..N : Reading(rho[m], S, n, Pairs(ks, m), m = 0)}
<1>6. 0 \in T
  <2>1. Reading(rho[0], S, n, {}, TRUE) BY <1>5
  <2>2. Pairs(ks, 0) = {} /\ (0 = 0) = TRUE BY NoPairs
  <2>3. Reading(rho[0], S, n, Pairs(ks, 0), 0 = 0) BY <2>1, <2>2
  <2>4. QED BY <1>1, <2>3
<1>7. ASSUME NEW m \in 1..N, m - 1 \in T PROVE m \in T
  <2> DEFINE q == rho[m - 1]
             p == <<ks[m].name, Shown(ks[m].value)>>
  <2>1. ks[m] \in KeyRec BY <1>1, <1>7
  <2>2. Pairs(ks, m) = Pairs(ks, m - 1) \cup {p} BY <1>1, <1>7, PairsGrow DEF N
  <2>3. rho[m] = Read(q, cfg_write_key(ks[m])) BY <1>5, <1>7
  <2>4. m # 0 /\ m \in 0..N BY <1>1, <1>7
  <2> HIDE DEF q
  <2>5. Holding(rho[m], S, n, Pairs(ks, m))
    <3>1. Reading(q, S, n, Pairs(ks, m - 1), m - 1 = 0) BY <1>7 DEF q
    <3>2. CASE Holding(q, S, n, Pairs(ks, m - 1))
      <4>1. \A x \in Pairs(ks, m - 1) : Lower[x[1]] # Lower[ks[m].name] BY <1>1, <1>7, EarlierKeys DEF N
      <4>2. QED BY <2>1, <2>2, <2>3, <3>2, <4>1, ReadKeyLines
    <3>3. CASE q \in Reader /\ q.open = NULL /\ q.sections = S /\ n = "" /\ m - 1 = 0
      <4>1. Pairs(ks, m - 1) = {} BY <3>3, NoPairs
      <4>2. Holding(rho[m], S, n, {p}) BY <2>1, <2>3, <3>3, ReadFirstKeyLines
      <4>3. QED BY <2>2, <4>1, <4>2
    <3>4. QED BY <3>1, <3>2, <3>3 DEF Reading
  <2>6. QED BY <2>4, <2>5 DEF Reading
<1>8. \A m \in 0..N : m \in T
  <2> HIDE DEF T
  <2>1. QED BY <1>1, <1>6, <1>7, Climb
<1>9. \A m \in 0..N : Reading(rho[m], S, n, Pairs(ks, m), m = 0) BY <1>8
<1>10. QED BY <1>2, <1>9 DEF N, ss

LEMMA ReadKeys ==
  ASSUME NEW r, NEW S, NEW n, NEW ks \in KeyList, Reading(r, S, n, {}, TRUE)
  PROVE  Reading(Read(r, FlattenSeq(KeyLines(ks))), S, n, Content(ks), ks = <<>>)
<1> DEFINE N == Len(ks)
           ss == KeyLines(ks)
<1>1. ks \in Seq(KeyRec) /\ N \in Nat BY DEF KeyList
<1>2. ss \in Seq(Seq(Line)) BY <1>1, KeyLinesGood
<1>3. r \in Reader BY DEF Reading, Holding
<1> HIDE DEF ss
<1>4. PICK rho \in [0..Len(ss) -> Reader] : ReadsPieces(rho, r, ss) BY <1>2, <1>3, ReadFlatten
<1>5. Len(ss) = N /\ \A m \in 0..N : Reading(rho[m], S, n, Pairs(ks, m), m = 0)
  BY <1>4, KeysRead DEF ss
<1>6. Read(r, FlattenSeq(ss)) = rho[N] BY <1>4, <1>5 DEF ReadsPieces
<1>7. N \in 0..N /\ (N = 0 => ks = <<>>) BY <1>1
<1> HIDE DEF N
<1>8. Reading(rho[N], S, n, Pairs(ks, N), N = 0) BY <1>5, <1>7
<1>9. Reading(rho[N], S, n, Content(ks), ks = <<>>) BY <1>7, <1>8 DEF Reading, Content, N
<1>10. QED BY <1>6, <1>9 DEF ss

\* A section after those read so far.
LEMMA ReadSection ==
  ASSUME NEW r \in Reader, NEW s \in SecRec, s.name = "" => r.open = NULL
  PROVE  Reading(Read(r, Append(cfg_write_section(s), EmptyLine)),
                 Merged(r), s.name, Content(s.keys), s.keys = <<>>)
<1> DEFINE a == cfg_write_comment(s.comment)
           b == IF s.name = "" THEN <<>> ELSE <<Header(s.name)>>
           f == FlattenSeq(KeyLines(s.keys))
           S == Merged(r)
           q1 == Read(r, a)
           q2 == Read(q1, b)
           q3 == Read(q2, f)
           q4 == ReadLine(q3, EmptyLine)
<1>1. s.name \in Section /\ s.comment \in Note /\ s.keys \in KeyList /\ s.keys \in Seq(KeyRec)
  BY DEF SecRec, KeyList
<1>2. a \in Seq(Quiet) /\ a \in Seq(Line) BY <1>1, WriteNoteGood, QuietLines
<1>3. Header(s.name) \in Line BY <1>1 DEF Header, Line
<1>4. b \in Seq(Line)
  <2>1. <<Header(s.name)>> \in Seq(Line) BY <1>3, Single
  <2>2. <<>> \in Seq(Line) BY EmptySeq
  <2>3. QED BY <2>1, <2>2
<1>5. f \in Seq(Line) BY <1>1, KeyLinesGood, FlattenGood
<1>6. cfg_write_section(s) = (a \o b) \o f BY DEF cfg_write_section, KeyLines
<1>7. EmptyLine \in Line /\ <<EmptyLine>> \in Seq(Quiet)
  <2>1. EmptyLine \in Quiet BY DEF Quiet
  <2>2. <<EmptyLine>> \in Seq(Quiet) BY <2>1, Single
  <2>3. QED BY <2>1, <2>2, QuietLines
<1>8. q1 \in Reader /\ q1.sections = r.sections /\ q1.open = r.open
  <2> HIDE DEF a
  <2> QED BY <1>2, ReadQuiet
<1>9. Merged(q1) = S BY <1>8 DEF Merged
<1>10. q2 \in Reader /\ Reading(q2, S, s.name, {}, TRUE)
  <2> HIDE DEF q1
  <2>1. CASE s.name = ""
    <3>1. q2 = q1 BY <2>1, ReadNone
    <3>2. QED BY <1>8, <2>1, <3>1 DEF Reading, Merged
  <2>2. CASE s.name # ""
    <3>1. q2 = ReadLine(q1, Header(s.name)) BY <1>3, <1>8, <2>2, ReadOne
    <3>2. q2 = Begin(q1, s.name) BY <3>1 DEF ReadLine, Header
    <3> HIDE DEF q2, S
    <3>3. Holding(q2, S, s.name, {}) BY <1>1, <1>8, <1>9, <3>2, BeginOpens
    <3>4. QED BY <3>3 DEF Reading, Holding
  <2>3. QED BY <2>1, <2>2
<1>11. q3 \in Reader /\ Reading(q3, S, s.name, Content(s.keys), s.keys = <<>>)
  <2> HIDE DEF q2, S
  <2>1. Reading(q3, S, s.name, Content(s.keys), s.keys = <<>>) BY <1>1, <1>10, ReadKeys
  <2>2. QED BY <2>1 DEF Reading, Holding
<1>12. Read(r, Append(cfg_write_section(s), EmptyLine)) = q4
  <2> HIDE DEF a, b, f
  <2>1. a \o b \in Seq(Line) /\ (a \o b) \o f \in Seq(Line) BY <1>2, <1>4, <1>5, ConcatProperties
  <2>2. Read(r, a \o b) = q2 BY <1>2, <1>4, ReadConcat
  <2>3. Read(r, (a \o b) \o f) = q3
    <3> DEFINE ab == a \o b
    <3>1. ab \in Seq(Line) /\ Read(r, ab) = q2 BY <2>1, <2>2
    <3> HIDE DEF ab
    <3>2. Read(r, ab \o f) = Read(Read(r, ab), f) BY <1>5, <3>1, ReadConcat
    <3>3. QED BY <3>1, <3>2 DEF ab
  <2>4. QED BY <1>6, <1>7, <2>1, <2>3, ReadAppend
<1>13. q4 \in Reader /\ q4.sections = q3.sections /\ q4.open = q3.open
  <2> HIDE DEF q3
  <2>1. q4 = Read(q3, <<EmptyLine>>) BY <1>7, <1>11, ReadOne
  <2>2. QED BY <1>7, <1>11, <2>1, ReadQuiet
<1> HIDE DEF q3, q4
<1>14. QED BY <1>11, <1>12, <1>13 DEF Reading, Holding

LEMMA NoSettings == ASSUME NEW ss PROVE Settings(ss, 0) = {}
<1>1. 1..0 = {} OBVIOUS
<1>2. QED BY <1>1 DEF Settings

LEMMA SettingsGrow ==
  ASSUME NEW ss \in SecList, NEW m \in 1..Len(ss)
  PROVE  Settings(ss, m) = Settings(ss, m - 1) \cup Said(ss[m])
<1>1. 1..m = 1..(m - 1) \cup {m} BY DEF SecList
<1>2. QED BY <1>1 DEF Settings

LEMMA SettingsAdd ==
  ASSUME NEW ss \in SecList, NEW s \in SecRec
  PROVE  /\ All(cfg_add_section(ss, s)) = All(ss) \cup Said(s)
         /\ \A i \in DOMAIN cfg_add_section(ss, s) :
              \/ cfg_add_section(ss, s)[i] = s
              \/ \E j \in DOMAIN ss : cfg_add_section(ss, s)[i] = ss[j]
<1> DEFINE d == cfg_add_section(ss, s)
           N == Len(ss)
<1>1. ss \in Seq(SecRec) /\ N \in Nat /\ DOMAIN ss = 1..N BY DEF SecList
<1>2. \E at : /\ DOMAIN d = 1..(N + 1) /\ Len(d) = N + 1 /\ at \in 1..(N + 1) /\ d[at] = s
              /\ \A i \in 1..(N + 1) : i # at => \E j \in 1..N : d[i] = ss[j]
              /\ \A j \in 1..N : \E i \in 1..(N + 1) : d[i] = ss[j]
  <2>1. CASE s.name = ""
    <3> DEFINE e == <<s>> \o ss
    <3>1. d = e BY <2>1 DEF cfg_add_section
    <3>2. <<s>> \in Seq(SecRec) /\ Len(<<s>>) = 1 /\ <<s>>[1] = s OBVIOUS
    <3>3. /\ DOMAIN e = 1..(N + 1) /\ Len(e) = N + 1 /\ e[1] = s
          /\ \A i \in 2..(N + 1) : e[i] = ss[i - 1]
      BY <1>1, <3>2
    <3> HIDE DEF e, N, d
    <3>4. \A i \in 1..(N + 1) : i # 1 => i - 1 \in 1..N /\ e[i] = ss[i - 1] BY <1>1, <3>3
    <3>5. \A j \in 1..N : j + 1 \in 1..(N + 1) /\ e[j + 1] = ss[j]
      <4>1. \A j \in 1..N : j + 1 \in 2..(N + 1) /\ (j + 1) - 1 = j BY <1>1
      <4>2. QED BY <1>1, <3>3, <4>1
    <3>6. 1 \in 1..(N + 1) BY <1>1
    <3>7. QED BY <3>1, <3>3, <3>4, <3>5, <3>6
  <2>2. CASE s.name # ""
    <3> DEFINE e == Append(ss, s)
    <3>1. d = e BY <2>2 DEF cfg_add_section
    <3>2. /\ DOMAIN e = 1..(N + 1) /\ Len(e) = N + 1 /\ e[N + 1] = s
          /\ \A i \in 1..N : e[i] = ss[i]
      BY <1>1
    <3> HIDE DEF e, N, d
    <3>3. \A i \in 1..(N + 1) : i # N + 1 => i \in 1..N BY <1>1
    <3>4. \A j \in 1..N : j \in 1..(N + 1) BY <1>1
    <3>5. N + 1 \in 1..(N + 1) BY <1>1
    <3>6. QED BY <3>1, <3>2, <3>3, <3>4, <3>5
  <2>3. QED BY <2>1, <2>2
<1> HIDE DEF d, N
<1>3. All(d) = UNION {Said(d[i]) : i \in 1..(N + 1)} BY <1>2 DEF All, Settings
<1>4. All(ss) = UNION {Said(ss[j]) : j \in 1..N} BY DEF All, Settings, N
<1>5. All(d) = All(ss) \cup Said(s) BY <1>2, <1>3, <1>4
<1>6. QED BY <1>1, <1>2, <1>5 DEF d

\* What has been read of a handle when its first j sections have.
Loaded(q, ss, j) ==
  /\ q \in Reader /\ All(Merged(q)) = Settings(ss, j)
  /\ \A i \in DOMAIN Merged(q) : \E h \in 1..j : Merged(q)[i].name = ss[h].name
  /\ q.open = NULL => q.sections = <<>> /\ \A h \in 1..j : ss[h].name = "" /\ ss[h].keys = <<>>
  /\ j = 0 => q.open = NULL

LEMMA MergedGood == ASSUME NEW q \in Reader PROVE Merged(q) \in SecList
BY MergeSectionGood DEF Merged, Reader

LEMMA ReadNextSection ==
  ASSUME NEW ss \in SecList, NEW j \in 1..Len(ss), NEW q, Loaded(q, ss, j - 1)
  PROVE  Loaded(Read(q, Append(cfg_write_section(ss[j]), EmptyLine)), ss, j)
<1> DEFINE s == ss[j]
           S == Merged(q)
           p == Read(q, Append(cfg_write_section(s), EmptyLine))
<1>1. /\ ss \in Seq(SecRec) /\ Distinct(ss) /\ DefaultFirst(ss)
      /\ j \in Nat \ {0} /\ j \in DOMAIN ss /\ DOMAIN ss = 1..Len(ss) /\ Len(ss) \in Nat
  BY DEF SecList
<1>2. s \in SecRec BY <1>1
<1>3. /\ q \in Reader /\ All(S) = Settings(ss, j - 1)
      /\ \A i \in DOMAIN S : \E h \in 1..(j - 1) : S[i].name = ss[h].name
      /\ q.open = NULL => q.sections = <<>> /\ \A h \in 1..(j - 1) : ss[h].name = "" /\ ss[h].keys = <<>>
      /\ j - 1 = 0 => q.open = NULL
  BY DEF Loaded
<1>4. s.name = "" => j = 1 BY <1>1 DEF DefaultFirst
<1>5. s.name = "" => q.open = NULL
  <2>1. j = 1 => j - 1 = 0 OBVIOUS
  <2>2. QED BY <1>3, <1>4, <2>1
<1>6. S \in SecList BY <1>3, MergedGood
<1>7. Settings(ss, j) = Settings(ss, j - 1) \cup Said(s) BY SettingsGrow
<1>8. 1..j = 1..(j - 1) \cup {j} /\ j # 0 BY <1>1
<1> HIDE DEF s
<1>9. Reading(p, S, s.name, Content(s.keys), s.keys = <<>>) BY <1>2, <1>3, <1>5, ReadSection
<1>10. CASE Holding(p, S, s.name, Content(s.keys))
  <2> DEFINE o == p.open
             d == cfg_add_section(S, o)
  <2>1. p \in Reader /\ o \in SecRec /\ p.sections = S /\ o.name = s.name /\ Content(o.keys) = Content(s.keys)
    BY <1>10 DEF Holding
  <2>2. o # NULL BY <2>1, NullIsNoSection
  <2>3. Index(S, o.name) = 0
    <3>1. ASSUME NEW i \in DOMAIN S PROVE Lower[S[i].name] # Lower[s.name]
      <4>1. PICK h \in 1..(j - 1) : S[i].name = ss[h].name BY <1>3, <3>1
      <4>2. h \in 1..Len(ss) /\ h # j BY <1>1
      <4>3. QED BY <1>1, <4>1, <4>2 DEF Distinct, s
    <3>2. S \in Seq(SecRec) BY <1>6 DEF SecList
    <3> HIDE DEF S, o
    <3>3. QED BY <2>1, <3>1, <3>2, IndexFacts
  <2>4. Merged(p) = d BY <2>1, <2>2, <2>3 DEF Merged, MergeSection
  <2>5. /\ All(d) = All(S) \cup Said(o)
        /\ \A i \in DOMAIN d : d[i] = o \/ \E h \in DOMAIN S : d[i] = S[h]
    <3> HIDE DEF S, o
    <3> QED BY <1>6, <2>1, SettingsAdd
  <2>6. Said(o) = Said(s) BY <2>1 DEF Said
  <2> HIDE DEF p, S, d, o
  <2>7. All(Merged(p)) = Settings(ss, j) BY <1>3, <1>7, <2>4, <2>5, <2>6
  <2>8. ASSUME NEW i \in DOMAIN d PROVE \E h \in 1..j : d[i].name = ss[h].name
    <3>1. CASE d[i] = o BY <1>8, <2>1, <3>1 DEF s
    <3>2. CASE \E h \in DOMAIN S : d[i] = S[h] BY <1>3, <1>8, <3>2
    <3>3. QED BY <2>5, <2>8, <3>1, <3>2
  <2>9. QED BY <1>8, <2>1, <2>2, <2>4, <2>7, <2>8 DEF Loaded, o, p, s
<1>11. CASE p \in Reader /\ p.open = NULL /\ p.sections = S /\ s.name = "" /\ s.keys = <<>>
  <2>1. j = 1 /\ q.open = NULL /\ q.sections = <<>> BY <1>3, <1>4, <1>5, <1>11
  <2>2. S = <<>> BY <2>1 DEF Merged
  <2>3. Said(s) = {}
    <3>1. Content(<<>>) = {} BY NoPairs DEF Content
    <3>2. QED BY <1>11, <3>1 DEF Said
  <2>4. Merged(p) = <<>> BY <1>11, <2>2 DEF Merged
  <2>5. All(Merged(p)) = Settings(ss, j) BY <1>3, <1>7, <2>2, <2>3, <2>4
  <2>6. \A h \in 1..j : ss[h].name = "" /\ ss[h].keys = <<>>
    <3>1. \A h \in 1..j : h = j BY <2>1
    <3>2. QED BY <1>11, <3>1 DEF s
  <2>7. DOMAIN <<>> = {} OBVIOUS
  <2> HIDE DEF p, S
  <2>8. QED BY <1>8, <1>11, <2>2, <2>4, <2>5, <2>6, <2>7 DEF Loaded, p, s
<1>12. QED BY <1>9, <1>10, <1>11 DEF Reading, s

FirstReader == [comment |-> NULL, sections |-> <<>>, open |-> NULL, above |-> NULL]

-----------------------------------------------------------------------------
(* The lines that are not blank.                                           *)

Parts(lines) == [i \in DOMAIN lines |-> IF lines[i].type = "empty" THEN <<>> ELSE <<lines[i]>>]

LEMMA PartsGood ==
  ASSUME NEW lines \in Seq(Line) PROVE Parts(lines) \in Seq(Seq(Line)) /\ Len(Parts(lines)) = Len(lines)
<1>1. DOMAIN lines = 1..Len(lines) /\ Len(lines) \in Nat /\ \A i \in 1..Len(lines) : lines[i] \in Line
  OBVIOUS
<1>2. \A i \in 1..Len(lines) : (IF lines[i].type = "empty" THEN <<>> ELSE <<lines[i]>>) \in Seq(Line)
  BY <1>1, Single, EmptySeq
<1>3. QED BY <1>1, <1>2 DEF Parts

LEMMA SolidGood == ASSUME NEW lines \in Seq(Line) PROVE Solid(lines) \in Seq(Line)
<1>1. Solid(lines) = FlattenSeq(Parts(lines)) BY DEF Solid, Parts
<1>2. QED BY <1>1, PartsGood, FlattenGood

LEMMA SolidJoin ==
  ASSUME NEW s \in Seq(Line), NEW t \in Seq(Line) PROVE Solid(s \o t) = Join(Solid(s), Solid(t))
<1> DEFINE P == Parts(s)
           Q == Parts(t)
           R == Parts(s \o t)
<1>1. /\ P \in Seq(Seq(Line)) /\ Len(P) = Len(s) /\ Q \in Seq(Seq(Line)) /\ Len(Q) = Len(t)
  BY PartsGood
<1>2. s \o t \in Seq(Line) /\ Len(s \o t) = Len(s) + Len(t) BY ConcatProperties
<1>3. R \in Seq(Seq(Line)) /\ Len(R) = Len(s) + Len(t) BY <1>2, PartsGood
<1>4. P \o Q \in Seq(Seq(Line)) /\ Len(P \o Q) = Len(s) + Len(t)
  <2> HIDE DEF P, Q
  <2> DEFINE X == Seq(Line)
  <2>1. Join(P, Q) \in Seq(X) /\ Len(Join(P, Q)) = Len(P) + Len(Q)
    <3>1. P \in Seq(X) /\ Q \in Seq(X) BY <1>1
    <3> HIDE DEF X
    <3>2. QED BY <3>1, JoinFacts
  <2>2. QED BY <1>1, <2>1 DEF Join
<1>5. ASSUME NEW i \in 1..(Len(s) + Len(t)) PROVE R[i] = (P \o Q)[i]
  <2>1. Len(s) \in Nat /\ Len(t) \in Nat /\ DOMAIN s = 1..Len(s) /\ DOMAIN t = 1..Len(t)
        /\ DOMAIN (s \o t) = 1..(Len(s) + Len(t))
    BY <1>2
  <2>2. CASE i <= Len(s)
    <3>1. i \in 1..Len(s) BY <1>5, <2>1, <2>2
    <3>2. (s \o t)[i] = s[i] BY <1>5, <2>2, ConcatProperties
    <3>3. (P \o Q)[i] = P[i]
      <4> HIDE DEF P, Q
      <4> QED BY <1>1, <1>5, <2>2, ConcatProperties
    <3>4. QED BY <1>5, <2>1, <3>1, <3>2, <3>3 DEF Parts
  <2>3. CASE ~(i <= Len(s))
    <3>1. i - Len(s) \in 1..Len(t) BY <1>5, <2>1, <2>3
    <3>2. (s \o t)[i] = t[i - Len(s)] BY <1>5, <2>3, ConcatProperties
    <3>3. (P \o Q)[i] = Q[i - Len(s)]
      <4> HIDE DEF P, Q
      <4> QED BY <1>1, <1>5, <2>3, ConcatProperties
    <3>4. QED BY <1>5, <2>1, <3>1, <3>2, <3>3 DEF Parts
  <2>4. QED BY <2>2, <2>3
<1>6. Solid(s) = FlattenSeq(P) /\ Solid(t) = FlattenSeq(Q) /\ Solid(s \o t) = FlattenSeq(R)
  BY DEF Solid, Parts
<1> HIDE DEF P, Q, R
<1>7. R = P \o Q
  <2> DEFINE PQ == P \o Q
  <2>1. PQ \in Seq(Seq(Line)) /\ Len(R) = Len(PQ) /\ \A i \in 1..Len(R) : R[i] = PQ[i]
    BY <1>3, <1>4, <1>5
  <2> HIDE DEF PQ
  <2>2. R = PQ BY <1>3, <2>1, SeqEqual
  <2>3. QED BY <2>2 DEF PQ
<1>8. FlattenSeq(P \o Q) = FlattenSeq(P) \o FlattenSeq(Q) BY <1>1, FlattenConcat
<1>9. QED BY <1>6, <1>7, <1>8 DEF Join

LEMMA SolidFew ==
  /\ Solid(<<>>) = <<>>
  /\ \A l \in Line : Solid(<<l>>) = IF l.type = "empty" THEN <<>> ELSE <<l>>
<1>1. Solid(<<>>) = <<>>
  <2>1. Parts(<<>>) = <<>>
    <3>1. Parts(<<>>) \in Seq(Seq(Line)) /\ Len(Parts(<<>>)) = 0
      <4> DEFINE none == <<>>
      <4>1. none \in Seq(Line) /\ Len(none) = 0 BY EmptySeq
      <4> HIDE DEF none
      <4>2. Parts(none) \in Seq(Seq(Line)) /\ Len(Parts(none)) = 0 BY <4>1, PartsGood
      <4>3. QED BY <4>2 DEF none
    <3>2. QED BY <3>1, EmptySeq
  <2>2. Solid(<<>>) = FlattenSeq(Parts(<<>>)) BY DEF Solid, Parts
  <2>3. QED BY <2>1, <2>2, FlattenFew
<1>2. ASSUME NEW l \in Line PROVE Solid(<<l>>) = IF l.type = "empty" THEN <<>> ELSE <<l>>
  <2> DEFINE x == IF l.type = "empty" THEN <<>> ELSE <<l>>
             s == <<l>>
  <2>1. x \in Seq(Line) BY Single, EmptySeq
  <2>2. DOMAIN s = {1} /\ s[1] = l OBVIOUS
  <2>3. Parts(s) = [i \in {1} |-> x] BY <2>2 DEF Parts
  <2>4. Solid(s) = FlattenSeq(Parts(s)) BY DEF Solid, Parts
  <2> HIDE DEF x, s
  <2>5. [i \in {1} |-> x] = <<x>>
    <3>1. 1..1 = {1} OBVIOUS
    <3>2. QED BY <3>1
  <2>6. FlattenSeq(<<x>>) = x BY <2>1, FlattenFew
  <2>7. QED BY <2>3, <2>4, <2>5, <2>6 DEF x, s
<1>3. QED BY <1>1, <1>2

LEMMA SolidAppend ==
  ASSUME NEW s \in Seq(Line), NEW l \in Line
  PROVE  Solid(Append(s, l)) = Join(Solid(s), Solid(<<l>>))
<1>1. Append(s, l) = s \o <<l>> /\ <<l>> \in Seq(Line) BY Single, AppendIsConcat
<1>2. QED BY <1>1, SolidJoin

-----------------------------------------------------------------------------
(* What a handle is written as, and what the lines read so far would be.   *)

\* Appending, element by element.
LEMMA AppendIs ==
  ASSUME NEW X, NEW f \in Seq(X), NEW x \in X, NEW e \in Seq(X), Len(e) = Len(f) + 1,
         e[Len(f) + 1] = x, \A i \in 1..Len(f) : e[i] = f[i]
  PROVE  e = Append(f, x)
<1> DEFINE a == Append(f, x)
           N == Len(f)
<1>1. /\ a \in Seq(X) /\ Len(a) = N + 1 /\ a[N + 1] = x /\ N \in Nat
      /\ \A i \in 1..N : a[i] = f[i]
  BY AppendProperties
<1> HIDE DEF a, N
<1>2. \A i \in 1..(N + 1) : i \in 1..N \/ i = N + 1 BY <1>1
<1>3. Len(e) = N + 1 /\ e[N + 1] = x /\ \A i \in 1..N : e[i] = f[i] BY DEF N
<1>4. Len(e) = Len(a) /\ \A i \in 1..Len(e) : e[i] = a[i] BY <1>1, <1>2, <1>3
<1>5. QED BY <1>1, <1>4, SeqEqual DEF a

\* The lines of a comment that are not blank.
Noted(c)  == Solid(cfg_write_comment(c))
LineOf(t) == IF t = "" THEN EmptyLine ELSE Remark(t)
Full(c)   == [i \in DOMAIN c |-> LineOf(c[i])]

LEMMA LineOfGood == ASSUME NEW t \in Text PROVE LineOf(t) \in Line
BY DEF LineOf, Remark, Line

LEMMA NotedGood == ASSUME NEW c \in Note PROVE Noted(c) \in Seq(Line)
<1>1. cfg_write_comment(c) \in Seq(Line) BY WriteNoteGood, QuietLines
<1>2. QED BY <1>1, SolidGood DEF Noted

LEMMA FullAppend ==
  ASSUME NEW c \in Seq(Text), NEW t \in Text
  PROVE  Full(c) \in Seq(Line) /\ Full(Append(c, t)) = Append(Full(c), LineOf(t))
<1> DEFINE d == Append(c, t)
           N == Len(c)
<1>1. /\ N \in Nat /\ DOMAIN c = 1..N /\ DOMAIN d = 1..(N + 1) /\ d[N + 1] = t
      /\ \A i \in 1..N : d[i] = c[i] /\ c[i] \in Text
  OBVIOUS
<1>2. Full(c) = [i \in 1..N |-> LineOf(c[i])] /\ Full(d) = [i \in 1..(N + 1) |-> LineOf(d[i])]
  BY <1>1 DEF Full
<1> HIDE DEF d, N
<1>3. Full(c) \in Seq(Line) /\ Len(Full(c)) = N
  <2>1. \A i \in 1..N : LineOf(c[i]) \in Line BY <1>1, LineOfGood
  <2>2. QED BY <1>1, <1>2, <2>1
<1>4. Append(Full(c), LineOf(t)) = Full(d)
  <2> DEFINE f == Full(c)
             e == Full(d)
             x == LineOf(t)
  <2>1. f \in Seq(Line) /\ x \in Line /\ Len(f) = N BY <1>3, LineOfGood
  <2>2. \A i \in 1..(N + 1) : d[i] \in Text
    <3>1. \A i \in 1..(N + 1) : i \in 1..N \/ i = N + 1 BY <1>1
    <3>2. QED BY <1>1, <3>1
  <2>3. e \in Seq(Line) /\ Len(e) = N + 1
    <3>1. \A i \in 1..(N + 1) : LineOf(d[i]) \in Line BY <2>2, LineOfGood
    <3>2. N + 1 \in Nat BY <1>1
    <3>3. QED BY <1>2, <3>1, <3>2
  <2>4. e[N + 1] = x /\ \A i \in 1..N : e[i] = f[i]
    <3>1. N + 1 \in 1..(N + 1) /\ \A i \in 1..N : i \in 1..(N + 1) BY <1>1
    <3>2. QED BY <1>1, <1>2, <3>1
  <2> HIDE DEF e, f, x
  <2>5. e = Append(f, x) BY <2>1, <2>3, <2>4, AppendIs
  <2>6. QED BY <2>5 DEF e, f, x
<1>5. QED BY <1>3, <1>4 DEF d

\* A blank line left out at the end makes no difference.
LEMMA NotedFull == ASSUME NEW c \in Lines PROVE Noted(c) = Solid(Full(c))
<1>1. c \in Seq(Text) /\ c # <<>> /\ c # NULL BY ConfigAssumption DEF Lines
<1>2. CASE Pieces(c) = c
  <2>1. cfg_write_comment(c) = Full(c)
    BY <1>1, <1>2 DEF cfg_write_comment, Full, LineOf
  <2>2. QED BY <2>1 DEF Noted
<1>3. CASE Pieces(c) # c
  <2> DEFINE f == Front(c)
             m == Len(c) - 1
  <2>1. Pieces(c) = f /\ Last(c) = "" BY <1>3 DEF Pieces
  <2>2. m \in Nat /\ Len(c) = m + 1 /\ \A i \in 1..m : c[i] \in Text BY <1>1
  <2>3. f \in Seq(Text) /\ Len(f) = m /\ \A i \in 1..m : f[i] = c[i]
    <3>1. f = SubSeq(c, 1, m) BY DEF Front
    <3> HIDE DEF f, m
    <3>2. QED BY <1>1, <2>2, <3>1
  <2>4. c = Append(f, "")
    <3>1. c[m + 1] = "" BY <2>1, <2>2 DEF Last
    <3>2. "" \in Text BY ConfigAssumption
    <3> HIDE DEF f, m
    <3> DEFINE x == ""
    <3>3. c[m + 1] = x /\ x \in Text BY <3>1, <3>2
    <3> HIDE DEF x
    <3>4. c = Append(f, x) BY <1>1, <2>2, <2>3, <3>3, AppendIs
    <3>5. QED BY <3>4 DEF x
  <2>5. cfg_write_comment(c) = Full(f)
    <3>1. DOMAIN f = 1..m BY <2>3
    <3>2. cfg_write_comment(c) = [i \in DOMAIN f |-> LineOf(c[i])]
      BY <1>1, <2>1 DEF cfg_write_comment, LineOf
    <3> HIDE DEF f, m
    <3>3. QED BY <2>3, <3>1, <3>2 DEF Full
  <2> HIDE DEF f
  <2>6. Full(f) \in Seq(Line) /\ Full(c) = Append(Full(f), EmptyLine)
    <3>1. "" \in Text /\ LineOf("") = EmptyLine BY ConfigAssumption DEF LineOf
    <3>2. QED BY <2>3, <2>4, <3>1, FullAppend
  <2>7. EmptyLine \in Line /\ EmptyLine.type = "empty" BY DEF Line, EmptyLine
  <2>8. Solid(Full(c)) = Join(Solid(Full(f)), <<>>) BY <2>6, <2>7, SolidAppend, SolidFew
  <2>9. Solid(Full(f)) \in Seq(Line) BY <2>6, SolidGood
  <2>10. QED BY <2>5, <2>8, <2>9, JoinFacts DEF Noted
<1>4. QED BY <1>2, <1>3

LEMMA NotedNull == Noted(NULL) = <<>>
BY SolidFew DEF Noted, cfg_write_comment

LEMMA NotedOne == ASSUME NEW t \in Text PROVE <<t>> \in Lines /\ Noted(<<t>>) = Solid(<<LineOf(t)>>)
<1>1. <<t>> \in Lines BY Single DEF Lines
<1>2. <<t>> = Append(<<>>, t) /\ Full(<<>>) = <<>> BY DEF Full
<1>3. <<>> \in Seq(Text) BY EmptySeq
<1>4. Full(Append(<<>>, t)) = Append(<<>>, LineOf(t)) BY <1>2, <1>3, FullAppend
<1>5. Append(<<>>, LineOf(t)) = <<LineOf(t)>> OBVIOUS
<1>6. QED BY <1>1, <1>2, <1>4, <1>5, NotedFull

LEMMA NotedAppend ==
  ASSUME NEW c \in Lines, NEW t \in Text
  PROVE  /\ Append(c, t) \in Lines
         /\ Noted(Append(c, t)) = Join(Noted(c), Solid(<<LineOf(t)>>))
<1>1. c \in Seq(Text) BY DEF Lines
<1>2. Append(c, t) \in Lines BY <1>1, AppendProperties DEF Lines
<1>3. Full(c) \in Seq(Line) /\ Full(Append(c, t)) = Append(Full(c), LineOf(t)) BY <1>1, FullAppend
<1>4. Solid(Append(Full(c), LineOf(t))) = Join(Solid(Full(c)), Solid(<<LineOf(t)>>))
  BY <1>3, LineOfGood, SolidAppend
<1>5. QED BY <1>2, <1>3, <1>4, NotedFull

\* A comment of several lines is split below its last but one.
LEMMA SplitCases ==
  ASSUME NEW c \in Note, ~(c = NULL \/ Len(c) = 1)
  PROVE  \E f \in Lines, t \in Text : c = Append(f, t) /\ Front(c) = f /\ Last(c) = t
<1> DEFINE f == Front(c)
           t == Last(c)
           m == Len(c) - 1
<1>1. c \in Seq(Text) /\ c # <<>> /\ Len(c) # 1 BY DEF Note, Lines
<1>2. m \in Nat \ {0} /\ Len(c) = m + 1 /\ \A i \in 1..(m + 1) : c[i] \in Text BY <1>1
<1>3. f \in Seq(Text) /\ Len(f) = m /\ \A i \in 1..m : f[i] = c[i]
  <2>1. f = SubSeq(c, 1, m) BY DEF Front
  <2> HIDE DEF f, m
  <2>2. QED BY <1>1, <1>2, <2>1
<1>4. t \in Text /\ t = c[m + 1] BY <1>2 DEF Last
<1> HIDE DEF f, t, m
<1>5. c = Append(f, t) BY <1>1, <1>2, <1>3, <1>4
<1>6. f \in Lines
  <2>1. f # <<>> BY <1>2, <1>3
  <2>2. QED BY <1>3, <2>1 DEF Lines
<1>7. QED BY <1>4, <1>5, <1>6 DEF f, t

\* Between the head of the file and the first section no line is lost.
LEMMA NotedSplit == ASSUME NEW c \in Note PROVE Join(Noted(HeadOf(c)), Noted(SplitOff(c))) = Noted(c)
<1>1. CASE c = NULL \/ Len(c) = 1
  <2>1. HeadOf(c) = c /\ SplitOff(c) = NULL BY <1>1 DEF HeadOf, SplitOff
  <2>2. Noted(c) \in Seq(Line) BY NotedGood
  <2>3. QED BY <2>1, <2>2, NotedNull, JoinFacts
<1>2. CASE ~(c = NULL \/ Len(c) = 1)
  <2>1. PICK f \in Lines, t \in Text : c = Append(f, t) /\ Front(c) = f /\ Last(c) = t
    BY <1>2, SplitCases
  <2>2. Noted(c) = Join(Noted(f), Noted(<<t>>)) BY <2>1, NotedAppend, NotedOne
  <2>3. QED BY <1>2, <2>1, <2>2 DEF HeadOf, SplitOff
<1>3. QED BY <1>1, <1>2

\* The lines of a section, and of sections, that are not blank.
SecLines(s) == Solid(cfg_write_section(s))
Block(s)    == Append(cfg_write_section(s), EmptyLine)
Blocks(ss)  == [i \in DOMAIN ss |-> Block(ss[i])]
Body(ss)    == Solid(FlattenSeq(Blocks(ss)))

LEMMA SecLinesGood == ASSUME NEW s \in SecRec PROVE SecLines(s) \in Seq(Line)
BY WriteSectionGood, SolidGood DEF SecLines

LEMMA HeaderLines ==
  ASSUME NEW n \in Section
  PROVE  /\ Header(n) \in Line /\ <<Header(n)>> \in Seq(Line)
         /\ Solid(<<Header(n)>>) = <<Header(n)>>
<1>1. Header(n) \in Line /\ Header(n).type # "empty" BY DEF Header, Line
<1>2. QED BY <1>1, Single, SolidFew

LEMMA SettingLines ==
  ASSUME NEW k \in Key, NEW v \in Value
  PROVE  /\ Setting(k, v) \in Line /\ <<Setting(k, v)>> \in Seq(Line)
         /\ Solid(<<Setting(k, v)>>) = <<Setting(k, v)>>
<1>1. Setting(k, v) \in Line /\ Setting(k, v).type # "empty" BY DEF Setting, Line
<1>2. QED BY <1>1, Single, SolidFew

\* The default section has no header.
Top(n) == IF n = "" THEN <<>> ELSE <<Header(n)>>

LEMMA TopLines ==
  ASSUME NEW n \in Section PROVE Top(n) \in Seq(Line) /\ Solid(Top(n)) = Top(n)
BY HeaderLines, SolidFew, EmptySeq DEF Top

\* A section just begun.
LEMMA SecLinesNew ==
  ASSUME NEW n \in Section, NEW c \in Note
  PROVE  /\ cfg_write_section(NoKeys(n, c)) = Join(cfg_write_comment(c), Top(n))
         /\ SecLines(NoKeys(n, c)) = Join(Noted(c), Top(n))
<1> DEFINE a == cfg_write_comment(c)
           b == Top(n)
           ks == [i \in DOMAIN <<>> |-> cfg_write_key(<<>>[i])]
<1>1. a \in Seq(Line) BY WriteNoteGood, QuietLines
<1>2. b \in Seq(Line) /\ Solid(b) = b BY TopLines
<1>3. cfg_write_section(NoKeys(n, c)) = Join(Join(a, b), FlattenSeq(ks))
  BY DEF cfg_write_section, NoKeys, Join, Top
<1>4. ks = <<>> OBVIOUS
<1>5. FlattenSeq(ks) = <<>> BY <1>4, FlattenFew
<1> HIDE DEF a, b, ks
<1>6. Join(Join(a, b), <<>>) = Join(a, b) BY <1>1, <1>2, JoinFacts
<1>7. cfg_write_section(NoKeys(n, c)) = Join(a, b) BY <1>3, <1>5, <1>6
<1>8. Solid(Join(a, b)) = Join(Solid(a), Solid(b)) BY <1>1, <1>2, SolidJoin DEF Join
<1>9. QED BY <1>2, <1>7, <1>8 DEF SecLines, Noted, a, b

LEMMA KeyLinesAppend ==
  ASSUME NEW ks \in Seq(KeyRec), NEW k \in KeyRec
  PROVE  KeyLines(Append(ks, k)) = Append(KeyLines(ks), cfg_write_key(k))
<1> DEFINE d == Append(ks, k)
           N == Len(ks)
           f == KeyLines(ks)
           e == KeyLines(d)
           x == cfg_write_key(k)
           X == Seq(Line)
<1>1. /\ d \in Seq(KeyRec) /\ DOMAIN ks = 1..N /\ DOMAIN d = 1..(N + 1) /\ d[N + 1] = k /\ N \in Nat
      /\ \A i \in 1..N : d[i] = ks[i]
  OBVIOUS
<1>2. f \in Seq(X) /\ x \in X BY KeyLinesGood, WriteKeyGood
<1>3. e \in Seq(X) BY <1>1, KeyLinesGood
<1>4. DOMAIN f = 1..N /\ DOMAIN e = 1..(N + 1) BY <1>1 DEF KeyLines
<1>5. e[N + 1] = x /\ \A i \in 1..N : e[i] = f[i]
  <2>1. N + 1 \in 1..(N + 1) /\ \A i \in 1..N : i \in 1..(N + 1) BY <1>1
  <2>2. QED BY <1>1, <2>1 DEF KeyLines
<1> HIDE DEF f, e, x, X, d, N
<1>6. Len(f) = N /\ Len(e) = N + 1
  <2>1. Len(f) \in Nat /\ Len(e) \in Nat /\ DOMAIN f = 1..Len(f) /\ DOMAIN e = 1..Len(e)
    BY <1>2, <1>3, LenProperties
  <2>2. N \in Nat /\ N + 1 \in Nat BY <1>1
  <2>3. \A m, n \in Nat : 1..m = 1..n => m = n
    <3>1. ASSUME NEW m \in Nat, NEW n \in Nat, 1..m = 1..n, m < n PROVE FALSE
      <4>1. n \in 1..n /\ n \notin 1..m BY <3>1
      <4>2. QED BY <3>1, <4>1
    <3>2. ASSUME NEW m \in Nat, NEW n \in Nat, 1..m = 1..n PROVE m = n
      <4>1. ~(m < n) BY <3>1, <3>2
      <4>2. ~(n < m) BY <3>1, <3>2
      <4>3. QED BY <3>2, <4>1, <4>2
    <3>3. QED BY <3>2
  <2>4. QED BY <1>4, <2>1, <2>2, <2>3
<1>7. e = Append(f, x) BY <1>2, <1>3, <1>5, <1>6, AppendIs
<1>8. QED BY <1>7 DEF e, f, x, d

\* A section with one more key.
LEMMA SecLinesKey ==
  ASSUME NEW s \in SecRec, NEW k \in KeyRec, NEW t,
         t = [name |-> s.name, comment |-> s.comment, keys |-> Append(s.keys, k)]
  PROVE  /\ cfg_write_section(t) = Join(cfg_write_section(s), cfg_write_key(k))
         /\ SecLines(t) = Join(SecLines(s), Join(Noted(k.comment), <<Setting(k.name, Shown(k.value))>>))
<1> DEFINE a == cfg_write_comment(s.comment)
           b == IF s.name = "" THEN <<>> ELSE <<Header(s.name)>>
           ab == Join(a, b)
           f == FlattenSeq(KeyLines(s.keys))
           x == cfg_write_key(k)
           l == Setting(k.name, Shown(k.value))
           c == cfg_write_comment(k.comment)
<1>1. s.name \in Section /\ s.comment \in Note /\ s.keys \in Seq(KeyRec) BY DEF SecRec, KeyList
<1>2. a \in Seq(Line) BY <1>1, WriteNoteGood, QuietLines
<1>3. b \in Seq(Line) BY <1>1, HeaderLines, EmptySeq
<1>4. ab \in Seq(Line)
  <2> HIDE DEF a, b
  <2> QED BY <1>2, <1>3, JoinFacts
<1>5. KeyLines(s.keys) \in Seq(Seq(Line)) /\ f \in Seq(Line) BY <1>1, KeyLinesGood, FlattenGood
<1>6. x \in Seq(Line) /\ c \in Seq(Line) BY WriteKeyGood, WriteNoteGood, QuietLines DEF KeyRec
<1>7. cfg_write_section(s) = Join(ab, f) BY DEF cfg_write_section, KeyLines, Join
<1>8. cfg_write_section(t) = Join(ab, FlattenSeq(KeyLines(Append(s.keys, k))))
  BY DEF cfg_write_section, KeyLines, Join
<1>9. FlattenSeq(KeyLines(Append(s.keys, k))) = Join(f, x)
  <2>1. KeyLines(Append(s.keys, k)) = Append(KeyLines(s.keys), x) BY <1>1, KeyLinesAppend
  <2> DEFINE ks == KeyLines(s.keys)
  <2>2. ks \in Seq(Seq(Line)) /\ x \in Seq(Line) BY <1>5, <1>6
  <2> HIDE DEF ks, x
  <2>3. FlattenSeq(Append(ks, x)) = FlattenSeq(ks) \o x BY <2>2, FlattenAppend
  <2>4. QED BY <2>1, <2>3 DEF ks, Join
<1>10. x = Append(c, l) BY DEF cfg_write_key, Shown
<1>11. l \in Line /\ Solid(<<l>>) = <<l>>
  <2>1. k.name \in Key /\ Shown(k.value) \in Value BY ShownGood DEF KeyRec
  <2>2. QED BY <2>1, SettingLines
<1> HIDE DEF ab, f, x, c, l
<1>12. Solid(x) = Join(Noted(k.comment), <<l>>) BY <1>6, <1>10, <1>11, SolidAppend DEF Noted, c
<1>13. cfg_write_section(t) = Join(Join(ab, f), x) BY <1>4, <1>5, <1>6, <1>8, <1>9, JoinAssociative
<1>14. Join(ab, f) \in Seq(Line) BY <1>4, <1>5, JoinFacts
<1>15. Solid(Join(Join(ab, f), x)) = Join(Solid(Join(ab, f)), Solid(x))
  <2> DEFINE y == Join(ab, f)
  <2>1. y \in Seq(Line) BY <1>14
  <2> HIDE DEF y
  <2>2. Solid(Join(y, x)) = Join(Solid(y), Solid(x)) BY <1>6, <2>1, SolidJoin DEF Join
  <2>3. QED BY <2>2 DEF y
<1>16. QED BY <1>7, <1>12, <1>13, <1>15 DEF SecLines, l, x

LEMMA BlockGood ==
  ASSUME NEW s \in SecRec PROVE Block(s) \in Seq(Line) /\ Solid(Block(s)) = SecLines(s)
<1>1. EmptyLine \in Line /\ Solid(<<EmptyLine>>) = <<>>
  <2>1. EmptyLine \in Line /\ EmptyLine.type = "empty" BY DEF Line, EmptyLine
  <2>2. QED BY <2>1, SolidFew
<1>2. cfg_write_section(s) \in Seq(Line) BY WriteSectionGood
<1>3. Block(s) \in Seq(Line) BY <1>1, <1>2, AppendProperties DEF Block
<1>4. Solid(Block(s)) = Join(SecLines(s), <<>>) BY <1>1, <1>2, SolidAppend DEF Block, SecLines
<1>5. QED BY <1>3, <1>4, SecLinesGood, JoinFacts

LEMMA BlocksGood ==
  ASSUME NEW ss \in Seq(SecRec)
  PROVE  /\ Blocks(ss) \in Seq(Seq(Line)) /\ Len(Blocks(ss)) = Len(ss)
         /\ \A i \in 1..Len(ss) : Blocks(ss)[i] = Block(ss[i])
<1>1. DOMAIN ss = 1..Len(ss) /\ Len(ss) \in Nat /\ \A i \in 1..Len(ss) : ss[i] \in SecRec OBVIOUS
<1>2. \A i \in 1..Len(ss) : Block(ss[i]) \in Seq(Line) BY <1>1, BlockGood
<1>3. QED BY <1>1, <1>2 DEF Blocks

LEMMA BodyNone == Body(<<>>) = <<>>
<1>1. Blocks(<<>>) = <<>> BY DEF Blocks
<1>2. QED BY <1>1, FlattenFew, SolidFew DEF Body

LEMMA BodyAppend ==
  ASSUME NEW ss \in Seq(SecRec), NEW s \in SecRec
  PROVE  /\ Body(ss) \in Seq(Line) /\ Body(<<>>) = <<>>
         /\ FlattenSeq(Blocks(Append(ss, s))) = Join(FlattenSeq(Blocks(ss)), Block(s))
         /\ Body(Append(ss, s)) = Join(Body(ss), SecLines(s))
<1> DEFINE d == Append(ss, s)
           N == Len(ss)
           f == Blocks(ss)
           e == Blocks(d)
           x == Block(s)
           X == Seq(Line)
<1>1. /\ d \in Seq(SecRec) /\ Len(d) = N + 1 /\ d[N + 1] = s /\ N \in Nat
      /\ \A i \in 1..N : d[i] = ss[i]
  BY AppendProperties
<1>2. x \in X /\ Solid(x) = SecLines(s) BY BlockGood
<1>3. f \in Seq(X) /\ Len(f) = N /\ \A i \in 1..N : f[i] = Block(ss[i]) BY BlocksGood
<1> HIDE DEF d
<1>4. e \in Seq(X) /\ Len(e) = N + 1 /\ \A i \in 1..(N + 1) : e[i] = Block(d[i]) BY <1>1, BlocksGood
<1>5. e[N + 1] = x /\ \A i \in 1..N : e[i] = f[i]
  <2> HIDE DEF e, f, X, N
  <2>1. N + 1 \in 1..(N + 1) /\ \A i \in 1..N : i \in 1..(N + 1) BY <1>1
  <2>2. QED BY <1>1, <1>3, <1>4, <2>1
<1> HIDE DEF e, f, x, N
<1>6. e = Append(f, x)
  <2> HIDE DEF X
  <2> QED BY <1>2, <1>3, <1>4, <1>5, AppendIs
<1>7. FlattenSeq(Append(f, x)) = FlattenSeq(f) \o x BY <1>2, <1>3, FlattenAppend
<1>8. FlattenSeq(f) \in Seq(Line) BY <1>3, FlattenGood
<1>9. Body(d) = Join(Solid(FlattenSeq(f)), Solid(x))
  <2> DEFINE g == FlattenSeq(f)
  <2>1. g \in Seq(Line) /\ x \in Seq(Line) BY <1>2, <1>8
  <2> HIDE DEF g
  <2>2. Solid(g \o x) = Join(Solid(g), Solid(x)) BY <2>1, SolidJoin
  <2>3. QED BY <1>6, <1>7, <2>2 DEF Body, e, g
<1>10. Body(ss) \in Seq(Line) BY <1>8, SolidGood DEF Body, f
<1>11. FlattenSeq(Blocks(d)) = Join(FlattenSeq(Blocks(ss)), Block(s))
  BY <1>6, <1>7 DEF Join, e, f, x
<1>12. QED BY <1>2, <1>9, <1>10, <1>11, BodyNone DEF Body, f, d

\* What a handle is written as.
LEMMA SolidHandle ==
  ASSUME NEW c \in Handle PROVE Solid(cfg_write(c)) = Join(Noted(c.comment), Body(c.sections))
<1> DEFINE n == cfg_write_comment(c.comment)
           a == IF c.comment = NULL THEN <<>> ELSE Append(n, EmptyLine)
           f == FlattenSeq(Blocks(c.sections))
<1>1. c.comment \in Note /\ c.sections \in Seq(SecRec) BY DEF Handle, SecList
<1>2. n \in Seq(Line) BY <1>1, WriteNoteGood, QuietLines
<1>3. EmptyLine \in Line /\ Solid(<<EmptyLine>>) = <<>>
  <2>1. EmptyLine \in Line /\ EmptyLine.type = "empty" BY DEF Line, EmptyLine
  <2>2. QED BY <2>1, SolidFew
<1>4. f \in Seq(Line) BY <1>1, BlocksGood, FlattenGood
<1>5. cfg_write(c) = Join(a, f) BY DEF cfg_write, Blocks, Block, Join
<1> HIDE DEF f
<1>6. a \in Seq(Line) /\ Solid(a) = Noted(c.comment)
  <2>1. CASE c.comment = NULL BY <2>1, NotedNull, SolidFew, EmptySeq
  <2>2. CASE c.comment # NULL
    <3> HIDE DEF n
    <3>1. Append(n, EmptyLine) \in Seq(Line) BY <1>2, <1>3, AppendProperties
    <3>2. Solid(Append(n, EmptyLine)) = Join(Solid(n), <<>>) BY <1>2, <1>3, SolidAppend
    <3>3. Join(Solid(n), <<>>) = Solid(n) BY <1>2, SolidGood, JoinFacts
    <3>4. QED BY <2>2, <3>1, <3>2, <3>3 DEF Noted, n
  <2>3. QED BY <2>1, <2>2
<1> HIDE DEF a
<1>7. Solid(Join(a, f)) = Join(Solid(a), Solid(f)) BY <1>4, <1>6, SolidJoin DEF Join
<1>8. QED BY <1>5, <1>6, <1>7 DEF Body, f

-----------------------------------------------------------------------------
(* How many lines a handle is written as, and what has been read would be. *)

Rows(c)     == Len(cfg_write_comment(c))
HeadRows(c) == IF c = NULL THEN 0 ELSE Rows(c) + 1
SecRows(s)  == Len(cfg_write_section(s))
BodyRows(ss) == Len(FlattenSeq(Blocks(ss)))
Deep(c)     == IF c = NULL THEN 0 ELSE Len(c)

\* A comment is written as at most as many lines as it has.
LEMMA RowsGood ==
  ASSUME NEW c \in Note
  PROVE  /\ Rows(c) \in Nat /\ Deep(c) \in Nat /\ HeadRows(c) \in Nat
         /\ Rows(c) <= Deep(c) /\ Rows(NULL) = 0 /\ HeadRows(NULL) = 0 /\ Deep(NULL) = 0
<1>1. Rows(NULL) = 0 /\ HeadRows(NULL) = 0 /\ Deep(NULL) = 0
  BY DEF Rows, HeadRows, Deep, cfg_write_comment
<1>2. CASE c = NULL BY <1>1, <1>2
<1>3. CASE c # NULL
  <2>1. Len(c) \in Nat BY <1>3 DEF Note, Lines
  <2>2. cfg_write_comment(c) \in Seq(Line) /\ Rows(c) <= Len(c)
    BY <1>3, WriteNoteGood, QuietLines DEF Rows
  <2>3. Rows(c) \in Nat BY <2>2, LenProperties DEF Rows
  <2>4. QED BY <1>1, <1>3, <2>1, <2>2, <2>3 DEF HeadRows, Deep
<1>4. QED BY <1>2, <1>3

\* The head takes all lines but the last one, which the first section gets.
LEMMA SplitAppend ==
  ASSUME NEW c \in Lines, NEW t \in Text
  PROVE  /\ Append(c, t) \in Lines /\ Len(Append(c, t)) = Len(c) + 1
         /\ Front(Append(c, t)) = c /\ Last(Append(c, t)) = t
         /\ HeadOf(Append(c, t)) = c /\ SplitOff(Append(c, t)) = <<t>>
<1> DEFINE e == Append(c, t)
           m == Len(c)
<1>1. c \in Seq(Text) /\ m \in Nat \ {0} BY DEF Lines
<1>2. e \in Seq(Text) /\ Len(e) = m + 1 /\ e[m + 1] = t /\ \A i \in 1..m : e[i] = c[i]
  BY <1>1
<1>3. e \in Lines /\ e # NULL /\ Len(e) # 1
  <2>1. e \in Lines BY <1>1, <1>2 DEF Lines
  <2> HIDE DEF e, m
  <2>2. e # NULL BY <2>1, ConfigAssumption
  <2>3. Len(e) # 1 BY <1>1, <1>2
  <2>4. QED BY <2>1, <2>2, <2>3
<1> HIDE DEF e, m
<1>4. Last(e) = t BY <1>2 DEF Last
<1>5. Front(e) = c
  <2> DEFINE f == Front(e)
  <2>1. f = SubSeq(e, 1, m) BY <1>1, <1>2 DEF Front
  <2> HIDE DEF f
  <2>2. f \in Seq(Text) /\ Len(f) = m /\ \A i \in 1..m : f[i] = e[i]
    <3>1. m \in Nat /\ \A i \in 1..m : e[i] \in Text BY <1>1, <1>2
    <3>2. QED BY <2>1, <3>1, SubSeqProperties
  <2>3. Len(f) = Len(c) /\ \A i \in 1..Len(f) : f[i] = c[i] BY <1>2, <2>2 DEF m
  <2>4. f = c BY <1>1, <2>2, <2>3, SeqEqual
  <2>5. QED BY <2>4 DEF f
<1>6. QED BY <1>2, <1>3, <1>4, <1>5 DEF HeadOf, SplitOff, e, m

\* A blank line at the end of a comment is not written.
LEMMA RowsBlank ==
  /\ <<"">> \in Note /\ Rows(<<"">>) = 0
  /\ \A c \in Lines : Rows(Append(c, "")) = Len(c)
<1> DEFINE t == ""
<1>1. t \in Text BY ConfigAssumption
<1>2. <<t>> \in Note /\ <<t>> # NULL BY <1>1, NotedOne, ConfigAssumption DEF Note
<1>3. Rows(<<t>>) = 0
  <2>1. Last(<<t>>) = t /\ <<t>> # <<>> BY DEF Last
  <2>2. Pieces(<<t>>) = Front(<<t>>) BY <2>1 DEF Pieces
  <2>3. Front(<<t>>) = <<>> BY DEF Front
  <2> DEFINE e == <<t>>
  <2>4. Len(Pieces(e)) = 0
    <3>1. Pieces(e) = <<>> BY <2>2, <2>3
    <3> HIDE DEF e
    <3>2. Len(<<>>) = 0 OBVIOUS
    <3>3. QED BY <3>1, <3>2
  <2>5. e \in Note /\ e # NULL /\ Len(Pieces(e)) = 0 BY <1>2, <2>4
  <2> HIDE DEF e
  <2>6. Rows(e) = 0 BY <2>5, WriteNoteGood DEF Rows
  <2>7. QED BY <2>6 DEF e
<1>4. ASSUME NEW c \in Lines PROVE Rows(Append(c, t)) = Len(c)
  <2> DEFINE e == Append(c, t)
  <2>1. e \in Lines /\ Front(e) = c /\ Last(e) = t BY <1>1, SplitAppend
  <2> HIDE DEF e
  <2>2. e # <<>> /\ e # NULL /\ e \in Note BY <2>1, ConfigAssumption DEF Lines, Note
  <2>3. Pieces(e) = c BY <2>1, <2>2 DEF Pieces
  <2>4. QED BY <2>2, <2>3, WriteNoteGood DEF Rows, e
<1>5. QED BY <1>2, <1>3, <1>4

LEMMA SectionRows ==
  ASSUME NEW n \in Section, NEW c \in Note
  PROVE  /\ Len(Top(n)) \in Nat
         /\ SecRows(NoKeys(n, c)) = Rows(c) + Len(Top(n))
<1>1. cfg_write_comment(c) \in Seq(Line) BY WriteNoteGood, QuietLines
<1>2. cfg_write_section(NoKeys(n, c)) = Join(cfg_write_comment(c), Top(n)) BY SecLinesNew
<1>3. Top(n) \in Seq(Line) BY TopLines
<1> DEFINE a == cfg_write_comment(c)
           b == Top(n)
<1> HIDE DEF a, b
<1>4. Len(Join(a, b)) = Len(a) + Len(b) /\ Len(b) \in Nat BY <1>1, <1>3, JoinFacts, LenProperties DEF a, b
<1>5. QED BY <1>2, <1>4 DEF SecRows, Rows, a, b

LEMMA KeyRows ==
  ASSUME NEW s \in SecRec, NEW k \in KeyRec, NEW t,
         t = [name |-> s.name, comment |-> s.comment, keys |-> Append(s.keys, k)]
  PROVE  SecRows(t) = SecRows(s) + Rows(k.comment) + 1 /\ SecRows(s) \in Nat
<1> DEFINE a == cfg_write_section(s)
           c == cfg_write_comment(k.comment)
           l == Setting(k.name, Shown(k.value))
           x == cfg_write_key(k)
<1>1. cfg_write_section(t) = Join(a, x) BY SecLinesKey
<1>2. a \in Seq(Line) /\ x \in Seq(Line) BY WriteSectionGood, WriteKeyGood
<1>3. x = Append(c, l) BY DEF cfg_write_key, Shown
<1>4. c \in Seq(Line) BY WriteNoteGood, QuietLines DEF KeyRec
<1>5. l \in Line BY ShownGood, SettingLines DEF KeyRec
<1> HIDE DEF a, c, l, x
<1>6. Len(x) = Len(c) + 1 BY <1>3, <1>4, <1>5
<1>7. Len(Join(a, x)) = Len(a) + Len(x) /\ Len(a) \in Nat /\ Len(c) \in Nat
  BY <1>2, <1>4, JoinFacts, LenProperties
<1>8. QED BY <1>1, <1>6, <1>7 DEF SecRows, Rows, a, c

LEMMA BlockRows == ASSUME NEW s \in SecRec PROVE Len(Block(s)) = SecRows(s) + 1 /\ SecRows(s) \in Nat
<1>1. cfg_write_section(s) \in Seq(Line) /\ EmptyLine \in Line BY WriteSectionGood DEF Line
<1>2. QED BY <1>1, LenProperties, AppendProperties DEF Block, SecRows

LEMMA BodyRowsGood ==
  ASSUME NEW ss \in Seq(SecRec)
  PROVE  /\ BodyRows(ss) \in Nat /\ BodyRows(<<>>) = 0
         /\ \A s \in SecRec : BodyRows(Append(ss, s)) = BodyRows(ss) + SecRows(s) + 1
<1> DEFINE f == FlattenSeq(Blocks(ss))
<1>1. f \in Seq(Line) BY BlocksGood, FlattenGood
<1>2. BodyRows(<<>>) = 0
  <2>1. Blocks(<<>>) = <<>> BY DEF Blocks
  <2>2. QED BY <2>1, FlattenFew DEF BodyRows
<1>3. ASSUME NEW s \in SecRec PROVE BodyRows(Append(ss, s)) = BodyRows(ss) + SecRows(s) + 1
  <2> DEFINE b == Block(s)
  <2>1. b \in Seq(Line) /\ Len(b) = SecRows(s) + 1 BY BlockGood, BlockRows
  <2>2. FlattenSeq(Blocks(Append(ss, s))) = Join(f, b) BY BodyAppend
  <2> HIDE DEF f, b
  <2>3. Len(Join(f, b)) = Len(f) + Len(b) BY <1>1, <2>1, JoinFacts
  <2>4. QED BY <2>1, <2>2, <2>3, BlockRows, <1>1, LenProperties DEF BodyRows, f
<1>4. QED BY <1>1, <1>2, <1>3, LenProperties DEF BodyRows

\* What the comment above the first section makes: a head, and the section's comment.
Gathered(c) == HeadRows(HeadOf(c)) + Rows(SplitOff(c))

LEMMA GatheredGood == ASSUME NEW c \in Note PROVE Gathered(c) \in Nat
BY SplitGood, RowsGood DEF Gathered

LEMMA SplitFirm ==
  ASSUME NEW c \in Note
  PROVE  /\ HeadOf(c) \in Note /\ SplitOff(c) \in Note
         /\ HeadOf(c) = NULL => SplitOff(c) = NULL
         /\ Rows(SplitOff(c)) <= 1
<1>1. CASE c = NULL \/ Len(c) = 1
  <2>1. SplitOff(c) = NULL BY <1>1 DEF SplitOff
  <2>2. Rows(NULL) = 0 BY RowsGood
  <2>3. QED BY <2>1, <2>2, SplitGood
<1>2. CASE ~(c = NULL \/ Len(c) = 1)
  <2>1. PICK f \in Lines, t \in Text : c = Append(f, t) BY <1>2, SplitCases
  <2>2. HeadOf(c) = f /\ SplitOff(c) = <<t>> BY <2>1, SplitAppend
  <2>3. f # NULL BY ConfigAssumption
  <2> DEFINE e == <<t>>
  <2>4. e \in Note /\ e # NULL /\ Len(e) = 1 BY NotedOne, ConfigAssumption DEF Note
  <2> HIDE DEF e
  <2>5. Rows(e) <= 1 BY <2>4, RowsGood DEF Deep
  <2>6. QED BY <2>2, <2>3, <2>5, SplitGood DEF e
<1>3. QED BY <1>1, <1>2

-----------------------------------------------------------------------------
(* What has been read so far, and the lines it would be written as.        *)

\* Before the first section there is neither a section nor a head comment; a
\* section is open under a name that no section before it has.
Tidy(r) ==
  /\ r \in Reader
  /\ r.open = NULL => r.comment = NULL /\ r.sections = <<>>
  /\ r.open # NULL => /\ Index(r.sections, r.open.name) = 0
                      /\ r.open.name = "" => r.sections = <<>>

\* The lines that what has been read so far would be written as.
OpenLines(r) == IF r.open = NULL THEN <<>> ELSE SecLines(r.open)
Out(r)       == Join(Join(Noted(r.comment), Body(r.sections)), Join(OpenLines(r), Noted(r.above)))

OpenRows(r) == IF r.open = NULL THEN 0 ELSE SecRows(r.open) + 1
Size(r)     == HeadRows(r.comment) + BodyRows(r.sections) + OpenRows(r) + Deep(r.above)

\* A section that can be the first of a file without the next load moving lines
\* to the head: without a head comment it has none, and it has one line at most.
\* The default section shows only if it has a key, and the key begins it.
Firm(s, c) == (c = NULL => s.comment = NULL) /\ Rows(s.comment) <= 1
Bare(s)    == s.name = "" => s.keys # <<>> /\ s.keys[1].comment = NULL

Foremost(r) == IF r.sections = <<>> THEN r.open ELSE r.sections[1]
Rooted(r)   == r.open # NULL => Firm(Foremost(r), r.comment) /\ Bare(Foremost(r))

\* Reading n lines makes no more than n lines, once a section has begun.
Fits(r, q, n) ==
  /\ Rooted(r) => Rooted(q)
  /\ r.open # NULL => q.open # NULL /\ Size(q) <= Size(r) + n

LEMMA SizeGood ==
  ASSUME NEW r \in Reader
  PROVE  /\ HeadRows(r.comment) \in Nat /\ BodyRows(r.sections) \in Nat /\ OpenRows(r) \in Nat
         /\ Deep(r.above) \in Nat /\ Size(r) \in Nat
<1>1. r.comment \in Note /\ r.above \in Note /\ r.sections \in Seq(SecRec)
      /\ (r.open # NULL => r.open \in SecRec)
  BY DEF Reader, SecList
<1>2. HeadRows(r.comment) \in Nat /\ Deep(r.above) \in Nat BY <1>1, RowsGood
<1>3. BodyRows(r.sections) \in Nat BY <1>1, BodyRowsGood
<1>4. OpenRows(r) \in Nat BY <1>1, BlockRows DEF OpenRows
<1>5. QED BY <1>2, <1>3, <1>4 DEF Size

\* Reading the lines neither loses nor moves one, and makes no more of them.
Keeps(r, lines)   == Tidy(Read(r, lines)) /\ Out(Read(r, lines)) = Join(Out(r), Solid(lines))
Carries(r, lines) == Keeps(r, lines) /\ Fits(r, Read(r, lines), Len(lines))

LEMMA OutGood ==
  ASSUME NEW r \in Reader
  PROVE  /\ Noted(r.comment) \in Seq(Line) /\ Body(r.sections) \in Seq(Line)
         /\ OpenLines(r) \in Seq(Line) /\ Noted(r.above) \in Seq(Line) /\ Out(r) \in Seq(Line)
<1> DEFINE a == Noted(r.comment)
           b == Body(r.sections)
           c == OpenLines(r)
           d == Noted(r.above)
<1>1. a \in Seq(Line) /\ d \in Seq(Line) BY NotedGood DEF Reader
<1>2. b \in Seq(Line)
  <2>1. r.sections \in Seq(SecRec) BY DEF Reader, SecList
  <2>2. QED BY <2>1, BlocksGood, FlattenGood, SolidGood DEF Body
<1>3. c \in Seq(Line) BY SecLinesGood, EmptySeq DEF Reader, OpenLines
<1> HIDE DEF a, b, c, d
<1>4. Join(a, b) \in Seq(Line) /\ Join(c, d) \in Seq(Line) BY <1>1, <1>2, <1>3, JoinFacts
<1>5. Join(Join(a, b), Join(c, d)) \in Seq(Line)
  <2> DEFINE x == Join(a, b)
             y == Join(c, d)
  <2>1. x \in Seq(Line) /\ y \in Seq(Line) BY <1>4
  <2> HIDE DEF x, y
  <2>2. Join(x, y) \in Seq(Line) BY <2>1, JoinFacts
  <2>3. QED BY <2>2 DEF x, y
<1>6. QED BY <1>1, <1>2, <1>3, <1>5 DEF Out, a, b, c, d

LEMMA CarriesNone == ASSUME NEW r, Tidy(r) PROVE Carries(r, <<>>)
<1>1. Out(r) \in Seq(Line) BY OutGood DEF Tidy
<1>2. Join(Out(r), <<>>) = Out(r) BY <1>1, JoinFacts
<1>3. Size(r) \in Nat BY SizeGood DEF Tidy
<1>4. Fits(r, r, 0) BY <1>3 DEF Fits
<1>5. QED BY <1>2, <1>4, ReadNone, SolidFew DEF Carries, Keeps

LEMMA KeepsOn ==
  ASSUME NEW r, Tidy(r), NEW s \in Seq(Line), NEW t \in Seq(Line), Keeps(r, s), Keeps(Read(r, s), t)
  PROVE  Keeps(r, s \o t)
<1> DEFINE q == Read(r, s)
           p == Read(q, t)
<1>1. Read(r, s \o t) = p BY ReadConcat DEF Tidy
<1>2. Tidy(p) /\ Out(p) = Join(Out(q), Solid(t)) /\ Out(q) = Join(Out(r), Solid(s)) BY DEF Keeps
<1>3. Solid(s \o t) = Join(Solid(s), Solid(t)) BY SolidJoin
<1>4. Out(r) \in Seq(Line) /\ Solid(s) \in Seq(Line) /\ Solid(t) \in Seq(Line)
  BY OutGood, SolidGood DEF Tidy
<1> HIDE DEF q, p
<1>5. Join(Join(Out(r), Solid(s)), Solid(t)) = Join(Out(r), Join(Solid(s), Solid(t)))
  BY <1>4, JoinAssociative
<1>6. QED BY <1>1, <1>2, <1>3, <1>5 DEF Keeps

LEMMA FitsOn ==
  ASSUME NEW r \in Reader, NEW q \in Reader, NEW p \in Reader, NEW m \in Int, NEW n \in Int,
         Fits(r, q, m), Fits(q, p, n)
  PROVE  Fits(r, p, m + n)
<1>1. Size(r) \in Nat /\ Size(q) \in Nat /\ Size(p) \in Nat BY SizeGood
<1>2. QED BY <1>1 DEF Fits

LEMMA CarriesOn ==
  ASSUME NEW r, Tidy(r), NEW s \in Seq(Line), NEW t \in Seq(Line), Carries(r, s), Carries(Read(r, s), t)
  PROVE  Carries(r, s \o t)
<1> DEFINE q == Read(r, s)
           p == Read(q, t)
<1>1. r \in Reader /\ q \in Reader /\ p \in Reader BY DEF Carries, Keeps, Tidy
<1>2. Read(r, s \o t) = p BY <1>1, ReadConcat
<1>3. Len(s) \in Nat /\ Len(t) \in Nat /\ Len(s \o t) = Len(s) + Len(t) BY LenProperties, ConcatProperties
<1>4. Fits(r, q, Len(s)) /\ Fits(q, p, Len(t)) BY DEF Carries
<1>5. Keeps(r, s \o t) BY KeepsOn DEF Carries
<1> HIDE DEF q, p
<1>6. Fits(r, p, Len(s) + Len(t)) BY <1>1, <1>3, <1>4, FitsOn
<1>7. QED BY <1>2, <1>3, <1>5, <1>6 DEF Carries

\* From its first piece on, what is read makes no more than the other pieces.
FitsFrom(r, ss) ==
  Read(r, ss[1]).open # NULL =>
    /\ Read(r, FlattenSeq(ss)).open # NULL
    /\ Size(Read(r, FlattenSeq(ss))) + Len(ss[1]) <= Size(Read(r, ss[1])) + Len(FlattenSeq(ss))

LEMMA FitsPieces ==
  ASSUME NEW r \in Reader, NEW ss \in Seq(Seq(Line)), ss # <<>>,
         NEW rho \in [0..Len(ss) -> Reader], ReadsPieces(rho, r, ss),
         \A n \in 1..Len(ss) : Fits(rho[n - 1], rho[n], Len(ss[n]))
  PROVE  FitsFrom(r, ss)
<1> DEFINE N == Len(ss)
           m == Len(ss[1])
           q == rho[1]
<1>1. /\ N \in Nat \ {0} /\ 1 \in 1..N /\ N \in 0..N
      /\ \A n \in 1..N : ss[n] \in Seq(Line) /\ Len(ss[n]) \in Nat
  OBVIOUS
<1>2. PICK phi \in [0..N -> Seq(Line)] : Joins(phi, ss) BY FlattenTrace
<1>3. /\ phi[0] = <<>> /\ FlattenSeq(ss) = phi[N] /\ \A n \in 1..N : phi[n] = phi[n - 1] \o ss[n]
      /\ rho[0] = r /\ Read(r, FlattenSeq(ss)) = rho[N] /\ rho[1] = Read(rho[0], ss[1])
  <2>1. /\ phi[0] = <<>> /\ FlattenSeq(ss) = phi[N] /\ \A n \in 1..N : phi[n] = phi[n - 1] \o ss[n]
    BY <1>2 DEF Joins
  <2>2. rho[0] = r /\ Read(r, FlattenSeq(ss)) = rho[N] /\ \A n \in 1..N : rho[n] = Read(rho[n - 1], ss[n])
    BY DEF ReadsPieces
  <2>3. rho[1] = Read(rho[1 - 1], ss[1]) /\ 1 - 1 = 0 BY <1>1, <2>2
  <2>4. rho[1] = Read(rho[0], ss[1]) BY <2>3
  <2>5. QED BY <2>1, <2>2, <2>4
<1> SUFFICES ASSUME q.open # NULL
             PROVE  rho[N].open # NULL /\ Size(rho[N]) + m <= Size(q) + Len(phi[N])
  BY <1>3 DEF FitsFrom
<1>4. \A n \in 1..N : Len(phi[n]) = Len(phi[n - 1]) + Len(ss[n]) /\ Len(phi[n - 1]) \in Nat
  <2>1. ASSUME NEW n \in 1..N PROVE Len(phi[n]) = Len(phi[n - 1]) + Len(ss[n]) /\ Len(phi[n - 1]) \in Nat
    <3>1. n - 1 \in 0..N BY <1>1, <2>1
    <3>2. phi[n - 1] \in Seq(Line) /\ ss[n] \in Seq(Line) BY <1>1, <1>2, <2>1, <3>1
    <3> DEFINE x == phi[n - 1]
               y == ss[n]
    <3>3. x \in Seq(Line) /\ y \in Seq(Line) /\ phi[n] = x \o y BY <1>3, <2>1, <3>2
    <3> HIDE DEF x, y
    <3>4. Len(x \o y) = Len(x) + Len(y) /\ Len(x) \in Nat BY <3>3, ConcatProperties, LenProperties
    <3>5. QED BY <3>3, <3>4 DEF x, y
  <2>2. QED BY <2>1
<1>5. \A n \in 0..N : rho[n] \in Reader /\ Size(rho[n]) \in Nat BY SizeGood
<1>6. \A n \in 1..N : Fits(rho[n - 1], rho[n], Len(ss[n])) OBVIOUS
<1> DEFINE T == {n \in 0..N : n # 0 => rho[n].open # NULL /\ Size(rho[n]) + m <= Size(q) + Len(phi[n])}
<1>7. 0 \in T BY <1>1
<1>8. ASSUME NEW n \in 1..N, n - 1 \in T PROVE n \in T
  <2>1. n \in 0..N /\ n - 1 \in 0..N /\ 1 \in 0..N BY <1>1, <1>8
  <2>2. CASE n = 1
    <3>1. Len(phi[0]) = 0 BY <1>3
    <3>2. Len(phi[1]) = Len(phi[0]) + m
      <4>1. Len(phi[1]) = Len(phi[1 - 1]) + Len(ss[1]) BY <1>1, <1>4
      <4>2. 1 - 1 = 0 OBVIOUS
      <4>3. QED BY <4>1, <4>2
    <3>3. m \in Nat /\ Size(q) \in Nat BY <1>1, <1>5, <2>1
    <3> HIDE DEF m
    <3>4. QED BY <2>1, <2>2, <3>1, <3>2, <3>3
  <2>3. CASE n # 1
    <3> DEFINE u == rho[n - 1]
               v == rho[n]
    <3>1. n - 1 # 0 BY <1>8, <2>3
    <3>2. u.open # NULL /\ Size(u) + m <= Size(q) + Len(phi[n - 1]) BY <1>8, <3>1
    <3>3. Fits(u, v, Len(ss[n])) BY <1>6, <1>8
    <3>4. Len(phi[n]) = Len(phi[n - 1]) + Len(ss[n]) /\ Len(phi[n - 1]) \in Nat /\ Len(ss[n]) \in Nat
      BY <1>1, <1>4, <1>8
    <3>5. Size(u) \in Nat /\ Size(v) \in Nat /\ Size(q) \in Nat /\ m \in Nat BY <1>1, <1>5, <2>1
    <3> HIDE DEF u, q, m, N
    <3>6. v.open # NULL /\ Size(v) <= Size(u) + Len(ss[n]) BY <3>2, <3>3 DEF Fits
    <3> HIDE DEF v
    <3>7. Size(v) + m <= Size(q) + Len(phi[n])
      <4> DEFINE a == Size(u)
                 b == Size(v)
                 c == Size(q)
                 i == Len(phi[n - 1])
                 j == Len(ss[n])
      <4>1. Len(phi[n]) = i + j /\ a + m <= c + i /\ b <= a + j BY <3>2, <3>4, <3>6
      <4>2. a \in Nat /\ b \in Nat /\ c \in Nat /\ i \in Nat /\ j \in Nat /\ m \in Nat
        BY <3>4, <3>5 DEF v
      <4> HIDE DEF a, b, c, i, j
      <4>3. b + m <= c + (i + j) BY <4>1, <4>2
      <4>4. QED BY <4>1, <4>3 DEF b, c
    <3>8. QED BY <2>1, <3>6, <3>7 DEF v
  <2>4. QED BY <2>2, <2>3
<1>9. \A n \in 0..N : n \in T
  <2> HIDE DEF T, N
  <2> QED BY <1>1, <1>7, <1>8, Climb
<1>10. N \in T BY <1>1, <1>9
<1>11. QED BY <1>1, <1>10

\* What holds of every line of a file holds of the file.
LEMMA CarriesPieces ==
  ASSUME NEW r, Tidy(r), NEW ss \in Seq(Seq(Line)),
         NEW rho \in [0..Len(ss) -> Reader], ReadsPieces(rho, r, ss),
         \A n \in 1..Len(ss) : Tidy(rho[n - 1]) => Carries(rho[n - 1], ss[n])
  PROVE  /\ Carries(r, FlattenSeq(ss)) /\ \A n \in 0..Len(ss) : Tidy(rho[n])
         /\ ss # <<>> => FitsFrom(r, ss)
<1> DEFINE N == Len(ss)
<1>1. N \in Nat /\ \A n \in 1..N : ss[n] \in Seq(Line) OBVIOUS
<1>2. PICK phi \in [0..N -> Seq(Line)] : Joins(phi, ss) BY FlattenTrace
<1>3. /\ phi[0] = <<>> /\ FlattenSeq(ss) = phi[N] /\ \A n \in 1..N : phi[n] = phi[n - 1] \o ss[n]
      /\ rho[0] = r /\ \A n \in 1..N : rho[n] = Read(rho[n - 1], ss[n])
  BY <1>2 DEF Joins, ReadsPieces
<1> HIDE DEF N
<1> DEFINE T == {n \in 0..N : Carries(r, phi[n]) /\ Read(r, phi[n]) = rho[n]}
<1>4. 0 \in T
  <2>1. Read(r, phi[0]) = rho[0] BY <1>3, ReadNone
  <2>2. Carries(r, phi[0]) BY <1>3, CarriesNone
  <2>3. QED BY <1>1, <2>1, <2>2
<1>5. ASSUME NEW n \in 1..N, n - 1 \in T PROVE n \in T
  <2> DEFINE s == phi[n - 1]
             t == ss[n]
  <2>1. n \in 0..N /\ n - 1 \in 0..N BY <1>1, <1>5
  <2>2. s \in Seq(Line) /\ t \in Seq(Line) /\ Carries(r, s) /\ Read(r, s) = rho[n - 1] /\ r \in Reader
    BY <1>1, <1>2, <1>5, <2>1 DEF N, Tidy
  <2>3. Carries(rho[n - 1], t) BY <2>2, <1>5 DEF Carries, Keeps, N
  <2>4. phi[n] = s \o t /\ rho[n] = Read(rho[n - 1], t) BY <1>3, <1>5
  <2> HIDE DEF s, t, T
  <2>5. Carries(r, s \o t) BY <2>2, <2>3, CarriesOn
  <2>6. Read(r, s \o t) = rho[n] BY <2>2, <2>4, ReadConcat
  <2>7. QED BY <2>1, <2>4, <2>5, <2>6 DEF T
<1>6. \A n \in 0..N : n \in T
  <2> HIDE DEF T
  <2>1. QED BY <1>1, <1>4, <1>5, Climb
<1>7. \A n \in 0..N : Tidy(rho[n]) BY <1>6 DEF Carries, Keeps
<1>8. N \in 0..N BY <1>1
<1>9. Carries(r, FlattenSeq(ss)) BY <1>3, <1>6, <1>8
<1>10. ASSUME ss # <<>> PROVE FitsFrom(r, ss)
  <2>1. ASSUME NEW n \in 1..N PROVE Fits(rho[n - 1], rho[n], Len(ss[n]))
    <3>1. n - 1 \in 0..N BY <1>1, <2>1
    <3>2. Carries(rho[n - 1], ss[n]) BY <1>7, <2>1, <3>1 DEF N
    <3>3. QED BY <1>3, <2>1, <3>2 DEF Carries
  <2>2. r \in Reader BY DEF Tidy
  <2>3. QED BY <1>10, <2>1, <2>2, FitsPieces DEF N
<1>11. QED BY <1>7, <1>9, <1>10 DEF N

\* A line of a comment.
LEMMA CarriesQuietLine ==
  ASSUME NEW r, Tidy(r), NEW l \in Quiet
  PROVE  Carries(r, <<l>>) /\ Size(Read(r, <<l>>)) <= Size(r) + 1
<1> DEFINE q == ReadLine(r, l)
           x == Noted(r.above)
           y == Solid(<<l>>)
<1>1. l \in Line /\ r \in Reader /\ r.above \in Note BY QuietLines DEF Tidy, Reader
<1>2. Read(r, <<l>>) = q BY <1>1, ReadOne
<1>3. PICK a : q = [r EXCEPT !.above = a] /\ Noted(a) = Join(x, y) /\ Deep(a) <= Deep(r.above) + 1
  <2>1. CASE l \in [type : {"comment"}, text : Text \ {""}]
    <3> DEFINE a == IF r.above = NULL THEN <<l.text>> ELSE Append(r.above, l.text)
    <3>1. l.type = "comment" /\ l.text \in Text /\ l.text # "" /\ l = [type |-> "comment", text |-> l.text]
      BY <2>1
    <3>2. q = [r EXCEPT !.above = a] BY <1>1, <3>1 DEF ReadLine, Reader
    <3>3. LineOf(l.text) = l BY <3>1 DEF LineOf, Remark
    <3>4. Noted(a) = Join(x, y)
      <4>1. CASE r.above = NULL
        <5>1. x = <<>> /\ Noted(a) = y BY <3>1, <3>3, <4>1, NotedNull, NotedOne
        <5>2. y \in Seq(Line) BY <1>1, Single, SolidGood
        <5> HIDE DEF x, y, a
        <5>3. QED BY <5>1, <5>2, JoinFacts
      <4>2. CASE r.above # NULL
        <5>1. r.above \in Lines BY <1>1, <4>2 DEF Note
        <5>2. QED BY <3>1, <3>3, <4>2, <5>1, NotedAppend
      <4>3. QED BY <4>1, <4>2
    <3>5. Deep(a) <= Deep(r.above) + 1
      <4>1. CASE r.above = NULL BY <4>1 DEF Deep
      <4>2. CASE r.above # NULL
        <5>1. r.above \in Lines BY <1>1, <4>2 DEF Note
        <5>2. Len(Append(r.above, l.text)) = Len(r.above) + 1 /\ Append(r.above, l.text) # NULL
          BY <3>1, <5>1, SplitAppend, ConfigAssumption
        <5>3. QED BY <4>2, <5>2, <5>1 DEF Deep, Lines
      <4>3. QED BY <4>1, <4>2
    <3> HIDE DEF a
    <3>6. QED BY <3>2, <3>4, <3>5
  <2>2. CASE l = EmptyLine
    <3> DEFINE a == IF r.above = NULL THEN NULL ELSE Append(r.above, "")
    <3>1. l.type = "empty" BY <2>2 DEF EmptyLine
    <3>2. q = [r EXCEPT !.above = a] BY <1>1, <3>1 DEF ReadLine, Reader
    <3>3. "" \in Text /\ LineOf("") = l BY <2>2, ConfigAssumption DEF LineOf
    <3>4. Noted(a) = Join(x, y)
      <4>1. CASE r.above = NULL
        <5>1. x = <<>> /\ a = NULL /\ y = <<>> BY <1>1, <3>1, <4>1, NotedNull, SolidFew
        <5>2. <<>> \in Seq(Line) BY EmptySeq
        <5> HIDE DEF x, y, a
        <5>3. Join(<<>>, <<>>) = <<>> BY <5>2, JoinFacts
        <5>4. QED BY <5>1, <5>3, NotedNull
      <4>2. CASE r.above # NULL
        <5>1. r.above \in Lines BY <1>1, <4>2 DEF Note
        <5> DEFINE t == ""
        <5>2. t \in Text /\ LineOf(t) = l /\ a = Append(r.above, t) BY <3>3, <4>2
        <5> HIDE DEF t, a
        <5>3. QED BY <5>1, <5>2, NotedAppend
      <4>3. QED BY <4>1, <4>2
    <3>5. Deep(a) <= Deep(r.above) + 1
      <4>1. CASE r.above = NULL BY <4>1 DEF Deep
      <4>2. CASE r.above # NULL
        <5>1. r.above \in Lines BY <1>1, <4>2 DEF Note
        <5> DEFINE t == ""
        <5>2. t \in Text /\ a = Append(r.above, t) BY <3>3, <4>2
        <5> HIDE DEF t, a
        <5>3. Len(a) = Len(r.above) + 1 /\ a # NULL BY <5>1, <5>2, SplitAppend, ConfigAssumption
        <5>4. QED BY <4>2, <5>1, <5>3 DEF Deep, Lines
      <4>3. QED BY <4>1, <4>2
    <3> HIDE DEF a
    <3>6. QED BY <3>2, <3>4, <3>5
  <2>3. QED BY <2>1, <2>2 DEF Quiet
<1>4. q \in Reader BY <1>1, ReadLineGood
<1>5. q.comment = r.comment /\ q.sections = r.sections /\ q.open = r.open /\ q.above = a
  BY <1>1, <1>3 DEF Reader
<1>6. x \in Seq(Line) /\ y \in Seq(Line) BY <1>1, NotedGood, Single, SolidGood
<1> HIDE DEF q, x, y
<1>7. Tidy(q) BY <1>4, <1>5 DEF Tidy
<1> DEFINE h == Join(Noted(r.comment), Body(r.sections))
           o == OpenLines(r)
<1>8. Out(r) = Join(h, Join(o, x)) /\ Out(q) = Join(h, Join(o, Join(x, y)))
  BY <1>3, <1>5 DEF Out, OpenLines, x
<1>9. o \in Seq(Line) /\ Noted(r.comment) \in Seq(Line) /\ Body(r.sections) \in Seq(Line) BY <1>1, OutGood
<1>10. h \in Seq(Line) BY <1>9, JoinFacts
<1> HIDE DEF h, o
<1>11. Join(o, Join(x, y)) = Join(Join(o, x), y) BY <1>6, <1>9, JoinAssociative
<1>12. Join(o, x) \in Seq(Line) BY <1>6, <1>9, JoinFacts
<1> DEFINE ox == Join(o, x)
<1>13. Out(r) = Join(h, ox) /\ Out(q) = Join(h, Join(ox, y)) /\ ox \in Seq(Line) BY <1>8, <1>11, <1>12
<1> HIDE DEF ox
<1>14. Join(h, Join(ox, y)) = Join(Join(h, ox), y) BY <1>6, <1>10, <1>13, JoinAssociative
<1>15. Fits(r, q, 1) /\ Size(q) <= Size(r) + 1
  <2>1. Rooted(r) => Rooted(q) BY <1>5 DEF Rooted, Foremost
  <2>2. Size(r) = HeadRows(r.comment) + BodyRows(r.sections) + OpenRows(r) + Deep(r.above)
        /\ Size(q) = HeadRows(r.comment) + BodyRows(r.sections) + OpenRows(r) + Deep(a)
    BY <1>5 DEF Size, OpenRows
  <2>3. /\ HeadRows(r.comment) \in Nat /\ BodyRows(r.sections) \in Nat /\ OpenRows(r) \in Nat
        /\ Deep(r.above) \in Nat /\ Deep(a) \in Nat
    BY <1>1, <1>4, <1>5, SizeGood
  <2>4. Size(q) <= Size(r) + 1 BY <1>3, <2>2, <2>3
  <2>5. QED BY <1>5, <2>1, <2>4 DEF Fits
<1>16. Len(<<l>>) = 1 OBVIOUS
<1>17. QED BY <1>2, <1>7, <1>13, <1>14, <1>15, <1>16 DEF Carries, Keeps, y

LEMMA CarriesQuiet ==
  ASSUME NEW r, Tidy(r), NEW lines \in Seq(Quiet)
  PROVE  Carries(r, lines) /\ Size(Read(r, lines)) <= Size(r) + Len(lines)
<1> DEFINE N == Len(lines)
           Front1(n) == SubSeq(lines, 1, n)
           T == {n \in 0..N : Carries(r, Front1(n)) /\ Size(Read(r, Front1(n))) <= Size(r) + n}
<1>1. N \in Nat /\ \A n \in 1..N : lines[n] \in Quiet OBVIOUS
<1>2. ASSUME NEW n \in 0..N
      PROVE  Front1(n) \in Seq(Quiet) /\ Len(Front1(n)) = n /\ \A i \in 1..n : Front1(n)[i] = lines[i]
  <2>1. n \in Nat /\ \A i \in 1..n : lines[i] \in Quiet BY <1>1, <1>2
  <2>2. QED BY <2>1, SubSeqProperties
<1> HIDE DEF Front1, N
<1>3. 0 \in T
  <2>1. 0 \in 0..N BY <1>1
  <2>2. Front1(0) = <<>> BY <1>2, <2>1, EmptySeq
  <2>3. Size(r) \in Nat BY SizeGood DEF Tidy
  <2>4. QED BY <2>1, <2>2, <2>3, CarriesNone, ReadNone
<1>4. ASSUME NEW n \in 1..N, n - 1 \in T PROVE n \in T
  <2> DEFINE e == Front1(n)
             f == Front1(n - 1)
             l == lines[n]
  <2>1. n \in 0..N /\ n - 1 \in 0..N /\ l \in Quiet /\ (n - 1) + 1 = n /\ n \in 1..n
        /\ \A i \in 1..(n - 1) : i \in 1..n
    BY <1>1, <1>4
  <2>2. /\ e \in Seq(Quiet) /\ Len(e) = n /\ \A i \in 1..n : e[i] = lines[i]
        /\ f \in Seq(Quiet) /\ Len(f) = n - 1 /\ \A i \in 1..(n - 1) : f[i] = lines[i]
    BY <1>2, <2>1
  <2>3. e = Append(f, l)
    <3>1. Len(e) = Len(f) + 1 /\ e[Len(f) + 1] = l /\ \A i \in 1..Len(f) : e[i] = f[i] BY <2>1, <2>2
    <3> HIDE DEF e, f, l
    <3>2. QED BY <2>1, <2>2, <3>1, AppendIs
  <2>4. Carries(r, f) /\ Size(Read(r, f)) <= Size(r) + (n - 1) BY <1>4
  <2> HIDE DEF e, f, l
  <2>5. e = f \o <<l>> /\ <<l>> \in Seq(Line) /\ f \in Seq(Line)
    BY <2>1, <2>2, <2>3, AppendIsConcat, QuietLines, Single
  <2>6. Carries(Read(r, f), <<l>>) BY <2>1, <2>4, CarriesQuietLine DEF Carries, Keeps
  <2>7. Carries(r, f \o <<l>>) BY <2>4, <2>5, <2>6, CarriesOn
  <2>8. Size(Read(r, e)) <= Size(r) + n
    <3> DEFINE q == Read(r, f)
               p == Read(q, <<l>>)
    <3>1. Tidy(q) /\ Tidy(p) BY <2>4, <2>6 DEF Carries, Keeps
    <3>2. Read(r, e) = p BY <2>5, ReadConcat DEF Tidy
    <3>3. Size(p) <= Size(q) + 1 BY <2>1, <3>1, CarriesQuietLine
    <3>4. Size(p) \in Nat /\ Size(q) \in Nat /\ Size(r) \in Nat BY <3>1, SizeGood DEF Tidy
    <3> HIDE DEF q, p
    <3>5. Size(p) <= Size(r) + n BY <2>1, <2>4, <3>3, <3>4 DEF q
    <3>6. QED BY <3>2, <3>5
  <2>9. QED BY <2>1, <2>5, <2>7, <2>8 DEF e
<1>5. N \in T
  <2> HIDE DEF T
  <2>1. \A n \in 0..N : n \in T BY <1>1, <1>3, <1>4, Climb
  <2>2. QED BY <1>1, <2>1
<1>6. Front1(N) = lines
  <2> DEFINE e == Front1(N)
  <2>1. e \in Seq(Quiet) /\ Len(e) = Len(lines) /\ \A i \in 1..Len(e) : e[i] = lines[i]
    BY <1>1, <1>2 DEF N
  <2> HIDE DEF e
  <2>2. e = lines BY <2>1, SeqEqual
  <2>3. QED BY <2>2 DEF e
<1>7. QED BY <1>5, <1>6 DEF N

\* The open section comes last, the default one included, which is the first.
LEMMA MergedTidy ==
  ASSUME NEW r, Tidy(r), r.open # NULL PROVE Merged(r) = Append(r.sections, r.open) /\ r.open \in SecRec
<1>1. Merged(r) = cfg_add_section(r.sections, r.open) BY DEF Merged, MergeSection, Tidy
<1>2. r.open \in SecRec BY DEF Tidy, Reader
<1>3. CASE r.open.name = ""
  <2> DEFINE o == r.open
  <2>1. r.sections = <<>> /\ o \in SecRec BY <1>2, <1>3 DEF Tidy
  <2>2. Merged(r) = <<o>> \o <<>> BY <1>1, <1>3, <2>1 DEF cfg_add_section
  <2> HIDE DEF o
  <2>3. <<o>> \o <<>> = <<o>> /\ Append(<<>>, o) = <<o>>
    <3>1. <<o>> \in Seq(SecRec) /\ <<>> \in Seq(SecRec) BY <2>1, Single, EmptySeq
    <3>2. <<o>> \o <<>> = <<o>> BY <3>1, ConcatEmptySeq
    <3>3. Append(<<>>, o) = <<>> \o <<o>> BY <2>1, <3>1, AppendIsConcat
    <3>4. <<>> \o <<o>> = <<o>> BY <3>1, ConcatEmptySeq
    <3>5. QED BY <3>2, <3>3, <3>4
  <2>4. QED BY <1>2, <2>1, <2>2, <2>3 DEF o
<1>4. CASE r.open.name # "" BY <1>1, <1>2, <1>4 DEF cfg_add_section
<1>5. QED BY <1>3, <1>4

LEMMA LineJoins ==
  /\ \A a, b, c \in Seq(Line) : Join(Join(a, b), c) = Join(a, Join(b, c))
  /\ \A a, b \in Seq(Line) : Join(a, b) \in Seq(Line)
  /\ \A a \in Seq(Line) : Join(a, <<>>) = a /\ Join(<<>>, a) = a
  /\ <<>> \in Seq(Line)
BY JoinAssociative, JoinFacts, EmptySeq

\* How the lines of the head (a), of the sections (b), of the open one (s) and above
\* (x) come to stand when a section begins (t is its header) or a key is set (m).
LEMMA Regroup ==
  ASSUME NEW a \in Seq(Line), NEW b \in Seq(Line), NEW s \in Seq(Line), NEW x \in Seq(Line),
         NEW t \in Seq(Line)
  PROVE  /\ Join(Join(a, <<>>), Join(Join(x, t), <<>>))
              = Join(Join(Join(<<>>, <<>>), Join(<<>>, Join(a, x))), t)
         /\ Join(Join(a, Join(b, s)), Join(Join(x, t), <<>>)) = Join(Join(Join(a, b), Join(s, x)), t)
         /\ Join(Join(a, b), Join(Join(s, Join(x, t)), <<>>)) = Join(Join(Join(a, b), Join(s, x)), t)
<1> DEFINE L == Seq(Line)
           none == <<>>
<1>1. /\ \A u, v, w \in L : Join(Join(u, v), w) = Join(u, Join(v, w))
      /\ \A u, v \in L : Join(u, v) \in L
      /\ \A u \in L : Join(u, none) = u /\ Join(none, u) = u
      /\ none \in L /\ a \in L /\ b \in L /\ s \in L /\ x \in L /\ t \in L
  BY LineJoins
<1> HIDE DEF L, none
<1>2. /\ Join(a, x) \in L /\ Join(x, t) \in L /\ Join(b, s) \in L /\ Join(s, x) \in L
      /\ Join(s, Join(x, t)) \in L /\ Join(a, b) \in L
  BY <1>1
<1>3. Join(Join(a, none), Join(Join(x, t), none)) = Join(a, Join(x, t)) BY <1>1, <1>2
<1>4. Join(Join(Join(none, none), Join(none, Join(a, x))), t) = Join(Join(a, x), t) BY <1>1, <1>2
<1>5. Join(Join(a, x), t) = Join(a, Join(x, t)) BY <1>1
<1>6. Join(Join(a, Join(b, s)), Join(Join(x, t), none)) = Join(Join(Join(a, b), s), Join(x, t))
  BY <1>1, <1>2
<1>7. Join(Join(Join(a, b), s), Join(x, t)) = Join(Join(a, b), Join(s, Join(x, t))) BY <1>1, <1>2
<1>8. Join(s, Join(x, t)) = Join(Join(s, x), t) BY <1>1
<1>9. Join(Join(a, b), Join(Join(s, x), t)) = Join(Join(Join(a, b), Join(s, x)), t) BY <1>1, <1>2
<1>10. Join(Join(s, Join(x, t)), none) = Join(s, Join(x, t)) BY <1>1, <1>2
<1>11. QED BY <1>3, <1>4, <1>5, <1>6, <1>7, <1>8, <1>9, <1>10 DEF none

\* A section begins: what was above its header, or the first key, is written
\* before it, at the head of the file or below its header.
Begins(r, n) == n \in Section /\ Index(Merged(r), n) = 0 /\ (n = "" => r.open = NULL)

LEMMA BeginCarries ==
  ASSUME NEW r, Tidy(r), NEW n, Begins(r, n)
  PROVE  Tidy(Begin(r, n)) /\ Out(Begin(r, n)) = Join(Out(r), Top(n)) /\ Begin(r, n).above = NULL
<1> DEFINE q == Begin(r, n)
           x == Noted(r.above)
           t == Top(n)
<1>0. n \in Section /\ Index(Merged(r), n) = 0 BY DEF Begins
<1>1. r \in Reader /\ r.above \in Note /\ q \in Reader /\ q.open \in SecRec /\ q.above = NULL
  BY <1>0, BeginGood DEF Tidy, Reader
<1>2. q.open # NULL BY <1>1, NullIsNoSection
<1>3. x \in Seq(Line) /\ t \in Seq(Line) BY <1>0, <1>1, NotedGood, TopLines
<1>4. \A c \in Note : SecLines(NoKeys(n, c)) = Join(Noted(c), t) BY <1>0, SecLinesNew
<1>5. ASSUME NEW c PROVE NoKeys(n, c).name = n BY DEF NoKeys
<1>6. CASE r.open = NULL
  <2> DEFINE u == HeadOf(r.above)
             v == SplitOff(r.above)
  <2>1. /\ q.comment = u /\ q.sections = <<>> /\ q.open = NoKeys(n, v)
        /\ r.comment = NULL /\ r.sections = <<>>
    BY <1>1, <1>6 DEF Begin, Reader, Tidy
  <2>2. u \in Note /\ v \in Note BY <1>1, SplitGood
  <2>3. Join(Noted(u), Noted(v)) = x BY <1>1, NotedSplit
  <2> HIDE DEF q, u, v, x, t
  <2>4. Index(<<>>, n) = 0
    <3>1. Merged(r) = <<>> BY <1>6, <2>1 DEF Merged
    <3>2. QED BY <1>0, <3>1
  <2>5. q.open.name = n BY <1>5, <2>1
  <2>6. Tidy(q) BY <1>1, <1>2, <2>1, <2>4, <2>5 DEF Tidy
  <2>7. Body(<<>>) = <<>>
    <3>1. <<>> \in Seq(SecRec) /\ q.open \in SecRec BY <1>1, EmptySeq
    <3>2. QED BY <3>1, BodyAppend
  <2> DEFINE a == Noted(u)
             b == Noted(v)
  <2>8. a \in Seq(Line) /\ b \in Seq(Line) BY <2>2, NotedGood
  <2>9. OpenLines(q) = Join(b, t) BY <1>2, <1>4, <2>1, <2>2 DEF OpenLines
  <2>10. Out(q) = Join(Join(a, <<>>), Join(Join(b, t), <<>>))
    BY <1>1, <2>1, <2>7, <2>9, NotedNull DEF Out
  <2>11. Out(r) = Join(Join(<<>>, <<>>), Join(<<>>, x))
    BY <1>6, <2>1, <2>7, NotedNull DEF Out, OpenLines, x
  <2>12. Join(a, b) = x BY <2>3
  <2> HIDE DEF a, b
  <2>13. Join(Join(a, <<>>), Join(Join(b, t), <<>>))
           = Join(Join(Join(<<>>, <<>>), Join(<<>>, Join(a, b))), t)
    <3>1. a \in Seq(Line) /\ b \in Seq(Line) /\ t \in Seq(Line) BY <1>3, <2>8
    <3>2. QED BY <3>1, Regroup
  <2>14. Out(q) = Join(Out(r), t) BY <2>10, <2>11, <2>12, <2>13
  <2>15. QED BY <1>1, <2>6, <2>14 DEF q, t
<1>7. CASE r.open # NULL
  <2> DEFINE s == SecLines(r.open)
             a == Noted(r.comment)
             b == Body(r.sections)
  <2>1. Merged(r) = Append(r.sections, r.open) /\ r.open \in SecRec BY <1>7, MergedTidy
  <2>2. q.comment = r.comment /\ q.sections = Append(r.sections, r.open) /\ q.open = NoKeys(n, r.above)
    BY <1>1, <1>7, <2>1 DEF Begin, Reader, Merged
  <2>3. r.sections \in Seq(SecRec) BY <1>1 DEF Reader, SecList
  <2>4. Body(q.sections) = Join(b, s) BY <2>1, <2>2, <2>3, BodyAppend
  <2>5. OpenLines(q) = Join(x, t) BY <1>1, <1>2, <1>4, <2>2 DEF OpenLines
  <2>6. a \in Seq(Line) /\ b \in Seq(Line) /\ s \in Seq(Line)
    BY <1>1, <2>1, OutGood, SecLinesGood
  <2>7. Out(q) = Join(Join(a, Join(b, s)), Join(Join(x, t), <<>>))
    BY <1>1, <2>2, <2>4, <2>5, NotedNull DEF Out
  <2>8. Out(r) = Join(Join(a, b), Join(s, x)) BY <1>7 DEF Out, OpenLines
  <2>9. q.open.name = n /\ Index(q.sections, n) = 0 BY <1>0, <1>5, <2>1, <2>2
  <2> HIDE DEF q, x, t, s, a, b
  <2>10. Tidy(q)
    <3>1. n # "" BY <1>7 DEF Begins
    <3>2. QED BY <1>1, <1>2, <2>9, <3>1 DEF Tidy
  <2>11. Join(Join(a, Join(b, s)), Join(Join(x, t), <<>>)) = Join(Join(Join(a, b), Join(s, x)), t)
    <3>1. a \in Seq(Line) /\ b \in Seq(Line) /\ s \in Seq(Line) /\ x \in Seq(Line) /\ t \in Seq(Line)
      BY <1>3, <2>6
    <3>2. QED BY <3>1, Regroup
  <2>12. Out(q) = Join(Out(r), t) BY <2>7, <2>8, <2>11
  <2>13. QED BY <1>1, <2>10, <2>12 DEF q, t
<1>8. QED BY <1>6, <1>7

\* How many lines a section makes when it begins.
LEMMA BeginFits ==
  ASSUME NEW r, Tidy(r), NEW n, Begins(r, n)
  PROVE  /\ r.open # NULL => /\ Size(Begin(r, n)) = Size(r) - Deep(r.above) + Rows(r.above) + Len(Top(n)) + 1
                             /\ Rooted(r) => Rooted(Begin(r, n))
         /\ r.open = NULL => /\ Size(Begin(r, n)) = Gathered(r.above) + Len(Top(n)) + 1
                             /\ Firm(Begin(r, n).open, Begin(r, n).comment)
                             /\ Begin(r, n).open.keys = <<>> /\ Begin(r, n).sections = <<>>
                             /\ n # "" => Rooted(Begin(r, n))
<1> DEFINE q == Begin(r, n)
           x == r.above
           t == Len(Top(n))
<1>0. n \in Section /\ Index(Merged(r), n) = 0 BY DEF Begins
<1>1. r \in Reader /\ x \in Note /\ q \in Reader /\ q.open \in SecRec /\ q.above = NULL
  BY <1>0, BeginGood DEF Tidy, Reader
<1>2. q.open # NULL BY <1>1, NullIsNoSection
<1>3. ASSUME NEW c \in Note
      PROVE  /\ SecRows(NoKeys(n, c)) = Rows(c) + t /\ t \in Nat /\ Rows(c) \in Nat
             /\ NoKeys(n, c).name = n /\ NoKeys(n, c).comment = c /\ NoKeys(n, c).keys = <<>>
  <2>1. NoKeys(n, c).name = n /\ NoKeys(n, c).comment = c /\ NoKeys(n, c).keys = <<>> BY DEF NoKeys
  <2>2. QED BY <1>0, <2>1, SectionRows, RowsGood
<1>4. Deep(NULL) = 0 /\ HeadRows(NULL) = 0 BY DEF Deep, HeadRows
<1>5. CASE r.open = NULL
  <2> DEFINE u == HeadOf(x)
             v == SplitOff(x)
  <2>1. q.comment = u /\ q.sections = <<>> /\ q.open = NoKeys(n, v)
    BY <1>1, <1>5 DEF Begin, Reader, Tidy
  <2>2. u \in Note /\ v \in Note /\ (u = NULL => v = NULL) /\ Rows(v) <= 1 BY <1>1, SplitFirm
  <2> HIDE DEF q, u, v, x, t
  <2>3. /\ SecRows(q.open) = Rows(v) + t /\ t \in Nat /\ Rows(v) \in Nat
        /\ q.open.name = n /\ q.open.comment = v /\ q.open.keys = <<>>
    BY <1>3, <2>1, <2>2
  <2>4. OpenRows(q) = Rows(v) + t + 1 BY <1>2, <2>3 DEF OpenRows
  <2>5. BodyRows(q.sections) = 0
    <3>1. <<>> \in Seq(SecRec) BY EmptySeq
    <3>2. QED BY <2>1, <3>1, BodyRowsGood
  <2>6. HeadRows(q.comment) = HeadRows(u) /\ HeadRows(u) \in Nat BY <2>1, <2>2, RowsGood
  <2>7. Size(q) = Gathered(x) + t + 1
    <3>1. Gathered(x) = HeadRows(u) + Rows(v) BY DEF Gathered, u, v
    <3>2. QED BY <1>1, <1>4, <2>3, <2>4, <2>5, <2>6, <3>1 DEF Size
  <2>8. Firm(q.open, q.comment) BY <2>1, <2>2, <2>3 DEF Firm
  <2>9. n # "" => Rooted(q)
    <3>1. Foremost(q) = q.open BY <2>1 DEF Foremost
    <3>2. QED BY <2>3, <2>8, <3>1 DEF Rooted, Bare
  <2>10. QED BY <1>5, <2>1, <2>3, <2>7, <2>8, <2>9 DEF q, x, t
<1>6. CASE r.open # NULL
  <2>1. Merged(r) = Append(r.sections, r.open) /\ r.open \in SecRec BY <1>6, MergedTidy
  <2>2. q.comment = r.comment /\ q.sections = Append(r.sections, r.open) /\ q.open = NoKeys(n, x)
    BY <1>1, <1>6, <2>1 DEF Begin, Reader, Merged
  <2>3. r.sections \in Seq(SecRec) BY <1>1 DEF Reader, SecList
  <2> HIDE DEF q, x, t
  <2>4. SecRows(q.open) = Rows(x) + t /\ t \in Nat /\ Rows(x) \in Nat BY <1>1, <1>3, <2>2
  <2>5. BodyRows(q.sections) = BodyRows(r.sections) + SecRows(r.open) + 1
        /\ BodyRows(r.sections) \in Nat /\ SecRows(r.open) \in Nat
    BY <2>1, <2>2, <2>3, BodyRowsGood, BlockRows
  <2>6. Size(q) = HeadRows(r.comment) + (BodyRows(r.sections) + SecRows(r.open) + 1) + (Rows(x) + t + 1) + 0
    BY <1>1, <1>2, <1>4, <2>2, <2>4, <2>5 DEF Size, OpenRows
  <2>7. Size(r) = HeadRows(r.comment) + BodyRows(r.sections) + (SecRows(r.open) + 1) + Deep(x)
    BY <1>6 DEF Size, OpenRows, x
  <2>8. HeadRows(r.comment) \in Nat /\ Deep(x) \in Nat BY <1>1, SizeGood DEF x
  <2>9. Size(q) = Size(r) - Deep(x) + Rows(x) + t + 1 BY <2>4, <2>5, <2>6, <2>7, <2>8
  <2>10. Foremost(q) = Foremost(r)
    <3> DEFINE ss == r.sections
               d == Append(ss, r.open)
    <3>1. /\ d # <<>> /\ d[Len(ss) + 1] = r.open /\ Len(ss) \in Nat
          /\ \A i \in 1..Len(ss) : d[i] = ss[i]
      BY <2>1, <2>3
    <3>2. CASE ss = <<>>
      <4>1. Foremost(r) = r.open /\ d[1] = r.open BY <3>1, <3>2 DEF Foremost
      <4>2. QED BY <2>2, <3>1, <4>1 DEF Foremost
    <3>3. CASE ss # <<>>
      <4>1. 1 \in 1..Len(ss) BY <2>3, <3>1, <3>3
      <4>2. d[1] = ss[1] BY <3>1, <4>1
      <4>3. QED BY <2>2, <3>1, <3>3, <4>2 DEF Foremost
    <3>4. QED BY <3>2, <3>3
  <2>11. Rooted(r) => Rooted(q) BY <1>6, <2>2, <2>10 DEF Rooted
  <2>12. QED BY <1>6, <2>9, <2>11 DEF q, x, t
<1>7. QED BY <1>5, <1>6

\* A key that the open section does not have yet, with the comment above it.
OneMore(r, k, v) ==
  [name |-> r.open.name, comment |-> r.open.comment,
   keys |-> Append(r.open.keys, [name |-> k, value |-> v, comment |-> r.above])]

LEMMA SettingReads ==
  ASSUME NEW r, Tidy(r), r.open # NULL, NEW k \in Key, NEW v \in Value, Index(r.open.keys, k) = 0
  PROVE  /\ ReadLine(r, Setting(k, v)) \in Reader /\ Tidy(ReadLine(r, Setting(k, v)))
         /\ ReadLine(r, Setting(k, v)).comment = r.comment
         /\ ReadLine(r, Setting(k, v)).sections = r.sections
         /\ ReadLine(r, Setting(k, v)).above = NULL
         /\ ReadLine(r, Setting(k, v)).open = OneMore(r, k, v)
         /\ ReadLine(r, Setting(k, v)).open # NULL
         /\ [name |-> k, value |-> v, comment |-> r.above] \in KeyRec
<1> DEFINE l == Setting(k, v)
           q == ReadLine(r, l)
           x == [name |-> k, value |-> v, comment |-> r.above]
           ks == r.open.keys
           o == [name |-> r.open.name, comment |-> r.open.comment, keys |-> Append(ks, x)]
<1>1. r \in Reader /\ r.open \in SecRec /\ r.above \in Note BY DEF Tidy, Reader
<1>2. x \in KeyRec BY <1>1 DEF KeyRec
<1>3. l \in [type : {"key"}, text : Key, value : Value] /\ l.text = k /\ l.value = v /\ l.type = "key"
  BY DEF Setting
<1>4. q = cfg_read_key(r, l) BY <1>3 DEF ReadLine
<1>5. q \in Reader /\ q.open \in SecRec
  <2> HIDE DEF l, q
  <2> QED BY <1>1, <1>3, <1>4, ReadKeyGood
<1>6. q.comment = r.comment /\ q.sections = r.sections /\ q.above = NULL /\ q.open = o
  <2>1. r = [comment |-> r.comment, sections |-> r.sections, open |-> r.open, above |-> r.above]
    BY <1>1 DEF Reader
  <2>2. r.open = [name |-> r.open.name, comment |-> r.open.comment, keys |-> ks]
    BY <1>1 DEF SecRec
  <2>3. MergeKey(ks, x) = Append(ks, x) BY DEF MergeKey
  <2>4. q = [[r EXCEPT !.above = NULL] EXCEPT !.open = [r.open EXCEPT !.keys = Append(ks, x)]]
    BY <1>3, <1>4, <2>1, <2>2, <2>3 DEF cfg_read_key
  <2> DEFINE d == Append(ks, x)
  <2> HIDE DEF q, x, l, d
  <2>5. /\ q.open = [r.open EXCEPT !.keys = d] /\ q.sections = r.sections /\ q.above = NULL
        /\ q.comment = r.comment
    BY <2>1, <2>4 DEF d
  <2> HIDE DEF ks
  <2>6. [r.open EXCEPT !.keys = d] = [name |-> r.open.name, comment |-> r.open.comment, keys |-> d]
    BY <2>2
  <2>7. QED BY <2>5, <2>6 DEF d
<1>7. q.open # NULL /\ q.open.name = r.open.name
  <2>1. o.name = r.open.name OBVIOUS
  <2> HIDE DEF q, o
  <2>2. QED BY <1>5, <1>6, <2>1, NullIsNoSection
<1>8. Tidy(q)
  <2> HIDE DEF q, o
  <2> QED BY <1>5, <1>6, <1>7 DEF Tidy
<1>9. QED BY <1>2, <1>5, <1>6, <1>7, <1>8 DEF OneMore

LEMMA SettingCarries ==
  ASSUME NEW r, Tidy(r), r.open # NULL, NEW k \in Key, NEW v \in Value, Index(r.open.keys, k) = 0
  PROVE  /\ Tidy(ReadLine(r, Setting(k, v)))
         /\ Out(ReadLine(r, Setting(k, v))) = Join(Out(r), <<Setting(k, v)>>)
         /\ ReadLine(r, Setting(k, v)).above = NULL
<1> DEFINE l == Setting(k, v)
           q == ReadLine(r, l)
           x == [name |-> k, value |-> v, comment |-> r.above]
           o == OneMore(r, k, v)
<1>1. r \in Reader /\ r.open \in SecRec /\ r.above \in Note BY DEF Tidy, Reader
<1>2. /\ q.comment = r.comment /\ q.sections = r.sections /\ q.above = NULL /\ q.open = o
      /\ q.open # NULL /\ Tidy(q) /\ x \in KeyRec
  BY SettingReads
<1>8. Shown(v) = v
  <2>1. v # NULL BY ConfigAssumption
  <2>2. QED BY <2>1 DEF Shown
<1>9. SecLines(o) = Join(SecLines(r.open), Join(Noted(r.above), <<l>>))
  <2>1. x.name = k /\ x.comment = r.above /\ Shown(x.value) = v BY <1>8
  <2> HIDE DEF x
  <2>2. o = [name |-> r.open.name, comment |-> r.open.comment, keys |-> Append(r.open.keys, x)]
    BY DEF OneMore, x
  <2> HIDE DEF o
  <2>3. SecLines(o) = Join(SecLines(r.open), Join(Noted(x.comment), <<Setting(x.name, Shown(x.value))>>))
    BY <1>1, <1>2, <2>2, SecLinesKey
  <2>4. QED BY <2>1, <2>3
<1>10. <<l>> \in Seq(Line) BY SettingLines
<1> DEFINE s == SecLines(r.open)
           y == Noted(r.above)
           m == <<l>>
           a == Noted(r.comment)
           b == Body(r.sections)
<1>11. s \in Seq(Line) /\ y \in Seq(Line) /\ m \in Seq(Line) /\ a \in Seq(Line) /\ b \in Seq(Line)
  BY <1>1, <1>10, OutGood, SecLinesGood
<1> HIDE DEF q, l, o
<1>13. OpenLines(q) = Join(s, Join(y, m)) BY <1>2, <1>9 DEF OpenLines
<1>14. Out(q) = Join(Join(a, b), Join(Join(s, Join(y, m)), <<>>)) BY <1>2, <1>13, NotedNull DEF Out
<1>15. Out(r) = Join(Join(a, b), Join(s, y)) BY DEF Out, OpenLines
<1> HIDE DEF s, y, m, a, b
<1>16. Out(q) = Join(Out(r), m) BY <1>11, <1>14, <1>15, Regroup
<1>17. QED BY <1>2, <1>16 DEF q, l, m

\* How many lines the key makes.
LEMMA SettingFits ==
  ASSUME NEW r, Tidy(r), r.open # NULL, NEW k \in Key, NEW v \in Value, Index(r.open.keys, k) = 0
  PROVE  /\ ReadLine(r, Setting(k, v)).open # NULL
         /\ Size(ReadLine(r, Setting(k, v))) <= Size(r) + 1
         /\ Rooted(r) => Rooted(ReadLine(r, Setting(k, v)))
         /\ Firm(r.open, r.comment) /\ r.sections = <<>> /\ r.open.keys = <<>> /\ r.above = NULL
               => Rooted(ReadLine(r, Setting(k, v)))
<1> DEFINE q == ReadLine(r, Setting(k, v))
           x == [name |-> k, value |-> v, comment |-> r.above]
           o == OneMore(r, k, v)
           ks == r.open.keys
<1>1. r \in Reader /\ r.open \in SecRec /\ r.above \in Note BY DEF Tidy, Reader
<1>2. /\ q.comment = r.comment /\ q.sections = r.sections /\ q.above = NULL /\ q.open = o
      /\ q.open # NULL /\ x \in KeyRec
  BY SettingReads
<1>3. o = [name |-> r.open.name, comment |-> r.open.comment, keys |-> Append(ks, x)] BY DEF OneMore
<1>4. x.comment = r.above OBVIOUS
<1>5. ks \in Seq(KeyRec) BY <1>1 DEF SecRec, KeyList
<1> HIDE DEF q, o, x
<1>6. SecRows(o) = SecRows(r.open) + Rows(r.above) + 1 /\ SecRows(r.open) \in Nat
  BY <1>1, <1>2, <1>3, <1>4, KeyRows
<1>7. Size(q) <= Size(r) + 1
  <2>1. Size(q) = HeadRows(r.comment) + BodyRows(r.sections) + (SecRows(r.open) + Rows(r.above) + 1 + 1) + 0
    BY <1>2, <1>6, RowsGood, <1>1 DEF Size, OpenRows
  <2>2. Size(r) = HeadRows(r.comment) + BodyRows(r.sections) + (SecRows(r.open) + 1) + Deep(r.above)
    BY DEF Size, OpenRows
  <2>3. Rows(r.above) \in Nat /\ Rows(r.above) <= Deep(r.above) /\ Deep(r.above) \in Nat
    BY <1>1, RowsGood
  <2>4. HeadRows(r.comment) \in Nat /\ BodyRows(r.sections) \in Nat BY <1>1, SizeGood
  <2>5. QED BY <1>6, <2>1, <2>2, <2>3, <2>4
<1>8. /\ o.name = r.open.name /\ o.comment = r.open.comment /\ o.keys = Append(ks, x)
      /\ Append(ks, x) # <<>>
      /\ ks # <<>> => Append(ks, x)[1] = ks[1]
      /\ ks = <<>> => Append(ks, x)[1] = x
  <2> HIDE DEF ks
  <2>1. Append(ks, x) # <<>> BY <1>2, <1>5
  <2>2. ks # <<>> => Append(ks, x)[1] = ks[1] BY <1>2, <1>5
  <2>3. ks = <<>> => Append(ks, x)[1] = x BY <1>2, <1>5
  <2>4. QED BY <1>3, <2>1, <2>2, <2>3 DEF ks
<1>9. CASE r.sections # <<>>
  <2>1. Foremost(q) = Foremost(r) BY <1>2, <1>9 DEF Foremost
  <2>2. Rooted(r) => Rooted(q) BY <1>2, <2>1 DEF Rooted
  <2>3. QED BY <1>2, <1>7, <1>9, <2>2 DEF q
<1>10. CASE r.sections = <<>>
  <2>1. Foremost(q) = o /\ Foremost(r) = r.open BY <1>2, <1>10 DEF Foremost
  <2>2. Firm(r.open, r.comment) => Firm(o, q.comment) BY <1>2, <1>8 DEF Firm
  <2>3. Bare(r.open) => Bare(o) BY <1>8 DEF Bare, ks
  <2>4. r.open.keys = <<>> /\ r.above = NULL => Bare(o) BY <1>4, <1>8 DEF Bare, ks
  <2>5. Rooted(r) => Rooted(q) BY <2>1, <2>2, <2>3 DEF Rooted
  <2>6. Firm(r.open, r.comment) /\ r.open.keys = <<>> /\ r.above = NULL => Rooted(q)
    BY <2>1, <2>2, <2>4 DEF Rooted
  <2>7. QED BY <1>2, <1>7, <2>5, <2>6 DEF q
<1>11. QED BY <1>9, <1>10
\* A comment that has been written is below no key once the key is read.
Closed(r) == r.open # NULL => r.above = NULL

\* A key of a section, with the comment above it.
LEMMA KeyCarries ==
  ASSUME NEW S, NEW n, NEW P, NEW r, Tidy(r), Holding(r, S, n, P) \/ r.open = NULL, NEW k \in KeyRec,
         \A p \in P : Lower[p[1]] # Lower[k.name]
  PROVE  /\ Carries(r, cfg_write_key(k)) /\ Closed(Read(r, cfg_write_key(k)))
         /\ r.open = NULL /\ k.comment = NULL =>
              /\ Read(r, cfg_write_key(k)).open # NULL
              /\ Size(Read(r, cfg_write_key(k))) <= Gathered(r.above) + 2
              /\ Len(cfg_write_key(k)) = 1
<1> DEFINE c == cfg_write_comment(k.comment)
           v == Shown(k.value)
           l == Setting(k.name, v)
           q == Read(r, c)
           b == IF q.open = NULL THEN Begin(q, "") ELSE q
           e == ReadLine(b, l)
<1>1. c \in Seq(Quiet) /\ c \in Seq(Line) BY WriteNoteGood, QuietLines DEF KeyRec
<1>2. k.name \in Key /\ v \in Value BY ShownGood DEF KeyRec
<1>3. l \in Line /\ Solid(<<l>>) = <<l>> /\ <<l>> \in Seq(Line) BY <1>2, SettingLines
<1>4. cfg_write_key(k) = Append(c, l) BY DEF cfg_write_key, Shown
<1>5. l.type = "key" BY DEF Setting
<1>6. r \in Reader BY DEF Tidy
<1> HIDE DEF c, v
<1>7. q \in Reader /\ q.open = r.open /\ q.sections = r.sections BY <1>1, <1>6, ReadQuiet
<1>8. Tidy(q) /\ Out(q) = Join(Out(r), Solid(c)) /\ Fits(r, q, Len(c)) BY <1>1, CarriesQuiet DEF Carries, Keeps
<1>9. Read(r, Append(c, l)) = ReadLine(q, l)
  <2> HIDE DEF l, q
  <2> QED BY <1>1, <1>3, <1>6, ReadAppend DEF q
<1> HIDE DEF q
<1>10. /\ Tidy(b) /\ Out(b) = Out(q) /\ b.open # NULL /\ Index(b.open.keys, k.name) = 0
       /\ q.open = NULL => /\ Firm(b.open, b.comment) /\ b.sections = <<>> /\ b.open.keys = <<>>
                           /\ b.above = NULL /\ Size(b) = Gathered(q.above) + 1
       /\ q.open # NULL => b = q
  <2>1. CASE q.open = NULL
    <3> DEFINE m == ""
               d == Begin(q, m)
    <3>1. m \in Section BY ConfigAssumption
    <3>2. Begins(q, m)
      <4>1. Merged(q) = <<>> BY <1>8, <2>1 DEF Merged, Tidy
      <4>2. Index(<<>>, m) = 0
        <5> DEFINE none == <<>>
        <5>1. none \in Seq(SecRec) /\ DOMAIN none = {} BY EmptySeq
        <5> HIDE DEF none, m
        <5>2. Index(none, m) = 0 BY <5>1, IndexFacts
        <5>3. QED BY <5>2 DEF none
      <4>3. QED BY <2>1, <3>1, <4>1, <4>2 DEF Begins
    <3>3. Top(m) = <<>> BY DEF Top
    <3>4. Holding(d, Merged(q), m, {}) BY <1>7, <3>1, BeginOpens
    <3> HIDE DEF m
    <3>5. Tidy(d) /\ Out(d) = Join(Out(q), Top(m)) /\ d.above = NULL BY <1>8, <3>2, BeginCarries
    <3>6. Out(q) \in Seq(Line) BY <1>7, OutGood
    <3>7. Out(d) = Out(q) BY <3>3, <3>5, <3>6, LineJoins
    <3> HIDE DEF d
    <3>8. d.open # NULL /\ Index(d.open.keys, k.name) = 0 BY <3>4, FreshKey
    <3>9. /\ Size(d) = Gathered(q.above) + Len(Top(m)) + 1 /\ Firm(d.open, d.comment)
          /\ d.open.keys = <<>> /\ d.sections = <<>>
      BY <1>8, <2>1, <3>2, BeginFits DEF d
    <3>10. Len(Top(m)) = 0 BY <3>3
    <3>11. Gathered(q.above) \in Nat
      <4>1. q.above \in Note BY <1>7 DEF Reader
      <4>2. QED BY <4>1, GatheredGood
    <3> DEFINE g == Gathered(q.above)
    <3> HIDE DEF g
    <3>12. Size(d) = g + 1
      <4>1. Size(d) = g + 0 + 1 /\ g \in Nat BY <3>9, <3>10, <3>11 DEF g
      <4>2. QED BY <4>1
    <3>13. b = d BY <2>1 DEF d, m
    <3> HIDE DEF b
    <3>14. QED BY <2>1, <3>5, <3>7, <3>8, <3>9, <3>12, <3>13 DEF g
  <2>2. CASE q.open # NULL
    <3>1. Holding(q, S, n, P) BY <1>7, <2>2 DEF Holding
    <3>2. Index(q.open.keys, k.name) = 0 BY <3>1, FreshKey
    <3>3. b = q BY <2>2
    <3> HIDE DEF b
    <3>4. QED BY <1>8, <2>2, <3>2, <3>3
  <2>3. QED BY <2>1, <2>2
<1>11. ReadLine(q, l) = e
  <2>1. ReadLine(q, l) = cfg_read_key(b, l) BY <1>5 DEF ReadLine
  <2> HIDE DEF b
  <2>2. e = cfg_read_key(b, l) BY <1>5, <1>10 DEF ReadLine
  <2>3. QED BY <2>1, <2>2
<1> HIDE DEF b
<1>12. Tidy(e) /\ Out(e) = Join(Out(b), <<l>>) /\ e.above = NULL BY <1>2, <1>10, SettingCarries
<1> HIDE DEF e, l
<1>13. Out(r) \in Seq(Line) /\ Solid(c) \in Seq(Line) BY <1>1, <1>6, OutGood, SolidGood
<1>14. Solid(Append(c, l)) = Join(Solid(c), <<l>>) BY <1>1, <1>3, SolidAppend
<1>15. Out(e) = Join(Out(r), Solid(Append(c, l)))
  <2> DEFINE m == <<l>>
             u == Out(r)
             w == Solid(c)
  <2>1. m \in Seq(Line) /\ u \in Seq(Line) /\ w \in Seq(Line) BY <1>3, <1>13
  <2>2. Out(e) = Join(Join(u, w), m) /\ Solid(Append(c, l)) = Join(w, m) BY <1>8, <1>10, <1>12, <1>14
  <2> HIDE DEF m, u, w
  <2>3. Join(Join(u, w), m) = Join(u, Join(w, m)) BY <2>1, LineJoins
  <2>4. QED BY <2>2, <2>3 DEF u
<1>16. /\ e.open # NULL /\ Size(e) <= Size(b) + 1 /\ (Rooted(b) => Rooted(e))
       /\ (Firm(b.open, b.comment) /\ b.sections = <<>> /\ b.open.keys = <<>> /\ b.above = NULL => Rooted(e))
  BY <1>2, <1>10, SettingFits DEF e, l
<1>17. Fits(q, e, 1)
  <2>1. CASE q.open = NULL BY <1>10, <1>16, <2>1 DEF Fits
  <2>2. CASE q.open # NULL BY <1>10, <1>16, <2>2 DEF Fits
  <2>3. QED BY <2>1, <2>2
<1>18. Len(c) \in Nat /\ Len(Append(c, l)) = Len(c) + 1 BY <1>1, <1>3, LenProperties, AppendProperties
<1>19. Fits(r, e, Len(Append(c, l)))
  <2>1. e \in Reader BY <1>12 DEF Tidy
  <2>2. Fits(r, e, Len(c) + 1) BY <1>6, <1>7, <1>8, <1>17, <1>18, <2>1, FitsOn
  <2>3. QED BY <1>18, <2>2
<1>20. ASSUME r.open = NULL, k.comment = NULL
       PROVE  e.open # NULL /\ Size(e) <= Gathered(r.above) + 2 /\ Len(Append(c, l)) = 1
  <2>1. c = <<>> BY <1>20 DEF c, cfg_write_comment
  <2>2. q = r BY <2>1, ReadNone DEF q
  <2>3. Size(b) = Gathered(r.above) + 1 BY <1>10, <1>20, <2>2
  <2>4. r.above \in Note BY <1>6 DEF Reader
  <2>5. Gathered(r.above) \in Nat BY <2>4, GatheredGood
  <2>6. Size(e) \in Nat BY <1>12, SizeGood DEF Tidy
  <2> DEFINE g == Gathered(r.above)
             x == Size(e)
             y == Size(b)
  <2>7. g \in Nat /\ x \in Nat /\ y = g + 1 /\ x <= y + 1 BY <1>16, <2>3, <2>5, <2>6
  <2> HIDE DEF g, x, y
  <2>8. x <= g + 2 BY <2>7
  <2>9. Len(Append(c, l)) = 1 BY <1>18, <2>1
  <2>10. QED BY <1>16, <2>8, <2>9 DEF x, g
<1>21. QED BY <1>4, <1>9, <1>11, <1>12, <1>15, <1>19, <1>20 DEF Carries, Keeps, Closed

\* The keys of a section.
LEMMA KeysCarry ==
  ASSUME NEW r, Tidy(r), Closed(r), NEW S, NEW n, NEW ks \in KeyList, Reading(r, S, n, {}, TRUE)
  PROVE  /\ Carries(r, FlattenSeq(KeyLines(ks))) /\ Closed(Read(r, FlattenSeq(KeyLines(ks))))
         /\ ks # <<>> /\ ks[1].comment = NULL /\ r.open = NULL =>
              /\ Read(r, FlattenSeq(KeyLines(ks))).open # NULL
              /\ Size(Read(r, FlattenSeq(KeyLines(ks)))) <= Gathered(r.above) + 1 + Len(FlattenSeq(KeyLines(ks)))
<1> DEFINE N == Len(ks)
           ss == KeyLines(ks)
<1>0. r \in Reader BY DEF Tidy
<1>1. ks \in Seq(KeyRec) /\ N \in Nat /\ DOMAIN ks = 1..N /\ r \in Reader BY <1>0 DEF KeyList
<1>2. ss \in Seq(Seq(Line)) BY <1>1, KeyLinesGood
<1> HIDE DEF ss
<1>3. PICK rho \in [0..Len(ss) -> Reader] : ReadsPieces(rho, r, ss) BY <1>1, <1>2, ReadFlatten
<1>4. /\ Len(ss) = N /\ \A i \in 1..N : ss[i] = cfg_write_key(ks[i])
      /\ \A m \in 0..N : Reading(rho[m], S, n, Pairs(ks, m), m = 0)
  BY <1>3, KeysRead DEF ss
<1>5. ASSUME NEW m \in 1..N, Tidy(rho[m - 1])
      PROVE  Carries(rho[m - 1], ss[m]) /\ Closed(Read(rho[m - 1], ss[m]))
  <2> DEFINE q == rho[m - 1]
             P == Pairs(ks, m - 1)
  <2>1. ks[m] \in KeyRec /\ ss[m] = cfg_write_key(ks[m]) BY <1>1, <1>4, <1>5
  <2>2. \A x \in P : Lower[x[1]] # Lower[ks[m].name] BY <1>1, <1>5, EarlierKeys DEF N
  <2>3. m - 1 \in 0..N BY <1>1, <1>5
  <2>4. Holding(q, S, n, P) \/ q.open = NULL BY <1>4, <2>3 DEF Reading
  <2>5. Tidy(q) BY <1>5
  <2> HIDE DEF q, P
  <2>6. Carries(q, cfg_write_key(ks[m])) /\ Closed(Read(q, cfg_write_key(ks[m])))
    BY <2>1, <2>2, <2>4, <2>5, KeyCarries
  <2>7. QED BY <2>1, <2>6 DEF q
<1> HIDE DEF N
<1>6. Carries(r, FlattenSeq(ss)) /\ (\A m \in 0..N : Tidy(rho[m])) /\ (ss # <<>> => FitsFrom(r, ss))
  BY <1>2, <1>3, <1>4, <1>5, CarriesPieces
<1>7. Closed(Read(r, FlattenSeq(ss)))
  <2>1. /\ rho[0] = r /\ Read(r, FlattenSeq(ss)) = rho[N]
        /\ \A m \in 1..N : rho[m] = Read(rho[m - 1], ss[m])
    BY <1>3, <1>4 DEF ReadsPieces
  <2>2. CASE N = 0 BY <2>1, <2>2
  <2>3. CASE N # 0
    <3>1. N \in 1..N /\ N - 1 \in 0..N BY <1>1, <2>3
    <3>2. Closed(Read(rho[N - 1], ss[N])) BY <1>5, <1>6, <3>1
    <3>3. QED BY <2>1, <3>1, <3>2
  <2>4. QED BY <2>2, <2>3
<1> DEFINE f == FlattenSeq(ss)
           e == Read(r, f)
<1>8. ASSUME ks # <<>>, ks[1].comment = NULL, r.open = NULL
      PROVE  e.open # NULL /\ Size(e) <= Gathered(r.above) + 1 + Len(f)
  <2> DEFINE k == ks[1]
             x == cfg_write_key(k)
             q == Read(r, x)
  <2>1. N # 0 /\ 1 \in 1..N /\ k \in KeyRec BY <1>1, <1>8 DEF N
  <2>2. ss[1] = x /\ ss # <<>> BY <1>2, <1>4, <2>1
  <2> HIDE DEF q
  <2>3. q.open # NULL /\ Size(q) <= Gathered(r.above) + 2 /\ Len(x) = 1 /\ Tidy(q)
    <3> DEFINE P == {}
    <3>1. \A p \in P : Lower[p[1]] # Lower[k.name] OBVIOUS
    <3> HIDE DEF k, P, x
    <3>2. k \in KeyRec /\ k.comment = NULL /\ (Holding(r, S, n, P) \/ r.open = NULL) BY <1>8, <2>1 DEF k
    <3>3. /\ Carries(r, cfg_write_key(k)) /\ Read(r, cfg_write_key(k)).open # NULL
          /\ Size(Read(r, cfg_write_key(k))) <= Gathered(r.above) + 2
          /\ Len(cfg_write_key(k)) = 1
      BY <1>8, <3>1, <3>2, KeyCarries
    <3>4. QED BY <3>3 DEF q, x, Carries, Keeps
  <2> HIDE DEF x
  <2>4. e.open # NULL /\ Size(e) + 1 <= Size(q) + Len(f)
    BY <1>6, <2>2, <2>3 DEF FitsFrom, q
  <2>5. r.above \in Note BY <1>1 DEF Reader
  <2>6. Gathered(r.above) \in Nat BY <2>5, GatheredGood
  <2>7. Size(q) \in Nat BY <2>3, SizeGood DEF Tidy
  <2>8. Size(e) \in Nat BY <1>6, SizeGood DEF Carries, Keeps, Tidy
  <2>9. Len(f) \in Nat BY <1>2, FlattenGood, LenProperties
  <2> DEFINE g == Gathered(r.above)
             i == Size(q)
             j == Size(e)
             m == Len(f)
  <2>10. g \in Nat /\ i \in Nat /\ j \in Nat /\ m \in Nat /\ i <= g + 2 /\ j + 1 <= i + m
    BY <2>3, <2>4, <2>6, <2>7, <2>8, <2>9
  <2> HIDE DEF g, i, j, m
  <2>11. j <= g + 1 + m BY <2>10
  <2>12. QED BY <2>4, <2>11 DEF g, j, m
<1>9. QED BY <1>6, <1>7, <1>8 DEF ss, f, e

\* How many lines the first section makes.
Starts(r, s) ==
  r.open = NULL /\ Bare(s) =>
    /\ Read(r, Block(s)).open # NULL
    /\ Size(Read(r, Block(s))) + Rows(s.comment)
         <= Gathered(Read(r, cfg_write_comment(s.comment)).above) + Len(Block(s))

\* A section, with the blank line after it.
LEMMA SectionCarries ==
  ASSUME NEW r, Tidy(r), NEW s \in SecRec, Begins(r, s.name)
  PROVE  Carries(r, Block(s)) /\ Closed(Read(r, Block(s))) /\ Starts(r, s)
<1> DEFINE n == s.name
           a == cfg_write_comment(s.comment)
           b == IF n = "" THEN <<>> ELSE <<Header(n)>>
           f == FlattenSeq(KeyLines(s.keys))
           z == <<EmptyLine>>
           S == Merged(r)
           q1 == Read(r, a)
           q2 == Read(q1, b)
           q3 == Read(q2, f)
           q4 == Read(q3, z)
<1>1. n \in Section /\ s.comment \in Note /\ s.keys \in KeyList /\ s.keys \in Seq(KeyRec)
  BY DEF SecRec, KeyList
<1>2. a \in Seq(Quiet) /\ a \in Seq(Line) BY <1>1, WriteNoteGood, QuietLines
<1>3. Header(n) \in Line /\ <<Header(n)>> \in Seq(Line) /\ Solid(<<Header(n)>>) = <<Header(n)>>
  BY <1>1, HeaderLines
<1>4. b \in Seq(Line) BY <1>3, EmptySeq
<1>5. f \in Seq(Line) BY <1>1, KeyLinesGood, FlattenGood
<1>6. cfg_write_section(s) = (a \o b) \o f BY DEF cfg_write_section, KeyLines
<1>7. EmptyLine \in Quiet /\ EmptyLine \in Line /\ z \in Seq(Quiet) /\ z \in Seq(Line)
  <2>1. EmptyLine \in Quiet BY DEF Quiet
  <2>2. z \in Seq(Quiet) BY <2>1, Single
  <2>3. QED BY <2>1, <2>2, QuietLines
<1>8. r \in Reader BY DEF Tidy
<1> HIDE DEF a, z, f
<1>9. Carries(r, a) /\ Tidy(q1) BY <1>2, CarriesQuiet DEF Carries, Keeps
<1>10. q1 \in Reader /\ q1.sections = r.sections /\ q1.open = r.open BY <1>2, <1>8, ReadQuiet
<1>11. Merged(q1) = S /\ Begins(q1, n)
  <2>1. Merged(q1) = S BY <1>10 DEF Merged
  <2> HIDE DEF q1, S
  <2>2. Begins(q1, n) BY <1>10, <2>1 DEF Begins, S
  <2>3. QED BY <2>1, <2>2
<1> HIDE DEF q1
<1>12. /\ Keeps(q1, b) /\ Closed(q2) /\ Reading(q2, S, n, {}, TRUE)
       /\ Fits(q1, q2, Len(b) + 1)
       /\ q1.open = NULL /\ n # "" => q2.open # NULL /\ Size(q2) = Gathered(q1.above) + Len(b) + 1
       /\ n = "" => q2 = q1 /\ Len(b) = 0
  <2>1. CASE n = ""
    <3>1. b = <<>> /\ q1.open = NULL BY <1>11, <2>1 DEF Begins
    <3>2. q2 = q1 BY <3>1, ReadNone
    <3> HIDE DEF b, q2
    <3>3. Keeps(q1, b) BY <1>9, <3>1, CarriesNone DEF Carries
    <3>4. q1.sections = S BY <1>11, <3>1 DEF Merged
    <3>5. Fits(q1, q2, Len(b) + 1) BY <3>1, <3>2 DEF Fits
    <3>6. Len(b) = 0 BY <3>1
    <3>7. QED BY <1>10, <2>1, <3>1, <3>2, <3>3, <3>4, <3>5, <3>6 DEF Closed, Reading
  <2>2. CASE n # ""
    <3> DEFINE h == Header(n)
               d == Begin(q1, n)
    <3>1. b = <<h>> /\ Top(n) = <<h>> BY <2>2 DEF Top
    <3>2. Read(q1, <<h>>) = ReadLine(q1, h) BY <1>3, <1>10, ReadOne
    <3>3. ReadLine(q1, h) = d BY DEF ReadLine, Header
    <3>4. Tidy(d) /\ Out(d) = Join(Out(q1), Top(n)) /\ d.above = NULL BY <1>9, <1>11, BeginCarries
    <3>5. Holding(d, S, n, {}) BY <1>1, <1>10, <1>11, BeginOpens
    <3>6. /\ q1.open # NULL => /\ Size(d) = Size(q1) - Deep(q1.above) + Rows(q1.above) + Len(Top(n)) + 1
                               /\ Rooted(q1) => Rooted(d)
          /\ q1.open = NULL => Size(d) = Gathered(q1.above) + Len(Top(n)) + 1 /\ Rooted(d)
      BY <1>9, <1>11, <2>2, BeginFits
    <3> HIDE DEF h, d, b, q2
    <3>7. Read(q1, b) = d BY <3>1, <3>2, <3>3
    <3>8. Solid(b) = Top(n) /\ Len(b) = Len(Top(n)) BY <1>3, <3>1 DEF h
    <3>9. Keeps(q1, b) BY <3>4, <3>7, <3>8 DEF Keeps
    <3>10. d.open # NULL BY <3>5, NullIsNoSection DEF Holding
    <3>11. Fits(q1, d, Len(b) + 1)
      <4>1. q1.above \in Note BY <1>10 DEF Reader
      <4>2. Rows(q1.above) \in Nat /\ Deep(q1.above) \in Nat /\ Rows(q1.above) <= Deep(q1.above)
        BY <4>1, RowsGood
      <4>3. Size(q1) \in Nat /\ Len(b) \in Nat BY <1>4, <1>10, SizeGood, LenProperties
      <4> DEFINE i == Size(q1)
                 j == Size(d)
                 u == Deep(q1.above)
                 v == Rows(q1.above)
                 m == Len(b)
      <4>4. q1.open # NULL => j = i - u + v + m + 1 BY <3>6, <3>8
      <4>5. i \in Nat /\ u \in Nat /\ v \in Nat /\ m \in Nat /\ v <= u BY <4>2, <4>3
      <4> HIDE DEF i, j, u, v, m
      <4>6. q1.open # NULL => j <= i + (m + 1) BY <4>4, <4>5
      <4>7. Rooted(q1) => Rooted(d) BY <3>6
      <4>8. QED BY <3>10, <4>6, <4>7 DEF Fits, i, j, m
    <3>12. QED BY <2>2, <3>4, <3>5, <3>6, <3>7, <3>8, <3>9, <3>10, <3>11 DEF Closed, Reading, q2
  <2>3. QED BY <2>1, <2>2
<1> HIDE DEF b, S, n
<1>13. Tidy(q2) BY <1>12 DEF Keeps
<1> HIDE DEF q2
<1>14. /\ Carries(q2, f) /\ Closed(q3)
       /\ s.keys # <<>> /\ s.keys[1].comment = NULL /\ q2.open = NULL =>
            q3.open # NULL /\ Size(q3) <= Gathered(q2.above) + 1 + Len(f)
  BY <1>1, <1>12, <1>13, KeysCarry DEF f
<1>15. Tidy(q3) /\ q3 \in Reader BY <1>14 DEF Carries, Keeps, Tidy
<1> HIDE DEF q3
<1>16. Carries(q3, z) BY <1>7, <1>15, CarriesQuietLine DEF z
<1>17. Closed(q4) /\ q4 \in Reader /\ (q3.open # NULL => q4.open # NULL /\ Size(q4) = Size(q3))
       /\ Fits(q3, q4, 0)
  <2>1. q4.open = q3.open /\ q4.sections = q3.sections /\ q4 \in Reader BY <1>7, <1>15, ReadQuiet
  <2>2. q4 = ReadLine(q3, EmptyLine) BY <1>7, <1>15, ReadOne DEF z
  <2>3. EmptyLine.type = "empty" BY DEF EmptyLine
  <2>4. q4 = [q3 EXCEPT !.above = IF @ = NULL THEN NULL ELSE Append(@, "")] BY <2>2, <2>3 DEF ReadLine
  <2> HIDE DEF q4
  <2>5. q4.comment = q3.comment /\ (q3.above = NULL => q4.above = NULL) BY <1>15, <2>4 DEF Reader
  <2>6. q3.open # NULL => Size(q4) = Size(q3) BY <1>14, <2>1, <2>5 DEF Closed, Size, OpenRows
  <2>7. Rooted(q3) => Rooted(q4) BY <2>1, <2>5 DEF Rooted, Foremost
  <2>8. Size(q3) \in Nat BY <1>15, SizeGood
  <2>9. Fits(q3, q4, 0) BY <2>1, <2>6, <2>7, <2>8 DEF Fits
  <2>10. QED BY <1>14, <2>1, <2>5, <2>6, <2>9 DEF Closed
<1> HIDE DEF q4
<1> DEFINE ab == a \o b
           abf == ab \o f
<1>18. ab \in Seq(Line) BY <1>2, <1>4, ConcatProperties
<1>19. Keeps(r, ab) /\ Read(r, ab) = q2
  <2>1. Keeps(r, ab) BY <1>2, <1>4, <1>9, <1>12, KeepsOn DEF q1, Carries
  <2>2. Read(r, ab) = q2 BY <1>2, <1>4, <1>8, ReadConcat DEF q1, q2
  <2>3. QED BY <2>1, <2>2
<1> HIDE DEF ab
<1>20. abf \in Seq(Line) BY <1>5, <1>18, ConcatProperties
<1>21. Keeps(r, abf) /\ Read(r, abf) = q3
  <2>1. Keeps(r, abf) BY <1>5, <1>14, <1>18, <1>19, KeepsOn DEF Carries
  <2>2. Read(r, abf) = q3 BY <1>5, <1>8, <1>18, <1>19, ReadConcat DEF q3
  <2>3. QED BY <2>1, <2>2
<1> HIDE DEF abf
<1>22. Keeps(r, abf \o z) /\ Read(r, abf \o z) = q4
  <2>1. Keeps(r, abf \o z) BY <1>7, <1>16, <1>20, <1>21, KeepsOn DEF Carries
  <2>2. Read(r, abf \o z) = q4 BY <1>7, <1>8, <1>20, <1>21, ReadConcat DEF q4
  <2>3. QED BY <2>1, <2>2
<1>23. Block(s) = abf \o z
  <2>1. cfg_write_section(s) = abf BY <1>6 DEF ab, abf
  <2>2. Append(abf, EmptyLine) = abf \o z BY <1>7, <1>20, AppendIsConcat DEF z
  <2>3. QED BY <2>1, <2>2 DEF Block
<1> DEFINE i == Len(a)
           j == Len(b)
           m == Len(f)
<1>24. i \in Nat /\ j \in Nat /\ m \in Nat /\ Len(Block(s)) = i + j + m + 1
  <2>1. i \in Nat /\ j \in Nat /\ m \in Nat BY <1>2, <1>4, <1>5, LenProperties
  <2>2. Len(ab) = i + j BY <1>2, <1>4, ConcatProperties DEF ab
  <2>3. Len(abf) = Len(ab) + m BY <1>5, <1>18, ConcatProperties DEF abf
  <2>4. Len(abf \o z) = Len(abf) + Len(z) /\ Len(z) = 1 BY <1>7, <1>20, ConcatProperties DEF z
  <2> HIDE DEF i, j, m
  <2>5. QED BY <1>23, <2>1, <2>2, <2>3, <2>4
<1>25. q2 \in Reader BY <1>13 DEF Tidy
<1>26. Fits(r, q4, i + j + m + 1)
  <2>1. Fits(r, q1, i) /\ Fits(q1, q2, j + 1) /\ Fits(q2, q3, m) /\ Fits(q3, q4, 0)
    BY <1>9, <1>12, <1>14, <1>17 DEF Carries, q1, q3
  <2> HIDE DEF i, j, m
  <2>2. i \in Int /\ j + 1 \in Int /\ m \in Int /\ 0 \in Int /\ i + (j + 1) \in Int
        /\ (i + (j + 1)) + m \in Int
    BY <1>24
  <2>3. Fits(r, q2, i + (j + 1)) BY <1>8, <1>10, <1>25, <2>1, <2>2, FitsOn
  <2>4. Fits(r, q3, (i + (j + 1)) + m) BY <1>8, <1>15, <1>25, <2>1, <2>2, <2>3, FitsOn
  <2>5. Fits(r, q4, ((i + (j + 1)) + m) + 0) BY <1>8, <1>15, <1>17, <2>1, <2>2, <2>4, FitsOn
  <2>6. ((i + (j + 1)) + m) + 0 = i + j + m + 1 BY <1>24
  <2>7. QED BY <2>5, <2>6
<1>27. ASSUME r.open = NULL, Bare(s)
       PROVE  q4.open # NULL /\ Size(q4) + i <= Gathered(q1.above) + (i + j + m + 1)
  <2> DEFINE g == Gathered(q1.above)
  <2>1. g \in Nat
    <3>1. q1.above \in Note BY <1>10 DEF Reader
    <3>2. QED BY <3>1, GatheredGood
  <2>2. Size(q2) \in Nat /\ Size(q3) \in Nat BY <1>15, <1>25, SizeGood
  <2>3. q1.open = NULL BY <1>10, <1>27
  <2>4. q3.open # NULL /\ Size(q3) <= g + j + 1 + m
    <3>1. CASE n = ""
      <4>1. q2 = q1 /\ j = 0 BY <1>12, <3>1
      <4>2. s.keys # <<>> /\ s.keys[1].comment = NULL BY <1>27, <3>1 DEF Bare, n
      <4>3. q3.open # NULL /\ Size(q3) <= g + 1 + m BY <1>14, <2>3, <4>1, <4>2
      <4> HIDE DEF g, j, m
      <4>4. QED BY <1>24, <2>1, <4>1, <4>3
    <3>2. CASE n # ""
      <4>1. q2.open # NULL /\ Size(q2) = g + j + 1 BY <1>12, <2>3, <3>2
      <4>2. Fits(q2, q3, m) BY <1>14 DEF Carries, q3
      <4>3. q3.open # NULL /\ Size(q3) <= Size(q2) + m BY <4>1, <4>2 DEF Fits
      <4> HIDE DEF g, j, m
      <4>4. QED BY <1>24, <2>1, <2>2, <4>1, <4>3
    <3>3. QED BY <3>1, <3>2
  <2>5. q4.open # NULL /\ Size(q4) = Size(q3) BY <1>17, <2>4
  <2> HIDE DEF g, i, j, m
  <2>6. Size(q4) + i <= g + (i + j + m + 1) BY <1>24, <2>1, <2>2, <2>4, <2>5
  <2>7. QED BY <2>5, <2>6 DEF g
<1>28. Starts(r, s) BY <1>22, <1>23, <1>24, <1>27 DEF Starts, Rows, i, q1, a
<1>29. QED BY <1>17, <1>22, <1>23, <1>24, <1>26, <1>28 DEF Carries

\* The next section has a name of its own.
LEMMA NextBegins ==
  ASSUME NEW ss \in SecList, NEW j \in 1..Len(ss), NEW q, Loaded(q, ss, j - 1)
  PROVE  ss[j] \in SecRec /\ Begins(q, ss[j].name)
<1> DEFINE s == ss[j]
           S == Merged(q)
<1>1. /\ ss \in Seq(SecRec) /\ Distinct(ss) /\ DefaultFirst(ss)
      /\ j \in Nat \ {0} /\ j \in DOMAIN ss /\ DOMAIN ss = 1..Len(ss) /\ Len(ss) \in Nat
  BY DEF SecList
<1>2. s \in SecRec /\ s.name \in Section
  <2>1. s \in SecRec BY <1>1
  <2> HIDE DEF s
  <2>2. QED BY <2>1 DEF SecRec
<1>3. /\ q \in Reader
      /\ \A i \in DOMAIN S : \E h \in 1..(j - 1) : S[i].name = ss[h].name
      /\ j - 1 = 0 => q.open = NULL
  BY DEF Loaded
<1>4. s.name = "" => q.open = NULL
  <2>1. s.name = "" => j = 1 BY <1>1 DEF DefaultFirst
  <2>2. j = 1 => j - 1 = 0 OBVIOUS
  <2>3. QED BY <1>3, <2>1, <2>2
<1>5. S \in Seq(SecRec) BY <1>3, MergedGood DEF SecList
<1>6. ASSUME NEW i \in DOMAIN S PROVE Lower[S[i].name] # Lower[s.name]
  <2>1. PICK h \in 1..(j - 1) : S[i].name = ss[h].name BY <1>3, <1>6
  <2>2. h \in 1..Len(ss) /\ h # j BY <1>1
  <2>3. QED BY <1>1, <2>1, <2>2 DEF Distinct
<1> HIDE DEF S, s
<1>7. Index(S, s.name) = 0 BY <1>5, <1>6, IndexFacts
<1>8. QED BY <1>2, <1>4, <1>7 DEF Begins, S, s

\* All sections of a handle, one after the other.
LEMMA SectionsRead ==
  ASSUME NEW ss \in SecList, NEW q, Loaded(q, ss, 0), NEW rho, ReadsPieces(rho, q, Blocks(ss))
  PROVE  \A m \in 0..Len(ss) : Loaded(rho[m], ss, m)
<1> DEFINE N == Len(ss)
           bs == Blocks(ss)
<1>1. ss \in Seq(SecRec) /\ N \in Nat BY DEF SecList
<1>2. Len(bs) = N /\ \A i \in 1..N : bs[i] = Append(cfg_write_section(ss[i]), EmptyLine)
  BY <1>1, BlocksGood DEF Block
<1> HIDE DEF bs
<1>3. rho[0] = q /\ \A i \in 1..N : rho[i] = Read(rho[i - 1], Append(cfg_write_section(ss[i]), EmptyLine))
  BY <1>2 DEF ReadsPieces, bs
<1> HIDE DEF N
<1> DEFINE T == {m \in 0..N : Loaded(rho[m], ss, m)}
<1>4. 0 \in T BY <1>1, <1>3
<1>5. ASSUME NEW m \in 1..N, m - 1 \in T PROVE m \in T
  <2>1. Loaded(rho[m - 1], ss, m - 1) /\ m \in 1..Len(ss) /\ m \in 0..N BY <1>1, <1>5 DEF N
  <2>2. rho[m] = Read(rho[m - 1], Append(cfg_write_section(ss[m]), EmptyLine)) BY <1>3, <1>5
  <2>3. Loaded(rho[m], ss, m) BY <2>1, <2>2, ReadNextSection
  <2>4. QED BY <2>1, <2>3
<1>6. \A m \in 0..N : m \in T
  <2> HIDE DEF T
  <2>1. QED BY <1>1, <1>4, <1>5, Climb
<1>7. QED BY <1>6 DEF N

\* The lines before the first section.
HeadLines(c) ==
  IF c.comment = NULL THEN <<>> ELSE Append(cfg_write_comment(c.comment), EmptyLine)

LEMMA HeadRead ==
  ASSUME NEW c \in Handle
  PROVE  /\ HeadLines(c) \in Seq(Quiet) /\ HeadLines(c) \in Seq(Line)
         /\ FlattenSeq(Blocks(c.sections)) \in Seq(Line)
         /\ cfg_write(c) = HeadLines(c) \o FlattenSeq(Blocks(c.sections))
         /\ FirstReader \in Reader
         /\ Read(FirstReader, HeadLines(c)).open = NULL
         /\ Loaded(Read(FirstReader, HeadLines(c)), c.sections, 0)
<1> DEFINE a == HeadLines(c)
           q == Read(FirstReader, a)
<1>1. c.comment \in Note /\ c.sections \in Seq(SecRec) BY DEF Handle, SecList
<1>2. a \in Seq(Quiet) /\ a \in Seq(Line)
  <2>1. cfg_write_comment(c.comment) \in Seq(Quiet) /\ EmptyLine \in Quiet
    BY <1>1, WriteNoteGood DEF Quiet
  <2>2. Append(cfg_write_comment(c.comment), EmptyLine) \in Seq(Quiet) BY <2>1, AppendProperties
  <2>3. <<>> \in Seq(Quiet) BY EmptySeq
  <2>4. a \in Seq(Quiet) BY <2>2, <2>3 DEF HeadLines
  <2> HIDE DEF a
  <2>5. QED BY <2>4, QuietLines
<1>3. FlattenSeq(Blocks(c.sections)) \in Seq(Line) BY <1>1, BlocksGood, FlattenGood
<1>4. cfg_write(c) = a \o FlattenSeq(Blocks(c.sections)) BY DEF cfg_write, HeadLines, Blocks, Block
<1>5. FirstReader \in Reader BY EmptyList DEF FirstReader, Reader, Note
<1> HIDE DEF a
<1>6. q \in Reader /\ q.sections = <<>> /\ q.open = NULL
  <2>1. q \in Reader /\ q.sections = FirstReader.sections /\ q.open = FirstReader.open
    BY <1>2, <1>5, ReadQuiet
  <2>2. QED BY <2>1 DEF FirstReader
<1> HIDE DEF q
<1>7. Loaded(q, c.sections, 0)
  <2>1. Merged(q) = <<>> BY <1>6 DEF Merged
  <2>2. All(<<>>) = {} /\ Settings(c.sections, 0) = {} BY NoSettings DEF All
  <2>3. DOMAIN <<>> = {} /\ 1..0 = {} OBVIOUS
  <2>4. QED BY <1>6, <2>1, <2>2, <2>3 DEF Loaded
<1>8. QED BY <1>2, <1>3, <1>4, <1>5, <1>6, <1>7 DEF a, q

\* How many lines a handle is written as.
LEMMA HandleRows ==
  ASSUME NEW c \in Handle
  PROVE  /\ Len(HeadLines(c)) = HeadRows(c.comment)
         /\ Len(cfg_write(c)) = HeadRows(c.comment) + BodyRows(c.sections)
<1> DEFINE a == HeadLines(c)
           f == FlattenSeq(Blocks(c.sections))
           n == cfg_write_comment(c.comment)
<1>1. a \in Seq(Line) /\ f \in Seq(Line) /\ cfg_write(c) = Join(a, f) BY HeadRead DEF Join
<1>2. n \in Seq(Line) /\ EmptyLine \in Line
  <2>1. c.comment \in Note BY DEF Handle
  <2>2. QED BY <2>1, WriteNoteGood, QuietLines DEF Line
<1>3. Len(a) = HeadRows(c.comment)
  <2>1. CASE c.comment = NULL BY <2>1 DEF HeadLines, HeadRows
  <2>2. CASE c.comment # NULL
    <3>1. a = Append(n, EmptyLine) BY <2>2 DEF HeadLines
    <3> HIDE DEF a, n
    <3>2. Len(a) = Len(n) + 1 BY <1>2, <3>1
    <3>3. QED BY <2>2, <3>2 DEF HeadRows, Rows, n
  <2>3. QED BY <2>1, <2>2
<1> HIDE DEF a, f
<1>4. Len(Join(a, f)) = Len(a) + Len(f) BY <1>1, JoinFacts
<1>5. QED BY <1>1, <1>3, <1>4 DEF BodyRows, a, f
\* What has been read at the end of the file says what the handle said.
LEMMA ReadBack ==
  ASSUME NEW c \in Handle
  PROVE  Loaded(Read(FirstReader, cfg_write(c)), c.sections, Len(c.sections))
<1> DEFINE ss == c.sections
           a == HeadLines(c)
           bs == Blocks(ss)
           q == Read(FirstReader, a)
           N == Len(ss)
<1>1. ss \in SecList /\ ss \in Seq(SecRec) /\ N \in Nat BY DEF Handle, SecList
<1>2. bs \in Seq(Seq(Line)) /\ Len(bs) = N BY <1>1, BlocksGood
<1>3. /\ a \in Seq(Line) /\ FlattenSeq(bs) \in Seq(Line) /\ cfg_write(c) = a \o FlattenSeq(bs)
      /\ FirstReader \in Reader /\ Loaded(q, ss, 0) /\ q \in Reader
  BY HeadRead DEF Loaded
<1> HIDE DEF a, bs, ss
<1>4. Read(FirstReader, cfg_write(c)) = Read(q, FlattenSeq(bs)) BY <1>3, ReadConcat
<1> HIDE DEF q
<1>5. PICK rho \in [0..Len(bs) -> Reader] : ReadsPieces(rho, q, bs) BY <1>2, <1>3, ReadFlatten
<1>6. \A m \in 0..N : Loaded(rho[m], ss, m) BY <1>1, <1>3, <1>5, SectionsRead DEF bs
<1>7. Read(q, FlattenSeq(bs)) = rho[N] /\ N \in 0..N BY <1>1, <1>2, <1>5 DEF ReadsPieces
<1>8. QED BY <1>4, <1>6, <1>7 DEF ss

LEMMA SectionsCarry ==
  ASSUME NEW ss \in SecList, NEW q, Tidy(q), Closed(q), Loaded(q, ss, 0)
  PROVE  /\ Carries(q, FlattenSeq(Blocks(ss))) /\ Closed(Read(q, FlattenSeq(Blocks(ss))))
         /\ ss # <<>> /\ Bare(ss[1]) /\ q.open = NULL =>
              /\ Read(q, FlattenSeq(Blocks(ss))).open # NULL
              /\ Size(Read(q, FlattenSeq(Blocks(ss)))) + Rows(ss[1].comment)
                   <= Gathered(Read(q, cfg_write_comment(ss[1].comment)).above) + Len(FlattenSeq(Blocks(ss)))
<1> DEFINE N == Len(ss)
           bs == Blocks(ss)
<1>0. q \in Reader BY DEF Tidy
<1>1. ss \in Seq(SecRec) /\ N \in Nat BY DEF SecList
<1>2. bs \in Seq(Seq(Line)) /\ Len(bs) = N /\ \A i \in 1..N : bs[i] = Block(ss[i]) BY <1>1, BlocksGood
<1> HIDE DEF bs
<1>3. PICK rho \in [0..Len(bs) -> Reader] : ReadsPieces(rho, q, bs) BY <1>0, <1>2, ReadFlatten
<1>4. \A m \in 0..N : Loaded(rho[m], ss, m) BY <1>3, SectionsRead DEF bs
<1>5. ASSUME NEW m \in 1..N, Tidy(rho[m - 1])
      PROVE  Carries(rho[m - 1], bs[m]) /\ Closed(Read(rho[m - 1], bs[m])) /\ Starts(rho[m - 1], ss[m])
  <2>1. m - 1 \in 0..N BY <1>1, <1>5
  <2>2. ss[m] \in SecRec /\ Begins(rho[m - 1], ss[m].name) BY <1>4, <1>5, <2>1, NextBegins
  <2>3. QED BY <1>2, <1>5, <2>2, SectionCarries
<1> HIDE DEF N
<1>6. Carries(q, FlattenSeq(bs)) /\ (\A m \in 0..N : Tidy(rho[m])) /\ (bs # <<>> => FitsFrom(q, bs))
  BY <1>2, <1>3, <1>5, CarriesPieces
<1>7. Closed(Read(q, FlattenSeq(bs)))
  <2>1. /\ rho[0] = q /\ Read(q, FlattenSeq(bs)) = rho[N]
        /\ \A m \in 1..N : rho[m] = Read(rho[m - 1], bs[m])
    BY <1>2, <1>3 DEF ReadsPieces
  <2>2. CASE N = 0 BY <2>1, <2>2
  <2>3. CASE N # 0
    <3>1. N \in 1..N /\ N - 1 \in 0..N BY <1>1, <2>3
    <3>2. Closed(Read(rho[N - 1], bs[N])) BY <1>5, <1>6, <3>1
    <3>3. QED BY <2>1, <3>1, <3>2
  <2>4. QED BY <2>2, <2>3
<1> DEFINE f == FlattenSeq(bs)
           p == Read(q, f)
           s == ss[1]
           a == cfg_write_comment(s.comment)
<1>8. ASSUME ss # <<>>, Bare(s), q.open = NULL
      PROVE  p.open # NULL /\ Size(p) + Rows(s.comment) <= Gathered(Read(q, a).above) + Len(f)
  <2> DEFINE x == Read(q, Block(s))
  <2>1. 1 \in 1..N /\ 1 - 1 = 0 /\ s \in SecRec BY <1>1, <1>8 DEF N
  <2>2. bs[1] = Block(s) /\ bs # <<>> /\ rho[0] = q BY <1>2, <1>3, <2>1 DEF ReadsPieces
  <2>3. Starts(q, s) /\ Carries(q, Block(s))
    <3>1. Tidy(rho[1 - 1]) BY <2>1, <2>2
    <3>2. Starts(rho[1 - 1], s) /\ Carries(rho[1 - 1], bs[1]) BY <1>5, <2>1, <3>1
    <3>3. QED BY <2>1, <2>2, <3>2
  <2> HIDE DEF s
  <2>4. x.open # NULL /\ Size(x) + Rows(s.comment) <= Gathered(Read(q, a).above) + Len(Block(s))
    BY <1>8, <2>3 DEF Starts
  <2> HIDE DEF a
  <2>5. p.open # NULL /\ Size(p) + Len(Block(s)) <= Size(x) + Len(f)
    BY <1>6, <2>2, <2>4 DEF FitsFrom
  <2>6. Size(x) \in Nat /\ Size(p) \in Nat BY <1>6, <2>3, SizeGood DEF Carries, Keeps, Tidy
  <2>7. Len(f) \in Nat /\ Len(Block(s)) \in Nat BY <1>2, <2>1, FlattenGood, BlockGood, LenProperties
  <2>8. s.comment \in Note BY <2>1 DEF SecRec
  <2>9. Rows(s.comment) \in Nat BY <2>8, RowsGood
  <2>10. Gathered(Read(q, a).above) \in Nat
    <3>1. a \in Seq(Quiet) BY <2>8, WriteNoteGood DEF a
    <3>2. Read(q, a) \in Reader BY <1>0, <3>1, ReadQuiet
    <3>3. Read(q, a).above \in Note BY <3>2 DEF Reader
    <3>4. QED BY <3>3, GatheredGood
  <2> DEFINE g == Gathered(Read(q, a).above)
             i == Size(x)
             j == Size(p)
             m == Len(f)
             h == Len(Block(s))
             k == Rows(s.comment)
  <2>11. /\ g \in Nat /\ i \in Nat /\ j \in Nat /\ m \in Nat /\ h \in Nat /\ k \in Nat
         /\ i + k <= g + h /\ j + h <= i + m
    BY <2>4, <2>5, <2>6, <2>7, <2>9, <2>10
  <2> HIDE DEF g, i, j, m, h, k
  <2>12. j + k <= g + m BY <2>11
  <2>13. QED BY <2>5, <2>12 DEF g, j, m, k
<1>9. QED BY <1>6, <1>7, <1>8 DEF bs, f, p, s, a

\* A whole file.
LEMMA FileCarries ==
  ASSUME NEW c \in Handle
  PROVE  /\ Tidy(Read(FirstReader, cfg_write(c))) /\ Closed(Read(FirstReader, cfg_write(c)))
         /\ Out(Read(FirstReader, cfg_write(c))) = Solid(cfg_write(c))
         /\ Rooted(Read(FirstReader, cfg_write(c)))
<1> DEFINE r == FirstReader
           a == HeadLines(c)
           f == FlattenSeq(Blocks(c.sections))
           q == Read(r, a)
           p == Read(q, f)
<1>1. c.sections \in SecList BY DEF Handle
<1>2. /\ a \in Seq(Quiet) /\ a \in Seq(Line) /\ f \in Seq(Line) /\ cfg_write(c) = a \o f
      /\ r \in Reader /\ q.open = NULL /\ Loaded(q, c.sections, 0)
  BY HeadRead
<1>3. /\ r \in Reader /\ Tidy(r)
      /\ r.comment = NULL /\ r.sections = <<>> /\ r.open = NULL /\ r.above = NULL
  <2>1. /\ r.comment = NULL /\ r.sections = <<>> /\ r.open = NULL /\ r.above = NULL
    BY DEF FirstReader
  <2>2. QED BY <1>2, <2>1 DEF Tidy
<1> HIDE DEF a, f, r
<1>4. Out(r) = <<>>
  <2>1. Noted(r.comment) = <<>> /\ Noted(r.above) = <<>> /\ OpenLines(r) = <<>>
    BY <1>3, NotedNull DEF OpenLines
  <2>2. Body(r.sections) = <<>> BY <1>3, BodyNone
  <2> DEFINE none == <<>>
  <2>3. Out(r) = Join(Join(none, none), Join(none, none)) BY <2>1, <2>2 DEF Out
  <2>4. none \in Seq(Line) /\ \A x \in Seq(Line) : Join(x, none) = x BY LineJoins
  <2> HIDE DEF none
  <2>5. Out(r) = none BY <2>3, <2>4
  <2>6. QED BY <2>5 DEF none
<1>5. Carries(r, a) /\ Tidy(q) BY <1>2, <1>3, CarriesQuiet DEF Carries, Keeps
<1> HIDE DEF q
<1>6. Carries(q, f) /\ Closed(p) BY <1>1, <1>2, <1>5, SectionsCarry DEF f, Closed
<1> HIDE DEF p
<1>7. Carries(r, a \o f) BY <1>2, <1>3, <1>5, <1>6, CarriesOn DEF q
<1>8. Read(r, a \o f) = p BY <1>2, <1>3, ReadConcat DEF p, q
<1>9. Out(p) = Solid(a \o f)
  <2> DEFINE x == Solid(a \o f)
  <2>1. x \in Seq(Line) BY <1>2, ConcatProperties, SolidGood
  <2>2. Out(p) = Join(<<>>, x) BY <1>4, <1>7, <1>8 DEF Carries, Keeps
  <2> HIDE DEF x
  <2>3. Out(p) = x BY <2>1, <2>2, LineJoins
  <2>4. QED BY <2>3 DEF x
<1>10. Rooted(p) BY <1>3, <1>7, <1>8 DEF Carries, Fits, Rooted
<1>11. QED BY <1>2, <1>6, <1>7, <1>8, <1>9, <1>10 DEF Carries, Keeps, r

-----------------------------------------------------------------------------
(* A file that has been loaded and saved once: nothing moves to its head.   *)

Spaced(c)  == IF c = NULL THEN NULL ELSE Append(c, "")
Told(c, t) == IF c = NULL THEN <<t>> ELSE Append(c, t)

LEMMA GatheredFew ==
  /\ Gathered(NULL) = 0
  /\ \A t \in Text : Gathered(<<t>>) <= 2
  /\ \A c \in Lines, t \in Text : Gathered(Append(c, t)) = Rows(c) + 1 + Rows(<<t>>)
  /\ \A t \in Text : Rows(<<t>>) \in Nat /\ Rows(<<t>>) <= 1
<1>1. Gathered(NULL) = 0
  <2>1. HeadOf(NULL) = NULL /\ SplitOff(NULL) = NULL BY DEF HeadOf, SplitOff
  <2>2. HeadRows(NULL) = 0 /\ Rows(NULL) = 0 BY DEF HeadRows, Rows, cfg_write_comment
  <2>3. QED BY <2>1, <2>2 DEF Gathered
<1>2. ASSUME NEW t \in Text PROVE Rows(<<t>>) \in Nat /\ Rows(<<t>>) <= 1 /\ Gathered(<<t>>) <= 2
  <2> DEFINE e == <<t>>
  <2>1. e \in Note /\ e # NULL /\ Len(e) = 1 BY NotedOne, ConfigAssumption DEF Note
  <2> HIDE DEF e
  <2>2. Rows(e) \in Nat /\ Rows(e) <= 1 /\ Rows(NULL) = 0 BY <2>1, RowsGood DEF Deep
  <2>3. HeadOf(e) = e /\ SplitOff(e) = NULL BY <2>1 DEF HeadOf, SplitOff
  <2>4. Gathered(e) = Rows(e) + 1 + 0 BY <2>1, <2>2, <2>3 DEF Gathered, HeadRows
  <2>5. QED BY <2>2, <2>4 DEF e
<1>3. ASSUME NEW c \in Lines, NEW t \in Text PROVE Gathered(Append(c, t)) = Rows(c) + 1 + Rows(<<t>>)
  <2>1. HeadOf(Append(c, t)) = c /\ SplitOff(Append(c, t)) = <<t>> BY SplitAppend
  <2>2. c # NULL BY ConfigAssumption
  <2>3. QED BY <2>1, <2>2 DEF Gathered, HeadRows
<1>4. QED BY <1>1, <1>2, <1>3

\* Above the first section: the head comment, a blank line, and one line at most.
LEMMA GatheredHead ==
  ASSUME NEW c \in Note
  PROVE  /\ Gathered(Spaced(c)) <= Deep(c) + 1
         /\ Gathered(Spaced(Spaced(c))) <= Deep(c) + 2
         /\ \A t \in Text : Gathered(Told(Spaced(c), t)) <= Deep(c) + 2
<1>1. CASE c = NULL
  <2>1. Spaced(c) = NULL /\ Spaced(NULL) = NULL /\ Deep(c) = 0 BY <1>1 DEF Spaced, Deep
  <2>2. \A t : Told(NULL, t) = <<t>> BY DEF Told
  <2>3. QED BY <2>1, <2>2, GatheredFew
<1>2. CASE c # NULL
  <2> DEFINE e == ""
             d == Append(c, e)
             m == Len(c)
  <2>1. c \in Lines /\ e \in Text /\ m \in Nat
    <3>1. e \in Text BY ConfigAssumption
    <3>2. c \in Lines BY <1>2 DEF Note
    <3>3. m \in Nat BY <3>2 DEF Lines
    <3>4. QED BY <3>1, <3>2, <3>3
  <2>2. Rows(<<e>>) = 0 /\ Rows(d) = m BY <2>1, RowsBlank
  <2>3. Spaced(c) = d BY <1>2 DEF Spaced
  <2>4. d # NULL => Spaced(d) = Append(d, e) BY DEF Spaced
  <2> HIDE DEF e
  <2>5. d \in Lines BY <2>1, SplitAppend
  <2>6. Gathered(d) = Rows(c) + 1 + Rows(<<e>>) BY <2>1, GatheredFew
  <2> HIDE DEF d, m
  <2>7. d # NULL BY <2>5, ConfigAssumption
  <2>8. Rows(c) \in Nat /\ Rows(c) <= m /\ Deep(c) = m
    <3>1. Rows(c) \in Nat /\ Rows(c) <= Deep(c) BY RowsGood
    <3>2. Deep(c) = m BY <1>2 DEF Deep, m
    <3>3. QED BY <3>1, <3>2
  <2>9. Gathered(Spaced(c)) <= Deep(c) + 1 BY <2>1, <2>2, <2>3, <2>6, <2>8
  <2>10. Gathered(Spaced(Spaced(c))) <= Deep(c) + 2
    <3>1. Gathered(Append(d, e)) = Rows(d) + 1 + Rows(<<e>>) BY <2>1, <2>5, GatheredFew
    <3>2. Spaced(Spaced(c)) = Append(d, e) BY <2>3, <2>4, <2>7
    <3>3. QED BY <2>1, <2>2, <2>8, <3>1, <3>2
  <2>11. ASSUME NEW t \in Text PROVE Gathered(Told(Spaced(c), t)) <= Deep(c) + 2
    <3>1. Gathered(Append(d, t)) = Rows(d) + 1 + Rows(<<t>>) /\ Rows(<<t>>) \in Nat /\ Rows(<<t>>) <= 1
      BY <2>5, GatheredFew
    <3>2. Told(Spaced(c), t) = Append(d, t) BY <2>3, <2>7 DEF Told
    <3> DEFINE i == Rows(<<t>>)
               j == Gathered(Append(d, t))
    <3>3. j = m + 1 + i /\ i \in Nat /\ i <= 1 BY <2>2, <3>1
    <3> HIDE DEF i, j
    <3>4. j <= m + 2 BY <2>1, <3>3
    <3>5. QED BY <2>8, <3>2, <3>4 DEF j
  <2>12. QED BY <2>9, <2>10, <2>11
<1>3. QED BY <1>1, <1>2

\* A line of a comment, and what it does to the comment read so far.
LEMMA QuietAbove ==
  ASSUME NEW r \in Reader, NEW l \in Quiet
  PROVE  \/ l = EmptyLine /\ ReadLine(r, l).above = Spaced(r.above)
         \/ \E t \in Text : ReadLine(r, l).above = Told(r.above, t)
<1>1. CASE l = EmptyLine
  <2>1. l.type = "empty" BY <1>1 DEF EmptyLine
  <2>2. ReadLine(r, l) = [r EXCEPT !.above = IF @ = NULL THEN NULL ELSE Append(@, "")]
    BY <2>1 DEF ReadLine
  <2>3. ReadLine(r, l).above = Spaced(r.above) BY <2>2 DEF Reader, Spaced
  <2>4. QED BY <1>1, <2>3
<1>2. CASE l \in [type : {"comment"}, text : Text \ {""}]
  <2>1. l.type = "comment" /\ l.text \in Text BY <1>2
  <2>2. ReadLine(r, l) = [r EXCEPT !.above = IF @ = NULL THEN <<l.text>> ELSE Append(@, l.text)]
    BY <2>1 DEF ReadLine
  <2>3. ReadLine(r, l).above = Told(r.above, l.text) BY <2>2 DEF Reader, Told
  <2>4. QED BY <2>1, <2>3
<1>3. QED BY <1>1, <1>2 DEF Quiet

LEMMA HeadFits ==
  ASSUME NEW c \in Handle, NEW s \in SecRec, Firm(s, c.comment)
  PROVE  Gathered(Read(Read(FirstReader, HeadLines(c)), cfg_write_comment(s.comment)).above)
           <= Len(HeadLines(c)) + Rows(s.comment)
<1> DEFINE r == FirstReader
           h == cfg_write_comment(c.comment)
           a == cfg_write_comment(s.comment)
           q == Read(r, HeadLines(c))
<1>1. c.comment \in Note /\ s.comment \in Note BY DEF Handle, SecRec
<1>2. /\ h \in Seq(Quiet) /\ h \in Seq(Line) /\ a \in Seq(Quiet) /\ a \in Seq(Line)
      /\ EmptyLine \in Quiet /\ EmptyLine \in Line
  BY <1>1, WriteNoteGood, QuietLines DEF Quiet
<1>3. /\ r \in Reader /\ Tidy(r)
      /\ r.comment = NULL /\ r.sections = <<>> /\ r.open = NULL /\ r.above = NULL
  <2>1. r \in Reader BY HeadRead
  <2>2. r.comment = NULL /\ r.sections = <<>> /\ r.open = NULL /\ r.above = NULL BY DEF FirstReader
  <2>3. QED BY <2>1, <2>2 DEF Tidy
<1>4. Len(a) = Rows(s.comment) /\ Rows(s.comment) \in Nat /\ Rows(s.comment) <= 1
  BY <1>1, RowsGood DEF Rows, Firm
<1>5. CASE c.comment = NULL
  <2>1. HeadLines(c) = <<>> BY <1>5 DEF HeadLines
  <2>2. q = r BY <2>1, ReadNone
  <2>3. a = <<>> BY <1>5 DEF Firm, cfg_write_comment
  <2>4. Read(q, a) = r BY <2>2, <2>3, ReadNone
  <2>5. Gathered(Read(q, a).above) = 0 BY <1>3, <2>4, GatheredFew
  <2>6. QED BY <1>4, <2>1, <2>5
<1>6. CASE c.comment # NULL
  <2> DEFINE u == Read(r, h)
             m == Len(h)
             d == Deep(u.above)
  <2>1. HeadLines(c) = Append(h, EmptyLine) BY <1>6 DEF HeadLines
  <2> HIDE DEF r, h, a
  <2>2. m \in Nat /\ Len(HeadLines(c)) = m + 1 BY <1>2, <2>1, AppendProperties, LenProperties
  <2>3. u \in Reader /\ u.open = NULL /\ Tidy(u) /\ Size(u) <= Size(r) + m
    BY <1>2, <1>3, ReadQuiet, CarriesQuiet DEF Carries, Keeps
  <2>4. u.comment = NULL /\ u.sections = <<>> /\ u.above \in Note BY <2>3 DEF Tidy, Reader
  <2>5. BodyRows(<<>>) = 0 /\ HeadRows(NULL) = 0 /\ Deep(NULL) = 0
    <3>1. <<>> \in Seq(SecRec) BY EmptySeq
    <3>2. QED BY <3>1, BodyRowsGood DEF HeadRows, Deep
  <2>6. d \in Nat BY <2>4, RowsGood
  <2>7. d <= m
    <3>1. Size(r) = 0 + 0 + 0 + 0 BY <1>3, <2>5 DEF Size, OpenRows
    <3>2. Size(u) = 0 + 0 + 0 + d BY <2>3, <2>4, <2>5 DEF Size, OpenRows
    <3> HIDE DEF d, m, u
    <3>3. QED BY <2>2, <2>3, <2>6, <3>1, <3>2
  <2>8. q = ReadLine(u, EmptyLine) BY <1>2, <1>3, <2>1, ReadAppend
  <2>9. q \in Reader /\ q.above = Spaced(u.above)
    <3> HIDE DEF u
    <3>1. q \in Reader BY <1>2, <2>3, <2>8, ReadLineGood
    <3>2. EmptyLine.type = "empty" BY DEF EmptyLine
    <3>3. q = [u EXCEPT !.above = IF @ = NULL THEN NULL ELSE Append(@, "")] BY <2>8, <3>2 DEF ReadLine
    <3> HIDE DEF q
    <3>4. q.above = Spaced(u.above) BY <2>3, <3>3 DEF Reader, Spaced
    <3>5. QED BY <3>1, <3>4
  <2> HIDE DEF q, u
  <2>10. /\ Gathered(q.above) <= d + 1 /\ Gathered(Spaced(q.above)) <= d + 2
         /\ \A t \in Text : Gathered(Told(q.above, t)) <= d + 2
    BY <2>4, <2>9, GatheredHead
  <2>11. Gathered(Read(q, a).above) <= d + 1 + Len(a)
    <3>1. CASE Len(a) = 0
      <4>1. a = <<>> BY <1>2, <3>1
      <4>2. Read(q, a) = q BY <4>1, ReadNone
      <4> HIDE DEF d
      <4>3. d + 1 + 0 = d + 1 BY <2>6
      <4>4. QED BY <2>10, <3>1, <4>2, <4>3
    <3>2. CASE Len(a) = 1
      <4> DEFINE l == a[1]
      <4>1. l \in Quiet /\ a = <<l>>
        <5>1. l \in Quiet
          <6>1. a \in Seq(Quiet) /\ Len(a) = 1 BY <1>2, <3>2
          <6>2. \A b \in Seq(Quiet) : \A i \in 1..Len(b) : b[i] \in Quiet BY ElementOfSeq
          <6>3. 1 \in 1..Len(a) BY <6>1
          <6>4. QED BY <6>1, <6>2, <6>3
        <5> DEFINE b == <<l>>
        <5>2. b \in Seq(Quiet) /\ Len(b) = 1 /\ b[1] = l BY <5>1
        <5> HIDE DEF b
        <5>3. Len(a) = Len(b) /\ \A i \in 1..Len(a) : a[i] = b[i] BY <3>2, <5>2
        <5>4. a = b BY <1>2, <5>2, <5>3, SeqEqual
        <5>5. QED BY <5>1, <5>4 DEF b
      <4> HIDE DEF l
      <4>2. Read(q, a) = ReadLine(q, l) BY <2>9, <4>1, ReadOne, QuietLines
      <4>3. Gathered(ReadLine(q, l).above) <= d + 2 BY <2>9, <2>10, <4>1, QuietAbove
      <4> HIDE DEF d
      <4>4. d + 1 + 1 = d + 2 BY <2>6
      <4>5. QED BY <3>2, <4>2, <4>3, <4>4
    <3>3. QED BY <1>4, <3>1, <3>2
  <2>12. Gathered(Read(q, a).above) \in Nat
    <3>1. Read(q, a) \in Reader BY <1>2, <2>9, ReadStays
    <3>2. Read(q, a).above \in Note BY <3>1 DEF Reader
    <3>3. QED BY <3>2, GatheredGood
  <2> DEFINE g == Gathered(Read(q, a).above)
             i == Rows(s.comment)
  <2>13. g \in Nat /\ i \in Nat /\ g <= d + 1 + i BY <1>4, <2>11, <2>12
  <2> HIDE DEF g, i, d, m
  <2>14. g <= (m + 1) + i BY <2>2, <2>6, <2>7, <2>13
  <2>15. QED BY <2>2, <2>14 DEF g, i, q, a, r
<1>7. QED BY <1>5, <1>6

\* Such a handle makes no more lines when it is written, read and written again.
LEMMA SettledFits ==
  ASSUME NEW d \in Handle, d.sections # <<>>, Firm(d.sections[1], d.comment), Bare(d.sections[1])
  PROVE  Len(cfg_write(cfg_read(cfg_write(d)))) <= Len(cfg_write(d))
<1> DEFINE r == FirstReader
           h == HeadLines(d)
           ss == d.sections
           s == ss[1]
           f == FlattenSeq(Blocks(ss))
           q == Read(r, h)
           p == Read(q, f)
           e == cfg_read(cfg_write(d))
<1>1. ss \in SecList /\ ss \in Seq(SecRec) /\ s \in SecRec BY DEF Handle, SecList
<1>2. /\ h \in Seq(Quiet) /\ h \in Seq(Line) /\ f \in Seq(Line) /\ cfg_write(d) = h \o f
      /\ r \in Reader /\ q.open = NULL /\ Loaded(q, ss, 0)
  BY HeadRead
<1>3. Tidy(q)
  <2>1. r.comment = NULL /\ r.sections = <<>> /\ r.open = NULL BY DEF FirstReader
  <2> HIDE DEF r, h
  <2>2. Tidy(r) BY <1>2, <2>1 DEF Tidy
  <2>3. QED BY <1>2, <2>2, CarriesQuiet DEF Carries, Keeps
<1>4. /\ Carries(q, f) /\ Closed(p) /\ p.open # NULL
      /\ Size(p) + Rows(s.comment) <= Gathered(Read(q, cfg_write_comment(s.comment)).above) + Len(f)
  <2> HIDE DEF q
  <2> QED BY <1>1, <1>2, <1>3, SectionsCarry DEF Closed
<1>5. Gathered(Read(q, cfg_write_comment(s.comment)).above) <= Len(h) + Rows(s.comment)
  BY <1>1, HeadFits
<1>6. Read(r, cfg_write(d)) = p BY <1>2, ReadConcat
<1>7. e = [comment |-> p.comment, sections |-> Merged(p)]
  BY <1>4, <1>6 DEF cfg_read, Read, FirstReader, Merged
<1>8. Tidy(p) /\ p \in Reader BY <1>4 DEF Carries, Keeps, Tidy
<1>9. Merged(p) = Append(p.sections, p.open) /\ p.open \in SecRec BY <1>4, <1>8, MergedTidy
<1> HIDE DEF p
<1>10. Len(cfg_write(e)) = Size(p)
  <2> HIDE DEF e
  <2>1. e \in Handle /\ e.comment = p.comment /\ e.sections = Append(p.sections, p.open)
    BY <1>7, <1>8, <1>9, MergedGood DEF Handle, Reader
  <2>2. Len(cfg_write(e)) = HeadRows(e.comment) + BodyRows(e.sections) BY <2>1, HandleRows
  <2>3. p.sections \in Seq(SecRec) BY <1>8 DEF Reader, SecList
  <2>4. BodyRows(e.sections) = BodyRows(p.sections) + SecRows(p.open) + 1
        /\ BodyRows(p.sections) \in Nat /\ SecRows(p.open) \in Nat
    BY <1>9, <2>1, <2>3, BodyRowsGood, BlockRows
  <2>5. Size(p) = HeadRows(p.comment) + BodyRows(p.sections) + (SecRows(p.open) + 1) + 0
    BY <1>4 DEF Size, OpenRows, Closed, Deep
  <2>6. HeadRows(p.comment) \in Nat BY <1>8, SizeGood
  <2>7. QED BY <2>1, <2>2, <2>4, <2>5, <2>6
<1>11. Len(cfg_write(d)) = Len(h) + Len(f) /\ Len(h) \in Nat /\ Len(f) \in Nat
  BY <1>2, ConcatProperties, LenProperties
<1>12. Rows(s.comment) \in Nat /\ Size(p) \in Nat
  <2>1. s.comment \in Note BY <1>1 DEF SecRec
  <2>2. QED BY <1>8, <2>1, RowsGood, SizeGood
<1>13. Gathered(Read(q, cfg_write_comment(s.comment)).above) \in Nat
  <2> DEFINE a == cfg_write_comment(s.comment)
  <2>1. s.comment \in Note BY <1>1 DEF SecRec
  <2>2. a \in Seq(Line) BY <2>1, WriteNoteGood, QuietLines
  <2> HIDE DEF a, q
  <2>3. Read(q, a) \in Reader BY <1>3, <2>2, ReadStays DEF Tidy
  <2>4. Read(q, a).above \in Note BY <2>3 DEF Reader
  <2>5. QED BY <2>4, GatheredGood DEF a
<1> DEFINE g == Gathered(Read(q, cfg_write_comment(s.comment)).above)
           i == Rows(s.comment)
           j == Size(p)
           m == Len(f)
           n == Len(h)
<1>14. /\ g \in Nat /\ i \in Nat /\ j \in Nat /\ m \in Nat /\ n \in Nat
       /\ j + i <= g + m /\ g <= n + i
  BY <1>4, <1>5, <1>11, <1>12, <1>13
<1> HIDE DEF g, i, j, m, n
<1>15. j <= n + m BY <1>14
<1>16. QED BY <1>10, <1>11, <1>15 DEF j, n, m, e

-----------------------------------------------------------------------------
(* The sections a setter makes.                                            *)

\* Index finds what is there.
LEMMA IndexFinds ==
  ASSUME NEW X, NEW items \in Seq(X), NEW n, NEW j \in DOMAIN items, Lower[items[j].name] = Lower[n]
  PROVE  Index(items, n) \in DOMAIN items
BY IndexFacts

LEMMA WithSectionGood ==
  ASSUME cfg \in Handle, NEW n \in Section
  PROVE  WithSection(n) \in SecList /\ Index(WithSection(n), n) \in DOMAIN WithSection(n)
<1> DEFINE ss == cfg.sections
           s == NoKeys(n, NULL)
<1>1. ss \in SecList /\ ss \in Seq(SecRec) BY DEF Handle, SecList
<1>2. CASE SectionAt(n) # 0
  <2>1. WithSection(n) = ss BY <1>2 DEF WithSection
  <2>2. QED BY <1>1, <1>2, <2>1, IndexFacts DEF SectionAt
<1>3. CASE SectionAt(n) = 0
  <2> DEFINE w == cfg_add_section(ss, s)
  <2>1. WithSection(n) = w BY <1>3 DEF WithSection
  <2>2. s \in SecRec /\ s.name = n BY EmptyList DEF NoKeys, SecRec, Note
  <2>3. Index(ss, s.name) = 0 BY <1>3, <2>2 DEF SectionAt
  <2> HIDE DEF ss, s
  <2>4. w \in SecList BY <1>1, <2>2, <2>3, AddSectionGood
  <2>5. w \in Seq(SecRec) BY <2>4 DEF SecList
  <2>6. \E j \in DOMAIN w : w[j] = s
    <3>1. CASE s.name = ""
      <4>1. w = <<s>> \o ss BY <3>1 DEF cfg_add_section
      <4>2. <<s>> \in Seq(SecRec) /\ Len(<<s>>) = 1 /\ <<s>>[1] = s BY <2>2
      <4>3. (<<s>> \o ss)[1] = s /\ 1 \in DOMAIN (<<s>> \o ss) BY <1>1, <4>2
      <4>4. QED BY <4>1, <4>3
    <3>2. CASE s.name # ""
      <4>1. w = Append(ss, s) BY <3>2 DEF cfg_add_section
      <4>2. Append(ss, s)[Len(ss) + 1] = s /\ Len(ss) + 1 \in DOMAIN Append(ss, s) BY <1>1, <2>2
      <4>3. QED BY <4>1, <4>2
    <3>3. QED BY <3>1, <3>2
  <2>7. Index(w, n) \in DOMAIN w
    <3> HIDE DEF w
    <3> QED BY <2>2, <2>5, <2>6, IndexFinds
  <2>8. QED BY <2>1, <2>4, <2>7
<1>4. QED BY <1>2, <1>3

\* A section that was not there is found without keys.
LEMMA FreshSectionEmpty ==
  ASSUME cfg \in Handle, NEW n \in Section, SectionAt(n) = 0
  PROVE  WithSection(n)[Index(WithSection(n), n)].keys = <<>>
<1> DEFINE ss == cfg.sections
           s == NoKeys(n, NULL)
           w == cfg_add_section(ss, s)
           i == Index(w, n)
<1>1. ss \in Seq(SecRec) BY DEF Handle, SecList
<1>2. WithSection(n) = w BY DEF WithSection
<1>3. i \in DOMAIN w /\ w \in Seq(SecRec) BY <1>2, WithSectionGood DEF SecList
<1>4. Lower[w[i].name] = Lower[n] BY <1>3, IndexFacts
<1>5. s \in SecRec /\ s.keys = <<>> BY EmptyList DEF NoKeys, SecRec, Note
<1>6. \A j \in DOMAIN ss : Lower[ss[j].name] # Lower[n] BY <1>1, IndexFacts DEF SectionAt
<1> HIDE DEF ss, s, i
<1>7. w[i] = s \/ \E j \in DOMAIN ss : w[i] = ss[j]
  <2>1. CASE s.name = ""
    <3>1. w = <<s>> \o ss BY <2>1 DEF cfg_add_section
    <3>2. <<s>> \in Seq(SecRec) /\ Len(<<s>>) = 1 /\ <<s>>[1] = s BY <1>5
    <3>3. i \in 1..(1 + Len(ss)) /\ w[i] = IF i <= 1 THEN <<s>>[i] ELSE ss[i - 1]
      BY <1>1, <1>3, <3>1, <3>2
    <3>4. CASE i = 1 BY <3>2, <3>3, <3>4
    <3>5. CASE i # 1
      <4>1. i - 1 \in DOMAIN ss /\ w[i] = ss[i - 1] BY <1>1, <3>3, <3>5
      <4>2. QED BY <4>1
    <3>6. QED BY <3>4, <3>5
  <2>2. CASE s.name # ""
    <3>1. w = Append(ss, s) BY <2>2 DEF cfg_add_section
    <3>2. CASE i = Len(ss) + 1 BY <1>1, <3>1, <3>2
    <3>3. CASE i # Len(ss) + 1
      <4>1. i \in DOMAIN ss /\ w[i] = ss[i] BY <1>1, <1>3, <3>1, <3>3
      <4>2. QED BY <4>1
    <3>4. QED BY <3>2, <3>3
  <2>3. QED BY <2>1, <2>2
<1>8. w[i] = s
  <2>1. ~ \E j \in DOMAIN ss : w[i] = ss[j] BY <1>4, <1>6
  <2>2. QED BY <1>7, <2>1
<1>9. QED BY <1>2, <1>5, <1>8 DEF i

\* A section may get another comment and other keys.
LEMMA RekeySection ==
  ASSUME NEW w \in SecList, NEW i \in DOMAIN w, NEW ks \in KeyList
  PROVE  /\ [w EXCEPT ![i].keys = ks] \in SecList
         /\ DOMAIN [w EXCEPT ![i].keys = ks] = DOMAIN w
         /\ \A j \in DOMAIN w : [w EXCEPT ![i].keys = ks][j].name = w[j].name
         /\ [w EXCEPT ![i].keys = ks][i].keys = ks
<1> DEFINE x == [w[i] EXCEPT !.keys = ks]
<1>1. w \in Seq(SecRec) /\ w[i] \in SecRec BY DEF SecList
<1>2. x \in SecRec /\ x.name = w[i].name /\ x.keys = ks BY <1>1 DEF SecRec
<1>3. [w EXCEPT ![i].keys = ks] = [w EXCEPT ![i] = x] BY <1>1
<1> HIDE DEF x
<1>4. [w EXCEPT ![i] = x] \in SecList BY <1>2, ExchangeSection
<1>5. DOMAIN [w EXCEPT ![i] = x] = DOMAIN w OBVIOUS
<1>6. \A j \in DOMAIN w : [w EXCEPT ![i] = x][j] = IF j = i THEN x ELSE w[j] BY <1>1
<1>7. QED BY <1>2, <1>3, <1>4, <1>5, <1>6

LEMMA RecommentSection ==
  ASSUME NEW w \in SecList, NEW i \in DOMAIN w, NEW c \in Note
  PROVE  [w EXCEPT ![i].comment = c] \in SecList
<1> DEFINE x == [w[i] EXCEPT !.comment = c]
<1>1. w \in Seq(SecRec) /\ w[i] \in SecRec BY DEF SecList
<1>2. x \in SecRec /\ x.name = w[i].name BY <1>1 DEF SecRec
<1>3. [w EXCEPT ![i].comment = c] = [w EXCEPT ![i] = x] BY <1>1
<1> HIDE DEF x
<1>4. QED BY <1>2, <1>3, ExchangeSection

\* A section with the same names is found at the same place.
LEMMA SameNamesSameIndex ==
  ASSUME NEW v \in SecList, NEW w \in SecList, DOMAIN v = DOMAIN w,
         \A j \in DOMAIN w : v[j].name = w[j].name, NEW n
  PROVE  Index(v, n) = Index(w, n)
<1>1. Len(v) = Len(w) /\ DOMAIN w = 1..Len(w) /\ Len(w) \in Nat BY DEF SecList
<1>2. {i \in 1..Len(v) : Same(v[i].name, n)} = {i \in 1..Len(w) : Same(w[i].name, n)} BY <1>1
<1>3. QED BY <1>2 DEF Index, SelectInSeq

\* The place of a key in a section of w.
KeyIn(w, n, k) == Index(w[Index(w, n)].keys, k)

LEMMA WithKeyGood ==
  ASSUME cfg \in Handle, NEW n \in Section, NEW k \in Key
  PROVE  /\ WithKey(n, k) \in SecList
         /\ Index(WithKey(n, k), n) \in DOMAIN WithKey(n, k)
         /\ KeyIn(WithKey(n, k), n, k) \in DOMAIN WithKey(n, k)[Index(WithKey(n, k), n)].keys
<1>1. cfg.sections \in SecList /\ cfg.sections \in Seq(SecRec) BY DEF Handle, SecList
<1>2. CASE KeyAt(n, k) # 0
  <2> DEFINE w == cfg.sections
             i == SectionAt(n)
  <2>1. WithKey(n, k) = w BY <1>2 DEF WithKey
  <2>2. i # 0 /\ Index(w[i].keys, k) # 0 BY <1>2 DEF KeyAt
  <2>3. i = Index(w, n) BY DEF SectionAt
  <2>4. i \in DOMAIN w BY <1>1, <2>2, <2>3, IndexFacts
  <2>5. w[i].keys \in Seq(KeyRec)
    <3>1. w[i] \in SecRec BY <1>1, <2>4
    <3>2. QED BY <3>1 DEF SecRec, KeyList
  <2>6. Index(w[i].keys, k) \in DOMAIN w[i].keys BY <2>2, <2>5, IndexFacts
  <2>7. QED BY <1>1, <2>1, <2>3, <2>4, <2>6 DEF KeyIn
<1>3. CASE KeyAt(n, k) = 0
  <2> DEFINE w == WithSection(n)
             i == Index(w, n)
             x == [name |-> k, value |-> NULL, comment |-> NULL]
             ks == Append(w[i].keys, x)
             v == [w EXCEPT ![i].keys = ks]
  <2>1. w \in SecList /\ i \in DOMAIN w BY WithSectionGood
  <2>2. w \in Seq(SecRec) BY <2>1 DEF SecList
  <2>3. w[i].keys \in KeyList /\ w[i].keys \in Seq(KeyRec)
    <3>1. w[i] \in SecRec BY <2>1, <2>2
    <3>2. QED BY <3>1 DEF SecRec, KeyList
  <2>4. x \in KeyRec BY DEF KeyRec, Note
  <2>5. Index(w[i].keys, x.name) = 0
    <3>1. CASE SectionAt(n) # 0
      <4>1. w = cfg.sections /\ i = SectionAt(n) BY <3>1 DEF WithSection, SectionAt
      <4>2. QED BY <1>3, <3>1, <4>1 DEF KeyAt
    <3>2. CASE SectionAt(n) = 0
      <4>1. w[i].keys = <<>> BY <3>2, FreshSectionEmpty
      <4>2. Index(<<>>, x.name) = 0
        <5>1. <<>> \in Seq(KeyRec) /\ Len(<<>>) = 0 OBVIOUS
        <5>2. Index(<<>>, x.name) \in 0..0 BY <5>1, IndexFacts
        <5>3. QED BY <5>2
      <4>3. QED BY <4>1, <4>2
    <3>3. QED BY <3>1, <3>2
  <2>6. WithKey(n, k) = v BY <1>3, <2>1, <2>2 DEF WithKey
  <2> HIDE DEF w, i
  <2>7. ks \in KeyList
    <3> HIDE DEF x
    <3>1. Distinct(w[i].keys) BY <2>3 DEF KeyList
    <3>2. QED BY <2>3, <2>4, <2>5, <3>1, AppendKeepsDistinct DEF KeyList
  <2>8. ks[Len(w[i].keys) + 1] = x /\ Len(w[i].keys) + 1 \in DOMAIN ks /\ x.name = k
    <3>1. x.name = k OBVIOUS
    <3> HIDE DEF x
    <3>2. QED BY <2>3, <2>4, <3>1
  <2> HIDE DEF ks, x
  <2>9. Index(ks, k) \in DOMAIN ks
    <3>1. ks \in Seq(KeyRec) BY <2>7 DEF KeyList
    <3>2. Lower[ks[Len(w[i].keys) + 1].name] = Lower[k] BY <2>8
    <3>3. QED BY <2>8, <3>1, <3>2, IndexFinds
  <2>10. v \in SecList /\ DOMAIN v = DOMAIN w /\ v[i].keys = ks /\ \A j \in DOMAIN w : v[j].name = w[j].name
    BY <2>1, <2>7, RekeySection
  <2> HIDE DEF v
  <2>11. Index(v, n) = i BY <2>1, <2>10, SameNamesSameIndex DEF i
  <2>12. QED BY <2>1, <2>6, <2>9, <2>10, <2>11 DEF KeyIn
<1>4. QED BY <1>2, <1>3

LEMMA ChangeGood ==
  ASSUME NEW w \in SecList, NEW n, NEW k, Index(w, n) \in DOMAIN w,
         KeyIn(w, n, k) \in DOMAIN w[Index(w, n)].keys,
         NEW x \in KeyRec, x.name = w[Index(w, n)].keys[KeyIn(w, n, k)].name
  PROVE  [w EXCEPT ![Index(w, n)].keys[KeyIn(w, n, k)] = x] \in SecList
<1> DEFINE i == Index(w, n)
           j == KeyIn(w, n, k)
           ks == [w[i].keys EXCEPT ![j] = x]
<1>1. w \in Seq(SecRec) /\ i \in DOMAIN w BY DEF SecList
<1>2. w[i] \in SecRec BY <1>1
<1>3. w[i].keys \in Seq(KeyRec) /\ Distinct(w[i].keys) BY <1>2 DEF SecRec, KeyList
<1>4. j \in DOMAIN w[i].keys /\ x.name = w[i].keys[j].name OBVIOUS
<1> HIDE DEF i, j
<1>5. ks \in KeyList BY <1>3, <1>4, ExchangeKeepsDistinct DEF KeyList
<1>6. [w EXCEPT ![i].keys[j] = x] = [w EXCEPT ![i].keys = ks] BY <1>1, <1>2
<1> HIDE DEF ks
<1>7. QED BY <1>1, <1>5, <1>6, RekeySection DEF i, j

\* The key that is found.
LEMMA FoundKey ==
  ASSUME NEW w \in SecList, NEW n, NEW k, Index(w, n) \in DOMAIN w,
         KeyIn(w, n, k) \in DOMAIN w[Index(w, n)].keys
  PROVE  w[Index(w, n)].keys[KeyIn(w, n, k)] \in KeyRec
<1>1. w[Index(w, n)] \in SecRec BY DEF SecList
<1>2. w[Index(w, n)].keys \in Seq(KeyRec) BY <1>1 DEF SecRec, KeyList
<1>3. QED BY <1>2

LEMMA SetCommentGood ==
  ASSUME NEW w \in SecList, NEW n, NEW k, Index(w, n) \in DOMAIN w,
         KeyIn(w, n, k) \in DOMAIN w[Index(w, n)].keys, NEW c \in Note
  PROVE  Change(w, n, k, LAMBDA x : [x EXCEPT !.comment = c]) \in SecList
<1> DEFINE y == w[Index(w, n)].keys[KeyIn(w, n, k)]
           z == [y EXCEPT !.comment = c]
<1>1. y \in KeyRec BY FoundKey
<1>2. z \in KeyRec /\ z.name = y.name BY <1>1 DEF KeyRec
<1>3. Change(w, n, k, LAMBDA x : [x EXCEPT !.comment = c])
        = [w EXCEPT ![Index(w, n)].keys[KeyIn(w, n, k)] = z]
  BY DEF Change, KeyIn
<1> HIDE DEF z
<1>4. QED BY <1>2, <1>3, ChangeGood

LEMMA SetValueGood ==
  ASSUME NEW w \in SecList, NEW n, NEW k, Index(w, n) \in DOMAIN w,
         KeyIn(w, n, k) \in DOMAIN w[Index(w, n)].keys, NEW v \in Value \cup {NULL}
  PROVE  Change(w, n, k, LAMBDA x : [x EXCEPT !.value = v]) \in SecList
<1> DEFINE y == w[Index(w, n)].keys[KeyIn(w, n, k)]
           z == [y EXCEPT !.value = v]
<1>1. y \in KeyRec BY FoundKey
<1>2. z \in KeyRec /\ z.name = y.name BY <1>1 DEF KeyRec
<1>3. Change(w, n, k, LAMBDA x : [x EXCEPT !.value = v])
        = [w EXCEPT ![Index(w, n)].keys[KeyIn(w, n, k)] = z]
  BY DEF Change, KeyIn
<1> HIDE DEF z
<1>4. QED BY <1>2, <1>3, ChangeGood

-----------------------------------------------------------------------------
(* The inductive invariant.                                                *)

IInv ==
  /\ cfg \in Handle /\ disk \in Seq(Line)
  /\ path \in {"file", NULL} /\ modified \in BOOLEAN
  /\ state \in {"closed", "open", "crashed"} /\ calls \in 0..MaxCalls

LEMMA BlankGood == Blank \in Handle
BY EmptyList DEF Blank, Handle, Note

LEMMA InitIInv == Init => IInv
<1> SUFFICES ASSUME Init PROVE IInv OBVIOUS
<1>1. MaxCalls \in Nat BY ConfigAssumption
<1>2. calls \in 0..MaxCalls BY <1>1 DEF Init
<1>3. FirstFiles \subseteq Seq(Line) BY ConfigAssumption
<1>4. disk \in Seq(Line) BY <1>3 DEF Init
<1>5. QED BY <1>2, <1>4, BlankGood DEF Init, IInv

LEMMA CallCounts == ASSUME IInv, NEW st, Call(st) PROVE calls' \in 0..MaxCalls
<1>1. MaxCalls \in Nat BY ConfigAssumption
<1>2. calls \in 0..MaxCalls /\ calls < MaxCalls /\ calls' = calls + 1 BY DEF IInv, Call
<1>3. QED BY <1>1, <1>2

\* A handle read from the file is a good one, or the program ends.
LEMMA AdoptGood ==
  ASSUME NEW c, c \in Handle \/ c = Crash, Adopt(c)
  PROVE  cfg' \in Handle /\ state' \in {"closed", "open", "crashed"}
BY BlankGood DEF Adopt

LEMMA UpdateGood ==
  ASSUME IInv, NEW ss \in SecList, Update([cfg EXCEPT !.sections = ss]) PROVE IInv'
<1>1. calls' \in 0..MaxCalls BY CallCounts DEF Update
<1>2. [cfg EXCEPT !.sections = ss] \in Handle BY DEF IInv, Handle
<1>3. QED BY <1>1, <1>2 DEF Update, IInv

LEMMA OpenGood == ASSUME IInv, NEW p \in {"file", NULL}, config_open(p) PROVE IInv'
<1> DEFINE c == IF p = NULL THEN Blank ELSE cfg_read(disk)
<1>1. c \in Handle \/ c = Crash BY BlankGood, ReadGood DEF IInv
<1>2. Adopt(c) /\ path' = p /\ modified' = FALSE /\ disk' = disk /\ Call("closed") BY DEF config_open
<1>3. calls' \in 0..MaxCalls BY <1>2, CallCounts
<1> HIDE DEF c
<1>4. cfg' \in Handle /\ state' \in {"closed", "open", "crashed"} BY <1>1, <1>2, AdoptGood
<1>5. QED BY <1>2, <1>3, <1>4 DEF IInv

LEMMA LoadGood == ASSUME IInv, config_load PROVE IInv'
<1>1. cfg_read(disk) \in Handle \/ cfg_read(disk) = Crash BY ReadGood DEF IInv
<1>2. Adopt(cfg_read(disk)) /\ modified' = TRUE /\ UNCHANGED <<path, disk>> /\ Call("open")
  BY DEF config_load
<1>3. calls' \in 0..MaxCalls BY <1>2, CallCounts
<1>4. cfg' \in Handle /\ state' \in {"closed", "open", "crashed"} BY <1>1, <1>2, AdoptGood
<1>5. QED BY <1>2, <1>3, <1>4 DEF IInv

LEMMA SaveGood == ASSUME IInv, config_save \/ config_close PROVE IInv'
<1>1. cfg_write(cfg) \in Seq(Line) BY WriteGood DEF IInv
<1>2. calls' \in 0..MaxCalls BY CallCounts DEF config_save, config_close
<1>3. QED BY <1>1, <1>2, BlankGood DEF config_save, config_close, IInv

LEMMA CommentsAreNotes == Comment \cup {NULL} \subseteq Note
BY ConfigAssumption DEF Note

LEMMA SetHeadGood == ASSUME IInv, NEW c \in Comment \cup {NULL}, config_set_comment(c) PROVE IInv'
<1>1. [cfg EXCEPT !.comment = c] \in Handle BY CommentsAreNotes DEF IInv, Handle
<1>2. calls' \in 0..MaxCalls BY CallCounts DEF config_set_comment, Update
<1>3. QED BY <1>1, <1>2 DEF config_set_comment, Update, IInv

LEMMA SetSectionGood ==
  ASSUME IInv, NEW n \in Section, NEW c \in Comment \cup {NULL}, config_set_section_comment(n, c)
  PROVE  IInv'
<1> DEFINE w == WithSection(n)
           ss == [w EXCEPT ![Index(w, n)].comment = c]
<1>1. w \in SecList /\ Index(w, n) \in DOMAIN w BY WithSectionGood DEF IInv
<1>2. Update([cfg EXCEPT !.sections = ss]) BY DEF config_set_section_comment
<1>3. c \in Note BY CommentsAreNotes
<1> HIDE DEF w
<1>4. ss \in SecList BY <1>1, <1>3, RecommentSection
<1> HIDE DEF ss
<1>5. QED BY <1>2, <1>4, UpdateGood

LEMMA SetKeyGood ==
  ASSUME IInv, NEW n \in Section, NEW k \in Key,
         \/ \E c \in Comment \cup {NULL} : config_set_key_comment(n, k, c)
         \/ \E v \in Value \cup {NULL} : config_set_value_string(n, k, v)
  PROVE  IInv'
<1> DEFINE w == WithKey(n, k)
<1>1. /\ w \in SecList /\ Index(w, n) \in DOMAIN w
      /\ KeyIn(w, n, k) \in DOMAIN w[Index(w, n)].keys
  BY WithKeyGood DEF IInv
<1>2. ASSUME NEW c \in Comment \cup {NULL}, config_set_key_comment(n, k, c) PROVE IInv'
  <2> DEFINE ss == Change(w, n, k, LAMBDA x : [x EXCEPT !.comment = c])
  <2>1. Update([cfg EXCEPT !.sections = ss]) BY <1>2 DEF config_set_key_comment
  <2>2. c \in Note BY <1>2, CommentsAreNotes
  <2>3. ss \in SecList
    <3> HIDE DEF w
    <3> QED BY <1>1, <2>2, SetCommentGood
  <2> HIDE DEF ss
  <2>4. QED BY <2>1, <2>3, UpdateGood
<1>3. ASSUME NEW v \in Value \cup {NULL}, config_set_value_string(n, k, v) PROVE IInv'
  <2> DEFINE ss == Change(w, n, k, LAMBDA x : [x EXCEPT !.value = v])
  <2>1. Update([cfg EXCEPT !.sections = ss]) BY <1>3 DEF config_set_value_string
  <2>2. ss \in SecList
    <3> HIDE DEF w
    <3> QED BY <1>1, <1>3, SetValueGood
  <2> HIDE DEF ss
  <2>3. QED BY <2>1, <2>2, UpdateGood
<1>4. QED BY <1>2, <1>3

\* Where a key that is there is found.
LEMMA KeyIsFound ==
  ASSUME IInv, NEW n, NEW k, KeyAt(n, k) # 0
  PROVE  /\ cfg.sections \in SecList /\ SectionAt(n) = Index(cfg.sections, n)
         /\ SectionAt(n) \in DOMAIN cfg.sections
         /\ KeyAt(n, k) = KeyIn(cfg.sections, n, k)
         /\ KeyAt(n, k) \in DOMAIN cfg.sections[SectionAt(n)].keys
<1>1. cfg.sections \in SecList /\ cfg.sections \in Seq(SecRec) BY DEF IInv, Handle, SecList
<1>2. SectionAt(n) # 0 /\ SectionAt(n) = Index(cfg.sections, n) BY DEF KeyAt, SectionAt
<1>3. KeyAt(n, k) = KeyIn(cfg.sections, n, k) BY <1>2 DEF KeyAt, KeyIn
<1>4. SectionAt(n) \in DOMAIN cfg.sections BY <1>1, <1>2, IndexFacts
<1>5. cfg.sections[SectionAt(n)] \in SecRec BY <1>1, <1>4
<1>6. cfg.sections[SectionAt(n)].keys \in Seq(KeyRec) BY <1>5 DEF SecRec, KeyList
<1>7. KeyAt(n, k) \in DOMAIN cfg.sections[SectionAt(n)].keys BY <1>2, <1>3, <1>6, IndexFacts DEF KeyIn
<1>8. QED BY <1>1, <1>2, <1>3, <1>4, <1>7

LEMMA DeleteSectionGood == ASSUME IInv, NEW n, config_delete_section(n) PROVE IInv'
<1> DEFINE ss == RemoveAt(cfg.sections, SectionAt(n))
<1>1. cfg.sections \in Seq(SecRec) /\ Distinct(cfg.sections) /\ DefaultFirst(cfg.sections)
  BY DEF IInv, Handle, SecList
<1>2. SectionAt(n) \in DOMAIN cfg.sections BY <1>1, IndexFacts DEF config_delete_section, SectionAt
<1>3. ss \in SecList BY <1>1, <1>2, RemoveKeepsDistinct DEF SecList
<1>4. Update([cfg EXCEPT !.sections = ss]) BY DEF config_delete_section
<1> HIDE DEF ss
<1>5. QED BY <1>3, <1>4, UpdateGood

LEMMA DeleteKeyGood == ASSUME IInv, NEW n, NEW k, config_delete_key(n, k) PROVE IInv'
<1> DEFINE i == SectionAt(n)
           ks == RemoveAt(cfg.sections[i].keys, KeyAt(n, k))
           ss == [cfg.sections EXCEPT ![i].keys = ks]
<1>1. KeyAt(n, k) # 0 BY DEF config_delete_key
<1>2. /\ cfg.sections \in SecList /\ i \in DOMAIN cfg.sections
      /\ KeyAt(n, k) \in DOMAIN cfg.sections[i].keys
  BY <1>1, KeyIsFound
<1>3. cfg.sections[i] \in SecRec BY <1>2 DEF SecList
<1>4. cfg.sections[i].keys \in Seq(KeyRec) /\ Distinct(cfg.sections[i].keys) BY <1>3 DEF SecRec, KeyList
<1>5. Update([cfg EXCEPT !.sections = ss]) BY DEF config_delete_key
<1> HIDE DEF i
<1>6. ks \in KeyList BY <1>2, <1>4, RemoveKeepsDistinct DEF KeyList
<1> HIDE DEF ks
<1>7. ss \in SecList BY <1>2, <1>6, RekeySection
<1> HIDE DEF ss
<1>8. QED BY <1>5, <1>7, UpdateGood

LEMMA DeleteValueGood == ASSUME IInv, NEW n, NEW k, config_delete_value(n, k) PROVE IInv'
<1> DEFINE w == cfg.sections
           ss == Change(w, n, k, LAMBDA x : [x EXCEPT !.value = NULL])
<1>1. KeyAt(n, k) # 0 BY DEF config_delete_value
<1>2. /\ w \in SecList /\ Index(w, n) \in DOMAIN w
      /\ KeyIn(w, n, k) \in DOMAIN w[Index(w, n)].keys
  BY <1>1, KeyIsFound
<1>3. Update([cfg EXCEPT !.sections = ss]) BY DEF config_delete_value
<1>4. ss \in SecList
  <2> HIDE DEF w
  <2>1. NULL \in Value \cup {NULL} OBVIOUS
  <2>2. QED BY <1>2, <2>1, SetValueGood
<1> HIDE DEF ss
<1>5. QED BY <1>3, <1>4, UpdateGood

LEMMA StepIInv == IInv /\ [Next]_vars => IInv'
<1> SUFFICES ASSUME IInv, [Next]_vars PROVE IInv' OBVIOUS
<1>1. CASE UNCHANGED vars BY <1>1 DEF IInv, vars
<1>2. CASE \E p \in {"file", NULL} : config_open(p) BY <1>2, OpenGood
<1>3. CASE config_load BY <1>3, LoadGood
<1>4. CASE config_save \/ config_close BY <1>4, SaveGood
<1>5. CASE \E c \in Comment \cup {NULL} : config_set_comment(c) BY <1>5, SetHeadGood
<1>6. ASSUME NEW n \in Section, config_delete_section(n) PROVE IInv' BY <1>6, DeleteSectionGood
<1>7. ASSUME NEW n \in Section, NEW c \in Comment \cup {NULL}, config_set_section_comment(n, c) PROVE IInv'
  BY <1>7, SetSectionGood
<1>8. ASSUME NEW n \in Section, NEW k \in Key, config_delete_key(n, k) PROVE IInv' BY <1>8, DeleteKeyGood
<1>9. ASSUME NEW n \in Section, NEW k \in Key, config_delete_value(n, k) PROVE IInv' BY <1>9, DeleteValueGood
<1>10. ASSUME NEW n \in Section, NEW k \in Key,
              \/ \E c \in Comment \cup {NULL} : config_set_key_comment(n, k, c)
              \/ \E v \in Value \cup {NULL} : config_set_value_string(n, k, v)
       PROVE  IInv'
  BY <1>10, SetKeyGood
<1>11. QED BY <1>1, <1>2, <1>3, <1>4, <1>5, <1>6, <1>7, <1>8, <1>9, <1>10 DEF Next

LEMMA InvariantHolds == Spec => []IInv
BY InitIInv, StepIInv, PTL DEF Spec

LEMMA IndexIs ==
  ASSUME NEW X, NEW items \in Seq(X), Distinct(items), NEW n, NEW h \in DOMAIN items,
         Lower[items[h].name] = Lower[n]
  PROVE  Index(items, n) = h
<1>1. Index(items, n) # 0 BY IndexFacts
<1>2. Index(items, n) \in DOMAIN items /\ Lower[items[Index(items, n)].name] = Lower[n]
  BY <1>1, IndexFacts
<1>3. QED BY <1>2 DEF Distinct

\* A lookup answers with what the handle says of the two names.
Answers(t, n, k) == Lower[t[1]] = Lower[n] /\ Lower[t[2][1]] = Lower[k]
Answer(t)        == t[2][2]

\* Where a lookup finds the key, 0 for nowhere, and what stands there.
Slot(c, n, k) ==
  LET i == Index(c.sections, n) IN IF i = 0 THEN 0 ELSE Index(c.sections[i].keys, k)
Kept(c, n, k) == c.sections[Index(c.sections, n)].keys[Slot(c, n, k)].value

\* What the handle read back should answer.
Expected(c, n, k, default) ==
  IF Slot(c, n, k) # 0 /\ Kept(c, n, k) = NULL THEN "" ELSE Get(c, n, k, default)

LEMMA GetKept ==
  ASSUME NEW c, NEW n, NEW k, NEW default
  PROVE  Get(c, n, k, default) =
           IF Slot(c, n, k) # 0 /\ Kept(c, n, k) # NULL THEN Kept(c, n, k) ELSE default
BY DEF Get, Slot, Kept

LEMMA GetSays ==
  ASSUME NEW c, c.sections \in SecList, NEW n, NEW k
  PROVE  /\ \A t \in All(c.sections) : Answers(t, n, k) =>
              Slot(c, n, k) # 0 /\ Shown(Kept(c, n, k)) = Answer(t)
         /\ (\A t \in All(c.sections) : ~Answers(t, n, k)) => Slot(c, n, k) = 0
<1> DEFINE ss == c.sections
           i == Index(ss, n)
           j == Slot(c, n, k)
<1>1. ss \in Seq(SecRec) /\ Distinct(ss) /\ DOMAIN ss = 1..Len(ss) BY DEF SecList
<1>2. \A h \in DOMAIN ss : /\ ss[h].keys \in Seq(KeyRec) /\ Distinct(ss[h].keys)
                           /\ DOMAIN ss[h].keys = 1..Len(ss[h].keys)
  <2>1. \A h \in DOMAIN ss : ss[h] \in SecRec BY <1>1
  <2>2. QED BY <2>1 DEF SecRec, KeyList
<1>3. j = (IF i = 0 THEN 0 ELSE Index(ss[i].keys, k)) /\ Kept(c, n, k) = ss[i].keys[j].value
  BY DEF Slot, Kept
<1> HIDE DEF ss, j
<1>4. ASSUME NEW t \in All(ss), Answers(t, n, k) PROVE j # 0 /\ Shown(Kept(c, n, k)) = Answer(t)
  <2>1. PICK h \in DOMAIN ss : t \in Said(ss[h]) BY <1>1, <1>4 DEF All, Settings
  <2>2. t[1] = ss[h].name /\ t[2] \in Content(ss[h].keys) BY <2>1 DEF Said
  <2>3. PICK m \in DOMAIN ss[h].keys : t[2] = <<ss[h].keys[m].name, Shown(ss[h].keys[m].value)>>
    BY <1>2, <2>2 DEF Content, Pairs
  <2>4. Lower[ss[h].name] = Lower[n] /\ Lower[ss[h].keys[m].name] = Lower[k]
    BY <1>4, <2>2, <2>3 DEF Answers
  <2>5. i = h BY <1>1, <2>4, IndexIs
  <2>6. Index(ss[h].keys, k) = m BY <1>2, <2>4, IndexIs
  <2>7. h # 0 /\ m # 0 BY <1>1, <1>2
  <2> HIDE DEF i
  <2>8. j = m BY <1>3, <2>5, <2>6, <2>7
  <2>9. Answer(t) = Shown(ss[h].keys[m].value) BY <2>3 DEF Answer
  <2>10. QED BY <1>3, <2>5, <2>7, <2>8, <2>9
<1>5. ASSUME \A t \in All(ss) : ~Answers(t, n, k) PROVE j = 0
  <2>1. SUFFICES ASSUME j # 0 PROVE FALSE OBVIOUS
  <2>2. i \in DOMAIN ss /\ Lower[ss[i].name] = Lower[n] BY <1>1, <1>3, <2>1, IndexFacts
  <2>3. j = Index(ss[i].keys, k) BY <1>3, <2>1
  <2> HIDE DEF i
  <2>4. j \in DOMAIN ss[i].keys /\ Lower[ss[i].keys[j].name] = Lower[k]
    BY <1>2, <2>1, <2>2, <2>3, IndexFacts
  <2> DEFINE p == <<ss[i].keys[j].name, Shown(ss[i].keys[j].value)>>
             t == <<ss[i].name, p>>
  <2>5. p \in Content(ss[i].keys) BY <1>2, <2>2, <2>4 DEF Content, Pairs
  <2>6. t \in Said(ss[i]) BY <2>5 DEF Said
  <2>7. t[1] = ss[i].name /\ t[2][1] = ss[i].keys[j].name OBVIOUS
  <2> HIDE DEF p, t
  <2>8. t \in All(ss) BY <1>1, <2>2, <2>6 DEF All, Settings
  <2>9. QED BY <1>5, <2>2, <2>4, <2>7, <2>8 DEF Answers
<1>6. QED BY <1>4, <1>5 DEF ss, j

-----------------------------------------------------------------------------
(* A handle read from a file has a value for every key.                    *)

Valued(ks)    == \A i \in DOMAIN ks : ks[i].value # NULL
ValuedList(ss) == \A i \in DOMAIN ss : Valued(ss[i].keys)
ValuedReader   == {r \in Reader : ValuedList(r.sections) /\ (r.open # NULL => Valued(r.open.keys))}

LEMMA MergeKeyValued ==
  ASSUME NEW ks \in KeyList, Valued(ks), NEW k \in KeyRec, k.value # NULL
  PROVE  Valued(MergeKey(ks, k))
<1> DEFINE i == Index(ks, k.name)
<1>1. ks \in Seq(KeyRec) BY DEF KeyList
<1>2. CASE i = 0
  <2>1. MergeKey(ks, k) = Append(ks, k) BY <1>2 DEF MergeKey
  <2>2. \A m \in DOMAIN Append(ks, k) : Append(ks, k)[m] = k \/ (m \in DOMAIN ks /\ Append(ks, k)[m] = ks[m])
    BY <1>1
  <2>3. QED BY <2>1, <2>2 DEF Valued
<1>3. CASE i # 0
  <2>1. i \in DOMAIN ks BY <1>1, <1>3, IndexFacts
  <2>2. ks[i] \in KeyRec BY <1>1, <2>1
  <2> DEFINE x == [ks[i] EXCEPT !.value = k.value, !.comment = k.comment]
  <2>3. x.value = k.value BY <2>2 DEF KeyRec
  <2>4. MergeKey(ks, k) = [ks EXCEPT ![i] = x] BY <1>1, <1>3, <2>1, <2>2 DEF MergeKey, KeyRec
  <2> HIDE DEF x, i
  <2>5. QED BY <1>1, <2>1, <2>3, <2>4 DEF Valued
<1>4. QED BY <1>2, <1>3

LEMMA MergeSectionValued ==
  ASSUME NEW ss \in SecList, ValuedList(ss), NEW s \in SecRec, Valued(s.keys)
  PROVE  ValuedList(MergeSection(ss, s))
<1> DEFINE i == Index(ss, s.name)
           ks == FoldLeft(MergeKey, ss[i].keys, s.keys)
           x == [ss[i] EXCEPT !.keys = ks]
<1>1. ss \in Seq(SecRec) BY DEF SecList
<1>2. CASE i = 0
  <2>1. MergeSection(ss, s) = cfg_add_section(ss, s) BY <1>2 DEF MergeSection
  <2>2. CASE s.name = ""
    <3>1. \A m \in DOMAIN (<<s>> \o ss) : \/ (<<s>> \o ss)[m] = s
                                          \/ m - 1 \in DOMAIN ss /\ (<<s>> \o ss)[m] = ss[m - 1]
      <4>1. <<s>> \in Seq(SecRec) /\ Len(<<s>>) = 1 /\ <<s>>[1] = s OBVIOUS
      <4>2. QED BY <1>1, <4>1
    <3>2. QED BY <2>1, <2>2, <3>1 DEF ValuedList, cfg_add_section
  <2>3. CASE s.name # ""
    <3>1. \A m \in DOMAIN Append(ss, s) : \/ Append(ss, s)[m] = s
                                          \/ m \in DOMAIN ss /\ Append(ss, s)[m] = ss[m]
      BY <1>1
    <3>2. QED BY <2>1, <2>3, <3>1 DEF ValuedList, cfg_add_section
  <2>4. QED BY <2>2, <2>3
<1>3. CASE i # 0
  <2>1. i \in DOMAIN ss BY <1>1, <1>3, IndexFacts
  <2>2. ss[i] \in SecRec BY <1>1, <2>1
  <2> DEFINE R     == {l \in KeyList : Valued(l)}
             Items == {k \in KeyRec : k.value # NULL}
  <2>3. ss[i].keys \in R BY <2>1, <2>2 DEF SecRec, ValuedList
  <2>4. s.keys \in Seq(Items)
    <3>1. s.keys \in Seq(KeyRec) BY DEF SecRec, KeyList
    <3>2. QED BY <3>1 DEF Valued
  <2>5. \A l \in R, k \in Items : MergeKey(l, k) \in R BY MergeKeyGood, MergeKeyValued
  <2> HIDE DEF R, Items
  <2>6. ks \in R BY <2>3, <2>4, <2>5, MergeKeeps
  <2>7. Valued(ks) BY <2>6 DEF R
  <2>8. MergeSection(ss, s) = [ss EXCEPT ![i] = x] BY <1>1, <1>3, <2>1, <2>2 DEF MergeSection, SecRec
  <2> HIDE DEF ks
  <2>9. x.keys = ks BY <2>2 DEF SecRec
  <2> HIDE DEF x, i
  <2>10. QED BY <1>1, <2>1, <2>7, <2>8, <2>9 DEF ValuedList
<1>4. QED BY <1>2, <1>3

LEMMA BeginValued ==
  ASSUME NEW r \in ValuedReader, NEW n \in Section PROVE Begin(r, n) \in ValuedReader
<1>1. r \in Reader /\ ValuedList(r.sections) BY DEF ValuedReader
<1>2. Begin(r, n) \in Reader BY <1>1, BeginGood
<1>3. \A c : Valued(NoKeys(n, c).keys) BY DEF Valued, NoKeys
<1>4. CASE r.open = NULL
  <2>1. Begin(r, n).sections = r.sections /\ Begin(r, n).open = NoKeys(n, SplitOff(r.above))
    BY <1>1, <1>4 DEF Begin, Reader
  <2>2. QED BY <1>1, <1>2, <1>3, <2>1 DEF ValuedReader
<1>5. CASE r.open # NULL
  <2>1. /\ Begin(r, n).sections = MergeSection(r.sections, r.open)
        /\ Begin(r, n).open = NoKeys(n, r.above)
    BY <1>1, <1>5 DEF Begin, Reader
  <2>2. r.sections \in SecList /\ r.open \in SecRec /\ Valued(r.open.keys)
    BY <1>1, <1>5 DEF ValuedReader, Reader
  <2>3. ValuedList(MergeSection(r.sections, r.open)) BY <1>1, <2>2, MergeSectionValued
  <2>4. QED BY <1>2, <1>3, <2>1, <2>3 DEF ValuedReader
<1>6. QED BY <1>4, <1>5

LEMMA ReadLineValued ==
  ASSUME NEW r \in ValuedReader, NEW l \in Line PROVE ReadLine(r, l) \in ValuedReader
<1>1. r \in Reader /\ ValuedList(r.sections) BY DEF ValuedReader
<1>2. ReadLine(r, l) \in Reader BY <1>1, ReadLineGood
<1>3. CASE l.type \in {"comment", "empty"}
  <2>1. \E a : ReadLine(r, l) = [r EXCEPT !.above = a] BY <1>3 DEF ReadLine
  <2>2. ReadLine(r, l).sections = r.sections /\ ReadLine(r, l).open = r.open BY <1>1, <2>1 DEF Reader
  <2>3. QED BY <1>2, <2>2 DEF ValuedReader
<1>4. CASE l \in [type : {"section"}, text : Section]
  <2>1. ReadLine(r, l) = Begin(r, l.text) /\ l.text \in Section BY <1>4 DEF ReadLine
  <2>2. QED BY <2>1, BeginValued
<1>5. CASE l \in [type : {"key"}, text : Key, value : Value]
  <2> DEFINE q == IF r.open = NULL THEN Begin(r, "") ELSE r
             k == [name |-> l.text, value |-> l.value, comment |-> q.above]
  <2>1. l.type = "key" BY <1>5
  <2>2. ReadLine(r, l) = cfg_read_key(q, l) BY <2>1 DEF ReadLine
  <2>3. q \in ValuedReader /\ q.open \in SecRec
    <3>1. CASE r.open = NULL
      <4>1. "" \in Section BY ConfigAssumption
      <4>2. Begin(r, "").open \in SecRec /\ Begin(r, "") \in ValuedReader BY <1>1, <4>1, BeginGood, BeginValued
      <4>3. QED BY <3>1, <4>2
    <3>2. CASE r.open # NULL BY <1>1, <3>2 DEF Reader
    <3>3. QED BY <3>1, <3>2
  <2>4. q \in Reader /\ ValuedList(q.sections) /\ Valued(q.open.keys) /\ q.above \in Note
    BY <2>3, NullIsNoSection DEF ValuedReader, Reader
  <2> HIDE DEF q
  <2>5. k \in KeyRec /\ k.value # NULL BY <1>5, <2>4, ConfigAssumption DEF KeyRec
  <2> DEFINE ks == MergeKey(q.open.keys, k)
  <2>6. cfg_read_key(q, l).sections = q.sections /\ cfg_read_key(q, l).open.keys = ks
    BY <2>3, <2>4 DEF cfg_read_key, Reader, SecRec
  <2> HIDE DEF k
  <2>7. q.open.keys \in KeyList BY <2>3 DEF SecRec
  <2>8. Valued(ks) BY <2>4, <2>5, <2>7, MergeKeyValued
  <2> HIDE DEF ks
  <2>9. QED BY <1>2, <2>2, <2>4, <2>6, <2>8 DEF ValuedReader
<1>6. CASE l \in [type : {"comment"}, text : Text] BY <1>3, <1>6
<1>7. CASE l = EmptyLine BY <1>3, <1>7 DEF EmptyLine
<1>8. QED BY <1>4, <1>5, <1>6, <1>7 DEF Line

LEMMA ReadValued == ASSUME NEW lines \in Seq(Line) PROVE Read(FirstReader, lines) \in ValuedReader
<1>1. FirstReader \in ValuedReader
  <2>1. FirstReader \in Reader BY EmptyList DEF FirstReader, Reader, Note
  <2>2. QED BY <2>1 DEF ValuedReader, FirstReader, ValuedList
<1>2. QED BY <1>1, ReadLineValued, ReadKeeps DEF Read

LEMMA SlotKept ==
  ASSUME NEW d, d.sections \in SecList, ValuedList(d.sections), NEW n, NEW k, Slot(d, n, k) # 0
  PROVE  Kept(d, n, k) # NULL
<1> DEFINE i == Index(d.sections, n)
<1>1. d.sections \in Seq(SecRec) BY DEF SecList
<1>2. i # 0 /\ Slot(d, n, k) = Index(d.sections[i].keys, k) BY DEF Slot
<1>3. i \in DOMAIN d.sections BY <1>1, <1>2, IndexFacts
<1>4. d.sections[i] \in SecRec BY <1>1, <1>3
<1>5. d.sections[i].keys \in Seq(KeyRec) BY <1>4 DEF SecRec, KeyList
<1>6. Slot(d, n, k) \in DOMAIN d.sections[i].keys BY <1>2, <1>5, IndexFacts
<1>7. QED BY <1>3, <1>6 DEF ValuedList, Valued, Kept

\* A handle that says the same, and has a value for every key, answers the same
\* but for the values that are missing.
LEMMA SameAnswers ==
  ASSUME NEW c, c.sections \in SecList, NEW d, d.sections \in SecList, ValuedList(d.sections),
         All(c.sections) = All(d.sections), NEW n, NEW k, NEW default
  PROVE  Get(d, n, k, default) = Expected(c, n, k, default)
<1>1. CASE \E t \in All(c.sections) : Answers(t, n, k)
  <2>1. PICK t \in All(c.sections) : Answers(t, n, k) BY <1>1
  <2>2. Slot(c, n, k) # 0 /\ Shown(Kept(c, n, k)) = Answer(t) BY <2>1, GetSays
  <2>3. Slot(d, n, k) # 0 /\ Shown(Kept(d, n, k)) = Answer(t) BY <2>1, GetSays
  <2>4. Kept(d, n, k) # NULL BY <2>3, SlotKept
  <2>5. Get(d, n, k, default) = Shown(Kept(c, n, k)) BY <2>2, <2>3, <2>4, GetKept DEF Shown
  <2>6. QED BY <2>2, <2>5, GetKept DEF Shown, Expected
<1>2. CASE \A t \in All(c.sections) : ~Answers(t, n, k)
  <2>1. Slot(c, n, k) = 0 /\ Slot(d, n, k) = 0 BY <1>2, GetSays
  <2>2. QED BY <2>1, GetKept DEF Expected
<1>3. QED BY <1>1, <1>2

LEMMA HandleSurvives ==
  ASSUME NEW c \in Handle
  PROVE  \/ cfg_read(cfg_write(c)) = Crash /\ \A h \in DOMAIN c.sections :
              c.sections[h].name = "" /\ c.sections[h].keys = <<>>
         \/ cfg_read(cfg_write(c)) \in Handle /\ \A n, k, default :
              Get(cfg_read(cfg_write(c)), n, k, default) = Expected(c, n, k, default)
<1> DEFINE q == Read(FirstReader, cfg_write(c))
           d == cfg_read(cfg_write(c))
           Agree == \A n, k, default : Get(d, n, k, default) = Expected(c, n, k, default)
<1>1. d = IF q.open # NULL THEN [comment |-> q.comment, sections |-> MergeSection(q.sections, q.open)]
          ELSE IF q.above # NULL THEN Crash ELSE Blank
  BY DEF cfg_read, Read, FirstReader
<1>2. Loaded(q, c.sections, Len(c.sections)) BY ReadBack
<1>3. c.sections \in SecList /\ DOMAIN c.sections = 1..Len(c.sections) BY DEF Handle, SecList
<1>9. q \in ValuedReader
  <2>1. cfg_write(c) \in Seq(Line) BY WriteGood
  <2>2. QED BY <2>1, ReadValued
<1> HIDE DEF q, d
<1>4. q \in Reader /\ All(Merged(q)) = All(c.sections) BY <1>2 DEF Loaded, All
<1>5. Merged(q) \in SecList BY <1>4, MergedGood
<1>10. ValuedList(Merged(q))
  <2>1. ValuedList(q.sections) /\ (q.open # NULL => Valued(q.open.keys)) BY <1>9 DEF ValuedReader
  <2>2. q.sections \in SecList /\ q.open \in SecRec \cup {NULL} BY <1>4 DEF Reader
  <2>3. QED BY <2>1, <2>2, MergeSectionValued DEF Merged
<1>6. CASE q.open # NULL
  <2>1. d = [comment |-> q.comment, sections |-> Merged(q)] BY <1>1, <1>6 DEF Merged
  <2>2. d \in Handle /\ d.sections = Merged(q) BY <1>4, <1>5, <2>1 DEF Handle, Reader
  <2>3. Agree
    <3>1. d.sections \in SecList /\ ValuedList(d.sections) /\ All(c.sections) = All(d.sections)
      BY <1>4, <1>5, <1>10, <2>2
    <3>2. ASSUME NEW n, NEW k, NEW default
          PROVE  Get(d, n, k, default) = Expected(c, n, k, default)
      BY <1>3, <3>1, SameAnswers
    <3>3. QED BY <3>2
  <2>4. QED BY <2>2, <2>3 DEF d
<1>7. CASE q.open = NULL
  <2>1. /\ Merged(q) = <<>>
        /\ \A h \in DOMAIN c.sections : c.sections[h].name = "" /\ c.sections[h].keys = <<>>
    BY <1>2, <1>3, <1>7 DEF Loaded, Merged
  <2>2. CASE d = Crash BY <2>1, <2>2 DEF d
  <2>3. CASE d = Blank
    <3>1. d \in Handle /\ d.sections = Merged(q) BY <2>1, <2>3, BlankGood DEF Blank
    <3>2. Agree
      <4>1. d.sections \in SecList /\ ValuedList(d.sections) /\ All(c.sections) = All(d.sections)
        BY <1>4, <1>5, <1>10, <3>1
      <4>2. ASSUME NEW n, NEW k, NEW default
            PROVE  Get(d, n, k, default) = Expected(c, n, k, default)
        BY <1>3, <4>1, SameAnswers
      <4>3. QED BY <4>2
    <3>3. QED BY <3>1, <3>2 DEF d
  <2>4. QED BY <1>1, <1>7, <2>2, <2>3
<1>8. QED BY <1>6, <1>7

\* Written, read and written again, a handle makes the same lines but blank ones.
LEMMA HandleLines ==
  ASSUME NEW c \in Handle, cfg_read(cfg_write(c)) # Crash
  PROVE  Solid(cfg_write(cfg_read(cfg_write(c)))) = Solid(cfg_write(c))
<1> DEFINE q == Read(FirstReader, cfg_write(c))
           d == cfg_read(cfg_write(c))
<1>1. d = IF q.open # NULL THEN [comment |-> q.comment, sections |-> MergeSection(q.sections, q.open)]
          ELSE IF q.above # NULL THEN Crash ELSE Blank
  BY DEF cfg_read, Read, FirstReader
<1>2. Tidy(q) /\ Closed(q) /\ Out(q) = Solid(cfg_write(c)) BY FileCarries
<1>3. d # Crash OBVIOUS
<1> HIDE DEF q, d
<1>4. q \in Reader BY <1>2 DEF Tidy
<1> DEFINE a == Noted(q.comment)
           b == Body(q.sections)
           s == SecLines(q.open)
<1>5. a \in Seq(Line) /\ b \in Seq(Line) BY <1>4, OutGood
<1>6. CASE q.open # NULL
  <2>1. Merged(q) = Append(q.sections, q.open) /\ q.open \in SecRec BY <1>2, <1>6, MergedTidy
  <2>2. d = [comment |-> q.comment, sections |-> Append(q.sections, q.open)] BY <1>1, <1>6, <2>1 DEF Merged
  <2>3. d \in Handle /\ d.comment = q.comment /\ d.sections = Append(q.sections, q.open)
    BY <1>4, <2>1, <2>2, MergedGood DEF Handle, Reader
  <2>4. q.sections \in Seq(SecRec) BY <1>4 DEF Reader, SecList
  <2>5. Solid(cfg_write(d)) = Join(a, Join(b, s)) BY <2>1, <2>3, <2>4, SolidHandle, BodyAppend
  <2>6. Noted(q.above) = <<>> BY <1>2, <1>6, NotedNull DEF Closed
  <2>7. Out(q) = Join(Join(a, b), Join(s, <<>>)) BY <1>6, <2>6 DEF Out, OpenLines
  <2>8. s \in Seq(Line) BY <2>1, SecLinesGood
  <2> HIDE DEF a, b, s
  <2>9. Join(s, <<>>) = s /\ Join(Join(a, b), s) = Join(a, Join(b, s)) BY <1>5, <2>8, LineJoins
  <2>10. QED BY <1>2, <2>5, <2>7, <2>9 DEF d
<1>7. CASE q.open = NULL
  <2>1. q.above = NULL /\ d = Blank BY <1>1, <1>3, <1>7
  <2>2. q.comment = NULL /\ q.sections = <<>> BY <1>2, <1>7 DEF Tidy
  <2>3. Blank \in Handle /\ Blank.comment = NULL /\ Blank.sections = <<>> BY BlankGood DEF Blank
  <2>4. Solid(cfg_write(Blank)) = Join(a, b) BY <2>2, <2>3, SolidHandle
  <2>5. Out(q) = Join(Join(a, b), Join(<<>>, <<>>)) BY <1>7, <2>1, NotedNull DEF Out, OpenLines
  <2> DEFINE ab == Join(a, b)
  <2> HIDE DEF a, b
  <2>6. ab \in Seq(Line) BY <1>5, LineJoins
  <2> HIDE DEF ab
  <2>7. Join(ab, Join(<<>>, <<>>)) = ab BY <2>6, LineJoins
  <2>8. QED BY <1>2, <2>1, <2>4, <2>5, <2>7 DEF d, ab
<1>8. QED BY <1>6, <1>7 DEF d

\* Written and read once, a handle makes a file that does not grow any more.
LEMMA HandleSettles ==
  ASSUME NEW c \in Handle, cfg_read(cfg_write(c)) # Crash
  PROVE  Len(cfg_write(cfg_read(cfg_write(cfg_read(cfg_write(c)))))) <= Len(cfg_write(cfg_read(cfg_write(c))))
<1> DEFINE q == Read(FirstReader, cfg_write(c))
           d == cfg_read(cfg_write(c))
<1>1. d = IF q.open # NULL THEN [comment |-> q.comment, sections |-> MergeSection(q.sections, q.open)]
          ELSE IF q.above # NULL THEN Crash ELSE Blank
  BY DEF cfg_read, Read, FirstReader
<1>2. Tidy(q) /\ Closed(q) /\ Rooted(q) BY FileCarries
<1>3. d # Crash OBVIOUS
<1> HIDE DEF q, d
<1>4. q \in Reader BY <1>2 DEF Tidy
<1>5. CASE q.open # NULL
  <2>1. Merged(q) = Append(q.sections, q.open) /\ q.open \in SecRec BY <1>2, <1>5, MergedTidy
  <2>2. d = [comment |-> q.comment, sections |-> Append(q.sections, q.open)] BY <1>1, <1>5, <2>1 DEF Merged
  <2>3. d \in Handle /\ d.comment = q.comment /\ d.sections = Append(q.sections, q.open)
    BY <1>4, <2>1, <2>2, MergedGood DEF Handle, Reader
  <2>4. q.sections \in Seq(SecRec) BY <1>4 DEF Reader, SecList
  <2>5. d.sections # <<>> /\ d.sections[1] = Foremost(q)
    <3> DEFINE ss == q.sections
               o == q.open
    <3>1. ss \in Seq(SecRec) /\ o \in SecRec BY <2>1, <2>4
    <3> HIDE DEF ss, o
    <3>2. Append(ss, o) # <<>> BY <3>1
    <3>3. Append(ss, o)[1] = IF ss = <<>> THEN o ELSE ss[1] BY <3>1
    <3>4. QED BY <2>3, <3>2, <3>3 DEF Foremost, ss, o
  <2>6. Firm(d.sections[1], d.comment) /\ Bare(d.sections[1]) BY <1>2, <1>5, <2>3, <2>5 DEF Rooted
  <2>7. QED BY <2>3, <2>5, <2>6, SettledFits DEF d
<1>6. CASE q.open = NULL
  <2>1. d = Blank BY <1>1, <1>3, <1>6
  <2>2. Blank \in Handle /\ Blank.comment = NULL /\ Blank.sections = <<>> BY BlankGood DEF Blank
  <2>3. Len(cfg_write(Blank)) = 0
    <3>1. <<>> \in Seq(SecRec) BY EmptySeq
    <3>2. BodyRows(<<>>) = 0 /\ HeadRows(NULL) = 0 BY <3>1, BodyRowsGood DEF HeadRows
    <3>3. QED BY <2>2, <3>2, HandleRows
  <2>4. cfg_read(cfg_write(Blank)) = Blank
    <3>1. cfg_write(Blank) \in Seq(Line) BY <2>2, WriteGood
    <3>2. cfg_write(Blank) = <<>> BY <2>3, <3>1
    <3>3. Read(FirstReader, <<>>) = FirstReader BY ReadNone
    <3>4. FirstReader.open = NULL /\ FirstReader.above = NULL BY DEF FirstReader
    <3>5. cfg_read(<<>>) = Blank BY <3>3, <3>4 DEF cfg_read, Read, FirstReader
    <3>6. QED BY <3>2, <3>5
  <2>5. QED BY <2>1, <2>3, <2>4 DEF d
<1>7. QED BY <1>5, <1>6

\* config_open to config_close: whatever file is read and whatever calls are made,
\* the handle holds names, values and comments of their kinds only.
THEOREM ConfigTypeCorrect == Spec => []TypeOK
<1>1. IInv => TypeOK
  <2> SUFFICES ASSUME IInv PROVE TypeOK OBVIOUS
  <2>1. cfg \in [comment : Note, sections : Seq(SectionRec)]
    <3>1. SecRec \subseteq SectionRec BY DEF SecRec, KeyList, SectionRec
    <3>2. cfg.sections \in Seq(SectionRec) BY <3>1 DEF IInv, Handle, SecList
    <3>3. QED BY <3>2 DEF IInv, Handle
  <2>2. QED BY <2>1 DEF TypeOK, IInv
<1>2. QED BY <1>1, InvariantHolds, PTL

\* cfg_add_section, cfg_add_key, cfg_merge_section and the setters: names that
\* differ in case at most never stand for two sections, or two keys of a section.
THEOREM NamesStayUnique == Spec => []NamesUnique
<1>1. IInv => NamesUnique
  <2> SUFFICES ASSUME IInv PROVE NamesUnique OBVIOUS
  <2>1. cfg.sections \in Seq(SecRec) /\ Distinct(cfg.sections) BY DEF IInv, Handle, SecList
  <2>2. ASSUME NEW i \in DOMAIN cfg.sections PROVE Distinct(cfg.sections[i].keys)
    <3>1. cfg.sections[i] \in SecRec BY <2>1, <2>2
    <3>2. QED BY <3>1 DEF SecRec, KeyList
  <2>3. QED BY <2>1, <2>2 DEF NamesUnique, Distinct
<1>2. QED BY <1>1, InvariantHolds, PTL

\* config_save, then config_open or config_load: whatever default a lookup is given,
\* the handle read from the file gives the value this handle gives, and the default
\* where this one has no such key, for every set of comments, values and sections;
\* a value that has been deleted is the only one that changes, to the empty text.
\* Only a handle without a setting can make the file that ends the program.
THEOREM SettingsOutliveFile == Spec => []SettingsSurvive
<1>1. IInv => SettingsSurvive
  <2> SUFFICES ASSUME IInv PROVE SettingsSurvive OBVIOUS
  <2>1. cfg \in Handle BY DEF IInv
  <2>2. Crash \notin Handle BY NullIsNoSection DEF Crash, Handle
  <2>3. \/ Reloaded = Crash /\ HoldsNothing
        \/ Reloaded \in Handle /\ \A n, k, default : Get(Reloaded, n, k, default) = Expected(cfg, n, k, default)
    BY <2>1, HandleSurvives DEF Reloaded, HoldsNothing
  <2>4. \A n, k : Erased(n, k) <=> Slot(cfg, n, k) # 0 /\ Kept(cfg, n, k) = NULL
    BY DEF Erased, KeyAt, SectionAt, Slot, Kept
  <2>5. QED BY <2>2, <2>3, <2>4 DEF SettingsSurvive, Expected
<1>2. QED BY <1>1, InvariantHolds, PTL

\* config_save, then config_open or config_load, then config_save: every line but
\* blank ones is there again, in order, for every handle the calls can make; what
\* stood above a section or a key stays above it, be it as the head of the file.
THEOREM LinesOutliveFile == Spec => []LinesSurvive
<1>1. IInv => LinesSurvive
  <2> SUFFICES ASSUME IInv, Survives PROVE Solid(cfg_write(Reloaded)) = Solid(cfg_write(cfg))
    BY DEF LinesSurvive
  <2>1. cfg \in Handle BY DEF IInv
  <2>2. cfg_read(cfg_write(cfg)) # Crash BY DEF Survives, Reloaded
  <2>3. QED BY <2>1, <2>2, HandleLines DEF Reloaded
<1>2. QED BY <1>1, InvariantHolds, PTL

\* config_open, config_save and config_open again: from the second save on the file
\* has no more lines than before, for every handle the calls can make; neither the
\* blank lines between sections nor the split of the head comment pile up.
THEOREM FilesSettled == Spec => []FilesSettle
<1>1. IInv => FilesSettle
  <2> SUFFICES ASSUME IInv, Survives
               PROVE  Len(cfg_write(cfg_read(cfg_write(Reloaded)))) <= Len(cfg_write(Reloaded))
    BY DEF FilesSettle
  <2>1. cfg \in Handle BY DEF IInv
  <2>2. cfg_read(cfg_write(cfg)) # Crash BY DEF Survives, Reloaded
  <2>3. QED BY <2>1, <2>2, HandleSettles DEF Reloaded
<1>2. QED BY <1>1, InvariantHolds, PTL
=============================================================================
