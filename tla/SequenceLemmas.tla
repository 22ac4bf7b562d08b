--------------------------- MODULE SequenceLemmas ---------------------------
(* Facts about the sequence operators the models are built from. *)
EXTENDS SequencesExt, FiniteSetTheorems, WellFoundedInduction, TLAPS

(* Induction over the natural numbers, for a set instead of a predicate. *)
LEMMA SetInduction ==
  ASSUME NEW T, 0 \in T, \A n \in Nat : n \in T => n + 1 \in T
  PROVE  Nat \subseteq T
<1> SUFFICES ASSUME NEW k \in Nat, k \notin T PROVE FALSE
  OBVIOUS
<1> DEFINE M == Nat \ T
           R == OpToRel(<, Nat)
<1>1. IsWellFoundedOn(R, Nat)
  BY NatLessThanWellFounded
<1>2. M \subseteq Nat /\ M # {}
  OBVIOUS
<1>3. PICK x \in M : \A y \in M : ~(<<y, x>> \in R)
  <2> HIDE DEF M, R
  <2> QED
    BY <1>1, <1>2, WFMin
<1>4. \A y, z \in Nat : <<y, z>> \in R <=> y < z
  BY DEF OpToRel
<1> HIDE DEF R
<1>5. x \in Nat /\ x # 0 /\ x \notin T
  OBVIOUS
<1>6. x - 1 \in Nat /\ x - 1 < x
  BY <1>5
<1>7. x - 1 \in T
  BY <1>3, <1>4, <1>5, <1>6
<1> QED
  BY <1>5, <1>6, <1>7

-----------------------------------------------------------------------------
(* What FlattenSeq builds up: the concatenation of the first sequences.    *)
FunctionOnFirst(f, n) == f = [i \in 1..n |-> f[i]]

Flattens(f, seqs, n) ==
  /\ FunctionOnFirst(f, n)
  /\ \A i \in 1..n : f[i] = IF i = 1 THEN seqs[i] ELSE f[i - 1] \o seqs[i]

LEMMA FlattensNext ==
  ASSUME NEW seqs, NEW n \in Nat, NEW f, Flattens(f, seqs, n), NEW k \in Nat, k + 1 \in 1..n
  PROVE  f[k + 1] = IF k = 0 THEN seqs[1] ELSE f[k] \o seqs[k + 1]
<1>1. f[k + 1] = IF k + 1 = 1 THEN seqs[k + 1] ELSE f[(k + 1) - 1] \o seqs[k + 1]
  BY Zenon DEF Flattens
<1>2. (k + 1) - 1 = k /\ (k + 1 = 1 <=> k = 0)
  OBVIOUS
<1>3. CASE k = 0
  BY <1>1, <1>3
<1>4. CASE k # 0
  BY <1>1, <1>2, <1>4, Zenon
<1> QED
  BY <1>3, <1>4

LEMMA FlattensExists ==
  ASSUME NEW seqs, NEW n \in Nat
  PROVE  \E f : Flattens(f, seqs, n)
<1> DEFINE T == {k \in Nat : \E f : Flattens(f, seqs, k)}
<1>1. 0 \in T
  <2>1. Flattens([i \in 1..0 |-> i], seqs, 0)
    BY DEF Flattens, FunctionOnFirst
  <2> QED
    BY <2>1
<1>2. ASSUME NEW k \in Nat, k \in T
      PROVE  k + 1 \in T
  <2>1. PICK f : Flattens(f, seqs, k)
    BY <1>2
  <2> DEFINE g == [i \in 1..(k + 1) |->
                     IF i = 1 THEN seqs[i] ELSE f[i - 1] \o seqs[i]]
  <2>2. \A i \in 1..k : f[i] = g[i]
    BY <2>1 DEF Flattens
  <2> HIDE DEF g
  <2>3. Flattens(g, seqs, k + 1)
    <3>1. \A i \in 1..(k + 1) : i # 1 => i - 1 \in 1..k
      OBVIOUS
    <3>2. \A i \in 1..(k + 1) : g[i] = IF i = 1 THEN seqs[i] ELSE f[i - 1] \o seqs[i]
      BY DEF g
    <3>3. FunctionOnFirst(g, k + 1)
      BY DEF g, FunctionOnFirst
    <3> QED
      BY <2>2, <3>1, <3>2, <3>3 DEF Flattens
  <2> QED
    BY <2>3
<1> HIDE DEF T
<1>3. n \in T
  BY <1>1, <1>2, SetInduction
<1> QED
  BY <1>3 DEF T

LEMMA FlattensAgree ==
  ASSUME NEW seqs, NEW n \in Nat, NEW m \in Nat, NEW f, NEW g,
         Flattens(f, seqs, n), Flattens(g, seqs, m)
  PROVE  \A i \in 1..n : i <= m => f[i] = g[i]
<1> DEFINE T == {k \in Nat : k \in 1..n /\ k <= m => f[k] = g[k]}
<1>1. 0 \in T
  OBVIOUS
<1>2. ASSUME NEW k \in Nat, k \in T
      PROVE  k + 1 \in T
  <2> SUFFICES ASSUME k + 1 \in 1..n, k + 1 <= m PROVE f[k + 1] = g[k + 1]
    OBVIOUS
  <2>1. k # 0 => f[k] = g[k]
    BY <1>2
  <2>2. f[k + 1] = IF k = 0 THEN seqs[1] ELSE f[k] \o seqs[k + 1]
    BY FlattensNext
  <2>3. g[k + 1] = IF k = 0 THEN seqs[1] ELSE g[k] \o seqs[k + 1]
    <3>1. k + 1 \in 1..m
      OBVIOUS
    <3> QED
      BY <3>1, FlattensNext
  <2> QED
    BY <2>1, <2>2, <2>3
<1> HIDE DEF T
<1>3. Nat \subseteq T
  BY <1>1, <1>2, SetInduction
<1> QED
  BY <1>3 DEF T

LEMMA FlattenSeqIs ==
  ASSUME NEW seqs, NEW f, Len(seqs) \in Nat \ {0}, Flattens(f, seqs, Len(seqs))
  PROVE  FlattenSeq(seqs) = f[Len(seqs)]
<1> DEFINE n == Len(seqs)
           c == CHOOSE g : g = [i \in 1..n |-> IF i = 1 THEN seqs[i] ELSE g[i - 1] \o seqs[i]]
<1>1. FlattenSeq(seqs) = c[n]
  BY DEF FlattenSeq
<1>2. Flattens(c, seqs, n)
  <2>1. f = [i \in 1..n |-> IF i = 1 THEN seqs[i] ELSE f[i - 1] \o seqs[i]]
    BY DEF Flattens, FunctionOnFirst
  <2>2. c = [i \in 1..n |-> IF i = 1 THEN seqs[i] ELSE c[i - 1] \o seqs[i]]
    BY <2>1
  <2> HIDE DEF c
  <2> QED
    BY <2>2 DEF Flattens, FunctionOnFirst
<1> HIDE DEF c
<1> QED
  BY <1>1, <1>2, FlattensAgree

LEMMA FlattenEmpty == FlattenSeq(<<>>) = <<>>
BY DEF FlattenSeq

(* One more sequence, in the end. *)
LEMMA FlattenAppend ==
  ASSUME NEW S, NEW seqs \in Seq(Seq(S)), NEW q \in Seq(S)
  PROVE  FlattenSeq(Append(seqs, q)) = FlattenSeq(seqs) \o q
<1> DEFINE n == Len(seqs)
           longer == Append(seqs, q)
<1>1. Len(longer) = n + 1 /\ n \in Nat /\ longer[n + 1] = q
      /\ \A i \in 1..n : longer[i] = seqs[i]
  OBVIOUS
<1> HIDE DEF longer
<1> HIDE DEF n
<1>2. PICK f : Flattens(f, longer, n + 1)
  <2>1. n + 1 \in Nat
    BY <1>1
  <2> QED
    BY <2>1, FlattensExists, Zenon
<1>3. FlattenSeq(longer) = f[n + 1]
  BY <1>1, <1>2, FlattenSeqIs
<1>4. ASSUME n = 0
      PROVE  FlattenSeq(longer) = FlattenSeq(seqs) \o q
  <2>1. seqs = <<>>
    BY <1>4 DEF n
  <2>2. f[n + 1] = q
    <3>1. 0 + 1 \in 1..(n + 1) /\ n + 1 \in Nat /\ longer[1] = q
      BY <1>1, <1>4
    <3>2. f[0 + 1] = longer[1]
      BY <1>2, <3>1, FlattensNext
    <3> QED
      BY <1>4, <3>1, <3>2
  <2>3. <<>> \o q = q
    OBVIOUS
  <2> QED
    BY <1>3, <2>1, <2>2, <2>3, FlattenEmpty, Zenon
<1>5. ASSUME n # 0
      PROVE  FlattenSeq(longer) = FlattenSeq(seqs) \o q
  <2>1. PICK g : Flattens(g, seqs, n)
    BY <1>1, FlattensExists
  <2>2. FlattenSeq(seqs) = g[n]
    BY <1>1, <1>5, <2>1, FlattenSeqIs DEF n
  <2>3. Flattens(g, longer, n)
    BY <1>1, <2>1 DEF Flattens
  <2>4. f[n] = g[n]
    <3>1. n \in 1..n /\ n <= n + 1 /\ n + 1 \in Nat
      BY <1>1, <1>5
    <3> QED
      BY <1>1, <1>2, <2>3, <3>1, FlattensAgree
  <2>5. f[n + 1] = f[n] \o q
    <3>1. n + 1 \in 1..(n + 1) /\ n + 1 \in Nat
      BY <1>1
    <3> QED
      BY <1>1, <1>2, <1>5, <3>1, FlattensNext
  <2> QED
    BY <1>3, <2>2, <2>4, <2>5, Zenon
<1> QED
  BY <1>4, <1>5 DEF longer

LEMMA FlattenType ==
  ASSUME NEW S, NEW seqs \in Seq(Seq(S))
  PROVE  FlattenSeq(seqs) \in Seq(S)
<1> DEFINE n == Len(seqs)
<1>1. CASE seqs = <<>>
  <2>1. <<>> \in Seq(S)
    OBVIOUS
  <2> QED
    BY <1>1, <2>1, FlattenEmpty, Zenon
<1>2. CASE seqs # <<>>
  <2> n \in Nat \ {0} /\ \A i \in 1..n : seqs[i] \in Seq(S)
    BY <1>2
  <2> HIDE DEF n
  <2>1. PICK f : Flattens(f, seqs, n)
    BY FlattensExists, Zenon
  <2> DEFINE T == {k \in Nat : k \in 1..n => f[k] \in Seq(S)}
  <2>2. 0 \in T
    OBVIOUS
  <2>3. ASSUME NEW k \in Nat, k \in T PROVE k + 1 \in T
    <3> SUFFICES ASSUME k + 1 \in 1..n PROVE f[k + 1] \in Seq(S)
      OBVIOUS
    <3>1. seqs[k + 1] \in Seq(S) /\ seqs[1] \in Seq(S)
      OBVIOUS
    <3>2. f[k + 1] = IF k = 0 THEN seqs[1] ELSE f[k] \o seqs[k + 1]
      BY <2>1, FlattensNext
    <3>3. k # 0 => f[k] \in Seq(S)
      BY <2>3
    <3> QED
      BY <3>1, <3>2, <3>3
  <2> HIDE DEF T
  <2>4. n \in T
    BY <2>2, <2>3, SetInduction
  <2>5. f[n] \in Seq(S)
    BY <1>2, <2>4 DEF T
  <2> QED
    BY <1>2, <2>1, <2>5, FlattenSeqIs DEF n
<1> QED
  BY <1>1, <1>2

-----------------------------------------------------------------------------
(* Sequences of numbers: one in order, one wholly before another, two with  *)
(* nothing in common, one that stays within a bound.                       *)
Increasing(q) == \A i, j \in 1..Len(q) : i < j => q[i] < q[j]
Precede(q, r) == \A i \in 1..Len(q), j \in 1..Len(r) : q[i] < r[j]
Apart(q, r)   == \A i \in 1..Len(q), j \in 1..Len(r) : q[i] # r[j]
UpTo(q, n)    == \A i \in 1..Len(q) : q[i] <= n

(* Where an element of a concatenation comes from. *)
LEMMA ConcatElement ==
  ASSUME NEW S, NEW q \in Seq(S), NEW r \in Seq(S), NEW i \in 1..Len(q \o r)
  PROVE  \/ i \in 1..Len(q) /\ (q \o r)[i] = q[i]
         \/ i - Len(q) \in 1..Len(r) /\ (q \o r)[i] = r[i - Len(q)]
OBVIOUS

LEMMA ConcatIncreasing ==
  ASSUME NEW q \in Seq(Nat), NEW r \in Seq(Nat), Increasing(q), Increasing(r), Precede(q, r)
  PROVE  Increasing(q \o r)
<1> SUFFICES ASSUME NEW i \in 1..Len(q \o r), NEW j \in 1..Len(q \o r), i < j
             PROVE  (q \o r)[i] < (q \o r)[j]
  BY DEF Increasing
<1>1. Len(q) \in Nat /\ Len(r) \in Nat /\ Len(q \o r) = Len(q) + Len(r)
  OBVIOUS
<1>2. CASE j <= Len(q)
  <2>1. (q \o r)[i] = q[i] /\ (q \o r)[j] = q[j] /\ i \in 1..Len(q) /\ j \in 1..Len(q)
    BY <1>1, <1>2
  <2> QED
    BY <2>1 DEF Increasing
<1>3. CASE i <= Len(q) /\ j > Len(q)
  <2>1. (q \o r)[i] = q[i] /\ (q \o r)[j] = r[j - Len(q)]
        /\ i \in 1..Len(q) /\ j - Len(q) \in 1..Len(r)
    BY <1>1, <1>3
  <2> QED
    BY <2>1 DEF Precede
<1>4. CASE i > Len(q)
  <2>1. (q \o r)[i] = r[i - Len(q)] /\ (q \o r)[j] = r[j - Len(q)]
        /\ i - Len(q) \in 1..Len(r) /\ j - Len(q) \in 1..Len(r) /\ i - Len(q) < j - Len(q)
    BY <1>1, <1>4
  <2> QED
    BY <2>1 DEF Increasing
<1> QED
  BY <1>1, <1>2, <1>3, <1>4

(* What holds of both parts holds of the whole. *)
LEMMA ConcatRelated ==
  ASSUME NEW q \in Seq(Nat), NEW r \in Seq(Nat), NEW t \in Seq(Nat), NEW n \in Nat
  PROVE  /\ Precede(q, t) /\ Precede(r, t) => Precede(q \o r, t)
         /\ Precede(t, q) /\ Precede(t, r) => Precede(t, q \o r)
         /\ Apart(q, t) /\ Apart(r, t) => Apart(q \o r, t) /\ Apart(t, q \o r)
         /\ UpTo(q, n) /\ UpTo(r, n) => UpTo(q \o r, n)
<1>1. \A i \in 1..Len(q \o r) : \/ i \in 1..Len(q) /\ (q \o r)[i] = q[i]
                                \/ i - Len(q) \in 1..Len(r) /\ (q \o r)[i] = r[i - Len(q)]
  BY ConcatElement
<1> DEFINE w == q \o r
<1>2. w = q \o r
  OBVIOUS
<1> HIDE DEF w
<1> QED
  BY <1>1, <1>2 DEF Precede, Apart, UpTo

LEMMA ApartSymmetric == ASSUME NEW q, NEW r PROVE Apart(q, r) <=> Apart(r, q)
BY DEF Apart

LEMMA PrecedeApart ==
  ASSUME NEW q \in Seq(Nat), NEW r \in Seq(Nat), Precede(q, r)
  PROVE  Apart(q, r) /\ Apart(r, q)
<1>1. (\A i \in 1..Len(q) : q[i] \in Nat) /\ (\A j \in 1..Len(r) : r[j] \in Nat)
  OBVIOUS
<1> QED
  BY <1>1 DEF Precede, Apart

LEMMA AppendRelated ==
  ASSUME NEW q \in Seq(Nat), NEW n \in Nat, UpTo(q, n)
  PROVE  /\ UpTo(q, n + 1) /\ UpTo(Append(q, n + 1), n + 1)
         /\ Increasing(q) => Increasing(Append(q, n + 1))
         /\ \A r \in Seq(Nat) : UpTo(r, n) /\ Precede(r, q) => Precede(r, Append(q, n + 1))
<1>1. \A i \in 1..Len(q) : q[i] \in Nat
  OBVIOUS
<1>2. /\ Len(Append(q, n + 1)) = Len(q) + 1 /\ Append(q, n + 1)[Len(q) + 1] = n + 1
      /\ \A i \in 1..Len(q) : Append(q, n + 1)[i] = q[i]
      /\ \A i \in 1..(Len(q) + 1) : i \in 1..Len(q) \/ i = Len(q) + 1
  OBVIOUS
<1> DEFINE w == Append(q, n + 1)
<1>3. w = Append(q, n + 1)
  OBVIOUS
<1> HIDE DEF w
<1>4. UpTo(q, n + 1) /\ UpTo(w, n + 1)
  BY <1>1, <1>2, <1>3 DEF UpTo
<1>5. Increasing(q) => Increasing(w)
  BY <1>1, <1>2, <1>3 DEF UpTo, Increasing
<1>6. ASSUME NEW r \in Seq(Nat), UpTo(r, n), Precede(r, q)
      PROVE  Precede(r, w)
  <2>1. \A i \in 1..Len(r) : r[i] \in Nat
    OBVIOUS
  <2> QED
    BY <1>2, <1>3, <1>6, <2>1 DEF UpTo, Precede
<1> QED
  BY <1>3, <1>4, <1>5, <1>6

LEMMA EmptyRelated ==
  ASSUME NEW q, NEW n
  PROVE  /\ Increasing(<<>>) /\ Precede(q, <<>>) /\ Precede(<<>>, q)
         /\ Apart(q, <<>>) /\ Apart(<<>>, q) /\ UpTo(<<>>, n)
BY DEF Increasing, Precede, Apart, UpTo

-----------------------------------------------------------------------------
(* The elements of a sequence. *)
LEMMA SeqOfSubset ==
  ASSUME NEW S, NEW T, S \subseteq T, NEW q \in Seq(S)
  PROVE  q \in Seq(T)
<1>1. Len(q) \in Nat /\ q \in [1..Len(q) -> S]
  OBVIOUS
<1>2. q \in [1..Len(q) -> T]
  BY <1>1
<1> QED
  BY <1>1, <1>2

LEMMA ToSetType == ASSUME NEW S, NEW q \in Seq(S) PROVE ToSet(q) \subseteq S
BY DEF ToSet

LEMMA ToSetEmpty == ToSet(<<>>) = {}
BY DEF ToSet

LEMMA ToSetAppend ==
  ASSUME NEW S, NEW q \in Seq(S), NEW x \in S
  PROVE  ToSet(Append(q, x)) = ToSet(q) \cup {x}
<1>1. DOMAIN Append(q, x) = 1..(Len(q) + 1) /\ DOMAIN q = 1..Len(q) /\ Len(q) \in Nat
  OBVIOUS
<1>2. Append(q, x)[Len(q) + 1] = x /\ \A i \in 1..Len(q) : Append(q, x)[i] = q[i]
  OBVIOUS
<1>3. \A i \in 1..(Len(q) + 1) : i \in 1..Len(q) \/ i = Len(q) + 1
  BY <1>1
<1>4. 1..Len(q) \subseteq 1..(Len(q) + 1) /\ Len(q) + 1 \in 1..(Len(q) + 1)
  BY <1>1
<1> QED
  BY <1>1, <1>2, <1>3, <1>4, Zenon DEF ToSet

LEMMA ToSetConcat ==
  ASSUME NEW S, NEW q \in Seq(S), NEW r \in Seq(S)
  PROVE  ToSet(q \o r) = ToSet(q) \cup ToSet(r)
<1>1. DOMAIN (q \o r) = 1..(Len(q) + Len(r)) /\ DOMAIN q = 1..Len(q) /\ DOMAIN r = 1..Len(r)
      /\ Len(q) \in Nat /\ Len(r) \in Nat
  OBVIOUS
<1>2. \A i \in 1..Len(q) : i \in 1..(Len(q) + Len(r)) /\ (q \o r)[i] = q[i]
  OBVIOUS
<1>3. \A i \in 1..Len(r) : Len(q) + i \in 1..(Len(q) + Len(r)) /\ (q \o r)[Len(q) + i] = r[i]
  OBVIOUS
<1>4. \A i \in 1..(Len(q) + Len(r)) :
        \/ i \in 1..Len(q) /\ (q \o r)[i] = q[i]
        \/ i - Len(q) \in 1..Len(r) /\ (q \o r)[i] = r[i - Len(q)]
  OBVIOUS
<1>5. ASSUME NEW y \in ToSet(q \o r) PROVE y \in ToSet(q) \cup ToSet(r)
  BY <1>1, <1>4, <1>5, Zenon DEF ToSet
<1>6. ASSUME NEW y \in ToSet(q) PROVE y \in ToSet(q \o r)
  BY <1>1, <1>2, <1>6, Zenon DEF ToSet
<1>7. ASSUME NEW y \in ToSet(r) PROVE y \in ToSet(q \o r)
  BY <1>1, <1>3, <1>7, Zenon DEF ToSet
<1> QED
  BY <1>5, <1>6, <1>7

-----------------------------------------------------------------------------
(* The flattening of a sequence of sequences grows by one of them at a time. *)
LEMMA FlattenRuns ==
  ASSUME NEW S, NEW seqs \in Seq(Seq(S))
  PROVE  \E run : /\ run[0] = <<>>
                  /\ \A k \in 0..(Len(seqs) - 1) : run[k + 1] = run[k] \o seqs[k + 1]
                  /\ \A k \in 0..Len(seqs) : run[k] \in Seq(S)
                  /\ FlattenSeq(seqs) = run[Len(seqs)]
<1> DEFINE n == Len(seqs)
           first(k) == SubSeq(seqs, 1, k)
           run == [k \in 0..n |-> FlattenSeq(first(k))]
<1>1. n \in Nat /\ first(0) = <<>> /\ first(n) = seqs
  OBVIOUS
<1>2. ASSUME NEW k \in 0..(n - 1)
      PROVE  FlattenSeq(first(k + 1)) = FlattenSeq(first(k)) \o seqs[k + 1]
  <2>1. first(k) \in Seq(Seq(S)) /\ seqs[k + 1] \in Seq(S)
        /\ first(k + 1) = Append(first(k), seqs[k + 1])
    OBVIOUS
  <2> HIDE DEF first
  <2> QED
    BY <2>1, FlattenAppend
<1> HIDE DEF first, n
<1>3. run[0] = <<>> /\ run[n] = FlattenSeq(seqs)
  <2>1. 0 \in 0..n /\ n \in 0..n
    BY <1>1
  <2> QED
    BY <1>1, <2>1, FlattenEmpty
<1>4. ASSUME NEW k \in 0..(n - 1)
      PROVE  run[k + 1] = run[k] \o seqs[k + 1]
  <2>1. k \in 0..n /\ k + 1 \in 0..n
    BY <1>1
  <2> QED
    BY <1>2, <2>1
<1>5. ASSUME NEW k \in 0..n
      PROVE  run[k] \in Seq(S)
  <2>1. first(k) \in Seq(Seq(S))
    BY DEF first, n
  <2> QED
    BY <2>1, FlattenType
<1> HIDE DEF run
<1> QED
  BY <1>3, <1>4, <1>5 DEF n

(* What holds of the empty sequence and of two sequences put together, when *)
(* it holds of both, holds of a flattening.                                *)
LEMMA FlattenIn ==
  ASSUME NEW S, NEW seqs \in Seq(Seq(S)), NEW T,
         <<>> \in T, \A q, r \in T : q \o r \in T,
         \A i \in 1..Len(seqs) : seqs[i] \in T
  PROVE  FlattenSeq(seqs) \in T
<1>1. PICK run : /\ run[0] = <<>>
                 /\ \A k \in 0..(Len(seqs) - 1) : run[k + 1] = run[k] \o seqs[k + 1]
                 /\ FlattenSeq(seqs) = run[Len(seqs)]
  BY FlattenRuns
<1> DEFINE n == Len(seqs)
           U == {k \in Nat : k <= n => run[k] \in T}
<1> n \in Nat
  OBVIOUS
<1>2. 0 \in U
  BY <1>1
<1>3. ASSUME NEW k \in Nat, k \in U
      PROVE  k + 1 \in U
  <2> SUFFICES ASSUME k + 1 <= n PROVE run[k + 1] \in T
    OBVIOUS
  <2>1. k \in 0..(n - 1) /\ k + 1 \in 1..n /\ run[k] \in T
    BY <1>3
  <2> QED
    BY <1>1, <2>1
<1> HIDE DEF U
<1>4. n \in U
  BY <1>2, <1>3, SetInduction
<1> QED
  BY <1>1, <1>4 DEF U

(* A flattening has the elements of all the sequences. *)
LEMMA FlattenHas ==
  ASSUME NEW S, NEW seqs \in Seq(Seq(S)), NEW i \in 1..Len(seqs)
  PROVE  ToSet(seqs[i]) \subseteq ToSet(FlattenSeq(seqs))
<1>1. PICK run : /\ \A k \in 0..(Len(seqs) - 1) : run[k + 1] = run[k] \o seqs[k + 1]
                 /\ \A k \in 0..Len(seqs) : run[k] \in Seq(S)
                 /\ FlattenSeq(seqs) = run[Len(seqs)]
  BY FlattenRuns
<1> DEFINE n == Len(seqs)
           U == {k \in Nat : k <= n /\ i <= k => ToSet(seqs[i]) \subseteq ToSet(run[k])}
<1> n \in Nat
  OBVIOUS
<1>2. 0 \in U
  OBVIOUS
<1>3. ASSUME NEW k \in Nat, k \in U
      PROVE  k + 1 \in U
  <2> SUFFICES ASSUME k + 1 <= n, i <= k + 1 PROVE ToSet(seqs[i]) \subseteq ToSet(run[k + 1])
    OBVIOUS
  <2>1. k \in 0..(n - 1) /\ k \in 0..n /\ seqs[k + 1] \in Seq(S)
    OBVIOUS
  <2>2. run[k] \in Seq(S) /\ run[k + 1] = run[k] \o seqs[k + 1]
    BY <1>1, <2>1
  <2>3. ToSet(run[k + 1]) = ToSet(run[k]) \cup ToSet(seqs[k + 1])
    BY <2>1, <2>2, ToSetConcat
  <2>4. i = k + 1 \/ i <= k
    OBVIOUS
  <2>5. i <= k => ToSet(seqs[i]) \subseteq ToSet(run[k])
    BY <1>3
  <2> QED
    BY <2>3, <2>4, <2>5
<1> HIDE DEF U
<1>4. n \in U
  BY <1>2, <1>3, SetInduction
<1> QED
  BY <1>1, <1>4 DEF U

-----------------------------------------------------------------------------
(* Finite sets of numbers have a largest one, and can be put in order.      *)
LEMMA LargestExists ==
  ASSUME NEW S \in SUBSET Nat, IsFiniteSet(S), S # {}
  PROVE  \E m \in S : \A x \in S : x <= m
<1> DEFINE T == {n \in Nat : \A R \in SUBSET Nat :
                   IsFiniteSet(R) /\ R # {} /\ Cardinality(R) = n
                     => \E m \in R : \A x \in R : x <= m}
<1>1. 0 \in T
  BY FS_EmptySet
<1>2. ASSUME NEW k \in Nat, k \in T
      PROVE  k + 1 \in T
  <2> SUFFICES ASSUME NEW R \in SUBSET Nat, IsFiniteSet(R), R # {}, Cardinality(R) = k + 1
               PROVE  \E m \in R : \A x \in R : x <= m
    OBVIOUS
  <2>1. PICK a \in R : TRUE
    OBVIOUS
  <2>2. IsFiniteSet(R \ {a}) /\ Cardinality(R \ {a}) = k
    <3>1. IsFiniteSet(R \ {a}) /\ Cardinality(R \ {a}) = Cardinality(R) - 1
      BY FS_RemoveElement
    <3>2. (k + 1) - 1 = k
      OBVIOUS
    <3> QED
      BY <3>1, <3>2, Zenon
  <2>3. CASE R \ {a} = {}
    BY <2>3
  <2>4. CASE R \ {a} # {}
    <3>1. PICK m \in R \ {a} : \A x \in R \ {a} : x <= m
      BY <1>2, <2>2, <2>4
    <3> DEFINE b == IF a <= m THEN m ELSE a
    <3>2. b \in R /\ \A x \in R : x <= b
      BY <3>1
    <3> QED
      BY <3>2
  <2> QED
    BY <2>3, <2>4
<1> HIDE DEF T
<1>3. Cardinality(S) \in T
  BY <1>1, <1>2, SetInduction, FS_CardinalityType
<1> QED
  BY <1>3 DEF T

(* ... and so has a set that is bounded. *)
LEMMA LargestUpTo ==
  ASSUME NEW n \in Nat, NEW S \in SUBSET (0..n), S # {}
  PROVE  Max(S) \in S /\ \A x \in S : x <= Max(S)
<1>1. IsFiniteSet(S) /\ S \in SUBSET Nat
  BY FS_BoundedSetOfNaturals
<1>2. \E m \in S : \A x \in S : m >= x
  BY <1>1, LargestExists
<1>3. Max(S) \in S /\ \A x \in S : Max(S) >= x
  BY <1>2 DEF Max
<1> QED
  BY <1>1, <1>3

LEMMA InOrderExists ==
  ASSUME NEW S \in SUBSET Nat, IsFiniteSet(S)
  PROVE  \E q \in [1..Cardinality(S) -> S] : \A i, j \in DOMAIN q : i < j => q[i] < q[j]
<1> DEFINE T == {n \in Nat : \A R \in SUBSET Nat :
                   IsFiniteSet(R) /\ Cardinality(R) = n
                     => \E q \in [1..n -> R] : \A i, j \in 1..n : i < j => q[i] < q[j]}
<1>1. 0 \in T
  <2> SUFFICES ASSUME NEW R \in SUBSET Nat
               PROVE  \E q \in [1..0 -> R] : \A i, j \in 1..0 : i < j => q[i] < q[j]
    OBVIOUS
  <2> DEFINE q == [i \in 1..0 |-> i]
  <2>1. q \in [1..0 -> R] /\ \A i, j \in 1..0 : i < j => q[i] < q[j]
    OBVIOUS
  <2> QED
    BY <2>1
<1>2. ASSUME NEW k \in Nat, k \in T
      PROVE  k + 1 \in T
  <2> SUFFICES ASSUME NEW R \in SUBSET Nat, IsFiniteSet(R), Cardinality(R) = k + 1
               PROVE  \E q \in [1..(k + 1) -> R] :
                        \A i, j \in 1..(k + 1) : i < j => q[i] < q[j]
    OBVIOUS
  <2>1. R # {}
    BY FS_EmptySet
  <2>2. PICK m \in R : \A x \in R : x <= m
    BY <2>1, LargestExists
  <2>3. IsFiniteSet(R \ {m}) /\ Cardinality(R \ {m}) = k
    <3>1. IsFiniteSet(R \ {m}) /\ Cardinality(R \ {m}) = Cardinality(R) - 1
      BY FS_RemoveElement
    <3>2. (k + 1) - 1 = k
      OBVIOUS
    <3> QED
      BY <3>1, <3>2, Zenon
  <2>4. PICK q \in [1..k -> R \ {m}] : \A i, j \in 1..k : i < j => q[i] < q[j]
    BY <1>2, <2>3
  <2> DEFINE r == [i \in 1..(k + 1) |-> IF i = k + 1 THEN m ELSE q[i]]
  <2>5. \A i \in 1..(k + 1) : i # k + 1 => i \in 1..k /\ q[i] \in R /\ q[i] < m
    <3>1. \A x \in R \ {m} : x \in Nat /\ x <= m /\ x # m /\ m \in Nat
      BY <2>2
    <3>2. \A x \in R \ {m} : x < m
      BY <3>1
    <3>3. \A i \in 1..(k + 1) : i # k + 1 => i \in 1..k
      OBVIOUS
    <3>4. \A i \in 1..k : q[i] \in R \ {m}
      BY <2>4
    <3> QED
      BY <3>2, <3>3, <3>4, Zenon
  <2>6. r \in [1..(k + 1) -> R]
    BY <2>5
  <2>7. \A i, j \in 1..(k + 1) : i < j => r[i] < r[j]
    BY <2>4, <2>5
  <2> QED
    BY <2>6, <2>7
<1> HIDE DEF T
<1>3. Cardinality(S) \in T
  BY <1>1, <1>2, SetInduction, FS_CardinalityType
<1> QED
  BY <1>3 DEF T

(* A set put in order: each of its elements once. *)
LEMMA InOrderIs ==
  ASSUME NEW S \in SUBSET Nat, IsFiniteSet(S), NEW q \in [1..Cardinality(S) -> S],
         \A i, j \in DOMAIN q : i < j => q[i] < q[j]
  PROVE  /\ q \in Seq(S) /\ Len(q) = Cardinality(S) /\ Cardinality(S) \in Nat
         /\ Increasing(q) /\ \A x \in S : \E i \in 1..Len(q) : q[i] = x
<1> DEFINE n == Cardinality(S)
<1>1. n \in Nat
  BY FS_CardinalityType
<1>2. IsFiniteSet(1..n) /\ Cardinality(1..n) = n
  BY <1>1, FS_Interval
<1> HIDE DEF n
<1>3. q \in [1..n -> S]
  BY DEF n
<1>4. q \in Seq(S) /\ Len(q) = n
  BY <1>1, <1>3
<1>5. IsInjective(q)
  <2> SUFFICES ASSUME NEW i \in 1..n, NEW j \in 1..n, q[i] = q[j] PROVE i = j
    BY <1>3 DEF IsInjective
  <2>1. ~(q[i] < q[j]) /\ ~(q[j] < q[i])
    <3>1. q[i] \in Nat
      BY <1>3
    <3> QED
      BY <3>1
  <2>2. ~(i < j) /\ ~(j < i)
    BY <1>3, <2>1
  <2> QED
    BY <1>1, <2>2
<1>6. q \in Injection(1..n, S)
  BY <1>3, <1>5 DEF Injection
<1>7. q \in Surjection(1..n, S)
  BY <1>2, <1>6, FS_Injection DEF n
<1>8. \A x \in S : \E i \in 1..n : q[i] = x
  BY <1>3, <1>7 DEF Surjection
<1>9. Increasing(q)
  BY <1>3, <1>4 DEF Increasing
<1> QED
  BY <1>1, <1>4, <1>8, <1>9 DEF n
=============================================================================
