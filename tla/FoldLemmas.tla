----------------------------- MODULE FoldLemmas -----------------------------
(* What FoldLeft computes, for an operator given as a parameter.           *)
EXTENDS SequenceLemmas

CONSTANT Op(_, _)

LEMMA MaxOfPrefix ==
  ASSUME NEW k \in Nat, NEW s \in SUBSET (1..(k + 1)), k + 1 \in s
  PROVE  Max(s) = k + 1
<1>1. k + 1 \in s /\ \A y \in s : k + 1 >= y
  OBVIOUS
<1>2. \A x \in s : (\A y \in s : x >= y) => x = k + 1
  OBVIOUS
<1> QED
  BY <1>1, <1>2 DEF Max

(* The function FoldLeft defines by recursion on sets of indices. *)
OnSubsets(f, n) == f = [s \in SUBSET (1..n) |-> f[s]]

Folds(f, base, seq, n) ==
  /\ OnSubsets(f, n)
  /\ f[{}] = base
  /\ \A s \in SUBSET (1..n) : s # {} => f[s] = Op(f[s \ {Max(s)}], seq[Max(s)])

LEMMA FoldsExists ==
  ASSUME NEW base, NEW seq, NEW n \in Nat
  PROVE  \E f : Folds(f, base, seq, n)
<1> DEFINE T == {k \in Nat : \E f : Folds(f, base, seq, k)}
<1>1. 0 \in T
  <2> DEFINE f == [s \in SUBSET (1..0) |-> base]
  <2>1. 1..0 = {} /\ SUBSET {} = {{}}
    OBVIOUS
  <2>2. f[{}] = base /\ OnSubsets(f, 0)
    BY <2>1 DEF OnSubsets
  <2> HIDE DEF f
  <2>3. Folds(f, base, seq, 0)
    BY <2>1, <2>2 DEF Folds
  <2> QED
    BY <2>3
<1>2. ASSUME NEW k \in Nat, k \in T
      PROVE  k + 1 \in T
  <2>1. PICK f : Folds(f, base, seq, k)
    BY <1>2
  <2> DEFINE g == [s \in SUBSET (1..(k + 1)) |->
                     IF k + 1 \in s THEN Op(f[s \ {k + 1}], seq[k + 1]) ELSE f[s]]
  <2>2. OnSubsets(g, k + 1)
    BY DEF OnSubsets
  <2>3. \A s \in SUBSET (1..k) : g[s] = f[s] /\ s \in SUBSET (1..(k + 1))
    OBVIOUS
  <2>4. \A s \in SUBSET (1..(k + 1)) :
          k + 1 \in s => g[s] = Op(f[s \ {k + 1}], seq[k + 1])
    OBVIOUS
  <2> HIDE DEF g
  <2>5. ASSUME NEW s \in SUBSET (1..(k + 1)), s # {}
        PROVE  g[s] = Op(g[s \ {Max(s)}], seq[Max(s)])
    <3>1. CASE k + 1 \in s
      <4>1. Max(s) = k + 1
        BY <3>1, MaxOfPrefix
      <4>2. s \ {k + 1} \in SUBSET (1..k)
        OBVIOUS
      <4>3. g[s] = Op(f[s \ {k + 1}], seq[k + 1]) /\ g[s \ {k + 1}] = f[s \ {k + 1}]
        BY <2>3, <2>4, <3>1, <4>2
      <4> QED
        BY <4>1, <4>3, Zenon
    <3>2. CASE k + 1 \notin s
      <4>1. s \in SUBSET (1..k) /\ s \ {Max(s)} \in SUBSET (1..k)
        <5>1. \A i \in 1..(k + 1) : i # k + 1 => i \in 1..k
          OBVIOUS
        <5>2. \A i \in s : i \in 1..k
          BY <3>2, <5>1
        <5> QED
          BY <5>2, Zenon
      <4>2. g[s] = f[s] /\ g[s \ {Max(s)}] = f[s \ {Max(s)}]
        BY <2>3, <4>1
      <4>3. f[s] = Op(f[s \ {Max(s)}], seq[Max(s)])
        BY <2>1, <2>5, <4>1, Zenon DEF Folds
      <4> QED
        BY <4>2, <4>3, Zenon
    <3> QED
      BY <3>1, <3>2
  <2>6. g[{}] = base
    <3>1. {} \in SUBSET (1..k)
      OBVIOUS
    <3> QED
      BY <2>1, <2>3, <3>1 DEF Folds
  <2>7. Folds(g, base, seq, k + 1)
    BY <2>2, <2>5, <2>6, Zenon DEF Folds
  <2> QED
    BY <2>7
<1> HIDE DEF T
<1>3. n \in T
  BY <1>1, <1>2, SetInduction
<1> QED
  BY <1>3 DEF T

LEMMA FoldLeftIs ==
  ASSUME NEW base, NEW S, NEW seq \in Seq(S)
  PROVE  \E f : Folds(f, base, seq, Len(seq)) /\ FoldLeft(Op, base, seq) = f[1..Len(seq)]
<1> DEFINE n == Len(seq)
           c == CHOOSE f : f = [s \in SUBSET (1..n) |->
                  IF s = {} THEN base ELSE Op(f[s \ {Max(s)}], seq[Max(s)])]
<1>1. FoldLeft(Op, base, seq) = c[1..n]
  <2>1. DOMAIN seq = 1..n
    OBVIOUS
  <2> QED
    BY <2>1 DEF FoldLeft, MapThenFoldSet
<1>2. PICK f : Folds(f, base, seq, n)
  <2>1. n \in Nat
    OBVIOUS
  <2> QED
    BY <2>1, FoldsExists, Zenon
<1>3. f = [s \in SUBSET (1..n) |-> IF s = {} THEN base ELSE Op(f[s \ {Max(s)}], seq[Max(s)])]
  BY <1>2, Zenon DEF Folds, OnSubsets
<1>4. c = [s \in SUBSET (1..n) |-> IF s = {} THEN base ELSE Op(c[s \ {Max(s)}], seq[Max(s)])]
  BY <1>3
<1> HIDE DEF c, n
<1>5. Folds(c, base, seq, n)
  <2>1. {} \in SUBSET (1..n)
    OBVIOUS
  <2> QED
    BY <1>4, <2>1 DEF Folds, OnSubsets
<1> QED
  BY <1>1, <1>5 DEF n

(* A fold passes through one value after each element.  (FoldOf gives the   *)
(* fold a name without an operator as its argument, which the provers can  *)
(* instantiate.)                                                           *)
FoldOf(base, seq) == FoldLeft(Op, base, seq)

LEMMA FoldRuns ==
  ASSUME NEW base, NEW S, NEW seq \in Seq(S)
  PROVE  \E run : /\ run[0] = base
                  /\ \A k \in 0..(Len(seq) - 1) : run[k + 1] = Op(run[k], seq[k + 1])
                  /\ FoldOf(base, seq) = run[Len(seq)]
<1> DEFINE n == Len(seq)
<1>1. PICK f : Folds(f, base, seq, n) /\ FoldLeft(Op, base, seq) = f[1..n]
  BY FoldLeftIs
<1> n \in Nat
  OBVIOUS
<1> HIDE DEF n
<1> DEFINE run == [k \in 0..n |-> f[1..k]]
<1>2. run[0] = base
  <2>1. 1..0 = {}
    OBVIOUS
  <2> QED
    BY <1>1, <2>1 DEF Folds
<1>3. ASSUME NEW k \in 0..(n - 1)
      PROVE  run[k + 1] = Op(run[k], seq[k + 1])
  <2>1. 1..(k + 1) \in SUBSET (1..n) /\ 1..(k + 1) # {} /\ k \in Nat
    <3>1. k \in Nat /\ k + 1 <= n /\ 1 \in 1..(k + 1)
      OBVIOUS
    <3>2. \A i \in 1..(k + 1) : i \in 1..n
      BY <3>1
    <3> QED
      BY <3>1, <3>2
  <2>2. Max(1..(k + 1)) = k + 1
    <3>1. k + 1 \in 1..(k + 1)
      OBVIOUS
    <3> QED
      BY <2>1, <3>1, MaxOfPrefix
  <2>3. (1..(k + 1)) \ {k + 1} = 1..k
    OBVIOUS
  <2>4. f[1..(k + 1)] = Op(f[1..k], seq[k + 1])
    BY <1>1, <2>1, <2>2, <2>3, Zenon DEF Folds
  <2>5. run[k + 1] = f[1..(k + 1)] /\ run[k] = f[1..k]
    OBVIOUS
  <2> QED
    BY <2>4, <2>5
<1>4. FoldOf(base, seq) = run[n]
  BY <1>1 DEF FoldOf
<1> HIDE DEF run
<1> QED
  BY <1>2, <1>3, <1>4 DEF n
=============================================================================
