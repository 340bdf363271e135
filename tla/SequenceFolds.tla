--------------------------- MODULE SequenceFolds ---------------------------
(***************************************************************************)
(* Facts about FoldLeft of SequencesExt, for an operator that takes one    *)
(* parameter besides the value so far and the next element.  FoldLeft is   *)
(* a recursive function on the sets of indices that takes the highest of   *)
(* a set last; Fold is its definition written out, since this module is    *)
(* instantiated once for each operator folded with, and should bring no    *)
(* more than Folds along.  What it comes to is found by induction.         *)
(***************************************************************************)
EXTENDS Integers, Sequences, Folds, WellFoundedInduction, TLAPS

CONSTANT Op(_, _, _)

Highest(s) == CHOOSE x \in s : \A y \in s : x >= y

Fold(p, base, seq) ==
  MapThenFoldSet(LAMBDA x, so : Op(p, so, x), base, LAMBDA i : seq[i], LAMBDA s : Highest(s),
                 DOMAIN seq)

-----------------------------------------------------------------------------
(* Induction, for sets of numbers and of sequences. *)

Less == {pair \in Nat \X Nat : pair[1] < pair[2]}

LEMMA LessIsWellFounded == IsWellFoundedOn(Less, Nat)
BY NatLessThanWellFounded DEF OpToRel, Less

LEMMA LeastNumber ==
  ASSUME NEW T, T \subseteq Nat, T # {}
  PROVE  \E x \in T : \A y \in T : x <= y
<1>1. PICK x \in T : \A y \in T : <<y, x>> \notin Less
  BY LessIsWellFounded, WFMin
<1>2. \A y \in T : ~(y < x)
  BY <1>1 DEF Less
<1> QED BY <1>2

THEOREM NumberInduction ==
  ASSUME NEW T, 0 \in T, \A n \in Nat : n \in T => n + 1 \in T
  PROVE  Nat \subseteq T
<1> SUFFICES ASSUME Nat \ T # {} PROVE FALSE
  OBVIOUS
<1>1. PICK x \in Nat \ T : \A y \in Nat \ T : x <= y
  BY LeastNumber
<1> QED BY <1>1

THEOREM SequenceInduction ==
  ASSUME NEW S, NEW T, <<>> \in T,
         \A s \in Seq(S), x \in S : s \in T => Append(s, x) \in T
  PROVE  Seq(S) \subseteq T
<1> DEFINE N == {n \in Nat : \A s \in Seq(S) : Len(s) = n => s \in T}
<1>1. 0 \in N
  OBVIOUS
<1>2. ASSUME NEW n \in Nat, n \in N, NEW s \in Seq(S), Len(s) = n + 1
      PROVE  s \in T
  <2> DEFINE front == SubSeq(s, 1, n)
  <2>1. front \in Seq(S) /\ Len(front) = n /\ s[n + 1] \in S
    BY <1>2
  <2>2. s = Append(front, s[n + 1])
    BY <1>2
  <2>3. front \in T
    BY <1>2, <2>1
  <2> HIDE DEF front
  <2> QED BY <2>1, <2>2, <2>3
<1>3. \A n \in Nat : n \in N => n + 1 \in N
  BY <1>2
<1> HIDE DEF N
<1>4. Nat \subseteq N
  BY <1>1, <1>3, NumberInduction
<1>5. ASSUME NEW s \in Seq(S) PROVE s \in T
  BY <1>4, Len(s) \in Nat DEF N
<1> QED BY <1>5

-----------------------------------------------------------------------------
(* The highest of a set of indices. *)

LEMMA MaxIs ==
  ASSUME NEW n \in Nat, NEW s \in SUBSET (1..n), NEW m \in s, \A i \in s : i <= m
  PROVE  Highest(s) = m
<1>1. \A y \in s : m >= y
  OBVIOUS
<1>2. \A x \in s : (\A y \in s : x >= y) => x = m
  OBVIOUS
<1> QED BY <1>1, <1>2 DEF Highest

LEMMA MaxIsHighest ==
  ASSUME NEW n \in Nat, NEW s \in SUBSET (1..n), s # {}
  PROVE  Highest(s) \in s /\ \A i \in s : i <= Highest(s)
<1> DEFINE T == {n - i : i \in s}
<1>1. T \subseteq Nat /\ T # {}
  <2>1. \A i \in s : n - i \in Nat
    OBVIOUS
  <2>2. PICK i \in s : TRUE
    OBVIOUS
  <2>3. n - i \in T
    BY <2>2
  <2> QED BY <2>1, <2>3
<1>2. PICK x \in T : \A y \in T : x <= y
  BY <1>1, LeastNumber
<1>3. PICK m \in s : x = n - m
  BY <1>2, Zenon
<1>4. ASSUME NEW i \in s PROVE i <= m
  <2>1. n - i \in T
    OBVIOUS
  <2>2. n - m <= n - i
    BY <1>2, <1>3, <2>1
  <2> QED BY <2>2
<1> QED BY <1>4, MaxIs

LEMMA WithoutMax ==
  ASSUME NEW m \in Nat, NEW s \in SUBSET (1..(m + 1)), s # {}
  PROVE  Highest(s) \in 1..(m + 1) /\ s \ {Highest(s)} \in SUBSET (1..m)
<1>1. m + 1 \in Nat
  OBVIOUS
<1>2. Highest(s) \in s /\ \A i \in s : i <= Highest(s)
  BY <1>1, MaxIsHighest
<1>3. ASSUME NEW i \in s, i # Highest(s) PROVE i \in 1..m
  <2>1. i <= Highest(s) /\ i \in 1..(m + 1) /\ Highest(s) \in 1..(m + 1)
    BY <1>2
  <2> QED BY <2>1, <1>3
<1>4. \A i \in s \ {Highest(s)} : i \in 1..m
  BY <1>3
<1>5. s \ {Highest(s)} \subseteq 1..m
  BY <1>4, Zenon
<1> QED BY <1>2, <1>5, Zenon

-----------------------------------------------------------------------------
(* The recursive function behind a fold, for c = <<p, base, seq>>: its     *)
(* equation, that there is one that satisfies it, and that a fold is its   *)
(* value at all indices.                                                   *)

IsIter(g, c, n) ==
  g = [s \in SUBSET (1..n) |->
         IF s = {} THEN c[2] ELSE Op(c[1], g[s \ {Highest(s)}], c[3][Highest(s)])]

LEMMA IterOfNone ==
  ASSUME NEW c, NEW n \in Nat, NEW g, IsIter(g, c, n)
  PROVE  g[{}] = c[2]
BY {} \in SUBSET (1..n) DEF IsIter

LEMMA IterOfSome ==
  ASSUME NEW c, NEW n \in Nat, NEW g, IsIter(g, c, n), NEW s \in SUBSET (1..n), s # {}
  PROVE  g[s] = Op(c[1], g[s \ {Highest(s)}], c[3][Highest(s)])
<1> DEFINE f(t) == IF t = {} THEN c[2] ELSE Op(c[1], g[t \ {Highest(t)}], c[3][Highest(t)])
<1>1. g = [t \in SUBSET (1..n) |-> f(t)]
  BY DEF IsIter
<1>2. f(s) = Op(c[1], g[s \ {Highest(s)}], c[3][Highest(s)])
  OBVIOUS
<1> HIDE DEF f
<1> QED BY <1>1, <1>2

LEMMA IterExtends ==
  ASSUME NEW c, NEW n \in Nat, NEW g, IsIter(g, c, n)
  PROVE  \E h : IsIter(h, c, n + 1)
<1> DEFINE h == [s \in SUBSET (1..(n + 1)) |->
                   IF n + 1 \in s THEN Op(c[1], g[s \ {n + 1}], c[3][n + 1]) ELSE g[s]]
<1>1. DOMAIN h = SUBSET (1..(n + 1)) /\ h = [s \in DOMAIN h |-> h[s]]
  OBVIOUS
<1>2. ASSUME NEW s \in SUBSET (1..(n + 1))
      PROVE  h[s] = IF n + 1 \in s THEN Op(c[1], g[s \ {n + 1}], c[3][n + 1]) ELSE g[s]
  OBVIOUS
<1> HIDE DEF h
<1>3. ASSUME NEW s \in SUBSET (1..n) PROVE h[s] = g[s]
  <2>1. n + 1 \notin s /\ s \in SUBSET (1..(n + 1))
    OBVIOUS
  <2> QED BY <1>2, <2>1
<1>4. ASSUME NEW s \in SUBSET (1..(n + 1))
      PROVE  h[s] = IF s = {} THEN c[2] ELSE Op(c[1], h[s \ {Highest(s)}], c[3][Highest(s)])
  <2>1. CASE n + 1 \in s
    <3>1. Highest(s) = n + 1
      <4>1. n + 1 \in Nat /\ \A i \in s : i <= n + 1
        OBVIOUS
      <4> QED BY <2>1, <4>1, MaxIs
    <3>2. s \ {n + 1} \in SUBSET (1..n)
      OBVIOUS
    <3>3. h[s] = Op(c[1], h[s \ {n + 1}], c[3][n + 1])
      BY <2>1, <3>2, <1>2, <1>3
    <3> QED BY <3>1, <3>3, <2>1
  <2>2. CASE n + 1 \notin s
    <3>1. s \in SUBSET (1..n)
      BY <2>2
    <3>2. s \ {Highest(s)} \in SUBSET (1..n)
      BY <3>1
    <3>3. g[s] = h[s] /\ g[s \ {Highest(s)}] = h[s \ {Highest(s)}]
      BY <3>1, <3>2, <1>3
    <3>4. g[{}] = c[2]
      BY IterOfNone, Zenon
    <3>5. s # {} => g[s] = Op(c[1], g[s \ {Highest(s)}], c[3][Highest(s)])
      BY <3>1, IterOfSome, Zenon
    <3> QED BY <3>3, <3>4, <3>5
  <2> QED BY <2>1, <2>2
<1>5. IsIter(h, c, n + 1)
  BY <1>1, <1>4, Zenon DEF IsIter
<1> QED BY <1>5

LEMMA IterExists ==
  ASSUME NEW c, NEW n \in Nat
  PROVE  \E g : IsIter(g, c, n)
<1> DEFINE T == {m \in Nat : \E g : IsIter(g, c, m)}
<1>1. 0 \in T
  <2> DEFINE g == [s \in SUBSET (1..0) |-> c[2]]
  <2>1. \A s \in SUBSET (1..0) : s = {}
    OBVIOUS
  <2>2. IsIter(g, c, 0)
    BY <2>1 DEF IsIter
  <2> QED BY <2>2
<1>2. ASSUME NEW m \in Nat, m \in T PROVE m + 1 \in T
  BY <1>2, IterExtends
<1>3. Nat \subseteq T
  BY <1>1, <1>2, NumberInduction
<1> QED BY <1>3

Iter(p, base, seq) == CHOOSE g : IsIter(g, <<p, base, seq>>, Len(seq))

LEMMA IterIs ==
  ASSUME NEW p, NEW base, NEW seq, Len(seq) \in Nat
  PROVE  IsIter(Iter(p, base, seq), <<p, base, seq>>, Len(seq))
BY IterExists DEF Iter

LEMMA FoldIsIter ==
  ASSUME NEW p, NEW base, NEW seq, DOMAIN seq = 1..Len(seq)
  PROVE  Fold(p, base, seq) = Iter(p, base, seq)[1..Len(seq)]
BY DEF Fold, MapThenFoldSet, IsIter, Iter

(* What it comes to on the first n indices depends on those only.          *)
LEMMA IterOfPrefix ==
  ASSUME NEW p, NEW base, NEW seq, NEW all, NEW n \in Nat, Len(seq) = n, Len(all) = n + 1,
         \A i \in 1..n : all[i] = seq[i]
  PROVE  Iter(p, base, all)[1..n] = Iter(p, base, seq)[1..n]
<1> DEFINE g == Iter(p, base, seq)
           h == Iter(p, base, all)
           c == <<p, base, seq>>
           e == <<p, base, all>>
<1>1. IsIter(g, c, n)
  BY IterIs
<1>2. IsIter(h, e, n + 1)
  BY IterIs
<1>3. n + 1 \in Nat
  OBVIOUS
<1>4. c[1] = p /\ c[2] = base /\ c[3] = seq /\ e[1] = p /\ e[2] = base /\ e[3] = all
  OBVIOUS
<1> HIDE DEF g, h, c, e
<1>5. g[{}] = base /\ h[{}] = base
  <2>1. g[{}] = c[2]
    BY <1>1, IterOfNone, Zenon
  <2>2. h[{}] = e[2]
    BY <1>2, <1>3, IterOfNone, Zenon
  <2> QED BY <1>4, <2>1, <2>2
<1> DEFINE Same(m) == \A s \in SUBSET (1..m) : h[s] = g[s]
           T == {m \in Nat : m <= n => Same(m)}
<1>6. Same(0)
  <2>1. \A s \in SUBSET (1..0) : s = {}
    OBVIOUS
  <2> QED BY <1>5, <2>1
<1>7. ASSUME NEW m \in Nat, Same(m), m + 1 <= n, NEW s \in SUBSET (1..(m + 1))
      PROVE  h[s] = g[s]
  <2>1. s \in SUBSET (1..n) /\ s \in SUBSET (1..(n + 1))
    <3>1. \A i \in 1..(m + 1) : i \in 1..n /\ i \in 1..(n + 1)
      BY <1>7
    <3> QED BY <3>1, Zenon
  <2>2. CASE s = {}
    BY <2>2, <1>5
  <2>3. CASE s # {}
    <3>1. Highest(s) \in 1..(m + 1) /\ s \ {Highest(s)} \in SUBSET (1..m)
      BY <2>3, WithoutMax
    <3>2. g[s] = Op(c[1], g[s \ {Highest(s)}], c[3][Highest(s)])
      BY <1>1, <2>3, <2>1, IterOfSome, Zenon
    <3>3. h[s] = Op(e[1], h[s \ {Highest(s)}], e[3][Highest(s)])
      BY <1>2, <1>3, <2>3, <2>1, IterOfSome, Zenon
    <3>4. Highest(s) \in 1..n
      BY <3>1, <1>7
    <3>5. h[s \ {Highest(s)}] = g[s \ {Highest(s)}]
      BY <3>1, <1>7
    <3> QED BY <1>4, <3>2, <3>3, <3>4, <3>5
  <2> QED BY <2>2, <2>3
<1>8. ASSUME NEW m \in Nat, Same(m), m + 1 <= n PROVE Same(m + 1)
  BY <1>7, <1>8
<1> HIDE DEF Same
<1>9. 0 \in T
  BY <1>6
<1>10. ASSUME NEW m \in Nat, m \in T PROVE m + 1 \in T
  BY <1>8, <1>10
<1> HIDE DEF T
<1>11. n \in T
  BY <1>9, <1>10, NumberInduction
<1>12. Same(n)
  BY <1>11 DEF T
<1> QED BY <1>12 DEF Same, g, h

-----------------------------------------------------------------------------
(* A fold of no element is the base.                                       *)
THEOREM FoldOfNone ==
  ASSUME NEW p, NEW base
  PROVE  Fold(p, base, <<>>) = base
<1>1. DOMAIN <<>> = 1..0 /\ Len(<<>>) = 0 /\ 1..0 = {} /\ 0 \in Nat
  OBVIOUS
<1> DEFINE c == <<p, base, <<>>>>
<1>2. IsIter(Iter(p, base, <<>>), c, 0)
  BY <1>1, IterIs
<1>3. c[2] = base
  OBVIOUS
<1> HIDE DEF c
<1>4. Iter(p, base, <<>>)[{}] = c[2]
  BY <1>1, <1>2, IterOfNone, Zenon
<1> QED BY <1>1, <1>3, <1>4, FoldIsIter

(* A fold takes the last element last.                                     *)
THEOREM FoldOfAppend ==
  ASSUME NEW p, NEW base, NEW S, NEW seq \in Seq(S), NEW x \in S
  PROVE  Fold(p, base, Append(seq, x)) = Op(p, Fold(p, base, seq), x)
<1> DEFINE n == Len(seq)
           all == Append(seq, x)
           h == Iter(p, base, all)
           c == <<p, base, all>>
<1>1. n \in Nat /\ Len(all) = n + 1 /\ DOMAIN seq = 1..n /\ DOMAIN all = 1..(n + 1)
        /\ all[n + 1] = x /\ \A i \in 1..n : all[i] = seq[i]
  OBVIOUS
<1>2. Fold(p, base, seq) = Iter(p, base, seq)[1..n]
  BY <1>1, FoldIsIter
<1>3. IsIter(h, c, n + 1) /\ Fold(p, base, all) = h[1..(n + 1)]
  <2> HIDE DEF all
  <2>1. Len(all) \in Nat
    BY <1>1
  <2>2. IsIter(h, c, n + 1)
    BY <2>1, <1>1, IterIs
  <2> QED BY <1>1, <2>2, FoldIsIter
<1>c. c[1] = p /\ c[3] = all
  OBVIOUS
<1> HIDE DEF n, all, h, c
<1>4. h[1..n] = Iter(p, base, seq)[1..n]
  <2>1. \A i \in 1..n : all[i] = seq[i]
    BY <1>1
  <2> QED BY <2>1, <1>1, IterOfPrefix DEF n, h
<1>5. Highest(1..(n + 1)) = n + 1
  <2>1. n + 1 \in Nat /\ n + 1 \in 1..(n + 1) /\ \A i \in 1..(n + 1) : i <= n + 1
    BY <1>1
  <2>2. 1..(n + 1) \in SUBSET (1..(n + 1))
    OBVIOUS
  <2> QED BY <2>1, <2>2, MaxIs
<1>6. (1..(n + 1)) \ {n + 1} = 1..n
  BY <1>1
<1>7. h[1..(n + 1)] = Op(p, h[1..n], all[n + 1])
  <2> DEFINE I == 1..(n + 1)
             m == n + 1
  <2>1. I # {} /\ I \in SUBSET (1..m) /\ m \in Nat /\ IsIter(h, c, m)
    BY <1>1, <1>3
  <2> HIDE DEF I, m
  <2>2. h[I] = Op(c[1], h[I \ {Highest(I)}], c[3][Highest(I)])
    BY <2>1, IterOfSome, Zenon
  <2> USE DEF I
  <2> QED BY <1>c, <1>5, <1>6, <2>2
<1> QED BY <1>1, <1>2, <1>3, <1>4, <1>7 DEF all
=============================================================================
