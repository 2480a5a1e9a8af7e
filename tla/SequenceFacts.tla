---------------------------- MODULE SequenceFacts ----------------------------
(***************************************************************************)
(* Facts about numbers and sequences for the proofs about text: least and  *)
(* greatest numbers, induction, parts of sequences, insertion, flattening. *)
(*                                                                         *)
(* The induction is over a set and not over a predicate: the theorems of   *)
(* the library that take a predicate cannot be instantiated by the provers *)
(* used here, and the least-number principle, which the well-founded order *)
(* of the naturals gives, needs none.                                      *)
(***************************************************************************)
EXTENDS Integers, SequencesExt, SequenceTheorems, WellFoundedInduction, TLAPS

-----------------------------------------------------------------------------
(* Numbers *)

\* A set of numbers that is not empty has a least one.
LEMMA LeastNumber ==
    ASSUME NEW S, S \subseteq Nat, S # {}
    PROVE  \E x \in S : \A y \in S : x <= y
<1> DEFINE R == OpToRel(<, Nat)
<1>1. IsWellFoundedOn(R, Nat)
  BY NatLessThanWellFounded
<1>2. R = {pair \in Nat \X Nat : pair[1] < pair[2]}
  BY DEF OpToRel
<1> HIDE DEF R
<1>3. PICK x \in S : \A y \in S : ~(<<y, x>> \in R)
  BY <1>1, WFMin
<1>4. ASSUME NEW y \in S PROVE x <= y
  <2>1. x \in Nat /\ y \in Nat
    OBVIOUS
  <2>2. ~(<<y, x>> \in R)
    BY <1>3
  <2>3. ~(y < x)
    BY <1>2, <2>1, <2>2
  <2>4. QED
    BY <2>1, <2>3
<1>5. QED
  BY <1>4

\* And, if it is bounded, a greatest one.
LEMMA GreatestNumber ==
    ASSUME NEW N \in Nat, NEW S, S \subseteq 0..N, S # {}
    PROVE  \E x \in S : \A y \in S : y <= x
<1> DEFINE Bounds == {n \in Nat : \A y \in S : y <= n}
<1>1. Bounds \subseteq Nat /\ N \in Bounds
  OBVIOUS
<1>2. PICK x \in Bounds : \A y \in Bounds : x <= y
  BY <1>1, LeastNumber
<1>3. x \in S
  <2> SUFFICES ASSUME x \notin S PROVE FALSE
    OBVIOUS
  <2>1. x \in Nat /\ \A y \in S : y \in Nat /\ y <= x
    OBVIOUS
  <2>2. \A y \in S : y < x
    BY <2>1
  <2>3. x # 0
    <3>1. PICK y : y \in S
      OBVIOUS
    <3>2. QED
      BY <2>1, <2>2, <3>1
  <2>4. x - 1 \in Bounds
    BY <2>1, <2>2, <2>3
  <2>5. QED
    BY <1>2, <2>1, <2>4
<1>4. QED
  BY <1>3

\* What holds of 0, and of each number if it holds of the one before, holds.
LEMMA Induction ==
    ASSUME NEW N \in Nat, NEW S, 0 \in S,
           \A n \in 1..N : n - 1 \in S => n \in S
    PROVE  \A n \in 0..N : n \in S
<1> DEFINE Others == {n \in 0..N : n \notin S}
<1> SUFFICES ASSUME Others # {} PROVE FALSE
  OBVIOUS
<1>1. PICK n \in Others : \A m \in Others : n <= m
  <2>1. Others \subseteq Nat
    OBVIOUS
  <2> HIDE DEF Others
  <2>2. QED
    BY <2>1, LeastNumber
<1>2. n \in 1..N
  <2>1. n \in 0..N /\ n # 0
    OBVIOUS
  <2>2. QED
    BY <2>1
<1>3. n - 1 \in 0..N /\ n - 1 \notin Others
  BY <1>1, <1>2
<1>4. QED
  BY <1>2, <1>3

\* The steps can be taken one after the other, from the base.
Iterable(N, T, base, step) ==
    \E f \in [0..N -> T] :
      f[0] = base /\ \A n \in 1..N : f[n] = step[n][f[n - 1]]

\* A recursive function is well defined: a step for each number, from a base,
\* within a set.
LEMMA Iteration ==
    ASSUME NEW N \in Nat, NEW T, NEW base \in T,
           NEW step \in [1..N -> [T -> T]]
    PROVE  Iterable(N, T, base, step)
<1> DEFINE Upto(n) == {f \in [0..n -> T] :
                        /\ f[0] = base
                        /\ \A k \in 1..n : f[k] = step[k][f[k - 1]]}
           Done == {n \in 0..N : Upto(n) # {}}
<1>1. 0 \in Done
  <2>1. [k \in 0..0 |-> base] \in Upto(0)
    OBVIOUS
  <2>2. 0 \in 0..N
    OBVIOUS
  <2> HIDE DEF Upto
  <2>3. QED
    BY <2>1, <2>2
<1>2. ASSUME NEW n \in 1..N, n - 1 \in Done PROVE n \in Done
  <2>1. PICK f : f \in Upto(n - 1)
    BY <1>2
  <2>2. n - 1 \in 0..(n - 1) /\ step[n] \in [T -> T]
    OBVIOUS
  <2>3. step[n][f[n - 1]] \in T
    BY <2>1, <2>2
  <2> DEFINE next == [k \in 0..n |-> IF k = n THEN step[n][f[n - 1]] ELSE f[k]]
  <2>4. next \in [0..n -> T]
    BY <2>1, <2>3
  <2>5. next[0] = base
    BY <2>1
  <2>6. \A k \in 1..n : next[k] = step[k][next[k - 1]]
    BY <2>1
  <2>7. next \in Upto(n)
    BY <2>4, <2>5, <2>6
  <2>8. n \in 0..N
    OBVIOUS
  <2> HIDE DEF Upto, next
  <2>9. QED
    BY <2>7, <2>8
<1>3. N \in Done
  <2> HIDE DEF Done
  <2>1. \A n \in 0..N : n \in Done
    BY <1>1, <1>2, Induction
  <2>2. QED
    BY <2>1
<1>4. PICK f : f \in Upto(N)
  BY <1>3
<1>5. QED
  BY <1>4 DEF Iterable

\* The least element of a set of numbers.
LEMMA MinIsLeast ==
    ASSUME NEW S, S \subseteq Nat, S # {}
    PROVE  Min(S) \in S /\ \A y \in S : Min(S) <= y
<1>1. \E x \in S : \A y \in S : x <= y
  BY LeastNumber
<1>2. QED
  BY <1>1, Zenon DEF Min

-----------------------------------------------------------------------------
(* Sequences *)

\* Two sequences, one after the other.
LEMMA Joined ==
    ASSUME NEW L, NEW s \in Seq(L), NEW t \in Seq(L)
    PROVE  /\ s \o t \in Seq(L) /\ Len(s \o t) = Len(s) + Len(t)
           /\ \A i \in 1..Len(s) : (s \o t)[i] = s[i]
           /\ \A i \in 1..Len(t) : (s \o t)[Len(s) + i] = t[i]
BY ConcatProperties

\* Three of them, put together in either order.
LEMMA JoinedThree ==
    ASSUME NEW L, NEW s \in Seq(L), NEW t \in Seq(L), NEW u \in Seq(L)
    PROVE  s \o (t \o u) = (s \o t) \o u
BY ConcatAssociative

\* A part of a sequence: its elements, in order.
LEMMA PartOf ==
    ASSUME NEW L, NEW ls \in Seq(L),
           NEW m \in 1..Len(ls), NEW k \in m..Len(ls)
    PROVE  /\ SubSeq(ls, m, k) \in Seq(L)
           /\ Len(SubSeq(ls, m, k)) = k - m + 1
           /\ \A i \in 1..(k - m + 1) : SubSeq(ls, m, k)[i] = ls[m + i - 1]
<1>1. /\ Len(ls) \in Nat /\ m \in Int /\ k \in Int
      /\ 1 <= m /\ m <= k /\ k <= Len(ls)
  OBVIOUS
<1>2. \A i \in m..k : ls[i] \in L
  BY <1>1
<1>3. QED
  BY <1>1, <1>2

\* InsertAt moves the elements after the new one.
LEMMA Inserted ==
    ASSUME NEW L, NEW ls \in Seq(L), NEW at \in 1..(Len(ls) + 1), NEW e \in L
    PROVE  /\ InsertAt(ls, at, e) \in Seq(L)
           /\ Len(InsertAt(ls, at, e)) = Len(ls) + 1
           /\ InsertAt(ls, at, e)[at] = e
           /\ \A i \in 1..(at - 1) : InsertAt(ls, at, e)[i] = ls[i]
           /\ \A i \in at..Len(ls) : InsertAt(ls, at, e)[i + 1] = ls[i]
<1> DEFINE before == SubSeq(ls, 1, at - 1)
           after == SubSeq(ls, at, Len(ls))
<1>1. /\ Len(ls) \in Nat /\ at \in Nat /\ 1 <= at /\ at <= Len(ls) + 1
  OBVIOUS
<1>2. /\ before \in Seq(L) /\ Len(before) = at - 1
      /\ \A i \in 1..(at - 1) : before[i] = ls[i]
  BY <1>1
<1>3. /\ after \in Seq(L) /\ Len(after) = Len(ls) - at + 1
      /\ \A i \in 1..(Len(ls) - at + 1) : after[i] = ls[at + i - 1]
  BY <1>1
<1> HIDE DEF before, after
<1> DEFINE first == before \o <<e>>
<1>4. /\ first \in Seq(L) /\ Len(first) = at
      /\ first[at] = e /\ \A i \in 1..(at - 1) : first[i] = ls[i]
  BY <1>1, <1>2
<1> HIDE DEF first
<1> DEFINE all == first \o after
<1>5. InsertAt(ls, at, e) = all
  BY DEF InsertAt, all, first, before, after
<1>6. /\ all \in Seq(L) /\ Len(all) = Len(ls) + 1
      /\ \A i \in 1..at : all[i] = first[i]
      /\ \A i \in 1..(Len(ls) - at + 1) : all[at + i] = after[i]
  BY <1>1, <1>3, <1>4, Joined
<1> HIDE DEF all
<1>7. all[at] = e /\ \A i \in 1..(at - 1) : all[i] = ls[i]
  BY <1>1, <1>4, <1>6
<1>8. ASSUME NEW i \in at..Len(ls) PROVE all[i + 1] = ls[i]
  <2>1. /\ i - at + 1 \in 1..(Len(ls) - at + 1)
        /\ at + (i - at + 1) = i + 1 /\ at + (i - at + 1) - 1 = i
    BY <1>1
  <2>2. all[at + (i - at + 1)] = after[i - at + 1]
    BY <1>6, <2>1
  <2>3. after[i - at + 1] = ls[at + (i - at + 1) - 1]
    BY <1>3, <2>1
  <2>4. QED
    BY <2>1, <2>2, <2>3
<1>9. QED
  BY <1>5, <1>6, <1>7, <1>8

-----------------------------------------------------------------------------
(* Flattening *)

\* What FlattenSeq has put together after each of the sequences.
Flattening(seqs, flat) ==
    flat = [i \in 1..Len(seqs) |->
              IF i = 1 THEN seqs[i] ELSE flat[i - 1] \o seqs[i]]

\* FlattenSeq is well defined.
LEMMA FlatteningExists ==
    ASSUME NEW T, NEW seqs \in Seq(Seq(T)), Len(seqs) # 0
    PROVE  \E flat \in [1..Len(seqs) -> Seq(T)] : Flattening(seqs, flat)
<1> DEFINE Flat(n) == {f \in [1..n -> Seq(T)] :
                        \A i \in 1..n :
                          f[i] = IF i = 1 THEN seqs[i] ELSE f[i - 1] \o seqs[i]}
           Done == {n \in 0..Len(seqs) : n = 0 \/ Flat(n) # {}}
<1>1. Len(seqs) \in Nat
  OBVIOUS
<1>2. 0 \in Done
  BY <1>1
<1>3. ASSUME NEW n \in 1..Len(seqs), n - 1 \in Done PROVE n \in Done
  <2>1. n \in 0..Len(seqs) /\ seqs[n] \in Seq(T) /\ n \in Nat
    OBVIOUS
  <2>2. CASE n = 1
    <3>1. [i \in 1..1 |-> seqs[1]] \in Flat(1)
      BY <2>1, <2>2
    <3> HIDE DEF Flat
    <3>2. QED
      BY <2>1, <2>2, <3>1
  <2>3. CASE n # 1
    <3>1. PICK f : f \in Flat(n - 1)
      BY <1>3, <2>1, <2>3
    <3>2. n - 1 \in 1..(n - 1) /\ n - 1 \in Nat
      BY <2>1, <2>3
    <3> DEFINE longer == f[n - 1] \o seqs[n]
               next == [i \in 1..n |-> IF i = n THEN longer ELSE f[i]]
    <3>3. longer \in Seq(T)
      BY <2>1, <3>1, <3>2
    <3>4. next \in [1..n -> Seq(T)]
      BY <2>1, <3>1, <3>3
    <3>5. \A i \in 1..n :
            next[i] = IF i = 1 THEN seqs[i] ELSE next[i - 1] \o seqs[i]
      <4> SUFFICES ASSUME NEW i \in 1..n
                   PROVE  next[i] = IF i = 1 THEN seqs[i]
                                             ELSE next[i - 1] \o seqs[i]
        OBVIOUS
      <4>1. CASE i = n
        <5> HIDE DEF longer
        <5>1. next[i] = longer /\ next[i - 1] = f[n - 1]
          BY <2>1, <2>3, <4>1
        <5>2. QED
          BY <2>3, <4>1, <5>1 DEF longer
      <4>2. CASE i # n
        <5>1. /\ i \in 1..(n - 1) /\ next[i] = f[i]
              /\ i # 1 => next[i - 1] = f[i - 1]
          BY <2>1, <4>2
        <5>2. f[i] = IF i = 1 THEN seqs[i] ELSE f[i - 1] \o seqs[i]
          BY <3>1, <5>1
        <5>3. QED
          BY <5>1, <5>2
      <4>3. QED
        BY <4>1, <4>2
    <3>6. next \in Flat(n)
      BY <3>4, <3>5
    <3> HIDE DEF Flat, next
    <3>7. QED
      BY <2>1, <3>6
  <2>4. QED
    BY <2>2, <2>3
<1>4. Len(seqs) \in Done
  <2> HIDE DEF Done
  <2>1. \A n \in 0..Len(seqs) : n \in Done
    BY <1>1, <1>2, <1>3, Induction
  <2>2. QED
    BY <1>1, <2>1
<1>5. PICK f : f \in Flat(Len(seqs))
  BY <1>4
<1>6. f \in [1..Len(seqs) -> Seq(T)] /\ Flattening(seqs, f)
  BY <1>5 DEF Flattening
<1>7. QED
  BY <1>6

\* FlattenSeq is the last value of such a function.
LEMMA FlattenSeqIsFlat ==
    ASSUME NEW T, NEW seqs \in Seq(Seq(T)), Len(seqs) # 0
    PROVE  \E flat : Flattening(seqs, flat) /\ FlattenSeq(seqs) = flat[Len(seqs)]
<1> DEFINE f == CHOOSE flat : Flattening(seqs, flat)
<1>1. Flattening(seqs, f)
  BY FlatteningExists
<1>2. FlattenSeq(seqs) = f[Len(seqs)]
  BY DEF FlattenSeq, Flattening
<1>3. QED
  BY <1>1, <1>2

\* The values of such a function are sequences of what has been put together.
LEMMA FlatteningType ==
    ASSUME NEW T, NEW seqs \in Seq(Seq(T)), NEW flat, Flattening(seqs, flat),
           NEW U, NEW N \in 0..Len(seqs), \A i \in 1..N : seqs[i] \in Seq(U)
    PROVE  \A n \in 1..N : flat[n] \in Seq(U)
<1> DEFINE Typed == {n \in 0..N : n = 0 \/ flat[n] \in Seq(U)}
<1>1. Len(seqs) \in Nat /\ N \in Nat /\ N <= Len(seqs)
  OBVIOUS
<1>2. 0 \in Typed
  BY <1>1
<1>3. ASSUME NEW n \in 1..N, n - 1 \in Typed PROVE n \in Typed
  <2>1. n \in 0..N /\ n \in 1..Len(seqs) /\ seqs[n] \in Seq(U) /\ n \in Nat
    BY <1>1
  <2>2. flat[n] = IF n = 1 THEN seqs[n] ELSE flat[n - 1] \o seqs[n]
    BY <2>1 DEF Flattening
  <2>3. n # 1 => flat[n - 1] \in Seq(U)
    BY <1>3, <2>1
  <2>4. flat[n] \in Seq(U)
    BY <2>1, <2>2, <2>3
  <2>5. QED
    BY <2>1, <2>4
<1>4. \A n \in 0..N : n \in Typed
  <2> HIDE DEF Typed
  <2>1. QED
    BY <1>1, <1>2, <1>3, Induction
<1>5. QED
  BY <1>1, <1>4

\* What is flattened ends with the last of the sequences.
LEMMA FlattenSeqEnd ==
    ASSUME NEW T, NEW seqs \in Seq(Seq(T)), Len(seqs) # 0,
           NEW U, \A i \in 1..(Len(seqs) - 1) : seqs[i] \in Seq(U)
    PROVE  \E first \in Seq(U) : FlattenSeq(seqs) = first \o seqs[Len(seqs)]
<1> DEFINE N == Len(seqs)
<1>1. N \in Nat /\ N # 0 /\ N \in 1..N /\ N - 1 \in 0..N
  OBVIOUS
<1>2. PICK flat : Flattening(seqs, flat) /\ FlattenSeq(seqs) = flat[N]
  BY FlattenSeqIsFlat
<1>3. flat[N] = IF N = 1 THEN seqs[N] ELSE flat[N - 1] \o seqs[N]
  BY <1>1, <1>2 DEF Flattening
<1>4. seqs[N] \in Seq(T)
  BY <1>1
<1> HIDE DEF N
<1>5. CASE N = 1
  <2>1. <<>> \in Seq(U) /\ <<>> \o seqs[N] = seqs[N]
    BY <1>4, ConcatEmptySeq
  <2>2. QED
    BY <1>2, <1>3, <1>5, <2>1 DEF N
<1>6. CASE N # 1
  <2>1. N - 1 \in 1..(N - 1)
    BY <1>1, <1>6
  <2>2. \A n \in 1..(N - 1) : flat[n] \in Seq(U)
    BY <1>1, <1>2, FlatteningType DEF N
  <2>3. QED
    BY <1>2, <1>3, <1>6, <2>1, <2>2 DEF N
<1>7. QED
  BY <1>5, <1>6

LEMMA FlattenSeqType ==
    ASSUME NEW T, NEW seqs \in Seq(Seq(T))
    PROVE  FlattenSeq(seqs) \in Seq(T)
<1>1. CASE Len(seqs) = 0
  <2>1. FlattenSeq(seqs) = seqs /\ seqs = <<>>
    BY <1>1 DEF FlattenSeq
  <2>2. QED
    BY <2>1
<1>2. CASE Len(seqs) # 0
  <2>1. /\ \A i \in 1..(Len(seqs) - 1) : seqs[i] \in Seq(T)
        /\ seqs[Len(seqs)] \in Seq(T)
    BY <1>2
  <2>2. PICK first \in Seq(T) : FlattenSeq(seqs) = first \o seqs[Len(seqs)]
    BY <1>2, <2>1, FlattenSeqEnd
  <2>3. QED
    BY <2>1, <2>2
<1>3. QED
  BY <1>1, <1>2
-----------------------------------------------------------------------------
(* Flattening a part, and two parts *)

\* The first n elements of a sequence.
First(s, n) == SubSeq(s, 1, n)

LEMMA FirstFacts ==
    ASSUME NEW L, NEW s \in Seq(L), NEW n \in 0..Len(s)
    PROVE  /\ First(s, n) \in Seq(L) /\ Len(First(s, n)) = n
           /\ \A i \in 1..n : First(s, n)[i] = s[i]
<1>1. Len(s) \in Nat /\ n \in Nat /\ n <= Len(s)
  OBVIOUS
<1>2. \A i \in 1..n : s[i] \in L
  BY <1>1
<1>3. QED
  BY <1>1, <1>2 DEF First

LEMMA FirstEnds ==
    ASSUME NEW L, NEW s \in Seq(L)
    PROVE  First(s, 0) = <<>> /\ First(s, Len(s)) = s
<1>1. Len(s) \in Nat /\ 0 \in 0..Len(s) /\ Len(s) \in 0..Len(s)
  OBVIOUS
<1>2. First(s, 0) \in Seq(L) /\ Len(First(s, 0)) = 0
  BY <1>1, FirstFacts
<1>3. /\ First(s, Len(s)) \in Seq(L) /\ Len(First(s, Len(s))) = Len(s)
      /\ \A i \in 1..Len(s) : First(s, Len(s))[i] = s[i]
  BY <1>1, FirstFacts
<1>4. First(s, Len(s)) = s
  BY <1>3, SeqEqual
<1>5. QED
  BY <1>2, <1>4

\* The sequence begins with the other one.
BeginsWith(seqs, other) ==
    Len(other) <= Len(seqs) /\ \A i \in 1..Len(other) : other[i] = seqs[i]

\* What has been put together depends on the sequences so far only.
LEMMA FlatteningUnique ==
    ASSUME NEW T, NEW seqs \in Seq(Seq(T)), NEW other \in Seq(Seq(T)),
           NEW f, Flattening(seqs, f), NEW g, Flattening(other, g),
           BeginsWith(seqs, other)
    PROVE  \A n \in 1..Len(other) : f[n] = g[n]
<1> DEFINE N == Len(other)
           Same == {n \in 0..N : n = 0 \/ f[n] = g[n]}
<1>1. N \in Nat /\ Len(seqs) \in Nat /\ N <= Len(seqs)
  BY DEF BeginsWith
<1>2. ASSUME NEW n \in 1..N
      PROVE  /\ f[n] = IF n = 1 THEN seqs[n] ELSE f[n - 1] \o seqs[n]
             /\ g[n] = IF n = 1 THEN other[n] ELSE g[n - 1] \o other[n]
             /\ other[n] = seqs[n]
  <2>1. n \in 1..Len(seqs) /\ n \in 1..Len(other)
    BY <1>1
  <2>2. QED
    BY <2>1 DEF Flattening, BeginsWith
<1> HIDE DEF N
<1>3. 0 \in Same
  BY <1>1
<1>4. ASSUME NEW n \in 1..N, n - 1 \in Same PROVE n \in Same
  <2>1. n \in 0..N /\ (n # 1 => n - 1 # 0)
    BY <1>1
  <2>2. n # 1 => f[n - 1] = g[n - 1]
    BY <1>4, <2>1
  <2>3. f[n] = g[n]
    BY <1>2, <2>2
  <2>4. QED
    BY <2>1, <2>3
<1>5. \A n \in 0..N : n \in Same
  <2> HIDE DEF Same
  <2>1. QED
    BY <1>1, <1>3, <1>4, Induction
<1>6. ASSUME NEW n \in 1..N PROVE f[n] = g[n]
  <2>1. n \in 0..N /\ n # 0
    BY <1>1
  <2>2. QED
    BY <1>5, <2>1
<1>7. QED
  BY <1>6 DEF N

LEMMA FlattenEmpty == FlattenSeq(<<>>) = <<>>
BY DEF FlattenSeq

\* A sequence more.
LEMMA FlattenFirst ==
    ASSUME NEW T, NEW seqs \in Seq(Seq(T)), NEW n \in 1..Len(seqs)
    PROVE  FlattenSeq(First(seqs, n)) =
             FlattenSeq(First(seqs, n - 1)) \o seqs[n]
<1> DEFINE S == Seq(T)
           now == First(seqs, n)
           prev == First(seqs, n - 1)
<1>1. /\ Len(seqs) \in Nat /\ n \in Nat /\ n # 0 /\ n \in 0..Len(seqs)
      /\ n - 1 \in 0..Len(seqs) /\ seqs[n] \in S
  OBVIOUS
<1>2. now \in Seq(S) /\ Len(now) = n /\ \A i \in 1..n : now[i] = seqs[i]
  BY <1>1, FirstFacts
<1>3. /\ prev \in Seq(S) /\ Len(prev) = n - 1
      /\ \A i \in 1..(n - 1) : prev[i] = seqs[i]
  BY <1>1, FirstFacts
<1> HIDE DEF now, prev
<1>4. PICK f : Flattening(now, f) /\ FlattenSeq(now) = f[n]
  BY <1>1, <1>2, FlattenSeqIsFlat
<1>5. f[n] = IF n = 1 THEN now[n] ELSE f[n - 1] \o now[n]
  <2>1. n \in 1..Len(now)
    BY <1>1, <1>2
  <2>2. QED
    BY <2>1, <1>4 DEF Flattening
<1>6. now[n] = seqs[n]
  BY <1>1, <1>2
<1>7. CASE n = 1
  <2>1. prev \in Seq(S) /\ Len(prev) = 0
    BY <1>3, <1>7
  <2> HIDE DEF S
  <2>2. prev = <<>>
    BY <2>1, EmptySeq
  <2>3. FlattenSeq(prev) = <<>>
    BY <2>2, FlattenEmpty
  <2>4. <<>> \o seqs[n] = seqs[n]
    BY <1>1, ConcatEmptySeq DEF S
  <2>5. QED
    BY <1>4, <1>5, <1>6, <1>7, <2>3, <2>4 DEF now, prev
<1>8. CASE n # 1
  <2>1. /\ n - 1 \in Nat /\ n - 1 # 0 /\ n - 1 \in 1..(n - 1) /\ n - 1 <= n
        /\ \A i \in 1..(n - 1) : i \in 1..n
    BY <1>1, <1>8
  <2>2. PICK g : Flattening(prev, g) /\ FlattenSeq(prev) = g[n - 1]
    BY <1>3, <2>1, FlattenSeqIsFlat
  <2>3. \A i \in 1..Len(prev) : prev[i] = now[i]
    BY <1>2, <1>3, <2>1
  <2>4. f[n - 1] = g[n - 1]
    <3>1. Len(prev) <= Len(now) /\ n - 1 \in 1..Len(prev)
      BY <1>1, <1>2, <1>3, <2>1
    <3>2. Flattening(now, f) /\ Flattening(prev, g)
      BY <1>4, <2>2
    <3>3. now \in Seq(Seq(T)) /\ prev \in Seq(Seq(T))
      BY <1>2, <1>3
    <3>4. BeginsWith(now, prev)
      BY <2>3, <3>1 DEF BeginsWith
    <3>5. \A i \in 1..Len(prev) : f[i] = g[i]
      BY <3>2, <3>3, <3>4, FlatteningUnique
    <3>6. QED
      BY <3>1, <3>5
  <2>5. QED
    BY <1>4, <1>5, <1>6, <1>8, <2>2, <2>4 DEF now, prev
<1>9. QED
  BY <1>7, <1>8

\* Two parts are flattened one after the other.
LEMMA FlattenJoined ==
    ASSUME NEW T, NEW a \in Seq(Seq(T)), NEW b \in Seq(Seq(T))
    PROVE  FlattenSeq(a \o b) = FlattenSeq(a) \o FlattenSeq(b)
<1> DEFINE S == Seq(T)
           M == Len(a)
           N == Len(b)
           all == a \o b
           Good == {n \in 0..N : FlattenSeq(First(all, M + n)) =
                                   FlattenSeq(a) \o FlattenSeq(First(b, n))}
<1>1. M \in Nat /\ N \in Nat /\ N \in 0..N /\ 0 \in 0..N
  OBVIOUS
<1>2. /\ all \in Seq(S) /\ Len(all) = M + N
      /\ \A i \in 1..M : all[i] = a[i]
      /\ \A i \in 1..N : all[M + i] = b[i]
  BY Joined
<1>3. FlattenSeq(a) \in Seq(T)
  BY FlattenSeqType
<1> HIDE DEF all, M, N
<1>4. 0 \in Good
  <2>1. M + 0 = M /\ M \in 0..Len(all)
    BY <1>1, <1>2
  <2>2. First(all, M) \in Seq(S) /\ Len(First(all, M)) = M
    BY <1>2, <2>1, FirstFacts
  <2>3. \A i \in 1..M : First(all, M)[i] = a[i]
    BY <1>2, <2>1, FirstFacts
  <2>4. a \in Seq(S) /\ Len(a) = M
    BY DEF M
  <2>5. First(all, M) = a
    BY <2>2, <2>3, <2>4, SeqEqual
  <2>6. First(b, 0) = <<>>
    BY b \in Seq(S), FirstEnds
  <2>7. FlattenSeq(a) \o <<>> = FlattenSeq(a)
    BY <1>3, ConcatEmptySeq
  <2>8. QED
    BY <1>1, <2>1, <2>5, <2>6, <2>7, FlattenEmpty
<1>5. ASSUME NEW n \in 1..N, n - 1 \in Good PROVE n \in Good
  <2>1. /\ n \in 0..N /\ M + n \in 1..Len(all) /\ (M + n) - 1 = M + (n - 1)
        /\ n - 1 \in 0..N
    <3>1. Len(all) = M + N
      BY <1>2
    <3>2. QED
      BY <1>1, <3>1
  <2>2. FlattenSeq(First(all, M + n)) =
          FlattenSeq(First(all, M + (n - 1))) \o all[M + n]
    BY <1>2, <2>1, FlattenFirst
  <2>3. n \in 1..Len(b) /\ b[n] \in S /\ Len(b) = N
    BY DEF N
  <2>4. FlattenSeq(First(b, n)) = FlattenSeq(First(b, n - 1)) \o b[n]
    BY <2>3, FlattenFirst
  <2>5. First(b, n - 1) \in Seq(S)
    BY <2>1, <2>3, FirstFacts
  <2>6. FlattenSeq(First(b, n - 1)) \in Seq(T)
    BY <2>5, FlattenSeqType
  <2> DEFINE x == FlattenSeq(a)
             y == FlattenSeq(First(b, n - 1))
             z == b[n]
  <2>7. FlattenSeq(First(all, M + (n - 1))) = x \o y
    BY <1>5
  <2>8. all[M + n] = z
    BY <1>2
  <2>9. x \in Seq(T) /\ y \in Seq(T) /\ z \in Seq(T)
    BY <1>3, <2>3, <2>6
  <2> HIDE DEF x, y, z
  <2>10. x \o (y \o z) = (x \o y) \o z
    BY <2>9, JoinedThree
  <2>11. QED
    BY <2>1, <2>2, <2>4, <2>7, <2>8, <2>10 DEF x, y, z
<1>6. N \in Good
  <2> HIDE DEF Good
  <2>1. \A n \in 0..N : n \in Good
    BY <1>1, <1>4, <1>5, Induction
  <2>2. QED
    BY <1>1, <2>1
<1>7. First(all, M + N) = all /\ First(b, N) = b
  <2>1. First(all, Len(all)) = all
    BY <1>2, FirstEnds
  <2>2. First(b, Len(b)) = b
    BY b \in Seq(S), FirstEnds
  <2>3. QED
    BY <1>2, <2>1, <2>2 DEF N
<1>8. QED
  BY <1>6, <1>7 DEF all

\* A single one.
LEMMA FlattenOne ==
    ASSUME NEW T, NEW s \in Seq(T)
    PROVE  FlattenSeq(<<s>>) = s
<1> DEFINE seqs == <<s>>
<1>1. seqs \in Seq(Seq(T)) /\ Len(seqs) = 1 /\ seqs[1] = s /\ 1 \in 1..1
  OBVIOUS
<1> HIDE DEF seqs
<1>2. PICK f : Flattening(seqs, f) /\ FlattenSeq(seqs) = f[1]
  <2>1. Len(seqs) # 0
    BY <1>1
  <2>2. \E f : Flattening(seqs, f) /\ FlattenSeq(seqs) = f[Len(seqs)]
    BY <1>1, <2>1, FlattenSeqIsFlat
  <2>3. QED
    BY <1>1, <2>2
<1>3. f[1] = s
  BY <1>1, <1>2 DEF Flattening
<1>4. QED
  BY <1>2, <1>3 DEF seqs

-----------------------------------------------------------------------------
(* Splitting a sequence, and putting something in between *)

\* What comes behind the first n elements of a sequence.
Rest(s, n) == SubSeq(s, n + 1, Len(s))

LEMMA RestFacts ==
    ASSUME NEW L, NEW s \in Seq(L), NEW n \in 0..Len(s)
    PROVE  /\ Rest(s, n) \in Seq(L) /\ Len(Rest(s, n)) = Len(s) - n
           /\ \A i \in 1..(Len(s) - n) : Rest(s, n)[i] = s[n + i]
<1>1. Len(s) \in Nat /\ n \in Nat /\ n <= Len(s)
  OBVIOUS
<1>2. \A i \in (n + 1)..Len(s) : s[i] \in L
  BY <1>1
<1>3. QED
  BY <1>1, <1>2 DEF Rest

LEMMA FirstAndRest ==
    ASSUME NEW L, NEW s \in Seq(L), NEW n \in 0..Len(s)
    PROVE  s = First(s, n) \o Rest(s, n)
<1> DEFINE a == First(s, n)
           b == Rest(s, n)
           all == a \o b
<1>1. Len(s) \in Nat /\ n \in Nat /\ n <= Len(s)
  OBVIOUS
<1>2. a \in Seq(L) /\ Len(a) = n /\ \A i \in 1..n : a[i] = s[i]
  BY FirstFacts
<1>3. /\ b \in Seq(L) /\ Len(b) = Len(s) - n
      /\ \A i \in 1..(Len(s) - n) : b[i] = s[n + i]
  BY RestFacts
<1> HIDE DEF a, b
<1>4. /\ all \in Seq(L) /\ Len(all) = Len(a) + Len(b)
      /\ \A i \in 1..Len(a) : all[i] = a[i]
      /\ \A i \in 1..Len(b) : all[Len(a) + i] = b[i]
  BY <1>2, <1>3, Joined
<1> HIDE DEF all
<1>5. Len(all) = Len(s)
  BY <1>1, <1>2, <1>3, <1>4
<1>6. ASSUME NEW i \in 1..Len(s) PROVE s[i] = all[i]
  <2>1. CASE i <= n
    <3>1. i \in 1..n
      BY <1>1, <2>1
    <3>2. QED
      BY <1>2, <1>4, <3>1
  <2>2. CASE ~(i <= n)
    <3>1. i - n \in 1..(Len(s) - n) /\ n + (i - n) = i
      BY <1>1, <2>2
    <3>2. all[n + (i - n)] = b[i - n] /\ b[i - n] = s[n + (i - n)]
      BY <1>2, <1>3, <1>4, <3>1
    <3>3. QED
      BY <3>1, <3>2
  <2>3. QED
    BY <2>1, <2>2
<1>7. s = all
  BY <1>4, <1>5, <1>6, SeqEqual
<1>8. QED
  BY <1>7 DEF all, a, b

\* The parts of a sequence are the two that were joined.
LEMMA JoinedParts ==
    ASSUME NEW L, NEW a \in Seq(L), NEW b \in Seq(L)
    PROVE  First(a \o b, Len(a)) = a /\ Rest(a \o b, Len(a)) = b
<1> DEFINE all == a \o b
           n == Len(a)
           x == First(all, n)
           y == Rest(all, n)
<1>1. n \in Nat /\ Len(b) \in Nat
  OBVIOUS
<1>2. /\ all \in Seq(L) /\ Len(all) = n + Len(b)
      /\ \A i \in 1..n : all[i] = a[i]
      /\ \A i \in 1..Len(b) : all[n + i] = b[i]
  BY Joined
<1> HIDE DEF all
<1>3. n \in 0..Len(all) /\ Len(all) - n = Len(b)
  <2>1. Len(all) = n + Len(b)
    BY <1>2
  <2> HIDE DEF n
  <2>2. QED
    BY <1>1, <2>1
<1>4. x \in Seq(L) /\ Len(x) = n /\ \A i \in 1..n : x[i] = all[i]
  BY <1>2, <1>3, FirstFacts
<1>5. /\ y \in Seq(L) /\ Len(y) = Len(b)
      /\ \A i \in 1..Len(b) : y[i] = all[n + i]
  BY <1>2, <1>3, RestFacts
<1> HIDE DEF x, y
<1>6. x = a
  <2>1. Len(x) = Len(a) /\ \A i \in 1..Len(x) : x[i] = a[i]
    BY <1>2, <1>4
  <2>2. QED
    BY <1>4, <2>1, SeqEqual
<1>7. y = b
  <2>1. \A i \in 1..Len(y) : y[i] = b[i]
    BY <1>2, <1>5
  <2>2. QED
    BY <1>5, <2>1, SeqEqual
<1>8. QED
  BY <1>6, <1>7 DEF all, x, y, n

\* An element between two parts, and a sequence between two others.
With(a, e, b) == (a \o <<e>>) \o b
Between(p, s, q) == (p \o s) \o q

\* InsertAt puts the element between two parts.
LEMMA InsertBetween ==
    ASSUME NEW L, NEW a \in Seq(L), NEW b \in Seq(L), NEW e
    PROVE  InsertAt(a \o b, Len(a) + 1, e) = With(a, e, b)
<1>1. First(a \o b, Len(a)) = a /\ Rest(a \o b, Len(a)) = b
  BY JoinedParts
<1>2. (Len(a) + 1) - 1 = Len(a)
  OBVIOUS
<1>3. QED
  BY <1>1, <1>2 DEF InsertAt, First, Rest, With

\* The elements of all are those of the three parts.
Enclosed(L, p, s, q, all) ==
    /\ all \in Seq(L) /\ Len(all) = Len(p) + Len(s) + Len(q)
    /\ \A i \in 1..Len(p) : all[i] = p[i]
    /\ \A i \in 1..Len(s) : all[Len(p) + i] = s[i]
    /\ \A i \in 1..Len(q) : all[Len(p) + Len(s) + i] = q[i]

LEMMA BetweenFacts ==
    ASSUME NEW L, NEW p \in Seq(L), NEW s \in Seq(L), NEW q \in Seq(L)
    PROVE  Enclosed(L, p, s, q, Between(p, s, q))
<1> DEFINE ps == p \o s
           all == ps \o q
           l == Len(p)
           m == Len(s)
<1>1. l \in Nat /\ m \in Nat /\ Len(q) \in Nat
  OBVIOUS
<1>2. /\ ps \in Seq(L) /\ Len(ps) = l + m
      /\ \A i \in 1..l : ps[i] = p[i]
      /\ \A i \in 1..m : ps[l + i] = s[i]
  BY Joined
<1> HIDE DEF ps, l, m
<1>3. ps \in Seq(L)
  BY <1>2
<1>4. /\ all \in Seq(L) /\ Len(all) = Len(ps) + Len(q)
      /\ \A i \in 1..Len(ps) : all[i] = ps[i]
      /\ \A i \in 1..Len(q) : all[Len(ps) + i] = q[i]
  BY <1>3, Joined
<1>5. Between(p, s, q) = all
  BY DEF Between, ps
<1> HIDE DEF all
<1>6. ASSUME NEW i \in 1..l PROVE all[i] = p[i]
  <2>1. i \in 1..(l + m)
    BY <1>1
  <2>2. QED
    BY <1>2, <1>4, <2>1
<1>7. ASSUME NEW i \in 1..m PROVE all[l + i] = s[i]
  <2>1. l + i \in 1..(l + m)
    BY <1>1
  <2>2. QED
    BY <1>2, <1>4, <2>1
<1>8. Len(all) = l + m + Len(q) /\ \A i \in 1..Len(q) : all[l + m + i] = q[i]
  BY <1>2, <1>4
<1>9. QED
  BY <1>4, <1>5, <1>6, <1>7, <1>8 DEF l, m, Enclosed

\* What is inserted into the middle of three parts.
LEMMA InsertInMiddle ==
    ASSUME NEW L, NEW p \in Seq(L), NEW a \in Seq(L), NEW b \in Seq(L),
           NEW q \in Seq(L), NEW e \in L
    PROVE  InsertAt(Between(p, a \o b, q), Len(p) + Len(a) + 1, e) =
             Between(p, With(a, e, b), q)
<1> DEFINE one == <<e>>
           x == p \o a
           y == b \o q
           ae == a \o one
           xe == x \o one
           all == (p \o (a \o b)) \o q
           at == Len(p) + Len(a) + 1
<1>1. one \in Seq(L)
  OBVIOUS
<1> HIDE DEF one
<1>2. x \in Seq(L) /\ Len(x) = Len(p) + Len(a)
  BY Joined
<1>3. y \in Seq(L)
  BY Joined
<1>4. ae \in Seq(L)
  BY <1>1, Joined
<1>5. p \o (a \o b) = x \o b
  BY JoinedThree
<1>6. p \o (a \o one) = x \o one
  BY <1>1, JoinedThree
<1> HIDE DEF x
<1>7. (x \o b) \o q = x \o (b \o q)
  BY <1>2, JoinedThree
<1>8. xe \in Seq(L)
  BY <1>1, <1>2
<1> HIDE DEF ae
<1>9. p \o (ae \o b) = (p \o ae) \o b
  BY <1>4, JoinedThree
<1>10. p \o ae = xe
  BY <1>6 DEF ae
<1> HIDE DEF xe
<1>11. (xe \o b) \o q = xe \o (b \o q)
  BY <1>8, JoinedThree
<1> HIDE DEF y
<1>12. InsertAt(x \o y, Len(x) + 1, e) = (x \o one) \o y
  BY <1>2, <1>3, InsertBetween DEF one, With
<1>13. all = x \o y /\ at = Len(x) + 1
  BY <1>2, <1>5, <1>7 DEF y
<1> HIDE DEF all, at
<1>14. InsertAt(all, at, e) = xe \o y
  BY <1>12, <1>13 DEF xe
<1>15. xe \o y = (p \o (ae \o b)) \o q
  BY <1>9, <1>10, <1>11 DEF y
<1>16. QED
  BY <1>14, <1>15 DEF all, at, ae, one, Between, With

-----------------------------------------------------------------------------
(* Some of the elements of a sequence, in their order *)

\* Each element, or nothing where it is not in K.
Pick(s, K) == [j \in DOMAIN s |-> IF s[j] \in K THEN <<s[j]>> ELSE <<>>]

\* The elements that are in K.
Only(s, K) == FlattenSeq(Pick(s, K))

LEMMA PickFacts ==
    ASSUME NEW L, NEW s \in Seq(L), NEW K
    PROVE  /\ Pick(s, K) \in Seq(Seq(L)) /\ Len(Pick(s, K)) = Len(s)
           /\ \A j \in 1..Len(s) :
                Pick(s, K)[j] = IF s[j] \in K THEN <<s[j]>> ELSE <<>>
<1> DEFINE S == Seq(L)
           n == Len(s)
           p == Pick(s, K)
<1>1. n \in Nat /\ DOMAIN s = 1..n
  OBVIOUS
<1>2. \A j \in 1..n : (IF s[j] \in K THEN <<s[j]>> ELSE <<>>) \in S
  OBVIOUS
<1>3. p = [j \in 1..n |-> IF s[j] \in K THEN <<s[j]>> ELSE <<>>]
  BY <1>1 DEF Pick
<1> HIDE DEF S, n, p
<1>4. p \in [1..n -> S]
  BY <1>2, <1>3
<1>5. p \in Seq(S) /\ Len(p) = n
  BY <1>1, <1>4
<1>6. QED
  BY <1>3, <1>5 DEF p, n, S

LEMMA OnlyType ==
    ASSUME NEW L, NEW s \in Seq(L), NEW K
    PROVE  Only(s, K) \in Seq(L)
BY PickFacts, FlattenSeqType DEF Only

LEMMA OnlyJoined ==
    ASSUME NEW L, NEW a \in Seq(L), NEW b \in Seq(L), NEW K
    PROVE  Only(a \o b, K) = Only(a, K) \o Only(b, K)
<1> DEFINE S == Seq(L)
           m == Len(a)
           n == Len(b)
           all == a \o b
           x == Pick(a, K)
           y == Pick(b, K)
           z == Pick(all, K)
           xy == x \o y
<1>1. m \in Nat /\ n \in Nat
  OBVIOUS
<1>2. /\ all \in Seq(L) /\ Len(all) = m + n
      /\ \A i \in 1..m : all[i] = a[i]
      /\ \A i \in 1..n : all[m + i] = b[i]
  BY Joined
<1> HIDE DEF all
<1>3. /\ x \in Seq(S) /\ Len(x) = m
      /\ \A j \in 1..m : x[j] = IF a[j] \in K THEN <<a[j]>> ELSE <<>>
  BY PickFacts
<1>4. /\ y \in Seq(S) /\ Len(y) = n
      /\ \A j \in 1..n : y[j] = IF b[j] \in K THEN <<b[j]>> ELSE <<>>
  BY PickFacts
<1> HIDE DEF x, y
<1>5. /\ z \in Seq(S) /\ Len(z) = Len(all)
      /\ \A j \in 1..Len(all) :
           z[j] = IF all[j] \in K THEN <<all[j]>> ELSE <<>>
  <2>1. all \in Seq(L)
    BY <1>2
  <2>2. QED
    BY <2>1, PickFacts
<1> HIDE DEF z, S, m, n
<1>6. /\ xy \in Seq(S) /\ Len(xy) = Len(x) + Len(y)
      /\ \A i \in 1..Len(x) : xy[i] = x[i]
      /\ \A i \in 1..Len(y) : xy[Len(x) + i] = y[i]
  <2>1. x \in Seq(S) /\ y \in Seq(S)
    BY <1>3, <1>4
  <2>2. QED
    BY <2>1, Joined
<1> HIDE DEF xy
<1>7. Len(z) = m + n /\ Len(xy) = m + n
  BY <1>2, <1>3, <1>4, <1>5, <1>6
<1>8. ASSUME NEW j \in 1..(m + n) PROVE z[j] = xy[j]
  <2>1. z[j] = IF all[j] \in K THEN <<all[j]>> ELSE <<>>
    BY <1>2, <1>5
  <2>2. CASE j <= m
    <3>1. j \in 1..m
      BY <1>1, <2>2
    <3>2. QED
      BY <1>2, <1>3, <1>6, <2>1, <3>1
  <2>3. CASE ~(j <= m)
    <3>1. j - m \in 1..n /\ m + (j - m) = j
      BY <1>1, <2>3
    <3>2. all[m + (j - m)] = b[j - m] /\ xy[m + (j - m)] = y[j - m]
      BY <1>2, <1>3, <1>4, <1>6, <3>1
    <3>3. QED
      BY <1>4, <2>1, <3>1, <3>2
  <2>4. QED
    BY <2>2, <2>3
<1>9. z = xy
  BY <1>5, <1>6, <1>7, <1>8, SeqEqual
<1>10. FlattenSeq(xy) = FlattenSeq(x) \o FlattenSeq(y)
  BY <1>3, <1>4, FlattenJoined DEF xy, S
<1>11. QED
  BY <1>9, <1>10 DEF Only, x, y, z, all

LEMMA OnlyOne ==
    ASSUME NEW L, NEW e \in L, NEW K
    PROVE  Only(<<e>>, K) = IF e \in K THEN <<e>> ELSE <<>>
<1> DEFINE one == IF e \in K THEN <<e>> ELSE <<>>
<1>1. one \in Seq(L)
  OBVIOUS
<1>2. Pick(<<e>>, K) = <<one>>
  BY DEF Pick
<1> HIDE DEF one
<1>3. FlattenSeq(<<one>>) = one
  BY <1>1, FlattenOne
<1>4. QED
  BY <1>2, <1>3 DEF Only, one

\* What differs outside of K makes no difference.
LEMMA OnlySame ==
    ASSUME NEW L, NEW s \in Seq(L), NEW t \in Seq(L), NEW K, Len(s) = Len(t),
           \A j \in 1..Len(s) : s[j] = t[j] \/ (s[j] \notin K /\ t[j] \notin K)
    PROVE  Only(s, K) = Only(t, K)
<1>1. DOMAIN s = 1..Len(s) /\ DOMAIN t = 1..Len(s)
  OBVIOUS
<1>2. Pick(s, K) = Pick(t, K)
  BY <1>1 DEF Pick
<1>3. QED
  BY <1>2 DEF Only

\* One element more, in between.
LEMMA OnlyInserted ==
    ASSUME NEW L, NEW a \in Seq(L), NEW b \in Seq(L), NEW e \in L, NEW K
    PROVE  /\ e \notin K => Only(With(a, e, b), K) = Only(a \o b, K)
           /\ e \in K /\ Only(a \o b, K) = <<>> =>
                Only(With(a, e, b), K) = <<e>>
<1> DEFINE one == <<e>>
           ae == a \o one
           x == Only(a, K)
           y == Only(b, K)
<1>1. one \in Seq(L)
  OBVIOUS
<1>2. Only(one, K) = IF e \in K THEN <<e>> ELSE <<>>
  BY OnlyOne
<1> HIDE DEF one
<1>3. ae \in Seq(L)
  BY <1>1
<1>4. Only(ae, K) = x \o Only(one, K)
  BY <1>1, OnlyJoined
<1> HIDE DEF ae
<1>5. Only(ae \o b, K) = Only(ae, K) \o y
  BY <1>3, OnlyJoined
<1>6. Only(a \o b, K) = x \o y
  BY OnlyJoined
<1>7. x \in Seq(L) /\ y \in Seq(L)
  BY OnlyType
<1> HIDE DEF x, y
<1>8. x \o <<>> = x
  BY <1>7, ConcatEmptySeq
<1>9. ASSUME e \notin K PROVE Only(ae \o b, K) = Only(a \o b, K)
  BY <1>2, <1>4, <1>5, <1>6, <1>8, <1>9
<1>10. ASSUME e \in K, x \o y = <<>> PROVE Only(ae \o b, K) = <<e>>
  <2>1. x = <<>> /\ y = <<>>
    <3>1. Len(x \o y) = Len(x) + Len(y) /\ Len(x \o y) = 0
      BY <1>7, <1>10, Joined
    <3>2. Len(x) = 0 /\ Len(y) = 0
      BY <1>7, <3>1
    <3>3. QED
      BY <1>7, <3>2, EmptySeq
  <2>2. <<>> \o <<e>> = <<e>> /\ <<e>> \o <<>> = <<e>>
    OBVIOUS
  <2>3. Only(ae, K) = <<>> \o <<e>>
    BY <1>2, <1>4, <1>10, <2>1
  <2>4. QED
    BY <1>5, <2>1, <2>2, <2>3
<1>11. QED
  BY <1>6, <1>9, <1>10 DEF ae, one, With

\* Nothing is left when no element is in K.
LEMMA OnlyEmpty ==
    ASSUME NEW L, NEW s \in Seq(L), NEW K
    PROVE  Only(s, K) = <<>> <=> \A j \in 1..Len(s) : s[j] \notin K
<1>1. ASSUME \A j \in 1..Len(s) : s[j] \notin K PROVE Only(s, K) = <<>>
  <2> DEFINE n == Len(s)
             p == Pick(s, K)
             S == Seq({})
  <2>1. /\ p \in Seq(Seq(L)) /\ Len(p) = Len(s)
        /\ \A j \in 1..Len(s) : p[j] = IF s[j] \in K THEN <<s[j]>> ELSE <<>>
    BY PickFacts
  <2> HIDE DEF p
  <2>2. n \in Nat /\ Len(p) = n /\ \A j \in 1..n : p[j] = <<>>
    <3>1. ASSUME NEW j \in 1..Len(s) PROVE p[j] = <<>>
      <4>1. s[j] \notin K
        BY <1>1
      <4>2. p[j] = IF s[j] \in K THEN <<s[j]>> ELSE <<>>
        BY <2>1
      <4>3. QED
        BY <4>1, <4>2
    <3>2. Len(p) = n /\ n \in Nat
      BY <2>1
    <3>3. QED
      BY <3>1, <3>2
  <2>3. <<>> \in S
    OBVIOUS
  <2> HIDE DEF n, p, S
  <2>4. p \in [1..n -> S]
    <3>1. DOMAIN p = 1..n /\ p = [j \in DOMAIN p |-> p[j]]
      BY <2>1, <2>2
    <3>2. QED
      BY <2>2, <2>3, <3>1
  <2>5. p \in Seq(S)
    BY <2>2, <2>4
  <2>6. FlattenSeq(p) \in Seq({})
    BY <2>5, FlattenSeqType DEF S
  <2>7. FlattenSeq(p) = <<>>
    <3> DEFINE f == FlattenSeq(p)
    <3>1. f \in Seq({})
      BY <2>6
    <3> HIDE DEF f
    <3>2. Len(f) \in Nat /\ \A j \in 1..Len(f) : f[j] \in {}
      BY <3>1
    <3>3. Len(f) = 0
      <4>1. Len(f) # 0 => 1 \in 1..Len(f)
        BY <3>2
      <4>2. QED
        BY <3>2, <4>1
    <3>4. f = <<>>
      BY <3>1, <3>3, EmptySeq
    <3>5. QED
      BY <3>4 DEF f
  <2>8. QED
    BY <2>7 DEF Only, p
<1>2. ASSUME NEW j \in 1..Len(s), s[j] \in K PROVE Only(s, K) # <<>>
  <2> DEFINE e == s[j]
             one == <<e>>
             a == First(s, j)
             b == Rest(s, j)
             c == First(s, j - 1)
  <2>1. j \in 0..Len(s) /\ j - 1 \in 0..Len(s) /\ e \in L /\ 1 \in 1..Len(s)
    OBVIOUS
  <2>2. a \in Seq(L) /\ c \in Seq(L)
    BY <2>1, FirstFacts
  <2>3. b \in Seq(L)
    BY <2>1, RestFacts
  <2>4. s = a \o b
    BY <2>1, FirstAndRest
  <2>5. a = c \o one
    BY <2>1, SubSeqRecursiveSecond DEF First
  <2> HIDE DEF a, b, c
  <2>6. Only(one, K) = <<e>>
    BY <1>2, <2>1, OnlyOne
  <2>7. one \in Seq(L)
    BY <2>1
  <2> HIDE DEF one
  <2>8. Only(a \o b, K) = Only(a, K) \o Only(b, K)
    BY <2>2, <2>3, OnlyJoined
  <2>9. Only(c \o one, K) = Only(c, K) \o Only(one, K)
    BY <2>2, <2>7, OnlyJoined
  <2> DEFINE x == Only(a, K)
             y == Only(b, K)
             z == Only(c, K)
             w == Only(one, K)
  <2>10. x \in Seq(L) /\ y \in Seq(L) /\ z \in Seq(L) /\ w \in Seq(L)
    BY <2>2, <2>3, <2>7, OnlyType
  <2>11. Len(w) = 1
    BY <2>6
  <2> HIDE DEF x, y, z, w, e
  <2>12. Len(x \o y) = Len(x) + Len(y) /\ Len(z \o w) = Len(z) + Len(w)
    BY <2>10, Joined
  <2>13. x = z \o w
    BY <2>5, <2>9 DEF x, z, w
  <2>14. Len(x \o y) # 0
    <3>1. Len(x) \in Nat /\ Len(y) \in Nat /\ Len(z) \in Nat
      BY <2>10
    <3>2. Len(x) = Len(z) + 1
      BY <2>11, <2>12, <2>13
    <3>3. QED
      BY <2>12, <3>1, <3>2
  <2>15. Only(s, K) = x \o y
    BY <2>4, <2>8 DEF x, y
  <2>16. QED
    BY <2>14, <2>15
<1>3. QED
  BY <1>1, <1>2

-----------------------------------------------------------------------------
(* A sequence of sequences around one of them *)

LEMMA FlattenAround ==
    ASSUME NEW T, NEW seqs \in Seq(Seq(T)), NEW k \in 1..Len(seqs)
    PROVE  FlattenSeq(seqs) = Between(FlattenSeq(First(seqs, k - 1)), seqs[k],
                                      FlattenSeq(Rest(seqs, k)))
<1> DEFINE S == Seq(T)
           a == First(seqs, k)
           b == Rest(seqs, k)
<1>1. k \in 0..Len(seqs)
  OBVIOUS
<1>2. a \in Seq(S) /\ b \in Seq(S)
  <2>1. seqs \in Seq(S)
    OBVIOUS
  <2> HIDE DEF S
  <2>2. QED
    BY <1>1, <2>1, FirstFacts, RestFacts
<1>3. seqs = a \o b
  <2>1. seqs \in Seq(S)
    OBVIOUS
  <2> HIDE DEF S
  <2>2. QED
    BY <1>1, <2>1, FirstAndRest
<1>4. FlattenSeq(a) = FlattenSeq(First(seqs, k - 1)) \o seqs[k]
  BY FlattenFirst
<1> HIDE DEF a, b
<1>5. FlattenSeq(a \o b) = FlattenSeq(a) \o FlattenSeq(b)
  BY <1>2, FlattenJoined
<1>6. QED
  BY <1>3, <1>4, <1>5 DEF b, Between

\* Each element by itself.
LEMMA FlattenSingles ==
    ASSUME NEW L, NEW s \in Seq(L)
    PROVE  FlattenSeq([j \in DOMAIN s |-> <<s[j]>>]) = s
<1> DEFINE S == Seq(L)
           n == Len(s)
           p == [j \in DOMAIN s |-> <<s[j]>>]
           Good == {k \in 0..n : FlattenSeq(First(p, k)) = First(s, k)}
<1>1. n \in Nat /\ DOMAIN s = 1..n /\ n \in 0..n /\ 0 \in 0..n
  OBVIOUS
<1>2. \A j \in 1..n : <<s[j]>> \in S
  OBVIOUS
<1> HIDE DEF n, S
<1>3. p \in [1..n -> S]
  BY <1>1, <1>2
<1>4. p \in Seq(S) /\ Len(p) = n /\ \A j \in 1..n : p[j] = <<s[j]>>
  BY <1>1, <1>3
<1> HIDE DEF p
<1>5. 0 \in Good
  <2>1. First(p, 0) = <<>>
    BY <1>4, FirstEnds
  <2>2. First(s, 0) = <<>>
    BY FirstEnds
  <2>3. QED
    BY <1>1, <2>1, <2>2, FlattenEmpty
<1>6. ASSUME NEW k \in 1..n, k - 1 \in Good PROVE k \in Good
  <2>1. k \in 0..n /\ k \in 1..Len(s) /\ k \in 1..Len(p) /\ 1 \in 1..Len(s)
    BY <1>1, <1>4 DEF n
  <2>2. FlattenSeq(First(p, k)) = FlattenSeq(First(p, k - 1)) \o p[k]
    BY <1>4, <2>1, FlattenFirst DEF S
  <2>3. First(s, k) = First(s, k - 1) \o <<s[k]>>
    BY <2>1, SubSeqRecursiveSecond DEF First
  <2>4. QED
    BY <1>4, <1>6, <2>1, <2>2, <2>3
<1>7. n \in Good
  <2> HIDE DEF Good
  <2>1. \A k \in 0..n : k \in Good
    BY <1>1, <1>5, <1>6, Induction
  <2>2. QED
    BY <1>1, <2>1
<1>8. First(p, n) = p
  BY <1>4, FirstEnds
<1>9. First(s, n) = s
  BY FirstEnds DEF n
<1>10. QED
  BY <1>7, <1>8, <1>9 DEF p

\* The first n elements are one more than the first n - 1.
LEMMA FirstGrows ==
    ASSUME NEW L, NEW s \in Seq(L), NEW n \in 1..Len(s)
    PROVE  /\ First(s, n) = First(s, n - 1) \o <<s[n]>>
           /\ First(s, n) = Append(First(s, n - 1), s[n])
<1> DEFINE a == First(s, n)
           b == First(s, n - 1)
           e == s[n]
           new == Append(b, e)
<1>1. n \in Nat /\ n \in 0..Len(s) /\ n - 1 \in 0..Len(s) /\ e \in L
  OBVIOUS
<1>2. a \in Seq(L) /\ Len(a) = n /\ \A i \in 1..n : a[i] = s[i]
  BY <1>1, FirstFacts
<1>3. b \in Seq(L) /\ Len(b) = n - 1 /\ \A i \in 1..(n - 1) : b[i] = s[i]
  BY <1>1, FirstFacts
<1> HIDE DEF a, b
<1>4. new = b \o <<e>>
  <2> HIDE DEF e
  <2>1. QED
    BY <1>1, <1>3
<1>5. /\ new \in Seq(L) /\ Len(new) = Len(b) + 1
      /\ \A i \in 1..Len(b) : new[i] = b[i]
      /\ new[Len(b) + 1] = e
  BY <1>1, <1>3
<1> HIDE DEF new
<1>6. \A i \in 1..Len(a) : a[i] = new[i]
  <2> SUFFICES ASSUME NEW i \in 1..n PROVE a[i] = new[i]
    BY <1>2
  <2>1. i = n \/ i \in 1..(n - 1)
    BY <1>1
  <2>2. QED
    BY <1>1, <1>2, <1>3, <1>5, <2>1
<1>7. a = new
  <2>1. Len(a) = Len(new) /\ a \in Seq(L) /\ new \in Seq(L)
    BY <1>1, <1>2, <1>3, <1>5
  <2>2. QED
    BY <1>6, <2>1, SeqEqual
<1>8. QED
  BY <1>4, <1>7 DEF a, b, new

\* A sequence behind one element.
LEMMA BehindOne ==
    ASSUME NEW L, NEW e \in L, NEW b \in Seq(L)
    PROVE  (<<e>> \o b)[1] = e /\ Tail(<<e>> \o b) = b
<1> DEFINE a == <<e>>
           all == a \o b
<1>1. a \in Seq(L) /\ Len(a) = 1 /\ a[1] = e
  OBVIOUS
<1> HIDE DEF a
<1>2. Len(b) \in Nat /\ 1 \in 1..Len(a)
  BY <1>1
<1>3. /\ all \in Seq(L) /\ Len(all) = Len(a) + Len(b)
      /\ \A i \in 1..Len(a) : all[i] = a[i]
      /\ \A i \in 1..Len(b) : all[Len(a) + i] = b[i]
  BY <1>1, Joined
<1> HIDE DEF all
<1>4. all # <<>> /\ Len(all) = Len(b) + 1
  BY <1>1, <1>2, <1>3
<1>5. /\ Tail(all) \in Seq(L) /\ Len(Tail(all)) = Len(b)
      /\ \A i \in 1..Len(b) : Tail(all)[i] = all[i + 1]
  BY <1>2, <1>3, <1>4
<1>6. \A i \in 1..Len(b) : Tail(all)[i] = b[i]
  BY <1>1, <1>2, <1>3, <1>5
<1>7. Tail(all) = b
  BY <1>5, <1>6, SeqEqual
<1>8. all[1] = e
  BY <1>1, <1>2, <1>3
<1>9. QED
  BY <1>7, <1>8 DEF all, a
=============================================================================
