--------------------------- MODULE OptimizerProofs ---------------------------
(***************************************************************************)
(* What the optimiser keeps, for every program that irgen may hand over:    *)
(* main and the code of every function, the number of arguments of calls,   *)
(* one place to go to for every jump, and that always_inline functions are  *)
(* gone once calls of them are replaced.                                    *)
(*                                                                          *)
(* Most passes thin the code of a function (Thinned): they leave            *)
(* instructions out, or put kin in their place, and keep every label that   *)
(* a jump leads to.  Threading and tail calls move jumps (Threaded); the    *)
(* inliner puts in copies whose labels carry the number of the call         *)
(* (Sited).  What holds of the functions one by one holds of programs       *)
(* (Whole, Labelled, Agreed), and the invariant says which of it holds at   *)
(* which stage.                                                             *)
(*                                                                          *)
(* A recursive function is what its definition says only if there is such   *)
(* a function: the lemmas named ...Steps show that, for every bound, before *)
(* anything is said of its values.                                          *)
(*                                                                          *)
(* Last the arithmetic of the words the code computes with (Flags).         *)
(***************************************************************************)
EXTENDS Optimizer, FiniteSetTheorems, NaturalsInduction, WellFoundedInduction, TLAPS

-----------------------------------------------------------------------------
(* Sequences, sums and what KeepOnly leaves. *)
\* What holds of 0, and of every number when it holds of the one before, holds
\* up to n.
LEMMA UpTo ==
  ASSUME NEW n \in Nat, NEW P, 0 \in P, \A i \in 1 .. n : i - 1 \in P => i \in P
  PROVE  0 .. n \subseteq P
<1> DEFINE R == OpToRel(<, Nat)
           B == (0 .. n) \ P
<1>1. SUFFICES ASSUME B # {} PROVE FALSE
  BY <1>1
<1>2. B \subseteq Nat
  OBVIOUS
<1>3. IsWellFoundedOn(R, Nat)
  BY NatLessThanWellFounded
<1> HIDE DEF R, B
<1>4. PICK x \in B : \A y \in B : <<y, x>> \notin R
  BY <1>1, <1>2, <1>3, WFMin
<1>5. \A y \in B : y \in Nat /\ x \in Nat /\ ~(y < x)
  <2>1. \A y \in B : <<y, x>> \notin {ss \in Nat \X Nat : ss[1] < ss[2]}
    BY <1>4 DEF R, OpToRel
  <2> QED
    BY <1>2, <1>4, <2>1
<1>6. x \in 1 .. n
  BY <1>4 DEF B
<1>7. x - 1 \notin B
  <2>1. x - 1 < x
    BY <1>6
  <2> QED
    BY <1>5, <2>1
<1> QED
  BY <1>4, <1>6, <1>7 DEF B

\* IsSeq and Seq say the same; what the library knows of sequences is there for
\* both.
LEMMA SeqIn ==
  ASSUME NEW s, IsSeq(s), NEW A, \A k \in 1 .. Len(s) : s[k] \in A
  PROVE  s \in Seq(A)
<1>1. s \in [1 .. Len(s) -> A]
  BY DEF IsSeq
<1> QED
  BY <1>1 DEF IsSeq

\* So do they the other way round.
LEMMA SeqIs ==
  ASSUME NEW A, NEW s \in Seq(A)
  PROVE  IsSeq(s)
BY DEF IsSeq

\* Where a sequence has elements.
LEMMA SeqDomain ==
  ASSUME NEW s, IsSeq(s)
  PROVE  DOMAIN s = 1 .. Len(s) /\ Len(s) \in Nat
BY DEF IsSeq

\* A function on 1 .. n is a sequence of n elements.
LEMMA SeqShaped ==
  ASSUME NEW s, NEW n \in Nat, DOMAIN s = 1 .. n, s = [k \in 1 .. n |-> s[k]]
  PROVE  IsSeq(s) /\ Len(s) = n
<1> DEFINE A == {s[k] : k \in 1 .. n}
<1>1. s \in [1 .. n -> A]
  OBVIOUS
<1>2. s \in Seq(A)
  BY <1>1
<1>3. Len(s) = n
  BY <1>2
<1> HIDE DEF A
<1> QED
  BY <1>2, <1>3, SeqIs

\* What appending one element makes.
LEMMA AppendIs ==
  ASSUME NEW s, IsSeq(s), NEW e
  PROVE  /\ IsSeq(Append(s, e)) /\ Len(Append(s, e)) = Len(s) + 1
         /\ Append(s, e)[Len(s) + 1] = e
         /\ \A k \in 1 .. Len(s) : Append(s, e)[k] = s[k]
<1> DEFINE A == {s[k] : k \in 1 .. Len(s)} \cup {e}
<1>1. s \in Seq(A)
  BY SeqIn
<1>2. e \in A
  OBVIOUS
<1> HIDE DEF A
<1>3. Append(s, e) \in Seq(A)
  BY <1>1, <1>2
<1>4. IsSeq(Append(s, e))
  BY <1>3, SeqIs
<1>5. Len(s) \in Nat
  BY <1>1
<1> QED
  BY <1>1, <1>2, <1>4, <1>5

\* What joining two sequences makes.
LEMMA ConcatIs ==
  ASSUME NEW s, IsSeq(s), NEW t, IsSeq(t)
  PROVE  /\ IsSeq(s \o t) /\ Len(s \o t) = Len(s) + Len(t)
         /\ \A k \in 1 .. Len(s) : (s \o t)[k] = s[k]
         /\ \A k \in 1 .. Len(t) : (s \o t)[Len(s) + k] = t[k]
<1> DEFINE A == {s[k] : k \in 1 .. Len(s)} \cup {t[k] : k \in 1 .. Len(t)}
<1>1. s \in Seq(A) /\ t \in Seq(A)
  BY SeqIn
<1> HIDE DEF A
<1>2. s \o t \in Seq(A)
  BY <1>1
<1>3. Len(s) \in Nat /\ Len(t) \in Nat
  BY SeqDomain
<1>4. IsSeq(s \o t)
  BY <1>2, SeqIs
<1> QED
  BY <1>1, <1>3, <1>4

\* There is no strictly increasing map into fewer places.
LEMMA Increasing ==
  ASSUME NEW m \in Nat, NEW n \in Nat, NEW g \in [1 .. m -> 1 .. n],
         \A i, j \in 1 .. m : i < j => g[i] < g[j]
  PROVE  m <= n
<1> DEFINE P == {i \in 0 .. m : i = 0 \/ g[i] >= i}
<1>1. 0 \in P
  OBVIOUS
<1>2. ASSUME NEW i \in 1 .. m, i - 1 \in P PROVE i \in P
  <2>1. i = 1 \/ (i - 1 \in 1 .. m /\ g[i - 1] < g[i])
    OBVIOUS
  <2> QED
    BY <1>2, <2>1
<1>3. 0 .. m \subseteq P
  <2> HIDE DEF P
  <2> QED
    BY <1>1, <1>2, UpTo
<1>4. m \in P
  BY <1>3
<1> QED
  BY <1>4

\* Total is the sum that its recursion says.
LEMMA TotalSteps ==
  ASSUME NEW numbers, NEW n \in Nat, n = Len(numbers)
  PROVE  \E f : /\ f[0] = 0
                /\ \A i \in 1 .. n : f[i] = f[i - 1] + numbers[i]
                /\ Total(numbers) = f[n]
<1> DEFINE Following(x, i) == x + numbers[i]
           Step(h, i) == IF i = 0 THEN 0 ELSE Following(h[i - 1], i)
           P == {m \in 0 .. n : \E h : h = [i \in 0 .. m |-> Step(h, i)]}
           f == CHOOSE h : h = [i \in 0 .. n |-> Step(h, i)]
<1>1. 0 \in P
  <2> DEFINE h == [i \in 0 .. 0 |-> 0]
  <2>1. h = [i \in 0 .. 0 |-> Step(h, i)]
    OBVIOUS
  <2> HIDE DEF h
  <2>2. \E g : g = [i \in 0 .. 0 |-> Step(g, i)]
    BY <2>1
  <2> HIDE DEF Step
  <2> QED
    BY <2>2
<1>2. ASSUME NEW m \in 1 .. n, m - 1 \in P PROVE m \in P
  <2> HIDE DEF Following
  <2>1. PICK h : h = [i \in 0 .. m - 1 |-> Step(h, i)]
    BY <1>2
  <2> DEFINE g == [i \in 0 .. m |-> IF i = m THEN Following(h[m - 1], m) ELSE h[i]]
  <2>2. /\ g = [i \in 0 .. m |-> g[i]] /\ g[m] = Following(h[m - 1], m)
        /\ \A i \in 0 .. m - 1 : g[i] = h[i]
    OBVIOUS
  <2> HIDE DEF g
  <2>3. ASSUME NEW i \in 0 .. m PROVE g[i] = Step(g, i)
    <3>1. CASE i = m
      <4>1. m - 1 \in 0 .. m - 1 /\ m # 0
        OBVIOUS
      <4>2. h[m - 1] = g[m - 1]
        BY <2>2, <4>1
      <4> QED
        BY <2>2, <3>1, <4>1, <4>2
    <3>2. CASE i < m
      <4>1. i \in 0 .. m - 1 /\ (i # 0 => i - 1 \in 0 .. m - 1)
        BY <3>2
      <4>2. h[i] = Step(h, i)
        <5> HIDE DEF Step
        <5> QED
          BY <2>1, <4>1
      <4> QED
        BY <2>2, <4>1, <4>2
    <3> HIDE DEF Step
    <3> QED
      BY <3>1, <3>2
  <2>4. g = [i \in 0 .. m |-> Step(g, i)]
    <3> HIDE DEF Step
    <3> QED
      BY <2>2, <2>3
  <2> QED
    BY <2>4
<1>3. f = [i \in 0 .. n |-> Step(f, i)]
  <2>1. 0 .. n \subseteq P
    <3> HIDE DEF P
    <3> QED
      BY <1>1, <1>2, UpTo
  <2>2. n \in P
    <3> HIDE DEF P
    <3> QED
      BY <2>1
  <2> QED
    BY <2>2
<1>4. Total(numbers) = f[n]
  BY DEF Total
<1>5. f[0] = 0 /\ \A i \in 1 .. n : f[i] = Following(f[i - 1], i)
  <2> HIDE DEF f, Following
  <2>1. f[0] = Step(f, 0) /\ \A i \in 1 .. n : f[i] = Step(f, i) /\ i # 0
    <3> HIDE DEF Step
    <3> QED
      BY <1>3
  <2> QED
    BY <2>1
<1> HIDE DEF f
<1> QED
  BY <1>4, <1>5
\* So is what KeepOnly makes of a sequence.
LEMMA KeepOnlySteps ==
  ASSUME NEW seq, NEW positions, NEW n \in Nat, n = Len(seq)
  PROVE  \E f : /\ f[0] = <<>>
                /\ \A i \in 1 .. n : f[i] = IF i \in positions THEN Append(f[i - 1], seq[i]) ELSE f[i - 1]
                /\ KeepOnly(seq, positions) = f[n]
<1> DEFINE Following(x, i) == IF i \in positions THEN Append(x, seq[i]) ELSE x
           Step(h, i) == IF i = 0 THEN <<>> ELSE Following(h[i - 1], i)
           P == {m \in 0 .. n : \E h : h = [i \in 0 .. m |-> Step(h, i)]}
           f == CHOOSE h : h = [i \in 0 .. n |-> Step(h, i)]
<1>1. 0 \in P
  <2> DEFINE h == [i \in 0 .. 0 |-> <<>>]
  <2>1. h = [i \in 0 .. 0 |-> Step(h, i)]
    OBVIOUS
  <2> HIDE DEF h
  <2>2. \E g : g = [i \in 0 .. 0 |-> Step(g, i)]
    BY <2>1
  <2> HIDE DEF Step
  <2> QED
    BY <2>2
<1>2. ASSUME NEW m \in 1 .. n, m - 1 \in P PROVE m \in P
  <2> HIDE DEF Following
  <2>1. PICK h : h = [i \in 0 .. m - 1 |-> Step(h, i)]
    BY <1>2
  <2> DEFINE g == [i \in 0 .. m |-> IF i = m THEN Following(h[m - 1], m) ELSE h[i]]
  <2>2. /\ g = [i \in 0 .. m |-> g[i]] /\ g[m] = Following(h[m - 1], m)
        /\ \A i \in 0 .. m - 1 : g[i] = h[i]
    OBVIOUS
  <2> HIDE DEF g
  <2>3. ASSUME NEW i \in 0 .. m PROVE g[i] = Step(g, i)
    <3>1. CASE i = m
      <4>1. m - 1 \in 0 .. m - 1 /\ m # 0
        OBVIOUS
      <4>2. h[m - 1] = g[m - 1]
        BY <2>2, <4>1
      <4> QED
        BY <2>2, <3>1, <4>1, <4>2
    <3>2. CASE i < m
      <4>1. i \in 0 .. m - 1 /\ (i # 0 => i - 1 \in 0 .. m - 1)
        BY <3>2
      <4>2. h[i] = Step(h, i)
        <5> HIDE DEF Step
        <5> QED
          BY <2>1, <4>1
      <4> QED
        BY <2>2, <4>1, <4>2
    <3> HIDE DEF Step
    <3> QED
      BY <3>1, <3>2
  <2>4. g = [i \in 0 .. m |-> Step(g, i)]
    <3> HIDE DEF Step
    <3> QED
      BY <2>2, <2>3
  <2> QED
    BY <2>4
<1>3. f = [i \in 0 .. n |-> Step(f, i)]
  <2>1. 0 .. n \subseteq P
    <3> HIDE DEF P
    <3> QED
      BY <1>1, <1>2, UpTo
  <2>2. n \in P
    <3> HIDE DEF P
    <3> QED
      BY <2>1
  <2> QED
    BY <2>2
<1>4. KeepOnly(seq, positions) = f[n]
  BY DEF KeepOnly
<1>5. f[0] = <<>> /\ \A i \in 1 .. n : f[i] = Following(f[i - 1], i)
  <2> HIDE DEF f, Following
  <2>1. f[0] = Step(f, 0) /\ \A i \in 1 .. n : f[i] = Step(f, i) /\ i # 0
    <3> HIDE DEF Step
    <3> QED
      BY <1>3
  <2> QED
    BY <2>1
<1> HIDE DEF f
<1> QED
  BY <1>4, <1>5

\* A sum of natural numbers is one.
LEMMA TotalIsNat ==
  ASSUME NEW numbers, NEW n \in Nat, n = Len(numbers), \A k \in 1 .. n : numbers[k] \in Nat
  PROVE  Total(numbers) \in Nat
<1>1. PICK f : /\ f[0] = 0 /\ \A i \in 1 .. n : f[i] = f[i - 1] + numbers[i]
               /\ Total(numbers) = f[n]
  BY TotalSteps
<1> DEFINE P == {i \in 0 .. n : f[i] \in Nat}
<1>2. 0 \in P
  BY <1>1
<1>3. ASSUME NEW i \in 1 .. n, i - 1 \in P PROVE i \in P
  BY <1>1, <1>3
<1>4. 0 .. n \subseteq P
  <2> HIDE DEF P
  <2> QED
    BY <1>2, <1>3, UpTo
<1> QED
  BY <1>1, <1>4

\* What KeepOnly leaves comes from the positions kept, each of them once and in
\* order.
LEMMA KeepOnlyRight ==
  ASSUME NEW s, IsSeq(s), NEW S
  PROVE  /\ IsSeq(KeepOnly(s, S))
         /\ Len(KeepOnly(s, S)) <= Len(s)
         /\ \A k \in 1 .. Len(s) : k \notin S => Len(KeepOnly(s, S)) < Len(s)
         /\ \E g \in [1 .. Len(KeepOnly(s, S)) -> 1 .. Len(s)] :
              /\ \A i, j \in 1 .. Len(KeepOnly(s, S)) : i < j => g[i] < g[j]
              /\ \A i \in 1 .. Len(KeepOnly(s, S)) : KeepOnly(s, S)[i] = s[g[i]] /\ g[i] \in S
              /\ \A k \in 1 .. Len(s) : k \in S => \E i \in 1 .. Len(KeepOnly(s, S)) : g[i] = k
<1> DEFINE n == Len(s)
<1>1. n \in Nat /\ n = Len(s)
  BY SeqDomain
<1> HIDE DEF n
<1>2. PICK f : /\ f[0] = <<>>
               /\ \A i \in 1 .. n : f[i] = IF i \in S THEN Append(f[i - 1], s[i]) ELSE f[i - 1]
               /\ KeepOnly(s, S) = f[n]
  BY <1>1, KeepOnlySteps
<1> DEFINE Incr(g, d) == \A i, j \in 1 .. Len(d) : i < j => g[i] < g[j]
           Own(g, d) == \A i \in 1 .. Len(d) : d[i] = s[g[i]] /\ g[i] \in S
           All(g, d, m) == \A k \in 1 .. m : k \in S => \E i \in 1 .. Len(d) : g[i] = k
           Short(d, m) == Len(d) <= m /\ \A k \in 1 .. m : k \notin S => Len(d) < m
           Right(d, m) == /\ IsSeq(d) /\ Short(d, m)
                          /\ \E g \in [1 .. Len(d) -> 1 .. m] : Incr(g, d) /\ Own(g, d) /\ All(g, d, m)
           P == {m \in 0 .. n : Right(f[m], m)}
<1>3. 0 \in P
  <2>1. Len(f[0]) = 0 /\ IsSeq(f[0])
    BY <1>2 DEF IsSeq
  <2>2. \E g : g \in [1 .. 0 -> 1 .. 0]
    <3> DEFINE g == [i \in 1 .. 0 |-> i]
    <3>1. g \in [1 .. 0 -> 1 .. 0]
      OBVIOUS
    <3> QED
      BY <3>1
  <2>3. PICK g : g \in [1 .. 0 -> 1 .. 0]
    BY <2>2
  <2>4. Incr(g, f[0]) /\ Own(g, f[0]) /\ All(g, f[0], 0) /\ Short(f[0], 0)
    BY <2>1
  <2>5. g \in [1 .. Len(f[0]) -> 1 .. 0]
    BY <2>1, <2>3
  <2>6. Right(f[0], 0)
    <3> HIDE DEF Incr, Own, All, Short
    <3> QED
      BY <2>1, <2>4, <2>5
  <2> HIDE DEF Right
  <2> QED
    BY <1>1, <2>6
<1>4. ASSUME NEW m \in 1 .. n, m - 1 \in P PROVE m \in P
  <2> DEFINE d == f[m - 1]
  <2>0. m \in Nat /\ m - 1 \in Nat
    BY <1>1
  <2>1. IsSeq(d) /\ Short(d, m - 1) /\ Len(d) \in Nat
    BY <1>4, SeqDomain
  <2>2. PICK g \in [1 .. Len(d) -> 1 .. m - 1] : Incr(g, d) /\ Own(g, d) /\ All(g, d, m - 1)
    BY <1>4
  <2> HIDE DEF d
  <2>3. CASE m \notin S
    <3>1. f[m] = d
      BY <1>2, <2>3 DEF d
    <3>2. Short(d, m)
      BY <2>0, <2>1
    <3>3. g \in [1 .. Len(d) -> 1 .. m]
      BY <2>0, <2>2
    <3>4. All(g, d, m)
      <4>1. \A k \in 1 .. m : k \in S => k \in 1 .. m - 1
        BY <2>0, <2>3
      <4> QED
        BY <2>2, <4>1
    <3> HIDE DEF Incr, Own, All, Short
    <3> QED
      BY <2>1, <2>2, <3>1, <3>2, <3>3, <3>4
  <2>4. CASE m \in S
    <3> DEFINE e == Append(d, s[m])
    <3>1. f[m] = e
      BY <1>2, <2>4 DEF d
    <3>2. /\ IsSeq(e) /\ Len(e) = Len(d) + 1 /\ e[Len(d) + 1] = s[m]
          /\ \A k \in 1 .. Len(d) : e[k] = d[k]
      BY <2>1, AppendIs
    <3> HIDE DEF e
    <3> DEFINE h == [i \in 1 .. Len(e) |-> IF i = Len(e) THEN m ELSE g[i]]
    <3>3. /\ h \in [1 .. Len(e) -> 1 .. m] /\ h[Len(e)] = m
          /\ \A i \in 1 .. Len(d) : h[i] = g[i] /\ g[i] \in 1 .. m - 1
      BY <2>0, <2>1, <2>2, <3>2
    <3> HIDE DEF h
    <3>4. Incr(h, e)
      <4> SUFFICES ASSUME NEW i \in 1 .. Len(e), NEW j \in 1 .. Len(e), i < j
                   PROVE  h[i] < h[j]
        OBVIOUS
      <4>1. i \in 1 .. Len(d) /\ (j = Len(e) \/ j \in 1 .. Len(d))
        BY <2>1, <3>2
      <4>2. CASE j = Len(e)
        BY <2>0, <3>3, <4>1, <4>2
      <4>3. CASE j \in 1 .. Len(d)
        BY <2>2, <3>3, <4>1, <4>3
      <4> QED
        BY <4>1, <4>2, <4>3
    <3>5. Own(h, e)
      <4> SUFFICES ASSUME NEW i \in 1 .. Len(e)
                   PROVE  e[i] = s[h[i]] /\ h[i] \in S
        OBVIOUS
      <4>1. i = Len(e) \/ i \in 1 .. Len(d)
        BY <2>1, <3>2
      <4> QED
        BY <2>2, <2>4, <3>2, <3>3, <4>1
    <3>6. All(h, e, m)
      <4> SUFFICES ASSUME NEW k \in 1 .. m, k \in S
                   PROVE  \E i \in 1 .. Len(e) : h[i] = k
        OBVIOUS
      <4>1. CASE k = m
        BY <2>1, <3>2, <3>3, <4>1
      <4>2. CASE k # m
        <5>1. k \in 1 .. m - 1
          BY <2>0, <4>2
        <5>2. PICK i \in 1 .. Len(d) : g[i] = k
          BY <2>2, <5>1
        <5>3. i \in 1 .. Len(e)
          BY <2>1, <3>2
        <5> QED
          BY <3>3, <5>2, <5>3
      <4> QED
        BY <4>1, <4>2
    <3>7. Short(e, m)
      BY <2>0, <2>1, <2>4, <3>2
    <3> HIDE DEF Incr, Own, All, Short
    <3> QED
      BY <3>1, <3>2, <3>3, <3>4, <3>5, <3>6, <3>7
  <2> QED
    BY <2>3, <2>4
<1>5. n \in P
  <2> HIDE DEF P
  <2>1. 0 .. n \subseteq P
    BY <1>1, <1>3, <1>4, UpTo
  <2> QED
    BY <1>1, <2>1
<1>6. Right(KeepOnly(s, S), n)
  <2> HIDE DEF Right
  <2> QED
    BY <1>2, <1>5
<1> QED
  BY <1>6 DEF n

\* The empty sequence has no elements.
LEMMA EmptyIs ==
  IsSeq(<<>>) /\ Len(<<>>) = 0
BY DEF IsSeq

\* Sequences of one length with the same elements are the same.
LEMMA SeqsEqual ==
  ASSUME NEW s, IsSeq(s), NEW t, IsSeq(t), Len(s) = Len(t), \A k \in 1 .. Len(s) : s[k] = t[k]
  PROVE  s = t
<1>1. s = [k \in 1 .. Len(s) |-> s[k]] /\ t = [k \in 1 .. Len(s) |-> t[k]]
  BY DEF IsSeq
<1>2. [k \in 1 .. Len(s) |-> s[k]] = [k \in 1 .. Len(s) |-> t[k]]
  OBVIOUS
<1> QED
  BY <1>1, <1>2

\* Keeping every position changes nothing.
LEMMA KeepOnlyAll ==
  ASSUME NEW s, IsSeq(s), NEW S, DOMAIN s \subseteq S
  PROVE  KeepOnly(s, S) = s
<1> DEFINE n == Len(s)
<1>1. n \in Nat /\ n = Len(s) /\ DOMAIN s = 1 .. n
  BY SeqDomain
<1> HIDE DEF n
<1>2. PICK f : /\ f[0] = <<>>
               /\ \A i \in 1 .. n : f[i] = IF i \in S THEN Append(f[i - 1], s[i]) ELSE f[i - 1]
               /\ KeepOnly(s, S) = f[n]
  BY <1>1, KeepOnlySteps
<1> DEFINE P == {m \in 0 .. n : IsSeq(f[m]) /\ Len(f[m]) = m /\ \A k \in 1 .. m : f[m][k] = s[k]}
<1>3. 0 \in P
  BY <1>1, <1>2 DEF IsSeq
<1>4. ASSUME NEW m \in 1 .. n, m - 1 \in P PROVE m \in P
  <2>1. f[m] = Append(f[m - 1], s[m])
    BY <1>1, <1>2
  <2>2. IsSeq(f[m - 1]) /\ Len(f[m - 1]) = m - 1 /\ \A k \in 1 .. m - 1 : f[m - 1][k] = s[k]
    BY <1>4
  <2>3. /\ IsSeq(f[m]) /\ Len(f[m]) = m - 1 + 1 /\ f[m][m - 1 + 1] = s[m]
        /\ \A k \in 1 .. m - 1 : f[m][k] = f[m - 1][k]
    BY <2>1, <2>2, AppendIs
  <2>4. m \in Nat
    BY <1>1
  <2> QED
    BY <2>2, <2>3, <2>4
<1>5. n \in P
  <2> HIDE DEF P
  <2>1. 0 .. n \subseteq P
    BY <1>1, <1>3, <1>4, UpTo
  <2> QED
    BY <1>1, <2>1
<1> QED
  BY <1>1, <1>2, <1>5, SeqsEqual

\* How many elements are left depends on the positions only.
LEMMA KeepOnlyLen ==
  ASSUME NEW s, IsSeq(s), NEW t, IsSeq(t), Len(s) = Len(t), NEW S
  PROVE  Len(KeepOnly(s, S)) = Len(KeepOnly(t, S))
<1> DEFINE n == Len(s)
<1>1. n \in Nat /\ n = Len(s) /\ n = Len(t)
  BY SeqDomain
<1> HIDE DEF n
<1>2. PICK f : /\ f[0] = <<>>
               /\ \A i \in 1 .. n : f[i] = IF i \in S THEN Append(f[i - 1], s[i]) ELSE f[i - 1]
               /\ KeepOnly(s, S) = f[n]
  BY <1>1, KeepOnlySteps
<1>3. PICK g : /\ g[0] = <<>>
               /\ \A i \in 1 .. n : g[i] = IF i \in S THEN Append(g[i - 1], t[i]) ELSE g[i - 1]
               /\ KeepOnly(t, S) = g[n]
  BY <1>1, KeepOnlySteps
<1> DEFINE P == {m \in 0 .. n : IsSeq(f[m]) /\ IsSeq(g[m]) /\ Len(f[m]) = Len(g[m])}
<1>4. 0 \in P
  <2>1. IsSeq(f[0]) /\ IsSeq(g[0]) /\ Len(f[0]) = Len(g[0])
    BY <1>2, <1>3, EmptyIs
  <2> QED
    BY <1>1, <2>1
<1>5. ASSUME NEW m \in 1 .. n, m - 1 \in P PROVE m \in P
  <2>1. IsSeq(f[m - 1]) /\ IsSeq(g[m - 1]) /\ Len(f[m - 1]) = Len(g[m - 1])
    BY <1>5
  <2>2. CASE m \in S
    <3>1. f[m] = Append(f[m - 1], s[m]) /\ g[m] = Append(g[m - 1], t[m])
      BY <1>2, <1>3, <2>2
    <3>2. /\ IsSeq(f[m]) /\ IsSeq(g[m])
          /\ Len(f[m]) = Len(f[m - 1]) + 1 /\ Len(g[m]) = Len(g[m - 1]) + 1
      BY <2>1, <3>1, AppendIs
    <3> QED
      BY <2>1, <3>2
  <2>3. CASE m \notin S
    BY <1>2, <1>3, <2>1, <2>3
  <2> QED
    BY <2>2, <2>3
<1>6. n \in P
  <2> HIDE DEF P
  <2>1. 0 .. n \subseteq P
    BY <1>1, <1>4, <1>5, UpTo
  <2> QED
    BY <1>1, <2>1
<1> QED
  BY <1>2, <1>3, <1>6

\* FlattenSeq joins the sequences one by one.
LEMMA FlattenSteps ==
  ASSUME NEW seqs, NEW n \in Nat, n = Len(seqs), n # 0
  PROVE  \E f : /\ f[1] = seqs[1]
                /\ \A i \in 2 .. n : f[i] = f[i - 1] \o seqs[i]
                /\ FlattenSeq(seqs) = f[n]
<1> DEFINE Following(x, i) == x \o seqs[i]
           Step(h, i) == IF i = 1 THEN seqs[i] ELSE Following(h[i - 1], i)
           P == {m \in 0 .. n : \E h : h = [i \in 1 .. m |-> Step(h, i)]}
           f == CHOOSE h : h = [i \in 1 .. n |-> Step(h, i)]
<1>1. 0 \in P
  <2> DEFINE h == [i \in 1 .. 0 |-> seqs[1]]
  <2>1. h = [i \in 1 .. 0 |-> Step(h, i)]
    OBVIOUS
  <2> HIDE DEF h
  <2>2. \E g : g = [i \in 1 .. 0 |-> Step(g, i)]
    BY <2>1
  <2>3. 0 \in 0 .. n
    OBVIOUS
  <2> HIDE DEF Step
  <2> QED
    BY <2>2, <2>3, Zenon
<1>2. ASSUME NEW m \in 1 .. n, m - 1 \in P PROVE m \in P
  <2> HIDE DEF Following
  <2>1. PICK h : h = [i \in 1 .. m - 1 |-> Step(h, i)]
    BY <1>2
  <2> DEFINE g == [i \in 1 .. m |-> IF i = m THEN Step(h, m) ELSE h[i]]
  <2>2. /\ g = [i \in 1 .. m |-> g[i]] /\ g[m] = Step(h, m)
        /\ \A i \in 1 .. m - 1 : g[i] = h[i]
    OBVIOUS
  <2> HIDE DEF g
  <2>3. ASSUME NEW i \in 1 .. m PROVE g[i] = Step(g, i)
    <3>1. CASE i = m
      <4>1. m = 1 \/ m - 1 \in 1 .. m - 1
        OBVIOUS
      <4>2. m = 1 \/ h[m - 1] = g[m - 1]
        BY <2>2, <4>1
      <4> QED
        BY <2>2, <3>1, <4>1, <4>2
    <3>2. CASE i < m
      <4>1. i \in 1 .. m - 1 /\ (i # 1 => i - 1 \in 1 .. m - 1)
        BY <3>2
      <4>2. h[i] = Step(h, i)
        <5> HIDE DEF Step
        <5> QED
          BY <2>1, <4>1
      <4> QED
        BY <2>2, <4>1, <4>2
    <3> HIDE DEF Step
    <3> QED
      BY <3>1, <3>2
  <2>4. g = [i \in 1 .. m |-> Step(g, i)]
    <3> HIDE DEF Step
    <3> QED
      BY <2>2, <2>3
  <2> QED
    BY <2>4
<1>3. f = [i \in 1 .. n |-> Step(f, i)]
  <2>1. 0 .. n \subseteq P
    <3> HIDE DEF P
    <3> QED
      BY <1>1, <1>2, UpTo
  <2>2. n \in P
    <3> HIDE DEF P
    <3> QED
      BY <2>1
  <2> QED
    BY <2>2
<1>4. FlattenSeq(seqs) = f[n]
  BY DEF FlattenSeq
<1>5. f[1] = seqs[1] /\ \A i \in 2 .. n : f[i] = Following(f[i - 1], i)
  <2> HIDE DEF f, Following
  <2> QED
    BY <1>3
<1> HIDE DEF f
<1> QED
  BY <1>4, <1>5

\* F is the pieces of p one after the other: w says which piece an element of F
\* is from, x its place in it.
Laid(p, F, w, x) ==
  /\ w \in [1 .. Len(F) -> 1 .. Len(p)] /\ x \in [1 .. Len(F) -> Nat]
  /\ \A q \in 1 .. Len(F) : x[q] \in 1 .. Len(p[w[q]]) /\ F[q] = p[w[q]][x[q]]
  /\ \A q, r \in 1 .. Len(F) : q < r => w[q] < w[r] \/ (w[q] = w[r] /\ x[q] < x[r])
  /\ \A k \in 1 .. Len(p) : \A i \in 1 .. Len(p[k]) : \E q \in 1 .. Len(F) : w[q] = k /\ x[q] = i

\* FlattenSeq lays out the elements of all sequences, each once and in order.
LEMMA FlattenRight ==
  ASSUME NEW p, IsSeq(p), \A k \in 1 .. Len(p) : IsSeq(p[k])
  PROVE  IsSeq(FlattenSeq(p)) /\ \E w, x : Laid(p, FlattenSeq(p), w, x)
<1> DEFINE n == Len(p)
<1>1. n \in Nat /\ n = Len(p)
  BY SeqDomain
<1> HIDE DEF n
<1> DEFINE Typed(F, m, w, x) == w \in [1 .. Len(F) -> 1 .. m] /\ x \in [1 .. Len(F) -> Nat]
           Own(F, w, x) == \A q \in 1 .. Len(F) : x[q] \in 1 .. Len(p[w[q]]) /\ F[q] = p[w[q]][x[q]]
           Order(F, w, x) == \A q, r \in 1 .. Len(F) :
                               q < r => w[q] < w[r] \/ (w[q] = w[r] /\ x[q] < x[r])
           All(F, m, w, x) == \A k \in 1 .. m : \A i \in 1 .. Len(p[k]) :
                                \E q \in 1 .. Len(F) : w[q] = k /\ x[q] = i
           Right(F, m) == IsSeq(F) /\ \E w, x : Typed(F, m, w, x) /\ Own(F, w, x) /\ Order(F, w, x) /\ All(F, m, w, x)
<1>2. Right(<<>>, 0)
  <2> DEFINE w == [q \in 1 .. 0 |-> q]
  <2>1. w \in [1 .. 0 -> 1 .. 0] /\ w \in [1 .. 0 -> Nat]
    OBVIOUS
  <2> HIDE DEF w
  <2>2. IsSeq(<<>>) /\ Len(<<>>) = 0
    BY EmptyIs
  <2>3. Typed(<<>>, 0, w, w) /\ Own(<<>>, w, w) /\ Order(<<>>, w, w) /\ All(<<>>, 0, w, w)
    BY <2>1, <2>2
  <2> HIDE DEF Typed, Own, Order, All
  <2> QED
    BY <2>2, <2>3
<1>3. ASSUME NEW m \in 1 .. n, NEW D, Right(D, m - 1) PROVE Right(D \o p[m], m)
  <2> DEFINE F == D \o p[m]
             d == Len(D)
  <2>1. m \in Nat /\ m - 1 \in Nat /\ IsSeq(p[m])
    BY <1>1
  <2>2. IsSeq(D) /\ d \in Nat /\ d = Len(D) /\ Len(p[m]) \in Nat
    BY <1>3, <2>1, SeqDomain
  <2>3. /\ IsSeq(F) /\ Len(F) = d + Len(p[m])
        /\ \A k \in 1 .. d : F[k] = D[k]
        /\ \A k \in 1 .. Len(p[m]) : F[d + k] = p[m][k]
    BY <2>1, <2>2, ConcatIs
  <2>4. PICK w, x : Typed(D, m - 1, w, x) /\ Own(D, w, x) /\ Order(D, w, x) /\ All(D, m - 1, w, x)
    BY <1>3
  <2> HIDE DEF F, d
  <2> DEFINE v == [q \in 1 .. Len(F) |-> IF q <= d THEN w[q] ELSE m]
             y == [q \in 1 .. Len(F) |-> IF q <= d THEN x[q] ELSE q - d]
  <2>5. /\ v \in [1 .. Len(F) -> 1 .. m] /\ y \in [1 .. Len(F) -> Nat]
        /\ \A q \in 1 .. d : v[q] = w[q] /\ y[q] = x[q] /\ w[q] \in 1 .. m - 1 /\ q \in 1 .. Len(F)
        /\ \A q \in 1 .. Len(F) : q \notin 1 .. d => v[q] = m /\ y[q] = q - d /\ q - d \in 1 .. Len(p[m])
    <3>1. \A q \in 1 .. Len(F) : q \notin 1 .. d => q - d \in 1 .. Len(p[m]) /\ ~(q <= d)
      BY <2>2, <2>3
    <3>2. \A q \in 1 .. d : q \in 1 .. Len(F) /\ q <= d
      BY <2>2, <2>3
    <3>3. \A q \in 1 .. d : w[q] \in 1 .. m - 1 /\ x[q] \in Nat
      BY <2>2, <2>4
    <3>4. \A q \in 1 .. Len(F) : v[q] \in 1 .. m /\ y[q] \in Nat
      <4> SUFFICES ASSUME NEW q \in 1 .. Len(F) PROVE v[q] \in 1 .. m /\ y[q] \in Nat
        OBVIOUS
      <4>1. CASE q \in 1 .. d
        BY <2>1, <3>2, <3>3, <4>1
      <4>2. CASE q \notin 1 .. d
        BY <2>1, <2>2, <3>1, <4>2
      <4> QED
        BY <4>1, <4>2
    <3>5. v \in [1 .. Len(F) -> 1 .. m] /\ y \in [1 .. Len(F) -> Nat]
      BY <3>4
    <3>6. \A q \in 1 .. d : v[q] = w[q] /\ y[q] = x[q]
      BY <3>2
    <3>7. \A q \in 1 .. Len(F) : q \notin 1 .. d => v[q] = m /\ y[q] = q - d
      BY <3>1
    <3> HIDE DEF v, y
    <3> QED
      BY <3>1, <3>2, <3>3, <3>5, <3>6, <3>7
  <2> HIDE DEF v, y
  <2>6. Own(F, v, y)
    <3> SUFFICES ASSUME NEW q \in 1 .. Len(F)
                 PROVE  y[q] \in 1 .. Len(p[v[q]]) /\ F[q] = p[v[q]][y[q]]
      OBVIOUS
    <3>1. CASE q \in 1 .. d
      BY <2>2, <2>3, <2>4, <2>5, <3>1
    <3>2. CASE q \notin 1 .. d
      <4>1. F[d + (q - d)] = p[m][q - d] /\ d + (q - d) = q
        BY <2>2, <2>3, <2>5, <3>2
      <4> QED
        BY <2>5, <3>2, <4>1
    <3> QED
      BY <3>1, <3>2
  <2>7. Order(F, v, y)
    <3> SUFFICES ASSUME NEW q \in 1 .. Len(F), NEW r \in 1 .. Len(F), q < r
                 PROVE  v[q] < v[r] \/ (v[q] = v[r] /\ y[q] < y[r])
      OBVIOUS
    <3>0. Len(F) \in Nat
      BY <2>2, <2>3
    <3>1. CASE r \in 1 .. d
      <4>1. q \in 1 .. d
        BY <2>2, <3>0, <3>1
      <4> QED
        BY <2>2, <2>4, <2>5, <3>1, <4>1
    <3>2. CASE q \in 1 .. d /\ r \notin 1 .. d
      BY <2>1, <2>5, <3>2
    <3>3. CASE q \notin 1 .. d
      <4>1. r \notin 1 .. d
        BY <2>2, <3>0, <3>3
      <4> QED
        BY <2>2, <2>5, <3>0, <3>3, <4>1
    <3> QED
      BY <3>1, <3>2, <3>3
  <2>8. All(F, m, v, y)
    <3> SUFFICES ASSUME NEW k \in 1 .. m, NEW i \in 1 .. Len(p[k])
                 PROVE  \E q \in 1 .. Len(F) : v[q] = k /\ y[q] = i
      OBVIOUS
    <3>1. CASE k = m
      <4>1. d + i \in 1 .. Len(F) /\ d + i \notin 1 .. d /\ d + i - d = i
        BY <2>2, <2>3, <3>1
      <4>2. PICK q \in 1 .. Len(F) : q \notin 1 .. d /\ q - d = i
        BY <2>2, <3>1, <4>1
      <4> QED
        BY <2>5, <3>1, <4>2
    <3>2. CASE k # m
      <4>1. k \in 1 .. m - 1
        BY <2>1, <3>2
      <4>2. PICK q \in 1 .. d : w[q] = k /\ x[q] = i
        BY <2>2, <2>4, <4>1
      <4> QED
        BY <2>5, <4>2
    <3> QED
      BY <3>1, <3>2
  <2>9. Typed(F, m, v, y)
    BY <2>5
  <2>10. Right(F, m)
    <3> HIDE DEF Typed, Own, Order, All
    <3> QED
      BY <2>3, <2>6, <2>7, <2>8, <2>9
  <2> HIDE DEF Right
  <2> QED
    BY <2>10 DEF F
<1>4. ASSUME n = 0 PROVE Right(FlattenSeq(p), n)
  <2>1. p = <<>>
    <3>1. Len(p) = 0 /\ IsSeq(<<>>) /\ Len(<<>>) = 0 /\ \A k \in 1 .. Len(p) : p[k] = <<>>[k]
      BY <1>1, <1>4, EmptyIs
    <3> QED
      BY <3>1, SeqsEqual
  <2>2. FlattenSeq(p) = p
    BY <1>1, <1>4 DEF FlattenSeq
  <2> HIDE DEF Right
  <2> QED
    BY <1>2, <1>4, <2>1, <2>2
<1>5. ASSUME n # 0 PROVE Right(FlattenSeq(p), n)
  <2>1. PICK f : /\ f[1] = p[1] /\ \A i \in 2 .. n : f[i] = f[i - 1] \o p[i]
                 /\ FlattenSeq(p) = f[n]
    BY <1>1, <1>5, FlattenSteps
  <2> DEFINE P == {m \in 0 .. n : m = 0 \/ Right(f[m], m)}
  <2>2. 0 \in P
    BY <1>1
  <2>3. ASSUME NEW m \in 1 .. n, m - 1 \in P PROVE m \in P
    <3> HIDE DEF Right
    <3>1. CASE m = 1
      <4>1. Right(<<>> \o p[1], 1)
        <5>1. Right(<<>>, 1 - 1) /\ 1 \in 1 .. n
          BY <1>1, <1>2, <3>1
        <5> QED
          BY <1>3, <5>1
      <4>2. <<>> \o p[1] = p[1]
        <5>1. IsSeq(p[1]) /\ IsSeq(<<>>) /\ Len(<<>>) = 0 /\ Len(p[1]) \in Nat
          BY <1>1, <3>1, EmptyIs, SeqDomain
        <5>2. /\ IsSeq(<<>> \o p[1]) /\ Len(<<>> \o p[1]) = 0 + Len(p[1])
              /\ \A k \in 1 .. Len(p[1]) : (<<>> \o p[1])[0 + k] = p[1][k]
          BY <5>1, ConcatIs
        <5> QED
          BY <5>1, <5>2, SeqsEqual
      <4> QED
        BY <2>1, <3>1, <4>1, <4>2
    <3>2. CASE m # 1
      <4>1. m \in 2 .. n /\ Right(f[m - 1], m - 1)
        BY <1>1, <2>3, <3>2
      <4>2. Right(f[m - 1] \o p[m], m)
        BY <1>3, <4>1
      <4>3. f[m] = f[m - 1] \o p[m]
        BY <2>1, <4>1
      <4>4. Right(f[m], m)
        BY <4>2, <4>3
      <4> QED
        BY <4>4
    <3> QED
      BY <3>1, <3>2
  <2>4. n \in P
    <3> HIDE DEF P
    <3>1. 0 .. n \subseteq P
      BY <1>1, <2>2, <2>3, UpTo
    <3> QED
      BY <1>1, <3>1
  <2> HIDE DEF Right
  <2> QED
    BY <1>5, <2>1, <2>4
<1>6. Right(FlattenSeq(p), n)
  <2> HIDE DEF Right
  <2> QED
    BY <1>4, <1>5
<1> QED
  <2>1. PICK w, x : /\ Typed(FlattenSeq(p), n, w, x) /\ Own(FlattenSeq(p), w, x)
                    /\ Order(FlattenSeq(p), w, x) /\ All(FlattenSeq(p), n, w, x)
    <3> HIDE DEF Typed, Own, Order, All
    <3> QED
      BY <1>6
  <2>2. Laid(p, FlattenSeq(p), w, x)
    BY <2>1 DEF Laid, n
  <2> QED
    BY <1>6, <2>2

-----------------------------------------------------------------------------
(* What the smallest element, parameters and reachability are. *)
\* Min is the smallest element.
LEMMA MinIn ==
  ASSUME NEW n \in Nat, NEW S, S \subseteq 1 .. n, S # {}
  PROVE  Min(S) \in S /\ \A y \in S : Min(S) <= y
<1>1. \E x \in S : \A y \in S : x <= y
  <2> SUFFICES ASSUME ~ \E x \in S : \A y \in S : x <= y PROVE FALSE
    OBVIOUS
  <2> DEFINE P == {m \in 0 .. n : \A k \in 1 .. m : k \notin S}
  <2>1. 0 \in P
    OBVIOUS
  <2>2. ASSUME NEW m \in 1 .. n, m - 1 \in P PROVE m \in P
    <3>1. \A k \in S : k >= m
      BY <2>2
    <3>2. m \notin S
      BY <3>1
    <3> QED
      BY <3>1, <3>2
  <2>3. 0 .. n \subseteq P
    <3> HIDE DEF P
    <3> QED
      BY <2>1, <2>2, UpTo
  <2>4. n \in P
    BY <2>3
  <2> QED
    BY <2>4
<1> QED
  BY <1>1 DEF Min

\* Without parameters of two words there are as many words as parameters.
LEMMA ParamWordsLen ==
  ASSUME NEW f, IsSeq(f.params), f.wide = {}
  PROVE  Len(ParamWords(f)) = Len(f.params)
<1> DEFINE n == Len(f.params)
           p == [k \in DOMAIN f.params |-> <<<<f.params[k], 0>>>>]
           F == FlattenSeq(p)
<1>1. n \in Nat /\ n = Len(f.params) /\ DOMAIN f.params = 1 .. n
  BY SeqDomain
<1>2. ParamWords(f) = F
  BY DEF ParamWords
<1>3. p = [k \in 1 .. n |-> p[k]] /\ DOMAIN p = 1 .. n /\ \A k \in 1 .. n : p[k] = <<<<f.params[k], 0>>>>
  BY <1>1
<1> HIDE DEF n, p
<1>4. IsSeq(p) /\ Len(p) = n
  BY <1>1, <1>3, SeqShaped
<1>5. \A k \in 1 .. n : IsSeq(p[k]) /\ Len(p[k]) = 1
  <2>1. ASSUME NEW e PROVE IsSeq(<<e>>) /\ Len(<<e>>) = 1
    <3>1. e \in {e} /\ <<e>> \in Seq({e})
      OBVIOUS
    <3> QED
      BY <3>1, SeqIs
  <2> QED
    BY <1>3, <2>1
<1>6. IsSeq(F) /\ \E w, x : Laid(p, F, w, x)
  BY <1>4, <1>5, FlattenRight
<1>7. PICK w, x : Laid(p, F, w, x)
  BY <1>6
<1> HIDE DEF F
<1>8. Len(F) \in Nat
  BY <1>6, SeqDomain
<1>9. w \in [1 .. Len(F) -> 1 .. n] /\ \A q \in 1 .. Len(F) : x[q] = 1
  <2>1. w \in [1 .. Len(F) -> 1 .. n] /\ \A q \in 1 .. Len(F) : x[q] \in 1 .. Len(p[w[q]])
    BY <1>4, <1>7 DEF Laid
  <2>2. \A q \in 1 .. Len(F) : Len(p[w[q]]) = 1
    BY <1>5, <2>1
  <2>3. \A q \in 1 .. Len(F) : x[q] \in 1 .. 1
    BY <2>1, <2>2
  <2>4. \A q \in 1 .. Len(F) : x[q] = 1
    BY <2>3
  <2> QED
    BY <2>1, <2>4
<1>10. \A q, r \in 1 .. Len(F) : q < r => w[q] < w[r]
  BY <1>7, <1>9 DEF Laid
<1>11. Len(F) <= n
  BY <1>1, <1>8, <1>9, <1>10, Increasing
<1>12. \A k \in 1 .. n : \E q \in 1 .. Len(F) : w[q] = k
  <2> SUFFICES ASSUME NEW k \in 1 .. n PROVE \E q \in 1 .. Len(F) : w[q] = k
    OBVIOUS
  <2>1. 1 \in 1 .. Len(p[k])
    BY <1>5
  <2> QED
    BY <1>4, <1>7, <2>1 DEF Laid
<1> DEFINE u == [k \in 1 .. n |-> CHOOSE q \in 1 .. Len(F) : w[q] = k]
<1>13. \A k \in 1 .. n : u[k] \in 1 .. Len(F) /\ w[u[k]] = k
  BY <1>12
<1>14. u \in [1 .. n -> 1 .. Len(F)]
  BY <1>12
<1> HIDE DEF u
<1>15. \A k, l \in 1 .. n : k < l => u[k] < u[l]
  BY <1>8, <1>10, <1>13
<1>16. n <= Len(F)
  BY <1>1, <1>8, <1>14, <1>15, Increasing
<1> QED
  BY <1>1, <1>2, <1>8, <1>11, <1>16

\* What ReachableFrom has found after one more step.
NextFound(edges, y) ==
  LET new == (UNION {edges[m] : m \in y.last \cap DOMAIN edges}) \ y.all
  IN  IF y.last = {} THEN y ELSE [all |-> y.all \cup new, last |-> new]

\* ReachableFrom is what is found in so many rounds.
LEMMA ReachableSteps ==
  ASSUME NEW edges, NEW S, NEW n \in Nat, n = Cardinality(DOMAIN edges)
  PROVE  \E f : /\ f[0] = [all |-> S, last |-> S]
                /\ \A i \in 1 .. n : f[i] = NextFound(edges, f[i - 1])
                /\ ReachableFrom(edges, S) = f[n].all
<1> DEFINE Following(x, i) == NextFound(edges, x)
           Step(h, i) == IF i = 0 THEN [all |-> S, last |-> S] ELSE Following(h[i - 1], i)
           P == {m \in 0 .. n : \E h : h = [i \in 0 .. m |-> Step(h, i)]}
           f == CHOOSE h : h = [i \in 0 .. n |-> Step(h, i)]
<1>1. 0 \in P
  <2> DEFINE h == [i \in 0 .. 0 |-> [all |-> S, last |-> S]]
  <2>1. h = [i \in 0 .. 0 |-> Step(h, i)]
    OBVIOUS
  <2> HIDE DEF h
  <2>2. \E g : g = [i \in 0 .. 0 |-> Step(g, i)]
    BY <2>1
  <2> HIDE DEF Step
  <2> QED
    BY <2>2
<1>2. ASSUME NEW m \in 1 .. n, m - 1 \in P PROVE m \in P
  <2> HIDE DEF Following
  <2>1. PICK h : h = [i \in 0 .. m - 1 |-> Step(h, i)]
    BY <1>2
  <2> DEFINE g == [i \in 0 .. m |-> IF i = m THEN Following(h[m - 1], m) ELSE h[i]]
  <2>2. /\ g = [i \in 0 .. m |-> g[i]] /\ g[m] = Following(h[m - 1], m)
        /\ \A i \in 0 .. m - 1 : g[i] = h[i]
    OBVIOUS
  <2> HIDE DEF g
  <2>3. ASSUME NEW i \in 0 .. m PROVE g[i] = Step(g, i)
    <3>1. CASE i = m
      <4>1. m - 1 \in 0 .. m - 1 /\ m # 0
        OBVIOUS
      <4>2. h[m - 1] = g[m - 1]
        BY <2>2, <4>1
      <4> QED
        BY <2>2, <3>1, <4>1, <4>2
    <3>2. CASE i < m
      <4>1. i \in 0 .. m - 1 /\ (i # 0 => i - 1 \in 0 .. m - 1)
        BY <3>2
      <4>2. h[i] = Step(h, i)
        <5> HIDE DEF Step
        <5> QED
          BY <2>1, <4>1
      <4> QED
        BY <2>2, <4>1, <4>2
    <3> HIDE DEF Step
    <3> QED
      BY <3>1, <3>2
  <2>4. g = [i \in 0 .. m |-> Step(g, i)]
    <3> HIDE DEF Step
    <3> QED
      BY <2>2, <2>3
  <2> QED
    BY <2>4
<1>3. f = [i \in 0 .. n |-> Step(f, i)]
  <2>1. 0 .. n \subseteq P
    <3> HIDE DEF P
    <3> QED
      BY <1>1, <1>2, UpTo
  <2>2. n \in P
    <3> HIDE DEF P
    <3> QED
      BY <2>1
  <2> QED
    BY <2>2
<1>4. ReachableFrom(edges, S) = f[n].all
  BY DEF ReachableFrom, NextFound
<1>5. f[0] = [all |-> S, last |-> S] /\ \A i \in 1 .. n : f[i] = Following(f[i - 1], i)
  <2> HIDE DEF f, Following
  <2>1. f[0] = Step(f, 0) /\ \A i \in 1 .. n : f[i] = Step(f, i) /\ i # 0
    <3> HIDE DEF Step
    <3> QED
      BY <1>3
  <2> QED
    BY <2>1
<1> HIDE DEF f
<1> QED
  BY <1>4, <1>5

\* The nodes started from are reached.
LEMMA RootsReachable ==
  ASSUME NEW edges, NEW S, Cardinality(DOMAIN edges) \in Nat
  PROVE  S \subseteq ReachableFrom(edges, S)
<1>1. SUFFICES ASSUME NEW n \in Nat, n = Cardinality(DOMAIN edges)
               PROVE  S \subseteq ReachableFrom(edges, S)
  OBVIOUS
<1>9. PICK f : /\ f[0] = [all |-> S, last |-> S]
               /\ \A i \in 1 .. n : f[i] = NextFound(edges, f[i - 1])
               /\ ReachableFrom(edges, S) = f[n].all
  BY <1>1, ReachableSteps, SMTT(30)
<1>3. ASSUME NEW y PROVE y.all \subseteq NextFound(edges, y).all
  BY DEF NextFound
<1> DEFINE P == {m \in 0 .. n : S \subseteq f[m].all}
<1>6. 0 \in P
  BY <1>1, <1>9
<1>4. ASSUME NEW m \in 1 .. n, m - 1 \in P PROVE m \in P
  <2>1. S \subseteq f[m - 1].all /\ f[m] = NextFound(edges, f[m - 1]) /\ m \in 0 .. n
    BY <1>4, <1>9
  <2>2. S \subseteq f[m].all
    BY <2>1, <1>3
  <2> QED
    BY <2>1, <2>2
<1>5. n \in P
  <2> HIDE DEF P
  <2>1. 0 .. n \subseteq P
    BY <1>1, <1>6, <1>4, UpTo
  <2> QED
    BY <1>1, <2>1
<1> QED
  BY <1>9, <1>5

-----------------------------------------------------------------------------
(* Code that is thinned: what every pass but threading and tail calls does. *)
IsIns(i) == i = Wide(i.op, i.dst, i.hi, i.sym, i.addr, i.args) /\ IsSeq(i.args)
IsCode(c) == IsSeq(c) /\ \A k \in 1 .. Len(c) : IsIns(c[k])

\* What no pass but branch threading makes anything else of.
Fixed == {"label"} \cup Jumps \cup Returns \cup Direct

\* j may stand where i stood; the instructions of F keep the number of their arguments.
Kin(F, i, j) ==
  /\ IsIns(j)
  /\ i.op \in Fixed \/ j.op \in Fixed => j.op = i.op /\ j.sym = i.sym
  /\ i.op \in F \cap Direct => Len(j.args) = Len(i.args)

Targeted(c, l) == \E k \in 1 .. Len(c) : c[k].op \in Jumps /\ c[k].sym = l

\* d is what is left of c, in order, with all labels that its jumps lead to.
ThinnedBy(F, c, d, g) ==
  /\ g \in [1 .. Len(d) -> 1 .. Len(c)]
  /\ \A i, j \in 1 .. Len(d) : i < j => g[i] < g[j]
  /\ \A i \in 1 .. Len(d) : Kin(F, c[g[i]], d[i])
  /\ \A k \in 1 .. Len(c) : c[k].op = "label" /\ Targeted(d, c[k].sym) => \E i \in 1 .. Len(d) : g[i] = k
Thinned(F, c, d) == IsCode(d) /\ \E g : ThinnedBy(F, c, d, g)

\* Instructions that are kin are labels, or jumps, both of them, with one name.
LEMMA FixedKept ==
  ASSUME NEW F, NEW i, NEW j, Kin(F, i, j)
  PROVE  /\ i.op = "label" <=> j.op = "label"
         /\ i.op \in Jumps <=> j.op \in Jumps
         /\ i.op \in {"label"} \cup Jumps => j.sym = i.sym
BY DEF Kin, Fixed, Jumps

\* Instructions replaced by their kin, or left alone, thin the code.
LEMMA MapThins ==
  ASSUME NEW F, NEW c, IsCode(c), NEW d, IsSeq(d), Len(d) = Len(c),
         \A k \in 1 .. Len(c) : Kin(F, c[k], d[k])
  PROVE  Thinned(F, c, d)
<1> DEFINE g == [k \in 1 .. Len(c) |-> k]
<1>1. Len(c) \in Nat
  BY SeqDomain DEF IsCode
<1>2. g \in [1 .. Len(d) -> 1 .. Len(c)] /\ \A k \in 1 .. Len(c) : g[k] = k
  OBVIOUS
<1> HIDE DEF g
<1>3. \A i, j \in 1 .. Len(d) : i < j => g[i] < g[j]
  BY <1>2
<1>4. \A i \in 1 .. Len(d) : Kin(F, c[g[i]], d[i])
  BY <1>2
<1>5. \A k \in 1 .. Len(c) : \E i \in 1 .. Len(d) : g[i] = k
  BY <1>2
<1>6. ThinnedBy(F, c, d, g)
  BY <1>2, <1>3, <1>4, <1>5 DEF ThinnedBy
<1>7. IsCode(d)
  BY DEF IsCode, Kin
<1> QED
  BY <1>6, <1>7 DEF Thinned

\* Nothing left out is thin enough.
LEMMA ThinnedSelf ==
  ASSUME NEW F, NEW c, IsCode(c)
  PROVE  Thinned(F, c, c)
<1>1. \A k \in 1 .. Len(c) : Kin(F, c[k], c[k])
  BY DEF IsCode, Kin
<1> QED
  BY <1>1, MapThins DEF IsCode

\* No jump leads where none led.
LEMMA TargetsLeft ==
  ASSUME NEW F, NEW c, NEW d, NEW g, ThinnedBy(F, c, d, g), NEW l, Targeted(d, l)
  PROVE  Targeted(c, l)
<1>1. PICK i \in 1 .. Len(d) : d[i].op \in Jumps /\ d[i].sym = l
  BY DEF Targeted
<1>2. g[i] \in 1 .. Len(c) /\ Kin(F, c[g[i]], d[i])
  BY <1>1 DEF ThinnedBy
<1>3. c[g[i]].op \in Jumps /\ c[g[i]].sym = l
  BY <1>1, <1>2, FixedKept
<1> QED
  BY <1>2, <1>3 DEF Targeted

\* What is left of what is left is left.
LEMMA ThinnedTrans ==
  ASSUME NEW F, NEW b, NEW c, NEW d, Thinned(F, b, c), Thinned(F, c, d)
  PROVE  Thinned(F, b, d)
<1>1. PICK g : ThinnedBy(F, b, c, g)
  BY DEF Thinned
<1>2. PICK h : ThinnedBy(F, c, d, h)
  BY DEF Thinned
<1> DEFINE e == [i \in 1 .. Len(d) |-> g[h[i]]]
<1>3. \A i \in 1 .. Len(d) : h[i] \in 1 .. Len(c) /\ g[h[i]] \in 1 .. Len(b)
  BY <1>1, <1>2 DEF ThinnedBy
<1>4. e \in [1 .. Len(d) -> 1 .. Len(b)] /\ \A i \in 1 .. Len(d) : e[i] = g[h[i]]
  BY <1>3
<1> HIDE DEF e
<1>5. \A i, j \in 1 .. Len(d) : i < j => e[i] < e[j]
  BY <1>1, <1>2, <1>3, <1>4 DEF ThinnedBy
<1>6. ASSUME NEW i \in 1 .. Len(d) PROVE Kin(F, b[e[i]], d[i])
  <2>1. Kin(F, b[g[h[i]]], c[h[i]]) /\ Kin(F, c[h[i]], d[i])
    BY <1>1, <1>2, <1>3 DEF ThinnedBy
  <2>2. Kin(F, b[g[h[i]]], d[i])
    <3>1. ASSUME NEW x, NEW y, NEW z, Kin(F, x, y), Kin(F, y, z) PROVE Kin(F, x, z)
      <4>1. x.op \in Fixed \/ z.op \in Fixed => z.op = x.op /\ z.sym = x.sym
        BY <3>1 DEF Kin
      <4>2. ASSUME x.op \in F \cap Direct PROVE Len(z.args) = Len(x.args)
        BY <3>1, <4>2 DEF Kin, Fixed
      <4> QED
        BY <3>1, <4>1, <4>2 DEF Kin
    <3> QED
      BY <2>1, <3>1
  <2> QED
    BY <1>4, <2>2
<1>7. ASSUME NEW k \in 1 .. Len(b), b[k].op = "label", Targeted(d, b[k].sym)
      PROVE  \E i \in 1 .. Len(d) : e[i] = k
  <2>1. Targeted(c, b[k].sym)
    BY <1>2, <1>7, TargetsLeft
  <2>2. PICK j \in 1 .. Len(c) : g[j] = k
    BY <1>1, <1>7, <2>1 DEF ThinnedBy
  <2>3. c[j].op = "label" /\ c[j].sym = b[k].sym
    <3>1. Kin(F, b[k], c[j])
      BY <1>1, <2>2 DEF ThinnedBy
    <3> QED
      BY <1>7, <3>1, FixedKept
  <2>4. PICK i \in 1 .. Len(d) : h[i] = j
    BY <1>2, <1>7, <2>3 DEF ThinnedBy
  <2> QED
    BY <1>4, <2>2, <2>4
<1>8. ThinnedBy(F, b, d, e)
  BY <1>4, <1>5, <1>6, <1>7 DEF ThinnedBy
<1> QED
  BY <1>8 DEF Thinned

\* Instructions may be removed, but no label that a jump leads to.
LEMMA KeepOnlyThins ==
  ASSUME NEW F, NEW c, IsCode(c), NEW S,
         \A k \in 1 .. Len(c) : c[k].op = "label" /\ Targeted(KeepOnly(c, S), c[k].sym) => k \in S
  PROVE  Thinned(F, c, KeepOnly(c, S))
<1> DEFINE d == KeepOnly(c, S)
<1>1. IsSeq(c) /\ \A k \in 1 .. Len(c) : Kin(F, c[k], c[k]) /\ IsIns(c[k])
  BY DEF IsCode, Kin
<1>2. IsSeq(d) /\ \E g \in [1 .. Len(d) -> 1 .. Len(c)] :
                    /\ \A i, j \in 1 .. Len(d) : i < j => g[i] < g[j]
                    /\ \A i \in 1 .. Len(d) : d[i] = c[g[i]] /\ g[i] \in S
                    /\ \A k \in 1 .. Len(c) : k \in S => \E i \in 1 .. Len(d) : g[i] = k
  BY <1>1, KeepOnlyRight, SMTT(60)
<1>0. \A k \in 1 .. Len(c) : c[k].op = "label" /\ Targeted(d, c[k].sym) => k \in S
  OBVIOUS
<1> HIDE DEF d
<1>3. PICK g \in [1 .. Len(d) -> 1 .. Len(c)] :
                    /\ \A i, j \in 1 .. Len(d) : i < j => g[i] < g[j]
                    /\ \A i \in 1 .. Len(d) : d[i] = c[g[i]] /\ g[i] \in S
                    /\ \A k \in 1 .. Len(c) : k \in S => \E i \in 1 .. Len(d) : g[i] = k
  BY <1>2
<1>4. ThinnedBy(F, c, d, g)
  BY <1>0, <1>1, <1>3 DEF ThinnedBy
<1>5. IsCode(d)
  BY <1>1, <1>2, <1>3 DEF IsCode
<1>6. Thinned(F, c, d)
  BY <1>4, <1>5 DEF Thinned
<1> QED
  BY <1>6 DEF d

\* Every jump has one label, but e may stand several times, at the start.
WellLabelled(c, e) ==
  /\ \A k \in LabelsAt(c, e) : \A j \in 1 .. k : j \in LabelsAt(c, e)
  /\ \A l : Targeted(c, l) => \/ l = e /\ LabelsAt(c, e) # {}
                              \/ \E m : LabelsAt(c, l) = {m}

\* The calls of d are calls of c, with as many arguments.
CallsFrom(c, d) ==
  \A i \in 1 .. Len(d) : d[i].op \in Direct =>
    \E k \in 1 .. Len(c) : c[k].op = d[i].op /\ c[k].sym = d[i].sym /\ Len(c[k].args) = Len(d[i].args)

\* Something no pass removes: a label may go only if there is a jump.
HasEnd(c) == \E k \in 1 .. Len(c) : c[k].op \in {"label"} \cup Jumps \cup Returns

\* LabelsAt are places of the code.
LEMMA LabelIn ==
  ASSUME NEW c, IsSeq(c), NEW k, NEW l
  PROVE  k \in LabelsAt(c, l) <=> k \in 1 .. Len(c) /\ c[k].op = "label" /\ c[k].sym = l
BY SeqDomain DEF LabelsAt

\* The labels of thinned code are right if those of the code are.
LEMMA ThinnedLabels ==
  ASSUME NEW F, NEW c, IsCode(c), NEW d, Thinned(F, c, d), NEW e, WellLabelled(c, e)
  PROVE  WellLabelled(d, e)
<1>1. PICK g : ThinnedBy(F, c, d, g)
  BY DEF Thinned
<1>2. IsSeq(c) /\ IsSeq(d) /\ Len(c) \in Nat /\ Len(d) \in Nat
  BY SeqDomain DEF Thinned, IsCode
<1>3. \A i \in 1 .. Len(d) : g[i] \in 1 .. Len(c)
  BY <1>1 DEF ThinnedBy
<1>4. \A i, j \in 1 .. Len(d) : g[i] = g[j] => i = j
  BY <1>1, <1>2, <1>3 DEF ThinnedBy
<1>5. ASSUME NEW i \in 1 .. Len(d), NEW l PROVE i \in LabelsAt(d, l) <=> g[i] \in LabelsAt(c, l)
  <2>1. Kin(F, c[g[i]], d[i])
    BY <1>1 DEF ThinnedBy
  <2>2. /\ c[g[i]].op = "label" <=> d[i].op = "label"
        /\ c[g[i]].op = "label" => d[i].sym = c[g[i]].sym
    BY <2>1, FixedKept
  <2> QED
    BY <1>2, <1>3, <2>2, LabelIn
<1>6. ASSUME NEW l, Targeted(d, l), NEW k \in LabelsAt(c, l)
      PROVE  \E i \in 1 .. Len(d) : g[i] = k /\ i \in LabelsAt(d, l)
  <2>1. k \in 1 .. Len(c) /\ c[k].op = "label" /\ c[k].sym = l
    BY <1>2, LabelIn
  <2>2. PICK i \in 1 .. Len(d) : g[i] = k
    BY <1>1, <1>6, <2>1 DEF ThinnedBy
  <2> QED
    BY <1>5, <2>2
<1>7. ASSUME NEW k \in LabelsAt(d, e), NEW j \in 1 .. k PROVE j \in LabelsAt(d, e)
  <2>1. k \in 1 .. Len(d) /\ j \in 1 .. Len(d)
    BY <1>2, LabelIn
  <2>2. g[j] <= g[k] /\ g[k] \in LabelsAt(c, e) /\ g[j] \in Nat /\ g[j] >= 1
    <3>1. j < k \/ j = k
      BY <2>1
    <3>2. j < k => g[j] < g[k]
      BY <1>1, <2>1 DEF ThinnedBy
    <3>3. g[j] \in 1 .. Len(c) /\ g[k] \in 1 .. Len(c)
      BY <1>3, <2>1
    <3> QED
      BY <1>2, <1>5, <2>1, <3>1, <3>2, <3>3
  <2>3. g[j] \in 1 .. g[k]
    BY <1>3, <2>1, <2>2
  <2>4. g[j] \in LabelsAt(c, e)
    BY <2>2, <2>3 DEF WellLabelled
  <2> QED
    BY <1>5, <2>1, <2>4
<1>8. ASSUME NEW l, Targeted(d, l)
      PROVE  \/ l = e /\ LabelsAt(d, e) # {}
             \/ \E m : LabelsAt(d, l) = {m}
  <2>1. Targeted(c, l)
    BY <1>1, <1>8, TargetsLeft
  <2>2. CASE l = e /\ LabelsAt(c, e) # {}
    <3>1. PICK k : k \in LabelsAt(c, l)
      BY <2>2
    <3>2. \E i \in 1 .. Len(d) : i \in LabelsAt(d, l)
      BY <1>6, <1>8, <3>1
    <3> QED
      BY <2>2, <3>2
  <2>3. CASE \E m : LabelsAt(c, l) = {m}
    <3>1. PICK m : LabelsAt(c, l) = {m}
      BY <2>3
    <3>2. m \in LabelsAt(c, l)
      BY <3>1
    <3>3. PICK i \in 1 .. Len(d) : g[i] = m /\ i \in LabelsAt(d, l)
      BY <1>6, <1>8, <3>2
    <3>4. ASSUME NEW j, j \in LabelsAt(d, l) PROVE j = i
      <4>1. j \in 1 .. Len(d)
        BY <1>2, <3>4, LabelIn
      <4>2. g[j] \in LabelsAt(c, l)
        BY <1>5, <3>4, <4>1
      <4>3. g[j] = g[i]
        BY <3>1, <3>3, <4>2
      <4> QED
        BY <1>4, <4>1, <4>3
    <3>5. LabelsAt(d, l) = {i}
      BY <3>3, <3>4
    <3> QED
      BY <3>5
  <2> QED
    BY <2>1, <2>2, <2>3 DEF WellLabelled
<1> QED
  BY <1>7, <1>8 DEF WellLabelled

\* The calls of thinned code are calls of the code.
LEMMA ThinnedCalls ==
  ASSUME NEW c, NEW d, Thinned(Direct, c, d)
  PROVE  CallsFrom(c, d)
<1>1. PICK g : ThinnedBy(Direct, c, d, g)
  BY DEF Thinned
<1> SUFFICES ASSUME NEW i \in 1 .. Len(d), d[i].op \in Direct
             PROVE  \E k \in 1 .. Len(c) : /\ c[k].op = d[i].op /\ c[k].sym = d[i].sym
                                           /\ Len(c[k].args) = Len(d[i].args)
  BY DEF CallsFrom
<1>2. g[i] \in 1 .. Len(c) /\ Kin(Direct, c[g[i]], d[i])
  BY <1>1 DEF ThinnedBy
<1>3. c[g[i]].op = d[i].op /\ c[g[i]].sym = d[i].sym /\ Len(c[g[i]].args) = Len(d[i].args)
  BY <1>2 DEF Kin, Fixed
<1> QED
  BY <1>2, <1>3

\* Calls of calls of the code are calls of the code.
LEMMA CallsFromTrans ==
  ASSUME NEW b, NEW c, NEW d, CallsFrom(b, c), CallsFrom(c, d)
  PROVE  CallsFrom(b, d)
<1> SUFFICES ASSUME NEW i \in 1 .. Len(d), d[i].op \in Direct
             PROVE  \E k \in 1 .. Len(b) : /\ b[k].op = d[i].op /\ b[k].sym = d[i].sym
                                           /\ Len(b[k].args) = Len(d[i].args)
  BY DEF CallsFrom
<1>1. PICK j \in 1 .. Len(c) : /\ c[j].op = d[i].op /\ c[j].sym = d[i].sym
                               /\ Len(c[j].args) = Len(d[i].args)
  BY DEF CallsFrom
<1>2. PICK k \in 1 .. Len(b) : /\ b[k].op = c[j].op /\ b[k].sym = c[j].sym
                               /\ Len(b[k].args) = Len(c[j].args)
  BY <1>1 DEF CallsFrom
<1> QED
  BY <1>1, <1>2

\* An end stays where instructions are replaced by their kin.
LEMMA MapEnds ==
  ASSUME NEW F, NEW c, NEW d, Len(d) = Len(c), \A k \in 1 .. Len(c) : Kin(F, c[k], d[k]), HasEnd(c)
  PROVE  HasEnd(d)
<1>1. PICK k \in 1 .. Len(c) : c[k].op \in {"label"} \cup Jumps \cup Returns
  BY DEF HasEnd
<1>2. d[k].op = c[k].op
  BY <1>1 DEF Kin, Fixed
<1> QED
  BY <1>1, <1>2 DEF HasEnd

\* An end stays where it is kept.
LEMMA KeepOnlyEnds ==
  ASSUME NEW c, IsSeq(c), NEW S, NEW k \in 1 .. Len(c), k \in S,
         c[k].op \in {"label"} \cup Jumps \cup Returns
  PROVE  HasEnd(KeepOnly(c, S))
<1> DEFINE d == KeepOnly(c, S)
<1>1. \E g \in [1 .. Len(KeepOnly(c, S)) -> 1 .. Len(c)] :
              /\ \A i, j \in 1 .. Len(KeepOnly(c, S)) : i < j => g[i] < g[j]
              /\ \A i \in 1 .. Len(KeepOnly(c, S)) : KeepOnly(c, S)[i] = c[g[i]] /\ g[i] \in S
              /\ \A m \in 1 .. Len(c) : m \in S => \E i \in 1 .. Len(KeepOnly(c, S)) : g[i] = m
  BY KeepOnlyRight
<1> HIDE DEF d
<1>2. PICK i \in 1 .. Len(KeepOnly(c, S)) : KeepOnly(c, S)[i] = c[k]
  BY <1>1
<1> QED
  BY <1>2 DEF HasEnd

\* A pass over the code of one function, as far as it matters here.
Passed(c, d) == Thinned(Direct, c, d) /\ (HasEnd(c) => HasEnd(d))

\* One pass after the other is a pass.
LEMMA PassedTrans ==
  ASSUME NEW b, NEW c, NEW d, Passed(b, c), Passed(c, d)
  PROVE  Passed(b, d)
BY ThinnedTrans DEF Passed

\* What replaces instructions by their kin is a pass.
LEMMA MapPasses ==
  ASSUME NEW c, IsCode(c), NEW d, IsSeq(d), Len(d) = Len(c),
         \A k \in 1 .. Len(c) : Kin(Direct, c[k], d[k])
  PROVE  Passed(c, d)
BY MapThins, MapEnds DEF Passed

\* What removes neither labels, jumps nor returns is a pass.
LEMMA KeepOnlyPasses ==
  ASSUME NEW c, IsCode(c), NEW S,
         \A k \in 1 .. Len(c) : c[k].op \in {"label"} \cup Jumps \cup Returns => k \in S
  PROVE  Passed(c, KeepOnly(c, S))
<1>1. \A k \in 1 .. Len(c) : c[k].op = "label" => k \in S
  OBVIOUS
<1>2. Thinned(Direct, c, KeepOnly(c, S))
  BY <1>1, KeepOnlyThins
<1>3. ASSUME HasEnd(c) PROVE HasEnd(KeepOnly(c, S))
  <2>1. PICK k \in 1 .. Len(c) : c[k].op \in {"label"} \cup Jumps \cup Returns
    BY <1>3 DEF HasEnd
  <2> QED
    BY <2>1, KeepOnlyEnds DEF IsCode
<1> QED
  BY <1>2, <1>3 DEF Passed

-----------------------------------------------------------------------------
(* The passes of fold.py and dce.py over one function. *)
\* What a pass keeps of an instruction it rewrites, one of no kind that is Fixed.
LEMMA Rewritten ==
  ASSUME NEW F, NEW i, NEW j, IsIns(j), i.op \notin Fixed, j.op \notin Fixed
  PROVE  Kin(F, i, j)
BY DEF Kin, Fixed

\* Sequences written out.
LEMMA TupleIs ==
  /\ IsSeq(<<>>) /\ Len(<<>>) = 0
  /\ \A e : IsSeq(<<e>>) /\ Len(<<e>>) = 1 /\ <<e>>[1] = e
  /\ \A e, o : IsSeq(<<e, o>>) /\ Len(<<e, o>>) = 2
<1>1. ASSUME NEW e PROVE IsSeq(<<e>>) /\ Len(<<e>>) = 1 /\ <<e>>[1] = e
  <2>1. e \in {e} /\ <<e>> \in Seq({e})
    OBVIOUS
  <2> QED
    BY <2>1, SeqIs
<1>2. ASSUME NEW e, NEW o PROVE IsSeq(<<e, o>>) /\ Len(<<e, o>>) = 2
  <2>1. <<e, o>> \in Seq({e, o})
    OBVIOUS
  <2> QED
    BY <2>1, SeqIs
<1> QED
  BY <1>1, <1>2, EmptyIs

\* A copy is an instruction that every pass may put in the place of one that is
\* not fixed.
LEMMA CopyIs ==
  ASSUME NEW d, NEW o
  PROVE  IsIns(Copy(d, o)) /\ Copy(d, o).op = "copy" /\ "copy" \notin Fixed
<1>1. IsSeq(<<o>>)
  BY TupleIs
<1> DEFINE s == <<o>>
<1>2. IsSeq(s)
  BY <1>1
<1> HIDE DEF s
<1>3. LET i == Wide("copy", d, NoTemp, <<>>, Nothing, s)
      IN  i = Wide(i.op, i.dst, i.hi, i.sym, i.addr, i.args) /\ i.args = s /\ i.op = "copy"
  BY DEF Wide
<1> QED
  BY <1>2, <1>3 DEF IsIns, Copy, Ins, Fixed, Jumps, Returns, Direct, s

\* So is a sum.
LEMMA BinOpIs ==
  ASSUME NEW d, NEW op, NEW o, NEW q
  PROVE  IsIns(BinOp(d, op, o, q)) /\ BinOp(d, op, o, q).op = "binop" /\ "binop" \notin Fixed
<1>1. IsSeq(<<o, q>>)
  BY TupleIs
<1> DEFINE s == <<o, q>>
<1>2. IsSeq(s)
  BY <1>1
<1> HIDE DEF s
<1>3. LET i == Wide("binop", d, NoTemp, op, Nothing, s)
      IN  i = Wide(i.op, i.dst, i.hi, i.sym, i.addr, i.args) /\ i.args = s /\ i.op = "binop"
  BY DEF Wide
<1> QED
  BY <1>2, <1>3 DEF IsIns, BinOp, Ins, Fixed, Jumps, Returns, Direct, s

\* Simplify (fold.py, _simplify_instr) makes an instruction its kin.
LEMMA SimplifyKin ==
  ASSUME NEW F, NEW i, IsIns(i)
  PROVE  Kin(F, i, Simplify(i))
<1>1. CASE i.op \notin {"unop", "binop"}
  <2>1. Simplify(i) = i
    BY <1>1 DEF Simplify
  <2> QED
    BY <2>1 DEF Kin
<1>2. CASE i.op \in {"unop", "binop"}
  <2>1. i.op \notin Fixed
    BY <1>2 DEF Fixed, Jumps, Returns, Direct
  <2> DEFINE Good(j) == IsIns(j) /\ j.op \notin Fixed
  <2>2. Good(i) /\ (\A d, o : Good(Copy(d, o))) /\ \A d, op, o, q : Good(BinOp(d, op, o, q))
    BY <2>1, CopyIs, BinOpIs
  <2> HIDE DEF Good
  <2>3. Good(Simplify(i))
    BY <1>2, <2>2, SMTT(30) DEF Simplify
  <2> QED
    BY <2>1, <2>3, Rewritten DEF Good
<1> QED
  BY <1>1, <1>2

\* Kin of kin are kin.
LEMMA KinTrans ==
  ASSUME NEW F, NEW x, NEW y, NEW z, Kin(F, x, y), Kin(F, y, z)
  PROVE  Kin(F, x, z)
<1>1. x.op \in Fixed \/ z.op \in Fixed => z.op = x.op /\ z.sym = x.sym
  BY DEF Kin
<1>2. ASSUME x.op \in F \cap Direct PROVE Len(z.args) = Len(x.args)
  BY <1>2 DEF Kin, Fixed
<1> QED
  BY <1>1, <1>2 DEF Kin

\* An instruction is a record of six fields.
LEMMA WideDomain ==
  ASSUME NEW i, i = Wide(i.op, i.dst, i.hi, i.sym, i.addr, i.args)
  PROVE  DOMAIN i = {"op", "dst", "hi", "sym", "addr", "args"} /\ i = [k \in DOMAIN i |-> i[k]]
BY DEF Wide

\* Such a record is an instruction.
LEMMA WideIs ==
  ASSUME NEW i, DOMAIN i = {"op", "dst", "hi", "sym", "addr", "args"}, i = [k \in DOMAIN i |-> i[k]]
  PROVE  i = Wide(i.op, i.dst, i.hi, i.sym, i.addr, i.args)
BY DEF Wide

\* An instruction with other operands.
LEMMA NewOperands ==
  ASSUME NEW F, NEW i, IsIns(i), NEW addr, NEW args, IsSeq(args), Len(args) = Len(i.args)
  PROVE  Kin(F, i, [i EXCEPT !.addr = addr, !.args = args])
<1> DEFINE j == [i EXCEPT !.addr = addr, !.args = args]
<1>1. DOMAIN i = {"op", "dst", "hi", "sym", "addr", "args"}
  BY WideDomain DEF IsIns
<1>2. /\ DOMAIN j = {"op", "dst", "hi", "sym", "addr", "args"} /\ j = [k \in DOMAIN j |-> j[k]]
      /\ j.op = i.op /\ j.sym = i.sym /\ j.args = args
  BY <1>1
<1> HIDE DEF j
<1>3. IsIns(j)
  BY <1>2, WideIs DEF IsIns
<1>4. Kin(F, i, j)
  BY <1>2, <1>3 DEF Kin
<1> QED
  BY <1>4 DEF j

\* A map over a sequence is a sequence of the same length.
LEMMA MappedIs ==
  ASSUME NEW s, IsSeq(s), NEW t, t = [k \in DOMAIN s |-> t[k]]
  PROVE  IsSeq(t) /\ Len(t) = Len(s) /\ DOMAIN t = 1 .. Len(s)
<1>1. DOMAIN s = 1 .. Len(s) /\ Len(s) \in Nat
  BY SeqDomain
<1>2. DOMAIN t = 1 .. Len(s) /\ t = [k \in 1 .. Len(s) |-> t[k]]
  BY <1>1
<1> QED
  BY <1>1, <1>2, SeqShaped

\* Copy propagation replaces operands, as many as there were.
LEMMA SubstitutedKin ==
  ASSUME NEW F, NEW i, IsIns(i), NEW source
  PROVE  Kin(F, i, Substituted(i, source))
<1>1. Kin(F, i, i)
  BY DEF Kin
<1> DEFINE known(o) == IsTemp(o) /\ o[2] \in DOMAIN source
           val(o) == IF known(o) THEN source[o[2]] ELSE o
           addr(o) == IF known(o) /\ ~IsVar(source[o[2]]) THEN source[o[2]] ELSE o
           args == [k \in DOMAIN i.args |-> val(i.args[k])]
           j == [i EXCEPT !.addr = addr(i.addr), !.args = args]
<1>2. Substituted(i, source) = IF i.op \in {"addrof", "const"} THEN i ELSE Simplify(j)
  BY DEF Substituted
<1>3. args = [k \in DOMAIN i.args |-> args[k]]
  OBVIOUS
<1> HIDE DEF args, addr
<1>4. IsSeq(args) /\ Len(args) = Len(i.args)
  BY <1>3, MappedIs DEF IsIns
<1>5. Kin(F, i, j)
  BY <1>4, NewOperands
<1> HIDE DEF j
<1>6. Kin(F, j, Simplify(j))
  BY <1>5, SimplifyKin DEF Kin
<1>7. Kin(F, i, Simplify(j))
  BY <1>5, <1>6, KinTrans
<1> QED
  BY <1>1, <1>2, <1>7

\* Code is a sequence of instructions.
LEMMA CodeDomain ==
  ASSUME NEW c, IsCode(c)
  PROVE  IsSeq(c) /\ DOMAIN c = 1 .. Len(c) /\ Len(c) \in Nat /\ \A k \in 1 .. Len(c) : IsIns(c[k])
BY SeqDomain DEF IsCode

\* _propagate_copies is a pass.
LEMMA PropagateCopiesPasses ==
  ASSUME NEW c, IsCode(c)
  PROVE  Passed(c, PropagateCopies(c))
<1> DEFINE source == CopySources(c)
           new == [k \in DOMAIN c |->
                     IF UsedTemps(c[k]) \cap DOMAIN source = {} THEN c[k]
                     ELSE Substituted(c[k], source)]
           replaced(t) == /\ UsesOf(c, t) # {}
                          /\ IsImm(source[t]) \/ \A u \in UsesOf(c, t) : t \notin UsedTemps(new[u[1]])
           S == {k \in DOMAIN c : /\ c[k].op = "copy"
                                  /\ c[k].dst \in DOMAIN source
                                  /\ replaced(c[k].dst)}
<1>1. PropagateCopies(c) = KeepOnly(new, DOMAIN new \ S)
  BY DEF PropagateCopies, Without
<1>2. IsSeq(c) /\ DOMAIN c = 1 .. Len(c) /\ \A k \in 1 .. Len(c) : IsIns(c[k])
  BY CodeDomain
<1>3. new = [k \in DOMAIN c |-> new[k]]
  OBVIOUS
<1>4. \A k \in S : c[k].op = "copy"
  <2> HIDE DEF replaced, source
  <2> QED
    OBVIOUS
<1>5. ASSUME NEW k \in 1 .. Len(c) PROVE Kin(Direct, c[k], new[k])
  <2> HIDE DEF source
  <2>1. new[k] = c[k] \/ new[k] = Substituted(c[k], source)
    BY <1>2
  <2> HIDE DEF new
  <2>2. Kin(Direct, c[k], c[k]) /\ Kin(Direct, c[k], Substituted(c[k], source))
    BY <1>2, SubstitutedKin DEF Kin
  <2> QED
    BY <2>1, <2>2
<1> HIDE DEF new, S, source
<1>6. IsSeq(new) /\ Len(new) = Len(c) /\ DOMAIN new = 1 .. Len(c)
  BY <1>2, <1>3, MappedIs
<1>7. Passed(c, new)
  BY <1>5, <1>6, MapPasses
<1>8. ASSUME NEW k \in 1 .. Len(new), new[k].op \in {"label"} \cup Jumps \cup Returns
      PROVE  k \in DOMAIN new \ S
  <2>1. new[k].op \in Fixed /\ Kin(Direct, c[k], new[k])
    BY <1>5, <1>6, <1>8 DEF Fixed
  <2>2. c[k].op # "copy"
    BY <2>1, <1>8 DEF Kin, Jumps, Returns
  <2> QED
    BY <1>4, <1>6, <2>2
<1>9. IsCode(new)
  BY <1>7 DEF Passed, Thinned
<1>10. Passed(new, KeepOnly(new, DOMAIN new \ S))
  BY <1>8, <1>9, KeepOnlyPasses
<1> QED
  BY <1>1, <1>7, <1>10, PassedTrans

\* _fold_once is a pass.
LEMMA FoldOncePasses ==
  ASSUME NEW c, IsCode(c)
  PROVE  Passed(c, FoldOnce(c))
<1> DEFINE d == PropagateCopies(c)
           e == Simplified(d)
<1>1. Passed(c, d) /\ IsCode(d)
  BY PropagateCopiesPasses DEF Passed, Thinned
<1>2. FoldOnce(c) = e
  BY DEF FoldOnce
<1> HIDE DEF d
<1>3. IsSeq(d) /\ DOMAIN d = 1 .. Len(d) /\ \A k \in 1 .. Len(d) : IsIns(d[k])
  BY <1>1, CodeDomain
<1>4. e = [k \in DOMAIN d |-> e[k]] /\ \A k \in DOMAIN d : e[k] = Simplify(d[k])
  BY DEF Simplified
<1> HIDE DEF e
<1>5. IsSeq(e) /\ Len(e) = Len(d)
  BY <1>3, <1>4, MappedIs
<1>6. \A k \in 1 .. Len(d) : Kin(Direct, d[k], e[k])
  BY <1>3, <1>4, SimplifyKin
<1>7. Passed(d, e)
  BY <1>1, <1>5, <1>6, MapPasses
<1> QED
  BY <1>1, <1>2, <1>7, PassedTrans

\* To do nothing is a pass.
LEMMA PassedSelf ==
  ASSUME NEW c, IsCode(c)
  PROVE  Passed(c, c)
BY ThinnedSelf DEF Passed

\* FoldUntilStable folds until the length stays the same.
LEMMA FoldSteps ==
  ASSUME NEW c, NEW n \in Nat, n = Len(c) + 1
  PROVE  \E f : /\ f[0] = [code |-> c, prevLen |-> -1]
                /\ \A i \in 1 .. n : f[i] = IF Len(f[i - 1].code) = f[i - 1].prevLen THEN f[i - 1] ELSE [code |-> FoldOnce(f[i - 1].code), prevLen |-> Len(f[i - 1].code)]
                /\ FoldUntilStable(c) = f[n].code
<1> DEFINE Following(x, i) == IF Len(x.code) = x.prevLen THEN x ELSE [code |-> FoldOnce(x.code), prevLen |-> Len(x.code)]
           Step(h, i) == IF i = 0 THEN [code |-> c, prevLen |-> -1] ELSE Following(h[i - 1], i)
           P == {m \in 0 .. n : \E h : h = [i \in 0 .. m |-> Step(h, i)]}
           f == CHOOSE h : h = [i \in 0 .. n |-> Step(h, i)]
<1>1. 0 \in P
  <2> DEFINE h == [i \in 0 .. 0 |-> [code |-> c, prevLen |-> -1]]
  <2>1. h = [i \in 0 .. 0 |-> Step(h, i)]
    OBVIOUS
  <2> HIDE DEF h
  <2>2. \E g : g = [i \in 0 .. 0 |-> Step(g, i)]
    BY <2>1
  <2> HIDE DEF Step
  <2> QED
    BY <2>2
<1>2. ASSUME NEW m \in 1 .. n, m - 1 \in P PROVE m \in P
  <2> HIDE DEF Following
  <2>1. PICK h : h = [i \in 0 .. m - 1 |-> Step(h, i)]
    BY <1>2
  <2> DEFINE g == [i \in 0 .. m |-> IF i = m THEN Following(h[m - 1], m) ELSE h[i]]
  <2>2. /\ g = [i \in 0 .. m |-> g[i]] /\ g[m] = Following(h[m - 1], m)
        /\ \A i \in 0 .. m - 1 : g[i] = h[i]
    OBVIOUS
  <2> HIDE DEF g
  <2>3. ASSUME NEW i \in 0 .. m PROVE g[i] = Step(g, i)
    <3>1. CASE i = m
      <4>1. m - 1 \in 0 .. m - 1 /\ m # 0
        OBVIOUS
      <4>2. h[m - 1] = g[m - 1]
        BY <2>2, <4>1
      <4> QED
        BY <2>2, <3>1, <4>1, <4>2
    <3>2. CASE i < m
      <4>1. i \in 0 .. m - 1 /\ (i # 0 => i - 1 \in 0 .. m - 1)
        BY <3>2
      <4>2. h[i] = Step(h, i)
        <5> HIDE DEF Step
        <5> QED
          BY <2>1, <4>1
      <4> QED
        BY <2>2, <4>1, <4>2
    <3> HIDE DEF Step
    <3> QED
      BY <3>1, <3>2
  <2>4. g = [i \in 0 .. m |-> Step(g, i)]
    <3> HIDE DEF Step
    <3> QED
      BY <2>2, <2>3
  <2> QED
    BY <2>4
<1>3. f = [i \in 0 .. n |-> Step(f, i)]
  <2>1. 0 .. n \subseteq P
    <3> HIDE DEF P
    <3> QED
      BY <1>1, <1>2, UpTo
  <2>2. n \in P
    <3> HIDE DEF P
    <3> QED
      BY <2>1
  <2> QED
    BY <2>2
<1>4. FoldUntilStable(c) = f[n].code
  BY DEF FoldUntilStable
<1>5. f[0] = [code |-> c, prevLen |-> -1] /\ \A i \in 1 .. n : f[i] = Following(f[i - 1], i)
  <2> HIDE DEF f, Following
  <2>1. f[0] = Step(f, 0) /\ \A i \in 1 .. n : f[i] = Step(f, i) /\ i # 0
    <3> HIDE DEF Step
    <3> QED
      BY <1>3
  <2> QED
    BY <2>1
<1> HIDE DEF f
<1> QED
  BY <1>4, <1>5

\* Folding until stable is a pass.
LEMMA FoldUntilStablePasses ==
  ASSUME NEW c, IsCode(c)
  PROVE  Passed(c, FoldUntilStable(c))
<1>1. SUFFICES ASSUME NEW n \in Nat, n = Len(c) + 1
               PROVE  Passed(c, FoldUntilStable(c))
  BY CodeDomain
<1>2. PICK f : /\ f[0] = [code |-> c, prevLen |-> -1]
               /\ \A i \in 1 .. n : f[i] = IF Len(f[i - 1].code) = f[i - 1].prevLen THEN f[i - 1] ELSE [code |-> FoldOnce(f[i - 1].code), prevLen |-> Len(f[i - 1].code)]
               /\ FoldUntilStable(c) = f[n].code
  BY <1>1, FoldSteps, SMTT(30)
<1> DEFINE P == {m \in 0 .. n : Passed(c, f[m].code)}
<1>3. 0 \in P
  <2>1. f[0].code = c
    BY <1>2
  <2> QED
    BY <2>1, PassedSelf
<1>4. ASSUME NEW m \in 1 .. n, m - 1 \in P PROVE m \in P
  <2>1. Passed(c, f[m - 1].code) /\ IsCode(f[m - 1].code)
    BY <1>4 DEF Passed, Thinned
  <2>2. f[m] = f[m - 1] \/ f[m].code = FoldOnce(f[m - 1].code)
    <3> DEFINE y == [code |-> FoldOnce(f[m - 1].code), prevLen |-> Len(f[m - 1].code)]
    <3>1. f[m] = f[m - 1] \/ f[m] = y
      BY <1>2, Zenon
    <3>2. y.code = FoldOnce(f[m - 1].code)
      OBVIOUS
    <3> HIDE DEF y
    <3> QED
      BY <3>1, <3>2, Zenon
  <2>3. Passed(f[m - 1].code, FoldOnce(f[m - 1].code))
    BY <2>1, FoldOncePasses
  <2>4. Passed(c, f[m].code)
    BY <2>1, <2>2, <2>3, PassedTrans
  <2> QED
    BY <2>4
<1>5. n \in P
  <2> HIDE DEF P
  <2>1. 0 .. n \subseteq P
    BY <1>3, <1>4, UpTo
  <2> QED
    BY <2>1
<1> QED
  BY <1>2, <1>5

\* VarLoadCse after one more instruction.
NextLoad(x, i) == [code |-> Append(x.code, ReuseLoad(x.held, i)), held |-> HeldAfter(x.held, i)]

\* VarLoadCse goes through the code once.
LEMMA LoadSteps ==
  ASSUME NEW c, NEW n \in Nat, n = Len(c)
  PROVE  \E f : /\ f[0] = [code |-> <<>>, held |-> <<>>]
                /\ \A i \in 1 .. n : f[i] = NextLoad(f[i - 1], c[i])
                /\ VarLoadCse(c) = f[n].code
<1> DEFINE Following(x, i) == NextLoad(x, c[i])
           Step(h, i) == IF i = 0 THEN [code |-> <<>>, held |-> <<>>] ELSE Following(h[i - 1], i)
           P == {m \in 0 .. n : \E h : h = [i \in 0 .. m |-> Step(h, i)]}
           f == CHOOSE h : h = [i \in 0 .. n |-> Step(h, i)]
<1>1. 0 \in P
  <2> DEFINE h == [i \in 0 .. 0 |-> [code |-> <<>>, held |-> <<>>]]
  <2>1. h = [i \in 0 .. 0 |-> Step(h, i)]
    OBVIOUS
  <2> HIDE DEF h
  <2>2. \E g : g = [i \in 0 .. 0 |-> Step(g, i)]
    BY <2>1
  <2> HIDE DEF Step
  <2> QED
    BY <2>2
<1>2. ASSUME NEW m \in 1 .. n, m - 1 \in P PROVE m \in P
  <2> HIDE DEF Following
  <2>1. PICK h : h = [i \in 0 .. m - 1 |-> Step(h, i)]
    BY <1>2
  <2> DEFINE g == [i \in 0 .. m |-> IF i = m THEN Following(h[m - 1], m) ELSE h[i]]
  <2>2. /\ g = [i \in 0 .. m |-> g[i]] /\ g[m] = Following(h[m - 1], m)
        /\ \A i \in 0 .. m - 1 : g[i] = h[i]
    OBVIOUS
  <2> HIDE DEF g
  <2>3. ASSUME NEW i \in 0 .. m PROVE g[i] = Step(g, i)
    <3>1. CASE i = m
      <4>1. m - 1 \in 0 .. m - 1 /\ m # 0
        OBVIOUS
      <4>2. h[m - 1] = g[m - 1]
        BY <2>2, <4>1
      <4> QED
        BY <2>2, <3>1, <4>1, <4>2
    <3>2. CASE i < m
      <4>1. i \in 0 .. m - 1 /\ (i # 0 => i - 1 \in 0 .. m - 1)
        BY <3>2
      <4>2. h[i] = Step(h, i)
        <5> HIDE DEF Step
        <5> QED
          BY <2>1, <4>1
      <4> QED
        BY <2>2, <4>1, <4>2
    <3> HIDE DEF Step
    <3> QED
      BY <3>1, <3>2
  <2>4. g = [i \in 0 .. m |-> Step(g, i)]
    <3> HIDE DEF Step
    <3> QED
      BY <2>2, <2>3
  <2> QED
    BY <2>4
<1>3. f = [i \in 0 .. n |-> Step(f, i)]
  <2>1. 0 .. n \subseteq P
    <3> HIDE DEF P
    <3> QED
      BY <1>1, <1>2, UpTo
  <2>2. n \in P
    <3> HIDE DEF P
    <3> QED
      BY <2>1
  <2> QED
    BY <2>2
<1>4. VarLoadCse(c) = f[n].code
  BY DEF VarLoadCse, NextLoad
<1>5. f[0] = [code |-> <<>>, held |-> <<>>] /\ \A i \in 1 .. n : f[i] = Following(f[i - 1], i)
  <2> HIDE DEF f, Following
  <2>1. f[0] = Step(f, 0) /\ \A i \in 1 .. n : f[i] = Step(f, i) /\ i # 0
    <3> HIDE DEF Step
    <3> QED
      BY <1>3
  <2> QED
    BY <2>1
<1> HIDE DEF f
<1> QED
  BY <1>4, <1>5

\* A load that is reused becomes a copy.
LEMMA ReuseLoadKin ==
  ASSUME NEW F, NEW i, IsIns(i), NEW held
  PROVE  Kin(F, i, ReuseLoad(held, i))
<1>1. ReuseLoad(held, i) = i \/ (i.op = "copy" /\ \E o : ReuseLoad(held, i) = Copy(i.dst, o))
  BY DEF ReuseLoad
<1>2. Kin(F, i, i)
  BY DEF Kin
<1>3. ASSUME i.op = "copy", NEW o PROVE Kin(F, i, Copy(i.dst, o))
  <2>1. i.op \notin Fixed
    BY <1>3 DEF Fixed, Jumps, Returns, Direct
  <2>2. IsIns(Copy(i.dst, o)) /\ Copy(i.dst, o).op \notin Fixed
    BY CopyIs
  <2> QED
    BY <2>1, <2>2, Rewritten
<1> QED
  BY <1>1, <1>2, <1>3

\* _var_load_cse is a pass.
LEMMA VarLoadCsePasses ==
  ASSUME NEW c, IsCode(c)
  PROVE  Passed(c, VarLoadCse(c))
<1>1. SUFFICES ASSUME NEW n \in Nat, n = Len(c)
               PROVE  Passed(c, VarLoadCse(c))
  BY CodeDomain
<1>2. PICK f : /\ f[0] = [code |-> <<>>, held |-> <<>>]
               /\ \A i \in 1 .. n : f[i] = NextLoad(f[i - 1], c[i])
               /\ VarLoadCse(c) = f[n].code
  BY <1>1, LoadSteps, SMTT(30)
<1> DEFINE P == {m \in 0 .. n : /\ IsSeq(f[m].code) /\ Len(f[m].code) = m
                                /\ \A k \in 1 .. m : Kin(Direct, c[k], f[m].code[k])}
<1>3. 0 \in P
  <2>1. f[0].code = <<>>
    BY <1>2
  <2> QED
    BY <2>1, EmptyIs
<1>4. ASSUME NEW m \in 1 .. n, m - 1 \in P PROVE m \in P
  <2> DEFINE e == ReuseLoad(f[m - 1].held, c[m])
             d == f[m - 1].code
  <2>1. IsSeq(d) /\ Len(d) = m - 1 /\ \A k \in 1 .. m - 1 : Kin(Direct, c[k], d[k])
    BY <1>4
  <2>2. f[m].code = Append(d, e)
    <3>1. f[m] = NextLoad(f[m - 1], c[m])
      BY <1>2
    <3> QED
      BY <3>1 DEF NextLoad
  <2>3. Kin(Direct, c[m], e)
    BY <1>1, CodeDomain, ReuseLoadKin
  <2> HIDE DEF e, d
  <2>4. /\ IsSeq(Append(d, e)) /\ Len(Append(d, e)) = m - 1 + 1 /\ Append(d, e)[m - 1 + 1] = e
        /\ \A k \in 1 .. m - 1 : Append(d, e)[k] = d[k]
    BY <2>1, AppendIs
  <2>5. m - 1 + 1 = m /\ m \in 0 .. n
    OBVIOUS
  <2>6. \A k \in 1 .. m : Kin(Direct, c[k], f[m].code[k])
    <3> SUFFICES ASSUME NEW k \in 1 .. m PROVE Kin(Direct, c[k], f[m].code[k])
      OBVIOUS
    <3>1. k = m \/ k \in 1 .. m - 1
      OBVIOUS
    <3> QED
      BY <2>1, <2>2, <2>3, <2>4, <2>5, <3>1
  <2>7. IsSeq(f[m].code) /\ Len(f[m].code) = m
    BY <2>2, <2>4, <2>5
  <2> QED
    BY <2>5, <2>6, <2>7
<1>5. n \in P
  <2> HIDE DEF P
  <2>1. 0 .. n \subseteq P
    BY <1>3, <1>4, UpTo
  <2> QED
    BY <2>1
<1> QED
  BY <1>1, <1>2, <1>5, MapPasses

\* AddrOfCse after one more instruction.
NextAddress(x, i) == [code |-> Append(x.code, ReuseAddress(x.held, i)), held |-> AddressesAfter(x.held, i)]

\* AddrOfCse goes through the code once.
LEMMA AddressSteps ==
  ASSUME NEW c, NEW n \in Nat, n = Len(c)
  PROVE  \E f : /\ f[0] = [code |-> <<>>, held |-> <<>>]
                /\ \A i \in 1 .. n : f[i] = NextAddress(f[i - 1], c[i])
                /\ AddrOfCse(c) = f[n].code
<1> DEFINE Following(x, i) == NextAddress(x, c[i])
           Step(h, i) == IF i = 0 THEN [code |-> <<>>, held |-> <<>>] ELSE Following(h[i - 1], i)
           P == {m \in 0 .. n : \E h : h = [i \in 0 .. m |-> Step(h, i)]}
           f == CHOOSE h : h = [i \in 0 .. n |-> Step(h, i)]
<1>1. 0 \in P
  <2> DEFINE h == [i \in 0 .. 0 |-> [code |-> <<>>, held |-> <<>>]]
  <2>1. h = [i \in 0 .. 0 |-> Step(h, i)]
    OBVIOUS
  <2> HIDE DEF h
  <2>2. \E g : g = [i \in 0 .. 0 |-> Step(g, i)]
    BY <2>1
  <2> HIDE DEF Step
  <2> QED
    BY <2>2
<1>2. ASSUME NEW m \in 1 .. n, m - 1 \in P PROVE m \in P
  <2> HIDE DEF Following
  <2>1. PICK h : h = [i \in 0 .. m - 1 |-> Step(h, i)]
    BY <1>2
  <2> DEFINE g == [i \in 0 .. m |-> IF i = m THEN Following(h[m - 1], m) ELSE h[i]]
  <2>2. /\ g = [i \in 0 .. m |-> g[i]] /\ g[m] = Following(h[m - 1], m)
        /\ \A i \in 0 .. m - 1 : g[i] = h[i]
    OBVIOUS
  <2> HIDE DEF g
  <2>3. ASSUME NEW i \in 0 .. m PROVE g[i] = Step(g, i)
    <3>1. CASE i = m
      <4>1. m - 1 \in 0 .. m - 1 /\ m # 0
        OBVIOUS
      <4>2. h[m - 1] = g[m - 1]
        BY <2>2, <4>1
      <4> QED
        BY <2>2, <3>1, <4>1, <4>2
    <3>2. CASE i < m
      <4>1. i \in 0 .. m - 1 /\ (i # 0 => i - 1 \in 0 .. m - 1)
        BY <3>2
      <4>2. h[i] = Step(h, i)
        <5> HIDE DEF Step
        <5> QED
          BY <2>1, <4>1
      <4> QED
        BY <2>2, <4>1, <4>2
    <3> HIDE DEF Step
    <3> QED
      BY <3>1, <3>2
  <2>4. g = [i \in 0 .. m |-> Step(g, i)]
    <3> HIDE DEF Step
    <3> QED
      BY <2>2, <2>3
  <2> QED
    BY <2>4
<1>3. f = [i \in 0 .. n |-> Step(f, i)]
  <2>1. 0 .. n \subseteq P
    <3> HIDE DEF P
    <3> QED
      BY <1>1, <1>2, UpTo
  <2>2. n \in P
    <3> HIDE DEF P
    <3> QED
      BY <2>1
  <2> QED
    BY <2>2
<1>4. AddrOfCse(c) = f[n].code
  BY DEF AddrOfCse, NextAddress
<1>5. f[0] = [code |-> <<>>, held |-> <<>>] /\ \A i \in 1 .. n : f[i] = Following(f[i - 1], i)
  <2> HIDE DEF f, Following
  <2>1. f[0] = Step(f, 0) /\ \A i \in 1 .. n : f[i] = Step(f, i) /\ i # 0
    <3> HIDE DEF Step
    <3> QED
      BY <1>3
  <2> QED
    BY <2>1
<1> HIDE DEF f
<1> QED
  BY <1>4, <1>5

\* An address that is reused becomes a copy.
LEMMA ReuseAddressKin ==
  ASSUME NEW F, NEW i, IsIns(i), NEW held
  PROVE  Kin(F, i, ReuseAddress(held, i))
<1>1. ReuseAddress(held, i) = i \/ (i.op = "addrof" /\ \E o : ReuseAddress(held, i) = Copy(i.dst, o))
  BY DEF ReuseAddress
<1>2. Kin(F, i, i)
  BY DEF Kin
<1>3. ASSUME i.op = "addrof", NEW o PROVE Kin(F, i, Copy(i.dst, o))
  <2>1. i.op \notin Fixed
    BY <1>3 DEF Fixed, Jumps, Returns, Direct
  <2>2. IsIns(Copy(i.dst, o)) /\ Copy(i.dst, o).op \notin Fixed
    BY CopyIs
  <2> QED
    BY <2>1, <2>2, Rewritten
<1> QED
  BY <1>1, <1>2, <1>3

\* _addr_of_cse is a pass.
LEMMA AddrOfCsePasses ==
  ASSUME NEW c, IsCode(c)
  PROVE  Passed(c, AddrOfCse(c))
<1>1. SUFFICES ASSUME NEW n \in Nat, n = Len(c)
               PROVE  Passed(c, AddrOfCse(c))
  BY CodeDomain
<1>2. PICK f : /\ f[0] = [code |-> <<>>, held |-> <<>>]
               /\ \A i \in 1 .. n : f[i] = NextAddress(f[i - 1], c[i])
               /\ AddrOfCse(c) = f[n].code
  BY <1>1, AddressSteps, SMTT(30)
<1> DEFINE P == {m \in 0 .. n : /\ IsSeq(f[m].code) /\ Len(f[m].code) = m
                                /\ \A k \in 1 .. m : Kin(Direct, c[k], f[m].code[k])}
<1>3. 0 \in P
  <2>1. f[0].code = <<>>
    BY <1>2
  <2> QED
    BY <2>1, EmptyIs
<1>4. ASSUME NEW m \in 1 .. n, m - 1 \in P PROVE m \in P
  <2> DEFINE e == ReuseAddress(f[m - 1].held, c[m])
             d == f[m - 1].code
  <2>1. IsSeq(d) /\ Len(d) = m - 1 /\ \A k \in 1 .. m - 1 : Kin(Direct, c[k], d[k])
    BY <1>4
  <2>2. f[m].code = Append(d, e)
    <3>1. f[m] = NextAddress(f[m - 1], c[m])
      BY <1>2
    <3> QED
      BY <3>1 DEF NextAddress
  <2>3. Kin(Direct, c[m], e)
    BY <1>1, CodeDomain, ReuseAddressKin
  <2> HIDE DEF e, d
  <2>4. /\ IsSeq(Append(d, e)) /\ Len(Append(d, e)) = m - 1 + 1 /\ Append(d, e)[m - 1 + 1] = e
        /\ \A k \in 1 .. m - 1 : Append(d, e)[k] = d[k]
    BY <2>1, AppendIs
  <2>5. m - 1 + 1 = m /\ m \in 0 .. n
    OBVIOUS
  <2>6. \A k \in 1 .. m : Kin(Direct, c[k], f[m].code[k])
    <3> SUFFICES ASSUME NEW k \in 1 .. m PROVE Kin(Direct, c[k], f[m].code[k])
      OBVIOUS
    <3>1. k = m \/ k \in 1 .. m - 1
      OBVIOUS
    <3> QED
      BY <2>1, <2>2, <2>3, <2>4, <2>5, <3>1
  <2>7. IsSeq(f[m].code) /\ Len(f[m].code) = m
    BY <2>2, <2>4, <2>5
  <2> QED
    BY <2>5, <2>6, <2>7
<1>5. n \in P
  <2> HIDE DEF P
  <2>1. 0 .. n \subseteq P
    BY <1>3, <1>4, UpTo
  <2> QED
    BY <2>1
<1> QED
  BY <1>1, <1>2, <1>5, MapPasses

\* _dead_store_elim removes stores only.
LEMMA DeadStoreElimPasses ==
  ASSUME NEW c, IsCode(c)
  PROVE  Passed(c, DeadStoreElim(c))
<1>1. \A k \in DeadStores(c) : c[k].op = "store"
  BY DEF DeadStores, StoresVar
<1>2. DeadStoreElim(c) = KeepOnly(c, DOMAIN c \ DeadStores(c))
  BY DEF DeadStoreElim, Without
<1>3. \A k \in 1 .. Len(c) : c[k].op \in {"label"} \cup Jumps \cup Returns => k \in DOMAIN c \ DeadStores(c)
  BY <1>1, CodeDomain DEF Jumps, Returns
<1> QED
  BY <1>2, <1>3, KeepOnlyPasses

\* The jumps of code can be counted.
LEMMA JumpCount ==
  ASSUME NEW c, IsCode(c)
  PROVE  Cardinality(JumpsOf(c)) \in Nat
<1>1. JumpsOf(c) \subseteq 1 .. Len(c) /\ Len(c) \in Nat
  BY CodeDomain DEF JumpsOf
<1>2. IsFiniteSet(1 .. Len(c))
  BY <1>1, FS_Interval
<1>3. IsFiniteSet(JumpsOf(c))
  BY <1>1, <1>2, FS_Subset
<1> QED
  BY <1>3, FS_CardinalityType

\* The jumps that lead to where they stand.
TrivialJumps(c) ==
  {k \in 1 .. Len(c) - 1 : c[k].op = "jump" /\ c[k + 1].op = "label" /\ c[k + 1].sym = c[k].sym}

\* A jump to the label after it may go: a label is left, or another jump.
LEMMA TrivialGonePasses ==
  ASSUME NEW c, IsCode(c)
  PROVE  Passed(c, Without(c, TrivialJumps(c)))
<1> DEFINE S == DOMAIN c \ TrivialJumps(c)
<1>1. Without(c, TrivialJumps(c)) = KeepOnly(c, S)
  BY DEF Without
<1>2. IsSeq(c) /\ DOMAIN c = 1 .. Len(c) /\ Len(c) \in Nat
  BY CodeDomain
<1>3. \A k \in TrivialJumps(c) : c[k].op = "jump" /\ k + 1 \in 1 .. Len(c) /\ c[k + 1].op = "label"
  BY <1>2 DEF TrivialJumps
<1>4. \A k \in 1 .. Len(c) : c[k].op = "label" => k \in S
  BY <1>2, <1>3
<1> HIDE DEF S
<1>5. Thinned(Direct, c, KeepOnly(c, S))
  BY <1>4, KeepOnlyThins
<1>6. ASSUME HasEnd(c) PROVE HasEnd(KeepOnly(c, S))
  <2>1. CASE TrivialJumps(c) = {}
    <3>1. DOMAIN c \subseteq S
      BY <2>1 DEF S
    <3>2. KeepOnly(c, S) = c
      BY <1>2, <3>1, KeepOnlyAll
    <3> QED
      BY <1>6, <3>2
  <2>2. CASE TrivialJumps(c) # {}
    <3>1. PICK k \in 1 .. Len(c) : c[k].op = "label"
      BY <1>3, <2>2
    <3> QED
      BY <1>2, <1>4, <3>1, KeepOnlyEnds
  <2> QED
    BY <2>1, <2>2
<1> QED
  BY <1>1, <1>5, <1>6 DEF Passed

\* RemoveTrivialJumps does so as often as there are jumps.
LEMMA TrivialSteps ==
  ASSUME NEW c, NEW n \in Nat, n = Cardinality(JumpsOf(c))
  PROVE  \E f : /\ f[0] = c
                /\ \A i \in 1 .. n : f[i] = Without(f[i - 1], TrivialJumps(f[i - 1]))
                /\ RemoveTrivialJumps(c) = f[n]
<1> DEFINE Following(x, i) == Without(x, TrivialJumps(x))
           Step(h, i) == IF i = 0 THEN c ELSE Following(h[i - 1], i)
           P == {m \in 0 .. n : \E h : h = [i \in 0 .. m |-> Step(h, i)]}
           f == CHOOSE h : h = [i \in 0 .. n |-> Step(h, i)]
<1>1. 0 \in P
  <2> DEFINE h == [i \in 0 .. 0 |-> c]
  <2>1. h = [i \in 0 .. 0 |-> Step(h, i)]
    OBVIOUS
  <2> HIDE DEF h
  <2>2. \E g : g = [i \in 0 .. 0 |-> Step(g, i)]
    BY <2>1
  <2> HIDE DEF Step
  <2> QED
    BY <2>2
<1>2. ASSUME NEW m \in 1 .. n, m - 1 \in P PROVE m \in P
  <2> HIDE DEF Following
  <2>1. PICK h : h = [i \in 0 .. m - 1 |-> Step(h, i)]
    BY <1>2
  <2> DEFINE g == [i \in 0 .. m |-> IF i = m THEN Following(h[m - 1], m) ELSE h[i]]
  <2>2. /\ g = [i \in 0 .. m |-> g[i]] /\ g[m] = Following(h[m - 1], m)
        /\ \A i \in 0 .. m - 1 : g[i] = h[i]
    OBVIOUS
  <2> HIDE DEF g
  <2>3. ASSUME NEW i \in 0 .. m PROVE g[i] = Step(g, i)
    <3>1. CASE i = m
      <4>1. m - 1 \in 0 .. m - 1 /\ m # 0
        OBVIOUS
      <4>2. h[m - 1] = g[m - 1]
        BY <2>2, <4>1
      <4> QED
        BY <2>2, <3>1, <4>1, <4>2
    <3>2. CASE i < m
      <4>1. i \in 0 .. m - 1 /\ (i # 0 => i - 1 \in 0 .. m - 1)
        BY <3>2
      <4>2. h[i] = Step(h, i)
        <5> HIDE DEF Step
        <5> QED
          BY <2>1, <4>1
      <4> QED
        BY <2>2, <4>1, <4>2
    <3> HIDE DEF Step
    <3> QED
      BY <3>1, <3>2
  <2>4. g = [i \in 0 .. m |-> Step(g, i)]
    <3> HIDE DEF Step
    <3> QED
      BY <2>2, <2>3
  <2> QED
    BY <2>4
<1>3. f = [i \in 0 .. n |-> Step(f, i)]
  <2>1. 0 .. n \subseteq P
    <3> HIDE DEF P
    <3> QED
      BY <1>1, <1>2, UpTo
  <2>2. n \in P
    <3> HIDE DEF P
    <3> QED
      BY <2>1
  <2> QED
    BY <2>2
<1>4. RemoveTrivialJumps(c) = f[n]
  BY DEF RemoveTrivialJumps, TrivialJumps
<1>5. f[0] = c /\ \A i \in 1 .. n : f[i] = Following(f[i - 1], i)
  <2> HIDE DEF f, Following
  <2>1. f[0] = Step(f, 0) /\ \A i \in 1 .. n : f[i] = Step(f, i) /\ i # 0
    <3> HIDE DEF Step
    <3> QED
      BY <1>3
  <2> QED
    BY <2>1
<1> HIDE DEF f
<1> QED
  BY <1>4, <1>5

\* _remove_trivial_jumps is a pass.
LEMMA RemoveTrivialJumpsPasses ==
  ASSUME NEW c, IsCode(c)
  PROVE  Passed(c, RemoveTrivialJumps(c))
<1>1. SUFFICES ASSUME NEW n \in Nat, n = Cardinality(JumpsOf(c))
               PROVE  Passed(c, RemoveTrivialJumps(c))
  BY JumpCount
<1>2. PICK f : /\ f[0] = c
               /\ \A i \in 1 .. n : f[i] = Without(f[i - 1], TrivialJumps(f[i - 1]))
               /\ RemoveTrivialJumps(c) = f[n]
  BY <1>1, TrivialSteps, SMTT(30)
<1> DEFINE P == {m \in 0 .. n : Passed(c, f[m])}
<1>3. 0 \in P
  BY <1>2, PassedSelf
<1>4. ASSUME NEW m \in 1 .. n, m - 1 \in P PROVE m \in P
  <2>1. Passed(c, f[m - 1]) /\ IsCode(f[m - 1])
    BY <1>4 DEF Passed, Thinned
  <2>2. Passed(f[m - 1], f[m])
    BY <1>2, <2>1, TrivialGonePasses
  <2>3. Passed(c, f[m])
    BY <2>1, <2>2, PassedTrans
  <2> QED
    BY <2>3
<1>5. n \in P
  <2> HIDE DEF P
  <2>1. 0 .. n \subseteq P
    BY <1>3, <1>4, UpTo
  <2> QED
    BY <2>1
<1> QED
  BY <1>2, <1>5

\* _unreachable_code_elim keeps what ends the code, and every label that a jump
\* left leads to.
LEMMA UnreachablePasses ==
  ASSUME NEW c, IsCode(c)
  PROVE  Passed(c, UnreachableCodeElim(c))
<1> DEFINE live(k) == \E d \in 1 .. k : /\ d = 1 \/ c[d].op = "label"
                                        /\ \A m \in d .. k - 1 : c[m].op \notin {"jump", "ret"}
           S == DOMAIN c \ {k \in DOMAIN c : ~live(k)}
<1>1. UnreachableCodeElim(c) = KeepOnly(c, S)
  BY DEF UnreachableCodeElim, Without
<1>2. IsSeq(c) /\ DOMAIN c = 1 .. Len(c) /\ Len(c) \in Nat
  BY CodeDomain
<1>3. ASSUME NEW k \in 1 .. Len(c), c[k].op = "label" PROVE k \in S
  <2>1. k \in 1 .. k /\ \A m \in k .. k - 1 : c[m].op \notin {"jump", "ret"}
    BY <1>2
  <2>2. live(k)
    BY <1>3, <2>1
  <2> HIDE DEF live
  <2> QED
    BY <1>2, <2>2
<1>4. ASSUME HasEnd(c) PROVE HasEnd(KeepOnly(c, S))
  <2> DEFINE E == {k \in 1 .. Len(c) : c[k].op \in {"label"} \cup Jumps \cup Returns}
             k == Min(E)
  <2>1. E # {} /\ E \subseteq 1 .. Len(c)
    BY <1>4 DEF HasEnd
  <2>2. k \in E /\ \A m \in E : k <= m
    <3> HIDE DEF E
    <3> QED
      BY <1>2, <2>1, MinIn
  <2>3. k \in 1 .. Len(c) /\ c[k].op \in {"label"} \cup Jumps \cup Returns
    <3> HIDE DEF k
    <3> QED
      BY <2>2
  <2>4. ASSUME NEW m \in 1 .. k - 1 PROVE c[m].op \notin {"jump", "ret"}
    <3>1. m \in 1 .. Len(c) /\ ~(k <= m)
      <4> HIDE DEF k
      <4> QED
        BY <1>2, <2>3
    <3>2. m \notin E
      <4> HIDE DEF E
      <4> QED
        BY <2>2, <3>1
    <3> HIDE DEF k
    <3> QED
      BY <3>1, <3>2 DEF Jumps, Returns
  <2> HIDE DEF k, E
  <2>5. live(k)
    <3>1. 1 \in 1 .. k
      BY <1>2, <2>3
    <3> QED
      BY <2>4, <3>1
  <2>6. k \in S
    <3> HIDE DEF live
    <3> QED
      BY <1>2, <2>3, <2>5
  <2> HIDE DEF S
  <2> QED
    BY <1>2, <2>3, <2>6, KeepOnlyEnds
<1> HIDE DEF S
<1>5. Thinned(Direct, c, KeepOnly(c, S))
  BY <1>3, KeepOnlyThins
<1> QED
  BY <1>1, <1>4, <1>5 DEF Passed

\* dce of one function is a pass.
LEMMA DceFunctionPasses ==
  ASSUME NEW c, IsCode(c)
  PROVE  Passed(c, DceFunction(c))
<1> DEFINE live == LiveTemps(c)
           S == {k \in DOMAIN c : AlwaysKeep(c[k]) \/ Defs(c[k]) \cap live # {}}
           kept == KeepOnly(c, S)
           d == [k \in DOMAIN kept |->
                   IF kept[k].op \in Calls /\ Defs(kept[k]) \cap live = {}
                   THEN [kept[k] EXCEPT !.dst = NoTemp, !.hi = NoTemp] ELSE kept[k]]
<1>1. DceFunction(c) = d
  BY DEF DceFunction
<1> HIDE DEF live
<1>2. IsSeq(c) /\ DOMAIN c = 1 .. Len(c) /\ Len(c) \in Nat
  BY CodeDomain
<1>3. \A k \in 1 .. Len(c) : c[k].op \in {"label"} \cup Jumps \cup Returns => k \in S
  BY <1>2 DEF AlwaysKeep
<1> HIDE DEF S
<1>4. Passed(c, kept)
  BY <1>3, KeepOnlyPasses
<1> HIDE DEF kept
<1>5. IsCode(kept)
  BY <1>4 DEF Passed, Thinned
<1>6. IsSeq(kept) /\ DOMAIN kept = 1 .. Len(kept) /\ \A k \in 1 .. Len(kept) : IsIns(kept[k])
  BY <1>5, CodeDomain
<1>7. d = [k \in DOMAIN kept |-> d[k]]
  OBVIOUS
<1>8. ASSUME NEW k \in 1 .. Len(kept) PROVE Kin(Direct, kept[k], d[k])
  <2> DEFINE i == kept[k]
             j == [i EXCEPT !.dst = NoTemp, !.hi = NoTemp]
  <2>1. d[k] = i \/ d[k] = j
    BY <1>6
  <2>2. IsIns(i)
    BY <1>6
  <2> HIDE DEF i, d
  <2>3. DOMAIN i = {"op", "dst", "hi", "sym", "addr", "args"}
    BY <2>2, WideDomain DEF IsIns
  <2>4. /\ DOMAIN j = {"op", "dst", "hi", "sym", "addr", "args"} /\ j = [m \in DOMAIN j |-> j[m]]
        /\ j.op = i.op /\ j.sym = i.sym /\ j.args = i.args
    BY <2>3
  <2> HIDE DEF j
  <2>5. Kin(Direct, i, i) /\ Kin(Direct, i, j)
    BY <2>2, <2>4, WideIs DEF IsIns, Kin
  <2>6. Kin(Direct, i, d[k])
    BY <2>1, <2>5
  <2> QED
    BY <2>6 DEF i
<1> HIDE DEF d
<1>9. IsSeq(d) /\ Len(d) = Len(kept)
  BY <1>6, <1>7, MappedIs
<1>10. Passed(kept, d)
  BY <1>5, <1>8, <1>9, MapPasses
<1> QED
  BY <1>1, <1>4, <1>10, PassedTrans

-----------------------------------------------------------------------------
(* Branch threading. *)
\* ResolveTarget after one more hop.
NextHop(c, h) ==
  IF h.label \in h.visited \/ LeadsTo(c, h.label) = {} THEN h
  ELSE [label |-> CHOOSE m \in LeadsTo(c, h.label) : TRUE, visited |-> h.visited \cup {h.label}]

\* f is how ResolveTarget(c, l) comes about in n hops.
Hops(c, l, n, f) ==
  /\ f[0] = [label |-> l, visited |-> {}]
  /\ \A i \in 1 .. n : f[i] = NextHop(c, f[i - 1])
  /\ ResolveTarget(c, l) = f[n].label

\* ResolveTarget follows jumps from label to label.
LEMMA HopSteps ==
  ASSUME NEW c, NEW l, NEW n \in Nat, n = Cardinality(JumpsOf(c)) + 1
  PROVE  \E f : Hops(c, l, n, f)
<1> DEFINE Following(x, i) == NextHop(c, x)
           Step(h, i) == IF i = 0 THEN [label |-> l, visited |-> {}] ELSE Following(h[i - 1], i)
           P == {m \in 0 .. n : \E h : h = [i \in 0 .. m |-> Step(h, i)]}
           f == CHOOSE h : h = [i \in 0 .. n |-> Step(h, i)]
<1>1. 0 \in P
  <2> DEFINE h == [i \in 0 .. 0 |-> [label |-> l, visited |-> {}]]
  <2>1. h = [i \in 0 .. 0 |-> Step(h, i)]
    OBVIOUS
  <2> HIDE DEF h
  <2>2. \E g : g = [i \in 0 .. 0 |-> Step(g, i)]
    BY <2>1
  <2> HIDE DEF Step
  <2> QED
    BY <2>2
<1>2. ASSUME NEW m \in 1 .. n, m - 1 \in P PROVE m \in P
  <2> HIDE DEF Following
  <2>1. PICK h : h = [i \in 0 .. m - 1 |-> Step(h, i)]
    BY <1>2
  <2> DEFINE g == [i \in 0 .. m |-> IF i = m THEN Following(h[m - 1], m) ELSE h[i]]
  <2>2. /\ g = [i \in 0 .. m |-> g[i]] /\ g[m] = Following(h[m - 1], m)
        /\ \A i \in 0 .. m - 1 : g[i] = h[i]
    OBVIOUS
  <2> HIDE DEF g
  <2>3. ASSUME NEW i \in 0 .. m PROVE g[i] = Step(g, i)
    <3>1. CASE i = m
      <4>1. m - 1 \in 0 .. m - 1 /\ m # 0
        OBVIOUS
      <4>2. h[m - 1] = g[m - 1]
        BY <2>2, <4>1
      <4> QED
        BY <2>2, <3>1, <4>1, <4>2
    <3>2. CASE i < m
      <4>1. i \in 0 .. m - 1 /\ (i # 0 => i - 1 \in 0 .. m - 1)
        BY <3>2
      <4>2. h[i] = Step(h, i)
        <5> HIDE DEF Step
        <5> QED
          BY <2>1, <4>1
      <4> QED
        BY <2>2, <4>1, <4>2
    <3> HIDE DEF Step
    <3> QED
      BY <3>1, <3>2
  <2>4. g = [i \in 0 .. m |-> Step(g, i)]
    <3> HIDE DEF Step
    <3> QED
      BY <2>2, <2>3
  <2> QED
    BY <2>4
<1>3. f = [i \in 0 .. n |-> Step(f, i)]
  <2>1. 0 .. n \subseteq P
    <3> HIDE DEF P
    <3> QED
      BY <1>1, <1>2, UpTo
  <2>2. n \in P
    <3> HIDE DEF P
    <3> QED
      BY <2>1
  <2> QED
    BY <2>2
<1>4. ResolveTarget(c, l) = f[n].label
  BY DEF ResolveTarget, NextHop
<1>5. f[0] = [label |-> l, visited |-> {}] /\ \A i \in 1 .. n : f[i] = Following(f[i - 1], i)
  <2> HIDE DEF f, Following
  <2>1. f[0] = Step(f, 0) /\ \A i \in 1 .. n : f[i] = Step(f, i) /\ i # 0
    <3> HIDE DEF Step
    <3> QED
      BY <1>3
  <2> QED
    BY <2>1
<1> HIDE DEF f
<1> QED
  BY <1>4, <1>5 DEF Hops

\* Where a jump behind a label leads, a jump leads.
LEMMA LeadsToTarget ==
  ASSUME NEW c, IsCode(c), NEW l, NEW m \in LeadsTo(c, l)
  PROVE  Targeted(c, m)
<1> DEFINE after == {k \in DOMAIN c : c[k].op # "label" /\ \E at \in LabelsAt(c, l) : at < k}
<1>1. after # {} /\ c[Min(after)].op = "jump" /\ m = c[Min(after)].sym
  BY DEF LeadsTo
<1>2. after \subseteq 1 .. Len(c) /\ Len(c) \in Nat
  BY CodeDomain
<1> HIDE DEF after
<1>3. Min(after) \in 1 .. Len(c)
  BY <1>1, <1>2, MinIn
<1> QED
  BY <1>1, <1>3 DEF Targeted, Jumps

\* A jump that is threaded leads where some jump led before.
LEMMA ResolveTargetRight ==
  ASSUME NEW c, IsCode(c), NEW l, Targeted(c, l)
  PROVE  Targeted(c, ResolveTarget(c, l))
<1>1. SUFFICES ASSUME NEW n \in Nat, n = Cardinality(JumpsOf(c)) + 1
               PROVE  Targeted(c, ResolveTarget(c, l))
  BY JumpCount
<1>0. PICK f : Hops(c, l, n, f)
  BY <1>1, HopSteps
<1>2. /\ f[0] = [label |-> l, visited |-> {}]
      /\ \A i \in 1 .. n : f[i] = NextHop(c, f[i - 1])
      /\ ResolveTarget(c, l) = f[n].label
  BY <1>0 DEF Hops
<1> DEFINE P == {m \in 0 .. n : Targeted(c, f[m].label)}
<1>3. 0 \in P
  BY <1>2
<1>4. ASSUME NEW m \in 1 .. n, m - 1 \in P PROVE m \in P
  <2>1. Targeted(c, f[m - 1].label) /\ f[m] = NextHop(c, f[m - 1])
    BY <1>2, <1>4
  <2>2. f[m] = f[m - 1] \/ f[m].label \in LeadsTo(c, f[m - 1].label)
    BY <2>1 DEF NextHop
  <2>3. Targeted(c, f[m].label)
    BY <2>1, <2>2, LeadsToTarget
  <2> QED
    BY <2>3
<1>5. n \in P
  <2> HIDE DEF P
  <2>1. 0 .. n \subseteq P
    BY <1>3, <1>4, UpTo
  <2> QED
    BY <2>1
<1> QED
  BY <1>2, <1>5

\* An instruction with another name is one.
LEMMA NewSym ==
  ASSUME NEW i, IsIns(i), NEW sym
  PROVE  LET j == [i EXCEPT !.sym = sym] IN IsIns(j) /\ j.op = i.op /\ j.sym = sym /\ j.args = i.args
<1> DEFINE j == [i EXCEPT !.sym = sym]
<1>1. DOMAIN i = {"op", "dst", "hi", "sym", "addr", "args"}
  BY WideDomain DEF IsIns
<1>2. /\ DOMAIN j = {"op", "dst", "hi", "sym", "addr", "args"} /\ j = [k \in DOMAIN j |-> j[k]]
      /\ j.op = i.op /\ j.sym = sym /\ j.args = i.args
  BY <1>1
<1> HIDE DEF j
<1>3. IsIns(j)
  BY <1>2, WideIs DEF IsIns
<1> QED
  BY <1>2, <1>3 DEF j

\* A pass that changes what jumps lead to, in a function whose entry is e.
Threaded(c, d, e) ==
  /\ IsCode(d) /\ CallsFrom(c, d)
  /\ HasEnd(c) => HasEnd(d)
  /\ WellLabelled(c, e) => WellLabelled(d, e)

\* A pass keeps what threading keeps.
LEMMA PassedThreaded ==
  ASSUME NEW c, IsCode(c), NEW d, Passed(c, d), NEW e
  PROVE  Threaded(c, d, e)
<1>1. Thinned(Direct, c, d) /\ (HasEnd(c) => HasEnd(d)) /\ IsCode(d)
  BY DEF Passed, Thinned
<1>2. CallsFrom(c, d)
  BY <1>1, ThinnedCalls
<1>3. WellLabelled(c, e) => WellLabelled(d, e)
  BY <1>1, ThinnedLabels
<1> QED
  BY <1>1, <1>2, <1>3 DEF Threaded

\* One after the other they keep it too.
LEMMA ThreadedTrans ==
  ASSUME NEW b, NEW c, NEW d, NEW e, Threaded(b, c, e), Threaded(c, d, e)
  PROVE  Threaded(b, d, e)
BY CallsFromTrans DEF Threaded

\* Nothing done keeps everything.
LEMMA ThreadedSelf ==
  ASSUME NEW c, IsCode(c), NEW e
  PROVE  Threaded(c, c, e)
BY PassedSelf, PassedThreaded

\* _branch_threading changes the targets of jumps, and labels stay right.
LEMMA BranchThreadingRight ==
  ASSUME NEW c, IsCode(c), NEW e
  PROVE  Threaded(c, BranchThreading(c), e)
<1> DEFINE new == [k \in DOMAIN c |->
                     IF c[k].op \in Jumps
                     THEN [c[k] EXCEPT !.sym = ResolveTarget(c, c[k].sym)] ELSE c[k]]
           S == {k \in DOMAIN new : new[k].op = "label" => new[k].sym \in JumpTargets(new)}
<1>1. BranchThreading(c) = IF new = c THEN c ELSE KeepOnly(new, S)
  BY DEF BranchThreading
<1>2. IsSeq(c) /\ DOMAIN c = 1 .. Len(c) /\ Len(c) \in Nat /\ \A k \in 1 .. Len(c) : IsIns(c[k])
  BY CodeDomain
<1>3. new = [k \in DOMAIN c |-> new[k]]
  OBVIOUS
<1>4. \A k \in 1 .. Len(c) : c[k].op \in Jumps =>
        new[k] = [c[k] EXCEPT !.sym = ResolveTarget(c, c[k].sym)]
  BY <1>2
<1>5. \A k \in 1 .. Len(c) : c[k].op \notin Jumps => new[k] = c[k]
  BY <1>2
<1>6. (\A k \in 1 .. Len(c) : c[k].op \notin Jumps) => new = c
  <2>1. c = [k \in DOMAIN c |-> c[k]]
    BY <1>2 DEF IsSeq
  <2> HIDE DEF new
  <2> QED
    BY <1>2, <1>3, <1>5, <2>1
<1> HIDE DEF new
<1>7. IsSeq(new) /\ Len(new) = Len(c) /\ DOMAIN new = 1 .. Len(c)
  BY <1>2, <1>3, MappedIs
<1>8. ASSUME NEW k \in 1 .. Len(c)
      PROVE  /\ IsIns(new[k]) /\ new[k].op = c[k].op /\ new[k].args = c[k].args
             /\ c[k].op \notin Jumps => new[k].sym = c[k].sym
             /\ c[k].op \in Jumps => new[k].sym = ResolveTarget(c, c[k].sym)
  <2>1. CASE c[k].op \in Jumps
    <3> DEFINE sym == ResolveTarget(c, c[k].sym)
    <3>1. new[k] = [c[k] EXCEPT !.sym = sym] /\ IsIns(c[k])
      BY <1>2, <1>4, <2>1
    <3> HIDE DEF sym
    <3>2. IsIns(new[k]) /\ new[k].op = c[k].op /\ new[k].sym = sym /\ new[k].args = c[k].args
      BY <3>1, NewSym
    <3> QED
      BY <2>1, <3>2 DEF sym
  <2>2. CASE c[k].op \notin Jumps
    BY <1>2, <1>5, <2>2
  <2> QED
    BY <2>1, <2>2
<1>9. IsCode(new)
  BY <1>7, <1>8 DEF IsCode
<1>10. CallsFrom(c, new)
  BY <1>7, <1>8 DEF CallsFrom, Direct, Jumps
<1>11. HasEnd(c) => HasEnd(new)
  BY <1>7, <1>8 DEF HasEnd
<1>12. ASSUME NEW l PROVE LabelsAt(new, l) = LabelsAt(c, l)
  <2>1. \A k \in 1 .. Len(c) : new[k].op = c[k].op /\ (c[k].op = "label" => new[k].sym = c[k].sym)
    BY <1>8 DEF Jumps
  <2> QED
    BY <1>2, <1>7, <2>1 DEF LabelsAt
<1>13. ASSUME NEW l, Targeted(new, l) PROVE Targeted(c, l)
  <2>1. PICK k \in 1 .. Len(c) : new[k].op \in Jumps /\ new[k].sym = l
    BY <1>7, <1>13 DEF Targeted
  <2>2. c[k].op \in Jumps /\ l = ResolveTarget(c, c[k].sym)
    BY <1>8, <2>1
  <2>3. Targeted(c, c[k].sym)
    BY <2>2 DEF Targeted
  <2> QED
    BY <2>2, <2>3, ResolveTargetRight
<1>14. WellLabelled(c, e) => WellLabelled(new, e)
  BY <1>12, <1>13 DEF WellLabelled
<1>15. Threaded(c, new, e)
  BY <1>9, <1>10, <1>11, <1>14 DEF Threaded
<1>16. ASSUME new # c PROVE Threaded(new, KeepOnly(new, S), e)
  <2>1. PICK k \in 1 .. Len(new) : new[k].op \in Jumps
    BY <1>6, <1>7, <1>8, <1>16
  <2>2. k \in S
    BY <1>7, <2>1 DEF Jumps
  <2> DEFINE d == KeepOnly(new, S)
  <2>3. \E g \in [1 .. Len(d) -> 1 .. Len(new)] :
                /\ \A i, j \in 1 .. Len(d) : i < j => g[i] < g[j]
                /\ \A i \in 1 .. Len(d) : d[i] = new[g[i]] /\ g[i] \in S
                /\ \A m \in 1 .. Len(new) : m \in S => \E i \in 1 .. Len(d) : g[i] = m
    <3> HIDE DEF S
    <3> QED
      BY <1>7, KeepOnlyRight
  <2>4. ASSUME NEW m \in 1 .. Len(new), new[m].op = "label", Targeted(d, new[m].sym) PROVE m \in S
    <3> HIDE DEF d
    <3>1. PICK i \in 1 .. Len(d) : d[i].op \in Jumps /\ d[i].sym = new[m].sym
      BY <2>4 DEF Targeted
    <3>2. PICK j \in 1 .. Len(new) : d[i] = new[j]
      BY <2>3, <3>1
    <3>3. new[m].sym \in JumpTargets(new)
      BY <1>7, <3>1, <3>2 DEF JumpTargets
    <3> QED
      BY <1>7, <3>3
  <2> HIDE DEF S
  <2>5. Thinned(Direct, new, d)
    BY <1>9, <2>4, KeepOnlyThins
  <2>6. HasEnd(d)
    BY <1>7, <2>1, <2>2, KeepOnlyEnds
  <2>7. Passed(new, d)
    BY <2>5, <2>6 DEF Passed
  <2> QED
    BY <1>9, <2>7, PassedThreaded
<1> HIDE DEF S
<1>17. Threaded(c, c, e)
  BY ThreadedSelf
<1> QED
  BY <1>1, <1>15, <1>16, <1>17, ThreadedTrans

-----------------------------------------------------------------------------
(* Tail calls. *)
\* A store is an instruction.
LEMMA StoreIs ==
  ASSUME NEW v, NEW o
  PROVE  IsIns(Store(v, o)) /\ Store(v, o).op = "store"
<1> DEFINE s == <<o>>
<1>1. IsSeq(s)
  BY TupleIs
<1> HIDE DEF s
<1>2. LET i == Wide("store", NoTemp, NoTemp, <<>>, v, s)
      IN  i = Wide(i.op, i.dst, i.hi, i.sym, i.addr, i.args) /\ i.args = s /\ i.op = "store"
  BY DEF Wide
<1> QED
  BY <1>1, <1>2 DEF IsIns, Store, Ins, s

\* A jump is an instruction.
LEMMA JumpIs ==
  ASSUME NEW l
  PROVE  IsIns(Jump(l)) /\ Jump(l).op = "jump" /\ Jump(l).sym = l
<1> DEFINE s == <<>>
<1>1. IsSeq(s)
  BY TupleIs
<1> HIDE DEF s
<1>2. LET i == Wide("jump", NoTemp, NoTemp, l, Nothing, s)
      IN  i = Wide(i.op, i.dst, i.hi, i.sym, i.addr, i.args) /\ i.args = s /\ i.op = "jump" /\ i.sym = l
  BY DEF Wide
<1> QED
  BY <1>1, <1>2 DEF IsIns, Jump, Ins, s

\* A label is an instruction.
LEMMA LabelIs ==
  ASSUME NEW l
  PROVE  IsIns(Label(l)) /\ Label(l).op = "label" /\ Label(l).sym = l
<1> DEFINE s == <<>>
<1>1. IsSeq(s)
  BY TupleIs
<1> HIDE DEF s
<1>2. LET i == Wide("label", NoTemp, NoTemp, l, Nothing, s)
      IN  i = Wide(i.op, i.dst, i.hi, i.sym, i.addr, i.args) /\ i.args = s /\ i.op = "label" /\ i.sym = l
  BY DEF Wide
<1> QED
  BY <1>1, <1>2 DEF IsIns, Label, Ins, s

\* What a tail call becomes: no label and no call, and one jump, to the entry.
Leading(i, entry) == IsIns(i) /\ (i.op \in {"copy", "store"} \/ (i.op = "jump" /\ i.sym = entry))

\* The code that assigns parameters anew ends in a jump to the entry, and has no
\* label and no call.
LEMMA ReassignRight ==
  ASSUME NEW params, IsSeq(params), NEW args, IsSeq(args), NEW fresh, NEW entry
  PROVE  LET r == ReassignParams(params, args, fresh, entry)
         IN  IsSeq(r) /\ \A i \in 1 .. Len(r) : Leading(r[i], entry)
<1> DEFINE n == Min({Len(params), Len(args)})
           p == [j \in 1 .. Len(args) |-> Copy(fresh + j, args[j])]
           q == [j \in 1 .. n |-> Store(V(params[j]), T(fresh + j))]
           e == <<Jump(entry)>>
           r == p \o q \o e
<1>1. Len(params) \in Nat /\ Len(args) \in Nat
  BY SeqDomain
<1>2. n \in Nat
  <2>1. CASE Len(params) <= Len(args)
    <3>1. \E x \in {Len(params), Len(args)} : \A y \in {Len(params), Len(args)} : x <= y
      BY <1>1, <2>1
    <3> QED
      BY <1>1, <3>1 DEF Min
  <2>2. CASE ~(Len(params) <= Len(args))
    <3>1. \E x \in {Len(params), Len(args)} : \A y \in {Len(params), Len(args)} : x <= y
      BY <1>1, <2>2
    <3> QED
      BY <1>1, <3>1 DEF Min
  <2> QED
    BY <2>1, <2>2
<1>3. r = ReassignParams(params, args, fresh, entry)
  BY DEF ReassignParams
<1>4. p = [j \in 1 .. Len(args) |-> p[j]] /\ DOMAIN p = 1 .. Len(args)
  OBVIOUS
<1> HIDE DEF n
<1>5. q = [j \in 1 .. n |-> q[j]] /\ DOMAIN q = 1 .. n
  OBVIOUS
<1>6. \A j \in 1 .. Len(args) : Leading(p[j], entry)
  <2> SUFFICES ASSUME NEW j \in 1 .. Len(args) PROVE Leading(p[j], entry)
    OBVIOUS
  <2>1. p[j] = Copy(fresh + j, args[j])
    OBVIOUS
  <2> QED
    BY <2>1, CopyIs DEF Leading
<1>7. \A j \in 1 .. n : Leading(q[j], entry)
  <2> SUFFICES ASSUME NEW j \in 1 .. n PROVE Leading(q[j], entry)
    OBVIOUS
  <2>1. q[j] = Store(V(params[j]), T(fresh + j))
    OBVIOUS
  <2> QED
    BY <2>1, StoreIs DEF Leading
<1>8. IsSeq(e) /\ Len(e) = 1 /\ Leading(e[1], entry)
  <2>1. e[1] = Jump(entry) /\ IsSeq(e) /\ Len(e) = 1
    BY TupleIs
  <2> HIDE DEF e
  <2> QED
    BY <2>1, JumpIs DEF Leading
<1> HIDE DEF p, q, e
<1>9. IsSeq(p) /\ Len(p) = Len(args)
  BY <1>1, <1>4, SeqShaped
<1>10. IsSeq(q) /\ Len(q) = n
  BY <1>2, <1>5, SeqShaped
<1>11. /\ IsSeq(p \o q) /\ Len(p \o q) = Len(args) + n
       /\ \A k \in 1 .. Len(args) : (p \o q)[k] = p[k]
       /\ \A k \in 1 .. n : (p \o q)[Len(args) + k] = q[k]
  BY <1>9, <1>10, ConcatIs
<1>12. \A k \in 1 .. Len(args) + n : Leading((p \o q)[k], entry)
  <2> SUFFICES ASSUME NEW k \in 1 .. Len(args) + n PROVE Leading((p \o q)[k], entry)
    OBVIOUS
  <2>1. CASE k \in 1 .. Len(args)
    BY <1>6, <1>11, <2>1
  <2>2. CASE k \notin 1 .. Len(args)
    <3>1. k - Len(args) \in 1 .. n /\ Len(args) + (k - Len(args)) = k
      BY <1>1, <1>2, <2>2
    <3>2. (p \o q)[Len(args) + (k - Len(args))] = q[k - Len(args)]
      BY <1>11, <3>1
    <3> QED
      BY <1>7, <3>1, <3>2
  <2> QED
    BY <2>1, <2>2
<1>13. /\ IsSeq(r) /\ Len(r) = Len(args) + n + 1
       /\ \A k \in 1 .. Len(args) + n : r[k] = (p \o q)[k]
       /\ r[Len(args) + n + 1] = e[1]
  <2> DEFINE b == p \o q
  <2>1. r = b \o e /\ IsSeq(b) /\ Len(b) = Len(args) + n
    BY <1>11
  <2> HIDE DEF b, r
  <2>2. /\ IsSeq(b \o e) /\ Len(b \o e) = Len(b) + Len(e)
        /\ \A k \in 1 .. Len(b) : (b \o e)[k] = b[k]
        /\ \A k \in 1 .. Len(e) : (b \o e)[Len(b) + k] = e[k]
    <3>1. IsSeq(b) /\ IsSeq(e)
      BY <1>8, <2>1
    <3>2. IsSeq(b \o e) /\ Len(b \o e) = Len(b) + Len(e)
      BY <3>1, ConcatIs
    <3>3. \A k \in 1 .. Len(b) : (b \o e)[k] = b[k]
      BY <3>1, ConcatIs
    <3>4. \A k \in 1 .. Len(e) : (b \o e)[Len(b) + k] = e[k]
      BY <3>1, ConcatIs
    <3> QED
      BY <3>2, <3>3, <3>4
  <2>3. 1 \in 1 .. Len(e)
    BY <1>8
  <2> QED
    BY <1>8, <2>1, <2>2, <2>3 DEF b
<1> HIDE DEF r
<1>14. \A k \in 1 .. Len(r) : Leading(r[k], entry)
  <2> SUFFICES ASSUME NEW k \in 1 .. Len(r) PROVE Leading(r[k], entry)
    OBVIOUS
  <2>1. k \in 1 .. Len(args) + n \/ k = Len(args) + n + 1
    BY <1>1, <1>2, <1>13
  <2> QED
    BY <1>8, <1>12, <1>13, <2>1
<1> QED
  BY <1>3, <1>13, <1>14

\* _tail_call_opt puts the entry label at the start, again perhaps, and jumps
\* there in the place of calls: every jump has its label still.
LEMMA TailCallRight ==
  ASSUME NEW f, "code" \in DOMAIN f, IsSeq(f.params), IsCode(f.code)
  PROVE  /\ Threaded(f.code, TailCallOpt(f).code, TailEntry(f))
         /\ TailCallOpt(f) = f \/ \E d : TailCallOpt(f) = [f EXCEPT !.code = d]
<1> DEFINE c == f.code
           calls == TailCalls(f)
           entry == TailEntry(f)
           maxId == Max({0} \cup UNION {Defs(f.code[k]) : k \in DOMAIN f.code})
           freshBefore(k) == maxId + SumArgs(f.code, {m \in calls : m > k})
           piece(k) == IF k \in calls
                       THEN ReassignParams(f.params, f.code[k].args, freshBefore(k), entry)
                       ELSE IF k - 1 \in calls THEN <<>> ELSE <<f.code[k]>>
           p == [k \in DOMAIN f.code |-> piece(k)]
           F == FlattenSeq(p)
           d == <<Label(entry)>> \o F
<1>1. TailCallOpt(f) = IF calls = {} THEN f ELSE [f EXCEPT !.code = d]
  BY DEF TailCallOpt
<1>2. IsSeq(c) /\ DOMAIN c = 1 .. Len(c) /\ Len(c) \in Nat /\ \A k \in 1 .. Len(c) : IsIns(c[k])
  BY CodeDomain
<1>3. calls \subseteq 1 .. Len(c) - 1 /\ \A k \in calls : c[k].op = "call" /\ c[k + 1].op = "ret"
  BY DEF TailCalls
<1>4. p = [k \in DOMAIN c |-> p[k]]
  OBVIOUS
<1>5. ASSUME NEW k \in 1 .. Len(c), k \in calls
      PROVE  IsSeq(p[k]) /\ \A i \in 1 .. Len(p[k]) : Leading(p[k][i], entry)
  <2> DEFINE fresh == freshBefore(k)
  <2>1. p[k] = ReassignParams(f.params, c[k].args, fresh, entry)
    BY <1>2, <1>5
  <2>2. IsSeq(c[k].args)
    BY <1>2 DEF IsIns
  <2> HIDE DEF fresh, p, entry
  <2> QED
    BY <2>1, <2>2, ReassignRight
<1>6. ASSUME NEW k \in 1 .. Len(c), k \notin calls, k - 1 \in calls
      PROVE  p[k] = <<>>
  <2> HIDE DEF calls
  <2> QED
    BY <1>2, <1>6
<1>7. ASSUME NEW k \in 1 .. Len(c), k \notin calls, k - 1 \notin calls
      PROVE  p[k] = <<c[k]>>
  <2> HIDE DEF calls
  <2> QED
    BY <1>2, <1>7
<1> HIDE DEF p, calls
<1>8. IsSeq(p) /\ Len(p) = Len(c) /\ DOMAIN p = 1 .. Len(c)
  BY <1>2, <1>4, MappedIs
<1>9. ASSUME NEW k \in 1 .. Len(c)
      PROVE  /\ IsSeq(p[k])
             /\ \A i \in 1 .. Len(p[k]) : Leading(p[k][i], entry) \/ (i = 1 /\ p[k][i] = c[k])
  <2> HIDE DEF entry
  <2>1. CASE k \in calls
    BY <1>5, <2>1
  <2>2. CASE k \notin calls /\ k - 1 \in calls
    BY <1>6, <2>2, TupleIs
  <2>3. CASE k \notin calls /\ k - 1 \notin calls
    <3>1. IsSeq(p[k]) /\ Len(p[k]) = 1 /\ p[k][1] = c[k]
      BY <1>7, <2>3, TupleIs
    <3> QED
      BY <3>1
  <2> QED
    BY <2>1, <2>2, <2>3
<1>10. ASSUME NEW k \in 1 .. Len(c), c[k].op = "label"
       PROVE  Len(p[k]) = 1 /\ p[k][1] = c[k]
  <2>1. k \notin calls
    BY <1>3, <1>10
  <2>2. k - 1 \notin calls
    <3>1. SUFFICES ASSUME k - 1 \in calls PROVE FALSE
      OBVIOUS
    <3>2. c[(k - 1) + 1].op = "ret" /\ (k - 1) + 1 = k
      BY <1>3, <3>1
    <3> QED
      BY <1>10, <3>2
  <2> QED
    BY <1>7, <2>1, <2>2, TupleIs
<1>11. IsSeq(F) /\ \E w, x : Laid(p, F, w, x)
  BY <1>8, <1>9, FlattenRight
<1> HIDE DEF F
<1>12. PICK w, x : Laid(p, F, w, x)
  BY <1>11
<1>13. /\ Len(F) \in Nat
       /\ \A q \in 1 .. Len(F) : w[q] \in 1 .. Len(c) /\ x[q] \in 1 .. Len(p[w[q]]) /\ F[q] = p[w[q]][x[q]]
       /\ \A q, r \in 1 .. Len(F) : q < r => w[q] < w[r] \/ (w[q] = w[r] /\ x[q] < x[r])
       /\ \A k \in 1 .. Len(c) : \A i \in 1 .. Len(p[k]) : \E q \in 1 .. Len(F) : w[q] = k /\ x[q] = i
  <2>1. Len(F) \in Nat
    BY <1>11, SeqDomain
  <2>2. Laid(p, F, w, x) /\ Len(p) = Len(c)
    BY <1>8, <1>12
  <2>3. \A q \in 1 .. Len(F) : w[q] \in 1 .. Len(c)
    BY <2>2 DEF Laid
  <2>4. \A q \in 1 .. Len(F) : x[q] \in 1 .. Len(p[w[q]]) /\ F[q] = p[w[q]][x[q]]
    BY <2>2 DEF Laid
  <2>5. \A q, r \in 1 .. Len(F) : q < r => w[q] < w[r] \/ (w[q] = w[r] /\ x[q] < x[r])
    BY <2>2 DEF Laid
  <2>6. \A k \in 1 .. Len(c) : \A i \in 1 .. Len(p[k]) : \E q \in 1 .. Len(F) : w[q] = k /\ x[q] = i
    BY <2>2 DEF Laid
  <2> QED
    BY <2>1, <2>3, <2>4, <2>5, <2>6
<1>14. \A q \in 1 .. Len(F) : Leading(F[q], entry) \/ (x[q] = 1 /\ F[q] = c[w[q]])
  <2> SUFFICES ASSUME NEW q \in 1 .. Len(F)
               PROVE  Leading(F[q], entry) \/ (x[q] = 1 /\ F[q] = c[w[q]])
    OBVIOUS
  <2> HIDE DEF entry
  <2>1. w[q] \in 1 .. Len(c) /\ x[q] \in 1 .. Len(p[w[q]]) /\ F[q] = p[w[q]][x[q]]
    BY <1>13
  <2>2. \A i \in 1 .. Len(p[w[q]]) : Leading(p[w[q]][i], entry) \/ (i = 1 /\ p[w[q]][i] = c[w[q]])
    BY <1>9, <2>1
  <2> QED
    BY <2>1, <2>2
<1>15. \A k \in 1 .. Len(c) : c[k].op = "label" => \E q \in 1 .. Len(F) : w[q] = k /\ F[q] = c[k]
  <2> SUFFICES ASSUME NEW k \in 1 .. Len(c), c[k].op = "label"
               PROVE  \E q \in 1 .. Len(F) : w[q] = k /\ F[q] = c[k]
    OBVIOUS
  <2>1. 1 \in 1 .. Len(p[k])
    BY <1>10
  <2>2. PICK q \in 1 .. Len(F) : w[q] = k /\ x[q] = 1
    BY <1>13, <2>1
  <2> QED
    BY <1>10, <1>13, <2>2
<1> HIDE DEF entry
<1>16. IsSeq(<<Label(entry)>>) /\ Len(<<Label(entry)>>) = 1 /\ <<Label(entry)>>[1] = Label(entry)
  BY TupleIs
<1>17. IsSeq(d) /\ Len(d) = 1 + Len(F) /\ d[1] = Label(entry) /\ \A q \in 1 .. Len(F) : d[1 + q] = F[q]
  <2> DEFINE s == <<Label(entry)>>
  <2>1. IsSeq(s) /\ IsSeq(F) /\ Len(s) = 1 /\ s[1] = Label(entry)
    BY <1>11, <1>16
  <2> HIDE DEF s
  <2>0. IsSeq(s) /\ IsSeq(F)
    BY <2>1
  <2>2. IsSeq(s \o F) /\ Len(s \o F) = Len(s) + Len(F)
    BY <2>0, ConcatIs
  <2>3. \A k \in 1 .. Len(s) : (s \o F)[k] = s[k]
    BY <2>0, ConcatIs
  <2>4. \A k \in 1 .. Len(F) : (s \o F)[Len(s) + k] = F[k]
    BY <2>0, ConcatIs
  <2>5. 1 \in 1 .. Len(s)
    BY <2>1
  <2>6. d = s \o F
    BY DEF s
  <2> HIDE DEF d
  <2> QED
    BY <2>1, <2>2, <2>3, <2>4, <2>5, <2>6
<1> HIDE DEF d
<1>18. \A i \in 1 .. Len(d) : i = 1 \/ \E q \in 1 .. Len(F) : i = 1 + q /\ d[i] = F[q]
  <2> SUFFICES ASSUME NEW i \in 1 .. Len(d), i # 1
               PROVE  \E q \in 1 .. Len(F) : i = 1 + q /\ d[i] = F[q]
    OBVIOUS
  <2>1. i - 1 \in 1 .. Len(F) /\ 1 + (i - 1) = i
    BY <1>13, <1>17
  <2> QED
    BY <1>17, <2>1
<1>19. IsIns(Label(entry)) /\ Label(entry).op = "label" /\ Label(entry).sym = entry
  BY LabelIs
<1>20. IsCode(d)
  <2>1. \A q \in 1 .. Len(F) : IsIns(F[q])
    BY <1>2, <1>13, <1>14 DEF Leading
  <2>2. \A i \in 1 .. Len(d) : IsIns(d[i])
    BY <1>17, <1>18, <1>19, <2>1
  <2> QED
    BY <1>17, <2>2 DEF IsCode
<1>21. CallsFrom(c, d)
  <2>1. ASSUME NEW i \in 1 .. Len(d), d[i].op \in Direct
        PROVE  \E k \in 1 .. Len(c) : c[k] = d[i]
    <3>1. i # 1
      BY <1>17, <1>19, <2>1 DEF Direct
    <3>2. PICK q \in 1 .. Len(F) : d[i] = F[q]
      BY <1>18, <3>1
    <3>3. ~Leading(F[q], entry)
      BY <2>1, <3>2 DEF Leading, Direct
    <3>4. F[q] = c[w[q]] /\ w[q] \in 1 .. Len(c)
      BY <1>13, <1>14, <3>3
    <3> QED
      BY <3>2, <3>4
  <2> QED
    BY <2>1 DEF CallsFrom
<1>22. HasEnd(d)
  <2>1. 1 \in 1 .. Len(d)
    BY <1>13, <1>17
  <2> QED
    BY <1>17, <1>19, <2>1 DEF HasEnd
<1>23. ASSUME NEW q \in 1 .. Len(F), NEW l
       PROVE  1 + q \in LabelsAt(d, l) <=> (F[q] = c[w[q]] /\ w[q] \in LabelsAt(c, l))
  <2>1. 1 + q \in LabelsAt(d, l) <=> F[q].op = "label" /\ F[q].sym = l
    <3>1. 1 + q \in 1 .. Len(d) /\ d[1 + q] = F[q]
      BY <1>13, <1>17
    <3> QED
      BY <1>17, <3>1, LabelIn
  <2>2. F[q].op = "label" => F[q] = c[w[q]]
    BY <1>14 DEF Leading
  <2>3. w[q] \in LabelsAt(c, l) <=> c[w[q]].op = "label" /\ c[w[q]].sym = l
    BY <1>2, <1>13, LabelIn
  <2> QED
    BY <2>1, <2>2, <2>3
<1>24. ASSUME NEW l PROVE 1 \in LabelsAt(d, l) <=> l = entry
  <2>1. 1 \in 1 .. Len(d)
    BY <1>13, <1>17
  <2> QED
    BY <1>17, <1>19, <2>1, LabelIn
<1>25. ASSUME WellLabelled(c, entry) PROVE WellLabelled(d, entry)
  <2>1. ASSUME NEW i \in LabelsAt(d, entry), NEW j \in 1 .. i PROVE j \in LabelsAt(d, entry)
    <3>0. i \in 1 .. Len(d) /\ j \in 1 .. Len(d) /\ Len(d) \in Nat
      BY <1>13, <1>17, <2>1, LabelIn
    <3>1. CASE j = 1
      BY <1>24, <3>1
    <3>2. CASE j = i
      BY <3>2
    <3>3. CASE j # 1 /\ j # i
      <4>1. PICK r \in 1 .. Len(F) : j = 1 + r
        BY <1>18, <3>0, <3>3
      <4>2. PICK q \in 1 .. Len(F) : i = 1 + q
        BY <1>18, <3>0, <3>3
      <4>3. r < q
        BY <3>0, <3>3, <4>1, <4>2
      <4>4. F[q] = c[w[q]] /\ w[q] \in LabelsAt(c, entry)
        BY <1>23, <2>1, <4>2
      <4>5. c[w[q]].op = "label"
        BY <1>2, <4>4, LabelIn
      <4>6. x[q] = 1
        BY <1>14, <4>4, <4>5 DEF Leading
      <4>7. w[r] < w[q]
        <5>1. x[r] \in Nat /\ x[r] >= 1
          BY <1>8, <1>9, <1>13, SeqDomain
        <5>2. w[r] < w[q] \/ (w[r] = w[q] /\ x[r] < x[q])
          BY <1>13, <4>3
        <5> QED
          BY <4>6, <5>1, <5>2
      <4>8. w[r] \in 1 .. w[q]
        BY <1>13, <4>7
      <4>9. w[r] \in LabelsAt(c, entry)
        BY <1>25, <4>4, <4>8 DEF WellLabelled
      <4>10. c[w[r]].op = "label" /\ w[r] \in 1 .. Len(c)
        BY <1>2, <4>9, LabelIn
      <4>11. F[r] = c[w[r]]
        <5>1. Len(p[w[r]]) = 1 /\ p[w[r]][1] = c[w[r]]
          BY <1>10, <4>10
        <5>2. x[r] \in 1 .. 1
          BY <1>13, <5>1
        <5>3. x[r] = 1
          BY <5>2
        <5> QED
          BY <1>13, <5>1, <5>3
      <4> QED
        BY <1>23, <4>1, <4>9, <4>11
    <3> QED
      BY <3>1, <3>2, <3>3
  <2>2. ASSUME NEW l, Targeted(d, l), l # entry PROVE \E m : LabelsAt(d, l) = {m}
    <3>1. PICK i \in 1 .. Len(d) : d[i].op \in Jumps /\ d[i].sym = l
      BY <2>2 DEF Targeted
    <3>2. i # 1
      BY <1>17, <1>19, <3>1 DEF Jumps
    <3>3. PICK q \in 1 .. Len(F) : d[i] = F[q]
      BY <1>18, <3>2
    <3>4. F[q] = c[w[q]] /\ w[q] \in 1 .. Len(c)
      BY <1>13, <1>14, <2>2, <3>1, <3>3 DEF Leading, Jumps
    <3>5. Targeted(c, l)
      BY <3>1, <3>3, <3>4 DEF Targeted
    <3>6. PICK m : LabelsAt(c, l) = {m}
      BY <1>25, <2>2, <3>5 DEF WellLabelled
    <3>7. m \in LabelsAt(c, l)
      BY <3>6
    <3>8. m \in 1 .. Len(c) /\ c[m].op = "label"
      BY <1>2, <3>7, LabelIn
    <3>9. PICK r \in 1 .. Len(F) : w[r] = m /\ F[r] = c[m]
      BY <1>15, <3>8
    <3>10. 1 + r \in LabelsAt(d, l)
      BY <1>23, <3>7, <3>9
    <3>11. ASSUME NEW j, j \in LabelsAt(d, l) PROVE j = 1 + r
      <4>1. j \in 1 .. Len(d) /\ j # 1
        BY <1>17, <1>24, <2>2, <3>11, LabelIn
      <4>2. PICK s \in 1 .. Len(F) : j = 1 + s
        BY <1>18, <4>1
      <4>3. F[s] = c[w[s]] /\ w[s] = m
        BY <1>23, <3>6, <3>11, <4>2
      <4>4. x[s] = 1 /\ x[r] = 1
        BY <1>14, <3>8, <3>9, <4>3 DEF Leading
      <4>5. s = r
        BY <1>13, <3>9, <4>3, <4>4
      <4> QED
        BY <4>2, <4>5
    <3>12. LabelsAt(d, l) = {1 + r}
      BY <3>10, <3>11
    <3> QED
      BY <3>12
  <2>3. LabelsAt(d, entry) # {}
    BY <1>24
  <2> QED
    BY <2>1, <2>2, <2>3 DEF WellLabelled
<1>26. Threaded(c, d, entry)
  BY <1>20, <1>21, <1>22, <1>25 DEF Threaded
<1>27. Threaded(c, c, entry)
  BY ThreadedSelf
<1>28. [f EXCEPT !.code = d].code = d
  OBVIOUS
<1>29. calls # {} => TailCallOpt(f) = [f EXCEPT !.code = d]
  BY <1>1
<1>30. calls = {} => TailCallOpt(f) = f
  BY <1>1
<1> HIDE DEF calls
<1>31. Threaded(c, TailCallOpt(f).code, entry)
  BY <1>26, <1>27, <1>28, <1>29, <1>30
<1>32. TailCallOpt(f) = f \/ \E e : TailCallOpt(f) = [f EXCEPT !.code = e]
  BY <1>29, <1>30
<1> QED
  BY <1>31, <1>32 DEF entry

-----------------------------------------------------------------------------
(* One function, and programs. *)
FunctionFields == {"name", "params", "wide", "variadic", "code", "static", "always", "builtin"}
Shaped(f) == DOMAIN f = FunctionFields /\ IsSeq(f.params) /\ IsCode(f.code) /\ HasEnd(f.code)
SameHead(f, h) == h.name = f.name /\ h.params = f.params /\ h.wide = f.wide /\ h.always = f.always

\* A function with other code is a function with the same head.
LEMMA NewCode ==
  ASSUME NEW f, Shaped(f), NEW c, IsCode(c), HasEnd(c)
  PROVE  LET h == [f EXCEPT !.code = c] IN Shaped(h) /\ SameHead(f, h) /\ h.code = c
<1> DEFINE h == [f EXCEPT !.code = c]
<1>1. /\ DOMAIN h = FunctionFields /\ h.code = c /\ h.params = f.params
      /\ h.name = f.name /\ h.wide = f.wide /\ h.always = f.always
  BY DEF Shaped, FunctionFields
<1> HIDE DEF h
<1>2. Shaped(h) /\ SameHead(f, h) /\ h.code = c
  BY <1>1 DEF Shaped, SameHead
<1> QED
  BY <1>2 DEF h

\* What fold.py does to one function.
LEMMA FoldPassesRight ==
  ASSUME NEW f, Shaped(f)
  PROVE  /\ Shaped(FoldPasses(f)) /\ SameHead(f, FoldPasses(f))
         /\ Threaded(f.code, FoldPasses(f).code, TailEntry(f))
<1> DEFINE c1 == VarLoadCse(f.code)
           c2 == AddrOfCse(c1)
           c3 == DeadStoreElim(c2)
           c4 == FoldUntilStable(c3)
           c5 == RemoveTrivialJumps(c4)
           c6 == BranchThreading(c5)
           c7 == UnreachableCodeElim(c6)
           h == [f EXCEPT !.code = c7]
           e == TailEntry(f)
<1>1. FoldPasses(f) = TailCallOpt(h)
  BY DEF FoldPasses
<1>0. \A c, d : Passed(c, d) => IsCode(d)
  BY DEF Passed, Thinned
<1>2. IsCode(f.code) /\ HasEnd(f.code)
  BY DEF Shaped
<1>3. Passed(f.code, c1)
  BY <1>2, VarLoadCsePasses
<1> HIDE DEF c1
<1>4. Passed(c1, c2)
  BY <1>0, <1>3, AddrOfCsePasses
<1> HIDE DEF c2
<1>5. Passed(c2, c3)
  BY <1>0, <1>4, DeadStoreElimPasses
<1> HIDE DEF c3
<1>6. Passed(c3, c4)
  BY <1>0, <1>5, FoldUntilStablePasses
<1> HIDE DEF c4
<1>7. Passed(c4, c5) /\ IsCode(c5)
  BY <1>0, <1>6, RemoveTrivialJumpsPasses
<1> HIDE DEF c5, e
<1>8. Passed(f.code, c5)
  <2>1. Passed(f.code, c2)
    BY <1>3, <1>4, PassedTrans
  <2>2. Passed(f.code, c3)
    BY <1>5, <2>1, PassedTrans
  <2>3. Passed(f.code, c4)
    BY <1>6, <2>2, PassedTrans
  <2> QED
    BY <1>7, <2>3, PassedTrans
<1>9. Threaded(f.code, c5, e)
  BY <1>2, <1>8, PassedThreaded
<1>10. Threaded(c5, c6, e)
  BY <1>7, BranchThreadingRight
<1> HIDE DEF c6
<1>11. IsCode(c6)
  BY <1>10 DEF Threaded
<1>12. Threaded(c6, c7, e)
  BY <1>11, UnreachablePasses, PassedThreaded
<1> HIDE DEF c7
<1>13. Threaded(f.code, c7, e)
  <2>1. Threaded(f.code, c6, e)
    BY <1>9, <1>10, ThreadedTrans
  <2> QED
    BY <1>12, <2>1, ThreadedTrans
<1>14. IsCode(c7) /\ HasEnd(c7)
  BY <1>2, <1>13 DEF Threaded
<1>15. Shaped(h) /\ SameHead(f, h) /\ h.code = c7
  BY <1>14, NewCode
<1> HIDE DEF h
<1>16. TailEntry(h) = e
  BY <1>15 DEF SameHead, TailEntry, e
<1>17. "code" \in DOMAIN h /\ IsSeq(h.params) /\ IsCode(h.code)
  BY <1>15 DEF Shaped, FunctionFields
<1>18. /\ Threaded(c7, TailCallOpt(h).code, e)
       /\ TailCallOpt(h) = h \/ \E d : TailCallOpt(h) = [h EXCEPT !.code = d]
  BY <1>15, <1>16, <1>17, TailCallRight
<1>19. Threaded(f.code, TailCallOpt(h).code, e)
  BY <1>13, <1>18, ThreadedTrans
<1>20. IsCode(TailCallOpt(h).code) /\ HasEnd(TailCallOpt(h).code)
  BY <1>2, <1>19 DEF Threaded
<1>21. Shaped(TailCallOpt(h)) /\ SameHead(h, TailCallOpt(h))
  <2>1. CASE TailCallOpt(h) = h
    BY <1>15, <2>1 DEF SameHead
  <2>2. CASE \E d : TailCallOpt(h) = [h EXCEPT !.code = d]
    <3>1. PICK d : TailCallOpt(h) = [h EXCEPT !.code = d]
      BY <2>2
    <3>2. [h EXCEPT !.code = d].code = d
      BY <1>17
    <3>3. IsCode(d) /\ HasEnd(d)
      BY <1>20, <3>1, <3>2
    <3> QED
      BY <1>15, <3>1, <3>3, NewCode
  <2> QED
    BY <1>18, <2>1, <2>2
<1>22. SameHead(f, TailCallOpt(h))
  BY <1>15, <1>21 DEF SameHead
<1> QED
  BY <1>1, <1>19, <1>21, <1>22 DEF e

-----------------------------------------------------------------------------
(* Programs. *)

Whole(P) ==
  /\ IsSeq(P)
  /\ \A k \in 1 .. Len(P) : Shaped(P[k])
  /\ \A k, m \in 1 .. Len(P) : P[k].name = P[m].name => k = m

\* No function is lost or changes but in its code, and no call is new.
Follows(P, Q) ==
  /\ Len(Q) = Len(P)
  /\ \A k \in 1 .. Len(P) : SameHead(P[k], Q[k]) /\ CallsFrom(P[k].code, Q[k].code)

Agreed(P) == \A k \in 1 .. Len(P) : \A j \in 1 .. Len(P[k].code) : ArgumentsFit(P, P[k].code[j])

\* Functions are found by their names.
LEMMA FunctionAt ==
  ASSUME NEW P, Whole(P)
  PROVE  /\ \A k \in 1 .. Len(P) : P[k].name \in FunctionNames(P) /\ Function(P, P[k].name) = P[k]
         /\ \A f \in FunctionNames(P) : \E k \in 1 .. Len(P) : P[k].name = f /\ Function(P, f) = P[k]
         /\ \A k \in 1 .. Len(P) : DOMAIN P[k].code = 1 .. Len(P[k].code)
         /\ DOMAIN P = 1 .. Len(P)
<1>1. DOMAIN P = 1 .. Len(P)
  BY SeqDomain DEF Whole
<1>2. ASSUME NEW k \in 1 .. Len(P) PROVE P[k].name \in FunctionNames(P) /\ Function(P, P[k].name) = P[k]
  <2>1. (CHOOSE m \in DOMAIN P : P[m].name = P[k].name) = k
    BY <1>1 DEF Whole
  <2> QED
    BY <1>1, <2>1 DEF FunctionNames, Function
<1>3. ASSUME NEW f \in FunctionNames(P) PROVE \E k \in 1 .. Len(P) : P[k].name = f /\ Function(P, f) = P[k]
  <2>1. PICK k \in 1 .. Len(P) : P[k].name = f
    BY <1>1 DEF FunctionNames
  <2> QED
    BY <1>2, <2>1
<1>4. \A k \in 1 .. Len(P) : DOMAIN P[k].code = 1 .. Len(P[k].code)
  BY CodeDomain DEF Whole, Shaped
<1> QED
  BY <1>1, <1>2, <1>3, <1>4

\* The heads of functions are the same.
SameHeads(P, Q) == Len(Q) = Len(P) /\ \A k \in 1 .. Len(P) : SameHead(P[k], Q[k])

\* Programs with the same heads have the same names, the same words of
\* parameters, and the same always_inline functions.
LEMMA HeadsNames ==
  ASSUME NEW P, Whole(P), NEW Q, Whole(Q), SameHeads(P, Q)
  PROVE  /\ FunctionNames(Q) = FunctionNames(P)
         /\ \A f \in FunctionNames(P) : SameHead(Function(P, f), Function(Q, f))
         /\ \A f \in FunctionNames(P) : ParamWords(Function(Q, f)) = ParamWords(Function(P, f))
         /\ \A S : S \subseteq FunctionNames(P) => AlwaysInline(Q, S) = AlwaysInline(P, S)
<1>1. Len(Q) = Len(P) /\ \A k \in 1 .. Len(P) : Q[k].name = P[k].name /\ SameHead(P[k], Q[k])
  BY DEF SameHeads, SameHead
<1>2. DOMAIN P = 1 .. Len(P) /\ DOMAIN Q = 1 .. Len(P)
  BY <1>1, FunctionAt
<1>3. FunctionNames(Q) = FunctionNames(P)
  BY <1>1, <1>2 DEF FunctionNames
<1>4. ASSUME NEW f \in FunctionNames(P) PROVE SameHead(Function(P, f), Function(Q, f))
  <2>1. PICK k \in 1 .. Len(P) : P[k].name = f /\ Function(P, f) = P[k]
    BY FunctionAt
  <2>2. Function(Q, f) = Q[k]
    BY <1>1, <2>1, FunctionAt
  <2> QED
    BY <1>1, <2>1, <2>2
<1>5. \A f \in FunctionNames(P) : ParamWords(Function(Q, f)) = ParamWords(Function(P, f))
  BY <1>4 DEF SameHead, ParamWords
<1>6. ASSUME NEW S, S \subseteq FunctionNames(P) PROVE AlwaysInline(Q, S) = AlwaysInline(P, S)
  BY <1>4, <1>6 DEF AlwaysInline, SameHead
<1> QED
  BY <1>3, <1>4, <1>5, <1>6

\* The names, and what they stand for, are those of the program before.
LEMMA FollowsNames ==
  ASSUME NEW P, Whole(P), NEW Q, Whole(Q), Follows(P, Q)
  PROVE  /\ FunctionNames(Q) = FunctionNames(P)
         /\ \A f \in FunctionNames(P) : SameHead(Function(P, f), Function(Q, f))
BY HeadsNames DEF Follows, SameHeads

\* Calls that agreed do so still.
LEMMA FollowsAgree ==
  ASSUME NEW P, Whole(P), NEW Q, Whole(Q), Follows(P, Q), Agreed(P)
  PROVE  Agreed(Q)
<1> SUFFICES ASSUME NEW k \in 1 .. Len(Q), NEW j \in 1 .. Len(Q[k].code),
                    Q[k].code[j].op \in Direct, Q[k].code[j].sym \in FunctionNames(Q)
             PROVE  Len(Q[k].code[j].args) = Len(ParamWords(Function(Q, Q[k].code[j].sym)))
  BY DEF Agreed, ArgumentsFit
<1> DEFINE i == Q[k].code[j]
<1>1. k \in 1 .. Len(P) /\ CallsFrom(P[k].code, Q[k].code)
  BY DEF Follows
<1>2. PICK m \in 1 .. Len(P[k].code) : /\ P[k].code[m].op = i.op /\ P[k].code[m].sym = i.sym
                                       /\ Len(P[k].code[m].args) = Len(i.args)
  BY <1>1 DEF CallsFrom
<1>3. i.sym \in FunctionNames(P) /\ SameHead(Function(P, i.sym), Function(Q, i.sym))
  BY FollowsNames
<1>4. Len(P[k].code[m].args) = Len(ParamWords(Function(P, i.sym)))
  BY <1>1, <1>2, <1>3 DEF Agreed, ArgumentsFit
<1>5. ParamWords(Function(Q, i.sym)) = ParamWords(Function(P, i.sym))
  BY <1>3 DEF SameHead, ParamWords
<1> QED
  BY <1>2, <1>4, <1>5

\* A function calls no other than before.
LEMMA FollowsCalls ==
  ASSUME NEW P, Whole(P), NEW Q, Whole(Q), Follows(P, Q), NEW k \in 1 .. Len(P)
  PROVE  CallsInline(Q[k]) \subseteq CallsInline(P[k])
<1> SUFFICES ASSUME NEW f \in CallsInline(Q[k]) PROVE f \in CallsInline(P[k])
  OBVIOUS
<1>1. k \in 1 .. Len(Q) /\ CallsFrom(P[k].code, Q[k].code)
  BY DEF Follows
<1>2. PICK j \in 1 .. Len(Q[k].code) : Q[k].code[j].op = "call" /\ Q[k].code[j].sym = f
  BY <1>1, FunctionAt DEF CallsInline
<1>3. PICK m \in 1 .. Len(P[k].code) : P[k].code[m].op = "call" /\ P[k].code[m].sym = f
  BY <1>1, <1>2 DEF CallsFrom, Direct
<1> QED
  BY <1>3, FunctionAt DEF CallsInline

\* always_inline functions stay what they are.
LEMMA FollowsAlways ==
  ASSUME NEW P, Whole(P), NEW Q, Whole(Q), Follows(P, Q), NEW S, S \subseteq FunctionNames(P)
  PROVE  AlwaysInline(Q, S) = AlwaysInline(P, S)
BY HeadsNames DEF Follows, SameHeads

Labelled(P) == \A k \in 1 .. Len(P) : WellLabelled(P[k].code, TailEntry(P[k]))

\* Fold keeps programs whole, and their labels.
LEMMA FoldKeeps ==
  ASSUME NEW P, Whole(P)
  PROVE  Whole(Fold(P)) /\ Follows(P, Fold(P)) /\ (Labelled(P) => Labelled(Fold(P)))
<1> DEFINE Q == Fold(P)
<1>1. DOMAIN P = 1 .. Len(P) /\ IsSeq(P)
  BY FunctionAt DEF Whole
<1>2. Q = [k \in DOMAIN P |-> Q[k]] /\ \A k \in 1 .. Len(P) : Q[k] = FoldPasses(P[k])
  BY <1>1 DEF Fold
<1> HIDE DEF Q
<1>3. IsSeq(Q) /\ Len(Q) = Len(P)
  BY <1>1, <1>2, MappedIs
<1>4. ASSUME NEW k \in 1 .. Len(P)
      PROVE  Shaped(Q[k]) /\ SameHead(P[k], Q[k]) /\ Threaded(P[k].code, Q[k].code, TailEntry(P[k]))
  BY <1>2, FoldPassesRight DEF Whole
<1>5. \A k, m \in 1 .. Len(Q) : Q[k].name = Q[m].name => k = m
  BY <1>3, <1>4 DEF Whole, SameHead
<1>6. Whole(Q)
  BY <1>3, <1>4, <1>5 DEF Whole
<1>7. Follows(P, Q)
  BY <1>3, <1>4 DEF Follows, Threaded
<1>8. ASSUME Labelled(P), NEW k \in 1 .. Len(Q) PROVE WellLabelled(Q[k].code, TailEntry(Q[k]))
  <2>1. WellLabelled(P[k].code, TailEntry(P[k]))
    BY <1>3, <1>8 DEF Labelled
  <2>2. TailEntry(Q[k]) = TailEntry(P[k])
    BY <1>3, <1>4 DEF SameHead, TailEntry
  <2> QED
    BY <1>3, <1>4, <2>1, <2>2 DEF Threaded
<1>9. Labelled(P) => Labelled(Q)
  BY <1>8 DEF Labelled
<1> QED
  BY <1>6, <1>7, <1>9 DEF Q

-----------------------------------------------------------------------------
(* Dead arguments. *)
HeadLeft(f, h) ==
  /\ DOMAIN h = FunctionFields /\ IsSeq(h.params)
  /\ h.name = f.name /\ h.wide = f.wide /\ h.always = f.always
  /\ h.params = f.params \/ Len(h.params) < Len(f.params)
CodeLeft(c, d) == IsSeq(d) /\ Len(d) = Len(c) /\ \A j \in 1 .. Len(c) : Kin({"lcall"}, c[j], d[j])

\* Q is P without some parameters, and without some arguments of calls for one word.
Dropped(P, Q) ==
  /\ IsSeq(Q) /\ Len(Q) = Len(P)
  /\ \A k \in 1 .. Len(P) : HeadLeft(P[k], Q[k]) /\ CodeLeft(P[k].code, Q[k].code)

\* The arguments of a call fit while its function has all of its parameters;
\* and afterwards, too, if a parameter is a word and the result not two.
ArgsLeft(P, Q) ==
  \A k, m \in 1 .. Len(P) : \A j \in 1 .. Len(P[k].code) :
    Q[k].code[j].op \in Direct /\ Q[k].code[j].sym = P[m].name =>
      /\ Q[m].params = P[m].params => Len(Q[k].code[j].args) = Len(ParamWords(P[m]))
      /\ P[m].wide = {} /\ Q[k].code[j].op = "call" => Len(Q[k].code[j].args) = Len(Q[m].params)

\* A program is what is left of itself when nothing is dropped.
LEMMA DroppedSelf ==
  ASSUME NEW P, Whole(P)
  PROVE  Dropped(P, P) /\ (Agreed(P) => ArgsLeft(P, P))
<1>1. \A k \in 1 .. Len(P) : HeadLeft(P[k], P[k])
  BY DEF Whole, Shaped, HeadLeft
<1>2. \A k \in 1 .. Len(P) : CodeLeft(P[k].code, P[k].code)
  BY DEF Whole, Shaped, CodeLeft, IsCode, Kin
<1>3. ASSUME Agreed(P), NEW k \in 1 .. Len(P), NEW m \in 1 .. Len(P), NEW j \in 1 .. Len(P[k].code),
             P[k].code[j].op \in Direct, P[k].code[j].sym = P[m].name
      PROVE  /\ Len(P[k].code[j].args) = Len(ParamWords(P[m]))
             /\ P[m].wide = {} => Len(P[k].code[j].args) = Len(P[m].params)
  <2>1. P[m].name \in FunctionNames(P) /\ Function(P, P[m].name) = P[m]
    BY FunctionAt
  <2>2. Len(P[k].code[j].args) = Len(ParamWords(P[m]))
    BY <1>3, <2>1 DEF Agreed, ArgumentsFit
  <2>3. P[m].wide = {} => Len(ParamWords(P[m])) = Len(P[m].params)
    BY ParamWordsLen DEF Whole, Shaped
  <2> QED
    BY <2>2, <2>3
<1>4. Agreed(P) => ArgsLeft(P, P)
  BY <1>3 DEF ArgsLeft
<1> QED
  BY <1>1, <1>2, <1>4 DEF Dropped, Whole

\* A program that has lost parameters is whole, with the same names and labels.
LEMMA DroppedWhole ==
  ASSUME NEW P, Whole(P), NEW Q, Dropped(P, Q)
  PROVE  /\ Whole(Q) /\ FunctionNames(Q) = FunctionNames(P)
         /\ Labelled(P) => Labelled(Q)
<1>1. IsSeq(Q) /\ Len(Q) = Len(P)
  BY DEF Dropped
<1>2. ASSUME NEW k \in 1 .. Len(P)
      PROVE  Shaped(Q[k]) /\ Thinned({"lcall"}, P[k].code, Q[k].code)
  <2>1. HeadLeft(P[k], Q[k]) /\ CodeLeft(P[k].code, Q[k].code) /\ Shaped(P[k])
    BY DEF Dropped, Whole
  <2> DEFINE c == P[k].code
             d == Q[k].code
  <2>2. /\ IsCode(c) /\ HasEnd(c) /\ IsSeq(d) /\ Len(d) = Len(c)
        /\ \A j \in 1 .. Len(c) : Kin({"lcall"}, c[j], d[j])
    BY <2>1 DEF Shaped, CodeLeft
  <2> HIDE DEF c, d
  <2>3. Thinned({"lcall"}, c, d)
    BY <2>2, MapThins
  <2>4. HasEnd(d)
    BY <2>2, MapEnds
  <2>5. IsCode(d)
    BY <2>3 DEF Thinned
  <2> QED
    BY <2>1, <2>3, <2>4, <2>5 DEF c, d, HeadLeft, Shaped
<1>3. \A k \in 1 .. Len(P) : Q[k].name = P[k].name
  BY DEF Dropped, HeadLeft
<1>4. Whole(Q)
  BY <1>1, <1>2, <1>3 DEF Whole
<1>5. FunctionNames(Q) = FunctionNames(P)
  <2>1. DOMAIN P = 1 .. Len(P) /\ DOMAIN Q = 1 .. Len(P)
    BY <1>1, <1>4, FunctionAt
  <2> QED
    BY <1>3, <2>1 DEF FunctionNames
<1>6. ASSUME Labelled(P), NEW k \in 1 .. Len(Q) PROVE WellLabelled(Q[k].code, TailEntry(Q[k]))
  <2>1. k \in 1 .. Len(P) /\ TailEntry(Q[k]) = TailEntry(P[k])
    BY <1>1, <1>3 DEF TailEntry
  <2>2. WellLabelled(P[k].code, TailEntry(P[k])) /\ IsCode(P[k].code)
    BY <1>6, <2>1 DEF Labelled, Whole, Shaped
  <2> QED
    BY <1>2, <2>1, <2>2, ThinnedLabels
<1>7. Labelled(P) => Labelled(Q)
  BY <1>6 DEF Labelled
<1> QED
  BY <1>4, <1>5, <1>7

\* A call with other arguments is an instruction.
LEMMA NewArgs ==
  ASSUME NEW i, IsIns(i), NEW args, IsSeq(args)
  PROVE  LET j == [i EXCEPT !.args = args] IN IsIns(j) /\ j.op = i.op /\ j.sym = i.sym /\ j.args = args
<1> DEFINE j == [i EXCEPT !.args = args]
<1>1. DOMAIN i = {"op", "dst", "hi", "sym", "addr", "args"}
  BY WideDomain DEF IsIns
<1>2. /\ DOMAIN j = {"op", "dst", "hi", "sym", "addr", "args"} /\ j = [k \in DOMAIN j |-> j[k]]
      /\ j.op = i.op /\ j.sym = i.sym /\ j.args = args
  BY <1>1
<1> HIDE DEF j
<1>3. IsIns(j)
  BY <1>2, WideIs DEF IsIns
<1> QED
  BY <1>2, <1>3 DEF j

\* A call of one word loses the arguments of dropped parameters; other
\* instructions stay.
LEMMA DropArgsRight ==
  ASSUME NEW Q, Whole(Q), NEW i, IsIns(i)
  PROVE  /\ Kin({"lcall"}, i, DropArgs(Q, i))
         /\ \A m \in 1 .. Len(Q) : i.op = "call" /\ i.sym = Q[m].name =>
              DropArgs(Q, i).args = Masked(Q, Q[m], i.args)
         /\ i.op # "call" => DropArgs(Q, i) = i
<1>1. CASE ~(i.op = "call" /\ i.sym \in FunctionNames(Q))
  <2>1. DropArgs(Q, i) = i
    BY <1>1 DEF DropArgs
  <2>2. Kin({"lcall"}, i, i)
    BY DEF Kin
  <2> QED
    BY <1>1, <2>1, <2>2, FunctionAt
<1>2. CASE i.op = "call" /\ i.sym \in FunctionNames(Q)
  <2>1. PICK m \in 1 .. Len(Q) : Q[m].name = i.sym /\ Function(Q, i.sym) = Q[m]
    BY <1>2, FunctionAt
  <2> DEFINE args == Masked(Q, Q[m], i.args)
             j == [i EXCEPT !.args = args]
  <2>2. DropArgs(Q, i) = j
    BY <1>2, <2>1 DEF DropArgs
  <2>3. IsSeq(args)
    BY KeepOnlyRight DEF IsIns, Masked
  <2>4. \A k \in 1 .. Len(Q) : i.sym = Q[k].name => k = m
    BY <2>1 DEF Whole
  <2> HIDE DEF args
  <2>5. IsIns(j) /\ j.op = i.op /\ j.sym = i.sym /\ j.args = args
    BY <2>3, NewArgs
  <2> HIDE DEF j
  <2>6. Kin({"lcall"}, i, j)
    BY <1>2, <2>5 DEF Kin
  <2> QED
    BY <1>2, <2>2, <2>4, <2>5, <2>6 DEF args
<1> QED
  BY <1>1, <1>2

\* What the mask of the parameters of h that stay does.
LEMMA KeptRight ==
  ASSUME NEW Q, NEW h, IsSeq(h.params)
  PROVE  LET S == KeptParams(Q, h)
             left == KeepOnly(h.params, S)
         IN  /\ IsSeq(left)
             /\ (S = DOMAIN h.params /\ left = h.params) \/ (S # DOMAIN h.params /\ Len(left) < Len(h.params))
<1> DEFINE S == KeptParams(Q, h)
           left == KeepOnly(h.params, S)
<1>1. S \subseteq DOMAIN h.params
  BY DEF KeptParams
<1>2. DOMAIN h.params = 1 .. Len(h.params)
  BY SeqDomain
<1> HIDE DEF S
<1>3. IsSeq(left)
  BY KeepOnlyRight
<1>4. S = DOMAIN h.params => left = h.params
  BY KeepOnlyAll
<1>5. ASSUME S # DOMAIN h.params PROVE Len(left) < Len(h.params)
  <2>1. PICK k \in 1 .. Len(h.params) : k \notin S
    BY <1>1, <1>2, <1>5
  <2> QED
    BY <2>1, KeepOnlyRight
<1> QED
  BY <1>3, <1>4, <1>5 DEF S

\* One round of dead-argument removal drops more.
LEMMA DroppedStep ==
  ASSUME NEW P, Whole(P), NEW Q, Dropped(P, Q)
  PROVE  Dropped(P, DropDeadArgs(Q)) /\ (ArgsLeft(P, Q) => ArgsLeft(P, DropDeadArgs(Q)))
<1> DEFINE R == DropDeadArgs(Q)
           args(h, c) == [j \in DOMAIN c |-> DropArgs(Q, c[j])]
<1>1. Whole(Q) /\ Len(Q) = Len(P) /\ IsSeq(Q) /\ DOMAIN Q = 1 .. Len(P)
  BY DroppedWhole, FunctionAt DEF Dropped
<1>2. R = [k \in DOMAIN Q |-> R[k]]
  BY DEF DropDeadArgs
<1>3. ASSUME NEW k \in 1 .. Len(P)
      PROVE  /\ DOMAIN R[k] = FunctionFields
             /\ R[k].name = Q[k].name /\ R[k].wide = Q[k].wide /\ R[k].always = Q[k].always
             /\ R[k].params = KeepOnly(Q[k].params, KeptParams(Q, Q[k]))
             /\ R[k].code = [j \in DOMAIN Q[k].code |-> DropArgs(Q, Q[k].code[j])]
  <2> DEFINE left == KeepOnly(Q[k].params, KeptParams(Q, Q[k]))
             d == [j \in DOMAIN Q[k].code |-> DropArgs(Q, Q[k].code[j])]
  <2>1. R[k] = [Q[k] EXCEPT !.params = left, !.code = d]
    BY <1>1 DEF DropDeadArgs
  <2> HIDE DEF left, d
  <2>2. DOMAIN Q[k] = FunctionFields
    BY <1>1 DEF Whole, Shaped
  <2>3. /\ DOMAIN R[k] = FunctionFields
        /\ R[k].name = Q[k].name /\ R[k].wide = Q[k].wide /\ R[k].always = Q[k].always
        /\ R[k].params = left /\ R[k].code = d
    BY <2>1, <2>2 DEF FunctionFields
  <2> QED
    BY <2>3 DEF left, d
<1> HIDE DEF R
<1>4. IsSeq(R) /\ Len(R) = Len(P)
  BY <1>1, <1>2, MappedIs
<1>5. ASSUME NEW k \in 1 .. Len(P)
      PROVE  /\ IsSeq(R[k].code) /\ Len(R[k].code) = Len(P[k].code)
             /\ \A j \in 1 .. Len(P[k].code) : /\ R[k].code[j] = DropArgs(Q, Q[k].code[j])
                                               /\ IsIns(Q[k].code[j])
                                               /\ Kin({"lcall"}, P[k].code[j], Q[k].code[j])
                                               /\ Kin({"lcall"}, Q[k].code[j], R[k].code[j])
  <2>1. IsCode(Q[k].code) /\ CodeLeft(P[k].code, Q[k].code)
    BY <1>1 DEF Whole, Shaped, Dropped
  <2>2. /\ IsSeq(Q[k].code) /\ Len(Q[k].code) = Len(P[k].code) /\ DOMAIN Q[k].code = 1 .. Len(P[k].code)
        /\ \A j \in 1 .. Len(P[k].code) : IsIns(Q[k].code[j]) /\ Kin({"lcall"}, P[k].code[j], Q[k].code[j])
    BY <2>1, CodeDomain DEF CodeLeft
  <2>3. R[k].code = [j \in DOMAIN Q[k].code |-> R[k].code[j]]
    BY <1>3
  <2>4. IsSeq(R[k].code) /\ Len(R[k].code) = Len(P[k].code)
    BY <2>2, <2>3, MappedIs
  <2>5. ASSUME NEW j \in 1 .. Len(P[k].code)
        PROVE  R[k].code[j] = DropArgs(Q, Q[k].code[j]) /\ Kin({"lcall"}, Q[k].code[j], R[k].code[j])
    <3>1. R[k].code[j] = DropArgs(Q, Q[k].code[j])
      BY <1>3, <2>2
    <3> QED
      BY <1>1, <2>2, <3>1, DropArgsRight
  <2> QED
    BY <2>2, <2>4, <2>5
<1>6. ASSUME NEW k \in 1 .. Len(P)
      PROVE  /\ IsSeq(R[k].params) /\ IsSeq(Q[k].params) /\ IsSeq(P[k].params)
             /\ \/ KeptParams(Q, Q[k]) = DOMAIN Q[k].params /\ R[k].params = Q[k].params
                \/ KeptParams(Q, Q[k]) # DOMAIN Q[k].params /\ Len(R[k].params) < Len(Q[k].params)
  <2>1. IsSeq(Q[k].params) /\ IsSeq(P[k].params)
    BY <1>1 DEF Whole, Shaped
  <2> DEFINE h == Q[k]
             S == KeptParams(Q, h)
             left == KeepOnly(h.params, S)
  <2>2. IsSeq(h.params) /\ R[k].params = left
    BY <1>3, <2>1
  <2> HIDE DEF h
  <2>3. /\ IsSeq(left)
        /\ (S = DOMAIN h.params /\ left = h.params) \/ (S # DOMAIN h.params /\ Len(left) < Len(h.params))
    BY <2>2, KeptRight
  <2> HIDE DEF S, left
  <2>4. /\ IsSeq(R[k].params)
        /\ (S = DOMAIN h.params /\ R[k].params = h.params) \/ (S # DOMAIN h.params /\ Len(R[k].params) < Len(h.params))
    BY <2>2, <2>3
  <2> QED
    BY <2>1, <2>4 DEF h, S
<1>7. ASSUME NEW k \in 1 .. Len(P) PROVE HeadLeft(P[k], R[k])
  <2>1. HeadLeft(P[k], Q[k])
    BY DEF Dropped
  <2>2. Len(P[k].params) \in Nat /\ Len(Q[k].params) \in Nat /\ Len(R[k].params) \in Nat
    BY <1>6, SeqDomain
  <2>3. R[k].params = P[k].params \/ Len(R[k].params) < Len(P[k].params)
    <3>1. R[k].params = Q[k].params \/ Len(R[k].params) < Len(Q[k].params)
      BY <1>6
    <3>2. Q[k].params = P[k].params \/ Len(Q[k].params) < Len(P[k].params)
      BY <2>1 DEF HeadLeft
    <3> QED
      BY <2>2, <3>1, <3>2
  <2>4. R[k].name = P[k].name /\ R[k].wide = P[k].wide /\ R[k].always = P[k].always
    BY <1>3, <2>1 DEF HeadLeft
  <2>5. DOMAIN R[k] = FunctionFields /\ IsSeq(R[k].params)
    BY <1>3, <1>6
  <2> QED
    BY <2>3, <2>4, <2>5 DEF HeadLeft
<1>8. ASSUME NEW k \in 1 .. Len(P) PROVE CodeLeft(P[k].code, R[k].code)
  <2>1. \A j \in 1 .. Len(P[k].code) : Kin({"lcall"}, P[k].code[j], R[k].code[j])
    BY <1>5, KinTrans
  <2> QED
    BY <1>5, <2>1 DEF CodeLeft
<1>9. ASSUME ArgsLeft(P, Q), NEW k \in 1 .. Len(P), NEW m \in 1 .. Len(P), NEW j \in 1 .. Len(P[k].code),
             R[k].code[j].op \in Direct, R[k].code[j].sym = P[m].name
      PROVE  /\ R[m].params = P[m].params => Len(R[k].code[j].args) = Len(ParamWords(P[m]))
             /\ P[m].wide = {} /\ R[k].code[j].op = "call" => Len(R[k].code[j].args) = Len(R[m].params)
  <2> DEFINE i == Q[k].code[j]
  <2>1. R[k].code[j] = DropArgs(Q, i) /\ IsIns(i) /\ Kin({"lcall"}, i, R[k].code[j])
    BY <1>5, <1>9
  <2>2. i.op = R[k].code[j].op /\ i.sym = P[m].name
    BY <1>9, <2>1 DEF Kin, Fixed
  <2>3. /\ Q[m].params = P[m].params => Len(i.args) = Len(ParamWords(P[m]))
        /\ P[m].wide = {} /\ i.op = "call" => Len(i.args) = Len(Q[m].params)
    BY <1>9, <2>2 DEF ArgsLeft
  <2>4. Q[m].name = P[m].name /\ (Q[m].params = P[m].params \/ Len(Q[m].params) < Len(P[m].params))
    BY <1>9 DEF Dropped, HeadLeft
  <2> HIDE DEF i
  <2>5. CASE i.op = "call"
    <3>1. R[k].code[j].args = Masked(Q, Q[m], i.args)
      BY <1>1, <2>1, <2>2, <2>4, <2>5, DropArgsRight
    <3>2. CASE KeptParams(Q, Q[m]) = DOMAIN Q[m].params
      <4>1. R[k].code[j].args = i.args /\ R[m].params = Q[m].params
        BY <1>6, <3>1, <3>2 DEF Masked
      <4> QED
        BY <2>2, <2>3, <4>1
    <3>3. CASE KeptParams(Q, Q[m]) # DOMAIN Q[m].params
      <4>1. R[k].code[j].args = KeepOnly(i.args, KeptParams(Q, Q[m]))
        BY <3>1, <3>3 DEF Masked
      <4>2. R[m].params # P[m].params
        <5>1. Len(R[m].params) < Len(Q[m].params) /\ Len(P[m].params) \in Nat /\ Len(Q[m].params) \in Nat
          BY <1>6, <3>3, SeqDomain
        <5>2. Len(R[m].params) \in Nat
          BY <1>6, SeqDomain
        <5> QED
          BY <2>4, <5>1, <5>2
      <4>3. ASSUME P[m].wide = {} PROVE Len(R[k].code[j].args) = Len(R[m].params)
        <5>1. Len(i.args) = Len(Q[m].params) /\ IsSeq(i.args) /\ IsSeq(Q[m].params)
          BY <1>6, <2>1, <2>3, <2>5, <4>3 DEF IsIns
        <5>2. R[m].params = KeepOnly(Q[m].params, KeptParams(Q, Q[m]))
          BY <1>3
        <5> QED
          BY <4>1, <5>1, <5>2, KeepOnlyLen
      <4> QED
        BY <4>2, <4>3
    <3> QED
      BY <3>2, <3>3
  <2>6. CASE i.op # "call"
    <3>1. R[k].code[j].args = i.args
      BY <1>1, <2>1, <2>6, DropArgsRight
    <3>2. R[m].params = P[m].params => Q[m].params = P[m].params
      <4>1. Len(P[m].params) \in Nat /\ Len(Q[m].params) \in Nat
        BY <1>6, SeqDomain
      <4> QED
        BY <1>6, <2>4, <4>1
    <3> QED
      BY <2>2, <2>3, <2>6, <3>1, <3>2
  <2> QED
    BY <2>5, <2>6
<1>10. Dropped(P, R)
  BY <1>4, <1>7, <1>8 DEF Dropped
<1>11. ArgsLeft(P, Q) => ArgsLeft(P, R)
  BY <1>9 DEF ArgsLeft
<1> QED
  BY <1>10, <1>11 DEF R

\* One more round of dead arguments.
NextRound(y) ==
  LET new == DropDeadArgs(y.prog)
  IN  IF y.stable THEN y ELSE [prog |-> new, stable |-> AllRead(new)]

\* f is how EliminateDeadArgs(P) comes about in n rounds.
Rounds(Q, n, f) ==
  /\ f[0] = [prog |-> Q, stable |-> AllRead(Q)]
  /\ \A i \in 1 .. n : f[i] = NextRound(f[i - 1])
  /\ EliminateDeadArgs(Q) = f[n].prog

\* Rounds of dead-argument removal, at most as many as there are parameters.
LEMMA RoundSteps ==
  ASSUME NEW Q, NEW n \in Nat, n = Total([k \in DOMAIN Q |-> Len(Q[k].params)])
  PROVE  \E f : Rounds(Q, n, f)
<1> DEFINE Following(x, i) == NextRound(x)
           Step(h, i) == IF i = 0 THEN [prog |-> Q, stable |-> AllRead(Q)] ELSE Following(h[i - 1], i)
           P == {m \in 0 .. n : \E h : h = [i \in 0 .. m |-> Step(h, i)]}
           f == CHOOSE h : h = [i \in 0 .. n |-> Step(h, i)]
<1>1. 0 \in P
  <2> DEFINE h == [i \in 0 .. 0 |-> [prog |-> Q, stable |-> AllRead(Q)]]
  <2>1. h = [i \in 0 .. 0 |-> Step(h, i)]
    OBVIOUS
  <2> HIDE DEF h
  <2>2. \E g : g = [i \in 0 .. 0 |-> Step(g, i)]
    BY <2>1
  <2> HIDE DEF Step
  <2> QED
    BY <2>2
<1>2. ASSUME NEW m \in 1 .. n, m - 1 \in P PROVE m \in P
  <2> HIDE DEF Following
  <2>1. PICK h : h = [i \in 0 .. m - 1 |-> Step(h, i)]
    BY <1>2
  <2> DEFINE g == [i \in 0 .. m |-> IF i = m THEN Following(h[m - 1], m) ELSE h[i]]
  <2>2. /\ g = [i \in 0 .. m |-> g[i]] /\ g[m] = Following(h[m - 1], m)
        /\ \A i \in 0 .. m - 1 : g[i] = h[i]
    OBVIOUS
  <2> HIDE DEF g
  <2>3. ASSUME NEW i \in 0 .. m PROVE g[i] = Step(g, i)
    <3>1. CASE i = m
      <4>1. m - 1 \in 0 .. m - 1 /\ m # 0
        OBVIOUS
      <4>2. h[m - 1] = g[m - 1]
        BY <2>2, <4>1
      <4> QED
        BY <2>2, <3>1, <4>1, <4>2
    <3>2. CASE i < m
      <4>1. i \in 0 .. m - 1 /\ (i # 0 => i - 1 \in 0 .. m - 1)
        BY <3>2
      <4>2. h[i] = Step(h, i)
        <5> HIDE DEF Step
        <5> QED
          BY <2>1, <4>1
      <4> QED
        BY <2>2, <4>1, <4>2
    <3> HIDE DEF Step
    <3> QED
      BY <3>1, <3>2
  <2>4. g = [i \in 0 .. m |-> Step(g, i)]
    <3> HIDE DEF Step
    <3> QED
      BY <2>2, <2>3
  <2> QED
    BY <2>4
<1>3. f = [i \in 0 .. n |-> Step(f, i)]
  <2>1. 0 .. n \subseteq P
    <3> HIDE DEF P
    <3> QED
      BY <1>1, <1>2, UpTo
  <2>2. n \in P
    <3> HIDE DEF P
    <3> QED
      BY <2>1
  <2> QED
    BY <2>2
<1>4. EliminateDeadArgs(Q) = f[n].prog
  BY DEF EliminateDeadArgs, NextRound
<1>5. f[0] = [prog |-> Q, stable |-> AllRead(Q)] /\ \A i \in 1 .. n : f[i] = Following(f[i - 1], i)
  <2> HIDE DEF f, Following
  <2>1. f[0] = Step(f, 0) /\ \A i \in 1 .. n : f[i] = Step(f, i) /\ i # 0
    <3> HIDE DEF Step
    <3>1. n \in Nat
      OBVIOUS
    <3>2. f = [i \in 0 .. n |-> Step(f, i)]
      BY <1>3
    <3> QED
      BY ONLY <3>1, <3>2
  <2> QED
    BY <2>1
<1> HIDE DEF f
<1> QED
  BY <1>4, <1>5 DEF Rounds

\* _eliminate_dead_args drops parameters, and arguments with them.
LEMMA EliminateDeadArgsRight ==
  ASSUME NEW P, Whole(P)
  PROVE  LET Q == EliminateDeadArgs(P) IN Dropped(P, Q) /\ (Agreed(P) => ArgsLeft(P, Q))
<1> DEFINE numbers == [k \in DOMAIN P |-> Len(P[k].params)]
<1>1. Total(numbers) \in Nat
  <2>1. IsSeq(P) /\ DOMAIN P = 1 .. Len(P) /\ Len(P) \in Nat
    BY FunctionAt, SeqDomain DEF Whole
  <2>2. numbers = [k \in DOMAIN P |-> numbers[k]] /\ \A k \in 1 .. Len(P) : numbers[k] = Len(P[k].params)
    BY <2>1
  <2> HIDE DEF numbers
  <2>3. Len(numbers) = Len(P)
    BY <2>1, <2>2, MappedIs
  <2>4. \A k \in 1 .. Len(P) : numbers[k] \in Nat
    BY <2>2, SeqDomain DEF Whole, Shaped
  <2> QED
    BY <2>1, <2>3, <2>4, TotalIsNat
<1>2. SUFFICES ASSUME NEW n \in Nat, n = Total(numbers)
               PROVE  LET Q == EliminateDeadArgs(P) IN Dropped(P, Q) /\ (Agreed(P) => ArgsLeft(P, Q))
  BY <1>1
<1>3. PICK f : Rounds(P, n, f)
  BY <1>2, RoundSteps
<1>4. /\ f[0] = [prog |-> P, stable |-> AllRead(P)]
      /\ \A i \in 1 .. n : f[i] = NextRound(f[i - 1])
      /\ EliminateDeadArgs(P) = f[n].prog
  BY <1>3 DEF Rounds
<1> DEFINE Good(Q) == Dropped(P, Q) /\ (Agreed(P) => ArgsLeft(P, Q))
           S == {m \in 0 .. n : Good(f[m].prog)}
<1>5. 0 \in S
  BY <1>4, DroppedSelf
<1>6. ASSUME NEW m \in 1 .. n, m - 1 \in S PROVE m \in S
  <2>1. Good(f[m - 1].prog) /\ f[m] = NextRound(f[m - 1])
    BY <1>4, <1>6
  <2>2. f[m] = f[m - 1] \/ f[m].prog = DropDeadArgs(f[m - 1].prog)
    BY <2>1 DEF NextRound
  <2>3. Good(f[m].prog)
    BY <2>1, <2>2, DroppedStep
  <2> QED
    BY <2>3
<1>7. n \in S
  <2> HIDE DEF S
  <2>1. 0 .. n \subseteq S
    BY <1>5, <1>6, UpTo
  <2> QED
    BY <2>1
<1> QED
  BY <1>4, <1>7

-----------------------------------------------------------------------------
(* Dead functions, and dce. *)
\* The functions of Q are functions of P.
Subprogram(P, Q) == Whole(Q) /\ \A k \in 1 .. Len(Q) : \E m \in 1 .. Len(P) : Q[k] = P[m]

\* Functions may be left out: names, calls and labels of the others stay.
LEMMA SubprogramRight ==
  ASSUME NEW P, Whole(P), NEW Q, Subprogram(P, Q)
  PROVE  /\ FunctionNames(Q) \subseteq FunctionNames(P)
         /\ \A f \in FunctionNames(Q) : Function(Q, f) = Function(P, f)
         /\ Agreed(P) => Agreed(Q)
         /\ Labelled(P) => Labelled(Q)
<1>1. ASSUME NEW f \in FunctionNames(Q) PROVE f \in FunctionNames(P) /\ Function(Q, f) = Function(P, f)
  <2>1. PICK k \in 1 .. Len(Q) : Q[k].name = f /\ Function(Q, f) = Q[k]
    BY FunctionAt DEF Subprogram
  <2>2. PICK m \in 1 .. Len(P) : Q[k] = P[m]
    BY <2>1 DEF Subprogram
  <2>3. P[m].name \in FunctionNames(P) /\ Function(P, P[m].name) = P[m]
    BY FunctionAt
  <2> QED
    BY <2>1, <2>2, <2>3
<1>2. ASSUME Agreed(P), NEW k \in 1 .. Len(Q), NEW j \in 1 .. Len(Q[k].code) PROVE ArgumentsFit(Q, Q[k].code[j])
  <2>1. PICK m \in 1 .. Len(P) : Q[k] = P[m]
    BY DEF Subprogram
  <2>2. ArgumentsFit(P, Q[k].code[j])
    BY <1>2, <2>1 DEF Agreed
  <2> QED
    BY <1>1, <2>2 DEF ArgumentsFit
<1>3. ASSUME Labelled(P), NEW k \in 1 .. Len(Q) PROVE WellLabelled(Q[k].code, TailEntry(Q[k]))
  <2>1. PICK m \in 1 .. Len(P) : Q[k] = P[m]
    BY DEF Subprogram
  <2> QED
    BY <1>3, <2>1 DEF Labelled
<1>4. Agreed(P) => Agreed(Q)
  BY <1>2 DEF Agreed
<1>5. Labelled(P) => Labelled(Q)
  BY <1>3 DEF Labelled
<1> QED
  BY <1>1, <1>4, <1>5

\* _eliminate_dead_functions leaves functions out, never main.
LEMMA EliminateDeadFunctionsRight ==
  ASSUME NEW P, Whole(P), Main \in FunctionNames(P)
  PROVE  LET Q == EliminateDeadFunctions(P) IN Subprogram(P, Q) /\ Main \in FunctionNames(Q)
<1> DEFINE edges == [f \in FunctionNames(P) |->
                       Called(Function(P, f)) \cup FunctionsAddressed(Function(P, f))]
           S == {k \in DOMAIN P : P[k].name \in Reachable(edges)}
           Q == KeepOnly(P, S)
<1>1. EliminateDeadFunctions(P) = Q
  BY DEF EliminateDeadFunctions
<1>2. IsSeq(P) /\ DOMAIN P = 1 .. Len(P) /\ Len(P) \in Nat
  BY FunctionAt, SeqDomain DEF Whole
<1>3. Cardinality(DOMAIN edges) \in Nat
  <2> DEFINE names == [k \in 1 .. Len(P) |-> P[k].name]
  <2>1. IsFiniteSet(1 .. Len(P))
    BY <1>2, FS_Interval
  <2>2. FunctionNames(P) = {names[k] : k \in 1 .. Len(P)}
    BY <1>2 DEF FunctionNames
  <2>5. names \in [1 .. Len(P) -> FunctionNames(P)] /\ \A t \in FunctionNames(P) : \E k \in 1 .. Len(P) : names[k] = t
    BY <2>2
  <2> HIDE DEF names
  <2>6. names \in Surjection(1 .. Len(P), FunctionNames(P))
    BY <2>5 DEF Surjection
  <2>3. IsFiniteSet(FunctionNames(P))
    BY <2>1, <2>6, FS_Surjection
  <2>4. DOMAIN edges = FunctionNames(P)
    OBVIOUS
  <2> QED
    BY <2>3, <2>4, FS_CardinalityType
<1>4. Main \in Reachable(edges)
  <2> HIDE DEF edges
  <2> QED
    BY <1>3, RootsReachable DEF Reachable
<1>5. PICK m \in 1 .. Len(P) : P[m].name = Main
  BY FunctionAt
<1>6. m \in S
  BY <1>2, <1>4, <1>5
<1> HIDE DEF S, edges
<1>7. IsSeq(Q) /\ \E g \in [1 .. Len(Q) -> 1 .. Len(P)] :
                    /\ \A i, j \in 1 .. Len(Q) : i < j => g[i] < g[j]
                    /\ \A i \in 1 .. Len(Q) : Q[i] = P[g[i]] /\ g[i] \in S
                    /\ \A k \in 1 .. Len(P) : k \in S => \E i \in 1 .. Len(Q) : g[i] = k
  <2>1. IsSeq(P)
    BY <1>2
  <2> QED
    BY ONLY <2>1, KeepOnlyRight
<1> HIDE DEF Q
<1>8. PICK g \in [1 .. Len(Q) -> 1 .. Len(P)] :
                    /\ \A i, j \in 1 .. Len(Q) : i < j => g[i] < g[j]
                    /\ \A i \in 1 .. Len(Q) : Q[i] = P[g[i]] /\ g[i] \in S
                    /\ \A k \in 1 .. Len(P) : k \in S => \E i \in 1 .. Len(Q) : g[i] = k
  BY <1>7
<1>9. \A k \in 1 .. Len(Q) : g[k] \in 1 .. Len(P) /\ Q[k] = P[g[k]]
  BY <1>8
<1>10. ASSUME NEW k \in 1 .. Len(Q), NEW j \in 1 .. Len(Q), Q[k].name = Q[j].name PROVE k = j
  <2>1. g[k] = g[j]
    BY <1>9, <1>10 DEF Whole
  <2>2. Len(Q) \in Nat /\ g[k] \in Nat /\ g[j] \in Nat
    BY <1>2, <1>7, <1>9, SeqDomain
  <2> QED
    BY <1>8, <2>1, <2>2
<1>11. Whole(Q)
  BY <1>7, <1>9, <1>10 DEF Whole
<1>12. Subprogram(P, Q)
  BY <1>9, <1>11 DEF Subprogram
<1>13. Main \in FunctionNames(Q)
  <2>1. PICK i \in 1 .. Len(Q) : g[i] = m
    BY <1>6, <1>8
  <2>2. Q[i].name = Main
    BY <1>5, <1>9, <2>1
  <2> QED
    BY <1>11, <2>2, FunctionAt
<1> QED
  BY <1>1, <1>12, <1>13

\* The instructions that are left of a whole program.
LEMMA CodeDceRight ==
  ASSUME NEW P, Whole(P)
  PROVE  LET Q == [k \in DOMAIN P |-> [P[k] EXCEPT !.code = DceFunction(@)]]
         IN  Whole(Q) /\ Follows(P, Q) /\ (Labelled(P) => Labelled(Q))
<1> DEFINE Q == [k \in DOMAIN P |-> [P[k] EXCEPT !.code = DceFunction(P[k].code)]]
<1>1. DOMAIN P = 1 .. Len(P) /\ IsSeq(P)
  BY FunctionAt DEF Whole
<1>2. /\ Q = [k \in DOMAIN P |-> Q[k]]
      /\ \A k \in 1 .. Len(P) : Q[k] = [P[k] EXCEPT !.code = DceFunction(P[k].code)]
  BY <1>1
<1> HIDE DEF Q
<1>3. IsSeq(Q) /\ Len(Q) = Len(P)
  BY <1>1, <1>2, MappedIs
<1>4. ASSUME NEW k \in 1 .. Len(P)
      PROVE  Shaped(Q[k]) /\ SameHead(P[k], Q[k]) /\ Threaded(P[k].code, Q[k].code, TailEntry(P[k]))
  <2> DEFINE d == DceFunction(P[k].code)
             e == TailEntry(P[k])
  <2>1. Shaped(P[k]) /\ IsCode(P[k].code) /\ HasEnd(P[k].code)
    BY DEF Whole, Shaped
  <2>2. Q[k] = [P[k] EXCEPT !.code = d]
    BY <1>2
  <2>3. Passed(P[k].code, d)
    BY <2>1, DceFunctionPasses
  <2> HIDE DEF d, e
  <2>4. Threaded(P[k].code, d, e)
    BY <2>1, <2>3, PassedThreaded
  <2>5. IsCode(d) /\ HasEnd(d)
    BY <2>1, <2>4 DEF Threaded
  <2>6. Shaped(Q[k]) /\ SameHead(P[k], Q[k]) /\ Q[k].code = d
    BY <2>1, <2>2, <2>5, NewCode
  <2> QED
    BY <2>4, <2>6 DEF e
<1>5. \A k, m \in 1 .. Len(Q) : Q[k].name = Q[m].name => k = m
  BY <1>3, <1>4 DEF Whole, SameHead
<1>6. Whole(Q)
  BY <1>3, <1>4, <1>5 DEF Whole
<1>7. Follows(P, Q)
  BY <1>3, <1>4 DEF Follows, Threaded
<1>8. ASSUME Labelled(P), NEW k \in 1 .. Len(Q) PROVE WellLabelled(Q[k].code, TailEntry(Q[k]))
  <2>1. WellLabelled(P[k].code, TailEntry(P[k]))
    BY <1>3, <1>8 DEF Labelled
  <2>2. TailEntry(Q[k]) = TailEntry(P[k])
    BY <1>3, <1>4 DEF SameHead, TailEntry
  <2> QED
    BY <1>3, <1>4, <2>1, <2>2 DEF Threaded
<1>9. Labelled(P) => Labelled(Q)
  BY <1>8 DEF Labelled
<1> QED
  BY <1>6, <1>7, <1>9 DEF Q

\* A whole program without what is dead.
LEMMA DceKeeps ==
  ASSUME NEW P, Whole(P), Main \in FunctionNames(P)
  PROVE  /\ Whole(Dce(P)) /\ Main \in FunctionNames(Dce(P))
         /\ Labelled(P) => Labelled(Dce(P))
         /\ Agreed(P) /\ ~WideDropped(P, Dce(P)) => Agreed(Dce(P))
         /\ \A k \in 1 .. Len(Dce(P)) : \E m \in 1 .. Len(P) :
              /\ Dce(P)[k].name = P[m].name /\ Dce(P)[k].always = P[m].always
              /\ CallsInline(Dce(P)[k]) \subseteq CallsInline(P[m])
<1> DEFINE R == EliminateDeadFunctions(P)
           E == EliminateDeadArgs(R)
           D == [k \in DOMAIN E |-> [E[k] EXCEPT !.code = DceFunction(E[k].code)]]
<1>1. Dce(P) = D
  BY DEF Dce
<1>2. Subprogram(P, R) /\ Whole(R) /\ Main \in FunctionNames(R)
  BY EliminateDeadFunctionsRight DEF Subprogram
<1> HIDE DEF R
<1>3. Dropped(R, E) /\ (Agreed(R) => ArgsLeft(R, E))
  BY <1>2, EliminateDeadArgsRight
<1> HIDE DEF E
<1>4. Whole(E) /\ FunctionNames(E) = FunctionNames(R) /\ (Labelled(R) => Labelled(E))
  BY <1>2, <1>3, DroppedWhole
<1>5. Whole(D) /\ Follows(E, D) /\ (Labelled(E) => Labelled(D))
  BY <1>4, CodeDceRight
<1> HIDE DEF D
<1>6. Main \in FunctionNames(D)
  BY <1>2, <1>4, <1>5, FollowsNames
<1>7. Labelled(P) => Labelled(D)
  BY <1>2, <1>4, <1>5, SubprogramRight
<1>8. ASSUME NEW k \in 1 .. Len(D)
      PROVE  /\ k \in 1 .. Len(E) /\ k \in 1 .. Len(R)
             /\ D[k].name = R[k].name /\ D[k].always = R[k].always /\ D[k].wide = R[k].wide
             /\ D[k].params = E[k].params /\ IsSeq(D[k].params)
             /\ CodeLeft(R[k].code, E[k].code) /\ CallsFrom(E[k].code, D[k].code)
  <2>1. k \in 1 .. Len(E) /\ k \in 1 .. Len(R)
    BY <1>3, <1>5 DEF Follows, Dropped
  <2>2. SameHead(E[k], D[k]) /\ CallsFrom(E[k].code, D[k].code) /\ IsSeq(D[k].params)
    BY <1>5, <2>1 DEF Follows, Whole, Shaped
  <2>3. HeadLeft(R[k], E[k]) /\ CodeLeft(R[k].code, E[k].code)
    BY <1>3, <2>1 DEF Dropped
  <2> QED
    BY <2>1, <2>2, <2>3 DEF SameHead, HeadLeft
<1>9. ASSUME NEW k \in 1 .. Len(D) PROVE CallsInline(D[k]) \subseteq CallsInline(R[k])
  <2>1. CallsInline(D[k]) \subseteq CallsInline(E[k])
    BY <1>4, <1>5, <1>8, FollowsCalls
  <2>2. ASSUME NEW f \in CallsInline(E[k]) PROVE f \in CallsInline(R[k])
    <3>0. DOMAIN E[k].code = 1 .. Len(E[k].code)
      BY <1>4, <1>8, FunctionAt
    <3>1. PICK j \in 1 .. Len(E[k].code) : E[k].code[j].op = "call" /\ E[k].code[j].sym = f
      BY <3>0 DEF CallsInline
    <3>2. j \in 1 .. Len(R[k].code) /\ Kin({"lcall"}, R[k].code[j], E[k].code[j])
      BY <1>8, <3>1 DEF CodeLeft
    <3>3. R[k].code[j].op = "call" /\ R[k].code[j].sym = f
      BY <3>1, <3>2 DEF Kin, Fixed, Direct
    <3> QED
      BY <1>2, <1>8, <3>2, <3>3, FunctionAt DEF CallsInline
  <2> QED
    BY <2>1, <2>2
<1>10. ASSUME NEW k \in 1 .. Len(D)
       PROVE  \E m \in 1 .. Len(P) : /\ D[k].name = P[m].name /\ D[k].always = P[m].always
                                     /\ CallsInline(D[k]) \subseteq CallsInline(P[m])
  <2>1. PICK m \in 1 .. Len(P) : R[k] = P[m]
    BY <1>2, <1>8 DEF Subprogram
  <2> QED
    BY <1>8, <1>9, <2>1
<1>11. ASSUME Agreed(P), ~WideDropped(P, D), NEW k \in 1 .. Len(D), NEW j \in 1 .. Len(D[k].code)
       PROVE  ArgumentsFit(D, D[k].code[j])
  <2> SUFFICES ASSUME D[k].code[j].op \in Direct, D[k].code[j].sym \in FunctionNames(D)
               PROVE  Len(D[k].code[j].args) = Len(ParamWords(Function(D, D[k].code[j].sym)))
    BY DEF ArgumentsFit
  <2>1. PICK m \in 1 .. Len(D) : D[m].name = D[k].code[j].sym /\ Function(D, D[k].code[j].sym) = D[m]
    BY <1>5, FunctionAt
  <2>2. PICK i \in 1 .. Len(E[k].code) : /\ E[k].code[i].op = D[k].code[j].op
                                         /\ E[k].code[i].sym = D[k].code[j].sym
                                         /\ Len(E[k].code[i].args) = Len(D[k].code[j].args)
    BY <1>8 DEF CallsFrom
  <2>3. m \in 1 .. Len(R) /\ k \in 1 .. Len(R) /\ i \in 1 .. Len(R[k].code)
    BY <1>8, <2>2 DEF CodeLeft
  <2>4. ArgsLeft(R, E)
    BY <1>2, <1>3, <1>11, SubprogramRight
  <2>5. /\ E[m].params = R[m].params => Len(E[k].code[i].args) = Len(ParamWords(R[m]))
        /\ R[m].wide = {} /\ E[k].code[i].op = "call" => Len(E[k].code[i].args) = Len(E[m].params)
    <3>1. E[k].code[i].op \in Direct /\ E[k].code[i].sym = R[m].name
      BY <1>8, <2>1, <2>2
    <3> QED
      BY <2>3, <2>4, <3>1 DEF ArgsLeft
  <2>6. Function(P, D[m].name) = R[m]
    <3>1. PICK p \in 1 .. Len(P) : R[m] = P[p]
      BY <1>2, <2>3 DEF Subprogram
    <3>2. Function(P, P[p].name) = P[p]
      BY FunctionAt
    <3> QED
      BY <1>8, <3>1, <3>2
  <2>7. CASE D[m].params = R[m].params
    <3>1. ParamWords(D[m]) = ParamWords(R[m])
      BY <1>8, <2>7 DEF ParamWords
    <3> QED
      BY <1>8, <2>1, <2>2, <2>5, <2>7, <3>1
  <2>8. CASE D[m].params # R[m].params
    <3>1. /\ R[m].wide = {}
          /\ \A p \in DOMAIN P : \A q \in DOMAIN P[p].code :
               ~(P[p].code[q].op = "lcall" /\ P[p].code[q].sym = R[m].name)
      <4>1. m \in DOMAIN D
        BY <1>5, FunctionAt
      <4> QED
        BY <1>11, <2>6, <2>8, <4>1 DEF WideDropped
    <3>2. E[k].code[i].op = "call"
      <4>1. E[k].code[i].op \in Direct /\ Kin({"lcall"}, R[k].code[i], E[k].code[i])
        BY <1>8, <2>2, <2>3 DEF CodeLeft
      <4>2. R[k].code[i].op = E[k].code[i].op /\ R[k].code[i].sym = R[m].name
        BY <1>8, <2>1, <2>2, <4>1 DEF Kin, Fixed
      <4>3. PICK p \in 1 .. Len(P) : R[k] = P[p]
        BY <1>2, <2>3 DEF Subprogram
      <4>4. p \in DOMAIN P /\ i \in DOMAIN P[p].code
        BY <2>3, <4>3, FunctionAt
      <4>5. R[k].code[i].op # "lcall"
        BY <3>1, <4>2, <4>3, <4>4
      <4> QED
        BY <4>1, <4>2, <4>5 DEF Direct
    <3>3. D[m].wide = {} /\ IsSeq(D[m].params)
      BY <1>8, <3>1
    <3>4. Len(ParamWords(D[m])) = Len(D[m].params)
      BY <3>3, ParamWordsLen
    <3> QED
      BY <1>8, <2>1, <2>2, <2>5, <3>1, <3>2, <3>4
  <2> QED
    BY <2>7, <2>8
<1>12. Agreed(P) /\ ~WideDropped(P, D) => Agreed(D)
  BY <1>11 DEF Agreed
<1> QED
  BY <1>1, <1>5, <1>6, <1>7, <1>10, <1>12

-----------------------------------------------------------------------------
(* Labels the inliner makes, and copies of instructions. *)
Suffix(n) == <<"__i", n>>
Exit(n) == <<"._inline_exit", n>>
Markers == {"__i", "._inline_exit"}

\* A label there may be after n calls were replaced, and one made for the nth.
Named(l, n) ==
  /\ IsSeq(l) /\ l # <<>> /\ l[1] # ".__tce_"
  /\ Len(l) > 1 /\ l[Len(l) - 1] \in Markers => l[Len(l)] \in 1 .. n
Marked(l, n) ==
  /\ IsSeq(l) /\ l # <<>> /\ l[1] # ".__tce_"
  /\ Len(l) > 1 /\ l[Len(l) - 1] \in Markers /\ l[Len(l)] = n

\* A pair is a sequence of two.
LEMMA PairIs ==
  ASSUME NEW e, NEW o
  PROVE  IsSeq(<<e, o>>) /\ Len(<<e, o>>) = 2 /\ <<e, o>>[1] = e /\ <<e, o>>[2] = o
BY TupleIs

\* A name has a first element.
LEMMA NotEmpty ==
  ASSUME NEW l, IsSeq(l), l # <<>>
  PROVE  Len(l) \in Nat \ {0} /\ 1 \in 1 .. Len(l)
<1>1. Len(l) \in Nat
  BY SeqDomain
<1>2. Len(l) # 0
  <2> SUFFICES ASSUME Len(l) = 0 PROVE FALSE
    OBVIOUS
  <2>1. IsSeq(<<>>) /\ Len(<<>>) = 0
    BY EmptyIs
  <2>2. \A k \in 1 .. Len(l) : l[k] = <<>>[k]
    OBVIOUS
  <2> QED
    BY <2>1, <2>2, SeqsEqual
<1> QED
  BY <1>1, <1>2

\* A label with a suffix is marked with the number of the call.
LEMMA SuffixMarked ==
  ASSUME NEW n, NEW l, IsSeq(l), l # <<>>, l[1] # ".__tce_"
  PROVE  Marked(l \o Suffix(n), n)
<1> DEFINE s == Suffix(n)
           j == l \o s
<1>1. IsSeq(s) /\ Len(s) = 2 /\ s[1] = "__i" /\ s[2] = n
  BY PairIs DEF Suffix
<1> HIDE DEF s
<1>2. Len(l) \in Nat \ {0} /\ 1 \in 1 .. Len(l)
  BY NotEmpty
<1>3. /\ IsSeq(j) /\ Len(j) = Len(l) + 2
      /\ \A k \in 1 .. Len(l) : j[k] = l[k]
      /\ \A k \in 1 .. 2 : j[Len(l) + k] = s[k]
  <2>1. IsSeq(l) /\ IsSeq(s)
    BY <1>1
  <2>2. /\ IsSeq(j) /\ Len(j) = Len(l) + Len(s)
        /\ \A k \in 1 .. Len(l) : j[k] = l[k]
        /\ \A k \in 1 .. Len(s) : j[Len(l) + k] = s[k]
    BY <2>1, ConcatIs
  <2> QED
    BY <1>1, <2>2
<1> HIDE DEF j
<1>4. j[Len(l) + 1] = "__i" /\ j[Len(l) + 2] = n
  BY <1>1, <1>3
<1>5. Len(j) - 1 = Len(l) + 1 /\ Len(j) > 1
  BY <1>2, <1>3
<1>6. j[Len(j) - 1] \in Markers /\ j[Len(j)] = n
  BY <1>3, <1>4, <1>5 DEF Markers
<1>7. j # <<>> /\ j[1] # ".__tce_"
  BY <1>2, <1>3, <1>5, EmptyIs
<1> QED
  BY <1>3, <1>5, <1>6, <1>7 DEF Marked, j, s

\* So is an exit label.
LEMMA ExitMarked ==
  ASSUME NEW n
  PROVE  Marked(Exit(n), n)
<1> DEFINE j == Exit(n)
<1>1. IsSeq(j) /\ Len(j) = 2 /\ j[1] = "._inline_exit" /\ j[2] = n
  BY PairIs DEF Exit
<1>2. j # <<>>
  BY <1>1, EmptyIs
<1> HIDE DEF j
<1>3. j[Len(j) - 1] \in Markers /\ j[Len(j)] = n /\ Len(j) > 1
  BY <1>1 DEF Markers
<1>4. j[1] # ".__tce_"
  BY <1>1
<1>5. Marked(j, n)
  BY <1>1, <1>2, <1>3, <1>4 DEF Marked
<1> QED
  BY <1>5 DEF j

\* Labels that differ do so with a suffix too.
LEMMA SuffixInjective ==
  ASSUME NEW n, NEW l, IsSeq(l), NEW m, IsSeq(m), l \o Suffix(n) = m \o Suffix(n)
  PROVE  l = m
<1> DEFINE s == Suffix(n)
           j == l \o s
           i == m \o s
<1>1. IsSeq(s) /\ Len(s) = 2
  BY PairIs DEF Suffix
<1> HIDE DEF s
<1>2. Len(l) \in Nat /\ Len(m) \in Nat
  BY SeqDomain
<1>3. Len(j) = Len(l) + Len(s) /\ \A k \in 1 .. Len(l) : j[k] = l[k]
  BY <1>1, ConcatIs
<1>4. Len(i) = Len(m) + Len(s) /\ \A k \in 1 .. Len(m) : i[k] = m[k]
  BY <1>1, ConcatIs
<1>0. i = j
  BY DEF s
<1> HIDE DEF i, j
<1>5. Len(l) = Len(m)
  BY <1>0, <1>1, <1>2, <1>3, <1>4
<1>6. \A k \in 1 .. Len(l) : l[k] = m[k]
  BY <1>0, <1>3, <1>4, <1>5
<1> QED
  BY <1>5, <1>6, SeqsEqual

\* The exit is no label of the code that was copied.
LEMMA ExitNew ==
  ASSUME NEW n, NEW l, IsSeq(l), l # <<>>
  PROVE  l \o Suffix(n) # Exit(n)
<1> DEFINE s == Suffix(n)
           j == l \o s
<1>1. IsSeq(s) /\ Len(s) = 2
  BY PairIs DEF Suffix
<1>2. Len(Exit(n)) = 2
  BY PairIs DEF Exit
<1> HIDE DEF s
<1>3. Len(l) \in Nat /\ Len(l) # 0
  BY NotEmpty
<1>4. Len(j) = Len(l) + Len(s)
  BY <1>1, ConcatIs
<1> HIDE DEF j
<1>5. ASSUME j = Exit(n) PROVE FALSE
  <2>1. Len(j) = 2
    BY <1>2, <1>5
  <2>2. Len(j) = Len(l) + 2
    BY <1>1, <1>4
  <2>3. Len(l) + 2 = 2 /\ Len(l) \in Nat /\ Len(l) # 0
    BY <1>3, <2>1, <2>2
  <2> QED
    BY ONLY <2>3
<1> QED
  BY <1>5 DEF j, s

\* What a copy of instruction i is for the nth call that is replaced.
IsClone(i, c, n) ==
  /\ IsCode(c)
  /\ i.op = "ret" =>
       /\ \E k \in 1 .. Len(c) : c[k].op = "jump"
       /\ \A k \in 1 .. Len(c) : c[k].op = "copy" \/ (c[k].op = "jump" /\ c[k].sym = Exit(n))
  /\ i.op # "ret" =>
       /\ Len(c) = 1 /\ c[1].op = i.op /\ Len(c[1].args) = Len(i.args)
       /\ i.op \in {"label"} \cup Jumps => c[1].sym = i.sym \o Suffix(n)
       /\ i.op \in Direct => c[1].sym = i.sym

\* One instruction is code.
LEMMA SingleIs ==
  ASSUME NEW i, IsIns(i)
  PROVE  IsCode(<<i>>) /\ Len(<<i>>) = 1 /\ <<i>>[1] = i
<1> DEFINE c == <<i>>
<1>1. IsSeq(c) /\ Len(c) = 1 /\ c[1] = i
  BY TupleIs
<1> HIDE DEF c
<1>2. IsCode(c)
  BY <1>1 DEF IsCode
<1> QED
  BY <1>1, <1>2 DEF c

\* Code put together of two parts.
LEMMA CodeConcat ==
  ASSUME NEW c, IsCode(c), NEW d, IsCode(d)
  PROVE  /\ IsCode(c \o d) /\ Len(c \o d) = Len(c) + Len(d)
         /\ \A k \in 1 .. Len(c) : (c \o d)[k] = c[k]
         /\ \A k \in 1 .. Len(d) : (c \o d)[Len(c) + k] = d[k]
         /\ \A k \in 1 .. Len(c \o d) : \/ k \in 1 .. Len(c) /\ (c \o d)[k] = c[k]
                                        \/ k - Len(c) \in 1 .. Len(d) /\ (c \o d)[k] = d[k - Len(c)]
<1> DEFINE e == c \o d
<1>1. IsSeq(c) /\ IsSeq(d)
  BY DEF IsCode
<1>2. Len(c) \in Nat /\ Len(d) \in Nat
  BY <1>1, SeqDomain
<1>3. /\ IsSeq(e) /\ Len(e) = Len(c) + Len(d)
      /\ \A k \in 1 .. Len(c) : e[k] = c[k]
      /\ \A k \in 1 .. Len(d) : e[Len(c) + k] = d[k]
  BY <1>1, ConcatIs
<1> HIDE DEF e
<1>4. ASSUME NEW k \in 1 .. Len(e)
      PROVE  \/ k \in 1 .. Len(c) /\ e[k] = c[k]
             \/ k - Len(c) \in 1 .. Len(d) /\ e[k] = d[k - Len(c)]
  <2>1. CASE k \in 1 .. Len(c)
    BY <1>3, <2>1
  <2>2. CASE k \notin 1 .. Len(c)
    <3>1. k - Len(c) \in 1 .. Len(d) /\ Len(c) + (k - Len(c)) = k
      BY <1>2, <1>3, <2>2
    <3> QED
      BY <1>3, <3>1
  <2> QED
    BY <2>1, <2>2
<1>5. IsCode(e)
  BY <1>3, <1>4 DEF IsCode
<1> QED
  BY <1>3, <1>4, <1>5 DEF e

\* _clone_instrs renames labels, and keeps calls.
LEMMA CloneRight ==
  ASSUME NEW i, IsIns(i), NEW n, NEW offset, NEW param, NEW result
  PROVE  IsClone(i, Clone(i, offset, param, Suffix(n), result, Exit(n)), n)
<1> DEFINE ro(o) == Renamed(o, offset, param, Suffix(n))
           args == [k \in DOMAIN i.args |-> ro(i.args[k])]
           dst == IF i.dst = NoTemp THEN i.dst ELSE i.dst + offset
           sym == CASE i.op \in {"label"} \cup Jumps -> i.sym \o Suffix(n)
                    [] i.op = "addrof" -> ro(i.sym)
                    [] OTHER -> i.sym
           addr == ro(i.addr)
           j == [i EXCEPT !.dst = dst, !.sym = sym, !.addr = addr, !.args = args]
           copied == IF result # NoTemp /\ args # <<>> THEN <<Copy(result, args[1])>> ELSE <<>>
           c == Clone(i, offset, param, Suffix(n), result, Exit(n))
<1>1. c = IF i.op = "ret" THEN copied \o <<Jump(Exit(n))>> ELSE <<j>>
  BY DEF Clone
<1>2. args = [k \in DOMAIN i.args |-> args[k]]
  OBVIOUS
<1>3. /\ i.op \in {"label"} \cup Jumps => sym = i.sym \o Suffix(n)
      /\ i.op \in Direct => sym = i.sym
  <2> HIDE DEF ro
  <2> QED
    BY DEF Direct, Jumps
<1> HIDE DEF args, dst, sym, addr, c, ro
<1>4. IsSeq(args) /\ Len(args) = Len(i.args)
  BY <1>2, MappedIs DEF IsIns
<1>5. CASE i.op = "ret"
  <2>1. IsCode(copied) /\ \A k \in 1 .. Len(copied) : copied[k].op = "copy"
    <3>1. CASE result # NoTemp /\ args # <<>>
      <4> DEFINE y == Copy(result, args[1])
      <4>1. IsIns(y) /\ y.op = "copy"
        BY CopyIs
      <4>2. copied = <<y>>
        BY <3>1
      <4> HIDE DEF y, copied
      <4>3. IsCode(copied) /\ Len(copied) = 1 /\ copied[1] = y
        BY <4>1, <4>2, SingleIs
      <4> QED
        BY <4>1, <4>3
    <3>2. CASE ~(result # NoTemp /\ args # <<>>)
      <4>1. copied = <<>>
        BY <3>2
      <4> HIDE DEF copied
      <4> QED
        BY <4>1, EmptyIs DEF IsCode
    <3> QED
      BY <3>1, <3>2
  <2> HIDE DEF copied
  <2> DEFINE y == Jump(Exit(n))
             e == <<y>>
  <2>2. IsIns(y) /\ y.op = "jump" /\ y.sym = Exit(n)
    BY JumpIs
  <2> HIDE DEF y
  <2>3. IsCode(e) /\ Len(e) = 1 /\ e[1] = y
    BY <2>2, SingleIs
  <2>4. c = copied \o e
    BY <1>1, <1>5 DEF y
  <2> HIDE DEF e
  <2>5. /\ IsCode(c)
        /\ \A k \in 1 .. Len(e) : c[Len(copied) + k] = e[k]
        /\ Len(c) = Len(copied) + Len(e)
        /\ \A k \in 1 .. Len(c) : \/ k \in 1 .. Len(copied) /\ c[k] = copied[k]
                                  \/ k - Len(copied) \in 1 .. Len(e) /\ c[k] = e[k - Len(copied)]
    <3> DEFINE z == copied \o e
    <3>1. IsCode(copied) /\ IsCode(e)
      BY <2>1, <2>3
    <3>2. /\ IsCode(z)
          /\ \A k \in 1 .. Len(e) : z[Len(copied) + k] = e[k]
          /\ Len(z) = Len(copied) + Len(e)
          /\ \A k \in 1 .. Len(z) : \/ k \in 1 .. Len(copied) /\ z[k] = copied[k]
                                    \/ k - Len(copied) \in 1 .. Len(e) /\ z[k] = e[k - Len(copied)]
      BY ONLY <3>1, CodeConcat
    <3>3. c = z
      BY <2>4
    <3> HIDE DEF z
    <3> QED
      BY <3>2, <3>3
  <2>6. \A k \in 1 .. Len(c) : c[k].op = "copy" \/ (c[k].op = "jump" /\ c[k].sym = Exit(n))
    <3>1. \A k \in 1 .. Len(e) : e[k] = y
      BY <2>3
    <3> QED
      BY <2>1, <2>2, <2>5, <3>1
  <2>7. \E k \in 1 .. Len(c) : c[k].op = "jump"
    <3>1. Len(copied) \in Nat
      BY <2>1, CodeDomain
    <3>2. Len(copied) + 1 \in 1 .. Len(c) /\ c[Len(copied) + 1] = y
      BY <2>3, <2>5, <3>1
    <3> QED
      BY <2>2, <3>2
  <2> QED
    BY <1>5, <2>5, <2>6, <2>7 DEF IsClone, c
<1>6. CASE i.op # "ret"
  <2>1. IsIns(j) /\ j.op = i.op /\ j.sym = sym /\ j.args = args
    <3>1. DOMAIN i = {"op", "dst", "hi", "sym", "addr", "args"}
      BY WideDomain DEF IsIns
    <3>2. /\ DOMAIN j = {"op", "dst", "hi", "sym", "addr", "args"} /\ j = [k \in DOMAIN j |-> j[k]]
          /\ j.op = i.op /\ j.sym = sym /\ j.args = args
      BY <3>1
    <3> HIDE DEF j
    <3>3. IsIns(j)
      BY <1>4, <3>2, WideIs DEF IsIns
    <3> QED
      BY <3>2, <3>3
  <2> HIDE DEF j
  <2>2. c = <<j>>
    BY <1>1, <1>6
  <2>3. IsCode(c) /\ Len(c) = 1 /\ c[1] = j
    BY <2>1, <2>2, SingleIs
  <2> QED
    BY <1>3, <1>4, <1>6, <2>1, <2>3 DEF IsClone, c
<1> QED
  BY <1>5, <1>6

\* Every place is laid out once.
LEMMA LaidOnce ==
  ASSUME NEW p, NEW F, IsSeq(F), NEW w, NEW x, Laid(p, F, w, x), NEW q \in 1 .. Len(F), NEW r \in 1 .. Len(F),
         w[q] = w[r], x[q] = x[r], w[q] \in Nat
  PROVE  q = r
<1>1. Len(F) \in Nat /\ x[q] \in Nat
  BY SeqDomain DEF Laid
<1>2. ~(q < r) /\ ~(r < q)
  BY <1>1 DEF Laid
<1> QED
  BY <1>1, <1>2

\* Labels are named in n steps, and every jump has one to go to.
Sited(c, n) ==
  /\ \A k \in 1 .. Len(c) : c[k].op \in {"label"} \cup Jumps => Named(c[k].sym, n)
  /\ \A l : Targeted(c, l) => \E m : LabelsAt(c, l) = {m}

\* What an instruction of a copy comes from.
LEMMA ClonePart ==
  ASSUME NEW i, NEW d, NEW n, IsClone(i, d, n), NEW k \in 1 .. Len(d)
  PROVE  /\ d[k].op = "label" => i.op = "label" /\ k = 1 /\ d[k].sym = i.sym \o Suffix(n)
         /\ d[k].op \in Jumps => d[k].sym = Exit(n) \/ (i.op \in Jumps /\ d[k].sym = i.sym \o Suffix(n))
         /\ d[k].op \in Direct => i.op = d[k].op /\ i.sym = d[k].sym /\ Len(i.args) = Len(d[k].args)
         /\ i.op = "label" => Len(d) = 1 /\ d[1].op = "label" /\ d[1].sym = i.sym \o Suffix(n)
<1>1. CASE i.op = "ret"
  <2>1. d[k].op = "copy" \/ (d[k].op = "jump" /\ d[k].sym = Exit(n))
    BY <1>1 DEF IsClone
  <2> QED
    BY <1>1, <2>1 DEF Jumps, Direct
<1>2. CASE i.op # "ret"
  <2>1. /\ Len(d) = 1 /\ d[1].op = i.op /\ Len(d[1].args) = Len(i.args)
        /\ i.op \in {"label"} \cup Jumps => d[1].sym = i.sym \o Suffix(n)
        /\ i.op \in Direct => d[1].sym = i.sym
    BY <1>2 DEF IsClone
  <2>2. k = 1
    BY <2>1
  <2> QED
    BY <2>1, <2>2
<1> QED
  BY <1>1, <1>2

\* p has the copies of the instructions of c; B is all of them, one after the other.
Cloned(c, p, n) == IsSeq(p) /\ Len(p) = Len(c) /\ \A k \in 1 .. Len(c) : IsClone(c[k], p[k], n)
CopiesOf(c, B, n) ==
  /\ IsCode(B) /\ CallsFrom(c, B)
  /\ \A q \in 1 .. Len(B) :
       /\ B[q].op \in {"label"} \cup Jumps => Marked(B[q].sym, n)
       /\ B[q].op = "label" => B[q].sym # Exit(n)
       /\ B[q].op \in Jumps => B[q].sym = Exit(n) \/ \E at : LabelsAt(B, B[q].sym) = {at}

\* The copies of all instructions of a function: their labels are marked, and
\* their jumps lead to one of them or to the exit.
LEMMA ClonesRight ==
  ASSUME NEW c, IsCode(c), NEW m0, Sited(c, m0), NEW n, NEW p, Cloned(c, p, n)
  PROVE  CopiesOf(c, FlattenSeq(p), n)
<1> DEFINE B == FlattenSeq(p)
<1>0. IsSeq(p) /\ Len(p) = Len(c) /\ \A k \in 1 .. Len(c) : IsClone(c[k], p[k], n)
  BY DEF Cloned
<1>1. \A k \in 1 .. Len(p) : IsSeq(p[k]) /\ IsCode(p[k])
  BY <1>0 DEF IsClone, IsCode
<1>2. IsSeq(B) /\ \E w, x : Laid(p, B, w, x)
  BY <1>0, <1>1, FlattenRight
<1> HIDE DEF B
<1>3. PICK w, x : Laid(p, B, w, x)
  BY <1>2
<1>4. ASSUME NEW q \in 1 .. Len(B)
      PROVE  /\ w[q] \in 1 .. Len(c) /\ x[q] \in 1 .. Len(p[w[q]]) /\ B[q] = p[w[q]][x[q]]
             /\ IsClone(c[w[q]], p[w[q]], n) /\ w[q] \in Nat
  <2>1. w[q] \in 1 .. Len(p) /\ x[q] \in 1 .. Len(p[w[q]]) /\ B[q] = p[w[q]][x[q]]
    BY <1>3 DEF Laid
  <2> QED
    BY <1>0, <2>1
<1>15. ASSUME NEW q \in 1 .. Len(B)
       PROVE  /\ B[q].op = "label" => /\ c[w[q]].op = "label" /\ x[q] = 1
                                      /\ B[q].sym = c[w[q]].sym \o Suffix(n)
              /\ B[q].op \in Jumps => \/ B[q].sym = Exit(n)
                                      \/ c[w[q]].op \in Jumps /\ B[q].sym = c[w[q]].sym \o Suffix(n)
              /\ B[q].op \in Direct => /\ c[w[q]].op = B[q].op /\ c[w[q]].sym = B[q].sym
                                       /\ Len(c[w[q]].args) = Len(B[q].args)
  <2> DEFINE i == c[w[q]]
             d == p[w[q]]
             k == x[q]
  <2>1. IsClone(i, d, n) /\ k \in 1 .. Len(d) /\ B[q] = d[k]
    BY <1>4
  <2> HIDE DEF i, d, k
  <2>2. /\ d[k].op = "label" => i.op = "label" /\ k = 1 /\ d[k].sym = i.sym \o Suffix(n)
        /\ d[k].op \in Jumps => d[k].sym = Exit(n) \/ (i.op \in Jumps /\ d[k].sym = i.sym \o Suffix(n))
        /\ d[k].op \in Direct => i.op = d[k].op /\ i.sym = d[k].sym /\ Len(i.args) = Len(d[k].args)
    BY <2>1, ClonePart
  <2> QED
    BY <2>1, <2>2 DEF i, d, k
<1>16. \A k \in 1 .. Len(p) : \A i \in 1 .. Len(p[k]) : \E q \in 1 .. Len(B) : w[q] = k /\ x[q] = i
  BY <1>3 DEF Laid
<1>5. \A q \in 1 .. Len(B) : IsIns(B[q])
  BY <1>0, <1>1, <1>4 DEF IsCode
<1>6. IsCode(B)
  BY <1>2, <1>5 DEF IsCode
<1>7. CallsFrom(c, B)
  <2> SUFFICES ASSUME NEW q \in 1 .. Len(B), B[q].op \in Direct
               PROVE  \E k \in 1 .. Len(c) : /\ c[k].op = B[q].op /\ c[k].sym = B[q].sym
                                             /\ Len(c[k].args) = Len(B[q].args)
    BY DEF CallsFrom
  <2>1. /\ c[w[q]].op = B[q].op /\ c[w[q]].sym = B[q].sym /\ Len(c[w[q]].args) = Len(B[q].args)
    BY <1>15
  <2> QED
    BY <1>4, <2>1
<1>8. ASSUME NEW k \in 1 .. Len(c), c[k].op \in {"label"} \cup Jumps
      PROVE  IsSeq(c[k].sym) /\ c[k].sym # <<>> /\ Marked(c[k].sym \o Suffix(n), n)
  <2>1. Named(c[k].sym, m0)
    BY <1>8 DEF Sited
  <2> QED
    BY <2>1, SuffixMarked DEF Named
<1>9. ASSUME NEW q \in 1 .. Len(B), B[q].op = "label"
      PROVE  c[w[q]].op = "label" /\ x[q] = 1 /\ B[q].sym = c[w[q]].sym \o Suffix(n)
  BY <1>15, <1>9
<1>10. ASSUME NEW q \in 1 .. Len(B), B[q].op \in Jumps
       PROVE  B[q].sym = Exit(n) \/ (c[w[q]].op \in Jumps /\ B[q].sym = c[w[q]].sym \o Suffix(n))
  BY <1>15, <1>10
<1>11. ASSUME NEW q \in 1 .. Len(B), B[q].op \in {"label"} \cup Jumps PROVE Marked(B[q].sym, n)
  <2>1. B[q].sym = Exit(n) \/ (c[w[q]].op \in {"label"} \cup Jumps /\ B[q].sym = c[w[q]].sym \o Suffix(n))
    BY <1>9, <1>10, <1>11
  <2> QED
    BY <1>4, <1>8, <2>1, ExitMarked
<1>12. ASSUME NEW q \in 1 .. Len(B), B[q].op = "label" PROVE B[q].sym # Exit(n)
  <2>1. IsSeq(c[w[q]].sym) /\ c[w[q]].sym # <<>>
    BY <1>4, <1>8, <1>9, <1>12
  <2> QED
    BY <1>9, <1>12, <2>1, ExitNew
<1>13. ASSUME NEW q \in 1 .. Len(B), B[q].op \in Jumps, B[q].sym # Exit(n)
       PROVE  \E at : LabelsAt(B, B[q].sym) = {at}
  <2> DEFINE l == c[w[q]].sym
  <2>1. c[w[q]].op \in Jumps /\ B[q].sym = l \o Suffix(n)
    BY <1>10, <1>13
  <2>2. Targeted(c, l)
    BY <1>4, <2>1 DEF Targeted
  <2>3. PICK k : LabelsAt(c, l) = {k}
    BY <2>2 DEF Sited
  <2>4. k \in 1 .. Len(c) /\ c[k].op = "label" /\ c[k].sym = l
    <3>1. k \in LabelsAt(c, l) /\ IsSeq(c)
      BY <2>3 DEF IsCode
    <3> QED
      BY <3>1, LabelIn
  <2>5. /\ Len(p[k]) = 1 /\ p[k][1].op = "label" /\ p[k][1].sym = l \o Suffix(n)
    <3>1. c[k].op # "ret" /\ c[k].op \in {"label"} \cup Jumps /\ IsClone(c[k], p[k], n)
      BY <1>0, <2>4
    <3> QED
      BY <2>4, <3>1 DEF IsClone
  <2>6. k \in 1 .. Len(p) /\ 1 \in 1 .. Len(p[k])
    BY <1>0, <2>4, <2>5
  <2>7. PICK at \in 1 .. Len(B) : w[at] = k /\ x[at] = 1
    BY <1>16, <2>6
  <2>8. B[at].op = "label" /\ B[at].sym = B[q].sym
    <3>1. B[at] = p[k][1]
      BY <1>4, <2>7
    <3> QED
      BY <2>1, <2>5, <3>1
  <2>9. ASSUME NEW r \in 1 .. Len(B), B[r].op = "label", B[r].sym = B[q].sym PROVE r = at
    <3>1. c[w[r]].op = "label" /\ x[r] = 1 /\ c[w[r]].sym \o Suffix(n) = l \o Suffix(n)
      BY <1>9, <2>1, <2>9
    <3>2. IsSeq(c[w[r]].sym) /\ IsSeq(l)
      BY <1>4, <1>8, <2>1, <3>1
    <3>3. c[w[r]].sym = l
      BY <3>1, <3>2, SuffixInjective
    <3>4. w[r] \in LabelsAt(c, l)
      BY <1>4, <3>1, <3>3, LabelIn DEF IsCode
    <3>5. w[r] = w[at] /\ x[r] = x[at] /\ w[r] \in Nat
      BY <1>4, <2>3, <2>7, <3>1, <3>4
    <3>6. IsSeq(B) /\ Laid(p, B, w, x) /\ r \in 1 .. Len(B) /\ at \in 1 .. Len(B)
      BY <1>2, <1>3
    <3> QED
      BY ONLY <3>5, <3>6, LaidOnce
  <2>10. \A r : r \in LabelsAt(B, B[q].sym) <=> r = at
    <3>1. \A r : r \in LabelsAt(B, B[q].sym) <=> r \in 1 .. Len(B) /\ B[r].op = "label" /\ B[r].sym = B[q].sym
      BY <1>2, LabelIn
    <3> QED
      BY <2>8, <2>9, <3>1
  <2>11. LabelsAt(B, B[q].sym) = {at}
    BY <2>10
  <2> QED
    BY <2>11
<1>14. \A q \in 1 .. Len(B) :
         /\ B[q].op \in {"label"} \cup Jumps => Marked(B[q].sym, n)
         /\ B[q].op = "label" => B[q].sym # Exit(n)
         /\ B[q].op \in Jumps => B[q].sym = Exit(n) \/ \E at : LabelsAt(B, B[q].sym) = {at}
  BY <1>11, <1>12, <1>13
<1> QED
  BY <1>6, <1>7, <1>14 DEF B, CopiesOf

\* Code d takes the place of the nth call, of a function with code c.
IsExpansion(c, d, n) ==
  /\ IsCode(d) /\ CallsFrom(c, d)
  /\ \A k \in 1 .. Len(d) : d[k].op \in {"label"} \cup Jumps => Marked(d[k].sym, n)
  /\ \A l : Targeted(d, l) => \E at : LabelsAt(d, l) = {at}

\* Copies of the arguments, of the code, and the label of the exit.
LEMMA ThreeParts ==
  ASSUME NEW c, NEW n, NEW A, IsCode(A), \A k \in 1 .. Len(A) : A[k].op = "copy",
         NEW B, CopiesOf(c, B, n)
  PROVE  IsExpansion(c, A \o B \o <<Label(Exit(n))>>, n)
<1> DEFINE y == Label(Exit(n))
           C == <<y>>
           D == A \o B
           E == D \o C
           a == Len(A)
           d == Len(D)
<1>0. /\ IsCode(B) /\ CallsFrom(c, B)
      /\ \A q \in 1 .. Len(B) :
           /\ B[q].op \in {"label"} \cup Jumps => Marked(B[q].sym, n)
           /\ B[q].op = "label" => B[q].sym # Exit(n)
           /\ B[q].op \in Jumps => B[q].sym = Exit(n) \/ \E at : LabelsAt(B, B[q].sym) = {at}
  BY DEF CopiesOf
<1>1. IsIns(y) /\ y.op = "label" /\ y.sym = Exit(n)
  BY LabelIs
<1> HIDE DEF y
<1>2. IsCode(C) /\ Len(C) = 1 /\ C[1] = y
  BY <1>1, SingleIs
<1> HIDE DEF C
<1>3. /\ IsCode(D) /\ Len(D) = Len(A) + Len(B)
      /\ \A k \in 1 .. Len(B) : D[Len(A) + k] = B[k]
      /\ \A k \in 1 .. Len(D) : \/ k \in 1 .. Len(A) /\ D[k] = A[k]
                                \/ k - Len(A) \in 1 .. Len(B) /\ D[k] = B[k - Len(A)]
  <2>1. IsCode(A) /\ IsCode(B)
    BY <1>0
  <2> QED
    BY ONLY <2>1, CodeConcat
<1> HIDE DEF D
<1>4. /\ IsCode(E) /\ Len(E) = Len(D) + Len(C)
      /\ \A k \in 1 .. Len(D) : E[k] = D[k]
      /\ \A k \in 1 .. Len(C) : E[Len(D) + k] = C[k]
      /\ \A k \in 1 .. Len(E) : \/ k \in 1 .. Len(D) /\ E[k] = D[k]
                                \/ k - Len(D) \in 1 .. Len(C) /\ E[k] = C[k - Len(D)]
  <2>1. IsCode(C) /\ IsCode(D)
    BY <1>2, <1>3
  <2> QED
    BY ONLY <2>1, CodeConcat
<1> HIDE DEF E
<1>5. a \in Nat /\ Len(B) \in Nat /\ d = a + Len(B) /\ d \in Nat /\ a = Len(A) /\ d = Len(D)
  BY <1>0, <1>3, CodeDomain
<1> HIDE DEF a, d
<1>6. Len(E) = d + 1 /\ E[d + 1] = y
  BY <1>2, <1>4, <1>5
<1>7. \A k \in 1 .. Len(B) : a + k \in 1 .. d /\ E[a + k] = B[k]
  <2> SUFFICES ASSUME NEW k \in 1 .. Len(B) PROVE a + k \in 1 .. d /\ E[a + k] = B[k]
    OBVIOUS
  <2>1. a + k \in 1 .. d
    BY <1>5
  <2> QED
    BY <1>3, <1>4, <1>5, <2>1
<1>8. ASSUME NEW k \in 1 .. Len(E)
      PROVE  \/ k \in 1 .. a /\ E[k].op = "copy"
             \/ k - a \in 1 .. Len(B) /\ E[k] = B[k - a] /\ k \in 1 .. d
             \/ k = d + 1
  <2>1. CASE k \in 1 .. d
    <3>1. E[k] = D[k]
      BY <1>4, <1>5, <2>1
    <3>2. \/ k \in 1 .. a /\ D[k] = A[k]
          \/ k - a \in 1 .. Len(B) /\ D[k] = B[k - a]
      BY <1>3, <1>5, <2>1
    <3>3. k \in 1 .. a => A[k].op = "copy"
      BY <1>5
    <3> QED
      BY <2>1, <3>1, <3>2, <3>3
  <2>2. CASE k \notin 1 .. d
    BY <1>5, <1>6, <2>2
  <2> QED
    BY <2>1, <2>2
<1>9. CallsFrom(c, E)
  <2> SUFFICES ASSUME NEW k \in 1 .. Len(E), E[k].op \in Direct
               PROVE  \E j \in 1 .. Len(c) : /\ c[j].op = E[k].op /\ c[j].sym = E[k].sym
                                             /\ Len(c[j].args) = Len(E[k].args)
    BY DEF CallsFrom
  <2>1. k - a \in 1 .. Len(B) /\ E[k] = B[k - a]
    BY <1>1, <1>6, <1>8 DEF Direct
  <2> QED
    BY <1>0, <2>1 DEF CallsFrom
<1>10. ASSUME NEW k \in 1 .. Len(E), E[k].op \in {"label"} \cup Jumps PROVE Marked(E[k].sym, n)
  <2>1. k = d + 1 \/ (k - a \in 1 .. Len(B) /\ E[k] = B[k - a])
    BY <1>8, <1>10 DEF Jumps
  <2> QED
    BY <1>0, <1>1, <1>6, <1>10, <2>1, ExitMarked
<1>11. ASSUME NEW l, Targeted(E, l) PROVE \E at : LabelsAt(E, l) = {at}
  <2>1. PICK k \in 1 .. Len(E) : E[k].op \in Jumps /\ E[k].sym = l
    BY <1>11 DEF Targeted
  <2>2. k - a \in 1 .. Len(B) /\ E[k] = B[k - a]
    BY <1>1, <1>6, <1>8, <2>1 DEF Jumps
  <2>3. \A r : r \in LabelsAt(E, l) <=> r \in 1 .. Len(E) /\ E[r].op = "label" /\ E[r].sym = l
    BY <1>4, LabelIn DEF IsCode
  <2>4. CASE l = Exit(n)
    <3>1. \A r \in 1 .. Len(E) : E[r].op = "label" /\ E[r].sym = l => r = d + 1
      BY <1>0, <1>8, <2>4
    <3>2. d + 1 \in 1 .. Len(E)
      BY <1>5, <1>6
    <3>3. \A r : r \in LabelsAt(E, l) <=> r = d + 1
      BY <1>1, <1>6, <2>3, <2>4, <3>1, <3>2
    <3>4. LabelsAt(E, l) = {d + 1}
      BY <3>3
    <3> QED
      BY <3>4
  <2>5. CASE l # Exit(n)
    <3>1. PICK at : LabelsAt(B, l) = {at}
      BY <1>0, <2>1, <2>2, <2>5
    <3>2. \A r : r \in LabelsAt(B, l) <=> r \in 1 .. Len(B) /\ B[r].op = "label" /\ B[r].sym = l
      BY <1>0, LabelIn DEF IsCode
    <3>3. at \in 1 .. Len(B) /\ B[at].op = "label" /\ B[at].sym = l
      BY <3>1, <3>2
    <3>4. a + at \in 1 .. Len(E) /\ E[a + at] = B[at]
      <4>1. a + at \in 1 .. d /\ E[a + at] = B[at]
        BY <1>7, <3>3
      <4> QED
        BY <1>5, <1>6, <4>1
    <3>5. ASSUME NEW r \in 1 .. Len(E), E[r].op = "label", E[r].sym = l PROVE r = a + at
      <4>1. r - a \in 1 .. Len(B) /\ E[r] = B[r - a]
        BY <1>1, <1>6, <1>8, <2>5, <3>5
      <4>2. r - a = at
        BY <3>1, <3>2, <3>5, <4>1
      <4> QED
        BY <1>5, <1>6, <4>2
    <3>6. \A r : r \in LabelsAt(E, l) <=> r = a + at
      BY <2>3, <3>3, <3>4, <3>5
    <3>7. LabelsAt(E, l) = {a + at}
      BY <3>6
    <3> QED
      BY <3>7
  <2> QED
    BY <2>4, <2>5
<1>12. IsExpansion(c, E, n)
  BY <1>4, <1>9, <1>10, <1>11 DEF IsExpansion
<1> QED
  BY <1>12 DEF E, D, C, y

\* What a call becomes is code with labels of its own.
LEMMA ExpansionRight ==
  ASSUME NEW f, IsSeq(f.params), IsCode(f.code), NEW m0, Sited(f.code, m0), NEW i, NEW max, NEW n
  PROVE  IsExpansion(f.code, Expansion(i, f, max, n).code, n)
<1> DEFINE arg(j) == IF j \in DOMAIN i.args THEN i.args[j] ELSE N(0)
           copied == {j \in DOMAIN f.params : IsTemp(arg(j)) \/ IsVar(arg(j))}
           temp(j) == max + Cardinality({m \in copied : m <= j})
           param == [x \in ToSet(f.params) |->
                       LET j == CHOOSE j \in DOMAIN f.params : f.params[j] = x
                       IN  IF j \in copied THEN T(temp(j)) ELSE arg(j)]
           all == [j \in DOMAIN f.params |-> j]
           order == KeepOnly(all, copied)
           offset == max + Cardinality(copied)
           A == [k \in DOMAIN order |-> Copy(temp(order[k]), arg(order[k]))]
           p == [k \in DOMAIN f.code |-> Clone(f.code[k], offset, param, Suffix(n), i.dst, Exit(n))]
           E == Expansion(i, f, max, n).code
<1>1. E = A \o FlattenSeq(p) \o <<Label(Exit(n))>>
  BY DEF Expansion, Suffix, Exit
<1>2. all = [k \in DOMAIN f.params |-> all[k]]
  OBVIOUS
<1> HIDE DEF E, all, copied, temp, param, offset, arg
<1>3. IsSeq(order)
  <2>1. IsSeq(all)
    BY <1>2, MappedIs
  <2> QED
    BY <2>1, KeepOnlyRight
<1> HIDE DEF order
<1>4. A = [k \in DOMAIN order |-> A[k]] /\ \A k \in DOMAIN order : A[k] = Copy(temp(order[k]), arg(order[k]))
  OBVIOUS
<1>5. p = [k \in DOMAIN f.code |-> p[k]]
      /\ \A k \in DOMAIN f.code : p[k] = Clone(f.code[k], offset, param, Suffix(n), i.dst, Exit(n))
  OBVIOUS
<1> HIDE DEF A, p
<1>6. IsCode(A) /\ \A k \in 1 .. Len(A) : A[k].op = "copy"
  <2>1. IsSeq(A) /\ Len(A) = Len(order) /\ DOMAIN order = 1 .. Len(order)
    BY <1>3, <1>4, MappedIs, SeqDomain
  <2>2. \A k \in 1 .. Len(A) : IsIns(A[k]) /\ A[k].op = "copy"
    BY <1>4, <2>1, CopyIs
  <2> QED
    BY <2>1, <2>2 DEF IsCode
<1>7. IsSeq(p) /\ Len(p) = Len(f.code) /\ \A k \in 1 .. Len(f.code) : IsClone(f.code[k], p[k], n)
  <2>1. /\ IsSeq(f.code) /\ DOMAIN f.code = 1 .. Len(f.code)
        /\ \A k \in 1 .. Len(f.code) : IsIns(f.code[k])
    BY CodeDomain
  <2>2. IsSeq(p) /\ Len(p) = Len(f.code)
    BY <1>5, <2>1, MappedIs
  <2>3. \A k \in 1 .. Len(f.code) : IsClone(f.code[k], p[k], n)
    BY <1>5, <2>1, CloneRight
  <2> QED
    BY <2>2, <2>3
<1> DEFINE c == f.code
           B == FlattenSeq(p)
<1> HIDE DEF c
<1>8. CopiesOf(c, B, n)
  <2>1. IsCode(c) /\ Sited(c, m0)
    BY DEF c
  <2>2. Cloned(c, p, n)
    BY <1>7 DEF c, Cloned
  <2> HIDE DEF c
  <2> QED
    BY ONLY <2>1, <2>2, ClonesRight
<1> HIDE DEF B
<1>9. IsExpansion(c, A \o B \o <<Label(Exit(n))>>, n)
  BY ONLY <1>6, <1>8, ThreeParts
<1> QED
  BY <1>1, <1>9 DEF B, c, E

-----------------------------------------------------------------------------
(* Code in which calls are replaced. *)
\* What was named in m steps is named in more.
LEMMA NamedMore ==
  ASSUME NEW m \in Nat, NEW n \in Nat, m <= n, NEW l, Named(l, m)
  PROVE  Named(l, n)
<1>1. 1 .. m \subseteq 1 .. n
  OBVIOUS
<1> QED
  BY <1>1 DEF Named

\* So are all labels of code.
LEMMA SitedMore ==
  ASSUME NEW m \in Nat, NEW n \in Nat, m <= n, NEW c, Sited(c, m)
  PROVE  Sited(c, n)
BY NamedMore DEF Sited

\* A label is marked with one number, and may be there once that number is used.
LEMMA MarkedNamed ==
  ASSUME NEW l, NEW m
  PROVE  /\ \A n : Marked(l, m) /\ Named(l, n) => m \in 1 .. n
         /\ \A n : Marked(l, m) /\ m \in 1 .. n => Named(l, n)
         /\ \A n : Marked(l, m) /\ Marked(l, n) => m = n
BY DEF Marked, Named

\* p is code c, with code for a call of code b[k] in the place of each call k
\* of K, the num[k]th.
Spliced(c, p, K, num, b, m, n) ==
  /\ IsSeq(p) /\ Len(p) = Len(c)
  /\ m \in Nat /\ n \in Nat /\ m <= n
  /\ \A k \in 1 .. Len(c) : k \notin K => p[k] = <<c[k]>>
  /\ \A k \in 1 .. Len(c) : k \in K =>
       c[k].op = "call" /\ IsExpansion(b[k], p[k], num[k]) /\ num[k] \in 1 .. n /\ num[k] \notin 1 .. m
  /\ \A k, j \in 1 .. Len(c) : k \in K /\ j \in K /\ num[k] = num[j] => k = j

\* Where the calls of code d are from.
CallsOf(c, K, b, d) ==
  \A q \in 1 .. Len(d) : d[q].op \in Direct =>
    \/ \E k \in 1 .. Len(c) : k \notin K /\ d[q] = c[k]
    \/ \E k \in 1 .. Len(c) : /\ k \in K
                              /\ \E j \in 1 .. Len(b[k]) : /\ b[k][j].op = d[q].op /\ b[k][j].sym = d[q].sym
                                                           /\ Len(b[k][j].args) = Len(d[q].args)

\* Code in which calls are replaced: no label meets another, and every jump has
\* its own.
LEMMA SplicedRight ==
  ASSUME NEW c, IsCode(c), NEW m, Sited(c, m), NEW p, NEW K, NEW num, NEW b, NEW n, Spliced(c, p, K, num, b, m, n)
  PROVE  LET F == FlattenSeq(p)
         IN  /\ IsCode(F) /\ Sited(F, n) /\ (HasEnd(c) => HasEnd(F))
             /\ CallsOf(c, K, b, F)
<1> DEFINE F == FlattenSeq(p)
<1>1. /\ IsSeq(p) /\ Len(p) = Len(c)
      /\ m \in Nat /\ n \in Nat /\ m <= n
      /\ \A k \in 1 .. Len(c) : k \notin K => p[k] = <<c[k]>>
      /\ \A k \in 1 .. Len(c) : k \in K =>
           c[k].op = "call" /\ IsExpansion(b[k], p[k], num[k]) /\ num[k] \in 1 .. n /\ num[k] \notin 1 .. m
      /\ \A k, j \in 1 .. Len(c) : k \in K /\ j \in K /\ num[k] = num[j] => k = j
  BY DEF Spliced
<1>2. IsSeq(c) /\ Len(c) \in Nat /\ \A k \in 1 .. Len(c) : IsIns(c[k])
  BY CodeDomain
<1>3. ASSUME NEW k \in 1 .. Len(c) PROVE IsCode(p[k]) /\ (k \notin K => Len(p[k]) = 1 /\ p[k][1] = c[k])
  <2>1. CASE k \in K
    BY <1>1, <2>1 DEF IsExpansion
  <2>2. CASE k \notin K
    <3>1. p[k] = <<c[k]>> /\ IsIns(c[k])
      BY <1>1, <1>2, <2>2
    <3> QED
      BY <2>2, <3>1, SingleIs
  <2> QED
    BY <2>1, <2>2
<1>4. IsSeq(F) /\ \E w, x : Laid(p, F, w, x)
  <2>1. \A k \in 1 .. Len(p) : IsSeq(p[k])
    BY <1>1, <1>3 DEF IsCode
  <2> QED
    BY <1>1, <2>1, FlattenRight
<1> HIDE DEF F
<1>5. PICK w, x : Laid(p, F, w, x)
  BY <1>4
<1>6. ASSUME NEW q \in 1 .. Len(F)
      PROVE  /\ w[q] \in 1 .. Len(c) /\ x[q] \in 1 .. Len(p[w[q]]) /\ F[q] = p[w[q]][x[q]] /\ w[q] \in Nat
             /\ w[q] \notin K => F[q] = c[w[q]] /\ x[q] = 1
  <2>1. w[q] \in 1 .. Len(p) /\ x[q] \in 1 .. Len(p[w[q]]) /\ F[q] = p[w[q]][x[q]]
    BY <1>5 DEF Laid
  <2>2. w[q] \in 1 .. Len(c)
    BY <1>1, <2>1
  <2>3. ASSUME w[q] \notin K PROVE F[q] = c[w[q]] /\ x[q] = 1
    <3>1. Len(p[w[q]]) = 1 /\ p[w[q]][1] = c[w[q]]
      BY <1>3, <2>2, <2>3
    <3>2. x[q] = 1
      BY <2>1, <3>1
    <3> QED
      BY <2>1, <3>1, <3>2
  <2> QED
    BY <1>2, <2>1, <2>2, <2>3
<1>7. \A k \in 1 .. Len(c) : \A i \in 1 .. Len(p[k]) : \E q \in 1 .. Len(F) : w[q] = k /\ x[q] = i
  BY <1>1, <1>5 DEF Laid
<1>8. \A q, r \in 1 .. Len(F) : w[q] = w[r] /\ x[q] = x[r] => q = r
  BY <1>4, <1>5, <1>6, LaidOnce
<1>9. IsCode(F)
  <2>1. \A q \in 1 .. Len(F) : IsIns(F[q])
    BY <1>3, <1>6 DEF IsCode
  <2> QED
    BY <1>4, <2>1 DEF IsCode
<1>10. ASSUME NEW q \in 1 .. Len(F), F[q].op \in {"label"} \cup Jumps
       PROVE  /\ w[q] \notin K => Named(F[q].sym, m)
              /\ w[q] \in K => Marked(F[q].sym, num[w[q]])
  <2>1. ASSUME w[q] \notin K PROVE Named(F[q].sym, m)
    <3>1. F[q] = c[w[q]] /\ w[q] \in 1 .. Len(c)
      BY <1>6, <2>1
    <3> QED
      BY <1>10, <3>1 DEF Sited
  <2>2. ASSUME w[q] \in K PROVE Marked(F[q].sym, num[w[q]])
    <3>1. IsExpansion(b[w[q]], p[w[q]], num[w[q]]) /\ F[q] = p[w[q]][x[q]] /\ x[q] \in 1 .. Len(p[w[q]])
      BY <1>1, <1>6, <2>2
    <3> QED
      BY <1>10, <3>1 DEF IsExpansion
  <2> QED
    BY <2>1, <2>2
<1>11. ASSUME NEW q \in 1 .. Len(F), F[q].op \in {"label"} \cup Jumps PROVE Named(F[q].sym, n)
  <2>1. CASE w[q] \notin K
    BY <1>1, <1>10, <1>11, <2>1, NamedMore
  <2>2. CASE w[q] \in K
    <3>1. Marked(F[q].sym, num[w[q]]) /\ num[w[q]] \in 1 .. n
      BY <1>1, <1>6, <1>10, <1>11, <2>2
    <3> QED
      BY <3>1, MarkedNamed
  <2> QED
    BY <2>1, <2>2
<1>12. ASSUME NEW q \in 1 .. Len(F), NEW r \in 1 .. Len(F), F[q].op \in {"label"} \cup Jumps,
              F[r].op \in {"label"} \cup Jumps, F[q].sym = F[r].sym, w[q] \in K
       PROVE  w[r] = w[q]
  <2>1. Marked(F[q].sym, num[w[q]]) /\ num[w[q]] \notin 1 .. m
    BY <1>1, <1>6, <1>10, <1>12
  <2>2. w[r] \in K
    <3> SUFFICES ASSUME w[r] \notin K PROVE FALSE
      OBVIOUS
    <3>1. Named(F[q].sym, m)
      BY <1>10, <1>12
    <3> QED
      BY <2>1, <3>1, MarkedNamed
  <2>3. Marked(F[q].sym, num[w[r]])
    BY <1>10, <1>12, <2>2
  <2>4. num[w[q]] = num[w[r]]
    BY <2>1, <2>3, MarkedNamed
  <2> QED
    BY <1>1, <1>6, <1>12, <2>2, <2>4
<1>13. ASSUME NEW q \in 1 .. Len(F), F[q].op \in Jumps PROVE \E at : LabelsAt(F, F[q].sym) = {at}
  <2> DEFINE l == F[q].sym
             k == w[q]
  <2>0. k \in 1 .. Len(c) /\ l = F[q].sym /\ k = w[q] /\ F[q].op \in {"label"} \cup Jumps
    BY <1>6, <1>13
  <2>1. \A r : r \in LabelsAt(F, l) <=> r \in 1 .. Len(F) /\ F[r].op = "label" /\ F[r].sym = l
    BY <1>4, LabelIn
  <2> HIDE DEF l, k
  <2>2. CASE k \in K
    <3>1. IsExpansion(b[k], p[k], num[k]) /\ F[q] = p[k][x[q]] /\ x[q] \in 1 .. Len(p[k])
      BY <1>1, <1>6, <2>0, <2>2
    <3>2. Targeted(p[k], l)
      BY <1>13, <2>0, <3>1 DEF Targeted
    <3>3. PICK i : LabelsAt(p[k], l) = {i}
      BY <3>1, <3>2 DEF IsExpansion
    <3>4. \A j : j \in LabelsAt(p[k], l) <=> j \in 1 .. Len(p[k]) /\ p[k][j].op = "label" /\ p[k][j].sym = l
      <4>1. IsSeq(p[k])
        BY <3>1 DEF IsExpansion, IsCode
      <4> QED
        BY <4>1, LabelIn
    <3>5. i \in 1 .. Len(p[k]) /\ p[k][i].op = "label" /\ p[k][i].sym = l
      BY <3>3, <3>4
    <3>6. PICK at \in 1 .. Len(F) : w[at] = k /\ x[at] = i
      BY <1>7, <2>0, <3>5
    <3>7. F[at].op = "label" /\ F[at].sym = l
      <4>1. F[at] = p[k][i]
        BY <1>6, <3>6
      <4> QED
        BY <3>5, <4>1
    <3>8. ASSUME NEW r \in 1 .. Len(F), F[r].op = "label", F[r].sym = l PROVE r = at
      <4>1. w[r] = k
        BY <1>12, <2>0, <2>2, <3>8
      <4>2. x[r] \in 1 .. Len(p[k]) /\ F[r] = p[k][x[r]]
        BY <1>6, <4>1
      <4>3. x[r] = i
        BY <3>3, <3>4, <3>8, <4>2
      <4> QED
        BY <1>8, <3>6, <4>1, <4>3
    <3>9. \A r : r \in LabelsAt(F, l) <=> r = at
      BY <2>1, <3>7, <3>8
    <3>10. LabelsAt(F, l) = {at}
      BY <3>9
    <3> QED
      BY <2>0, <3>10
  <2>3. CASE k \notin K
    <3>1. F[q] = c[k]
      BY <1>6, <2>0, <2>3
    <3>2. Targeted(c, l)
      BY <1>13, <2>0, <3>1 DEF Targeted
    <3>3. PICK i : LabelsAt(c, l) = {i}
      BY <3>2 DEF Sited
    <3>4. \A j : j \in LabelsAt(c, l) <=> j \in 1 .. Len(c) /\ c[j].op = "label" /\ c[j].sym = l
      BY <1>2, LabelIn
    <3>5. i \in 1 .. Len(c) /\ c[i].op = "label" /\ c[i].sym = l
      BY <3>3, <3>4
    <3>6. i \notin K /\ Len(p[i]) = 1
      <4>1. i \notin K
        BY <1>1, <3>5
      <4> QED
        BY <1>3, <3>5, <4>1
    <3>7. PICK at \in 1 .. Len(F) : w[at] = i /\ x[at] = 1
      BY <1>7, <3>5, <3>6
    <3>8. F[at].op = "label" /\ F[at].sym = l
      <4>1. F[at] = c[i]
        BY <1>6, <3>6, <3>7
      <4> QED
        BY <3>5, <4>1
    <3>9. ASSUME NEW r \in 1 .. Len(F), F[r].op = "label", F[r].sym = l PROVE r = at
      <4>1. w[r] \notin K
        <5> SUFFICES ASSUME w[r] \in K PROVE FALSE
          OBVIOUS
        <5>1. w[q] = w[r]
          BY <1>12, <2>0, <3>9
        <5> QED
          BY <2>0, <2>3, <5>1
      <4>2. F[r] = c[w[r]] /\ x[r] = 1 /\ w[r] \in 1 .. Len(c)
        BY <1>6, <4>1
      <4>3. w[r] = i
        BY <3>3, <3>4, <3>9, <4>2
      <4> QED
        BY <1>8, <3>7, <4>2, <4>3
    <3>10. \A r : r \in LabelsAt(F, l) <=> r = at
      BY <2>1, <3>8, <3>9
    <3>11. LabelsAt(F, l) = {at}
      BY <3>10
    <3> QED
      BY <2>0, <3>11
  <2> QED
    BY <2>2, <2>3
<1>14. Sited(F, n)
  <2>1. ASSUME NEW l, Targeted(F, l) PROVE \E at : LabelsAt(F, l) = {at}
    <3>1. PICK q \in 1 .. Len(F) : F[q].op \in Jumps /\ F[q].sym = l
      BY <2>1 DEF Targeted
    <3> QED
      BY <1>13, <3>1
  <2> QED
    BY <1>11, <2>1 DEF Sited
<1>15. ASSUME HasEnd(c) PROVE HasEnd(F)
  <2>1. PICK k \in 1 .. Len(c) : c[k].op \in {"label"} \cup Jumps \cup Returns
    BY <1>15 DEF HasEnd
  <2>2. k \notin K
    BY <1>1, <2>1 DEF Jumps, Returns
  <2>3. 1 \in 1 .. Len(p[k])
    BY <1>3, <2>2
  <2>4. PICK q \in 1 .. Len(F) : w[q] = k
    BY <1>7, <2>3
  <2>5. F[q] = c[k]
    BY <1>6, <2>2, <2>4
  <2> QED
    BY <2>1, <2>5 DEF HasEnd
<1>16. CallsOf(c, K, b, F)
  <2> SUFFICES ASSUME NEW q \in 1 .. Len(F), F[q].op \in Direct
               PROVE  \/ \E k \in 1 .. Len(c) : k \notin K /\ F[q] = c[k]
                      \/ \E k \in 1 .. Len(c) :
                           /\ k \in K
                           /\ \E j \in 1 .. Len(b[k]) : /\ b[k][j].op = F[q].op /\ b[k][j].sym = F[q].sym
                                                        /\ Len(b[k][j].args) = Len(F[q].args)
    BY DEF CallsOf
  <2> DEFINE k == w[q]
  <2>1. k \in 1 .. Len(c) /\ (k \notin K => F[q] = c[k]) /\ F[q] = p[k][x[q]] /\ x[q] \in 1 .. Len(p[k])
    BY <1>6
  <2> HIDE DEF k
  <2>2. CASE k \in K
    <3>1. IsExpansion(b[k], p[k], num[k])
      BY <1>1, <2>1, <2>2
    <3>2. \E j \in 1 .. Len(b[k]) : /\ b[k][j].op = F[q].op /\ b[k][j].sym = F[q].sym
                                    /\ Len(b[k][j].args) = Len(F[q].args)
      BY <2>1, <3>1 DEF IsExpansion, CallsFrom
    <3> QED
      BY <2>1, <2>2, <3>2
  <2> QED
    BY <2>1, <2>2
<1> QED
  BY <1>9, <1>14, <1>15, <1>16 DEF F

\* What InlineCalls has used after one more instruction, and what that becomes.
NextUsed(P, S, i, u) ==
  IF i.op = "call" /\ i.sym \in S
  THEN [max |-> Expansion(i, Function(P, i.sym), u.max, u.counter + 1).max, counter |-> u.counter + 1]
  ELSE u
Spread(P, S, i, u) ==
  IF i.op = "call" /\ i.sym \in S
  THEN Expansion(i, Function(P, i.sym), u.max, u.counter + 1).code ELSE <<i>>

\* f is what InlineCalls(Q, d, S, c0) has used up to every instruction.
UsedUp(Q, d, S, c0, n, f) ==
  /\ f[0] = [max |-> MaxTempId(d.code), counter |-> c0]
  /\ \A i \in 1 .. n : f[i] = NextUsed(Q, S, d.code[i], f[i - 1])
  /\ InlineCalls(Q, d, S, c0) = [code |-> FlattenSeq([k \in DOMAIN d.code |-> Spread(Q, S, d.code[k], f[k - 1])]), counter |-> f[n].counter]

\* What is used up instruction by instruction.
LEMMA UsedSteps ==
  ASSUME NEW Q, NEW d, NEW S, NEW c0, NEW n \in Nat, n = Len(d.code)
  PROVE  \E f : UsedUp(Q, d, S, c0, n, f)
<1> DEFINE Following(x, i) == NextUsed(Q, S, d.code[i], x)
           Step(h, i) == IF i = 0 THEN [max |-> MaxTempId(d.code), counter |-> c0] ELSE Following(h[i - 1], i)
           P == {m \in 0 .. n : \E h : h = [i \in 0 .. m |-> Step(h, i)]}
           f == CHOOSE h : h = [i \in 0 .. n |-> Step(h, i)]
<1>1. 0 \in P
  <2> DEFINE h == [i \in 0 .. 0 |-> [max |-> MaxTempId(d.code), counter |-> c0]]
  <2>1. h = [i \in 0 .. 0 |-> Step(h, i)]
    OBVIOUS
  <2> HIDE DEF h
  <2>2. \E g : g = [i \in 0 .. 0 |-> Step(g, i)]
    BY <2>1
  <2> HIDE DEF Step
  <2> QED
    BY <2>2
<1>2. ASSUME NEW m \in 1 .. n, m - 1 \in P PROVE m \in P
  <2> HIDE DEF Following
  <2>1. PICK h : h = [i \in 0 .. m - 1 |-> Step(h, i)]
    BY <1>2
  <2> DEFINE g == [i \in 0 .. m |-> IF i = m THEN Following(h[m - 1], m) ELSE h[i]]
  <2>2. /\ g = [i \in 0 .. m |-> g[i]] /\ g[m] = Following(h[m - 1], m)
        /\ \A i \in 0 .. m - 1 : g[i] = h[i]
    OBVIOUS
  <2> HIDE DEF g
  <2>3. ASSUME NEW i \in 0 .. m PROVE g[i] = Step(g, i)
    <3>1. CASE i = m
      <4>1. m - 1 \in 0 .. m - 1 /\ m # 0
        OBVIOUS
      <4>2. h[m - 1] = g[m - 1]
        BY <2>2, <4>1
      <4> QED
        BY <2>2, <3>1, <4>1, <4>2
    <3>2. CASE i < m
      <4>1. i \in 0 .. m - 1 /\ (i # 0 => i - 1 \in 0 .. m - 1)
        BY <3>2
      <4>2. h[i] = Step(h, i)
        <5> HIDE DEF Step
        <5> QED
          BY <2>1, <4>1
      <4> QED
        BY <2>2, <4>1, <4>2
    <3> HIDE DEF Step
    <3> QED
      BY <3>1, <3>2
  <2>4. g = [i \in 0 .. m |-> Step(g, i)]
    <3> HIDE DEF Step
    <3> QED
      BY <2>2, <2>3
  <2> QED
    BY <2>4
<1>3. f = [i \in 0 .. n |-> Step(f, i)]
  <2>1. 0 .. n \subseteq P
    <3> HIDE DEF P
    <3> QED
      BY <1>1, <1>2, UpTo
  <2>2. n \in P
    <3> HIDE DEF P
    <3> QED
      BY <2>1
  <2> QED
    BY <2>2
<1>4. InlineCalls(Q, d, S, c0) = [code |-> FlattenSeq([k \in DOMAIN d.code |-> Spread(Q, S, d.code[k], f[k - 1])]), counter |-> f[n].counter]
  BY DEF InlineCalls, NextUsed, Spread
<1>5. f[0] = [max |-> MaxTempId(d.code), counter |-> c0] /\ \A i \in 1 .. n : f[i] = Following(f[i - 1], i)
  <2> HIDE DEF f, Following
  <2>1. f[0] = Step(f, 0) /\ \A i \in 1 .. n : f[i] = Step(f, i) /\ i # 0
    <3> HIDE DEF Step
    <3>1. n \in Nat
      OBVIOUS
    <3>2. f = [i \in 0 .. n |-> Step(f, i)]
      BY <1>3
    <3> QED
      BY ONLY <3>1, <3>2
  <2> QED
    BY <2>1
<1> HIDE DEF f
<1> QED
  BY <1>4, <1>5 DEF UsedUp

\* Every call that is replaced counts one.
CountsCalls(d, S, n, u) ==
  \A k \in 1 .. n : d.code[k].op = "call" /\ d.code[k].sym \in S => u[k].counter = u[k - 1].counter + 1

\* Numbers are never used again.
LEMMA UsedGrows ==
  ASSUME NEW P, NEW d, NEW S, NEW m \in Nat, NEW n \in Nat, n = Len(d.code), NEW u, UsedUp(P, d, S, m, n, u)
  PROVE  /\ \A k \in 0 .. n : u[k].counter \in Nat /\ m <= u[k].counter
         /\ \A k \in 0 .. n : \A j \in 0 .. k : u[j].counter <= u[k].counter
         /\ CountsCalls(d, S, n, u)
<1>1. /\ u[0] = [max |-> MaxTempId(d.code), counter |-> m]
      /\ \A k \in 1 .. n : u[k] = NextUsed(P, S, d.code[k], u[k - 1])
  BY DEF UsedUp
<1>2. ASSUME NEW k \in 1 .. n
      PROVE  /\ d.code[k].op = "call" /\ d.code[k].sym \in S => u[k].counter = u[k - 1].counter + 1
             /\ u[k].counter = u[k - 1].counter + 1 \/ u[k].counter = u[k - 1].counter
  <2> DEFINE i == d.code[k]
             v == u[k - 1]
             new == Expansion(i, Function(P, i.sym), v.max, v.counter + 1).max
  <2>1. u[k] = NextUsed(P, S, i, v)
    BY <1>1
  <2>2. NextUsed(P, S, i, v) = IF i.op = "call" /\ i.sym \in S THEN [max |-> new, counter |-> v.counter + 1] ELSE v
    BY DEF NextUsed
  <2> HIDE DEF i, v, new
  <2>3. /\ i.op = "call" /\ i.sym \in S => u[k].counter = v.counter + 1
        /\ u[k].counter = v.counter + 1 \/ u[k].counter = v.counter
    BY ONLY <2>1, <2>2
  <2> QED
    BY <2>3 DEF i, v
<1> DEFINE B == {k \in 0 .. n : /\ u[k].counter \in Nat /\ m <= u[k].counter
                                /\ \A j \in 0 .. k : u[j].counter <= u[k].counter}
<1>3. 0 \in B
  <2>1. u[0].counter = m
    BY <1>1
  <2>2. \A j \in 0 .. 0 : j = 0
    OBVIOUS
  <2> QED
    BY <2>1, <2>2
<1>4. ASSUME NEW k \in 1 .. n, k - 1 \in B PROVE k \in B
  <2> DEFINE a == u[k - 1].counter
             b == u[k].counter
  <2>1. a \in Nat /\ m <= a /\ \A j \in 0 .. k - 1 : u[j].counter <= a
    BY <1>4
  <2>2. b = a + 1 \/ b = a
    BY <1>2
  <2> HIDE DEF a
  <2>3. b \in Nat /\ m <= b /\ a <= b
    BY <2>1, <2>2
  <2>4. ASSUME NEW j \in 0 .. k PROVE u[j].counter <= b
    <3>1. CASE j = k
      BY <2>3, <3>1
    <3>2. CASE j # k
      <4>1. j \in 0 .. k - 1
        BY <3>2
      <4>2. u[j].counter <= a /\ u[j].counter \in Nat
        <5>1. u[j].counter <= a
          BY <2>1, <4>1
        <5>2. u[j].counter \in Nat
          <6> DEFINE M == {i \in 0 .. n : u[i].counter \in Nat}
          <6>1. 0 \in M
            BY <1>1
          <6>2. ASSUME NEW i \in 1 .. n, i - 1 \in M PROVE i \in M
            <7>1. u[i - 1].counter \in Nat
              BY <6>2
            <7> QED
              BY <1>2, <7>1
          <6>3. 0 .. n \subseteq M
            <7> HIDE DEF M
            <7> QED
              BY <6>1, <6>2, UpTo
          <6>4. j \in M
            BY <4>1, <6>3
          <6> QED
            BY <6>4
        <5> QED
          BY <5>1, <5>2
      <4> QED
        BY <2>1, <2>3, <4>2
    <3> QED
      BY <3>1, <3>2
  <2> QED
    BY <2>3, <2>4
<1>5. 0 .. n \subseteq B
  <2> HIDE DEF B
  <2> QED
    BY <1>3, <1>4, UpTo
<1>6. CountsCalls(d, S, n, u)
  BY <1>2 DEF CountsCalls
<1> QED
  BY <1>5, <1>6

AllSited(P, n) == \A k \in 1 .. Len(P) : Sited(P[k].code, n)

\* Calls are gone or are those of an inlined function.
CallsLeft(P, k, S, d) ==
  \A q \in 1 .. Len(d) : d[q].op \in Direct =>
    \/ \E j \in 1 .. Len(P[k].code) : d[q] = P[k].code[j] /\ ~(d[q].op = "call" /\ d[q].sym \in S)
    \/ \E h \in 1 .. Len(P) : /\ P[h].name \in S
                              /\ \E j \in 1 .. Len(P[h].code) : /\ P[h].code[j].op = d[q].op
                                                                /\ P[h].code[j].sym = d[q].sym
                                                                /\ Len(P[h].code[j].args) = Len(d[q].args)

\* _inline_calls_in_function makes code of a function again, with labels
\* numbered up to the new counter.
LEMMA InlineCallsRight ==
  ASSUME NEW P, Whole(P), NEW k0 \in 1 .. Len(P), NEW S, S \subseteq FunctionNames(P), NEW m \in Nat, AllSited(P, m)
  PROVE  LET x == InlineCalls(P, P[k0], S, m)
         IN  /\ IsCode(x.code) /\ HasEnd(x.code) /\ Sited(x.code, x.counter) /\ CallsLeft(P, k0, S, x.code)
             /\ x.counter \in Nat /\ m <= x.counter
<1> DEFINE d == P[k0]
           c == d.code
           n == Len(c)
           x == InlineCalls(P, d, S, m)
<1>1. Shaped(d) /\ IsCode(c) /\ HasEnd(c) /\ n \in Nat /\ DOMAIN c = 1 .. n
  BY CodeDomain DEF Whole, Shaped
<1>0. n = Len(d.code)
  OBVIOUS
<1> HIDE DEF n
<1>2. PICK u : UsedUp(P, d, S, m, n, u)
  <2> HIDE DEF d, c
  <2>1. n \in Nat /\ n = Len(d.code)
    BY <1>0, <1>1
  <2> QED
    BY ONLY <2>1, UsedSteps
<1>3. /\ \A k \in 0 .. n : u[k].counter \in Nat /\ m <= u[k].counter
      /\ \A k \in 0 .. n : \A j \in 0 .. k : u[j].counter <= u[k].counter
      /\ \A k \in 1 .. n : c[k].op = "call" /\ c[k].sym \in S => u[k].counter = u[k - 1].counter + 1
  <2>1. n \in Nat /\ n = Len(d.code) /\ m \in Nat
    BY <1>0, <1>1
  <2> HIDE DEF d
  <2>2. /\ \A k \in 0 .. n : u[k].counter \in Nat /\ m <= u[k].counter
        /\ \A k \in 0 .. n : \A j \in 0 .. k : u[j].counter <= u[k].counter
        /\ CountsCalls(d, S, n, u)
    BY ONLY <1>2, <2>1, UsedGrows
  <2> QED
    BY <2>2 DEF CountsCalls
<1> DEFINE p == [k \in DOMAIN c |-> Spread(P, S, c[k], u[k - 1])]
           K == {k \in 1 .. n : c[k].op = "call" /\ c[k].sym \in S}
           num == [k \in 1 .. n |-> u[k - 1].counter + 1]
           b == [k \in 1 .. n |-> Function(P, c[k].sym).code]
           last == u[n].counter
<1>4. x = [code |-> FlattenSeq(p), counter |-> last]
  BY <1>2 DEF UsedUp
<1>5. p = [k \in DOMAIN c |-> p[k]] /\ \A k \in 1 .. n : p[k] = Spread(P, S, c[k], u[k - 1])
  BY <1>1
<1>6. \A k \in 1 .. n : num[k] = u[k - 1].counter + 1 /\ b[k] = Function(P, c[k].sym).code
  OBVIOUS
<1>7. \A k \in 1 .. n : k \in K <=> c[k].op = "call" /\ c[k].sym \in S
  OBVIOUS
<1> HIDE DEF p, K, num, b
<1>8. IsSeq(p) /\ Len(p) = n
  <2>1. IsSeq(c) /\ Len(c) = n
    BY <1>1 DEF IsCode, n
  <2> QED
    BY <1>5, <2>1, MappedIs
<1>9. last \in Nat /\ m <= last
  BY <1>1, <1>3
<1>10. ASSUME NEW k \in 1 .. n, k \in K
       PROVE  /\ c[k].op = "call" /\ IsExpansion(b[k], p[k], num[k]) /\ num[k] \in 1 .. last /\ num[k] \notin 1 .. m
              /\ \E h \in 1 .. Len(P) : P[h].name \in S /\ b[k] = P[h].code
  <2>1. c[k].op = "call" /\ c[k].sym \in S
    BY <1>7, <1>10
  <2>2. PICK h \in 1 .. Len(P) : P[h].name = c[k].sym /\ Function(P, c[k].sym) = P[h]
    BY <2>1, FunctionAt
  <2>3. p[k] = Expansion(c[k], P[h], u[k - 1].max, num[k]).code
    BY <1>5, <1>6, <2>1, <2>2 DEF Spread
  <2>4. IsSeq(P[h].params) /\ IsCode(P[h].code) /\ Sited(P[h].code, m)
    BY <2>2 DEF Whole, Shaped, AllSited
  <2>5. IsExpansion(P[h].code, p[k], num[k])
    BY <2>3, <2>4, ExpansionRight
  <2>6. b[k] = P[h].code
    BY <1>6, <2>2
  <2>7. num[k] \in 1 .. last /\ num[k] \notin 1 .. m
    <3>1. k - 1 \in 0 .. n /\ k \in 0 .. n /\ n \in 0 .. n /\ k \in 0 .. n
      BY <1>1
    <3>2. num[k] = u[k - 1].counter + 1 /\ u[k].counter = num[k]
      BY <1>3, <1>6, <2>1
    <3>3. u[k - 1].counter \in Nat /\ m <= u[k - 1].counter /\ u[k].counter <= last
      BY <1>3, <3>1
    <3> QED
      BY <1>9, <3>2, <3>3
  <2> QED
    BY <2>1, <2>2, <2>5, <2>6, <2>7
<1>11. ASSUME NEW k \in 1 .. n, NEW j \in 1 .. n, k \in K, j \in K, k < j PROVE num[k] # num[j]
  <2>1. k \in 0 .. j - 1 /\ j - 1 \in 0 .. n /\ k \in 0 .. n
    BY <1>1, <1>11
  <2>2. u[k].counter = num[k] /\ num[j] = u[j - 1].counter + 1
    BY <1>3, <1>6, <1>7, <1>11
  <2>3. u[k].counter \in Nat /\ u[j - 1].counter \in Nat /\ u[k].counter <= u[j - 1].counter
    BY <1>3, <2>1
  <2> QED
    BY <2>2, <2>3
<1>12. \A k, j \in 1 .. n : k \in K /\ j \in K /\ num[k] = num[j] => k = j
  <2> SUFFICES ASSUME NEW k \in 1 .. n, NEW j \in 1 .. n, k \in K, j \in K, num[k] = num[j] PROVE k = j
    OBVIOUS
  <2>1. ~(k < j) /\ ~(j < k)
    BY <1>11
  <2> QED
    BY <1>1, <2>1
<1>13. \A k \in 1 .. n : k \notin K => p[k] = <<c[k]>>
  BY <1>5, <1>7 DEF Spread
<1>14. Spliced(c, p, K, num, b, m, last)
  <2>1. Len(c) = n
    BY DEF n
  <2> HIDE DEF c, last
  <2> QED
    BY <1>8, <1>9, <1>10, <1>12, <1>13, <2>1 DEF Spliced
<1> DEFINE F == FlattenSeq(p)
<1>15. IsCode(F) /\ Sited(F, last) /\ (HasEnd(c) => HasEnd(F)) /\ CallsOf(c, K, b, F)
  <2>1. IsCode(c) /\ Sited(c, m)
    BY <1>1 DEF AllSited
  <2> HIDE DEF c, last
  <2> QED
    BY ONLY <1>14, <2>1, SplicedRight
<1> HIDE DEF F
<1>16. CallsLeft(P, k0, S, F)
  <2> SUFFICES ASSUME NEW q \in 1 .. Len(F), F[q].op \in Direct
               PROVE  \/ \E j \in 1 .. Len(P[k0].code) : F[q] = P[k0].code[j] /\ ~(F[q].op = "call" /\ F[q].sym \in S)
                      \/ \E h \in 1 .. Len(P) :
                           /\ P[h].name \in S
                           /\ \E j \in 1 .. Len(P[h].code) : /\ P[h].code[j].op = F[q].op
                                                             /\ P[h].code[j].sym = F[q].sym
                                                             /\ Len(P[h].code[j].args) = Len(F[q].args)
    BY DEF CallsLeft
  <2>1. CASE \E k \in 1 .. Len(c) : k \notin K /\ F[q] = c[k]
    <3>1. PICK k \in 1 .. Len(c) : k \notin K /\ F[q] = c[k]
      BY <2>1
    <3>2. ~(F[q].op = "call" /\ F[q].sym \in S)
      BY <1>7, <3>1 DEF n
    <3> QED
      BY <3>1, <3>2
  <2>2. CASE \E k \in 1 .. Len(c) : /\ k \in K
                                    /\ \E j \in 1 .. Len(b[k]) : /\ b[k][j].op = F[q].op /\ b[k][j].sym = F[q].sym
                                                                 /\ Len(b[k][j].args) = Len(F[q].args)
    <3>1. PICK k \in 1 .. n : /\ k \in K
                              /\ \E j \in 1 .. Len(b[k]) : /\ b[k][j].op = F[q].op /\ b[k][j].sym = F[q].sym
                                                           /\ Len(b[k][j].args) = Len(F[q].args)
      BY <2>2 DEF n
    <3>2. PICK h \in 1 .. Len(P) : P[h].name \in S /\ b[k] = P[h].code
      BY <1>10, <3>1
    <3> QED
      BY <3>1, <3>2
  <2> QED
    BY <1>15, <2>1, <2>2 DEF CallsOf
<1> QED
  <2>1. x.code = F /\ x.counter = last
    BY <1>4 DEF F
  <2> HIDE DEF x, last, c
  <2>2. HasEnd(F)
    BY <1>1, <1>15
  <2> QED
    BY <1>9, <1>15, <1>16, <2>1, <2>2 DEF x

-----------------------------------------------------------------------------
(* One function whose calls are replaced, in its program. *)

\* Function k of P after the calls of S in it are replaced, of a counter at m.
Inlined(P, k, S, m) == [P EXCEPT ![k].code = InlineCalls(P, P[k], S, m).code]
CounterAfter(P, k, S, m) == InlineCalls(P, P[k], S, m).counter

\* What is called by name for one word at most in function k of Q.
CallsInlined(P, Q, k, S) ==
  \A f \in CallsInline(Q[k]) :
    \/ f \in CallsInline(P[k]) \ S
    \/ \E h \in 1 .. Len(P) : P[h].name \in S /\ f \in CallsInline(P[h])

\* The function whose calls are replaced, and the others, which stay.
LEMMA InlinedCode ==
  ASSUME NEW P, Whole(P), NEW k0 \in 1 .. Len(P), NEW S, S \subseteq FunctionNames(P), NEW m \in Nat, AllSited(P, m),
         NEW Q, Q = Inlined(P, k0, S, m), NEW n, n = CounterAfter(P, k0, S, m)
  PROVE  /\ Whole(Q) /\ SameHeads(P, Q)
         /\ n \in Nat /\ m <= n /\ Sited(Q[k0].code, n) /\ CallsLeft(P, k0, S, Q[k0].code)
         /\ \A k \in 1 .. Len(P) : k # k0 => Q[k] = P[k]
<1> DEFINE x == InlineCalls(P, P[k0], S, m)
           c == x.code
<1>1. /\ IsCode(c) /\ HasEnd(c) /\ Sited(c, x.counter) /\ CallsLeft(P, k0, S, c)
      /\ x.counter \in Nat /\ m <= x.counter
  BY InlineCallsRight
<1>2. n = x.counter /\ Q = [P EXCEPT ![k0].code = c]
  BY DEF Inlined, CounterAfter
<1> HIDE DEF c, x
<1>3. DOMAIN P = 1 .. Len(P) /\ Len(P) \in Nat /\ \A k \in 1 .. Len(P) : Shaped(P[k])
  BY FunctionAt, SeqDomain DEF Whole
<1>4. DOMAIN Q = 1 .. Len(P) /\ Q = [k \in 1 .. Len(P) |-> Q[k]]
  BY <1>2, <1>3
<1>5. IsSeq(Q) /\ Len(Q) = Len(P)
  BY <1>3, <1>4, SeqShaped
<1>6. \A k \in 1 .. Len(P) : k # k0 => Q[k] = P[k]
  BY <1>2, <1>3
<1>7. Shaped(Q[k0]) /\ SameHead(P[k0], Q[k0]) /\ Q[k0].code = c
  <2>1. Q[k0] = [P[k0] EXCEPT !.code = c]
    BY <1>2, <1>3
  <2> QED
    BY <1>1, <1>3, <2>1, NewCode
<1>8. ASSUME NEW k \in 1 .. Len(P) PROVE Shaped(Q[k]) /\ SameHead(P[k], Q[k])
  <2>1. CASE k = k0
    BY <1>7, <2>1
  <2>2. CASE k # k0
    <3>1. Q[k] = P[k]
      BY <1>6, <2>2
    <3> QED
      BY <1>3, <3>1 DEF SameHead
  <2> QED
    BY <2>1, <2>2
<1>9. SameHeads(P, Q)
  BY <1>5, <1>8 DEF SameHeads
<1>10. \A k, j \in 1 .. Len(Q) : Q[k].name = Q[j].name => k = j
  BY <1>5, <1>8 DEF Whole, SameHead
<1>11. Whole(Q)
  BY <1>5, <1>8, <1>10 DEF Whole
<1> QED
  BY <1>1, <1>2, <1>6, <1>7, <1>9, <1>11

\* Replacing calls keeps the program whole: its labels, and the number of
\* arguments of its calls.
LEMMA InlinedKeeps ==
  ASSUME NEW P, Whole(P), NEW k0 \in 1 .. Len(P), NEW S, S \subseteq FunctionNames(P), NEW m \in Nat, AllSited(P, m),
         NEW Q, Q = Inlined(P, k0, S, m), NEW n, n = CounterAfter(P, k0, S, m)
  PROVE  /\ Whole(Q) /\ SameHeads(P, Q) /\ n \in Nat /\ AllSited(Q, n)
         /\ Agreed(P) => Agreed(Q)
         /\ \A k \in 1 .. Len(P) : k # k0 => Q[k] = P[k]
         /\ CallsInlined(P, Q, k0, S)
<1>1. /\ Whole(Q) /\ SameHeads(P, Q)
      /\ n \in Nat /\ m <= n /\ Sited(Q[k0].code, n) /\ CallsLeft(P, k0, S, Q[k0].code)
      /\ \A k \in 1 .. Len(P) : k # k0 => Q[k] = P[k]
  BY InlinedCode
<1>2. Len(Q) = Len(P) /\ \A k \in 1 .. Len(P) : DOMAIN Q[k].code = 1 .. Len(Q[k].code) /\ DOMAIN P[k].code = 1 .. Len(P[k].code)
  BY <1>1, FunctionAt DEF SameHeads
<1>3. AllSited(Q, n)
  <2> SUFFICES ASSUME NEW k \in 1 .. Len(Q) PROVE Sited(Q[k].code, n)
    BY DEF AllSited
  <2>1. CASE k = k0
    BY <1>1, <2>1
  <2>2. CASE k # k0
    <3>1. Q[k] = P[k] /\ Sited(P[k].code, m)
      BY <1>1, <1>2, <2>2 DEF AllSited
    <3> QED
      BY <1>1, <3>1, SitedMore
  <2> QED
    BY <2>1, <2>2
<1>4. ASSUME NEW q \in 1 .. Len(Q[k0].code), Q[k0].code[q].op \in Direct
      PROVE  \E h \in 1 .. Len(P) : \E j \in 1 .. Len(P[h].code) :
               /\ P[h].code[j].op = Q[k0].code[q].op /\ P[h].code[j].sym = Q[k0].code[q].sym
               /\ Len(P[h].code[j].args) = Len(Q[k0].code[q].args)
               /\ P[h].name \in S \/ (h = k0 /\ ~(Q[k0].code[q].op = "call" /\ Q[k0].code[q].sym \in S))
  <2> DEFINE d == Q[k0].code
  <2>1. CallsLeft(P, k0, S, d)
    BY <1>1
  <2>2. q \in 1 .. Len(d) /\ d[q].op \in Direct
    BY <1>4
  <2> HIDE DEF d
  <2>3. CASE \E j \in 1 .. Len(P[k0].code) : d[q] = P[k0].code[j] /\ ~(d[q].op = "call" /\ d[q].sym \in S)
    BY <2>3 DEF d
  <2>4. CASE \E h \in 1 .. Len(P) : /\ P[h].name \in S
                              /\ \E j \in 1 .. Len(P[h].code) : /\ P[h].code[j].op = d[q].op
                                                                /\ P[h].code[j].sym = d[q].sym
                                                                /\ Len(P[h].code[j].args) = Len(d[q].args)
    BY <2>4 DEF d
  <2> QED
    BY <2>1, <2>2, <2>3, <2>4 DEF CallsLeft
<1>5. ASSUME Agreed(P) PROVE Agreed(Q)
  <2> SUFFICES ASSUME NEW k \in 1 .. Len(Q), NEW q \in 1 .. Len(Q[k].code),
                      Q[k].code[q].op \in Direct, Q[k].code[q].sym \in FunctionNames(Q)
               PROVE  Len(Q[k].code[q].args) = Len(ParamWords(Function(Q, Q[k].code[q].sym)))
    BY DEF Agreed, ArgumentsFit
  <2>1. PICK h \in 1 .. Len(P) : \E j \in 1 .. Len(P[h].code) :
               /\ P[h].code[j].op = Q[k].code[q].op /\ P[h].code[j].sym = Q[k].code[q].sym
               /\ Len(P[h].code[j].args) = Len(Q[k].code[q].args)
    <3>1. CASE k = k0
      BY <1>4, <3>1
    <3>2. CASE k # k0
      <4>1. k \in 1 .. Len(P) /\ Q[k] = P[k]
        BY <1>1, <1>2, <3>2
      <4> QED
        BY <4>1
    <3> QED
      BY <3>1, <3>2
  <2>2. PICK j \in 1 .. Len(P[h].code) :
               /\ P[h].code[j].op = Q[k].code[q].op /\ P[h].code[j].sym = Q[k].code[q].sym
               /\ Len(P[h].code[j].args) = Len(Q[k].code[q].args)
    BY <2>1
  <2>3. /\ FunctionNames(Q) = FunctionNames(P)
        /\ \A f \in FunctionNames(P) : ParamWords(Function(Q, f)) = ParamWords(Function(P, f))
    BY <1>1, HeadsNames
  <2>4. ArgumentsFit(P, P[h].code[j])
    BY <1>5 DEF Agreed
  <2> QED
    BY <2>2, <2>3, <2>4 DEF ArgumentsFit
<1>6. CallsInlined(P, Q, k0, S)
  <2> SUFFICES ASSUME NEW f \in CallsInline(Q[k0])
               PROVE  \/ f \in CallsInline(P[k0]) \ S
                      \/ \E h \in 1 .. Len(P) : P[h].name \in S /\ f \in CallsInline(P[h])
    BY DEF CallsInlined
  <2>1. PICK q \in 1 .. Len(Q[k0].code) : Q[k0].code[q].op = "call" /\ Q[k0].code[q].sym = f
    BY <1>2 DEF CallsInline
  <2>2. PICK h \in 1 .. Len(P) : \E j \in 1 .. Len(P[h].code) :
               /\ P[h].code[j].op = Q[k0].code[q].op /\ P[h].code[j].sym = Q[k0].code[q].sym
               /\ P[h].name \in S \/ (h = k0 /\ ~(Q[k0].code[q].op = "call" /\ Q[k0].code[q].sym \in S))
    BY <1>4, <2>1 DEF Direct
  <2>3. PICK j \in 1 .. Len(P[h].code) : P[h].code[j].op = "call" /\ P[h].code[j].sym = f
    BY <2>1, <2>2
  <2>4. f \in CallsInline(P[h])
    BY <1>2, <2>3 DEF CallsInline
  <2> QED
    BY <2>1, <2>2, <2>4
<1> QED
  BY <1>1, <1>3, <1>5, <1>6

-----------------------------------------------------------------------------
(* The invariant. *)

NamesAre(P) == \A k \in 1 .. Len(P) : IsSeq(P[k].name)

\* What irgen hands over is whole, and has labels of irgen's only.
LEMMA ProgramBegins ==
  ASSUME NEW P, IsProgram(P)
  PROVE  Whole(P) /\ Agreed(P) /\ AllSited(P, 0) /\ NamesAre(P) /\ Main \in FunctionNames(P)
<1>1. IsSeq(P) /\ DOMAIN P = 1 .. Len(P)
  BY SeqDomain DEF IsProgram
<1>2. ASSUME NEW k \in 1 .. Len(P)
      PROVE  Shaped(P[k]) /\ Sited(P[k].code, 0) /\ DOMAIN P[k].code = 1 .. Len(P[k].code) /\ IsSeq(P[k].name)
  <2> DEFINE f == P[k]
             c == f.code
  <2>1. IsFunction(f)
    BY <1>1 DEF IsProgram
  <2>2. DOMAIN f = FunctionFields
    <3>1. f = [name |-> f.name, params |-> f.params, wide |-> f.wide, variadic |-> f.variadic,
               code |-> f.code, static |-> f.static, always |-> f.always, builtin |-> f.builtin]
      BY <2>1 DEF IsFunction
    <3> HIDE DEF f
    <3> QED
      BY <3>1 DEF FunctionFields
  <2> HIDE DEF f
  <2>3. /\ IsSeq(f.name) /\ IsSeq(f.params) /\ IsSeq(c)
        /\ \A q \in DOMAIN c : IsInstruction(c[q])
        /\ \E q \in DOMAIN c : c[q].op \in {"jump"} \cup Returns
        /\ \A q \in DOMAIN c : c[q].op \in Jumps => \E at \in DOMAIN c : LabelsAt(c, c[q].sym) = {at}
    BY <2>1 DEF IsFunction
  <2> HIDE DEF c
  <2>4. DOMAIN c = 1 .. Len(c)
    BY <2>3, SeqDomain
  <2>5. \A q \in 1 .. Len(c) : IsIns(c[q]) /\ (c[q].op \in {"label"} \cup Jumps => IsLabelName(c[q].sym))
    BY <2>3, <2>4 DEF IsInstruction, IsIns
  <2>6. IsCode(c)
    BY <2>3, <2>5 DEF IsCode
  <2>7. HasEnd(c)
    BY <2>3, <2>4 DEF HasEnd, Jumps
  <2>8. \A q \in 1 .. Len(c) : c[q].op \in {"label"} \cup Jumps => Named(c[q].sym, 0)
    BY <2>5 DEF Named, IsLabelName, Markers
  <2>9. ASSUME NEW l, Targeted(c, l) PROVE \E at : LabelsAt(c, l) = {at}
    <3>1. PICK q \in 1 .. Len(c) : c[q].op \in Jumps /\ c[q].sym = l
      BY <2>9 DEF Targeted
    <3>2. PICK at \in DOMAIN c : LabelsAt(c, c[q].sym) = {at}
      BY <2>3, <2>4, <3>1
    <3>3. LabelsAt(c, l) = {at}
      BY <3>1, <3>2
    <3> QED
      BY <3>3
  <2>10. Sited(c, 0)
    BY <2>8, <2>9 DEF Sited
  <2>11. Shaped(f)
    BY <2>2, <2>3, <2>6, <2>7 DEF Shaped, c
  <2> QED
    BY <2>3, <2>4, <2>10, <2>11 DEF f, c
<1>3. Whole(P)
  BY <1>1, <1>2 DEF Whole, IsProgram
<1>4. Agreed(P)
  BY <1>1, <1>2 DEF Agreed, IsProgram
<1> QED
  BY <1>2, <1>3, <1>4 DEF AllSited, NamesAre, IsProgram

\* No label of the inliner or of irgen is that of a tail call.
LEMMA SitedLabelled ==
  ASSUME NEW P, Whole(P), NamesAre(P), NEW n, AllSited(P, n)
  PROVE  Labelled(P)
<1> SUFFICES ASSUME NEW k \in 1 .. Len(P) PROVE WellLabelled(P[k].code, TailEntry(P[k]))
  BY DEF Labelled
<1> DEFINE c == P[k].code
           e == TailEntry(P[k])
<1>1. IsSeq(c) /\ Sited(c, n)
  BY DEF Whole, Shaped, IsCode, AllSited
<1>2. e[1] = ".__tce_"
  <2>1. IsSeq(<<".__tce_">>) /\ Len(<<".__tce_">>) = 1 /\ <<".__tce_">>[1] = ".__tce_"
    <3>1. <<".__tce_">> \in Seq({".__tce_"})
      OBVIOUS
    <3> QED
      BY <3>1, SeqIs
  <2>2. IsSeq(P[k].name)
    BY DEF NamesAre
  <2>3. (<<".__tce_">> \o P[k].name)[1] = ".__tce_"
    BY <2>1, <2>2, ConcatIs
  <2> QED
    BY <2>3 DEF TailEntry
<1> HIDE DEF c, e
<1>3. LabelsAt(c, e) = {}
  <2> SUFFICES ASSUME NEW m \in LabelsAt(c, e) PROVE FALSE
    OBVIOUS
  <2>1. m \in 1 .. Len(c) /\ c[m].op = "label" /\ c[m].sym = e
    BY <1>1, LabelIn
  <2>2. Named(e, n)
    BY <1>1, <2>1 DEF Sited
  <2> QED
    BY <1>2, <2>2 DEF Named
<1>4. WellLabelled(c, e)
  BY <1>1, <1>3 DEF WellLabelled, Sited
<1> QED
  BY <1>4 DEF c, e

\* Numbers that are all there below each of them are the first ones.
LEMMA DownTo ==
  ASSUME NEW n \in Nat, NEW S, S \subseteq 1 .. n, S # {}, \A k \in S : \A j \in 1 .. k : j \in S
  PROVE  \E at \in 1 .. n : S = 1 .. at
<1> DEFINE B == (1 .. n) \ S
<1>0. 1 \in S /\ n \in 1 .. n
  <2>1. PICK k \in S : k \in 1 .. n
    OBVIOUS
  <2>2. 1 \in 1 .. k
    BY <2>1
  <2> QED
    BY <2>1, <2>2
<1>1. CASE B = {}
  <2>1. S = 1 .. n
    BY <1>1
  <2> QED
    BY <1>0, <2>1
<1>2. CASE B # {}
  <2>1. B \subseteq 1 .. n
    OBVIOUS
  <2> DEFINE t == Min(B)
  <2>2. t \in B /\ \A y \in B : t <= y
    <3> HIDE DEF B
    <3> QED
      BY <1>2, <2>1, MinIn
  <2> HIDE DEF t
  <2>3. t \in 1 .. n /\ t \notin S
    BY <2>2
  <2>4. t # 1
    BY <1>0, <2>3
  <2>5. t - 1 \in 1 .. n
    BY <2>3, <2>4
  <2>6. ASSUME NEW j \in 1 .. n PROVE j \in S <=> j < t
    <3>1. ASSUME j < t PROVE j \in S
      BY <2>2, <2>3, <3>1
    <3>2. ASSUME ~(j < t) PROVE j \notin S
      <4>1. t \in 1 .. j
        BY <2>3, <3>2
      <4> QED
        BY <2>3, <4>1
    <3> QED
      BY <3>1, <3>2
  <2>7. \A j : j \in S <=> j \in 1 .. t - 1
    <3>1. ASSUME NEW j \in S PROVE j \in 1 .. t - 1
      BY <2>3, <2>6
    <3>2. ASSUME NEW j \in 1 .. t - 1 PROVE j \in S
      BY <2>3, <2>5, <2>6
    <3> QED
      BY <3>1, <3>2
  <2> QED
    BY <2>5, <2>7
<1> QED
  BY <1>1, <1>2

\* Where labels are right, every jump has one place to go to.
LEMMA LabelledLands ==
  ASSUME NEW P, Whole(P), Labelled(P), NEW k \in 1 .. Len(P), NEW j \in 1 .. Len(P[k].code), P[k].code[j].op \in Jumps
  PROVE  Lands(P[k].code, P[k].code[j].sym)
<1> DEFINE c == P[k].code
           l == c[j].sym
           e == TailEntry(P[k])
<1>1. IsSeq(c) /\ DOMAIN c = 1 .. Len(c) /\ Len(c) \in Nat /\ WellLabelled(c, e)
  BY CodeDomain DEF Whole, Shaped, Labelled
<1>2. Targeted(c, l)
  BY DEF Targeted
<1> HIDE DEF c, l, e
<1>3. CASE l = e /\ LabelsAt(c, e) # {}
  <2>1. LabelsAt(c, e) \subseteq 1 .. Len(c)
    BY <1>1 DEF LabelsAt
  <2>2. \A q \in LabelsAt(c, e) : \A r \in 1 .. q : r \in LabelsAt(c, e)
    BY <1>1 DEF WellLabelled
  <2>3. \E at \in 1 .. Len(c) : LabelsAt(c, e) = 1 .. at
    <3> DEFINE S == LabelsAt(c, e)
    <3>1. S \subseteq 1 .. Len(c) /\ S # {} /\ \A q \in S : \A r \in 1 .. q : r \in S
      BY <1>3, <2>1, <2>2
    <3> HIDE DEF S
    <3>2. \E at \in 1 .. Len(c) : S = 1 .. at
      BY <1>1, <3>1, DownTo
    <3> QED
      BY <3>2 DEF S
  <2>4. Lands(c, l)
    BY <1>1, <1>3, <2>3 DEF Lands
  <2> QED
    BY <2>4 DEF c, l
<1>4. CASE \E m : LabelsAt(c, l) = {m}
  <2>1. PICK m : LabelsAt(c, l) = {m}
    BY <1>4
  <2>2. m \in DOMAIN c
    <3>1. m \in LabelsAt(c, l)
      BY <2>1
    <3> QED
      BY <3>1 DEF LabelsAt
  <2>3. Lands(c, l)
    BY <2>1, <2>2 DEF Lands
  <2> QED
    BY <2>3 DEF c, l
<1> QED
  BY <1>1, <1>2, <1>3, <1>4 DEF WellLabelled

\* Instructions can be counted.
LEMMA InstrCountIsNat ==
  ASSUME NEW P, Whole(P)
  PROVE  InstrCount(P) \in Nat
<1> DEFINE c == [k \in DOMAIN P |-> Len(P[k].code)]
<1>1. DOMAIN P = 1 .. Len(P) /\ Len(P) \in Nat /\ IsSeq(P)
  BY FunctionAt, SeqDomain DEF Whole
<1>2. \A k \in 1 .. Len(P) : c[k] = Len(P[k].code) /\ Len(P[k].code) \in Nat
  BY <1>1, CodeDomain DEF Whole, Shaped
<1>3. DOMAIN c = 1 .. Len(P) /\ c = [k \in 1 .. Len(P) |-> c[k]]
  BY <1>1
<1> HIDE DEF c
<1>4. Len(c) = Len(P)
  BY <1>1, <1>3, SeqShaped
<1>5. Len(P) = Len(c) /\ \A k \in 1 .. Len(P) : c[k] \in Nat
  BY <1>2, <1>4
<1>6. Total(c) \in Nat
  BY <1>1, <1>5, TotalIsNat
<1> QED
  BY <1>6 DEF InstrCount, c

\* No function is left without code.
LEMMA NoEmptyCode ==
  ASSUME NEW P, Whole(P), NEW k \in DOMAIN P
  PROVE  P[k].code # <<>>
<1>1. k \in 1 .. Len(P)
  BY FunctionAt
<1>2. HasEnd(P[k].code)
  BY <1>1 DEF Whole, Shaped
<1>3. PICK j \in 1 .. Len(P[k].code) : TRUE
  BY <1>2 DEF HasEnd
<1> QED
  BY <1>3

-----------------------------------------------------------------------------
InliningStages == {"inline", "collapse", "expand"}

Staged ==
  /\ stage \in {"inline", "collapse", "expand", "fold", "dce", "done", "aborted"}
  /\ round \in 0 .. RoundLimit
  /\ before \in Nat
  /\ exempt \subseteq Exceptions
  /\ counter \in Nat

LabelsKept ==
  IF stage \in InliningStages THEN AllSited(prog, counter) /\ NamesAre(prog) ELSE Labelled(prog)

CallsKept == "wide" \notin exempt => Agreed(prog)

\* What phase 2 has still to do: a function outside todo calls no always_inline
\* function, and one in todo is not itself put in the place of calls.
TodoRight ==
  /\ stage \in {"collapse", "expand"} => inlineable \subseteq FunctionNames(prog)
  /\ stage = "expand" =>
       /\ todo \subseteq 1 .. Len(prog)
       /\ \A k \in todo : prog[k].name \notin inlineable
       /\ \A k \in (1 .. Len(prog)) \ todo : CallsInline(prog[k]) \cap AlwaysInline(prog, inlineable) = {}

IInv ==
  /\ Staged /\ Main \in FunctionNames(prog) /\ Whole(prog)
  /\ LabelsKept /\ CallsKept /\ TodoRight /\ ChainsCollapsed

\* What the invariant says of the properties.
LEMMA InvTypeOK == IInv => TypeOK
BY NoEmptyCode DEF IInv, Staged, TypeOK

\* Right labels and calls that agree make the program whole.
LEMMA InvCodeWhole == IInv => CodeWhole
<1> SUFFICES ASSUME IInv PROVE CodeWhole
  OBVIOUS
<1>1. Whole(prog) /\ DOMAIN prog = 1 .. Len(prog)
      /\ \A k \in 1 .. Len(prog) : DOMAIN prog[k].code = 1 .. Len(prog[k].code)
  BY FunctionAt DEF IInv
<1>2. CallsAgree
  BY <1>1 DEF IInv, CallsKept, CallsAgree, Agreed
<1>3. Labelled(prog)
  BY <1>1, SitedLabelled DEF IInv, LabelsKept
<1>4. JumpsLand
  BY <1>1, <1>3, LabelledLands DEF JumpsLand
<1> QED
  BY <1>2, <1>4 DEF CodeWhole

\* The invariant holds when the optimiser starts, and every pass keeps it.
LEMMA InitInv == Init => IInv
<1> SUFFICES ASSUME Init PROVE IInv
  OBVIOUS
<1>1. /\ prog \in Programs /\ stage = "inline" /\ inlineable = {} /\ todo = {} /\ counter = 0 /\ round = 0
      /\ before = InstrCount(prog) /\ exempt = {}
  BY DEF Init
<1>2. IsProgram(prog)
  BY <1>1, ProgramsAssumption
<1>3. Whole(prog) /\ Agreed(prog) /\ AllSited(prog, 0) /\ NamesAre(prog) /\ Main \in FunctionNames(prog)
  BY <1>2, ProgramBegins
<1>4. Staged
  BY <1>1, <1>3, InstrCountIsNat, RoundLimitAssumption DEF Staged
<1>5. LabelsKept /\ CallsKept /\ TodoRight /\ ChainsCollapsed
  BY <1>1, <1>3 DEF LabelsKept, InliningStages, CallsKept, TodoRight, ChainsCollapsed
<1> QED
  BY <1>3, <1>4, <1>5 DEF IInv

\* inline() hands the program on: only its calls must be right yet.
LEMMA StartStep ==
  ASSUME IInv, NEW known, known \subseteq Exceptions, StartFolding(prog, known),
         AllSited(prog, counter), NamesAre(prog), prog' = prog, counter' = counter,
         "wide" \notin known => Agreed(prog)
  PROVE  Staged' /\ Main \in FunctionNames(prog') /\ Whole(prog') /\ LabelsKept' /\ CallsKept' /\ TodoRight'
<1>1. /\ before' = InstrCount(prog) /\ stage' = "fold" /\ round' = 1
      /\ exempt' = known \cup When(Aliased(prog), "alias") \cup When(FrameReused(prog), "frame")
  BY DEF StartFolding
<1>2. exempt' \subseteq Exceptions /\ ("wide" \notin exempt' => "wide" \notin known)
  BY <1>1 DEF When, Exceptions
<1>3. Staged'
  BY <1>1, <1>2, InstrCountIsNat, RoundLimitAssumption DEF Staged, IInv
<1>4. Labelled(prog)
  BY SitedLabelled DEF IInv
<1>5. LabelsKept'
  BY <1>1, <1>4 DEF LabelsKept, InliningStages
<1>6. CallsKept'
  BY <1>2 DEF CallsKept
<1>7. TodoRight'
  BY <1>1 DEF TodoRight
<1> QED
  BY <1>3, <1>5, <1>6, <1>7 DEF IInv

\* inline() chooses functions: no code changes.
LEMMA RunInlineStep == IInv /\ RunInline => IInv'
<1> SUFFICES ASSUME IInv, RunInline PROVE IInv'
  OBVIOUS
<1> DEFINE known == exempt \cup When(ParamWritten(prog, inlineable'), "param")
                           \cup When(WideInlined(prog, inlineable'), "wide")
<1>1. /\ stage = "inline" /\ inlineable' = Inlineable(prog)
      /\ IF inlineable' = {} THEN StartFolding(prog, known)
         ELSE stage' = "collapse" /\ exempt' = known /\ UNCHANGED <<round, before>>
      /\ UNCHANGED <<prog, todo, counter, meaning>>
  BY DEF RunInline
<1>2. known \subseteq Exceptions /\ ("wide" \notin known => "wide" \notin exempt)
  BY DEF IInv, Staged, When, Exceptions
<1> HIDE DEF known
<1>3. AllSited(prog, counter) /\ NamesAre(prog)
  BY <1>1 DEF IInv, LabelsKept, InliningStages
<1>4. "wide" \notin known => Agreed(prog)
  BY <1>2 DEF IInv, CallsKept
<1>5. CASE inlineable' = {}
  <2>1. StartFolding(prog, known)
    BY <1>1, <1>5
  <2>2. Staged' /\ Main \in FunctionNames(prog') /\ Whole(prog') /\ LabelsKept' /\ CallsKept' /\ TodoRight'
    BY <1>1, <1>2, <1>3, <1>4, <2>1, StartStep
  <2>3. AlwaysInline(prog', inlineable' \cap FunctionNames(prog')) = {}
    BY <1>5 DEF AlwaysInline
  <2>4. ChainsCollapsed'
    BY <2>3 DEF ChainsCollapsed
  <2> QED
    BY <2>2, <2>4 DEF IInv
<1>6. CASE inlineable' # {}
  <2>1. stage' = "collapse" /\ exempt' = known /\ round' = round /\ before' = before
    BY <1>1, <1>6
  <2>2. prog' = prog /\ counter' = counter
    BY <1>1
  <2>3. Staged'
    BY <1>2, <2>1, <2>2 DEF IInv, Staged
  <2>4. LabelsKept'
    BY <1>3, <2>1, <2>2 DEF LabelsKept, InliningStages
  <2>5. CallsKept'
    BY <1>4, <2>1, <2>2 DEF CallsKept
  <2>6. TodoRight'
    BY <1>1, <2>1, <2>2 DEF TodoRight, Inlineable
  <2>7. ChainsCollapsed'
    BY <2>1 DEF ChainsCollapsed
  <2> QED
    BY <2>2, <2>3, <2>4, <2>5, <2>6, <2>7 DEF IInv
<1> QED
  BY <1>5, <1>6

\* Phase 1 puts always_inline functions into others.
LEMMA CollapseStep == IInv /\ Collapse => IInv'
<1> SUFFICES ASSUME IInv, Collapse PROVE IInv'
  OBVIOUS
<1> DEFINE k0 == Min(Pending(prog, inlineable))
           S == AlwaysInline(prog, inlineable)
<1>1. /\ stage = "collapse" /\ Pending(prog, inlineable) # {} /\ InlineInto(k0, S)
      /\ UNCHANGED <<stage, inlineable, todo, round, before, meaning, exempt>>
  BY DEF Collapse
<1>2. Whole(prog) /\ DOMAIN prog = 1 .. Len(prog) /\ Len(prog) \in Nat /\ counter \in Nat
      /\ inlineable \subseteq FunctionNames(prog) /\ AllSited(prog, counter) /\ NamesAre(prog)
  BY <1>1, FunctionAt, SeqDomain DEF IInv, Whole, TodoRight, LabelsKept, InliningStages, Staged
<1>3. k0 \in 1 .. Len(prog)
  <2>1. Pending(prog, inlineable) \subseteq 1 .. Len(prog)
    BY <1>2 DEF Pending
  <2> QED
    BY <1>1, <1>2, <2>1, MinIn
<1>4. S \subseteq FunctionNames(prog)
  BY <1>2 DEF AlwaysInline
<1>5. prog' = Inlined(prog, k0, S, counter) /\ counter' = CounterAfter(prog, k0, S, counter)
  BY <1>1 DEF InlineInto, Inlined, CounterAfter
<1> HIDE DEF k0, S
<1>6. /\ Whole(prog') /\ SameHeads(prog, prog') /\ counter' \in Nat /\ AllSited(prog', counter')
      /\ Agreed(prog) => Agreed(prog')
  BY <1>2, <1>3, <1>4, <1>5, InlinedKeeps
<1>7. FunctionNames(prog') = FunctionNames(prog)
  BY <1>2, <1>6, HeadsNames
<1>8. NamesAre(prog')
  BY <1>2, <1>6 DEF SameHeads, SameHead, NamesAre
<1>9. Staged' /\ LabelsKept' /\ CallsKept' /\ TodoRight' /\ ChainsCollapsed'
  <2>1. Staged'
    BY <1>1, <1>6 DEF IInv, Staged
  <2>2. LabelsKept'
    BY <1>1, <1>6, <1>8 DEF LabelsKept, InliningStages
  <2>3. CallsKept'
    BY <1>1, <1>6 DEF IInv, CallsKept
  <2>4. TodoRight'
    BY <1>1, <1>2, <1>7 DEF TodoRight
  <2>5. ChainsCollapsed'
    BY <1>1 DEF ChainsCollapsed
  <2> QED
    BY <2>1, <2>2, <2>3, <2>4, <2>5
<1> QED
  BY <1>6, <1>7, <1>9 DEF IInv

\* Phase 1 is done when nothing is pending: what phase 2 puts in calls no
\* always_inline function.
LEMMA CollapsedStep == IInv /\ Collapsed => IInv'
<1> SUFFICES ASSUME IInv, Collapsed PROVE IInv'
  OBVIOUS
<1>1. /\ stage = "collapse" /\ Pending(prog, inlineable) = {}
      /\ inlineable' = Final(prog, inlineable)
      /\ todo' = {k \in DOMAIN prog : prog[k].name \notin Final(prog, inlineable)}
      /\ stage' = "expand" /\ UNCHANGED <<prog, counter, round, before, meaning, exempt>>
  BY DEF Collapsed
<1>2. Whole(prog) /\ DOMAIN prog = 1 .. Len(prog) /\ inlineable \subseteq FunctionNames(prog)
      /\ AllSited(prog, counter) /\ NamesAre(prog)
  BY <1>1, FunctionAt DEF IInv, TodoRight, LabelsKept, InliningStages
<1>3. Final(prog, inlineable) \subseteq inlineable
  BY DEF Final
<1>4. AlwaysInline(prog, inlineable') \subseteq AlwaysInline(prog, inlineable)
  BY <1>1, <1>3 DEF AlwaysInline
<1>5. ASSUME NEW k \in (1 .. Len(prog)) \ todo'
      PROVE  CallsInline(prog[k]) \cap AlwaysInline(prog, inlineable') = {}
  <2>1. prog[k].name \in inlineable
    BY <1>1, <1>2, <1>3
  <2>2. CallsInline(prog[k]) \cap AlwaysInline(prog, inlineable) = {}
    BY <1>1, <1>2, <2>1 DEF Pending
  <2> QED
    BY <1>4, <2>2
<1>6. prog' = prog /\ counter' = counter
  BY <1>1
<1>7. TodoRight'
  BY <1>1, <1>2, <1>3, <1>5, <1>6 DEF TodoRight
<1>8. Staged' /\ LabelsKept' /\ CallsKept' /\ ChainsCollapsed'
  BY <1>1, <1>2, <1>6 DEF IInv, Staged, LabelsKept, InliningStages, CallsKept, ChainsCollapsed
<1> QED
  BY <1>6, <1>7, <1>8 DEF IInv

\* Phase 2 goes into one function, whose calls of always_inline functions are
\* gone then.
LEMMA ExpandStep == IInv /\ Expand => IInv'
<1> SUFFICES ASSUME IInv, Expand PROVE IInv'
  OBVIOUS
<1> DEFINE k0 == Min(todo)
<1>1. /\ stage = "expand" /\ todo # {} /\ InlineInto(k0, inlineable) /\ todo' = todo \ {k0}
      /\ UNCHANGED <<stage, inlineable, round, before, meaning, exempt>>
  BY DEF Expand
<1>2. Whole(prog) /\ DOMAIN prog = 1 .. Len(prog) /\ Len(prog) \in Nat /\ counter \in Nat
      /\ inlineable \subseteq FunctionNames(prog) /\ AllSited(prog, counter) /\ NamesAre(prog)
  BY <1>1, FunctionAt, SeqDomain DEF IInv, Whole, TodoRight, LabelsKept, InliningStages, Staged
<1>3. /\ todo \subseteq 1 .. Len(prog)
      /\ \A k \in todo : prog[k].name \notin inlineable
      /\ \A k \in (1 .. Len(prog)) \ todo : CallsInline(prog[k]) \cap AlwaysInline(prog, inlineable) = {}
  BY <1>1 DEF IInv, TodoRight
<1>4. k0 \in todo /\ k0 \in 1 .. Len(prog)
  BY <1>1, <1>2, <1>3, MinIn
<1>5. prog' = Inlined(prog, k0, inlineable, counter) /\ counter' = CounterAfter(prog, k0, inlineable, counter)
  BY <1>1 DEF InlineInto, Inlined, CounterAfter
<1> HIDE DEF k0
<1>6. /\ Whole(prog') /\ SameHeads(prog, prog') /\ counter' \in Nat /\ AllSited(prog', counter')
      /\ Agreed(prog) => Agreed(prog')
      /\ \A k \in 1 .. Len(prog) : k # k0 => prog'[k] = prog[k]
      /\ CallsInlined(prog, prog', k0, inlineable)
  BY <1>2, <1>4, <1>5, InlinedKeeps
<1>7. FunctionNames(prog') = FunctionNames(prog) /\ AlwaysInline(prog', inlineable) = AlwaysInline(prog, inlineable)
  BY <1>2, <1>6, HeadsNames
<1>8. NamesAre(prog') /\ Len(prog') = Len(prog) /\ \A k \in 1 .. Len(prog) : prog'[k].name = prog[k].name
  BY <1>2, <1>6 DEF SameHeads, SameHead, NamesAre
<1>9. CallsInline(prog'[k0]) \cap AlwaysInline(prog, inlineable) = {}
  <2> SUFFICES ASSUME NEW f \in CallsInline(prog'[k0]), f \in AlwaysInline(prog, inlineable) PROVE FALSE
    OBVIOUS
  <2>1. f \in inlineable
    BY DEF AlwaysInline
  <2>2. PICK h \in 1 .. Len(prog) : prog[h].name \in inlineable /\ f \in CallsInline(prog[h])
    BY <1>6, <2>1 DEF CallsInlined
  <2>3. h \notin todo
    BY <1>3, <2>2
  <2> QED
    BY <1>3, <2>2, <2>3
<1>10. ASSUME NEW k \in (1 .. Len(prog')) \ todo'
       PROVE  CallsInline(prog'[k]) \cap AlwaysInline(prog', inlineable) = {}
  <2>1. CASE k = k0
    BY <1>7, <1>9, <2>1
  <2>2. CASE k # k0
    <3>1. prog'[k] = prog[k] /\ k \in (1 .. Len(prog)) \ todo
      BY <1>1, <1>6, <1>8, <2>2
    <3> QED
      BY <1>3, <1>7, <3>1
  <2> QED
    BY <2>1, <2>2
<1>11. TodoRight'
  <2>1. todo' \subseteq 1 .. Len(prog') /\ \A k \in todo' : prog'[k].name \notin inlineable
    BY <1>1, <1>3, <1>8
  <2>2. stage' = "expand" /\ inlineable' = inlineable
    BY <1>1
  <2> QED
    BY <1>2, <1>7, <1>10, <2>1, <2>2 DEF TodoRight
<1>12. Staged' /\ LabelsKept' /\ CallsKept' /\ ChainsCollapsed'
  <2>1. Staged'
    BY <1>1, <1>6 DEF IInv, Staged
  <2>2. LabelsKept'
    BY <1>1, <1>6, <1>8 DEF LabelsKept, InliningStages
  <2>3. CallsKept'
    BY <1>1, <1>6 DEF IInv, CallsKept
  <2>4. ChainsCollapsed'
    BY <1>1 DEF ChainsCollapsed
  <2> QED
    BY <2>1, <2>2, <2>3, <2>4
<1> QED
  BY <1>6, <1>7, <1>11, <1>12 DEF IInv

\* Phase 2 has gone into every function.
LEMMA ExpandedStep == IInv /\ Expanded => IInv'
<1> SUFFICES ASSUME IInv, Expanded PROVE IInv'
  OBVIOUS
<1>1. /\ stage = "expand" /\ todo = {} /\ StartFolding(prog, exempt)
      /\ UNCHANGED <<prog, inlineable, todo, counter, meaning>>
  BY DEF Expanded, inliner
<1>2. inlineable \subseteq FunctionNames(prog) /\ AllSited(prog, counter) /\ NamesAre(prog)
      /\ exempt \subseteq Exceptions /\ ("wide" \notin exempt => Agreed(prog)) /\ DOMAIN prog = 1 .. Len(prog)
  BY <1>1, FunctionAt DEF IInv, TodoRight, LabelsKept, InliningStages, Staged, CallsKept
<1>3. prog' = prog /\ counter' = counter /\ inlineable' = inlineable
  BY <1>1
<1>4. Staged' /\ Main \in FunctionNames(prog') /\ Whole(prog') /\ LabelsKept' /\ CallsKept' /\ TodoRight'
  BY <1>1, <1>2, <1>3, StartStep
<1>5. \A k \in 1 .. Len(prog) : CallsInline(prog[k]) \cap AlwaysInline(prog, inlineable) = {}
  BY <1>1 DEF IInv, TodoRight
<1>6. inlineable \cap FunctionNames(prog) = inlineable
  BY <1>2
<1>7. ChainsCollapsed'
  BY <1>2, <1>3, <1>5, <1>6 DEF ChainsCollapsed
<1> QED
  BY <1>4, <1>7 DEF IInv

\* fold over the whole program.
LEMMA RunFoldStep == IInv /\ RunFold => IInv'
<1> SUFFICES ASSUME IInv, RunFold PROVE IInv'
  OBVIOUS
<1>1. /\ stage = "fold" /\ prog' = Fold(prog) /\ stage' = "dce"
      /\ exempt' = exempt \cup When(WideTailCall(prog'), "wide")
                         \cup When(PointerForgotten(prog, prog'), "pointer")
      /\ UNCHANGED <<inlineable, todo, counter, round, before, meaning>>
  BY DEF RunFold, inliner
<1>2. Whole(prog) /\ Labelled(prog)
  BY <1>1 DEF IInv, LabelsKept, InliningStages
<1>3. Whole(prog') /\ Follows(prog, prog') /\ Labelled(prog')
  BY <1>1, <1>2, FoldKeeps
<1>4. FunctionNames(prog') = FunctionNames(prog) /\ Len(prog') = Len(prog)
  BY <1>2, <1>3, FollowsNames DEF Follows
<1>5. DOMAIN prog = 1 .. Len(prog) /\ DOMAIN prog' = 1 .. Len(prog)
  BY <1>2, <1>3, <1>4, FunctionAt
<1> DEFINE S == inlineable \cap FunctionNames(prog)
<1>6. AlwaysInline(prog', S) = AlwaysInline(prog, S)
  BY <1>2, <1>3, FollowsAlways
<1>7. ASSUME NEW k \in 1 .. Len(prog) PROVE CallsInline(prog'[k]) \cap AlwaysInline(prog', S) = {}
  <2>1. CallsInline(prog'[k]) \subseteq CallsInline(prog[k])
    BY <1>2, <1>3, FollowsCalls
  <2>2. CallsInline(prog[k]) \cap AlwaysInline(prog, S) = {}
    BY <1>1, <1>5 DEF IInv, ChainsCollapsed
  <2> QED
    BY <1>6, <2>1, <2>2
<1>8. ChainsCollapsed'
  <2>1. inlineable' \cap FunctionNames(prog') = S
    BY <1>1, <1>4
  <2> QED
    BY <1>5, <1>7, <2>1 DEF ChainsCollapsed
<1>9. exempt' \subseteq Exceptions /\ ("wide" \notin exempt' => "wide" \notin exempt)
  BY <1>1 DEF IInv, Staged, When, Exceptions
<1>10. Staged'
  BY <1>1, <1>9 DEF IInv, Staged
<1>11. CallsKept'
  BY <1>2, <1>3, <1>9, FollowsAgree DEF IInv, CallsKept
<1>12. LabelsKept' /\ TodoRight'
  BY <1>1, <1>3 DEF LabelsKept, InliningStages, TodoRight
<1> QED
  BY <1>3, <1>4, <1>8, <1>10, <1>11, <1>12 DEF IInv

\* dce over the whole program, and the end of a round.
LEMMA RunDceStep == IInv /\ RunDce => IInv'
<1> SUFFICES ASSUME IInv, RunDce PROVE IInv'
  OBVIOUS
<1>1. /\ stage = "dce" /\ prog' = Dce(prog) /\ before' = InstrCount(prog')
      /\ exempt' = exempt \cup When(WideDropped(prog, prog'), "wide")
                         \cup When(PointerDropped(prog, prog'), "pointer")
      /\ UNCHANGED <<inlineable, todo, counter, meaning>>
  BY DEF RunDce, inliner
<1>2. /\ stage' \in {"fold", "done", "aborted"}
      /\ round' = round \/ (round # RoundLimit /\ round' = round + 1)
  BY DEF RunDce
<1>3. Whole(prog) /\ Labelled(prog) /\ Main \in FunctionNames(prog)
  BY <1>1 DEF IInv, LabelsKept, InliningStages
<1>4. /\ Whole(prog') /\ Main \in FunctionNames(prog') /\ Labelled(prog')
      /\ Agreed(prog) /\ ~WideDropped(prog, prog') => Agreed(prog')
      /\ \A k \in 1 .. Len(prog') : \E m \in 1 .. Len(prog) :
           /\ prog'[k].name = prog[m].name /\ prog'[k].always = prog[m].always
           /\ CallsInline(prog'[k]) \subseteq CallsInline(prog[m])
  BY <1>1, <1>3, DceKeeps
<1>5. exempt' \subseteq Exceptions /\ ("wide" \notin exempt' => "wide" \notin exempt /\ ~WideDropped(prog, prog'))
  BY <1>1 DEF IInv, Staged, When, Exceptions
<1>6. Staged'
  <2>1. before' \in Nat
    BY <1>1, <1>4, InstrCountIsNat
  <2>2. round' \in 0 .. RoundLimit
    BY <1>2, RoundLimitAssumption DEF IInv, Staged
  <2> QED
    BY <1>1, <1>2, <1>5, <2>1, <2>2 DEF IInv, Staged
<1>7. CallsKept'
  BY <1>4, <1>5 DEF IInv, CallsKept
<1>8. LabelsKept' /\ TodoRight'
  BY <1>2, <1>4 DEF LabelsKept, InliningStages, TodoRight
<1> DEFINE S == inlineable \cap FunctionNames(prog)
           R == inlineable \cap FunctionNames(prog')
<1>9. AlwaysInline(prog', R) \subseteq AlwaysInline(prog, S)
  <2> SUFFICES ASSUME NEW f \in AlwaysInline(prog', R) PROVE f \in AlwaysInline(prog, S)
    OBVIOUS
  <2>1. f \in inlineable /\ f \in FunctionNames(prog') /\ Function(prog', f).always
    BY DEF AlwaysInline
  <2>2. PICK k \in 1 .. Len(prog') : prog'[k].name = f /\ Function(prog', f) = prog'[k]
    BY <1>4, <2>1, FunctionAt
  <2>3. PICK m \in 1 .. Len(prog) : prog'[k].name = prog[m].name /\ prog'[k].always = prog[m].always
    BY <1>4
  <2>4. prog[m].name \in FunctionNames(prog) /\ Function(prog, prog[m].name) = prog[m]
    BY <1>3, FunctionAt
  <2>5. Function(prog, f).always /\ f \in S
    BY <2>1, <2>2, <2>3, <2>4
  <2> QED
    BY <2>5 DEF AlwaysInline
<1>10. ASSUME NEW k \in 1 .. Len(prog') PROVE CallsInline(prog'[k]) \cap AlwaysInline(prog', R) = {}
  <2>1. PICK m \in 1 .. Len(prog) : CallsInline(prog'[k]) \subseteq CallsInline(prog[m])
    BY <1>4
  <2>2. DOMAIN prog = 1 .. Len(prog)
    BY <1>3, FunctionAt
  <2>3. CallsInline(prog[m]) \cap AlwaysInline(prog, S) = {}
    BY <1>1, <2>2 DEF IInv, ChainsCollapsed
  <2> QED
    BY <1>9, <2>1, <2>3
<1>11. ChainsCollapsed'
  <2>1. DOMAIN prog' = 1 .. Len(prog') /\ inlineable' = inlineable
    BY <1>1, <1>4, FunctionAt
  <2> QED
    BY <1>10, <2>1 DEF ChainsCollapsed
<1> QED
  BY <1>4, <1>6, <1>7, <1>8, <1>11 DEF IInv

\* Nothing happens.
LEMMA StutterStep == IInv /\ UNCHANGED vars => IInv'
<1> SUFFICES ASSUME IInv, UNCHANGED vars PROVE IInv'
  OBVIOUS
<1>1. /\ prog' = prog /\ stage' = stage /\ inlineable' = inlineable /\ todo' = todo /\ counter' = counter
      /\ round' = round /\ before' = before /\ exempt' = exempt
  BY DEF vars, inliner
<1> QED
  BY <1>1 DEF IInv, Staged, LabelsKept, CallsKept, TodoRight, ChainsCollapsed

\* The invariant is inductive.
LEMMA StepInv == IInv /\ [Next]_vars => IInv'
BY RunInlineStep, CollapseStep, CollapsedStep, ExpandStep, ExpandedStep, RunFoldStep, RunDceStep, StutterStep
   DEF Next

\* The invariant holds of every behaviour.
LEMMA SpecInv == Spec => []IInv
BY InitInv, StepInv, PTL DEF Spec

\* After every pass, for every program that irgen may hand over, the variables have
\* their types, rounds stay within the limit, main is there and no function is empty.
THEOREM TypeCorrect == Spec => []TypeOK
BY SpecInv, InvTypeOK, PTL

\* After every pass every call of a function has as many argument words as the
\* function has parameter words, unless a word count is known to differ, and
\* every jump has one place to go to, although labels are renamed, inserted,
\* threaded and removed.
THEOREM ProgramStaysWhole == Spec => []CodeWhole
BY SpecInv, InvCodeWhole, PTL

\* The invariant says what is gone.
LEMMA InvChains == IInv => ChainsCollapsed
BY DEF IInv

\* Once inlining is done no call of an inlined always_inline function is left or
\* comes back, through chains of any depth.
THEOREM AlwaysInlineGone == Spec => []ChainsCollapsed
BY SpecInv, InvChains, PTL

-----------------------------------------------------------------------------
(* The code selected for arithmetic computes what its operators mean, for   *)
(* words of every width: the flags decide every comparison of signed and    *)
(* unsigned numbers, at the borders too, and the carry joins two words.     *)
Comparisons == {"==", "!=", "<", ">", "<=", ">=", "<u", ">=u"}
Ordered(op, a, b) ==
  CASE op = "==" -> a = b  [] op = "!=" -> a # b  [] op = "<" -> a < b
    [] op = ">" -> a > b   [] op = "<=" -> a <= b [] op = ">=" -> a >= b

\* What a comparison of two words means.
Meant(op, a, b) ==
  CASE op = "<u"  -> a < b
    [] op = ">=u" -> a >= b
    [] OTHER -> Ordered(op, Signed(a), Signed(b))

\* Two words as a number.
Number(unsigned, v) == Double(v[1], IF unsigned THEN v[2] ELSE Signed(v[2]))

-----------------------------------------------------------------------------
(* The words are 0 to 2 Half - 1. *)
LEMMA WordRange ==
  /\ Half \in Nat /\ Half >= 1
  /\ Modulus = 2 * Half
  /\ \A a : a \in Words <=> a \in Int /\ 0 <= a /\ a < 2 * Half
  BY HalfAssumption DEF Words, Mask

(* What keeping the low bits of a sum or difference does.                   *)
LEMMA WrappedRange ==
  ASSUME NEW n \in Int, -Modulus <= n, n < 2 * Modulus
  PROVE  /\ Wrapped(n) \in Words
         /\ Wrapped(n) \in Int
         /\ n < 0 => Wrapped(n) = n + Modulus
         /\ n \in Words => Wrapped(n) = n
         /\ n > Mask => Wrapped(n) = n - Modulus
  BY WordRange DEF Wrapped, Mask

(* The difference of two words and a borrow, and the borrow out of it.      *)
LEMMA SubBorrow ==
  ASSUME NEW p \in Words, NEW s \in Words, NEW c \in {0, 1}
  PROVE  /\ Sub(p, s, c).word \in Words
         /\ Truth(Sub(p, s, c).C) \in {0, 1}
         /\ Sub(p, s, c).word = p - s - c + Modulus * Truth(Sub(p, s, c).C)
<1> DEFINE n == p - s - c
           f == Sub(p, s, c)
<1>1. n \in Int /\ -Modulus <= n /\ n <= Mask /\ n < 2 * Modulus /\ Modulus \in Int
  BY WordRange DEF Mask
<1>2. Wrapped(n) \in Words /\ (n < 0 => Wrapped(n) = n + Modulus) /\ (n \in Words => Wrapped(n) = n)
  BY <1>1, WrappedRange
<1>3. n >= 0 => n \in Words
  BY <1>1 DEF Words
<1>4. f.word = Wrapped(n) /\ f.C = (n < 0)
  BY DEF Sub
<1> HIDE DEF n, f
<1>5. Truth(f.C) \in {0, 1} /\ f.word = n + Modulus * Truth(f.C)
  <2>1. CASE n < 0
    <3>1. Truth(f.C) = 1 /\ f.word = n + Modulus
      BY <2>1, <1>2, <1>4 DEF Truth
    <3> QED BY <3>1, <1>1
  <2>2. CASE ~(n < 0)
    <3>1. Truth(f.C) = 0
      BY <2>2, <1>4 DEF Truth
    <3>2. f.word = n
      BY <2>2, <1>1, <1>2, <1>3, <1>4
    <3> QED BY <3>1, <3>2, <1>1
  <2> QED BY <2>1, <2>2
<1>6. f.word \in Words
  BY <1>2, <1>4
<1> QED BY <1>5, <1>6 DEF n, f

(* The sum of two words and a carry, and the carry out of it.               *)
LEMMA AddCarry ==
  ASSUME NEW a \in Words, NEW b \in Words, NEW c \in {0, 1}
  PROVE  /\ Add(a, b, c).word \in Words
         /\ Truth(Add(a, b, c).C) \in {0, 1}
         /\ Add(a, b, c).word = (a + b + c) - Modulus * Truth(Add(a, b, c).C)
<1> DEFINE n == a + b + c
           f == Add(a, b, c)
<1>1. n \in Int /\ -Modulus <= n /\ 0 <= n /\ n < 2 * Modulus /\ Modulus \in Int /\ Mask \in Int
  BY WordRange DEF Mask
<1>2. Wrapped(n) \in Words /\ (n > Mask => Wrapped(n) = n - Modulus) /\ (n \in Words => Wrapped(n) = n)
  BY <1>1, WrappedRange
<1>3. ~(n > Mask) => n \in Words
  BY <1>1 DEF Words
<1>4. f.word = Wrapped(n) /\ f.C = (n > Mask)
  BY DEF Add
<1> HIDE DEF n, f
<1>5. Truth(f.C) \in {0, 1} /\ f.word = n - Modulus * Truth(f.C)
  <2>1. CASE n > Mask
    <3>1. Truth(f.C) = 1 /\ f.word = n - Modulus
      BY <2>1, <1>2, <1>4 DEF Truth
    <3> QED BY <3>1, <1>1
  <2>2. CASE ~(n > Mask)
    <3>1. Truth(f.C) = 0 /\ f.word = n
      BY <2>2, <1>2, <1>3, <1>4 DEF Truth
    <3> QED BY <3>1, <1>1
  <2> QED BY <2>1, <2>2
<1>6. f.word \in Words
  BY <1>2, <1>4
<1> QED BY <1>5, <1>6 DEF n, f

(* The flags of a subtraction: borrow and zero compare the words, and sign  *)
(* and overflow together compare them as signed numbers.                    *)
LEMMA SubFlags ==
  ASSUME NEW p \in Words, NEW s \in Words
  PROVE  /\ Sub(p, s, 0).C <=> p < s
         /\ Sub(p, s, 0).Z <=> p = s
         /\ Sub(p, s, 0).S # Sub(p, s, 0).O <=> Signed(p) < Signed(s)
<1> DEFINE n == p - s - 0
           w == Wrapped(n)
           f == Sub(p, s, 0)
<1>1. /\ n \in Int /\ -Modulus <= n /\ n <= Mask /\ n < 2 * Modulus
      /\ (n < 0 <=> p < s) /\ (n = 0 <=> p = s) /\ n # -Modulus
  BY WordRange DEF Mask
<1>2. w \in Words /\ (n < 0 => w = n + Modulus) /\ (n \in Words => w = n)
  BY <1>1, WrappedRange
<1>3. n >= 0 => n \in Words
  BY <1>1 DEF Words
<1>4. /\ f.C = (n < 0)
      /\ f.Z = (w = 0)
      /\ f.S = Negative(w)
      /\ f.O = (Negative(p) # Negative(s) /\ Negative(p) # Negative(w))
  BY DEF Sub
<1>5. w = 0 <=> n = 0
  BY <1>1, <1>2, <1>3, WordRange
<1>6. (Negative(w) # (Negative(p) # Negative(s) /\ Negative(p) # Negative(w)))
        <=> Signed(p) < Signed(s)
  <2> HIDE DEF w
  <2>1. CASE n < 0
    BY <2>1, <1>1, <1>2, WordRange DEF Negative, Signed
  <2>2. CASE n >= 0
    BY <2>2, <1>1, <1>2, <1>3, WordRange DEF Negative, Signed
  <2> QED BY <2>1, <2>2, <1>1
<1> HIDE DEF n, w, f
<1>7. f.C <=> p < s
  BY <1>1, <1>4
<1>8. f.Z <=> p = s
  BY <1>1, <1>4, <1>5
<1>9. f.S # f.O <=> Signed(p) < Signed(s)
  BY <1>4, <1>6
<1> QED BY <1>7, <1>8, <1>9 DEF f

-----------------------------------------------------------------------------
(* The table and the conditions, entry by entry.                            *)
LEMMA Table ==
  /\ CmpJmp["=="] = "jz" /\ CmpJmp["!="] = "jnz"
  /\ CmpJmp["<"] = "jl"  /\ CmpJmp[">"] = "jg"
  /\ CmpJmp["<="] = "jle" /\ CmpJmp[">="] = "jge"
  /\ CmpJmp["<u"] = "jc" /\ CmpJmp[">=u"] = "jnc"
  BY DEF CmpJmp

\* The inverse of a jump.
LEMMA Inversion ==
  /\ InvertedJump("jz") = "jnz" /\ InvertedJump("jnz") = "jz"
  /\ InvertedJump("jl") = "jge" /\ InvertedJump("jge") = "jl"
  /\ InvertedJump("jg") = "jle" /\ InvertedJump("jle") = "jg"
  /\ InvertedJump("jc") = "jnc" /\ InvertedJump("jnc") = "jc"
  BY DEF InvertedJump

\* When each jump is taken.
LEMMA Conditions ==
  ASSUME NEW f, f.Z \in BOOLEAN, f.S \in BOOLEAN, f.C \in BOOLEAN, f.O \in BOOLEAN
  PROVE  /\ Jumped("jz", f) <=> f.Z
         /\ Jumped("jnz", f) <=> ~f.Z
         /\ Jumped("jc", f) <=> f.C
         /\ Jumped("jnc", f) <=> ~f.C
         /\ Jumped("jl", f) <=> f.S # f.O
         /\ Jumped("jge", f) <=> ~(f.S # f.O)
         /\ Jumped("jle", f) <=> f.Z \/ f.S # f.O
         /\ Jumped("jg", f) <=> ~f.Z /\ ~(f.S # f.O)
<1>1. Jumped("jz", f) <=> f.Z BY DEF Jumped
<1>2. Jumped("jnz", f) <=> ~f.Z BY DEF Jumped
<1>3. Jumped("jc", f) <=> f.C BY DEF Jumped
<1>4. Jumped("jnc", f) <=> ~f.C BY DEF Jumped
<1>5. Jumped("jl", f) <=> f.S # f.O BY DEF Jumped
<1>6. Jumped("jge", f) <=> ~(f.S # f.O) BY DEF Jumped
<1>7. Jumped("jle", f) <=> f.Z \/ f.S # f.O BY DEF Jumped
<1>8. Jumped("jg", f) <=> ~f.Z /\ ~(f.S # f.O) BY DEF Jumped
<1> QED BY <1>1, <1>2, <1>3, <1>4, <1>5, <1>6, <1>7, <1>8

\* What each comparison means.
LEMMA Meanings ==
  ASSUME NEW a, NEW b
  PROVE  /\ Meant("==", a, b) <=> Signed(a) = Signed(b)
         /\ Meant("!=", a, b) <=> Signed(a) # Signed(b)
         /\ Meant("<", a, b) <=> Signed(a) < Signed(b)
         /\ Meant(">", a, b) <=> Signed(a) > Signed(b)
         /\ Meant("<=", a, b) <=> Signed(a) <= Signed(b)
         /\ Meant(">=", a, b) <=> Signed(a) >= Signed(b)
         /\ Meant("<u", a, b) <=> a < b
         /\ Meant(">=u", a, b) <=> a >= b
<1>1. Meant("==", a, b) <=> Signed(a) = Signed(b) BY DEF Meant, Ordered
<1>2. Meant("!=", a, b) <=> Signed(a) # Signed(b) BY DEF Meant, Ordered
<1>3. Meant("<", a, b) <=> Signed(a) < Signed(b) BY DEF Meant, Ordered
<1>4. Meant(">", a, b) <=> Signed(a) > Signed(b) BY DEF Meant, Ordered
<1>5. Meant("<=", a, b) <=> Signed(a) <= Signed(b) BY DEF Meant, Ordered
<1>6. Meant(">=", a, b) <=> Signed(a) >= Signed(b) BY DEF Meant, Ordered
<1>7. Meant("<u", a, b) <=> a < b BY DEF Meant
<1>8. Meant(">=u", a, b) <=> a >= b BY DEF Meant
<1> QED BY <1>1, <1>2, <1>3, <1>4, <1>5, <1>6, <1>7, <1>8

(* The conditional jumps after a subtraction of any two words.              *)
LEMMA WordJumps ==
  ASSUME NEW a \in Words, NEW b \in Words
  PROVE  /\ Jumped("jz", Sub(a, b, 0)) <=> a = b
         /\ Jumped("jnz", Sub(a, b, 0)) <=> a # b
         /\ Jumped("jl", Sub(a, b, 0)) <=> Signed(a) < Signed(b)
         /\ Jumped("jge", Sub(a, b, 0)) <=> Signed(a) >= Signed(b)
         /\ Jumped("jg", Sub(a, b, 0)) <=> Signed(a) > Signed(b)
         /\ Jumped("jle", Sub(a, b, 0)) <=> Signed(a) <= Signed(b)
         /\ Jumped("jc", Sub(a, b, 0)) <=> a < b
         /\ Jumped("jnc", Sub(a, b, 0)) <=> a >= b
<1> DEFINE f == Sub(a, b, 0)
<1>1. /\ a \in Int /\ b \in Int /\ Signed(a) \in Int /\ Signed(b) \in Int
      /\ (Signed(a) = Signed(b)) = (a = b)
  BY WordRange DEF Signed
<1>2. f.Z \in BOOLEAN /\ f.S \in BOOLEAN /\ f.C \in BOOLEAN /\ f.O \in BOOLEAN
  BY DEF Sub, Negative
<1>3. /\ f.C <=> a < b
      /\ f.Z <=> a = b
      /\ f.S # f.O <=> Signed(a) < Signed(b)
  BY SubFlags
<1> HIDE DEF f
<1>4. /\ Jumped("jz", f) <=> f.Z
      /\ Jumped("jnz", f) <=> ~f.Z
      /\ Jumped("jc", f) <=> f.C
      /\ Jumped("jnc", f) <=> ~f.C
      /\ Jumped("jl", f) <=> f.S # f.O
      /\ Jumped("jge", f) <=> ~(f.S # f.O)
      /\ Jumped("jle", f) <=> f.Z \/ f.S # f.O
      /\ Jumped("jg", f) <=> ~f.Z /\ ~(f.S # f.O)
  BY <1>2, Conditions
<1>5. /\ Jumped("jz", f) <=> a = b
      /\ Jumped("jnz", f) <=> a # b
      /\ Jumped("jl", f) <=> Signed(a) < Signed(b)
      /\ Jumped("jge", f) <=> Signed(a) >= Signed(b)
      /\ Jumped("jg", f) <=> Signed(a) > Signed(b)
      /\ Jumped("jle", f) <=> Signed(a) <= Signed(b)
      /\ Jumped("jc", f) <=> a < b
      /\ Jumped("jnc", f) <=> a >= b
  BY <1>1, <1>3, <1>4
<1> QED BY <1>5 DEF f

(* Every jump of the table is taken exactly if its comparison holds, and    *)
(* the inverted one exactly if not (_CMP_JMP, _find_fused_cmps).            *)
LEMMA JumpDecides ==
  ASSUME NEW op \in Comparisons, NEW a \in Words, NEW b \in Words
  PROVE  /\ Jumped(CmpJmp[op], Sub(a, b, 0)) <=> Meant(op, a, b)
         /\ Jumped(InvertedJump(CmpJmp[op]), Sub(a, b, 0)) <=> ~Meant(op, a, b)
<1> DEFINE f == Sub(a, b, 0)
           Decided(o) == /\ Jumped(CmpJmp[o], f) <=> Meant(o, a, b)
                         /\ Jumped(InvertedJump(CmpJmp[o]), f) <=> ~Meant(o, a, b)
<1>1. /\ a \in Int /\ b \in Int /\ Signed(a) \in Int /\ Signed(b) \in Int
      /\ a = b <=> Signed(a) = Signed(b)
  BY WordRange DEF Signed
<1>2. /\ Jumped("jz", f) <=> a = b
      /\ Jumped("jnz", f) <=> a # b
      /\ Jumped("jl", f) <=> Signed(a) < Signed(b)
      /\ Jumped("jge", f) <=> Signed(a) >= Signed(b)
      /\ Jumped("jg", f) <=> Signed(a) > Signed(b)
      /\ Jumped("jle", f) <=> Signed(a) <= Signed(b)
      /\ Jumped("jc", f) <=> a < b
      /\ Jumped("jnc", f) <=> a >= b
  BY WordJumps
<1> HIDE DEF f
<1>3. Decided("==") /\ Decided("!=")
  BY <1>1, <1>2, Table, Inversion, Meanings
<1>4. Decided("<") /\ Decided(">=")
  BY <1>1, <1>2, Table, Inversion, Meanings
<1>5. Decided(">") /\ Decided("<=")
  BY <1>1, <1>2, Table, Inversion, Meanings
<1>6. Decided("<u") /\ Decided(">=u")
  BY <1>1, <1>2, Table, Inversion, Meanings
<1> QED
  BY <1>3, <1>4, <1>5, <1>6 DEF Comparisons, f

(* A comparison gives 1 if it holds and 0 if not (_gen_compare).            *)
THEOREM ComparedRight ==
  ASSUME NEW op \in Comparisons, NEW a \in Words, NEW b \in Words
  PROVE  Compared(op, a, b) = Truth(Meant(op, a, b))
  BY JumpDecides DEF Compared, Truth

(* A comparison fused with the branch after it leaves the branch as it is,  *)
(* whether it is taken if the comparison holds or, by the inverted jump, if *)
(* it does not (_find_fused_cmps).                                          *)
THEOREM FusedRight ==
  ASSUME NEW op \in Comparisons, NEW when \in BOOLEAN, NEW a \in Words, NEW b \in Words
  PROVE  FusedTaken(op, when, a, b) <=> (Meant(op, a, b) <=> when)
<1>1. CASE when = TRUE
  BY <1>1, JumpDecides DEF FusedTaken
<1>2. CASE when = FALSE
  BY <1>2, JumpDecides DEF FusedTaken
<1> QED BY <1>1, <1>2

-----------------------------------------------------------------------------
(* Two words are ordered by the high ones and, if those agree, the low ones. *)
LEMMA Lexicographic ==
  ASSUME NEW M \in Nat, NEW x \in Int, NEW y \in Int, NEW i \in Int, NEW j \in Int,
         0 <= x, x < M, 0 <= y, y < M
  PROVE  /\ (x + M * i < y + M * j) = (i < j \/ (i = j /\ x < y))
         /\ (x + M * i = y + M * j) = (i = j /\ x = y)
<1>1. M * i \in Int /\ M * j \in Int
  OBVIOUS
<1>2. CASE i < j
  <2>1. M * (j - i) >= M
    BY <1>2
  <2>2. M * (j - i) = M * j - M * i
    OBVIOUS
  <2> QED BY <1>1, <1>2, <2>1, <2>2
<1>3. CASE i > j
  <2>1. M * (i - j) >= M
    BY <1>3
  <2>2. M * (i - j) = M * i - M * j
    OBVIOUS
  <2> QED BY <1>1, <1>3, <2>1, <2>2
<1>4. CASE i = j
  BY <1>1, <1>4
<1> QED BY <1>2, <1>3, <1>4

(* Two words are compared as one number, of either kind, by branches on the *)
(* flags of their halves: also if the high ones agree, and if the operands  *)
(* are swapped (_gen_long_compare).                                         *)
THEOREM LongComparedRight ==
  ASSUME NEW op \in {"==", "!=", "<", ">", "<=", ">="}, NEW unsigned \in BOOLEAN,
         NEW l \in Words \X Words, NEW r \in Words \X Words
  PROVE  LongCompared(op, unsigned, l, r)
           = Truth(Ordered(op, Number(unsigned, l), Number(unsigned, r)))
<1> DEFINE high(v) == IF unsigned THEN v[2] ELSE Signed(v[2])
<1>1. ASSUME NEW v \in Words \X Words, NEW w \in Words \X Words
      PROVE  /\ LongBelow(unsigned, v, w) <=> Number(unsigned, v) < Number(unsigned, w)
             /\ LongDiffer(v, w) <=> Number(unsigned, v) # Number(unsigned, w)
             /\ Number(unsigned, v) \in Int
  <2>1. /\ v[1] \in Words /\ v[2] \in Words /\ w[1] \in Words /\ w[2] \in Words
        /\ v[1] \in Int /\ v[2] \in Int /\ w[1] \in Int /\ w[2] \in Int
        /\ 0 <= v[1] /\ v[1] < Modulus /\ 0 <= w[1] /\ w[1] < Modulus
    BY WordRange
  <2>2. /\ high(v) \in Int /\ high(w) \in Int
        /\ high(v) = high(w) <=> v[2] = w[2]
    BY <2>1, WordRange DEF Signed
  <2>3. Number(unsigned, v) = v[1] + Modulus * high(v) /\ Number(unsigned, w) = w[1] + Modulus * high(w)
    BY DEF Number, Double
  <2>4. /\ Number(unsigned, v) < Number(unsigned, w)
             <=> high(v) < high(w) \/ (high(v) = high(w) /\ v[1] < w[1])
        /\ Number(unsigned, v) = Number(unsigned, w) <=> high(v) = high(w) /\ v[1] = w[1]
    <3> HIDE DEF high
    <3> QED BY <2>1, <2>2, <2>3, WordRange, Lexicographic
  <2>5. /\ Jumped("jnz", Sub(v[2], w[2], 0)) <=> v[2] # w[2]
        /\ Jumped("jnz", Sub(v[1], w[1], 0)) <=> v[1] # w[1]
        /\ Jumped("jc", Sub(v[1], w[1], 0)) <=> v[1] < w[1]
        /\ Jumped(IF unsigned THEN "jc" ELSE "jl", Sub(v[2], w[2], 0)) <=> high(v) < high(w)
    BY <2>1, WordJumps
  <2>6. Number(unsigned, v) \in Int
    BY <2>1, <2>2, <2>3, WordRange
  <2> HIDE DEF high
  <2>7. LongBelow(unsigned, v, w) <=> high(v) < high(w) \/ (high(v) = high(w) /\ v[1] < w[1])
    BY <2>2, <2>5 DEF LongBelow
  <2>8. LongDiffer(v, w) <=> ~(high(v) = high(w) /\ v[1] = w[1])
    BY <2>2, <2>5 DEF LongDiffer
  <2> QED BY <2>4, <2>6, <2>7, <2>8
<1>2. /\ LongBelow(unsigned, l, r) <=> Number(unsigned, l) < Number(unsigned, r)
      /\ LongBelow(unsigned, r, l) <=> Number(unsigned, r) < Number(unsigned, l)
      /\ LongDiffer(l, r) <=> Number(unsigned, l) # Number(unsigned, r)
      /\ Number(unsigned, l) \in Int /\ Number(unsigned, r) \in Int
  BY <1>1
<1> DEFINE Right(o) == LongCompared(o, unsigned, l, r)
                         = Truth(Ordered(o, Number(unsigned, l), Number(unsigned, r)))
<1>3. Right("==") BY <1>2 DEF LongCompared, Ordered, Truth
<1>4. Right("!=") BY <1>2 DEF LongCompared, Ordered, Truth
<1>5. Right("<")  BY <1>2 DEF LongCompared, Ordered, Truth
<1>6. Right(">")  BY <1>2 DEF LongCompared, Ordered, Truth
<1>7. Right("<=") BY <1>2 DEF LongCompared, Ordered, Truth
<1>8. Right(">=") BY <1>2 DEF LongCompared, Ordered, Truth
<1> QED BY <1>3, <1>4, <1>5, <1>6, <1>7, <1>8

-----------------------------------------------------------------------------
(* Two words with a carry between them, and one out of the high word.       *)
LEMMA Carried ==
  ASSUME NEW M \in Int, NEW x \in Int, NEW y \in Int, NEW i \in Int, NEW j \in Int,
         NEW c \in Int, NEW k \in Int
  PROVE  /\ ((x + y + 0) - M * c) + M * ((i + j + c) - M * k) = (x + M * i) + (y + M * j) + M * (M * (-k))
         /\ (x - y - 0 + M * c) + M * (i - j - c + M * k) = (x + M * i) - (y + M * j) + M * (M * k)
<1>1. M * ((i + j + c) - M * k) = M * i + M * j + M * c + M * (M * (-k))
  OBVIOUS
<1>2. M * (i - j - c + M * k) = M * i - M * j - M * c + M * (M * k)
  OBVIOUS
<1>3. /\ M * i \in Int /\ M * j \in Int /\ M * c \in Int
      /\ M * (M * k) \in Int /\ M * (M * (-k)) \in Int
      /\ M * ((i + j + c) - M * k) \in Int /\ M * (i - j - c + M * k) \in Int
  OBVIOUS
<1> QED BY <1>1, <1>2, <1>3

(* The sum and the difference of two pairs of words are those of the two    *)
(* numbers, but for a multiple of 2^(2 Width): the carry or borrow of the   *)
(* low words reaches the high ones (_gen_long_binop).                       *)
THEOREM LongSumRight ==
  ASSUME NEW a \in Words, NEW b \in Words, NEW x \in Words, NEW y \in Words
  PROVE  /\ LongSum("+", <<a, b>>, <<x, y>>) \in Words \X Words
         /\ LongSum("-", <<a, b>>, <<x, y>>) \in Words \X Words
         /\ \E k \in {0, 1} :
              Number(TRUE, LongSum("+", <<a, b>>, <<x, y>>))
                = Double(a, b) + Double(x, y) + Modulus * (Modulus * (-k))
         /\ \E k \in {0, 1} :
              Number(TRUE, LongSum("-", <<a, b>>, <<x, y>>))
                = Double(a, b) - Double(x, y) + Modulus * (Modulus * k)
<1>1. a \in Int /\ b \in Int /\ x \in Int /\ y \in Int /\ Modulus \in Int
  BY WordRange
<1>2. ASSUME NEW lo, NEW hi
      PROVE  Number(TRUE, <<lo, hi>>) = lo + Modulus * hi
  BY DEF Number, Double
<1>3. 0 \in {0, 1}
  OBVIOUS
<1>4. /\ LongSum("+", <<a, b>>, <<x, y>>) \in Words \X Words
      /\ \E k \in {0, 1} :
           Number(TRUE, LongSum("+", <<a, b>>, <<x, y>>))
             = Double(a, b) + Double(x, y) + Modulus * (Modulus * (-k))
  <2> DEFINE lo == Add(a, x, 0)
             c == Truth(lo.C)
             hi == Add(b, y, c)
             k == Truth(hi.C)
  <2>1. LongSum("+", <<a, b>>, <<x, y>>) = <<lo.word, hi.word>>
    BY DEF LongSum
  <2>2. lo.word \in Words /\ c \in {0, 1} /\ lo.word = (a + x + 0) - Modulus * c
    BY <1>3, AddCarry
  <2> HIDE DEF lo, c
  <2>3. hi.word \in Words /\ k \in {0, 1} /\ hi.word = (b + y + c) - Modulus * k
    BY <2>2, AddCarry
  <2> HIDE DEF hi, k
  <2>4. c \in Int /\ k \in Int
    BY <2>2, <2>3
  <2>5. lo.word + Modulus * hi.word = (a + Modulus * b) + (x + Modulus * y) + Modulus * (Modulus * (-k))
    BY <1>1, <2>2, <2>3, <2>4, Carried
  <2>6. Number(TRUE, <<lo.word, hi.word>>) = lo.word + Modulus * hi.word
    BY <1>2
  <2>7. Number(TRUE, LongSum("+", <<a, b>>, <<x, y>>))
          = Double(a, b) + Double(x, y) + Modulus * (Modulus * (-k))
    BY <2>1, <2>5, <2>6 DEF Double
  <2>8. LongSum("+", <<a, b>>, <<x, y>>) \in Words \X Words
    BY <2>1, <2>2, <2>3
  <2> QED BY <2>3, <2>7, <2>8
<1>5. /\ LongSum("-", <<a, b>>, <<x, y>>) \in Words \X Words
      /\ \E k \in {0, 1} :
           Number(TRUE, LongSum("-", <<a, b>>, <<x, y>>))
             = Double(a, b) - Double(x, y) + Modulus * (Modulus * k)
  <2> DEFINE lo == Sub(a, x, 0)
             c == Truth(lo.C)
             hi == Sub(b, y, c)
             k == Truth(hi.C)
  <2>1. LongSum("-", <<a, b>>, <<x, y>>) = <<lo.word, hi.word>>
    BY DEF LongSum
  <2>2. lo.word \in Words /\ c \in {0, 1} /\ lo.word = a - x - 0 + Modulus * c
    BY <1>3, SubBorrow
  <2> HIDE DEF lo, c
  <2>3. hi.word \in Words /\ k \in {0, 1} /\ hi.word = b - y - c + Modulus * k
    BY <2>2, SubBorrow
  <2> HIDE DEF hi, k
  <2>4. c \in Int /\ k \in Int
    BY <2>2, <2>3
  <2>5. lo.word + Modulus * hi.word = (a + Modulus * b) - (x + Modulus * y) + Modulus * (Modulus * k)
    BY <1>1, <2>2, <2>3, <2>4, Carried
  <2>6. Number(TRUE, <<lo.word, hi.word>>) = lo.word + Modulus * hi.word
    BY <1>2
  <2>7. Number(TRUE, LongSum("-", <<a, b>>, <<x, y>>))
          = Double(a, b) - Double(x, y) + Modulus * (Modulus * k)
    BY <2>1, <2>5, <2>6 DEF Double
  <2>8. LongSum("-", <<a, b>>, <<x, y>>) \in Words \X Words
    BY <2>1, <2>2, <2>3
  <2> QED BY <2>3, <2>7, <2>8
<1> QED BY <1>4, <1>5
==============================================================================
