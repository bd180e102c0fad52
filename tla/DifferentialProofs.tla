------------------------ MODULE DifferentialProofs ------------------------
(***************************************************************************)
(* A differential download is right, proved for every pair of block maps,  *)
(* every limit of a request, every answer of the host, every cut of it     *)
(* into chunks and every number of failures:                               *)
(*   - the plan builds the new file (PlanBuildsNewFile, PlanIsValid);      *)
(*   - the descriptor of the old file is open while it is read, and closed *)
(*     in the end (DescriptorIsSafe, NothingIsLeaked);                     *)
(*   - the control of the attempt, its copies, batches, pauses and of the  *)
(*     splitter keeps its shape, whatever goes wrong (ControlIsKept);      *)
(*   - unless something goes wrong outside, the new file grows by its next *)
(*     bytes and the splitter is in step with the answer (DataIsRight);    *)
(*   - so that the download ends with the new file, and fails only for a   *)
(*     cause outside (DownloadIsRight).                                    *)
(***************************************************************************)
EXTENDS Differential, TLAPS, SequenceTheorems, WellFoundedInduction
----------------------------------------------------------------------------
(* Recursion over an interval, and induction on it without an operator as a *)
(* parameter: the least element of a set of naturals takes its place.       *)

\* A non-empty set of naturals has a least element.
LEMMA LeastNat ==
  ASSUME NEW S, S \subseteq Nat, S # {}
  PROVE  \E m \in S : \A k \in S : m <= k
<1>1. IsWellFoundedOn(OpToRel(<, Nat), Nat)
  BY NatLessThanWellFounded
<1>2. \E x \in S : \A y \in S : ~(<<y, x>> \in OpToRel(<, Nat))
  BY <1>1, WFMin
<1>3. \A x, y \in Nat : x < y => <<x, y>> \in OpToRel(<, Nat)
  BY DEF OpToRel
<1>4. PICK R : /\ \A x, y \in Nat : x < y => <<x, y>> \in R
               /\ \E x \in S : \A y \in S : ~(<<y, x>> \in R)
  BY <1>2, <1>3, Zenon
<1>5. PICK x \in S : \A y \in S : ~(<<y, x>> \in R)
  BY <1>4, Zenon
<1>6. \A y \in S : ~(y < x)
  BY <1>4, <1>5, Zenon
<1>7. \A y \in S : x \in Int /\ y \in Int /\ ~(y < x)
  BY <1>6
<1> HIDE <1>4, <1>5
<1>8. \A y \in S : x <= y
  BY <1>7
<1> QED
  BY <1>8

\* Induction, for a set of naturals.
LEMMA InductionOn ==
  ASSUME NEW S, 0 \in S, \A n \in Nat : n \in S => n + 1 \in S
  PROVE  Nat \subseteq S
<1> DEFINE T == Nat \ S
<1>1. SUFFICES ASSUME T # {} PROVE FALSE
  OBVIOUS
<1>2. PICK m \in T : \A k \in T : m <= k
  BY <1>1, LeastNat
<1>3. m # 0 /\ m - 1 \in Nat /\ m - 1 \notin T
  BY <1>2
<1> QED
  BY <1>3

\* What holds at the start of an interval, and of i when of i - 1, holds in all of it.
LEMMA InductionUpTo ==
  ASSUME NEW n \in Nat, NEW S, 0 \in S, \A i \in 1..n : i - 1 \in S => i \in S
  PROVE  0..n \subseteq S
<1> DEFINE T == {i \in Nat : i <= n => i \in S}
<1>1. 0 \in T
  OBVIOUS
<1>2. \A i \in Nat : i \in T => i + 1 \in T
  <2> SUFFICES ASSUME NEW i \in Nat, i \in T, i + 1 <= n PROVE i + 1 \in S
    OBVIOUS
  <2>1. i \in S /\ i + 1 \in 1..n /\ (i + 1) - 1 = i
    OBVIOUS
  <2> QED
    BY <2>1
<1>3. Nat \subseteq T
  <2> HIDE DEF T
  <2> QED BY <1>1, <1>2, InductionOn
<1> QED
  BY <1>3

\* f is the function that a recursion over an interval defines.
IsRecursion(f, S, n, base, round) ==
  /\ f \in [0..n -> S] /\ f[0] = base
  /\ \A i \in 1..n : f[i] = round[i][f[i - 1]]

\* The function that a recursion over an interval defines.
Rounds(S, n, base, round) == CHOOSE f : IsRecursion(f, S, n, base, round)

\* It exists when every round stays in S.
LEMMA RecursionUpTo ==
  ASSUME NEW S, NEW n \in Nat, NEW base \in S, NEW round \in [1..n -> [S -> S]]
  PROVE  IsRecursion(Rounds(S, n, base, round), S, n, base, round)
<1> DEFINE IsPart(f, m) == /\ f \in [0..m -> S] /\ f[0] = base
                           /\ \A i \in 1..m : f[i] = round[i][f[i - 1]]
           T == {m \in 0..n : \E f : IsPart(f, m)}
<1>1. 0 \in T
  <2> DEFINE f == [i \in 0..0 |-> base]
  <2>1. f \in [0..0 -> S] /\ f[0] = base /\ \A i \in 1..0 : f[i] = round[i][f[i - 1]]
    OBVIOUS
  <2> HIDE DEF f
  <2>2. \E g : IsPart(g, 0)
    BY <2>1
  <2> QED
    BY <2>2
<1>2. \A m \in 1..n : m - 1 \in T => m \in T
  <2> SUFFICES ASSUME NEW m \in 1..n, \E f : IsPart(f, m - 1) PROVE \E f : IsPart(f, m)
    <3> HIDE DEF IsPart
    <3> QED OBVIOUS
  <2>1. PICK f : IsPart(f, m - 1)
    OBVIOUS
  <2> DEFINE g == [i \in 0..m |-> IF i = m THEN round[m][f[m - 1]] ELSE f[i]]
  <2>2. round[m][f[m - 1]] \in S
    BY <2>1
  <2>3. g \in [0..m -> S]
    BY <2>1, <2>2
  <2>4. \A i \in 0..m : g[i] = IF i = m THEN round[m][f[m - 1]] ELSE f[i]
    OBVIOUS
  <2>5. g[0] = base
    BY <2>1, <2>4
  <2>6. \A i \in 1..m : g[i] = round[i][g[i - 1]]
    <3> SUFFICES ASSUME NEW i \in 1..m PROVE g[i] = round[i][g[i - 1]]
      OBVIOUS
    <3>1. g[i - 1] = f[i - 1]
      BY <2>4
    <3>2. CASE i = m
      BY <3>1, <3>2, <2>4
    <3>3. CASE i # m
      <4>1. g[i] = f[i] /\ i \in 1 .. m - 1
        BY <3>3, <2>4
      <4> QED
        BY <4>1, <3>1, <2>1
    <3> QED
      BY <3>2, <3>3
  <2> HIDE DEF g
  <2> QED
    BY <2>3, <2>5, <2>6
<1>3. n \in T
  <2>1. 0..n \subseteq T
    <3> HIDE DEF T
    <3> QED BY <1>1, <1>2, InductionUpTo
  <2> QED BY <2>1, n \in 0..n
<1>4. \E f : IsRecursion(f, S, n, base, round)
  BY <1>3 DEF IsRecursion
<1> QED
  BY <1>4, Zenon DEF Rounds

\* The ends of pieces laid one after the other.
LEMMA EndsOfRecursion ==
  ASSUME NEW lengths \in Seq(Nat)
  PROVE  /\ EndsOf(lengths) \in [0 .. Len(lengths) -> Nat]
         /\ EndsOf(lengths)[0] = 0
         /\ \A i \in 1 .. Len(lengths) : EndsOf(lengths)[i] = EndsOf(lengths)[i - 1] + lengths[i]
<1> DEFINE n == Len(lengths)
           round == [i \in 1..n |-> [s \in Nat |-> s + lengths[i]]]
           Ends(f) == [i \in 0..n |-> IF i = 0 THEN 0 ELSE f[i - 1] + lengths[i]]
<1>1. n \in Nat /\ round \in [1..n -> [Nat -> Nat]]
  OBVIOUS
<1> DEFINE f == Rounds(Nat, n, 0, round)
<1>2. f \in [0..n -> Nat] /\ f[0] = 0 /\ \A i \in 1..n : f[i] = round[i][f[i - 1]]
  <2>1. IsRecursion(f, Nat, n, 0, round)
    <3> HIDE DEF round, n
    <3> QED BY <1>1, 0 \in Nat, RecursionUpTo
  <2> HIDE DEF round, n, f
  <2> QED BY <2>1 DEF IsRecursion
<1> HIDE DEF f
<1>3. f = Ends(f)
  <2>1. \A i \in 1..n : round[i][f[i - 1]] = f[i - 1] + lengths[i]
    <3> SUFFICES ASSUME NEW i \in 1..n PROVE round[i][f[i - 1]] = f[i - 1] + lengths[i]
      OBVIOUS
    <3>1. i - 1 \in 0..n
      BY <1>1
    <3>2. f[i - 1] \in Nat
      BY <3>1, <1>2
    <3> QED BY <3>2
  <2> HIDE DEF round
  <2>2. \A i \in 0..n : f[i] = IF i = 0 THEN 0 ELSE f[i - 1] + lengths[i]
    BY <1>2, <2>1
  <2>3. f = [i \in 0..n |-> f[i]]
    BY <1>2
  <2> QED BY <2>2, <2>3
<1>4. EndsOf(lengths) = CHOOSE g : g = Ends(g)
  BY DEF EndsOf
<1>5. EndsOf(lengths) = Ends(EndsOf(lengths))
  BY <1>3, <1>4, Zenon
<1> DEFINE e == EndsOf(lengths)
<1>6. e = [i \in 0..n |-> IF i = 0 THEN 0 ELSE e[i - 1] + lengths[i]]
  BY <1>5
<1> HIDE DEF e
<1>7. e[0] = 0 /\ \A i \in 1..n : e[i] = e[i - 1] + lengths[i]
  BY <1>6, SMTT(30)
<1>8. \A i \in 0..n : e[i] \in Nat
  <2> DEFINE T == {i \in 0..n : e[i] \in Nat}
  <2>1. 0 \in T
    BY <1>7
  <2>2. \A i \in 1..n : i - 1 \in T => i \in T
    <3> SUFFICES ASSUME NEW i \in 1..n, e[i - 1] \in Nat PROVE e[i] \in Nat
      OBVIOUS
    <3>1. lengths[i] \in Nat /\ e[i] = e[i - 1] + lengths[i]
      BY <1>7
    <3> QED BY <3>1
  <2> HIDE DEF T
  <2>3. 0..n \subseteq T
    BY <1>1, <2>1, <2>2, InductionUpTo
  <2> QED
    BY <2>3 DEF T
<1>9. e \in [0..n -> Nat]
  BY <1>6, <1>8
<1> QED
  BY <1>7, <1>9 DEF e

\* The ends of pieces go up.
LEMMA EndsOfMonotone ==
  ASSUME NEW lengths \in Seq(Nat), NEW i \in 0 .. Len(lengths), NEW j \in i .. Len(lengths)
  PROVE  EndsOf(lengths)[i] <= EndsOf(lengths)[j]
<1> DEFINE e == EndsOf(lengths)
           n == Len(lengths)
           T == {k \in 0..n : i <= k => e[i] <= e[k]}
<1>1. n \in Nat /\ e \in [0..n -> Nat] /\ \A k \in 1..n : e[k] = e[k - 1] + lengths[k]
  BY EndsOfRecursion
<1>2. \A k \in 1..n : lengths[k] \in Nat
  OBVIOUS
<1> HIDE DEF e, n
<1>3. 0 \in T
  BY <1>1 DEF n
<1>4. \A k \in 1..n : k - 1 \in T => k \in T
  <2> SUFFICES ASSUME NEW k \in 1..n, i <= k - 1 => e[i] <= e[k - 1], i <= k PROVE e[i] <= e[k]
    BY <1>1
  <2>1. e[k] = e[k - 1] + lengths[k] /\ lengths[k] \in Nat /\ e[k] \in Nat /\ e[k - 1] \in Nat
    BY <1>1, <1>2
  <2>2. i \in 0..n /\ e[i] \in Nat
    BY <1>1 DEF n
  <2>3. CASE i = k
    BY <2>2, <2>3
  <2>4. CASE i < k
    <3>1. i <= k - 1
      BY <1>1, <2>4, <2>2
    <3> QED BY <3>1, <2>1, <2>2
  <2> QED BY <1>1, <2>2, <2>3, <2>4
<1>5. 0..n \subseteq T
  <2> HIDE DEF T
  <2> QED BY <1>1, <1>3, <1>4, InductionUpTo
<1>6. j \in 0..n /\ i <= j
  BY <1>1 DEF n
<1> QED
  BY <1>5, <1>6 DEF e

\* A sequence of sequences laid one after the other, round by round.
LEMMA FlattenRecursion ==
  ASSUME NEW T, NEW seqs \in Seq(Seq(T))
  PROVE  \E f \in [0 .. Len(seqs) -> Seq(T)] :
           /\ f[0] = <<>> /\ \A i \in 1 .. Len(seqs) : f[i] = f[i - 1] \o seqs[i]
           /\ FlattenSeq(seqs) = f[Len(seqs)]
<1> DEFINE n == Len(seqs)
           round == [i \in 1..n |-> [s \in Seq(T) |-> s \o seqs[i]]]
           Flat(g) == [i \in 1..n |-> IF i = 1 THEN seqs[i] ELSE g[i - 1] \o seqs[i]]
<1>a. n \in Nat /\ seqs \in [1..n -> Seq(T)] /\ <<>> \in Seq(T)
  OBVIOUS
<1>1. round \in [1..n -> [Seq(T) -> Seq(T)]]
  <2> SUFFICES ASSUME NEW i \in 1..n, NEW s \in Seq(T) PROVE s \o seqs[i] \in Seq(T)
    OBVIOUS
  <2>1. seqs[i] \in Seq(T)
    BY <1>a
  <2> QED BY <2>1, ConcatProperties
<1> DEFINE r == Rounds(Seq(T), n, <<>>, round)
<1>2. r \in [0..n -> Seq(T)] /\ r[0] = <<>> /\ \A i \in 1..n : r[i] = round[i][r[i - 1]]
  <2>1. IsRecursion(r, Seq(T), n, <<>>, round)
    <3> HIDE DEF round, n
    <3> QED BY <1>a, <1>1, RecursionUpTo
  <2> HIDE DEF round, n, r
  <2> QED BY <2>1 DEF IsRecursion
<1> HIDE DEF r
<1>3. \A i \in 1..n : r[i] = r[i - 1] \o seqs[i]
  <2> SUFFICES ASSUME NEW i \in 1..n PROVE r[i] = r[i - 1] \o seqs[i]
    OBVIOUS
  <2>1. i - 1 \in 0..n
    BY <1>a
  <2>2. r[i - 1] \in Seq(T)
    BY <2>1, <1>2
  <2>3. round[i][r[i - 1]] = r[i - 1] \o seqs[i]
    BY <2>2
  <2> HIDE DEF round
  <2> QED BY <1>2, <2>3
<1> HIDE DEF round
<1>4. n = 0 => FlattenSeq(seqs) = r[n]
  BY <1>2 DEF FlattenSeq
<1>5. ASSUME n # 0 PROVE FlattenSeq(seqs) = r[n]
  <2> DEFINE g == [i \in 1..n |-> r[i]]
  <2>1. g = Flat(g)
    <3>1. \A i \in 1..n : g[i] = IF i = 1 THEN seqs[i] ELSE g[i - 1] \o seqs[i]
      <4> SUFFICES ASSUME NEW i \in 1..n PROVE r[i] = IF i = 1 THEN seqs[i] ELSE g[i - 1] \o seqs[i]
        OBVIOUS
      <4>1. CASE i = 1
        <5>1. r[i] = r[i - 1] \o seqs[i] /\ seqs[i] \in Seq(T) /\ i - 1 = 0
          BY <1>a, <1>3, <4>1
        <5>2. r[i] = <<>> \o seqs[i]
          BY <5>1, <1>2
        <5> QED BY <5>1, <5>2, <4>1, ConcatEmptySeq
      <4>2. CASE i # 1
        <5>1. i - 1 \in 1..n
          BY <4>2, <1>a
        <5>2. g[i - 1] = r[i - 1]
          BY <5>1
        <5> QED BY <1>3, <4>2, <5>2
      <4> QED BY <4>1, <4>2
    <3>2. g = [i \in 1..n |-> g[i]]
      OBVIOUS
    <3> HIDE DEF g
    <3> QED BY <3>1, <3>2
  <2> HIDE DEF g
  <2> DEFINE c == CHOOSE h : h = Flat(h)
  <2>2. c = Flat(c)
    BY <2>1, Zenon
  <2>3. FlattenSeq(seqs) = c[n]
    BY <1>5 DEF FlattenSeq
  <2> HIDE DEF c
  <2>4. \A i \in 1..n : c[i] = IF i = 1 THEN seqs[i] ELSE c[i - 1] \o seqs[i]
    BY <2>2
  <2> DEFINE U == {i \in 0..n : i = 0 \/ c[i] = r[i]}
  <2>5. 0 \in U
    BY <1>a
  <2>6. \A i \in 1..n : i - 1 \in U => i \in U
    <3> SUFFICES ASSUME NEW i \in 1..n, i - 1 = 0 \/ c[i - 1] = r[i - 1] PROVE c[i] = r[i]
      BY <1>a
    <3>1. CASE i = 1
      <4>1. r[i] = r[i - 1] \o seqs[i] /\ seqs[i] \in Seq(T) /\ i - 1 = 0
        <5>1. i - 1 = 0
          BY <3>1
        <5>2. seqs[i] \in Seq(T)
          BY <1>a
        <5>3. r[i] = r[i - 1] \o seqs[i]
          BY <1>3
        <5> QED BY <5>1, <5>2, <5>3
      <4>2. r[i] = <<>> \o seqs[i]
        BY <4>1, <1>2
      <4> QED BY <4>1, <4>2, <3>1, <2>4, ConcatEmptySeq
    <3>2. CASE i # 1
      <4>1. c[i - 1] = r[i - 1]
        BY <3>2, <1>a
      <4> QED BY <4>1, <3>2, <2>4, <1>3
    <3> QED BY <3>1, <3>2
  <2>7. 0..n \subseteq U
    <3> HIDE DEF U
    <3> QED BY <1>a, <2>5, <2>6, InductionUpTo
  <2>8. n \in 0..n
    BY <1>a
  <2>9. n \in U
    <3> HIDE DEF U
    <3> QED BY <2>7, <2>8
  <2>10. c[n] = r[n]
    BY <2>9, <1>5
  <2> QED
    BY <2>3, <2>10
<1> QED
  BY <1>2, <1>3, <1>4, <1>5

\* Where every piece is found in the whole.
LEMMA FlattenProperties ==
  ASSUME NEW T, NEW seqs \in Seq(Seq(T)), NEW lengths \in Seq(Nat),
         Len(lengths) = Len(seqs), \A i \in 1 .. Len(seqs) : lengths[i] = Len(seqs[i])
  PROVE  /\ FlattenSeq(seqs) \in Seq(T)
         /\ Len(FlattenSeq(seqs)) = EndsOf(lengths)[Len(seqs)]
         /\ \A i \in 1 .. Len(seqs) : \A j \in 1..lengths[i] :
              FlattenSeq(seqs)[EndsOf(lengths)[i - 1] + j] = seqs[i][j]
<1> DEFINE n == Len(seqs)
           e == EndsOf(lengths)
<1>a. n \in Nat /\ seqs \in [1..n -> Seq(T)] /\ <<>> \in Seq(T)
  OBVIOUS
<1>b. /\ e \in [0..n -> Nat] /\ e[0] = 0
      /\ \A i \in 1..n : e[i] = e[i - 1] + lengths[i]
  BY EndsOfRecursion
<1>c. \A i \in 1..n : lengths[i] \in Nat /\ lengths[i] = Len(seqs[i])
  OBVIOUS
<1>1. PICK f \in [0..n -> Seq(T)] :
           /\ f[0] = <<>> /\ \A i \in 1..n : f[i] = f[i - 1] \o seqs[i]
           /\ FlattenSeq(seqs) = f[n]
  BY FlattenRecursion
<1> HIDE DEF n, e
<1>2. \A i \in 1..n : /\ Len(f[i]) = Len(f[i - 1]) + lengths[i]
                      /\ \A k \in 1..Len(f[i - 1]) : f[i][k] = f[i - 1][k]
                      /\ \A k \in 1..lengths[i] : f[i][Len(f[i - 1]) + k] = seqs[i][k]
                      /\ Len(f[i - 1]) \in Nat
  <2> SUFFICES ASSUME NEW i \in 1..n
               PROVE /\ Len(f[i]) = Len(f[i - 1]) + lengths[i]
                     /\ \A k \in 1..Len(f[i - 1]) : f[i][k] = f[i - 1][k]
                     /\ \A k \in 1..lengths[i] : f[i][Len(f[i - 1]) + k] = seqs[i][k]
                     /\ Len(f[i - 1]) \in Nat
    OBVIOUS
  <2>1. i - 1 \in 0..n
    BY <1>a
  <2>2. f[i - 1] \in Seq(T) /\ seqs[i] \in Seq(T) /\ f[i] = f[i - 1] \o seqs[i]
    BY <2>1, <1>1, <1>a
  <2> DEFINE s == f[i - 1]
             t == seqs[i]
             l == lengths[i]
  <2>3. s \in Seq(T) /\ t \in Seq(T) /\ f[i] = s \o t /\ l = Len(t)
    BY <2>2, <1>c
  <2> HIDE DEF s, t, l
  <2>4. Len(s) \in Nat /\ Len(t) \in Nat
    BY <2>3
  <2>5. /\ Len(s \o t) = Len(s) + Len(t)
        /\ \A k \in 1..Len(s) + Len(t) : (s \o t)[k] = IF k <= Len(s) THEN s[k] ELSE t[k - Len(s)]
    BY <2>3, ConcatProperties
  <2>6. \A k \in 1..Len(s) : f[i][k] = s[k]
    BY <2>3, <2>4, <2>5
  <2>7. \A k \in 1..Len(t) : f[i][Len(s) + k] = t[k]
    <3> SUFFICES ASSUME NEW k \in 1..Len(t) PROVE (s \o t)[Len(s) + k] = t[k]
      BY <2>3
    <3>1. Len(s) + k \in 1..Len(s) + Len(t) /\ ~(Len(s) + k <= Len(s)) /\ Len(s) + k - Len(s) = k
      BY <2>4
    <3> QED BY <2>5, <3>1
  <2> QED
    BY <2>3, <2>4, <2>5, <2>6, <2>7 DEF s, t, l
<1> DEFINE Laid(i) ==
             /\ Len(f[i]) = e[i]
             /\ \A h \in 1..i : \A k \in 1..lengths[h] : f[i][e[h - 1] + k] = seqs[h][k]
           U == {i \in 0..n : Laid(i)}
<1>3. 0 \in U
  BY <1>1, <1>a, <1>b
<1>4. \A i \in 1..n : i - 1 \in U => i \in U
  <2> SUFFICES ASSUME NEW i \in 1..n, Laid(i - 1) PROVE Laid(i)
    <3> HIDE DEF Laid
    <3> QED BY <1>a
  <2>1. Len(f[i]) = e[i]
    <3>1. Len(f[i]) = Len(f[i - 1]) + lengths[i]
      BY <1>2
    <3>2. e[i] = e[i - 1] + lengths[i]
      BY <1>b
    <3> QED BY <3>1, <3>2
  <2>2. ASSUME NEW h \in 1 .. i - 1, NEW k \in 1..lengths[h]
        PROVE  f[i][e[h - 1] + k] = seqs[h][k]
    <3>1. h \in 1..n /\ h \in 0..n /\ h - 1 \in 0..n /\ i - 1 \in h..n /\ i - 1 \in 0..n
      BY ONLY <1>a, h \in 1 .. i - 1, i \in 1..n
    <3>2. e[h] <= e[i - 1]
      BY <3>1, EndsOfMonotone DEF e, n
    <3>3. e[h] = e[h - 1] + lengths[h] /\ e[h - 1] \in Nat /\ e[h] \in Nat /\ lengths[h] \in Nat /\ e[i - 1] \in Nat
      BY <3>1, <1>b, <1>c
    <3>4. k \in Nat /\ 1 <= k /\ k <= lengths[h]
      BY <3>3
    <3>5. e[h - 1] + k \in 1..e[i - 1]
      <4> DEFINE a == e[h - 1]
                 b == e[h]
                 c == e[i - 1]
                 l == lengths[h]
      <4>1. a \in Nat /\ b \in Nat /\ c \in Nat /\ l \in Nat /\ b = a + l /\ b <= c /\ k <= l
        BY <3>2, <3>3, <3>4
      <4> HIDE DEF a, b, c, l
      <4>2. a + k \in 1..c
        BY <4>1, <3>4
      <4> QED BY <4>2 DEF a, c
    <3>6. Len(f[i - 1]) = e[i - 1] /\ f[i - 1][e[h - 1] + k] = seqs[h][k]
      BY <2>2
    <3>7. f[i][e[h - 1] + k] = f[i - 1][e[h - 1] + k]
      BY <3>5, <3>6, <1>2
    <3> QED BY <3>6, <3>7
  <2>3. \A k \in 1..lengths[i] : f[i][e[i - 1] + k] = seqs[i][k]
    <3>1. Len(f[i - 1]) = e[i - 1]
      OBVIOUS
    <3>2. \A k \in 1..lengths[i] : f[i][Len(f[i - 1]) + k] = seqs[i][k]
      BY ONLY <1>2, i \in 1..n
    <3> QED BY ONLY <3>1, <3>2
  <2>4. \A h \in 1..i : h \in 1 .. i - 1 \/ h = i
    BY <1>a
  <2> QED
    BY <2>1, <2>2, <2>3, <2>4
<1>5. 0..n \subseteq U
  <2> HIDE DEF U
  <2> QED BY <1>a, <1>3, <1>4, InductionUpTo
<1>6. n \in U
  <2> HIDE DEF U
  <2> QED BY <1>5, <1>a
<1>7. f[n] \in Seq(T)
  BY <1>a, <1>1
<1> QED
  BY <1>1, <1>6, <1>7 DEF n, e

----------------------------------------------------------------------------
(* The plan (downloadPlanBuilder.ts): its operations build the new file.    *)

\* An operation of a plan.
Op == [kind : {"copy", "download"}, start : Nat, end : Nat]

\* The block maps: sequences of the blocks that there are.
BlockMaps == Seq(DOMAIN Content)

\* The sizes of the blocks of a map.
Sizes(blockMap) == [k \in DOMAIN blockMap |-> blockMap[k].size]

\* The first byte of a file that is not of its first i blocks any more.
EndOf(blockMap, i) == EndsOf(Sizes(blockMap))[i]

\* The blocks of a map are their bytes.
LEMMA BlockProperties ==
  ASSUME NEW m \in BlockMaps, NEW i \in 1 .. Len(m)
  PROVE  /\ m[i] \in DOMAIN Content /\ m[i].size \in Nat
         /\ Content[m[i]] \in Seq(Byte) /\ Len(Content[m[i]]) = m[i].size
         /\ m[i] = [checksum |-> m[i].checksum, size |-> m[i].size]
<1>1. m[i] \in DOMAIN Content
  BY DEF BlockMaps
<1> DEFINE b == m[i]
<1>2. /\ b = [checksum |-> b.checksum, size |-> b.size]
      /\ Content[b] \in Seq(Byte) /\ Len(Content[b]) = b.size
  BY <1>1, ContentAssumption
<1>3. Len(Content[b]) \in Nat
  <2> HIDE DEF b
  <2> QED BY <1>2
<1> HIDE DEF b
<1>4. b.size \in Nat
  BY <1>2, <1>3
<1> QED
  BY <1>1, <1>2, <1>4 DEF b

\* Block i of a file is between two ends.
LEMMA EndOfProperties ==
  ASSUME NEW m \in BlockMaps
  PROVE  /\ Len(m) \in Nat /\ Sizes(m) \in Seq(Nat) /\ Len(Sizes(m)) = Len(m)
         /\ EndOf(m, 0) = 0
         /\ \A i \in 0 .. Len(m) : EndOf(m, i) \in Nat
         /\ \A i \in 1 .. Len(m) : EndOf(m, i) = EndOf(m, i - 1) + m[i].size
         /\ \A i \in 1 .. Len(m) : OffsetOf(m, i) = EndOf(m, i - 1)
<1>1. Len(m) \in Nat /\ DOMAIN m = 1 .. Len(m)
  BY DEF BlockMaps
<1>2. \A i \in 1 .. Len(m) : m[i].size \in Nat
  BY BlockProperties
<1>3. Sizes(m) \in [1 .. Len(m) -> Nat] /\ \A i \in 1 .. Len(m) : Sizes(m)[i] = m[i].size
  BY <1>1, <1>2 DEF Sizes
<1> DEFINE s == Sizes(m)
<1> HIDE DEF s
<1>4. s \in Seq(Nat) /\ Len(s) = Len(m)
  BY <1>1, <1>3 DEF s
<1>5. /\ EndsOf(s) \in [0 .. Len(m) -> Nat] /\ EndsOf(s)[0] = 0
      /\ \A i \in 1 .. Len(m) : EndsOf(s)[i] = EndsOf(s)[i - 1] + s[i]
  BY <1>4, EndsOfRecursion
<1>6. \A i \in 1 .. Len(m) : OffsetOf(m, i) = EndOf(m, i - 1)
  BY DEF OffsetOf, EndOf, Sizes
<1> QED
  BY <1>1, <1>3, <1>4, <1>5, <1>6 DEF s, EndOf

\* A file is its blocks, each where its offset says.
LEMMA FileProperties ==
  ASSUME NEW m \in BlockMaps
  PROVE  /\ FileOf(m) \in Seq(Byte)
         /\ Len(FileOf(m)) = EndOf(m, Len(m))
         /\ \A i \in 1 .. Len(m) : EndOf(m, i) <= Len(FileOf(m))
         /\ \A i \in 1 .. Len(m) : \A j \in 1..m[i].size :
              FileOf(m)[EndOf(m, i - 1) + j] = Content[m[i]][j]
<1> DEFINE seqs == [i \in DOMAIN m |-> Content[m[i]]]
           s == Sizes(m)
<1>1. Len(m) \in Nat /\ DOMAIN m = 1 .. Len(m)
  BY DEF BlockMaps
<1>2. \A i \in 1 .. Len(m) : /\ Content[m[i]] \in Seq(Byte) /\ Len(Content[m[i]]) = m[i].size
                             /\ m[i].size \in Nat
  BY BlockProperties
<1>3. /\ seqs \in [1 .. Len(m) -> Seq(Byte)]
      /\ \A i \in 1 .. Len(m) : seqs[i] = Content[m[i]]
  BY <1>1, <1>2
<1>4. \A i \in 1 .. Len(m) : s[i] = m[i].size
  BY <1>1 DEF Sizes
<1>5. s \in Seq(Nat) /\ Len(s) = Len(m)
  BY EndOfProperties
<1>6. FileOf(m) = FlattenSeq(seqs)
  BY DEF FileOf
<1> HIDE DEF seqs, s
<1>7. seqs \in Seq(Seq(Byte)) /\ Len(seqs) = Len(m)
  BY <1>1, <1>3
<1>8. /\ FlattenSeq(seqs) \in Seq(Byte)
      /\ Len(FlattenSeq(seqs)) = EndsOf(s)[Len(m)]
      /\ \A i \in 1 .. Len(m) : \A j \in 1..s[i] : FlattenSeq(seqs)[EndsOf(s)[i - 1] + j] = seqs[i][j]
  <2>1. Len(s) = Len(seqs) /\ \A i \in 1 .. Len(seqs) : s[i] = Len(seqs[i])
    BY <1>2, <1>3, <1>4, <1>5, <1>7
  <2> QED
    BY <1>5, <1>7, <2>1, FlattenProperties
<1>9. \A i \in 0 .. Len(m) : EndsOf(s)[i] <= EndsOf(s)[Len(m)]
  BY <1>1, <1>5, EndsOfMonotone
<1>10. \A i \in 1 .. Len(m) : \A j \in 1..m[i].size : FileOf(m)[EndsOf(s)[i - 1] + j] = Content[m[i]][j]
  BY <1>3, <1>4, <1>6, <1>8, SMTT(30)
<1> QED
  BY <1>6, <1>8, <1>9, <1>10 DEF s, EndOf

\* An operation writes the bytes of the new file from one position to a later one.
Produces(operation, old, new, from, to) ==
  /\ operation \in Op /\ from < to
  /\ operation.end - operation.start = to - from
  /\ operation.kind = "download" => operation.start = from
  /\ operation.kind = "copy" =>
       /\ operation.end <= Len(old)
       /\ \A j \in 1 .. (to - from) : old[operation.start + j] = new[from + j]

\* A set of positive numbers has its Min.
LEMMA MinOfSet ==
  ASSUME NEW S, S \subseteq Nat, S # {}
  PROVE  Min(S) \in S
<1>1. \E x \in S : \A y \in S : x =< y
  BY LeastNat
<1> QED
  BY <1>1, Zenon DEF Min

\* The source of a block has its bytes (computeOperations: an old block of the checksum counts
\* only with the size of the new one).
LEMMA SourceIsRight ==
  ASSUME NEW oldBlocks \in BlockMaps, NEW newBlocks \in BlockMaps, NEW i \in 1 .. Len(newBlocks),
         newBlocks[i].size # 0
  PROVE  Produces(SourceOf(oldBlocks, newBlocks, i), FileOf(oldBlocks), FileOf(newBlocks),
                  EndOf(newBlocks, i - 1), EndOf(newBlocks, i))
<1> DEFINE b == newBlocks[i]
           s == SourceOf(oldBlocks, newBlocks, i)
           h == FirstOldBlock(oldBlocks, b.checksum)
<1>1. /\ EndOf(newBlocks, i) = EndOf(newBlocks, i - 1) + b.size
      /\ EndOf(newBlocks, i - 1) \in Nat /\ EndOf(newBlocks, i) \in Nat /\ b.size \in Nat \ {0}
  <2>1. i - 1 \in 0 .. Len(newBlocks) /\ i \in 0 .. Len(newBlocks)
    BY EndOfProperties
  <2> QED BY <2>1, EndOfProperties, BlockProperties
<1>2. CASE IsReusable(oldBlocks, b)
  <2>1. h \in 1 .. Len(oldBlocks) /\ oldBlocks[h].checksum = b.checksum /\ oldBlocks[h].size = b.size
    <3> DEFINE S == OldBlocksOf(oldBlocks, b.checksum)
    <3>1. DOMAIN oldBlocks = 1 .. Len(oldBlocks)
      BY DEF BlockMaps
    <3>2. S # {} /\ oldBlocks[h].size = b.size
      BY <1>2 DEF IsReusable
    <3>3. S \subseteq 1 .. Len(oldBlocks) /\ S \subseteq Nat
      BY <3>1, EndOfProperties DEF OldBlocksOf
    <3>4. h \in S
      <4> HIDE DEF S
      <4>1. Min(S) \in S
        BY <3>2, <3>3, MinOfSet
      <4> QED BY <4>1 DEF FirstOldBlock, S
    <3>5. oldBlocks[h].checksum = b.checksum
      BY <3>4 DEF OldBlocksOf
    <3> QED BY <3>2, <3>3, <3>4, <3>5
  <2> HIDE DEF h
  <2>2. oldBlocks[h] = b
    <3>1. oldBlocks[h] = [checksum |-> oldBlocks[h].checksum, size |-> oldBlocks[h].size]
      BY <2>1, BlockProperties
    <3>2. b = [checksum |-> b.checksum, size |-> b.size]
      BY BlockProperties
    <3> HIDE DEF b
    <3> QED BY <3>1, <3>2, <2>1
  <2>3. s = [kind |-> "copy", start |-> EndOf(oldBlocks, h - 1), end |-> EndOf(oldBlocks, h - 1) + b.size]
    <3>1. OffsetOf(oldBlocks, h) = EndOf(oldBlocks, h - 1)
      BY <2>1, EndOfProperties
    <3> QED BY <1>2, <3>1 DEF SourceOf, h
  <2>4. /\ EndOf(oldBlocks, h) = EndOf(oldBlocks, h - 1) + b.size
        /\ EndOf(oldBlocks, h - 1) \in Nat /\ EndOf(oldBlocks, h) \in Nat
        /\ EndOf(oldBlocks, h) <= Len(FileOf(oldBlocks))
    <3>1. h - 1 \in 0 .. Len(oldBlocks) /\ h \in 0 .. Len(oldBlocks)
      BY <2>1, EndOfProperties
    <3> QED BY <2>1, <3>1, EndOfProperties, FileProperties
  <2>5. \A j \in 1..b.size : FileOf(oldBlocks)[EndOf(oldBlocks, h - 1) + j] = Content[b][j]
    <3>1. \A j \in 1..oldBlocks[h].size :
            FileOf(oldBlocks)[EndOf(oldBlocks, h - 1) + j] = Content[oldBlocks[h]][j]
      BY <2>1, FileProperties
    <3> QED BY ONLY <2>1, <2>2, <3>1
  <2>6. \A j \in 1..b.size : FileOf(newBlocks)[EndOf(newBlocks, i - 1) + j] = Content[b][j]
    BY FileProperties
  <2> HIDE DEF b, s
  <2>7. s \in Op
    BY <2>3, <2>4, <1>1 DEF Op
  <2> DEFINE from == EndOf(newBlocks, i - 1)
             to == EndOf(newBlocks, i)
             old == FileOf(oldBlocks)
             new == FileOf(newBlocks)
  <2>8. s.kind = "copy" /\ s.end - s.start = to - from /\ s.end <= Len(old) /\ from < to
    BY <1>1, <2>3, <2>4
  <2>9. \A j \in 1 .. (to - from) : old[s.start + j] = new[from + j]
    <3>1. s.start = EndOf(oldBlocks, h - 1) /\ to - from = b.size
      BY <1>1, <2>3
    <3> QED BY <3>1, <2>5, <2>6
  <2> HIDE DEF from, to, old, new
  <2>10. Produces(s, old, new, from, to)
    BY <2>7, <2>8, <2>9 DEF Produces
  <2> QED
    BY <2>10 DEF s, from, to, old, new
<1>3. CASE ~IsReusable(oldBlocks, b)
  <2>1. OffsetOf(newBlocks, i) = EndOf(newBlocks, i - 1)
    BY EndOfProperties
  <2>2. s = [kind |-> "download", start |-> EndOf(newBlocks, i - 1), end |-> EndOf(newBlocks, i - 1) + b.size]
    BY <1>3, <2>1 DEF SourceOf
  <2> HIDE DEF b, s
  <2>3. s \in Op
    BY <2>2, <1>1 DEF Op
  <2> QED
    BY <1>1, <2>2, <2>3 DEF Produces, b, s
<1> QED
  BY <1>2, <1>3

\* The operations write the new file's first bytes, each from where the one before it ends.
IsLaid(operations, old, new, pos, total) ==
  /\ operations \in Seq(Op)
  /\ pos \in [0 .. Len(operations) -> Nat] /\ pos[0] = 0 /\ pos[Len(operations)] = total
  /\ \A n \in 1 .. Len(operations) : Produces(operations[n], old, new, pos[n - 1], pos[n])

\* Some positions show it.
Lays(operations, old, new, total) == \E pos : IsLaid(operations, old, new, pos, total)

\* The positions of n operations and one more, which ends at byte to.
Extended(pos, n, to) == [k \in 0 .. n + 1 |-> IF k = n + 1 THEN to ELSE pos[k]]

\* The last operations of a plan may give way to one that goes on where they started.
LEMMA LaidAfterReplacing ==
  ASSUME NEW old, NEW new, NEW pos, NEW total, NEW operations, IsLaid(operations, old, new, pos, total),
         NEW n \in 0 .. Len(operations), NEW to \in Nat, NEW operation,
         Produces(operation, old, new, pos[n], to)
  PROVE  /\ IsLaid(Append(SubSeq(operations, 1, n), operation), old, new, Extended(pos, n, to), to)
         /\ Len(Append(SubSeq(operations, 1, n), operation)) = n + 1
<1> DEFINE s == SubSeq(operations, 1, n)
           t == Append(s, operation)
           q == Extended(pos, n, to)
<1>1. /\ operations \in Seq(Op) /\ Len(operations) \in Nat /\ n \in Nat /\ n <= Len(operations)
      /\ pos \in [0 .. Len(operations) -> Nat] /\ pos[0] = 0
      /\ \A k \in 1 .. Len(operations) : Produces(operations[k], old, new, pos[k - 1], pos[k])
  BY DEF IsLaid
<1>2. operation \in Op
  BY DEF Produces
<1>3. s \in Seq(Op) /\ Len(s) = n /\ \A k \in 1..n : s[k] = operations[k]
  <2>1. \A k \in 1..n : operations[k] \in Op
    BY <1>1
  <2>2. /\ s \in Seq(Op) /\ Len(s) = IF 1 <= n THEN n - 1 + 1 ELSE 0
        /\ \A k \in 1 .. n - 1 + 1 : s[k] = operations[1 + k - 1]
    BY <1>1, <2>1, SubSeqProperties
  <2>3. \A k \in 1..n : s[k] = operations[k]
    <3> HIDE DEF s
    <3> SUFFICES ASSUME NEW k \in 1..n PROVE s[k] = operations[k]
      OBVIOUS
    <3>1. k \in 1 .. n - 1 + 1 /\ 1 + k - 1 = k
      BY <1>1
    <3> QED BY <2>2, <3>1
  <2> QED BY <1>1, <2>2, <2>3
<1> HIDE DEF s
<1>4. t \in Seq(Op) /\ Len(t) = n + 1 /\ t[n + 1] = operation /\ \A k \in 1..n : t[k] = s[k]
  BY <1>2, <1>3, AppendProperties
<1> HIDE DEF t
<1>5. q \in [0 .. n + 1 -> Nat] /\ q[n + 1] = to /\ \A k \in 0..n : q[k] = pos[k]
  BY <1>1 DEF Extended
<1> HIDE DEF q
<1>6. ASSUME NEW k \in 1 .. n + 1 PROVE Produces(t[k], old, new, q[k - 1], q[k])
  <2>1. CASE k = n + 1
    <3>1. q[k] = to /\ q[k - 1] = pos[n] /\ t[k] = operation
      <4>1. k - 1 = n /\ n \in 0..n
        BY <2>1, <1>1
      <4> QED BY <4>1, <2>1, <1>4, <1>5
    <3> QED BY <3>1
  <2>2. CASE k # n + 1
    <3>1. k \in 1..n /\ k \in 0..n /\ k - 1 \in 0..n /\ k \in 1 .. Len(operations)
      BY <2>2, <1>1
    <3>2. t[k] = operations[k] /\ q[k] = pos[k] /\ q[k - 1] = pos[k - 1]
      BY <3>1, <1>3, <1>4, <1>5
    <3>3. Produces(operations[k], old, new, pos[k - 1], pos[k])
      BY <3>1, <1>1
    <3> QED BY <3>2, <3>3
  <2> QED BY <2>1, <2>2
<1>7. q[0] = 0
  BY <1>1, <1>5
<1>8. IsLaid(t, old, new, q, to)
  BY <1>4, <1>5, <1>6, <1>7 DEF IsLaid
<1> QED
  BY <1>4, <1>8 DEF t, q, s

\* One more operation.
LEMMA LaidAfterAppending ==
  ASSUME NEW old, NEW new, NEW pos, NEW total, NEW operations, IsLaid(operations, old, new, pos, total),
         NEW to \in Nat, NEW operation, Produces(operation, old, new, total, to)
  PROVE  IsLaid(Append(operations, operation), old, new, Extended(pos, Len(operations), to), to)
<1>1. operations \in Seq(Op) /\ Len(operations) \in 0 .. Len(operations) /\ pos[Len(operations)] = total
  BY DEF IsLaid
<1>2. SubSeq(operations, 1, Len(operations)) = operations
  BY <1>1, SubSeqFull
<1>3. IsLaid(Append(SubSeq(operations, 1, Len(operations)), operation), old, new, Extended(pos, Len(operations), to), to)
  BY <1>1, LaidAfterReplacing
<1> QED
  BY <1>2, <1>3

\* A new last element.
LEMMA ExceptLast ==
  ASSUME NEW S, NEW s \in Seq(S), NEW x \in S, s # <<>>
  PROVE  [s EXCEPT ![Len(s)] = x] = Append(SubSeq(s, 1, Len(s) - 1), x)
<1> DEFINE n == Len(s)
           t == [s EXCEPT ![n] = x]
           u == SubSeq(s, 1, n - 1)
           v == Append(u, x)
<1>1. n \in Nat \ {0} /\ \A k \in 1..n : s[k] \in S
  BY EmptySeq
<1>2. t \in Seq(S) /\ Len(t) = n /\ \A k \in 1..n : t[k] = IF k = n THEN x ELSE s[k]
  <2>1. n \in 1..n
    BY <1>1
  <2> QED BY <2>1, ExceptSeq
<1>3. u \in Seq(S) /\ Len(u) = n - 1 /\ \A k \in 1 .. n - 1 : u[k] = s[k]
  <2>1. 1 \in Int /\ n - 1 \in Int /\ \A k \in 1 .. n - 1 : s[k] \in S
    BY <1>1
  <2>2. /\ u \in Seq(S) /\ Len(u) = IF 1 <= n - 1 THEN n - 1 - 1 + 1 ELSE 0
        /\ \A k \in 1 .. n - 1 - 1 + 1 : u[k] = s[1 + k - 1]
    BY <2>1, SubSeqProperties
  <2> HIDE DEF u, n
  <2>3. \A k \in 1 .. n - 1 : k \in 1 .. n - 1 - 1 + 1 /\ 1 + k - 1 = k
    BY <1>1
  <2>4. \A k \in 1 .. n - 1 : u[k] = s[k]
    BY <2>2, <2>3
  <2>5. Len(u) = n - 1
    BY <1>1, <2>2
  <2> QED BY <2>2, <2>4, <2>5
<1> HIDE DEF t, u, n
<1>4. v \in Seq(S) /\ Len(v) = n - 1 + 1 /\ v[n - 1 + 1] = x /\ \A k \in 1 .. n - 1 : v[k] = u[k]
  BY <1>3, AppendProperties
<1> HIDE DEF v
<1>5. Len(v) = n /\ v[n] = x
  BY <1>1, <1>4
<1>6. \A k \in 1..n : t[k] = v[k]
  <2> SUFFICES ASSUME NEW k \in 1..n PROVE t[k] = v[k]
    OBVIOUS
  <2>1. CASE k = n
    BY <1>2, <1>5, <2>1
  <2>2. CASE k # n
    <3>1. k \in 1 .. n - 1
      BY <1>1, <2>2
    <3> QED BY <3>1, <1>2, <1>3, <1>4, <2>2
  <2> QED BY <2>1, <2>2
<1>7. t = v
  BY <1>2, <1>4, <1>5, <1>6, SeqEqual
<1> QED
  BY <1>7 DEF t, v, u, n

\* Two operations that follow each other in the source, too, are one.
LEMMA ProducesTogether ==
  ASSUME NEW old, NEW new, NEW a \in Nat, NEW b \in Nat, NEW c \in Nat, NEW x, NEW y,
         Produces(x, old, new, a, b), Produces(y, old, new, b, c), x.kind = y.kind, x.end = y.start
  PROVE  Produces([x EXCEPT !.end = y.end], old, new, a, c)
<1> DEFINE z == [x EXCEPT !.end = y.end]
<1>1. x \in Op /\ y \in Op /\ x.start \in Nat /\ x.end \in Nat /\ y.start \in Nat /\ y.end \in Nat
  BY DEF Produces, Op
<1>2. z \in Op /\ z.kind = x.kind /\ z.start = x.start /\ z.end = y.end
  BY <1>1 DEF Op
<1> HIDE DEF z
<1>3. a < b /\ b < c /\ x.end - x.start = b - a /\ y.end - y.start = c - b
  BY DEF Produces
<1>4. a < c /\ z.end - z.start = c - a
  BY <1>1, <1>2, <1>3
<1>5. z.kind = "download" => z.start = a
  BY <1>2 DEF Produces
<1>6. ASSUME z.kind = "copy"
      PROVE  z.end <= Len(old) /\ \A j \in 1 .. (c - a) : old[z.start + j] = new[a + j]
  <2>1. /\ y.end <= Len(old)
        /\ \A j \in 1 .. (b - a) : old[x.start + j] = new[a + j]
        /\ \A j \in 1 .. (c - b) : old[y.start + j] = new[b + j]
    BY <1>2, <1>6 DEF Produces
  <2>2. ASSUME NEW j \in 1 .. (c - a) PROVE old[z.start + j] = new[a + j]
    <3>1. CASE j <= b - a
      BY <3>1, <1>2, <2>1
    <3>2. CASE b - a < j
      <4> DEFINE k == j - (b - a)
      <4>1. k \in 1 .. (c - b) /\ y.start + k = z.start + j /\ b + k = a + j
        BY <3>2, <1>1, <1>2, <1>3
      <4> HIDE DEF k
      <4> QED BY <4>1, <2>1
    <3> QED BY <3>1, <3>2
  <2> QED BY <2>1, <2>2, <1>2
<1> QED
  BY <1>2, <1>4, <1>5, <1>6 DEF Produces, z

\* A round of computeOperations: the block that comes next keeps the plan laid, whether it
\* prolongs the last operation or is one of its own.
LEMMA AddBlockIsRight ==
  ASSUME NEW old, NEW new, NEW total \in Nat, NEW to \in Nat, NEW operations, Lays(operations, old, new, total),
         NEW source, Produces(source, old, new, total, to)
  PROVE  Lays(AddBlock(operations, source), old, new, to)
<1> DEFINE n == Len(operations)
           last == operations[n]
           joins == operations # <<>> /\ last.kind = source.kind /\ last.end = source.start
<1>1. PICK pos : IsLaid(operations, old, new, pos, total)
  BY DEF Lays
<1>2. CASE ~joins
  <2>1. AddBlock(operations, source) = Append(operations, source)
    BY <1>2 DEF AddBlock
  <2> HIDE DEF joins
  <2>2. IsLaid(Append(operations, source), old, new, Extended(pos, n, to), to)
    BY <1>1, LaidAfterAppending
  <2> QED
    BY <2>1, <2>2 DEF Lays
<1>3. CASE joins
  <2> DEFINE x == [last EXCEPT !.end = source.end]
  <2>1. AddBlock(operations, source) = [operations EXCEPT ![n] = x]
    BY <1>3 DEF AddBlock
  <2>2. operations \in Seq(Op) /\ operations # <<>> /\ n \in Nat \ {0} /\ last \in Op /\ source \in Op
    BY <1>1, <1>3, EmptySeq DEF IsLaid, Produces
  <2>3. n - 1 \in 0..n /\ pos[n] = total /\ pos[n - 1] \in Nat
        /\ Produces(last, old, new, pos[n - 1], pos[n])
    BY <1>1, <2>2 DEF IsLaid
  <2>4. Produces(x, old, new, pos[n - 1], to)
    <3> HIDE DEF n, last, x
    <3>1. Produces(last, old, new, pos[n - 1], total)
      BY <2>3
    <3> QED BY <3>1, <2>3, <1>3, ProducesTogether DEF x
  <2>5. x \in Op
    BY <2>4 DEF Produces
  <2> HIDE DEF x, last
  <2>6. [operations EXCEPT ![n] = x] = Append(SubSeq(operations, 1, n - 1), x)
    BY <2>2, <2>5, ExceptLast
  <2>7. IsLaid(Append(SubSeq(operations, 1, n - 1), x), old, new, Extended(pos, n - 1, to), to)
    <3> HIDE DEF n
    <3> QED BY <1>1, <2>3, <2>4, LaidAfterReplacing DEF n
  <2> QED
    BY <2>1, <2>6, <2>7 DEF Lays
<1> QED
  BY <1>2, <1>3

\* A block map without empty blocks.
HasNoEmptyBlock(m) == \A i \in DOMAIN m : m[i].size # 0

\* A round of computeOperations keeps to operations.
LEMMA AddBlockType ==
  ASSUME NEW operations \in Seq(Op), NEW source \in Op
  PROVE  AddBlock(operations, source) \in Seq(Op)
<1> DEFINE n == Len(operations)
           last == operations[n]
           x == [last EXCEPT !.end = source.end]
<1>1. CASE operations = <<>>
  <2>1. AddBlock(operations, source) = Append(operations, source)
    BY <1>1 DEF AddBlock
  <2> QED BY <2>1
<1>2. CASE operations # <<>>
  <2>1. n \in Nat \ {0} /\ n \in 1..n
    BY <1>2, EmptySeq
  <2>2. last \in Op
    BY <2>1
  <2> HIDE DEF last
  <2>3. x \in Op
    BY <2>2 DEF Op
  <2> HIDE DEF x
  <2>4. [operations EXCEPT ![n] = x] \in Seq(Op)
    BY <2>1, <2>3, ExceptSeq
  <2>5. AddBlock(operations, source) \in {[operations EXCEPT ![n] = x], Append(operations, source)}
    BY DEF AddBlock, x, last
  <2>6. Append(operations, source) \in Seq(Op)
    OBVIOUS
  <2> QED BY <2>4, <2>5, <2>6
<1> QED BY <1>1, <1>2

\* The rounds of computeOperations.
LEMMA ComputeOperationsRecursion ==
  ASSUME NEW oldBlocks \in BlockMaps, NEW newBlocks \in BlockMaps,
         \A i \in 1 .. Len(newBlocks) : SourceOf(oldBlocks, newBlocks, i) \in Op
  PROVE  \E f : /\ f[0] = <<>>
                /\ \A i \in 1 .. Len(newBlocks) : f[i] = AddBlock(f[i - 1], SourceOf(oldBlocks, newBlocks, i))
                /\ ComputeOperations(oldBlocks, newBlocks) = f[Len(newBlocks)]
<1> DEFINE n == Len(newBlocks)
           S == Seq(Op)
           src(i) == SourceOf(oldBlocks, newBlocks, i)
           round == [i \in 1..n |-> [s \in S |-> AddBlock(s, src(i))]]
           Ops(g) == [i \in 0..n |-> IF i = 0 THEN <<>> ELSE AddBlock(g[i - 1], src(i))]
<1>1. n \in Nat /\ <<>> \in S
  BY EndOfProperties
<1>2. round \in [1..n -> [S -> S]]
  <2> SUFFICES ASSUME NEW i \in 1..n, NEW s \in S PROVE AddBlock(s, src(i)) \in S
    OBVIOUS
  <2> QED BY AddBlockType
<1> DEFINE r == Rounds(S, n, <<>>, round)
<1>3. r \in [0..n -> S] /\ r[0] = <<>> /\ \A i \in 1..n : r[i] = round[i][r[i - 1]]
  <2>1. IsRecursion(r, S, n, <<>>, round)
    <3> HIDE DEF round, n, S
    <3> QED BY <1>1, <1>2, RecursionUpTo
  <2> HIDE DEF round, n, r, S
  <2> QED BY <2>1 DEF IsRecursion
<1> HIDE DEF r
<1>4. \A i \in 1..n : r[i] = AddBlock(r[i - 1], src(i))
  <2> SUFFICES ASSUME NEW i \in 1..n PROVE r[i] = AddBlock(r[i - 1], src(i))
    OBVIOUS
  <2>1. i - 1 \in 0..n
    BY <1>1
  <2> HIDE DEF S
  <2>2. r[i - 1] \in S
    BY <2>1, <1>3
  <2>3. round[i][r[i - 1]] = AddBlock(r[i - 1], src(i))
    BY <2>2
  <2> HIDE DEF round
  <2> QED BY <1>3, <2>3
<1> HIDE DEF round, S, src
<1>5. r = Ops(r)
  <2>1. r = [i \in 0..n |-> r[i]]
    BY <1>3
  <2>2. \A i \in 0..n : r[i] = IF i = 0 THEN <<>> ELSE AddBlock(r[i - 1], src(i))
    BY <1>1, <1>3, <1>4
  <2> QED BY <2>1, <2>2
<1> DEFINE c == CHOOSE g : g = Ops(g)
<1>6. c = Ops(c)
  BY <1>5, Zenon
<1>7. ComputeOperations(oldBlocks, newBlocks) = c[n]
  BY DEF ComputeOperations, src
<1> HIDE DEF c
<1>8. c[0] = <<>> /\ \A i \in 1..n : c[i] = AddBlock(c[i - 1], src(i))
  <2>1. \A i \in 0..n : c[i] = IF i = 0 THEN <<>> ELSE AddBlock(c[i - 1], src(i))
    BY <1>6
  <2>2. 0 \in 0..n /\ \A i \in 1..n : i \in 0..n /\ i # 0
    BY <1>1
  <2> QED BY <2>1, <2>2
<1> QED
  BY <1>7, <1>8 DEF src

\* The operations of computeOperations build the new file.
LEMMA ComputeOperationsIsRight ==
  ASSUME NEW oldBlocks \in BlockMaps, NEW newBlocks \in BlockMaps, HasNoEmptyBlock(newBlocks)
  PROVE  Lays(ComputeOperations(oldBlocks, newBlocks), FileOf(oldBlocks), FileOf(newBlocks), Len(FileOf(newBlocks)))
<1> DEFINE n == Len(newBlocks)
           old == FileOf(oldBlocks)
           new == FileOf(newBlocks)
           src(i) == SourceOf(oldBlocks, newBlocks, i)
           e(i) == EndOf(newBlocks, i)
<1>1. n \in Nat /\ DOMAIN newBlocks = 1..n
  BY EndOfProperties DEF BlockMaps
<1>2. \A i \in 1..n : Produces(src(i), old, new, e(i - 1), e(i))
  BY <1>1, SourceIsRight DEF HasNoEmptyBlock
<1>3. \A i \in 1..n : src(i) \in Op
  BY <1>2 DEF Produces
<1>4. PICK f : /\ f[0] = <<>>
               /\ \A i \in 1..n : f[i] = AddBlock(f[i - 1], src(i))
               /\ ComputeOperations(oldBlocks, newBlocks) = f[n]
  BY <1>3, ComputeOperationsRecursion
<1> DEFINE Done(i) == Lays(f[i], old, new, e(i))
           U == {i \in 0..n : Done(i)}
<1>5. 0 \in U
  <2>1. IsLaid(<<>>, old, new, [k \in 0..0 |-> 0], 0)
    BY DEF IsLaid
  <2>2. Lays(<<>>, old, new, 0)
    BY <2>1 DEF Lays
  <2>3. e(0) = 0
    BY EndOfProperties
  <2> QED BY <1>1, <1>4, <2>2, <2>3
<1>6. \A i \in 1..n : i - 1 \in U => i \in U
  <2> SUFFICES ASSUME NEW i \in 1..n, Done(i - 1) PROVE Done(i)
    <3> HIDE DEF Done
    <3> QED BY <1>1
  <2>1. e(i - 1) \in Nat /\ e(i) \in Nat
    <3>1. i - 1 \in 0..n /\ i \in 0..n
      BY <1>1
    <3> QED BY <3>1, EndOfProperties
  <2>2. Produces(src(i), old, new, e(i - 1), e(i)) /\ f[i] = AddBlock(f[i - 1], src(i))
    BY <1>2, <1>4
  <2> HIDE DEF e, src, old, new
  <2> QED BY <2>1, <2>2, AddBlockIsRight
<1>7. 0..n \subseteq U
  <2> HIDE DEF U
  <2> QED BY <1>1, <1>5, <1>6, InductionUpTo
<1>8. Done(n)
  <2>1. n \in 0..n
    BY <1>1
  <2> HIDE DEF Done
  <2> QED BY <1>7, <2>1
<1>9. e(n) = Len(new)
  BY FileProperties
<1> QED
  BY <1>4, <1>8, <1>9

\* What coalesceDownloadGaps keeps from round to round.
Joining == {s \in [result : Seq(Op), lastDownload : Nat, gap : Int] : s.lastDownload <= Len(s.result)}

\* ... and what it knows: the gap is what was written since the last download.
IsJoined(state, old, new, total) ==
  /\ state \in Joining
  /\ \E pos : /\ IsLaid(state.result, old, new, pos, total)
              /\ state.lastDownload > 0 =>
                   /\ state.result[state.lastDownload].kind = "download"
                   /\ state.gap = total - pos[state.lastDownload]

\* The three outcomes of a round.
CopyJoined(state, operation) ==
  [state EXCEPT !.result = Append(@, operation),
                !.gap = IF state.lastDownload > 0 THEN @ + Length(operation) ELSE @]

\* ... a download that takes in the gap before it, ...
GapJoined(state, operation) ==
  [state EXCEPT !.result = Append(SubSeq(@, 1, state.lastDownload - 1),
                                  [state.result[state.lastDownload] EXCEPT !.end = operation.end]),
                !.gap = 0]

\* ... and a download of its own.
DownloadJoined(state, operation) ==
  [result |-> Append(state.result, operation), lastDownload |-> Len(state.result) + 1, gap |-> 0]

\* A copy is added, a download is added or ends the last one.
LEMMA AddOperationCases ==
  ASSUME NEW state, NEW operation, NEW maxGap
  PROVE  \/ /\ operation.kind = "copy"
            /\ AddOperation(state, operation, maxGap) = CopyJoined(state, operation)
         \/ /\ operation.kind # "copy" /\ state.lastDownload > 0
            /\ AddOperation(state, operation, maxGap) = GapJoined(state, operation)
         \/ /\ operation.kind # "copy"
            /\ AddOperation(state, operation, maxGap) = DownloadJoined(state, operation)
  BY DEF AddOperation, CopyJoined, GapJoined, DownloadJoined

\* A copy.
LEMMA CopyJoinedFields ==
  ASSUME NEW state \in Joining, NEW operation \in Op
  PROVE  /\ CopyJoined(state, operation) \in Joining
         /\ CopyJoined(state, operation).result = Append(state.result, operation)
         /\ CopyJoined(state, operation).lastDownload = state.lastDownload
         /\ CopyJoined(state, operation).gap =
              IF state.lastDownload > 0 THEN state.gap + Length(operation) ELSE state.gap
<1> DEFINE c == CopyJoined(state, operation)
           r == Append(state.result, operation)
           g == IF state.lastDownload > 0 THEN state.gap + Length(operation) ELSE state.gap
<1>1. state \in [result : Seq(Op), lastDownload : Nat, gap : Int]
      /\ state.lastDownload <= Len(state.result)
  BY DEF Joining
<1>2. state.result \in Seq(Op) /\ state.lastDownload \in Nat /\ state.gap \in Int
  BY <1>1
<1>3. Length(operation) \in Int
  BY DEF Op, Length
<1>4. g \in Int
  BY <1>2, <1>3
<1>5. r \in Seq(Op) /\ Len(r) = Len(state.result) + 1 /\ Len(state.result) \in Nat
  BY <1>2, AppendProperties
<1>6. c = [state EXCEPT !.result = r, !.gap = g]
  BY DEF CopyJoined
<1> HIDE DEF c, r, g
<1>7. /\ c \in [result : Seq(Op), lastDownload : Nat, gap : Int]
      /\ c.result = r /\ c.gap = g /\ c.lastDownload = state.lastDownload
  BY <1>1, <1>4, <1>5, <1>6
<1>8. c.lastDownload <= Len(c.result)
  BY <1>1, <1>2, <1>5, <1>7
<1> QED
  BY <1>7, <1>8 DEF Joining, c, r, g

\* A download that takes in the gap.
LEMMA GapJoinedFields ==
  ASSUME NEW state \in Joining, NEW operation \in Op, state.lastDownload > 0
  PROVE  /\ GapJoined(state, operation) \in Joining
         /\ GapJoined(state, operation).result =
              Append(SubSeq(state.result, 1, state.lastDownload - 1),
                     [state.result[state.lastDownload] EXCEPT !.end = operation.end])
         /\ GapJoined(state, operation).lastDownload = state.lastDownload
         /\ GapJoined(state, operation).gap = 0
         /\ Len(GapJoined(state, operation).result) = state.lastDownload
<1> DEFINE c == GapJoined(state, operation)
           l == state.lastDownload
           x == [state.result[l] EXCEPT !.end = operation.end]
           p == SubSeq(state.result, 1, l - 1)
           r == Append(p, x)
<1>1. state \in [result : Seq(Op), lastDownload : Nat, gap : Int] /\ l <= Len(state.result)
  BY DEF Joining
<1>2. state.result \in Seq(Op) /\ l \in Nat /\ l > 0 /\ Len(state.result) \in Nat
  BY <1>1
<1>3. x \in Op
  <2>1. state.result[l] \in Op
    BY <1>1, <1>2
  <2> QED BY <2>1 DEF Op
<1>4. p \in Seq(Op) /\ Len(p) = l - 1
  <2>1. \A k \in 1 .. l - 1 : state.result[k] \in Op
    BY <1>1, <1>2
  <2>2. p \in Seq(Op) /\ Len(p) = IF 1 <= l - 1 THEN l - 1 - 1 + 1 ELSE 0
    BY <1>2, <2>1, SubSeqProperties
  <2> HIDE DEF p
  <2> QED BY <2>2, <1>2
<1> HIDE DEF x, p
<1>5. r \in Seq(Op) /\ Len(r) = l
  BY <1>2, <1>3, <1>4, AppendProperties
<1>6. c = [state EXCEPT !.result = r, !.gap = 0]
  BY DEF GapJoined, x, p
<1> HIDE DEF c, r
<1>7. /\ c \in [result : Seq(Op), lastDownload : Nat, gap : Int]
      /\ c.result = r /\ c.gap = 0 /\ c.lastDownload = l
  <2>1. c.result = r /\ c.gap = 0 /\ c.lastDownload = l
    BY <1>1, <1>6
  <2>2. c \in [result : Seq(Op), lastDownload : Nat, gap : Int]
    BY <1>1, <1>5, <1>6, 0 \in Int
  <2> QED BY <2>1, <2>2
<1>8. c.lastDownload <= Len(c.result) /\ Len(c.result) = l
  BY <1>2, <1>5, <1>7
<1> QED
  BY <1>7, <1>8 DEF Joining, c, r, x, p

\* A download of its own.
LEMMA DownloadJoinedFields ==
  ASSUME NEW state \in Joining, NEW operation \in Op
  PROVE  /\ DownloadJoined(state, operation) \in Joining
         /\ DownloadJoined(state, operation).result = Append(state.result, operation)
         /\ DownloadJoined(state, operation).lastDownload = Len(state.result) + 1
         /\ DownloadJoined(state, operation).gap = 0
         /\ state.result \in Seq(Op)
<1> DEFINE r == Append(state.result, operation)
<1>1. state.result \in Seq(Op) /\ Len(state.result) \in Nat
  BY DEF Joining
<1>2. r \in Seq(Op) /\ Len(r) = Len(state.result) + 1
  BY <1>1, AppendProperties
<1> HIDE DEF r
<1>3. DownloadJoined(state, operation) = [result |-> r, lastDownload |-> Len(state.result) + 1, gap |-> 0]
  BY DEF DownloadJoined, r
<1> QED
  BY <1>1, <1>2, <1>3 DEF Joining, r

\* A round keeps to its types.
LEMMA AddOperationType ==
  ASSUME NEW state \in Joining, NEW operation \in Op, NEW maxGap
  PROVE  AddOperation(state, operation, maxGap) \in Joining
<1> DEFINE t == AddOperation(state, operation, maxGap)
<1>1. CASE t = CopyJoined(state, operation)
  BY <1>1, CopyJoinedFields
<1>2. CASE state.lastDownload > 0 /\ t = GapJoined(state, operation)
  BY <1>2, GapJoinedFields
<1>3. CASE t = DownloadJoined(state, operation)
  BY <1>3, DownloadJoinedFields
<1> QED
  BY <1>1, <1>2, <1>3, AddOperationCases

\* A prefix and one more element.
LEMMA AppendToPrefix ==
  ASSUME NEW S, NEW s \in Seq(S), NEW n \in 0 .. Len(s), NEW x \in S
  PROVE  Append(SubSeq(s, 1, n), x)[n + 1] = x
<1> DEFINE p == SubSeq(s, 1, n)
<1>1. n \in Nat /\ n <= Len(s) /\ Len(s) \in Nat
  OBVIOUS
<1>2. p \in Seq(S) /\ Len(p) = IF 1 <= n THEN n - 1 + 1 ELSE 0
  <2>1. \A k \in 1..n : s[k] \in S
    BY <1>1
  <2> QED BY <1>1, <2>1, SubSeqProperties
<1> HIDE DEF p
<1>3. Append(p, x)[Len(p) + 1] = x
  BY <1>2, AppendProperties
<1>4. Len(p) = n
  BY <1>1, <1>2
<1> QED
  BY <1>3, <1>4 DEF p

\* A round of coalesceDownloadGaps: an operation that produces what comes next keeps the result
\* laid, also when the gap before it is downloaded through.
LEMMA AddOperationIsRight ==
  ASSUME NEW old, NEW new, NEW total \in Nat, NEW to \in Nat, NEW state, NEW operation, NEW maxGap,
         IsJoined(state, old, new, total), Produces(operation, old, new, total, to)
  PROVE  IsJoined(AddOperation(state, operation, maxGap), old, new, to)
<1> DEFINE l == state.lastDownload
           s == state.result
           t == AddOperation(state, operation, maxGap)
<1>1. /\ state \in Joining /\ operation \in Op /\ s \in Seq(Op) /\ l \in Nat /\ l <= Len(s)
      /\ Len(s) \in Nat /\ state.gap \in Int
  BY DEF IsJoined, Joining, Produces
<1>2. PICK pos : /\ IsLaid(s, old, new, pos, total)
                 /\ l > 0 => s[l].kind = "download" /\ state.gap = total - pos[l]
  BY DEF IsJoined
<1>3. /\ pos \in [0 .. Len(s) -> Nat] /\ pos[Len(s)] = total
      /\ \A k \in 1 .. Len(s) : Produces(s[k], old, new, pos[k - 1], pos[k])
  BY <1>2 DEF IsLaid
<1>4. t \in Joining
  BY <1>1, AddOperationType
<1> DEFINE p == Extended(pos, Len(s), to)
<1>5. IsLaid(Append(s, operation), old, new, p, to)
  BY <1>2, LaidAfterAppending
<1>6. p[Len(s) + 1] = to /\ \A k \in 0 .. Len(s) : p[k] = pos[k]
  BY <1>1 DEF Extended
<1>7. /\ Append(s, operation)[Len(s) + 1] = operation
      /\ \A k \in 1 .. Len(s) : Append(s, operation)[k] = s[k]
  BY <1>1, AppendProperties
<1>8. CASE operation.kind = "copy" /\ t = CopyJoined(state, operation)
  <2>1. /\ t.result = Append(s, operation) /\ t.lastDownload = l
        /\ t.gap = IF l > 0 THEN state.gap + Length(operation) ELSE state.gap
    BY <1>1, <1>8, CopyJoinedFields, SMTT(30)
  <2>2. Length(operation) = to - total
    BY DEF Length, Produces
  <2> HIDE DEF t, l, s, p
  <2>3. ASSUME l > 0 PROVE t.result[l].kind = "download" /\ t.gap = to - p[l]
    <3>1. l \in 1 .. Len(s) /\ l \in 0 .. Len(s) /\ pos[l] \in Nat
      BY <1>1, <1>3, <2>3
    <3>2. t.result[l] = s[l] /\ p[l] = pos[l]
      BY <3>1, <1>6, <1>7, <2>1
    <3>3. t.gap = total - pos[l] + (to - total)
      BY <1>2, <2>1, <2>2, <2>3
    <3> QED BY <3>1, <3>2, <3>3, <1>2, <2>3
  <2>4. IsLaid(t.result, old, new, p, to)
    BY <1>5, <2>1
  <2>5. IsJoined(t, old, new, to)
    BY <1>4, <2>1, <2>3, <2>4 DEF IsJoined
  <2> QED BY <2>5 DEF t
<1>9. CASE operation.kind # "copy" /\ t = DownloadJoined(state, operation)
  <2>1. t.result = Append(s, operation) /\ t.lastDownload = Len(s) + 1 /\ t.gap = 0
    BY <1>1, <1>9, DownloadJoinedFields
  <2>2. operation.kind = "download"
    BY <1>1, <1>9 DEF Op
  <2> HIDE DEF t, l, s, p
  <2>3. t.result[t.lastDownload].kind = "download" /\ t.gap = to - p[t.lastDownload]
    BY <2>1, <2>2, <1>6, <1>7
  <2>4. IsLaid(t.result, old, new, p, to)
    BY <1>5, <2>1
  <2>5. IsJoined(t, old, new, to)
    BY <1>4, <2>3, <2>4 DEF IsJoined
  <2> QED BY <2>5 DEF t
<1>10. CASE operation.kind # "copy" /\ l > 0 /\ t = GapJoined(state, operation)
  <2> DEFINE x == [s[l] EXCEPT !.end = operation.end]
             q == Extended(pos, l - 1, to)
  <2>1. /\ t.result = Append(SubSeq(s, 1, l - 1), x) /\ t.lastDownload = l /\ t.gap = 0
        /\ Len(t.result) = l
    BY <1>1, <1>10, GapJoinedFields
  <2>2. operation.kind = "download"
    BY <1>1, <1>10 DEF Op
  <2>3. /\ l \in 1 .. Len(s) /\ l - 1 \in 0 .. Len(s) /\ l \in 0 .. Len(s)
    BY <1>1, <1>10
  <2>4. pos[l] \in Nat /\ pos[l - 1] \in Nat /\ Produces(s[l], old, new, pos[l - 1], pos[l])
    BY <1>3, <2>3
  <2>5. s[l].kind = "download" /\ s[l].start = pos[l - 1] /\ s[l] \in Op /\ pos[l - 1] < pos[l]
    BY <1>2, <1>10, <2>4 DEF Produces
  <2>6. operation.start = total /\ operation.end - total = to - total /\ total < to
    BY <2>2 DEF Produces
  <2>7. operation.end = to
    BY <2>6, <1>1 DEF Op
  <2>8. x \in Op /\ x.kind = "download" /\ x.start = pos[l - 1] /\ x.end = to
    BY <1>1, <2>5, <2>7 DEF Op
  <2>9. pos[l] <= total
    <3> DEFINE T == {k \in 0 .. Len(s) : k >= l => pos[l] <= pos[k]}
    <3>1. 0 \in T
      BY <1>1, <1>10
    <3>2. \A k \in 1 .. Len(s) : k - 1 \in T => k \in T
      <4> SUFFICES ASSUME NEW k \in 1 .. Len(s), k - 1 >= l => pos[l] <= pos[k - 1], k >= l
                   PROVE pos[l] <= pos[k]
        BY <1>1
      <4>1. k - 1 \in 0 .. Len(s) /\ k \in 0 .. Len(s)
        BY <1>1
      <4>2. pos[k - 1] \in Nat /\ pos[k] \in Nat /\ pos[k - 1] < pos[k]
        BY <1>3, <4>1 DEF Produces
      <4>3. k = l \/ k - 1 >= l
        BY <2>3
      <4> HIDE DEF l, s
      <4> QED BY <4>2, <4>3, <2>4
    <3>3. 0 .. Len(s) \subseteq T
      <4> HIDE DEF T
      <4> QED BY <1>1, <3>1, <3>2, InductionUpTo
    <3>4. Len(s) \in 0 .. Len(s) /\ Len(s) >= l
      BY <1>1
    <3> QED BY <3>3, <3>4, <1>3
  <2> HIDE DEF x, q, t, s, l
  <2>10. Produces(x, old, new, pos[l - 1], to)
    BY <2>4, <2>5, <2>6, <2>8, <2>9 DEF Produces
  <2>11. IsLaid(t.result, old, new, q, to)
    BY <1>2, <2>1, <2>3, <2>10, LaidAfterReplacing DEF q
  <2>12. t.result[l] = x
    <3>1. Append(SubSeq(s, 1, l - 1), x)[l - 1 + 1] = x
      BY <1>1, <2>3, <2>8, AppendToPrefix
    <3>2. l - 1 + 1 = l
      BY <1>1
    <3> QED BY <3>1, <3>2, <2>1
  <2>13. q[l] = to
    BY <2>3, <1>1 DEF q, Extended
  <2>14. IsJoined(t, old, new, to)
    <3>1. t.result[t.lastDownload].kind = "download"
      BY <2>1, <2>8, <2>12
    <3>2. t.gap = to - q[t.lastDownload]
      BY <2>1, <2>13
    <3> QED BY <1>4, <2>11, <3>1, <3>2 DEF IsJoined
  <2> QED BY <2>14 DEF t
<1> QED
  BY <1>8, <1>9, <1>10, AddOperationCases

\* The state of coalesceDownloadGaps before its first round.
NothingJoined == [result |-> <<>>, lastDownload |-> 0, gap |-> 0]

\* The rounds of coalesceDownloadGaps.
LEMMA CoalesceRecursion ==
  ASSUME NEW operations \in Seq(Op), NEW maxGap
  PROVE  \E f : /\ f[0] = NothingJoined
                /\ \A i \in 1 .. Len(operations) : f[i] = AddOperation(f[i - 1], operations[i], maxGap)
                /\ CoalesceDownloadGaps(operations, maxGap) = f[Len(operations)].result
<1> DEFINE n == Len(operations)
           op(i) == operations[i]
           round == [i \in 1..n |-> [s \in Joining |-> AddOperation(s, op(i), maxGap)]]
           States(g) == [i \in 0..n |-> IF i = 0 THEN NothingJoined ELSE AddOperation(g[i - 1], op(i), maxGap)]
<1>1. n \in Nat /\ NothingJoined \in Joining
  <2>1. NothingJoined \in [result : Seq(Op), lastDownload : Nat, gap : Int]
    BY DEF NothingJoined
  <2>2. NothingJoined.lastDownload <= Len(NothingJoined.result)
    BY DEF NothingJoined
  <2> QED BY <2>1, <2>2 DEF Joining
<1>2. round \in [1..n -> [Joining -> Joining]]
  <2> SUFFICES ASSUME NEW i \in 1..n, NEW s \in Joining PROVE AddOperation(s, op(i), maxGap) \in Joining
    OBVIOUS
  <2>1. op(i) \in Op
    OBVIOUS
  <2> HIDE DEF op
  <2> QED BY <2>1, AddOperationType
<1> DEFINE r == Rounds(Joining, n, NothingJoined, round)
<1>3. r \in [0..n -> Joining] /\ r[0] = NothingJoined /\ \A i \in 1..n : r[i] = round[i][r[i - 1]]
  <2>1. IsRecursion(r, Joining, n, NothingJoined, round)
    <3> HIDE DEF round, n
    <3> QED BY <1>1, <1>2, RecursionUpTo
  <2> HIDE DEF round, n, r
  <2> QED BY <2>1 DEF IsRecursion
<1> HIDE DEF r, op
<1>4. \A i \in 1..n : r[i] = AddOperation(r[i - 1], op(i), maxGap)
  <2> SUFFICES ASSUME NEW i \in 1..n PROVE r[i] = AddOperation(r[i - 1], op(i), maxGap)
    OBVIOUS
  <2>1. i - 1 \in 0..n
    BY <1>1
  <2>2. r[i - 1] \in Joining
    BY <2>1, <1>3
  <2>3. round[i][r[i - 1]] = AddOperation(r[i - 1], op(i), maxGap)
    BY <2>2
  <2> HIDE DEF round
  <2> QED BY <1>3, <2>3
<1> HIDE DEF round
<1>5. r = States(r)
  <2>1. r = [i \in 0..n |-> r[i]]
    BY <1>3
  <2>2. \A i \in 0..n : r[i] = IF i = 0 THEN NothingJoined ELSE AddOperation(r[i - 1], op(i), maxGap)
    BY <1>1, <1>3, <1>4
  <2> QED BY <2>1, <2>2
<1> DEFINE c == CHOOSE g : g = States(g)
<1>6. c = States(c)
  BY <1>5, Zenon
<1>7. CoalesceDownloadGaps(operations, maxGap) = c[n].result
  BY DEF CoalesceDownloadGaps, op, NothingJoined
<1> HIDE DEF c
<1>8. c[0] = NothingJoined /\ \A i \in 1..n : c[i] = AddOperation(c[i - 1], op(i), maxGap)
  <2>1. \A i \in 0..n : c[i] = IF i = 0 THEN NothingJoined ELSE AddOperation(c[i - 1], op(i), maxGap)
    BY <1>6
  <2>2. 0 \in 0..n /\ \A i \in 1..n : i \in 0..n /\ i # 0
    BY <1>1
  <2> QED BY <2>1, <2>2
<1> QED
  BY <1>7, <1>8 DEF op

\* Coalescing changes where bytes come from, not which.
LEMMA CoalesceIsRight ==
  ASSUME NEW old, NEW new, NEW total, NEW operations, Lays(operations, old, new, total), NEW maxGap
  PROVE  Lays(CoalesceDownloadGaps(operations, maxGap), old, new, total)
<1> DEFINE n == Len(operations)
<1>1. PICK pos : IsLaid(operations, old, new, pos, total)
  BY DEF Lays
<1>2. /\ operations \in Seq(Op) /\ n \in Nat
      /\ pos \in [0..n -> Nat] /\ pos[0] = 0 /\ pos[n] = total
      /\ \A i \in 1..n : Produces(operations[i], old, new, pos[i - 1], pos[i])
  BY <1>1 DEF IsLaid
<1>3. PICK f : /\ f[0] = NothingJoined
               /\ \A i \in 1..n : f[i] = AddOperation(f[i - 1], operations[i], maxGap)
               /\ CoalesceDownloadGaps(operations, maxGap) = f[n].result
  BY <1>2, CoalesceRecursion
<1> HIDE DEF n
<1> DEFINE Done(i) == IsJoined(f[i], old, new, pos[i])
           U == {i \in 0..n : Done(i)}
<1>4. 0 \in U
  <2>1. NothingJoined \in Joining
    <3>1. NothingJoined \in [result : Seq(Op), lastDownload : Nat, gap : Int]
      BY DEF NothingJoined
    <3>2. NothingJoined.lastDownload <= Len(NothingJoined.result)
      BY DEF NothingJoined
    <3> QED BY <3>1, <3>2 DEF Joining
  <2>2. IsLaid(NothingJoined.result, old, new, [k \in 0..0 |-> 0], 0)
    BY DEF IsLaid, NothingJoined
  <2>3. ~(NothingJoined.lastDownload > 0)
    BY DEF NothingJoined
  <2>4. IsJoined(NothingJoined, old, new, 0)
    BY <2>1, <2>2, <2>3 DEF IsJoined
  <2> QED BY <1>2, <1>3, <2>4
<1>5. \A i \in 1..n : i - 1 \in U => i \in U
  <2> SUFFICES ASSUME NEW i \in 1..n, Done(i - 1) PROVE Done(i)
    <3> HIDE DEF Done
    <3> QED BY <1>2
  <2>1. pos[i - 1] \in Nat /\ pos[i] \in Nat
    <3>1. i - 1 \in 0..n /\ i \in 0..n
      BY <1>2
    <3> QED BY <3>1, <1>2
  <2>2. /\ Produces(operations[i], old, new, pos[i - 1], pos[i])
        /\ f[i] = AddOperation(f[i - 1], operations[i], maxGap)
    BY <1>2, <1>3
  <2> QED BY <2>1, <2>2, AddOperationIsRight
<1>6. 0..n \subseteq U
  <2> HIDE DEF U
  <2> QED BY <1>2, <1>4, <1>5, InductionUpTo
<1>7. Done(n)
  <2>1. n \in 0..n
    BY <1>2
  <2> HIDE DEF Done
  <2> QED BY <1>6, <2>1
<1>8. \E q : IsLaid(f[n].result, old, new, q, total)
  BY <1>7, <1>2 DEF IsJoined
<1> QED
  BY <1>3, <1>8 DEF Lays

\* The lengths of the operations.
Lengths(operations) == [i \in DOMAIN operations |-> Length(operations[i])]

\* The positions of a plan are where its operations end.
LEMMA PositionsAreEnds ==
  ASSUME NEW old, NEW new, NEW total, NEW operations, Lays(operations, old, new, total)
  PROVE  IsLaid(operations, old, new, EndsOf(Lengths(operations)), total)
<1> DEFINE n == Len(operations)
           s == Lengths(operations)
           e == EndsOf(s)
<1>1. PICK pos : IsLaid(operations, old, new, pos, total)
  BY DEF Lays
<1>2. /\ operations \in Seq(Op) /\ n \in Nat /\ DOMAIN operations = 1..n
      /\ pos \in [0..n -> Nat] /\ pos[0] = 0 /\ pos[n] = total
      /\ \A i \in 1..n : Produces(operations[i], old, new, pos[i - 1], pos[i])
  BY <1>1 DEF IsLaid
<1>3. \A i \in 1..n : Length(operations[i]) = pos[i] - pos[i - 1] /\ Length(operations[i]) \in Nat
  <2> SUFFICES ASSUME NEW i \in 1..n
               PROVE  Length(operations[i]) = pos[i] - pos[i - 1] /\ Length(operations[i]) \in Nat
    OBVIOUS
  <2>1. i - 1 \in 0..n /\ i \in 0..n
    BY <1>2
  <2>2. pos[i - 1] \in Nat /\ pos[i] \in Nat
    BY <1>2, <2>1
  <2>3. Length(operations[i]) = pos[i] - pos[i - 1] /\ pos[i - 1] < pos[i]
    BY <1>2 DEF Produces, Length
  <2> QED BY <2>2, <2>3
<1>4. s \in [1..n -> Nat] /\ \A i \in 1..n : s[i] = pos[i] - pos[i - 1]
  BY <1>2, <1>3 DEF Lengths
<1> HIDE DEF s
<1>5. s \in Seq(Nat) /\ Len(s) = n
  BY <1>2, <1>4
<1>6. e \in [0..n -> Nat] /\ e[0] = 0 /\ \A i \in 1..n : e[i] = e[i - 1] + s[i]
  BY <1>5, EndsOfRecursion
<1> HIDE DEF e, n
<1> DEFINE U == {i \in 0..n : e[i] = pos[i]}
<1>7. 0 \in U
  BY <1>2, <1>6
<1>8. \A i \in 1..n : i - 1 \in U => i \in U
  <2> SUFFICES ASSUME NEW i \in 1..n, e[i - 1] = pos[i - 1] PROVE e[i] = pos[i]
    BY <1>2
  <2>1. i - 1 \in 0..n /\ i \in 0..n
    BY <1>2
  <2>2. pos[i - 1] \in Nat /\ pos[i] \in Nat
    BY <1>2, <2>1
  <2>3. e[i] = e[i - 1] + (pos[i] - pos[i - 1])
    BY <1>4, <1>6
  <2> QED BY <2>2, <2>3
<1>9. 0..n \subseteq U
  <2> HIDE DEF U
  <2> QED BY <1>2, <1>7, <1>8, InductionUpTo
<1>10. e = pos
  <2>1. \A i \in 0..n : e[i] = pos[i]
    BY <1>9
  <2> QED BY <2>1, <1>2, <1>6
<1> QED
  BY <1>1, <1>10 DEF e, s

\* The plan of an update builds the new file from the old one and the ranges it downloads
\* (downloadPlanBuilder.ts): the operations lie one after the other from the first byte to the
\* last, a download at its own place and a copy of equal bytes, whatever checksums collide,
\* wherever blocks repeat or move, and with the gaps of either kind of host.
THEOREM PlanBuildsNewFile ==
  ASSUME NEW oldBlocks \in BlockMaps, NEW newBlocks \in BlockMaps, HasNoEmptyBlock(newBlocks),
         NEW isMultiple
  PROVE  LET operations == PlanFor(oldBlocks, newBlocks, isMultiple)
         IN IsLaid(operations, FileOf(oldBlocks), FileOf(newBlocks), EndsOf(Lengths(operations)), Len(FileOf(newBlocks)))
<1>1. Lays(ComputeOperations(oldBlocks, newBlocks), FileOf(oldBlocks), FileOf(newBlocks), Len(FileOf(newBlocks)))
  BY ComputeOperationsIsRight
<1>2. Lays(PlanFor(oldBlocks, newBlocks, isMultiple), FileOf(oldBlocks), FileOf(newBlocks), Len(FileOf(newBlocks)))
  BY <1>1, CoalesceIsRight DEF PlanFor
<1> QED
  BY <1>2, PositionsAreEnds

\* ... so that doDownload has no reason to reject it.
THEOREM PlanIsValid ==
  ASSUME NEW oldBlocks \in BlockMaps, NEW newBlocks \in BlockMaps, HasNoEmptyBlock(newBlocks),
         NEW isMultiple
  PROVE  IsPlanValid(PlanFor(oldBlocks, newBlocks, isMultiple), Len(FileOf(newBlocks)))
<1> DEFINE operations == PlanFor(oldBlocks, newBlocks, isMultiple)
           e == EndsOf(Lengths(operations))
<1>1. IsLaid(operations, FileOf(oldBlocks), FileOf(newBlocks), e, Len(FileOf(newBlocks)))
  BY PlanBuildsNewFile
<1> HIDE DEF operations
<1>2. /\ operations \in Seq(Op) /\ e[Len(operations)] = Len(FileOf(newBlocks))
      /\ \A n \in 1 .. Len(operations) : Produces(operations[n], FileOf(oldBlocks), FileOf(newBlocks), e[n - 1], e[n])
      /\ e \in [0 .. Len(operations) -> Nat]
  BY <1>1 DEF IsLaid
<1>3. ASSUME NEW n \in DOMAIN operations PROVE operations[n].end > operations[n].start
  <2>1. n \in 1 .. Len(operations) /\ n - 1 \in 0 .. Len(operations) /\ n \in 0 .. Len(operations)
    BY <1>2
  <2>2. e[n - 1] \in Nat /\ e[n] \in Nat /\ operations[n] \in Op
    BY <1>2, <2>1
  <2>3. e[n - 1] < e[n] /\ operations[n].end - operations[n].start = e[n] - e[n - 1]
    BY <1>2, <2>1 DEF Produces
  <2>4. operations[n].start \in Nat /\ operations[n].end \in Nat
    BY <2>2 DEF Op
  <2> HIDE DEF e
  <2> QED BY <2>2, <2>3, <2>4
<1> QED
  BY <1>2, <1>3 DEF IsPlanValid, operations, Lengths

----------------------------------------------------------------------------
(* Batches and their ranges (multipleRangeDownloader.ts).                   *)

\* Where part k of a batch is, and where the copies before it start.
Task(operations, b, k) ==
  IF k = Len(Downloads(operations, b)) THEN b.end ELSE Downloads(operations, b)[k + 1]

\* Where the copies before part k of a batch start.
PrevTask(operations, b, k) == IF k = 0 THEN b.start ELSE Task(operations, b, k - 1) + 1

\* A batch is an interval of operations, its end excluded.
IsBatch(operations, b) ==
  /\ b \in [start : 1 .. Len(operations) + 1, end : 1 .. Len(operations) + 1]
  /\ b.start <= b.end

\* The rounds of doExecuteTasks: s has the downloads before task i.
IsTaskList(operations, s, start, i) ==
  /\ s \in Seq(Nat)
  /\ \A k \in 1 .. Len(s) : s[k] \in start .. i - 1 /\ operations[s[k]].kind = "download"
  /\ \A k \in 0 .. Len(s) :
       LET from == IF k = 0 THEN start ELSE s[k] + 1
           to == IF k = Len(s) THEN i ELSE s[k + 1]
       IN from <= to /\ \A j \in from .. to - 1 : operations[j].kind # "download"

\* One more task.
LEMMA TaskListRound ==
  ASSUME NEW operations, NEW start \in Nat, NEW i \in Nat, NEW s, IsTaskList(operations, s, start, i),
         start <= i
  PROVE  IsTaskList(operations, IF operations[i].kind = "download" THEN Append(s, i) ELSE s,
                    start, i + 1)
<1> DEFINE n == Len(s)
           From(t, k) == IF k = 0 THEN start ELSE t[k] + 1
           To(t, k, j) == IF k = Len(t) THEN j ELSE t[k + 1]
<1>1. /\ s \in Seq(Nat) /\ n \in Nat
      /\ \A k \in 1..n : s[k] \in start .. i - 1 /\ operations[s[k]].kind = "download"
  BY DEF IsTaskList
<1>2. \A k \in 0..n : /\ From(s, k) <= To(s, k, i)
                      /\ \A j \in From(s, k) .. To(s, k, i) - 1 : operations[j].kind # "download"
  BY DEF IsTaskList
<1>3. CASE operations[i].kind = "download"
  <2> DEFINE t == Append(s, i)
  <2>1. t \in Seq(Nat) /\ Len(t) = n + 1 /\ t[n + 1] = i /\ \A k \in 1..n : t[k] = s[k]
    BY <1>1, AppendProperties
  <2> HIDE DEF t, n
  <2>2. ASSUME NEW k \in 1 .. Len(t)
        PROVE  t[k] \in start .. i + 1 - 1 /\ operations[t[k]].kind = "download"
    <3>1. CASE k = n + 1
      BY <3>1, <1>3, <2>1
    <3>2. CASE k # n + 1
      <4>1. k \in 1..n
        BY <3>2, <2>1, <1>1
      <4>2. s[k] \in start .. i - 1 /\ operations[s[k]].kind = "download" /\ t[k] = s[k]
        BY <4>1, <2>1, <1>1
      <4>3. s[k] \in start .. i + 1 - 1
        BY <4>2
      <4> QED BY <4>2, <4>3
    <3> QED BY <3>1, <3>2
  <2>3. ASSUME NEW k \in 0 .. Len(t)
        PROVE  /\ From(t, k) <= To(t, k, i + 1)
               /\ \A j \in From(t, k) .. To(t, k, i + 1) - 1 : operations[j].kind # "download"
    <3>1. CASE k = n + 1
      <4>1. From(t, k) = i + 1 /\ To(t, k, i + 1) = i + 1
        BY <3>1, <2>1, <1>1
      <4> QED BY <4>1
    <3>2. CASE k # n + 1
      <4>1. k \in 0..n /\ k \in Nat
        BY <3>2, <2>1, <1>1
      <4>2. From(t, k) = From(s, k)
        <5>1. k # 0 => k \in 1..n
          BY <4>1, <1>1
        <5> QED BY <5>1, <2>1
      <4>3. To(t, k, i + 1) = To(s, k, i)
        <5>1. CASE k = n
          BY <5>1, <2>1, <1>1 DEF n
        <5>2. CASE k # n
          <6>1. k + 1 \in 1..n
            BY <5>2, <4>1, <1>1
          <6> QED BY <5>2, <6>1, <2>1, <1>1, <3>2 DEF n
        <5> QED BY <5>1, <5>2
      <4> HIDE DEF From, To
      <4> QED BY <4>1, <4>2, <4>3, <1>2
    <3> QED BY <3>1, <3>2
  <2>4. IsTaskList(operations, t, start, i + 1)
    BY <2>1, <2>2, <2>3 DEF IsTaskList
  <2> QED BY <2>4, <1>3 DEF t
<1>4. CASE operations[i].kind # "download"
  <2>1. ASSUME NEW k \in 0..n
        PROVE  /\ From(s, k) <= To(s, k, i + 1)
               /\ \A j \in From(s, k) .. To(s, k, i + 1) - 1 : operations[j].kind # "download"
    <3>1. CASE k = n
      <4>1. To(s, k, i + 1) = i + 1 /\ To(s, k, i) = i
        BY <3>1
      <4>2. From(s, k) \in Nat
        <5>1. k = 0 \/ k \in 1..n
          BY <1>1
        <5>2. k \in 1..n => s[k] \in Nat
          BY <1>1
        <5> QED BY <5>1, <5>2
      <4>3. From(s, k) <= i /\ \A j \in From(s, k) .. i - 1 : operations[j].kind # "download"
        BY <1>2, <4>1
      <4> HIDE DEF From, To
      <4>4. \A j \in From(s, k) .. i + 1 - 1 : j = i \/ j \in From(s, k) .. i - 1
        BY <4>2
      <4>5. From(s, k) <= i + 1
        BY <4>2, <4>3
      <4> QED BY <4>1, <4>3, <4>4, <4>5, <1>4
    <3>2. CASE k # n
      <4>1. To(s, k, i + 1) = To(s, k, i)
        BY <3>2
      <4> HIDE DEF From, To
      <4> QED BY <4>1, <1>2
    <3> QED BY <3>1, <3>2
  <2>2. \A k \in 1 .. Len(s) : s[k] \in start .. i + 1 - 1 /\ operations[s[k]].kind = "download"
    BY <1>1
  <2>3. ASSUME NEW k \in 0 .. Len(s)
        PROVE  /\ From(s, k) <= To(s, k, i + 1)
               /\ \A j \in From(s, k) .. To(s, k, i + 1) - 1 : operations[j].kind # "download"
    <3> HIDE DEF From, To
    <3> QED BY <2>1
  <2>4. s \in Seq(Nat)
    BY <1>1
  <2> HIDE DEF n
  <2>5. IsTaskList(operations, s, start, i + 1)
    BY <2>2, <2>3, <2>4 DEF IsTaskList
  <2> QED BY <2>5, <1>4
<1> QED
  BY <1>3, <1>4

\* The downloads of a batch, in their order.
LEMMA DownloadsAreRight ==
  ASSUME NEW operations, NEW b, b.start \in Nat, b.end \in Nat, b.start <= b.end
  PROVE  IsTaskList(operations, Downloads(operations, b), b.start, b.end)
<1> DEFINE st == b.start
           n == b.end - b.start
           S == Seq(Nat)
           Add(s, i) == IF operations[i - 1].kind = "download" THEN Append(s, i - 1) ELSE s
           Before(g) == [i \in st .. b.end |-> IF i = st THEN <<>> 
              ELSE IF operations[i - 1].kind = "download" THEN Append(g[i - 1], i - 1) ELSE g[i - 1]]
           round == [k \in 1..n |-> [s \in S |-> Add(s, st + k)]]
<1>1. n \in Nat /\ st \in Nat /\ b.end = st + n /\ <<>> \in S
  OBVIOUS
<1>2. round \in [1..n -> [S -> S]]
  <2> SUFFICES ASSUME NEW k \in 1..n, NEW s \in S PROVE Add(s, st + k) \in S
    OBVIOUS
  <2>1. st + k - 1 \in Nat
    BY <1>1
  <2>2. Append(s, st + k - 1) \in S
    BY <2>1, AppendProperties
  <2> QED BY <2>2
<1> DEFINE r == Rounds(S, n, <<>>, round)
<1>3. r \in [0..n -> S] /\ r[0] = <<>> /\ \A k \in 1..n : r[k] = round[k][r[k - 1]]
  <2>1. IsRecursion(r, S, n, <<>>, round)
    <3> HIDE DEF round, n, S
    <3> QED BY <1>1, <1>2, RecursionUpTo
  <2> HIDE DEF round, n, r, S
  <2> QED BY <2>1 DEF IsRecursion
<1> HIDE DEF r, Add
<1>4. \A k \in 1..n : r[k] = Add(r[k - 1], st + k)
  <2> SUFFICES ASSUME NEW k \in 1..n PROVE r[k] = Add(r[k - 1], st + k)
    OBVIOUS
  <2> HIDE DEF S
  <2>1. k - 1 \in 0..n
    BY <1>1
  <2>2. r[k - 1] \in S
    BY <2>1, <1>3
  <2>3. round[k][r[k - 1]] = Add(r[k - 1], st + k)
    BY <2>2
  <2> HIDE DEF round
  <2> QED BY <1>3, <2>3
<1> HIDE DEF round, n, st, S
<1> DEFINE g == [i \in st .. b.end |-> r[i - st]]
<1>5. g = Before(g)
  <2>1. \A i \in st .. b.end : g[i] = IF i = st THEN <<>> ELSE Add(g[i - 1], i)
    <3> SUFFICES ASSUME NEW i \in st .. b.end PROVE r[i - st] = IF i = st THEN <<>> ELSE Add(g[i - 1], i)
      OBVIOUS
    <3>1. CASE i = st
      <4>1. i - st = 0
        BY <3>1, <1>1
      <4> QED BY <4>1, <3>1, <1>3
    <3>2. CASE i # st
      <4>1. i - st \in 1..n /\ i - 1 \in st .. b.end /\ st + (i - st) = i /\ (i - st) - 1 = (i - 1) - st
        BY <3>2, <1>1
      <4>2. g[i - 1] = r[(i - 1) - st]
        BY <4>1
      <4>3. r[i - st] = Add(r[(i - st) - 1], st + (i - st))
        BY <4>1, <1>4
      <4> HIDE DEF g
      <4> QED BY <4>1, <4>2, <4>3, <3>2
    <3> QED BY <3>1, <3>2
  <2>2. g = [i \in st .. b.end |-> g[i]]
    OBVIOUS
  <2> HIDE DEF g
  <2>3. g = [i \in st .. b.end |-> IF i = st THEN <<>> ELSE Add(g[i - 1], i)]
    BY <2>1, <2>2
  <2> QED BY <2>3 DEF Add
<1> DEFINE c == CHOOSE h : h = Before(h)
<1>6. c = Before(c)
  BY <1>5, Zenon
<1>7. Downloads(operations, b) = c[b.end]
  BY DEF Downloads, st
<1> HIDE DEF c, g
<1>8. c[st] = <<>> /\ \A i \in st + 1 .. b.end : c[i] = Add(c[i - 1], i)
  <2>1. c = [i \in st .. b.end |-> IF i = st THEN <<>> ELSE Add(c[i - 1], i)]
    BY <1>6 DEF Add
  <2>2. \A i \in st .. b.end : c[i] = IF i = st THEN <<>> ELSE Add(c[i - 1], i)
    BY <2>1
  <2>3. st \in st .. b.end /\ \A i \in st + 1 .. b.end : i \in st .. b.end /\ i # st
    BY <1>1
  <2> QED BY <2>2, <2>3
<1> DEFINE Done(k) == IsTaskList(operations, c[st + k], st, st + k)
           U == {k \in 0..n : Done(k)}
<1>9. 0 \in U
  <2>1. st + 0 = st
    BY <1>1
  <2>2. IsTaskList(operations, <<>>, st, st)
    BY <1>1 DEF IsTaskList
  <2> QED BY <2>1, <2>2, <1>1, <1>8
<1>10. \A k \in 1..n : k - 1 \in U => k \in U
  <2> SUFFICES ASSUME NEW k \in 1..n, Done(k - 1) PROVE Done(k)
    <3> HIDE DEF Done
    <3> QED BY <1>1
  <2> DEFINE i == st + (k - 1)
  <2>1. i \in Nat /\ st <= i /\ st + k = i + 1 /\ i + 1 \in st + 1 .. b.end /\ i + 1 - 1 = i
    BY <1>1
  <2>2. IsTaskList(operations, c[i], st, i)
    OBVIOUS
  <2> HIDE DEF i
  <2>3. c[i + 1] = IF operations[i].kind = "download" THEN Append(c[i], i) ELSE c[i]
    BY <2>1, <1>8 DEF Add
  <2>4. IsTaskList(operations, c[i + 1], st, i + 1)
    BY <2>1, <2>2, <2>3, <1>1, TaskListRound
  <2> QED BY <2>1, <2>4
<1>11. 0..n \subseteq U
  <2> HIDE DEF U
  <2> QED BY <1>1, <1>9, <1>10, InductionUpTo
<1>12. Done(n)
  <2>1. n \in 0..n
    BY <1>1
  <2> HIDE DEF Done
  <2> QED BY <1>11, <2>1
<1> QED
  BY <1>1, <1>7, <1>12 DEF st

\* The tasks of a batch: copies up to each download, and after the last one.
LEMMA BatchProperties ==
  ASSUME NEW operations \in Seq(Op), NEW b, IsBatch(operations, b)
  PROVE  LET n == Len(Downloads(operations, b))
         IN /\ Downloads(operations, b) \in Seq(Nat) /\ n \in Nat
            /\ Task(operations, b, n) = b.end /\ PrevTask(operations, b, 0) = b.start
            /\ \A k \in 0 .. n - 1 : PrevTask(operations, b, k + 1) = Task(operations, b, k) + 1
            /\ \A k \in 0..n : /\ Task(operations, b, k) \in b.start .. b.end
                               /\ PrevTask(operations, b, k) \in b.start .. Task(operations, b, k)
                               /\ \A j \in PrevTask(operations, b, k) .. Task(operations, b, k) - 1 :
                                    operations[j].kind = "copy"
            /\ \A k \in 0 .. n - 1 : /\ Task(operations, b, k) < b.end
                                     /\ operations[Task(operations, b, k)].kind = "download"
<1> DEFINE s == Downloads(operations, b)
           n == Len(s)
           T(k) == Task(operations, b, k)
           P(k) == PrevTask(operations, b, k)
<1>1. /\ b.start \in Nat /\ b.end \in Nat /\ b.start <= b.end /\ 1 <= b.start
      /\ b.end <= Len(operations) + 1
  BY DEF IsBatch
<1>2. IsTaskList(operations, s, b.start, b.end)
  BY <1>1, DownloadsAreRight
<1> HIDE DEF s
<1>3. /\ s \in Seq(Nat) /\ n \in Nat
      /\ \A k \in 1..n : s[k] \in b.start .. b.end - 1 /\ operations[s[k]].kind = "download"
  BY <1>2 DEF IsTaskList
<1>4. \A k \in 0..n : T(k) = IF k = n THEN b.end ELSE s[k + 1]
  BY DEF Task, s
<1>5. \A k \in 1..n : k - 1 # n /\ k - 1 \in 0..n /\ k - 1 + 1 = k
  BY <1>3
<1>6. \A k \in 0..n : P(k) = IF k = 0 THEN b.start ELSE s[k] + 1
  <2> SUFFICES ASSUME NEW k \in 0..n PROVE P(k) = IF k = 0 THEN b.start ELSE s[k] + 1
    OBVIOUS
  <2>1. CASE k = 0
    BY <2>1 DEF PrevTask
  <2>2. CASE k # 0
    <3>1. k \in 1..n
      BY <2>2, <1>3
    <3>2. P(k) = T(k - 1) + 1
      BY <2>2 DEF PrevTask
    <3>3. T(k - 1) = s[k]
      BY <3>1, <1>4, <1>5
    <3> QED BY <2>2, <3>2, <3>3
  <2> QED BY <2>1, <2>2
<1>7. ASSUME NEW k \in 0..n
      PROVE  P(k) <= T(k) /\ \A j \in P(k) .. T(k) - 1 : operations[j].kind # "download"
  BY <1>2, <1>4, <1>6 DEF IsTaskList
<1> HIDE DEF T, P
<1>8. \A k \in 0 .. n - 1 : k \in 0..n /\ k # n /\ k + 1 \in 1..n /\ k + 1 \in 0..n
  BY <1>3
<1>9. \A k \in 0..n : T(k) \in b.start .. b.end
  <2> SUFFICES ASSUME NEW k \in 0..n PROVE T(k) \in b.start .. b.end
    OBVIOUS
  <2>1. CASE k = n
    BY <2>1, <1>1, <1>4
  <2>2. CASE k # n
    <3>1. k + 1 \in 1..n
      BY <2>2, <1>3
    <3>2. s[k + 1] \in b.start .. b.end - 1
      BY <3>1, <1>3
    <3> QED BY <2>2, <3>2, <1>1, <1>4
  <2> QED BY <2>1, <2>2
<1>10. \A k \in 0..n : P(k) \in b.start .. T(k)
  <2> SUFFICES ASSUME NEW k \in 0..n PROVE P(k) \in b.start .. T(k)
    OBVIOUS
  <2>1. T(k) \in Nat /\ P(k) <= T(k)
    BY <1>1, <1>7, <1>9
  <2>2. CASE k = 0
    BY <2>1, <2>2, <1>1, <1>6
  <2>3. CASE k # 0
    <3>1. k \in 1..n
      BY <2>3, <1>3
    <3>2. s[k] \in b.start .. b.end - 1
      BY <3>1, <1>3
    <3>3. P(k) = s[k] + 1
      BY <2>3, <1>6
    <3> QED BY <3>2, <3>3, <2>1, <1>1
  <2> QED BY <2>2, <2>3
<1>11. ASSUME NEW k \in 0..n, NEW j \in P(k) .. T(k) - 1 PROVE operations[j].kind = "copy"
  <2>1. P(k) \in Nat /\ T(k) \in Nat /\ P(k) >= 1 /\ T(k) <= Len(operations) + 1
    BY <1>1, <1>9, <1>10
  <2>2. j \in 1 .. Len(operations)
    BY <2>1
  <2>3. operations[j] \in Op
    BY <2>2
  <2> QED BY <2>3, <1>7 DEF Op
<1>12. ASSUME NEW k \in 0 .. n - 1 PROVE P(k + 1) = T(k) + 1
  <2>1. k \in 0..n /\ k # n /\ k + 1 \in 0..n /\ k + 1 # 0
    BY <1>3
  <2>2. T(k) = s[k + 1] /\ P(k + 1) = s[k + 1] + 1
    BY <2>1, <1>4, <1>6
  <2> QED BY <2>2
<1>13. \A k \in 0 .. n - 1 : T(k) < b.end /\ operations[T(k)].kind = "download"
  <2> SUFFICES ASSUME NEW k \in 0 .. n - 1 PROVE T(k) < b.end /\ operations[T(k)].kind = "download"
    OBVIOUS
  <2>1. T(k) = s[k + 1] /\ k + 1 \in 1..n
    BY <1>4, <1>8
  <2>2. s[k + 1] \in b.start .. b.end - 1 /\ operations[s[k + 1]].kind = "download"
    BY <2>1, <1>3
  <2> QED BY <2>1, <2>2, <1>1
<1>14. T(n) = b.end /\ P(0) = b.start
  BY <1>3, <1>4, <1>6
<1> QED
  BY <1>3, <1>9, <1>10, <1>11, <1>12, <1>13, <1>14 DEF s, T, P

\* The greatest number of a set between two numbers.
LEMMA MaxOfSet ==
  ASSUME NEW a \in Int, NEW b \in Int, NEW S, S \subseteq a..b, S # {}
  PROVE  Max(S) \in S
<1> DEFINE T == {n \in Nat : b - n \in S}
<1>1. T # {}
  <2>1. PICK x \in S : TRUE
    OBVIOUS
  <2>2. b - x \in Nat /\ b - (b - x) = x
    BY <2>1
  <2> QED BY <2>1, <2>2
<1>2. PICK m \in T : \A k \in T : m <= k
  BY <1>1, LeastNat
<1>3. b - m \in S
  OBVIOUS
<1>4. \A y \in S : b - m >= y
  <2> SUFFICES ASSUME NEW y \in S PROVE b - m >= y
    OBVIOUS
  <2>1. y \in Int /\ b - y \in Nat /\ b - (b - y) = y
    OBVIOUS
  <2>2. b - y \in T
    BY <2>1
  <2> HIDE DEF T
  <2>3. m <= b - y
    BY <1>2, <2>2
  <2>4. m \in Nat
    BY DEF T
  <2> QED BY <2>1, <2>3, <2>4
<1> QED
  BY <1>3, <1>4, Zenon DEF Max

\* A batch ends in the plan.
LEMMA BatchEndIsRight ==
  ASSUME plan \in Seq(Op), NEW i \in 1 .. Len(plan) + 1
  PROVE  ComputeBatchEnd(i) \in i .. Len(plan) + 1
<1> DEFINE n == Len(plan) + 1
           Fits(e) == /\ e - i <= MaxTasks
                      /\ Len(Downloads(plan, [start |-> i, end |-> e])) <= MaxRanges
           S == {e \in i..n : Fits(e)}
           b == [start |-> i, end |-> i]
<1>1. n \in Nat /\ i \in Nat /\ i <= n
  OBVIOUS
<1>2. IsTaskList(plan, Downloads(plan, b), i, i)
  BY <1>1, DownloadsAreRight
<1>3. Len(Downloads(plan, b)) = 0
  <2> DEFINE s == Downloads(plan, b)
  <2>1. s \in Seq(Nat) /\ \A k \in 1 .. Len(s) : s[k] \in i .. i - 1
    BY <1>2 DEF IsTaskList
  <2> HIDE DEF s
  <2>2. \A k \in 1 .. Len(s) : FALSE
    BY <2>1, <1>1, SMTT(30)
  <2>3. Len(s) \in Nat
    BY <2>1
  <2> QED BY <2>2, <2>3 DEF s
<1>4. Fits(i)
  BY <1>1, <1>3, LimitsAssumption
<1> HIDE DEF Fits
<1>5. i \in S
  BY <1>1, <1>4
<1>6. Max(S) \in S
  <2> HIDE DEF n
  <2>1. S \subseteq i..n /\ S # {} /\ i \in Int /\ n \in Int
    BY <1>1, <1>5
  <2> HIDE DEF S
  <2> QED BY <2>1, MaxOfSet
<1> QED
  BY <1>6 DEF ComputeBatchEnd, Fits

----------------------------------------------------------------------------
(* The multipart answer, byte by byte: line ends, heads, ranges.            *)

\* The line ends are one byte or two, and no part of the other tokens.
LEMMA LineEnds ==
  /\ CRLF \in Seq(Byte) /\ Len(CRLF) = 2 /\ LF \in Seq(Byte) /\ Len(LF) = 1
  /\ LF[1] = CRLF[2] /\ CRLF[1] # CRLF[2]
  /\ \A x \in {"-", "boundary", "header"} : x # CRLF[1] /\ x # CRLF[2]
<1> DEFINE c == CRLF[1]
           l == CRLF[2]
<1>1. CRLF = <<c, l>> /\ LF = <<l>> /\ c \in Byte /\ l \in Byte /\ c # l
  BY LineEndAssumption
<1>2. \A x \in {"-", "boundary", "header"} : x # c /\ x # l
  BY LineEndAssumption
<1> HIDE DEF c, l
<1>3. CRLF \in Seq(Byte) /\ Len(CRLF) = 2 /\ LF \in Seq(Byte) /\ Len(LF) = 1 /\ LF[1] = l
  BY <1>1
<1> QED
  BY <1>1, <1>2, <1>3 DEF c, l

\* The fixed tokens.
LEMMA Tokens ==
  /\ Delimiter \in Seq(Byte) /\ Len(Delimiter) = 3
  /\ Delimiter[1] = "-" /\ Delimiter[2] = "-" /\ Delimiter[3] = "boundary"
  /\ <<"header">> \in Seq(Byte) /\ <<"-", "-">> \in Seq(Byte)
<1>1. "-" \in Byte /\ "boundary" \in Byte /\ "header" \in Byte
  BY LineEndAssumption
<1> QED
  BY <1>1 DEF Delimiter

\* The bytes of two sequences in one.
LEMMA ConcatElements ==
  ASSUME NEW S, NEW s \in Seq(S), NEW t \in Seq(S)
  PROVE  /\ s \o t \in Seq(S) /\ Len(s \o t) = Len(s) + Len(t)
         /\ \A i \in 1 .. Len(s) : (s \o t)[i] = s[i]
         /\ \A i \in 1 .. Len(t) : (s \o t)[Len(s) + i] = t[i]
<1>1. Len(s) \in Nat /\ Len(t) \in Nat
  OBVIOUS
<1>2. /\ s \o t \in Seq(S) /\ Len(s \o t) = Len(s) + Len(t)
      /\ \A i \in 1 .. Len(s) + Len(t) : (s \o t)[i] = IF i <= Len(s) THEN s[i] ELSE t[i - Len(s)]
  BY ConcatProperties
<1>3. \A i \in 1 .. Len(s) : (s \o t)[i] = s[i]
  BY <1>1, <1>2
<1>4. \A i \in 1 .. Len(t) : (s \o t)[Len(s) + i] = t[i]
  <2> SUFFICES ASSUME NEW i \in 1 .. Len(t) PROVE (s \o t)[Len(s) + i] = t[i]
    OBVIOUS
  <2>1. Len(s) + i \in 1 .. Len(s) + Len(t) /\ ~(Len(s) + i <= Len(s)) /\ Len(s) + i - Len(s) = i
    BY <1>1
  <2> QED BY <2>1, <1>2
<1> QED
  BY <1>2, <1>3, <1>4

\* What a part has before its data: a line end, except at the start, a delimiter and a header
\* list.  lead: the length of the first line end.
IsHead(h, lead, eol) ==
  /\ h \in Seq(Byte) /\ Len(h) = lead + 4 + 3 * Len(eol)
  /\ \A i \in 1..lead : h[i] = eol[i]
  /\ h[lead + 1] = "-" /\ h[lead + 2] = "-" /\ h[lead + 3] = "boundary"
  /\ \A i \in 1 .. Len(eol) : h[lead + 3 + i] = eol[i]
  /\ h[lead + 4 + Len(eol)] = "header"
  /\ \A i \in 1 .. Len(eol) : h[lead + 4 + Len(eol) + i] = eol[i]
  /\ \A i \in 1 .. Len(eol) : h[lead + 4 + 2 * Len(eol) + i] = eol[i]

\* The length of the line end that a head starts with: the first head has none.
LeadOf(part, eol) == IF part = 0 THEN 0 ELSE Len(eol)

\* The head of a part is one.
LEMMA PartHeadIsHead ==
  ASSUME NEW part, NEW eol \in {CRLF, LF}
  PROVE  IsHead(PartHead(part, eol), LeadOf(part, eol), eol)
<1> DEFINE l == IF part = 0 THEN <<>> ELSE eol
           lead == LeadOf(part, eol)
           n == Len(eol)
           a == l \o Delimiter
           b == a \o eol
           c == b \o <<"header">>
           d == c \o eol
           h == d \o eol
<1>1. eol \in Seq(Byte) /\ n \in Nat /\ n # 0
  <2>1. CASE eol = CRLF
    BY <2>1, LineEnds
  <2>2. CASE eol = LF
    BY <2>2, LineEnds
  <2> QED BY <2>1, <2>2
<1>2. l \in Seq(Byte) /\ Len(l) = lead /\ lead \in {0, n} /\ \A i \in 1..lead : l[i] = eol[i]
  BY <1>1 DEF LeadOf
<1> HIDE DEF l, lead, n
<1>3. /\ a \in Seq(Byte) /\ Len(a) = lead + 3
      /\ \A i \in 1..lead : a[i] = eol[i]
      /\ a[lead + 1] = "-" /\ a[lead + 2] = "-" /\ a[lead + 3] = "boundary"
  <2>1. /\ a \in Seq(Byte) /\ Len(a) = Len(l) + Len(Delimiter)
        /\ \A i \in 1 .. Len(l) : a[i] = l[i]
        /\ \A i \in 1 .. Len(Delimiter) : a[Len(l) + i] = Delimiter[i]
    <3>1. l \in Seq(Byte) /\ Delimiter \in Seq(Byte)
      BY <1>2, Tokens
    <3> QED BY <3>1, ConcatElements
  <2> HIDE DEF a
  <2>2. 1 \in 1 .. Len(Delimiter) /\ 2 \in 1 .. Len(Delimiter) /\ 3 \in 1 .. Len(Delimiter)
    BY Tokens
  <2> QED BY <1>2, <2>1, <2>2, Tokens
<1> HIDE DEF a
<1>4. /\ b \in Seq(Byte) /\ Len(b) = lead + 3 + n
      /\ \A i \in 1 .. lead + 3 : b[i] = a[i]
      /\ \A i \in 1..n : b[lead + 3 + i] = eol[i]
  <2>1. /\ b \in Seq(Byte) /\ Len(b) = Len(a) + Len(eol)
        /\ \A i \in 1 .. Len(a) : b[i] = a[i]
        /\ \A i \in 1 .. Len(eol) : b[Len(a) + i] = eol[i]
    <3>1. a \in Seq(Byte) /\ eol \in Seq(Byte)
      BY <1>1, <1>3
    <3> QED BY <3>1, ConcatElements
  <2> HIDE DEF b
  <2> QED BY <2>1, <1>3 DEF n
<1> HIDE DEF b
<1>5. /\ c \in Seq(Byte) /\ Len(c) = lead + 4 + n
      /\ \A i \in 1 .. lead + 3 + n : c[i] = b[i]
      /\ c[lead + 4 + n] = "header"
  <2> DEFINE t == <<"header">>
  <2>1. t \in Seq(Byte) /\ Len(t) = 1 /\ t[1] = "header" /\ 1 \in 1 .. Len(t)
    BY Tokens
  <2> HIDE DEF t
  <2>2. /\ b \o t \in Seq(Byte) /\ Len(b \o t) = Len(b) + Len(t)
        /\ \A i \in 1 .. Len(b) : (b \o t)[i] = b[i]
        /\ \A i \in 1 .. Len(t) : (b \o t)[Len(b) + i] = t[i]
    <3>1. b \in Seq(Byte) /\ t \in Seq(Byte)
      BY <1>4, <2>1
    <3> QED BY <3>1, ConcatElements
  <2>3. (b \o t)[Len(b) + 1] = "header"
    BY <2>1, <2>2
  <2>4. Len(b) + 1 = lead + 4 + n
    BY <1>1, <1>2, <1>4
  <2> QED BY <1>4, <2>1, <2>2, <2>3, <2>4 DEF t
<1> HIDE DEF c
<1>6. /\ d \in Seq(Byte) /\ Len(d) = lead + 4 + n + n
      /\ \A i \in 1 .. lead + 4 + n : d[i] = c[i]
      /\ \A i \in 1..n : d[lead + 4 + n + i] = eol[i]
  <2>1. /\ d \in Seq(Byte) /\ Len(d) = Len(c) + Len(eol)
        /\ \A i \in 1 .. Len(c) : d[i] = c[i]
        /\ \A i \in 1 .. Len(eol) : d[Len(c) + i] = eol[i]
    <3>1. c \in Seq(Byte) /\ eol \in Seq(Byte)
      BY <1>1, <1>5
    <3> QED BY <3>1, ConcatElements
  <2> HIDE DEF d
  <2> QED BY <2>1, <1>5 DEF n
<1> HIDE DEF d
<1>7. /\ h \in Seq(Byte) /\ Len(h) = lead + 4 + n + n + n
      /\ \A i \in 1 .. lead + 4 + n + n : h[i] = d[i]
      /\ \A i \in 1..n : h[lead + 4 + n + n + i] = eol[i]
  <2>1. /\ h \in Seq(Byte) /\ Len(h) = Len(d) + Len(eol)
        /\ \A i \in 1 .. Len(d) : h[i] = d[i]
        /\ \A i \in 1 .. Len(eol) : h[Len(d) + i] = eol[i]
    <3>1. d \in Seq(Byte) /\ eol \in Seq(Byte)
      BY <1>1, <1>6
    <3> QED BY <3>1, ConcatElements
  <2> HIDE DEF h
  <2> QED BY <2>1, <1>6 DEF n
<1> HIDE DEF h
<1>8. \A i \in 1 .. lead + 3 : h[i] = a[i]
  <2> SUFFICES ASSUME NEW i \in 1 .. lead + 3 PROVE h[i] = a[i]
    OBVIOUS
  <2>1. /\ i \in 1 .. lead + 3 + n /\ i \in 1 .. lead + 4 + n /\ i \in 1 .. lead + 4 + n + n
    BY <1>1, <1>2
  <2> QED BY <2>1, <1>4, <1>5, <1>6, <1>7
<1>9. \A i \in 1..n : h[lead + 3 + i] = eol[i]
  <2> SUFFICES ASSUME NEW i \in 1..n PROVE h[lead + 3 + i] = eol[i]
    OBVIOUS
  <2> DEFINE j == lead + 3 + i
  <2>1. /\ j \in 1 .. lead + 3 + n /\ j \in 1 .. lead + 4 + n /\ j \in 1 .. lead + 4 + n + n
    BY <1>1, <1>2
  <2>2. b[j] = eol[i]
    BY <1>4
  <2> HIDE DEF j
  <2>3. h[j] = eol[i]
    BY <2>1, <2>2, <1>5, <1>6, <1>7
  <2> QED BY <2>3 DEF j
<1>10. h[lead + 4 + n] = "header"
  <2>1. lead + 4 + n \in 1 .. lead + 4 + n /\ lead + 4 + n \in 1 .. lead + 4 + n + n
    BY <1>1, <1>2
  <2> QED BY <2>1, <1>5, <1>6, <1>7
<1>11. \A i \in 1..n : h[lead + 4 + n + i] = eol[i]
  <2> SUFFICES ASSUME NEW i \in 1..n PROVE h[lead + 4 + n + i] = eol[i]
    OBVIOUS
  <2>1. lead + 4 + n + i \in 1 .. lead + 4 + n + n
    BY <1>1, <1>2
  <2> QED BY <2>1, <1>6, <1>7
<1>12. \A i \in 1..lead : i \in 1 .. lead + 3
  BY <1>1, <1>2
<1>13. lead + 1 \in 1 .. lead + 3 /\ lead + 2 \in 1 .. lead + 3 /\ lead + 3 \in 1 .. lead + 3
  BY <1>1, <1>2
<1>14. /\ \A i \in 1..lead : h[i] = eol[i]
       /\ h[lead + 1] = "-" /\ h[lead + 2] = "-" /\ h[lead + 3] = "boundary"
  BY <1>3, <1>8, <1>12, <1>13
<1>15. lead + 4 + n + n = lead + 4 + 2 * n /\ lead + 4 + n + n + n = lead + 4 + 3 * n
  BY <1>1, <1>2
<1>16. IsHead(h, lead, eol)
  BY <1>7, <1>9, <1>10, <1>11, <1>14, <1>15 DEF IsHead, n
<1>17. PartHead(part, eol) = h
  BY DEF PartHead, a, b, c, d, h, l
<1> QED
  BY <1>16, <1>17 DEF lead

\* A source is an operation, for empty blocks too.
LEMMA SourceType ==
  ASSUME NEW oldBlocks \in BlockMaps, NEW newBlocks \in BlockMaps, NEW i \in 1 .. Len(newBlocks)
  PROVE  SourceOf(oldBlocks, newBlocks, i) \in Op
<1> DEFINE b == newBlocks[i]
           S == OldBlocksOf(oldBlocks, b.checksum)
           h == FirstOldBlock(oldBlocks, b.checksum)
           offset == IF IsReusable(oldBlocks, b) THEN OffsetOf(oldBlocks, h) ELSE OffsetOf(newBlocks, i)
<1>1. b.size \in Nat
  BY BlockProperties
<1>2. offset \in Nat
  <2>1. CASE IsReusable(oldBlocks, b)
    <3>1. S # {}
      BY <2>1 DEF IsReusable
    <3>2. S \subseteq 1 .. Len(oldBlocks) /\ S \subseteq Nat
      <4>1. DOMAIN oldBlocks = 1 .. Len(oldBlocks)
        BY DEF BlockMaps
      <4> QED BY <4>1 DEF OldBlocksOf
    <3>3. h \in 1 .. Len(oldBlocks)
      <4> HIDE DEF S
      <4>1. Min(S) \in S
        BY <3>1, <3>2, MinOfSet
      <4> QED BY <4>1, <3>2 DEF FirstOldBlock, S
    <3> HIDE DEF h, b
    <3>4. OffsetOf(oldBlocks, h) = EndOf(oldBlocks, h - 1) /\ h - 1 \in 0 .. Len(oldBlocks)
      BY <3>3, EndOfProperties
    <3> QED BY <2>1, <3>4, EndOfProperties
  <2>2. CASE ~IsReusable(oldBlocks, b)
    <3>1. OffsetOf(newBlocks, i) = EndOf(newBlocks, i - 1) /\ i - 1 \in 0 .. Len(newBlocks)
      BY EndOfProperties
    <3> QED BY <2>2, <3>1, EndOfProperties
  <2> QED BY <2>1, <2>2
<1>3. SourceOf(oldBlocks, newBlocks, i)
      = [kind |-> IF IsReusable(oldBlocks, b) THEN "copy" ELSE "download",
         start |-> offset, end |-> offset + b.size]
  BY DEF SourceOf
<1> HIDE DEF offset, b
<1>4. offset + b.size \in Nat
  BY <1>1, <1>2
<1> QED
  BY <1>2, <1>3, <1>4 DEF Op

\* A plan is one of operations, for empty blocks too.
LEMMA PlanType ==
  ASSUME NEW oldBlocks \in BlockMaps, NEW newBlocks \in BlockMaps, NEW u
  PROVE  PlanFor(oldBlocks, newBlocks, u) \in Seq(Op)
<1> DEFINE n == Len(newBlocks)
<1>1. n \in Nat
  BY EndOfProperties
<1>2. PICK f : /\ f[0] = <<>>
               /\ \A i \in 1..n : f[i] = AddBlock(f[i - 1], SourceOf(oldBlocks, newBlocks, i))
               /\ ComputeOperations(oldBlocks, newBlocks) = f[n]
  BY SourceType, ComputeOperationsRecursion
<1> HIDE DEF n
<1> DEFINE U == {i \in 0..n : f[i] \in Seq(Op)}
<1>3. 0 \in U
  <2>1. f[0] \in Seq(Op)
    BY <1>2, EmptySeq
  <2> QED BY <1>1, <2>1
<1>4. \A i \in 1..n : i - 1 \in U => i \in U
  <2> SUFFICES ASSUME NEW i \in 1..n, f[i - 1] \in Seq(Op) PROVE f[i] \in Seq(Op)
    BY <1>1
  <2>1. SourceOf(oldBlocks, newBlocks, i) \in Op
    BY SourceType DEF n
  <2> QED BY <1>2, <2>1, AddBlockType
<1>5. 0..n \subseteq U
  <2> HIDE DEF U
  <2> QED BY <1>1, <1>3, <1>4, InductionUpTo
<1>6. ComputeOperations(oldBlocks, newBlocks) \in Seq(Op)
  <2>1. n \in 0..n
    BY <1>1
  <2> QED BY <1>2, <1>5, <2>1
<1> DEFINE operations == ComputeOperations(oldBlocks, newBlocks)
           gap == IF u THEN MultipartGap ELSE SingleGap
           l == Len(operations)
<1> HIDE DEF operations
<1>7. operations \in Seq(Op) /\ l \in Nat
  BY <1>6 DEF operations
<1> HIDE DEF gap
<1>8. PICK g : /\ g[0] = NothingJoined
               /\ \A i \in 1..l : g[i] = AddOperation(g[i - 1], operations[i], gap)
               /\ CoalesceDownloadGaps(operations, gap) = g[l].result
  BY <1>7, CoalesceRecursion
<1> DEFINE V == {i \in 0..l : g[i] \in Joining}
<1>9. 0 \in V
  <2>1. NothingJoined \in [result : Seq(Op), lastDownload : Nat, gap : Int]
    BY DEF NothingJoined
  <2>2. NothingJoined.lastDownload <= Len(NothingJoined.result)
    BY DEF NothingJoined
  <2>3. NothingJoined \in Joining
    BY <2>1, <2>2 DEF Joining
  <2> QED BY <1>7, <1>8, <2>3
<1>10. \A i \in 1..l : i - 1 \in V => i \in V
  <2> SUFFICES ASSUME NEW i \in 1..l, g[i - 1] \in Joining PROVE g[i] \in Joining
    BY <1>7
  <2>1. operations[i] \in Op
    BY <1>7
  <2> QED BY <1>8, <2>1, AddOperationType
<1>11. 0..l \subseteq V
  <2> HIDE DEF V, l
  <2> QED BY <1>7, <1>9, <1>10, InductionUpTo
<1>12. g[l] \in Joining
  <2>1. l \in 0..l
    BY <1>7
  <2> QED BY <1>11, <2>1
<1>13. g[l].result \in Seq(Op)
  BY <1>12 DEF Joining
<1> QED
  BY <1>8, <1>13 DEF PlanFor, operations, gap

\* A part of a sequence, by its elements.
LEMMA PartOf ==
  ASSUME NEW S, NEW s \in Seq(S), NEW a \in Nat, NEW b \in Int, b <= Len(s)
  PROVE  /\ SubSeq(s, a + 1, b) \in Seq(S)
         /\ a <= b => Len(SubSeq(s, a + 1, b)) = b - a
         /\ b <= a => Len(SubSeq(s, a + 1, b)) = 0 /\ SubSeq(s, a + 1, b) = <<>>
         /\ \A i \in 1 .. b - a : SubSeq(s, a + 1, b)[i] = s[a + i]
<1>1. \A i \in a + 1 .. b : s[i] \in S
  OBVIOUS
<1>2. a + 1 \in Int
  OBVIOUS
<1>3. /\ SubSeq(s, a + 1, b) \in Seq(S)
      /\ Len(SubSeq(s, a + 1, b)) = IF a + 1 <= b THEN b - (a + 1) + 1 ELSE 0
      /\ \A i \in 1 .. b - (a + 1) + 1 : SubSeq(s, a + 1, b)[i] = s[(a + 1) + i - 1]
  BY <1>1, <1>2, SubSeqProperties
<1>4. b - (a + 1) + 1 = b - a /\ \A i \in Int : (a + 1) + i - 1 = a + i
  OBVIOUS
<1>5. \A i \in 1 .. b - a : SubSeq(s, a + 1, b)[i] = s[a + i]
  <2> SUFFICES ASSUME NEW i \in 1 .. b - a PROVE SubSeq(s, a + 1, b)[i] = s[a + i]
    OBVIOUS
  <2>1. i \in 1 .. b - (a + 1) + 1 /\ i \in Int
    BY <1>4
  <2> QED BY <2>1, <1>3, <1>4
<1>6. a <= b => Len(SubSeq(s, a + 1, b)) = b - a
  BY <1>3
<1>7. b <= a => Len(SubSeq(s, a + 1, b)) = 0
  BY <1>3
<1>8. b <= a => SubSeq(s, a + 1, b) = <<>>
  BY <1>2, SubSeqEmpty
<1> QED
  BY <1>3, <1>5, <1>6, <1>7, <1>8

\* A part of a part.
LEMMA PartOfPart ==
  ASSUME NEW S, NEW s \in Seq(S), NEW a \in Nat, NEW b \in a .. Len(s),
         NEW i \in Nat, NEW j \in Nat, j <= b - a
  PROVE  SubSeq(SubSeq(s, a + 1, b), i + 1, j) = SubSeq(s, a + i + 1, a + j)
<1> DEFINE t == SubSeq(s, a + 1, b)
           u == SubSeq(t, i + 1, j)
           v == SubSeq(s, a + i + 1, a + j)
<1>1. t \in Seq(S) /\ Len(t) = b - a /\ \A k \in 1 .. b - a : t[k] = s[a + k]
  BY PartOf
<1> HIDE DEF t
<1>2. CASE j <= i
  <2>1. i + 1 \in Int /\ j \in Int /\ j < i + 1 /\ a + i + 1 \in Int /\ a + j \in Int /\ a + j < a + i + 1
    BY <1>2
  <2>2. u = <<>>
    BY <2>1, SubSeqEmpty
  <2>3. v = <<>>
    BY <2>1, SubSeqEmpty
  <2> QED BY <2>2, <2>3 DEF t
<1>3. CASE i < j
  <2>1. u \in Seq(S) /\ Len(u) = j - i /\ \A k \in 1 .. j - i : u[k] = t[i + k]
    <3>1. t \in Seq(S) /\ j \in Int /\ j <= Len(t) /\ i <= j
      BY <1>1, <1>3
    <3> QED BY <3>1, PartOf
  <2> DEFINE c == a + i
             d == a + j
  <2>2. c \in Nat /\ d \in Nat /\ d <= Len(s) /\ c <= d /\ d - c = j - i
    BY <1>3
  <2>3. SubSeq(s, c + 1, d) \in Seq(S) /\ Len(SubSeq(s, c + 1, d)) = d - c
        /\ \A k \in 1 .. d - c : SubSeq(s, c + 1, d)[k] = s[c + k]
    <3> HIDE DEF c, d
    <3> QED BY <2>2, PartOf
  <2>4. v \in Seq(S) /\ Len(v) = j - i /\ \A k \in 1 .. j - i : v[k] = s[(a + i) + k]
    BY <2>2, <2>3
  <2> HIDE DEF u, v, c, d
  <2>5. \A k \in 1 .. j - i : u[k] = v[k]
    <3> SUFFICES ASSUME NEW k \in 1 .. j - i PROVE u[k] = v[k]
      OBVIOUS
    <3>1. i + k \in 1 .. b - a /\ a + (i + k) = (a + i) + k
      OBVIOUS
    <3>2. t[i + k] = s[a + (i + k)]
      BY <3>1, <1>1
    <3> QED BY <2>1, <2>4, <3>1, <3>2
  <2>6. u = v
    BY <2>1, <2>4, <2>5, SeqEqual
  <2> QED BY <2>6 DEF u, v, t
<1> QED
  BY <1>2, <1>3

\* A part and the one that follows it.
LEMMA PartAndNext ==
  ASSUME NEW S, NEW s \in Seq(S), NEW a \in Nat, NEW b \in a .. Len(s), NEW c \in b .. Len(s)
  PROVE  SubSeq(s, a + 1, b) \o SubSeq(s, b + 1, c) = SubSeq(s, a + 1, c)
<1>1. a + 1 \in 1 .. Len(s) + 1 /\ b \in (a + 1) - 1 .. Len(s) /\ c \in b .. Len(s)
  OBVIOUS
<1> QED
  BY <1>1, ConcatAdjacentSubSeq

\* Four bytes in a row are two line ends of two bytes.
IsLongEnd(s, j) == s[j] = CRLF[1] /\ s[j + 1] = CRLF[2] /\ s[j + 2] = CRLF[1] /\ s[j + 3] = CRLF[2]
\* Two bytes in a row are two line ends of one byte.
IsShortEnd(s, j) == s[j] = CRLF[2] /\ s[j + 1] = CRLF[2]

\* The empty line of a head is at its end, and nowhere else: neither kind of it is found before.
LEMMA EmptyLineOfHead ==
  ASSUME NEW eol \in {CRLF, LF}, NEW lead \in {0, Len(eol)}, NEW h, IsHead(h, lead, eol)
  PROVE  /\ Len(h) \in Nat /\ Len(h) >= 4
         /\ \A j \in 1 .. Len(h) - 3 : IsLongEnd(h, j) => eol = CRLF /\ j + 3 = Len(h)
         /\ \A j \in 1 .. Len(h) - 1 : IsShortEnd(h, j) => eol = LF /\ j + 1 = Len(h)
         /\ eol = CRLF => IsLongEnd(h, Len(h) - 3)
         /\ eol = LF => IsShortEnd(h, Len(h) - 1)
<1> DEFINE c == CRLF[1]
           l == CRLF[2]
           IsToken(x) == x # c /\ x # l
<1>1. /\ Len(CRLF) = 2 /\ Len(LF) = 1 /\ LF[1] = l /\ c # l
      /\ IsToken("-") /\ IsToken("boundary") /\ IsToken("header")
  BY LineEnds
<1>2. CASE eol = CRLF
  <2>0. Len(eol) = 2 /\ eol[1] = c /\ eol[2] = l /\ 1 \in 1 .. Len(eol) /\ 2 \in 1 .. Len(eol)
    BY <1>1, <1>2
  <2>1. /\ Len(h) = lead + 4 + 3 * Len(eol)
        /\ \A i \in 1..lead : h[i] = eol[i]
        /\ h[lead + 1] = "-" /\ h[lead + 2] = "-" /\ h[lead + 3] = "boundary"
        /\ h[lead + 3 + 1] = eol[1] /\ h[lead + 3 + 2] = eol[2]
        /\ h[lead + 4 + Len(eol)] = "header"
        /\ h[lead + 4 + Len(eol) + 1] = eol[1] /\ h[lead + 4 + Len(eol) + 2] = eol[2]
        /\ h[lead + 4 + 2 * Len(eol) + 1] = eol[1] /\ h[lead + 4 + 2 * Len(eol) + 2] = eol[2]
    BY <2>0 DEF IsHead
  <2> HIDE DEF c, l
  <2>2. CASE lead = 0
    <3>1. /\ Len(h) = 10 /\ IsToken(h[1]) /\ IsToken(h[2]) /\ IsToken(h[3]) /\ h[4] = c /\ h[5] = l
          /\ IsToken(h[6]) /\ h[7] = c /\ h[8] = l /\ h[9] = c /\ h[10] = l
      BY <2>0, <2>1, <2>2, <1>1
    <3>2. \A j \in 1..7 : j \in {1, 2, 3, 4, 5, 6, 7}
      OBVIOUS
    <3>3. \A j \in 1..9 : j \in {1, 2, 3, 4, 5, 6, 7, 8, 9}
      OBVIOUS
    <3>4. \A j \in 1..7 : IsLongEnd(h, j) => j = 7
      BY <3>1, <3>2 DEF IsLongEnd, c, l
    <3>5. \A j \in 1..9 : ~IsShortEnd(h, j)
      BY <3>1, <3>3, <1>1 DEF IsShortEnd, c, l
    <3>6. IsLongEnd(h, 7)
      BY <3>1 DEF IsLongEnd, c, l
    <3> QED BY <3>1, <3>4, <3>5, <3>6, <1>1, <1>2
  <2>3. CASE lead # 0
    <3>0. lead = 2 /\ 1 \in 1..lead /\ 2 \in 1..lead
      BY <2>0, <2>3
    <3>1. /\ Len(h) = 12 /\ h[1] = c /\ h[2] = l
          /\ IsToken(h[3]) /\ IsToken(h[4]) /\ IsToken(h[5]) /\ h[6] = c /\ h[7] = l
          /\ IsToken(h[8]) /\ h[9] = c /\ h[10] = l /\ h[11] = c /\ h[12] = l
      BY <2>0, <2>1, <3>0, <1>1
    <3>2. \A j \in 1..9 : j \in {1, 2, 3, 4, 5, 6, 7, 8, 9}
      OBVIOUS
    <3>3. \A j \in 1..11 : j \in {1, 2, 3, 4, 5, 6, 7, 8, 9, 10, 11}
      OBVIOUS
    <3>4. \A j \in 1..9 : IsLongEnd(h, j) => j = 9
      BY <3>1, <3>2 DEF IsLongEnd, c, l
    <3>5. \A j \in 1..11 : ~IsShortEnd(h, j)
      BY <3>1, <3>3, <1>1 DEF IsShortEnd, c, l
    <3>6. IsLongEnd(h, 9)
      BY <3>1 DEF IsLongEnd, c, l
    <3> QED BY <3>1, <3>4, <3>5, <3>6, <1>1, <1>2
  <2> QED BY <2>2, <2>3
<1>3. CASE eol = LF
  <2>0. Len(eol) = 1 /\ eol[1] = l /\ 1 \in 1 .. Len(eol)
    BY <1>1, <1>3
  <2>1. /\ Len(h) = lead + 4 + 3 * Len(eol)
        /\ \A i \in 1..lead : h[i] = eol[i]
        /\ h[lead + 1] = "-" /\ h[lead + 2] = "-" /\ h[lead + 3] = "boundary"
        /\ h[lead + 3 + 1] = eol[1]
        /\ h[lead + 4 + Len(eol)] = "header"
        /\ h[lead + 4 + Len(eol) + 1] = eol[1]
        /\ h[lead + 4 + 2 * Len(eol) + 1] = eol[1]
    BY <2>0 DEF IsHead
  <2> HIDE DEF c, l
  <2>2. CASE lead = 0
    <3>1. /\ Len(h) = 7 /\ IsToken(h[1]) /\ IsToken(h[2]) /\ IsToken(h[3]) /\ h[4] = l
          /\ IsToken(h[5]) /\ h[6] = l /\ h[7] = l
      BY <2>0, <2>1, <2>2, <1>1
    <3>2. \A j \in 1..4 : j \in {1, 2, 3, 4}
      OBVIOUS
    <3>3. \A j \in 1..6 : j \in {1, 2, 3, 4, 5, 6}
      OBVIOUS
    <3>4. \A j \in 1..4 : ~IsLongEnd(h, j)
      BY <3>1, <3>2, <1>1 DEF IsLongEnd, c, l
    <3>5. \A j \in 1..6 : IsShortEnd(h, j) => j = 6
      BY <3>1, <3>3 DEF IsShortEnd, c, l
    <3>6. IsShortEnd(h, 6)
      BY <3>1 DEF IsShortEnd, c, l
    <3> QED BY <3>1, <3>4, <3>5, <3>6, <1>1, <1>3
  <2>3. CASE lead # 0
    <3>0. lead = 1 /\ 1 \in 1..lead
      BY <2>0, <2>3
    <3>1. /\ Len(h) = 8 /\ h[1] = l /\ IsToken(h[2]) /\ IsToken(h[3]) /\ IsToken(h[4]) /\ h[5] = l
          /\ IsToken(h[6]) /\ h[7] = l /\ h[8] = l
      BY <2>0, <2>1, <3>0, <1>1
    <3>2. \A j \in 1..5 : j \in {1, 2, 3, 4, 5}
      OBVIOUS
    <3>3. \A j \in 1..7 : j \in {1, 2, 3, 4, 5, 6, 7}
      OBVIOUS
    <3>4. \A j \in 1..5 : ~IsLongEnd(h, j)
      BY <3>1, <3>2, <1>1 DEF IsLongEnd, c, l
    <3>5. \A j \in 1..7 : IsShortEnd(h, j) => j = 7
      BY <3>1, <3>3 DEF IsShortEnd, c, l
    <3>6. IsShortEnd(h, 7)
      BY <3>1 DEF IsShortEnd, c, l
    <3> QED BY <3>1, <3>4, <3>5, <3>6, <1>1, <1>3
  <2> QED BY <2>2, <2>3
<1> QED
  BY <1>2, <1>3

\* Where a text of four bytes, or of two, is in some data.
LEMMA LongEnds ==
  ASSUME NEW data \in Seq(Byte), NEW i
  PROVE  i \in Occurrences(data, CRLF \o CRLF) <=> i \in 1 .. Len(data) - 3 /\ IsLongEnd(data, i)
<1> DEFINE text == CRLF \o CRLF
<1>1. /\ text \in Seq(Byte) /\ Len(text) = 4
      /\ text[1] = CRLF[1] /\ text[2] = CRLF[2] /\ text[3] = CRLF[1] /\ text[4] = CRLF[2]
  <2>1. CRLF \in Seq(Byte) /\ Len(CRLF) = 2 /\ 1 \in 1 .. Len(CRLF) /\ 2 \in 1 .. Len(CRLF)
    BY LineEnds
  <2>2. /\ text \in Seq(Byte) /\ Len(text) = Len(CRLF) + Len(CRLF)
        /\ \A k \in 1 .. Len(CRLF) : text[k] = CRLF[k]
        /\ \A k \in 1 .. Len(CRLF) : text[Len(CRLF) + k] = CRLF[k]
    <3>1. CRLF \in Seq(Byte)
      BY <2>1
    <3> QED BY <3>1, ConcatElements
  <2> HIDE DEF text
  <2>3. text[1] = CRLF[1] /\ text[2] = CRLF[2] /\ text[2 + 1] = CRLF[1] /\ text[2 + 2] = CRLF[2]
    BY <2>1, <2>2
  <2> QED BY <2>1, <2>2, <2>3
<1> HIDE DEF text
<1>2. ASSUME NEW k \in 1 .. Len(data) - 3
      PROVE  SubSeq(data, k, k + 3) = text <=> IsLongEnd(data, k)
  <2> DEFINE u == SubSeq(data, k, k + 3)
             a == k - 1
  <2>1. a \in Nat /\ a + 1 = k /\ k + 3 \in Int /\ k + 3 <= Len(data) /\ a <= k + 3 /\ k + 3 - a = 4
    OBVIOUS
  <2>2. u \in Seq(Byte) /\ Len(u) = 4 /\ \A x \in 1..4 : u[x] = data[a + x]
    <3> HIDE DEF a
    <3>1. SubSeq(data, a + 1, k + 3) \in Seq(Byte) /\ Len(SubSeq(data, a + 1, k + 3)) = (k + 3) - a
          /\ \A x \in 1 .. (k + 3) - a : SubSeq(data, a + 1, k + 3)[x] = data[a + x]
      BY <2>1, PartOf
    <3> QED BY <2>1, <3>1
  <2> HIDE DEF u
  <2>3. u[1] = data[k] /\ u[2] = data[k + 1] /\ u[3] = data[k + 2] /\ u[4] = data[k + 3]
    <3>1. a + 1 = k /\ a + 2 = k + 1 /\ a + 3 = k + 2 /\ a + 4 = k + 3
      OBVIOUS
    <3> HIDE DEF a
    <3>2. u[1] = data[a + 1] /\ u[2] = data[a + 2] /\ u[3] = data[a + 3] /\ u[4] = data[a + 4]
      BY <2>2
    <3> QED BY <3>1, <3>2
  <2>4. ASSUME u = text PROVE IsLongEnd(data, k)
    BY <2>3, <2>4, <1>1 DEF IsLongEnd
  <2>5. ASSUME IsLongEnd(data, k) PROVE u = text
    <3>1. u[1] = text[1] /\ u[2] = text[2] /\ u[3] = text[3] /\ u[4] = text[4]
      BY <2>3, <2>5, <1>1 DEF IsLongEnd
    <3>2. \A x \in 1..4 : x = 1 \/ x = 2 \/ x = 3 \/ x = 4
      OBVIOUS
    <3>3. \A x \in 1 .. Len(u) : u[x] = text[x]
      BY <2>2, <3>1, <3>2
    <3>4. Len(u) = Len(text)
      BY <2>2, <1>1
    <3> QED BY <2>2, <1>1, <3>3, <3>4, SeqEqual
  <2> QED BY <2>4, <2>5 DEF u
<1>3. Len(data) - Len(text) + 1 = Len(data) - 3 /\ \A k \in Int : k + Len(text) - 1 = k + 3
  BY <1>1
<1>4. Occurrences(data, text) = {k \in 1 .. Len(data) - 3 : SubSeq(data, k, k + 3) = text}
  <2>1. \A k \in 1 .. Len(data) - 3 : k + Len(text) - 1 = k + 3
    BY <1>3
  <2> QED BY <1>3, <2>1 DEF Occurrences
<1> QED
  BY <1>2, <1>4 DEF text

\* Where an empty line of the short kind is in some data.
LEMMA ShortEnds ==
  ASSUME NEW data \in Seq(Byte), NEW i
  PROVE  i \in Occurrences(data, LF \o LF) <=> i \in 1 .. Len(data) - 1 /\ IsShortEnd(data, i)
<1> DEFINE text == LF \o LF
<1>1. text \in Seq(Byte) /\ Len(text) = 2 /\ text[1] = CRLF[2] /\ text[2] = CRLF[2]
  <2>1. LF \in Seq(Byte) /\ Len(LF) = 1 /\ 1 \in 1 .. Len(LF) /\ LF[1] = CRLF[2]
    BY LineEnds
  <2>2. /\ text \in Seq(Byte) /\ Len(text) = Len(LF) + Len(LF)
        /\ \A k \in 1 .. Len(LF) : text[k] = LF[k]
        /\ \A k \in 1 .. Len(LF) : text[Len(LF) + k] = LF[k]
    BY <2>1, ConcatElements
  <2> HIDE DEF text
  <2>3. text[1] = LF[1] /\ text[1 + 1] = LF[1]
    BY <2>1, <2>2
  <2> QED BY <2>1, <2>2, <2>3
<1> HIDE DEF text
<1>2. ASSUME NEW k \in 1 .. Len(data) - 1
      PROVE  SubSeq(data, k, k + 1) = text <=> IsShortEnd(data, k)
  <2> DEFINE u == SubSeq(data, k, k + 1)
             a == k - 1
  <2>1. a \in Nat /\ a + 1 = k /\ k + 1 \in Int /\ k + 1 <= Len(data) /\ a <= k + 1 /\ k + 1 - a = 2
    OBVIOUS
  <2>2. u \in Seq(Byte) /\ Len(u) = 2 /\ \A x \in 1..2 : u[x] = data[a + x]
    <3> HIDE DEF a
    <3>1. SubSeq(data, a + 1, k + 1) \in Seq(Byte) /\ Len(SubSeq(data, a + 1, k + 1)) = (k + 1) - a
          /\ \A x \in 1 .. (k + 1) - a : SubSeq(data, a + 1, k + 1)[x] = data[a + x]
      BY <2>1, PartOf
    <3> QED BY <2>1, <3>1
  <2> HIDE DEF u
  <2>3. u[1] = data[k] /\ u[2] = data[k + 1]
    <3>1. a + 1 = k /\ a + 2 = k + 1
      OBVIOUS
    <3> HIDE DEF a
    <3>2. u[1] = data[a + 1] /\ u[2] = data[a + 2]
      BY <2>2
    <3> QED BY <3>1, <3>2
  <2>4. ASSUME u = text PROVE IsShortEnd(data, k)
    BY <2>3, <2>4, <1>1 DEF IsShortEnd
  <2>5. ASSUME IsShortEnd(data, k) PROVE u = text
    <3>1. u[1] = text[1] /\ u[2] = text[2]
      BY <2>3, <2>5, <1>1 DEF IsShortEnd
    <3>2. \A x \in 1..2 : x = 1 \/ x = 2
      OBVIOUS
    <3>3. \A x \in 1 .. Len(u) : u[x] = text[x]
      BY <2>2, <3>1, <3>2
    <3>4. Len(u) = Len(text)
      BY <2>2, <1>1
    <3> QED BY <2>2, <1>1, <3>3, <3>4, SeqEqual
  <2> QED BY <2>4, <2>5 DEF u
<1>3. Len(data) - Len(text) + 1 = Len(data) - 1 /\ \A k \in Int : k + Len(text) - 1 = k + 1
  BY <1>1
<1>4. Occurrences(data, text) = {k \in 1 .. Len(data) - 1 : SubSeq(data, k, k + 1) = text}
  <2>1. \A k \in 1 .. Len(data) - 1 : k + Len(text) - 1 = k + 1
    BY <1>3
  <2> QED BY <1>3, <2>1 DEF Occurrences
<1> QED
  BY <1>2, <1>4 DEF text

\* A range of a file.
LEMMA SliceProperties ==
  ASSUME NEW bytes \in Seq(Byte), NEW op \in Op
  PROVE  /\ Slice(bytes, op) \in Seq(Byte)
         /\ op.end <= Len(bytes) => Slice(bytes, op) = SubSeq(bytes, op.start + 1, op.end)
<1> DEFINE a == op.start
           b == IF op.end < Len(bytes) THEN op.end ELSE Len(bytes)
<1>1. a \in Nat /\ b \in Int /\ b <= Len(bytes) /\ (op.end <= Len(bytes) => b = op.end)
  BY DEF Op
<1>2. Slice(bytes, op) = SubSeq(bytes, a + 1, b)
  BY DEF Slice
<1> HIDE DEF a, b
<1>3. SubSeq(bytes, a + 1, b) \in Seq(Byte)
  BY <1>1, PartOf
<1> QED
  BY <1>1, <1>2, <1>3 DEF a

\* Ranges of a file.
AreWithin(ranges, bytes) ==
  /\ ranges \in Seq(Op)
  /\ \A k \in 1 .. Len(ranges) : ranges[k].start <= ranges[k].end /\ ranges[k].end <= Len(bytes)

\* In the answer: what part k follows, where its delimiter ends, where its data starts.
PartLengths(ranges, eol) == [k \in DOMAIN ranges |-> Len(PartHead(k - 1, eol)) + Length(ranges[k])]
\* Where part k starts, ...
PartStart(ranges, eol, k) == EndsOf(PartLengths(ranges, eol))[k]
\* ... where its delimiter ends, ...
DelimiterEnd(ranges, eol, k) == PartStart(ranges, eol, k) + LeadOf(k, eol) + 3
\* ... and where its data starts.
DataStart(ranges, eol, k) == PartStart(ranges, eol, k) + Len(PartHead(k, eol))

\* The parts, each with its head.
Parts(bytes, ranges, eol) == [k \in DOMAIN ranges |-> PartHead(k - 1, eol) \o Slice(bytes, ranges[k])]

\* The parts of an answer, and the line end, delimiter, dashes and line end after them.
LEMMA AnswerType ==
  ASSUME NEW bytes \in Seq(Byte), NEW ranges \in Seq(Op), NEW eol \in {CRLF, LF}
  PROVE  /\ Parts(bytes, ranges, eol) \in Seq(Seq(Byte))
         /\ Len(Parts(bytes, ranges, eol)) = Len(ranges)
         /\ FlattenSeq(Parts(bytes, ranges, eol)) \in Seq(Byte)
         /\ AnswerTo(bytes, ranges, eol) \in Seq(Byte)
         /\ Len(AnswerTo(bytes, ranges, eol))
              = Len(FlattenSeq(Parts(bytes, ranges, eol))) + 5 + Len(eol) + Len(eol)
         /\ \A i \in 1 .. Len(FlattenSeq(Parts(bytes, ranges, eol))) :
              AnswerTo(bytes, ranges, eol)[i] = FlattenSeq(Parts(bytes, ranges, eol))[i]
<1> DEFINE parts == Parts(bytes, ranges, eol)
           f == FlattenSeq(parts)
           dashes == <<"-", "-">>
           a == f \o eol
           b == a \o Delimiter
           c == b \o dashes
           d == c \o eol
<1>1. parts \in Seq(Seq(Byte)) /\ Len(parts) = Len(ranges)
  <2>1. DOMAIN ranges = 1 .. Len(ranges) /\ Len(ranges) \in Nat
    OBVIOUS
  <2>2. ASSUME NEW k \in 1 .. Len(ranges)
        PROVE  PartHead(k - 1, eol) \o Slice(bytes, ranges[k]) \in Seq(Byte)
    <3>1. ranges[k] \in Op
      OBVIOUS
    <3>2. Slice(bytes, ranges[k]) \in Seq(Byte)
      BY <3>1, SliceProperties
    <3>3. PartHead(k - 1, eol) \in Seq(Byte)
      BY PartHeadIsHead DEF IsHead
    <3> DEFINE x == PartHead(k - 1, eol)
               y == Slice(bytes, ranges[k])
    <3>4. x \in Seq(Byte) /\ y \in Seq(Byte)
      BY <3>2, <3>3
    <3> HIDE DEF x, y
    <3>5. x \o y \in Seq(Byte)
      BY <3>4, ConcatElements
    <3> QED BY <3>5 DEF x, y
  <2>3. parts \in [1 .. Len(ranges) -> Seq(Byte)]
    BY <2>1, <2>2 DEF Parts
  <2> HIDE DEF parts
  <2> QED BY <2>1, <2>3
<1> HIDE DEF parts
<1>2. f \in Seq(Byte)
  <2> DEFINE ls == [k \in 1 .. Len(parts) |-> Len(parts[k])]
  <2>1. ls \in Seq(Nat) /\ Len(ls) = Len(parts) /\ \A k \in 1 .. Len(parts) : ls[k] = Len(parts[k])
    <3>1. Len(parts) \in Nat /\ \A k \in 1 .. Len(parts) : parts[k] \in Seq(Byte)
      BY <1>1
    <3>2. \A k \in 1 .. Len(parts) : Len(parts[k]) \in Nat
      BY <3>1
    <3>3. ls \in [1 .. Len(parts) -> Nat]
      BY <3>2
    <3> HIDE DEF ls
    <3>4. ls \in Seq(Nat) /\ Len(ls) = Len(parts)
      BY <3>1, <3>3
    <3> QED BY <3>4 DEF ls
  <2> HIDE DEF ls
  <2> QED BY <1>1, <2>1, FlattenProperties
<1>3. eol \in Seq(Byte) /\ Delimiter \in Seq(Byte) /\ Len(Delimiter) = 3
      /\ dashes \in Seq(Byte) /\ Len(dashes) = 2
  <2>1. eol \in Seq(Byte)
    <3>1. CASE eol = CRLF
      BY <3>1, LineEnds
    <3>2. CASE eol = LF
      BY <3>2, LineEnds
    <3> QED BY <3>1, <3>2
  <2> QED BY <2>1, Tokens
<1> HIDE DEF f, dashes
<1>4. a \in Seq(Byte) /\ Len(a) = Len(f) + Len(eol) /\ \A i \in 1 .. Len(f) : a[i] = f[i]
  <2>1. f \in Seq(Byte) /\ eol \in Seq(Byte)
    BY <1>2, <1>3
  <2> QED BY <2>1, ConcatElements
<1> HIDE DEF a
<1>5. b \in Seq(Byte) /\ Len(b) = Len(a) + Len(Delimiter) /\ \A i \in 1 .. Len(a) : b[i] = a[i]
  <2>1. a \in Seq(Byte) /\ Delimiter \in Seq(Byte)
    BY <1>4, <1>3
  <2> QED BY <2>1, ConcatElements
<1> HIDE DEF b
<1>6. c \in Seq(Byte) /\ Len(c) = Len(b) + Len(dashes) /\ \A i \in 1 .. Len(b) : c[i] = b[i]
  <2>1. b \in Seq(Byte) /\ dashes \in Seq(Byte)
    BY <1>5, <1>3
  <2> QED BY <2>1, ConcatElements
<1> HIDE DEF c
<1>7. d \in Seq(Byte) /\ Len(d) = Len(c) + Len(eol) /\ \A i \in 1 .. Len(c) : d[i] = c[i]
  <2>1. c \in Seq(Byte) /\ eol \in Seq(Byte)
    BY <1>6, <1>3
  <2> QED BY <2>1, ConcatElements
<1> HIDE DEF d
<1>8. Len(f) \in Nat /\ Len(eol) \in Nat
  BY <1>2, <1>3
<1>9. /\ Len(a) = Len(f) + Len(eol) /\ Len(b) = Len(f) + Len(eol) + 3
      /\ Len(c) = Len(f) + Len(eol) + 5 /\ Len(d) = Len(f) + 5 + Len(eol) + Len(eol)
  BY <1>3, <1>4, <1>5, <1>6, <1>7, <1>8
<1>10. \A i \in 1 .. Len(f) : d[i] = f[i]
  <2> SUFFICES ASSUME NEW i \in 1 .. Len(f) PROVE d[i] = f[i]
    OBVIOUS
  <2>1. i \in 1 .. Len(a) /\ i \in 1 .. Len(b) /\ i \in 1 .. Len(c)
    BY <1>8, <1>9
  <2> QED BY <2>1, <1>4, <1>5, <1>6, <1>7
<1>11. AnswerTo(bytes, ranges, eol) = d
  BY DEF AnswerTo, Parts, parts, f, a, b, c, d, dashes
<1> QED
  BY <1>1, <1>2, <1>7, <1>9, <1>10, <1>11 DEF f, parts

\* The head of a part ends with its header list.
LEMMA HeadLength ==
  ASSUME NEW eol \in {CRLF, LF}, NEW k \in Nat
  PROVE  /\ Len(eol) \in {1, 2} /\ LeadOf(k, eol) \in {0, Len(eol)}
         /\ PartHead(k, eol) \in Seq(Byte)
         /\ Len(PartHead(k, eol)) = LeadOf(k, eol) + 4 + 3 * Len(eol)
         /\ k # 0 => LeadOf(k, eol) = Len(eol)
         /\ k = 0 => LeadOf(k, eol) = 0
<1>1. Len(eol) \in {1, 2}
  <2>1. CASE eol = CRLF
    BY <2>1, LineEnds
  <2>2. CASE eol = LF
    BY <2>2, LineEnds
  <2> QED BY <2>1, <2>2
<1>2. IsHead(PartHead(k, eol), LeadOf(k, eol), eol)
  BY PartHeadIsHead
<1> QED
  BY <1>1, <1>2 DEF IsHead, LeadOf

\* The places of an answer: its parts follow each other, each with the bytes of its head and of its
\* range, and something follows the last delimiter.
HasParts(bytes, ranges, eol) ==
  /\ AnswerTo(bytes, ranges, eol) \in Seq(Byte) /\ Len(ranges) \in Nat
  /\ PartStart(ranges, eol, 0) = 0
  /\ \A k \in 0 .. Len(ranges) :
       /\ PartStart(ranges, eol, k) \in Nat /\ DelimiterEnd(ranges, eol, k) \in Nat
       /\ PartStart(ranges, eol, k) <= DelimiterEnd(ranges, eol, k)
       /\ DelimiterEnd(ranges, eol, k) < Len(AnswerTo(bytes, ranges, eol))
  /\ \A k \in 0 .. Len(ranges) - 1 :
       /\ DataStart(ranges, eol, k) \in Nat /\ Length(ranges[k + 1]) \in Nat
       /\ DataStart(ranges, eol, k) = DelimiterEnd(ranges, eol, k) + 1 + 3 * Len(eol)
       /\ PartStart(ranges, eol, k + 1) = DataStart(ranges, eol, k) + Length(ranges[k + 1])
  /\ \A k \in 0 .. Len(ranges) - 1 : \A j \in 1 .. Len(PartHead(k, eol)) :
       AnswerTo(bytes, ranges, eol)[PartStart(ranges, eol, k) + j] = PartHead(k, eol)[j]
  /\ \A k \in 0 .. Len(ranges) - 1 : \A j \in 1 .. Length(ranges[k + 1]) :
       AnswerTo(bytes, ranges, eol)[DataStart(ranges, eol, k) + j]
         = bytes[ranges[k + 1].start + j]

\* Every answer to ranges within the file is made so.
LEMMA AnswerHasParts ==
  ASSUME NEW bytes \in Seq(Byte), NEW ranges, AreWithin(ranges, bytes), Len(ranges) # 0,
         NEW eol \in {CRLF, LF}
  PROVE  HasParts(bytes, ranges, eol)
<1> DEFINE n == Len(ranges)
           body == AnswerTo(bytes, ranges, eol)
           parts == Parts(bytes, ranges, eol)
           f == FlattenSeq(parts)
           ls == PartLengths(ranges, eol)
           S(k) == PartStart(ranges, eol, k)
           E(k) == DelimiterEnd(ranges, eol, k)
           D(k) == DataStart(ranges, eol, k)
           H(k) == PartHead(k, eol)
           L(k) == Length(ranges[k + 1])
<1>1. /\ ranges \in Seq(Op) /\ n \in Nat /\ n >= 1 /\ DOMAIN ranges = 1..n
      /\ \A k \in 1..n : ranges[k].start <= ranges[k].end /\ ranges[k].end <= Len(bytes)
  BY DEF AreWithin
<1>2. /\ parts \in Seq(Seq(Byte)) /\ Len(parts) = n /\ f \in Seq(Byte) /\ body \in Seq(Byte)
      /\ Len(body) = Len(f) + 5 + Len(eol) + Len(eol) /\ \A i \in 1 .. Len(f) : body[i] = f[i]
  BY <1>1, AnswerType
<1>3. Len(eol) \in {1, 2}
  BY HeadLength, <1>1
<1>4. ASSUME NEW k \in 0 .. n - 1
      PROVE  /\ L(k) \in Nat /\ Len(H(k)) \in Nat /\ H(k) \in Seq(Byte)
             /\ parts[k + 1] \in Seq(Byte)
             /\ ls[k + 1] = Len(H(k)) + L(k) /\ ls[k + 1] = Len(parts[k + 1])
             /\ \A j \in 1 .. Len(H(k)) : parts[k + 1][j] = H(k)[j]
             /\ \A j \in 1 .. L(k) : parts[k + 1][Len(H(k)) + j] = bytes[ranges[k + 1].start + j]
  <2>1. k + 1 \in 1..n /\ k + 1 - 1 = k /\ k \in Nat
    BY <1>1
  <2> DEFINE op == ranges[k + 1]
             x == H(k)
             y == Slice(bytes, op)
  <2>2. op \in Op /\ op.start <= op.end /\ op.end <= Len(bytes)
    BY <2>1, <1>1
  <2>3. parts[k + 1] = x \o y /\ ls[k + 1] = Len(x) + L(k)
    <3>1. parts[k + 1] = PartHead(k + 1 - 1, eol) \o Slice(bytes, ranges[k + 1])
      BY <1>1, <2>1 DEF Parts
    <3>2. ls[k + 1] = Len(PartHead(k + 1 - 1, eol)) + Length(ranges[k + 1])
      BY <1>1, <2>1 DEF PartLengths
    <3> QED BY <3>1, <3>2, <2>1
  <2>4. x \in Seq(Byte) /\ Len(x) \in Nat
    <3>1. x \in Seq(Byte)
      BY <2>1, HeadLength
    <3> HIDE DEF x
    <3> QED BY <3>1
  <2> HIDE DEF op
  <2>5. op.start \in Nat /\ op.end \in Nat
    BY <2>2 DEF Op
  <2>6. y \in Seq(Byte) /\ Len(y) = op.end - op.start /\ \A j \in 1 .. op.end - op.start : y[j] = bytes[op.start + j]
    <3>1. y = SubSeq(bytes, op.start + 1, op.end)
      BY <2>2, SliceProperties
    <3> DEFINE a == op.start
               b == op.end
    <3>2. a \in Nat /\ b \in Int /\ b <= Len(bytes) /\ a <= b
      BY <2>2, <2>5
    <3> HIDE DEF a, b
    <3>3. SubSeq(bytes, a + 1, b) \in Seq(Byte) /\ Len(SubSeq(bytes, a + 1, b)) = b - a
          /\ \A j \in 1 .. b - a : SubSeq(bytes, a + 1, b)[j] = bytes[a + j]
      BY <3>2, PartOf
    <3> QED BY <3>1, <3>3 DEF a, b
  <2>7. L(k) = op.end - op.start
    BY DEF Length, op
  <2> HIDE DEF x, y
  <2>8. /\ x \o y \in Seq(Byte) /\ Len(x \o y) = Len(x) + Len(y)
        /\ \A j \in 1 .. Len(x) : (x \o y)[j] = x[j]
        /\ \A j \in 1 .. Len(y) : (x \o y)[Len(x) + j] = y[j]
    <3>1. x \in Seq(Byte) /\ y \in Seq(Byte)
      BY <2>4, <2>6
    <3> QED BY <3>1, ConcatElements
  <2> HIDE DEF L, parts, ls
  <2>9. L(k) \in Nat
    BY <2>2, <2>5, <2>7
  <2> QED
    BY <2>3, <2>4, <2>6, <2>7, <2>8, <2>9 DEF x, op
<1>5. ls \in Seq(Nat) /\ Len(ls) = n /\ \A i \in 1..n : ls[i] = Len(parts[i])
  <2>1. \A i \in 1..n : ls[i] \in Nat /\ ls[i] = Len(parts[i])
    <3> SUFFICES ASSUME NEW i \in 1..n PROVE ls[i] \in Nat /\ ls[i] = Len(parts[i])
      OBVIOUS
    <3>1. i - 1 \in 0 .. n - 1 /\ i - 1 + 1 = i
      BY <1>1
    <3> DEFINE k == i - 1
    <3> HIDE DEF L, H, parts, ls, k
    <3>2. ls[k + 1] = Len(H(k)) + L(k) /\ ls[k + 1] = Len(parts[k + 1]) /\ L(k) \in Nat /\ Len(H(k)) \in Nat
      BY <3>1, <1>4 DEF k
    <3> QED BY <3>1, <3>2 DEF k
  <2>2. ls = [i \in 1..n |-> ls[i]]
    BY <1>1 DEF PartLengths
  <2> HIDE DEF ls
  <2>3. ls \in [1..n -> Nat]
    BY <2>1, <2>2
  <2> QED BY <1>1, <2>1, <2>3
<1> HIDE DEF L, H, parts, ls
<1>6. /\ EndsOf(ls) \in [0..n -> Nat] /\ EndsOf(ls)[0] = 0
      /\ \A i \in 1..n : EndsOf(ls)[i] = EndsOf(ls)[i - 1] + ls[i]
  BY <1>5, EndsOfRecursion
<1>7. \A k : S(k) = EndsOf(ls)[k]
  BY DEF PartStart, ls
<1>8. /\ Len(f) = EndsOf(ls)[n]
      /\ \A i \in 1..n : \A j \in 1..ls[i] : f[EndsOf(ls)[i - 1] + j] = parts[i][j]
  BY <1>2, <1>5, FlattenProperties
<1>9. \A k \in 0..n : EndsOf(ls)[k] <= EndsOf(ls)[n]
  <2> SUFFICES ASSUME NEW k \in 0..n PROVE EndsOf(ls)[k] <= EndsOf(ls)[n]
    OBVIOUS
  <2>1. k \in 0 .. Len(ls) /\ n \in k .. Len(ls)
    BY <1>1, <1>5
  <2> QED BY <2>1, <1>5, EndsOfMonotone
<1> HIDE DEF f, body, S
<1>10. \A k \in 0..n : /\ S(k) \in Nat /\ S(k) <= Len(f)
                       /\ E(k) = S(k) + LeadOf(k, eol) + 3 /\ D(k) = S(k) + Len(H(k))
                       /\ LeadOf(k, eol) \in {0, Len(eol)} /\ Len(H(k)) = LeadOf(k, eol) + 4 + 3 * Len(eol)
  <2> SUFFICES ASSUME NEW k \in 0..n
               PROVE /\ S(k) \in Nat /\ S(k) <= Len(f)
                     /\ E(k) = S(k) + LeadOf(k, eol) + 3 /\ D(k) = S(k) + Len(H(k))
                     /\ LeadOf(k, eol) \in {0, Len(eol)} /\ Len(H(k)) = LeadOf(k, eol) + 4 + 3 * Len(eol)
    OBVIOUS
  <2>1. k \in Nat
    BY <1>1
  <2>2. LeadOf(k, eol) \in {0, Len(eol)} /\ Len(H(k)) = LeadOf(k, eol) + 4 + 3 * Len(eol)
    BY <2>1, HeadLength DEF H
  <2>3. S(k) \in Nat /\ S(k) <= Len(f)
    BY <1>6, <1>7, <1>8, <1>9
  <2> QED BY <2>2, <2>3 DEF DelimiterEnd, DataStart, S, H
<1> HIDE DEF E, D
<1>11. ASSUME NEW k \in 0..n PROVE E(k) \in Nat /\ S(k) <= E(k) /\ E(k) < Len(body)
  <2>1. Len(f) \in Nat
    BY <1>2
  <2> DEFINE a == S(k)
             b == LeadOf(k, eol)
             c == Len(eol)
             d == Len(f)
  <2>2. a \in Nat /\ b \in {0, c} /\ c \in {1, 2} /\ d \in Nat /\ a <= d
    BY <1>3, <1>10, <2>1
  <2>3. E(k) = a + b + 3 /\ Len(body) = d + 5 + c + c
    BY <1>2, <1>10
  <2> HIDE DEF a, b, c, d
  <2>4. E(k) \in Nat /\ a <= E(k) /\ E(k) < Len(body)
    BY <2>2, <2>3
  <2> QED BY <2>4 DEF a
<1>12. ASSUME NEW k \in 0 .. n - 1
       PROVE  /\ D(k) \in Nat /\ D(k) = E(k) + 1 + 3 * Len(eol) /\ S(k + 1) = D(k) + L(k)
              /\ \A j \in 1 .. Len(H(k)) : body[S(k) + j] = H(k)[j]
              /\ \A j \in 1 .. L(k) : body[D(k) + j] = bytes[ranges[k + 1].start + j]
  <2>1. k \in 0..n /\ k + 1 \in 0..n /\ k + 1 \in 1..n /\ k + 1 - 1 = k
    BY <1>1
  <2> DEFINE a == S(k)
             h == Len(H(k))
             m == L(k)
             start == ranges[k + 1].start
  <2>2. a \in Nat /\ h \in Nat /\ m \in Nat /\ ls[k + 1] = h + m
    BY <2>1, <1>4, <1>10
  <2>3. S(k + 1) = a + (h + m) /\ S(k + 1) <= Len(f) /\ Len(f) \in Nat
    <3>1. EndsOf(ls)[k + 1] = EndsOf(ls)[k] + ls[k + 1]
      BY <2>1, <1>6
    <3>2. S(k + 1) = S(k) + ls[k + 1]
      BY <3>1, <1>7
    <3>3. S(k + 1) <= Len(f) /\ Len(f) \in Nat
      BY <2>1, <1>2, <1>10
    <3> QED BY <3>2, <3>3, <2>2
  <2>4. D(k) = a + h /\ E(k) = a + LeadOf(k, eol) + 3 /\ h = LeadOf(k, eol) + 4 + 3 * Len(eol)
        /\ LeadOf(k, eol) \in Nat /\ Len(eol) \in Nat
    BY <2>1, <1>3, <1>10, SMTT(30)
  <2>5. \A j \in 1 .. h + m : f[a + j] = parts[k + 1][j]
    <3>1. \A j \in 1..ls[k + 1] : f[EndsOf(ls)[k + 1 - 1] + j] = parts[k + 1][j]
      BY <2>1, <1>8
    <3> QED BY <3>1, <2>1, <2>2, <1>7
  <2>6. /\ \A j \in 1..h : parts[k + 1][j] = H(k)[j]
        /\ \A j \in 1..m : parts[k + 1][h + j] = bytes[start + j]
    BY <1>4
  <2> HIDE DEF a, h, m, start
  <2>7. \A j \in 1 .. h + m : body[a + j] = parts[k + 1][j]
    <3> SUFFICES ASSUME NEW j \in 1 .. h + m PROVE body[a + j] = parts[k + 1][j]
      OBVIOUS
    <3>1. a + j \in 1 .. Len(f)
      BY <2>2, <2>3
    <3> QED BY <3>1, <1>2, <2>5
  <2>8. \A j \in 1..h : body[a + j] = H(k)[j]
    <3> SUFFICES ASSUME NEW j \in 1..h PROVE body[a + j] = H(k)[j]
      OBVIOUS
    <3>1. j \in 1 .. h + m
      BY <2>2
    <3> QED BY <3>1, <2>6, <2>7
  <2>9. \A j \in 1..m : body[D(k) + j] = bytes[start + j]
    <3> SUFFICES ASSUME NEW j \in 1..m PROVE body[D(k) + j] = bytes[start + j]
      OBVIOUS
    <3>0. D(k) = a + h
      BY <2>4
    <3>1. h + j \in 1 .. h + m /\ D(k) + j = a + (h + j)
      BY <2>2, <3>0
    <3> QED BY <3>1, <2>6, <2>7
  <2>10. D(k) \in Nat /\ D(k) = E(k) + 1 + 3 * Len(eol) /\ S(k + 1) = D(k) + m
    <3> DEFINE x == LeadOf(k, eol)
               y == Len(eol)
    <3>1. x \in Nat /\ y \in Nat /\ D(k) = a + h /\ E(k) = a + x + 3 /\ h = x + 4 + 3 * y
      BY <2>4
    <3> HIDE DEF x, y
    <3>2. D(k) \in Nat /\ D(k) = E(k) + 1 + 3 * y
      BY <3>1, <2>2
    <3>3. S(k + 1) = D(k) + m
      BY <3>1, <2>2, <2>3
    <3> QED BY <3>2, <3>3 DEF y
  <2> QED
    BY <2>8, <2>9, <2>10 DEF a, h, m, start
<1>13. S(0) = 0
  BY <1>6, <1>7
<1>14. /\ AnswerTo(bytes, ranges, eol) \in Seq(Byte) /\ Len(ranges) \in Nat
       /\ PartStart(ranges, eol, 0) = 0
       /\ \A k \in 0 .. Len(ranges) :
            /\ PartStart(ranges, eol, k) \in Nat /\ DelimiterEnd(ranges, eol, k) \in Nat
            /\ PartStart(ranges, eol, k) <= DelimiterEnd(ranges, eol, k)
            /\ DelimiterEnd(ranges, eol, k) < Len(AnswerTo(bytes, ranges, eol))
       /\ \A k \in 0 .. Len(ranges) - 1 :
            /\ DataStart(ranges, eol, k) \in Nat /\ Length(ranges[k + 1]) \in Nat
            /\ DataStart(ranges, eol, k) = DelimiterEnd(ranges, eol, k) + 1 + 3 * Len(eol)
            /\ PartStart(ranges, eol, k + 1) = DataStart(ranges, eol, k) + Length(ranges[k + 1])
       /\ \A k \in 0 .. Len(ranges) - 1 : \A j \in 1 .. Len(PartHead(k, eol)) :
            AnswerTo(bytes, ranges, eol)[PartStart(ranges, eol, k) + j] = PartHead(k, eol)[j]
       /\ \A k \in 0 .. Len(ranges) - 1 : \A j \in 1 .. Length(ranges[k + 1]) :
            AnswerTo(bytes, ranges, eol)[DataStart(ranges, eol, k) + j]
              = bytes[ranges[k + 1].start + j]
  BY <1>1, <1>2, <1>4, <1>10, <1>11, <1>12, <1>13 DEF n, body, S, E, D, H, L
<1> QED BY <1>14 DEF HasParts

\* The same, at length.
LEMMA AnswerProperties ==
  ASSUME NEW bytes \in Seq(Byte), NEW ranges, AreWithin(ranges, bytes), Len(ranges) # 0,
         NEW eol \in {CRLF, LF}
  PROVE  /\ AnswerTo(bytes, ranges, eol) \in Seq(Byte) /\ Len(ranges) \in Nat
         /\ PartStart(ranges, eol, 0) = 0
         /\ \A k \in 0 .. Len(ranges) :
              /\ PartStart(ranges, eol, k) \in Nat /\ DelimiterEnd(ranges, eol, k) \in Nat
              /\ PartStart(ranges, eol, k) <= DelimiterEnd(ranges, eol, k)
              /\ DelimiterEnd(ranges, eol, k) < Len(AnswerTo(bytes, ranges, eol))
         /\ \A k \in 0 .. Len(ranges) - 1 :
              /\ DataStart(ranges, eol, k) \in Nat /\ Length(ranges[k + 1]) \in Nat
              /\ DataStart(ranges, eol, k) = DelimiterEnd(ranges, eol, k) + 1 + 3 * Len(eol)
              /\ PartStart(ranges, eol, k + 1) = DataStart(ranges, eol, k) + Length(ranges[k + 1])
         /\ \A k \in 0 .. Len(ranges) - 1 : \A j \in 1 .. Len(PartHead(k, eol)) :
              AnswerTo(bytes, ranges, eol)[PartStart(ranges, eol, k) + j] = PartHead(k, eol)[j]
         /\ \A k \in 0 .. Len(ranges) - 1 : \A j \in 1 .. Length(ranges[k + 1]) :
              AnswerTo(bytes, ranges, eol)[DataStart(ranges, eol, k) + j]
                = bytes[ranges[k + 1].start + j]
<1>1. HasParts(bytes, ranges, eol)
  BY AnswerHasParts
<1> QED BY ONLY <1>1 DEF HasParts

\* The bytes of a head, and those of a part's data, in the answer.
LEMMA HeadBytes ==
  ASSUME NEW bytes \in Seq(Byte), NEW ranges, AreWithin(ranges, bytes), Len(ranges) # 0,
         NEW eol \in {CRLF, LF}, NEW k \in 0 .. Len(ranges) - 1, NEW j \in 1 .. Len(PartHead(k, eol))
  PROVE  AnswerTo(bytes, ranges, eol)[PartStart(ranges, eol, k) + j] = PartHead(k, eol)[j]
<1>1. HasParts(bytes, ranges, eol)
  BY AnswerHasParts
<1> QED BY <1>1 DEF HasParts

\* The bytes of a part's data, in the answer.
LEMMA DataBytes ==
  ASSUME NEW bytes \in Seq(Byte), NEW ranges, AreWithin(ranges, bytes), Len(ranges) # 0,
         NEW eol \in {CRLF, LF}, NEW k \in 0 .. Len(ranges) - 1,
         NEW j \in 1 .. Length(ranges[k + 1])
  PROVE  AnswerTo(bytes, ranges, eol)[DataStart(ranges, eol, k) + j]
           = bytes[ranges[k + 1].start + j]
<1>1. HasParts(bytes, ranges, eol)
  BY AnswerHasParts
<1> QED BY <1>1 DEF HasParts

\* The ends of header lists that a search may find.
LEMMA HeaderListEndsAre ==
  ASSUME NEW data \in Seq(Byte)
  PROVE  /\ \A f \in HeaderListEnds(data) :
              \/ \E i \in 1 .. Len(data) - 3 : IsLongEnd(data, i) /\ f = [end |-> i + 3, eol |-> CRLF]
              \/ \E i \in 1 .. Len(data) - 1 : IsShortEnd(data, i) /\ f = [end |-> i + 1, eol |-> LF]
         /\ \A i \in 1 .. Len(data) - 3 :
              IsLongEnd(data, i) => [end |-> i + 3, eol |-> CRLF] \in HeaderListEnds(data)
         /\ \A i \in 1 .. Len(data) - 1 :
              IsShortEnd(data, i) => [end |-> i + 1, eol |-> LF] \in HeaderListEnds(data)
         /\ \A f \in HeaderListEnds(data) : f.end \in 1 .. Len(data)
<1> DEFINE A == Occurrences(data, CRLF \o CRLF)
           B == Occurrences(data, LF \o LF)
<1>1. \A i : i \in A <=> i \in 1 .. Len(data) - 3 /\ IsLongEnd(data, i)
  BY LongEnds
<1>2. \A i : i \in B <=> i \in 1 .. Len(data) - 1 /\ IsShortEnd(data, i)
  BY ShortEnds
<1>3. HeaderListEnds(data) = {[end |-> i + 3, eol |-> CRLF] : i \in A}
                               \union {[end |-> i + 1, eol |-> LF] : i \in B}
  BY DEF HeaderListEnds
<1> HIDE DEF A, B
<1>4. \A f \in HeaderListEnds(data) :
        \/ \E i \in 1 .. Len(data) - 3 : IsLongEnd(data, i) /\ f = [end |-> i + 3, eol |-> CRLF]
        \/ \E i \in 1 .. Len(data) - 1 : IsShortEnd(data, i) /\ f = [end |-> i + 1, eol |-> LF]
  BY <1>1, <1>2, <1>3
<1>5. \A i \in 1 .. Len(data) - 3 :
        IsLongEnd(data, i) => [end |-> i + 3, eol |-> CRLF] \in HeaderListEnds(data)
  BY <1>1, <1>3
<1>6. \A i \in 1 .. Len(data) - 1 :
        IsShortEnd(data, i) => [end |-> i + 1, eol |-> LF] \in HeaderListEnds(data)
  BY <1>2, <1>3
<1>7. \A f \in HeaderListEnds(data) : f.end \in 1 .. Len(data)
  <2> SUFFICES ASSUME NEW f \in HeaderListEnds(data) PROVE f.end \in 1 .. Len(data)
    OBVIOUS
  <2>1. Len(data) \in Nat
    OBVIOUS
  <2>2. CASE \E i \in 1 .. Len(data) - 3 : f = [end |-> i + 3, eol |-> CRLF]
    BY <2>1, <2>2
  <2>3. CASE \E i \in 1 .. Len(data) - 1 : f = [end |-> i + 1, eol |-> LF]
    BY <2>1, <2>3
  <2> QED BY <1>4, <2>2, <2>3
<1> QED
  BY <1>4, <1>5, <1>6, <1>7

\* A search of the bytes after t, up to q: it finds the end of the head of part k, or nothing yet.
FindsHead(bytes, ranges, eol, k, t, q) ==
  LET ends == HeaderListEnds(SubSeq(AnswerTo(bytes, ranges, eol), t + 1, q))
      found == [end |-> DataStart(ranges, eol, k) - t, eol |-> eol]
  IN /\ q < DataStart(ranges, eol, k) => ends = {}
     /\ q >= DataStart(ranges, eol, k) =>
          ends # {} /\ (CHOOSE e \in ends : \A f \in ends : e.end <= f.end) = found

\* The search of a header list (findHeaderListEnd) that started in a part's head, before its last
\* four bytes, finds the end of that head as soon as the data reaches it, and nothing before.
LEMMA HeaderListIsFound ==
  ASSUME NEW bytes \in Seq(Byte), NEW ranges, AreWithin(ranges, bytes), Len(ranges) # 0,
         NEW eol \in {CRLF, LF}, NEW k \in 0 .. Len(ranges) - 1, NEW t \in Nat, NEW q \in Nat,
         PartStart(ranges, eol, k) <= t, t + 4 <= DataStart(ranges, eol, k),
         t <= q, q <= Len(AnswerTo(bytes, ranges, eol))
  PROVE  FindsHead(bytes, ranges, eol, k, t, q)
<1> DEFINE body == AnswerTo(bytes, ranges, eol)
           data == SubSeq(body, t + 1, q)
           ends == HeaderListEnds(data)
           s == PartStart(ranges, eol, k)
           d == DataStart(ranges, eol, k)
           h == PartHead(k, eol)
           n == Len(h)
           found == [end |-> d - t, eol |-> eol]
<1>1. k \in Nat /\ k \in 0 .. Len(ranges)
  BY DEF AreWithin
<1>2. /\ body \in Seq(Byte) /\ s \in Nat /\ d \in Nat
      /\ \A j \in 1 .. Len(PartHead(k, eol)) : body[s + j] = h[j]
  <2>1. body \in Seq(Byte)
    BY AnswerProperties
  <2>2. s \in Nat
    BY <1>1, AnswerProperties
  <2>3. d \in Nat
    BY AnswerProperties
  <2>4. \A j \in 1 .. Len(PartHead(k, eol)) : body[s + j] = PartHead(k, eol)[j]
    BY HeadBytes
  <2> QED BY <2>1, <2>2, <2>3, <2>4
<1>3. LeadOf(k, eol) \in {0, Len(eol)} /\ IsHead(h, LeadOf(k, eol), eol)
  BY <1>1, HeadLength, PartHeadIsHead
<1>4. /\ n \in Nat /\ n >= 4
      /\ \A j \in 1 .. n - 3 : IsLongEnd(h, j) => eol = CRLF /\ j + 3 = n
      /\ \A j \in 1 .. n - 1 : IsShortEnd(h, j) => eol = LF /\ j + 1 = n
      /\ eol = CRLF => IsLongEnd(h, n - 3)
      /\ eol = LF => IsShortEnd(h, n - 1)
  <2> DEFINE lead == LeadOf(k, eol)
  <2>1. lead \in {0, Len(eol)} /\ IsHead(h, lead, eol)
    BY <1>3
  <2> HIDE DEF lead, h
  <2> QED BY <2>1, EmptyLineOfHead
<1>5. d = s + n
  BY DEF DataStart
<1>6. s <= t /\ t + 4 <= d /\ t <= q /\ q <= Len(body)
  OBVIOUS
<1>7. \A j \in 1..n : body[s + j] = h[j]
  BY <1>2
<1> HIDE DEF body, s, d, h, n
<1>8. data \in Seq(Byte) /\ Len(data) = q - t /\ \A i \in 1 .. q - t : data[i] = body[t + i]
  BY <1>2, <1>6, PartOf
<1> HIDE DEF data
<1>9. \A i \in 1 .. q - t : t + i <= d => t + i - s \in 1..n /\ data[i] = h[t + i - s]
  <2> SUFFICES ASSUME NEW i \in 1 .. q - t, t + i <= d
               PROVE  t + i - s \in 1..n /\ data[i] = h[t + i - s]
    OBVIOUS
  <2>1. t + i - s \in 1..n /\ s + (t + i - s) = t + i
    BY <1>2, <1>4, <1>5, <1>6
  <2> QED BY <2>1, <1>7, <1>8
<1>10. ASSUME NEW f \in ends, t + f.end <= d PROVE f = found
  <2>1. CASE \E i \in 1 .. Len(data) - 3 : IsLongEnd(data, i) /\ f = [end |-> i + 3, eol |-> CRLF]
    <3>1. PICK i \in 1 .. Len(data) - 3 : IsLongEnd(data, i) /\ f = [end |-> i + 3, eol |-> CRLF]
      BY <2>1
    <3>2. i \in Int /\ f.end = i + 3 /\ t + (i + 3) <= d
      BY <1>10, <3>1
    <3>3. /\ i \in 1 .. q - t /\ i + 1 \in 1 .. q - t /\ i + 2 \in 1 .. q - t /\ i + 3 \in 1 .. q - t
          /\ t + i <= d /\ t + (i + 1) <= d /\ t + (i + 2) <= d
      <4>1. i \in 1 .. q - t - 3
        BY <1>8
      <4> QED BY <4>1, <3>2, <1>2
    <3> DEFINE j == t + i - s
    <3>4. t + (i + 1) - s = j + 1 /\ t + (i + 2) - s = j + 2 /\ t + (i + 3) - s = j + 3
      BY <1>2, <3>2
    <3>5. j \in 1..n /\ data[i] = h[j]
      BY <1>9, <3>3
    <3> HIDE DEF j
    <3>6. data[i + 1] = h[j + 1]
      <4> DEFINE m == i + 1
      <4>1. m \in 1 .. q - t /\ t + m <= d /\ t + m - s = j + 1
        BY ONLY <3>3, <3>4
      <4> HIDE DEF m
      <4>2. data[m] = h[j + 1]
        BY ONLY <1>9, <4>1
      <4> QED BY ONLY <4>2 DEF m
    <3>7. data[i + 2] = h[j + 2]
      <4> DEFINE m == i + 2
      <4>1. m \in 1 .. q - t /\ t + m <= d /\ t + m - s = j + 2
        BY ONLY <3>3, <3>4
      <4> HIDE DEF m
      <4>2. data[m] = h[j + 2]
        BY ONLY <1>9, <4>1
      <4> QED BY ONLY <4>2 DEF m
    <3>8. data[i + 3] = h[j + 3] /\ j + 3 \in 1..n
      <4> DEFINE m == i + 3
      <4>1. m \in 1 .. q - t /\ t + m <= d /\ t + m - s = j + 3
        BY ONLY <3>2, <3>3, <3>4
      <4> HIDE DEF m
      <4>2. data[m] = h[j + 3] /\ j + 3 \in 1..n
        BY ONLY <1>9, <4>1
      <4> QED BY ONLY <4>2 DEF m
    <3>9. IsLongEnd(h, j) /\ j \in 1 .. n - 3
      <4>1. j \in Int /\ n \in Int /\ j \in 1..n /\ j + 3 \in 1..n
        BY <3>5, <3>8, <1>4
      <4>2. j \in 1 .. n - 3
        BY ONLY <4>1
      <4>3. IsLongEnd(data, i)
        BY <3>1
      <4>4. IsLongEnd(h, j)
        BY ONLY <4>3, <3>5, <3>6, <3>7, <3>8 DEF IsLongEnd
      <4> QED BY <4>2, <4>4
    <3>10. eol = CRLF /\ j + 3 = n
      BY <3>9, <1>4
    <3>11. i + 3 = d - t
      BY <3>4, <3>10, <1>5, <1>2, <3>2, SMTT(30)
    <3> QED BY <3>1, <3>10, <3>11
  <2>2. CASE \E i \in 1 .. Len(data) - 1 : IsShortEnd(data, i) /\ f = [end |-> i + 1, eol |-> LF]
    <3>1. PICK i \in 1 .. Len(data) - 1 : IsShortEnd(data, i) /\ f = [end |-> i + 1, eol |-> LF]
      BY <2>2
    <3>2. i \in Int /\ f.end = i + 1 /\ t + (i + 1) <= d
      BY <1>10, <3>1
    <3>3. /\ i \in 1 .. q - t /\ i + 1 \in 1 .. q - t /\ t + i <= d
      <4>1. i \in 1 .. q - t - 1
        BY <1>8
      <4> QED BY <4>1, <3>2, <1>2, SMTT(30)
    <3> DEFINE j == t + i - s
    <3>4. t + (i + 1) - s = j + 1
      BY <1>2, <3>2
    <3>5. j \in 1..n /\ data[i] = h[j]
      BY <1>9, <3>3
    <3> HIDE DEF j
    <3>6. data[i + 1] = h[j + 1] /\ j + 1 \in 1..n
      <4> DEFINE m == i + 1
      <4>1. m \in 1 .. q - t /\ t + m <= d /\ t + m - s = j + 1
        BY ONLY <3>2, <3>3, <3>4
      <4> HIDE DEF m
      <4>2. data[m] = h[j + 1] /\ j + 1 \in 1..n
        BY ONLY <1>9, <4>1
      <4> QED BY ONLY <4>2 DEF m
    <3>9. IsShortEnd(h, j) /\ j \in 1 .. n - 1
      BY <3>1, <3>5, <3>6, <1>4 DEF IsShortEnd
    <3>10. eol = LF /\ j + 1 = n
      BY <3>9, <1>4
    <3>11. i + 1 = d - t
      BY <3>4, <3>10, <1>5, <1>2, <3>2
    <3> QED BY <3>1, <3>10, <3>11
  <2> QED BY <1>8, <2>1, <2>2, HeaderListEndsAre
<1>11. \A f \in ends : f.end \in 1 .. q - t
  BY <1>8, HeaderListEndsAre
<1>12. ASSUME q < d PROVE ends = {}
  <2> SUFFICES ASSUME NEW f \in ends PROVE FALSE
    OBVIOUS
  <2>1. f.end \in 1 .. q - t
    BY <1>11
  <2> HIDE DEF ends
  <2>2. t + f.end <= d
    BY <2>1, <1>2, <1>12
  <2>3. f = found
    BY <2>2, <1>10
  <2>4. f.end = d - t
    BY <2>3
  <2> QED BY <2>1, <2>4, <1>2, <1>12
<1>13. ASSUME q >= d PROVE found \in ends
  <2>1. CASE eol = CRLF
    <3> DEFINE i == d - t - 3
               j == n - 3
    <3>1. /\ i \in 1 .. Len(data) - 3 /\ i \in Int /\ i + 3 = d - t
          /\ i \in 1 .. q - t /\ i + 1 \in 1 .. q - t /\ i + 2 \in 1 .. q - t /\ i + 3 \in 1 .. q - t
          /\ t + i <= d /\ t + (i + 1) <= d /\ t + (i + 2) <= d /\ t + (i + 3) <= d
          /\ t + i - s = j /\ t + (i + 1) - s = j + 1 /\ t + (i + 2) - s = j + 2 /\ t + (i + 3) - s = j + 3
      BY <1>2, <1>4, <1>5, <1>6, <1>8, <1>13
    <3> HIDE DEF i
    <3>2. IsLongEnd(h, j)
      BY <1>4, <2>1
    <3> HIDE DEF j
    <3>3. data[i] = h[j] /\ data[i + 1] = h[j + 1]
      BY <3>1, <1>9
    <3>4. data[i + 2] = h[j + 2] /\ data[i + 3] = h[j + 3]
      BY <3>1, <1>9
    <3>5. IsLongEnd(data, i)
      BY <3>2, <3>3, <3>4 DEF IsLongEnd
    <3>6. [end |-> i + 3, eol |-> CRLF] \in ends
      BY <3>1, <3>5, <1>8, HeaderListEndsAre
    <3> QED BY <2>1, <3>1, <3>6
  <2>2. CASE eol = LF
    <3> DEFINE i == d - t - 1
               j == n - 1
    <3>1. /\ i \in 1 .. Len(data) - 1 /\ i \in Int /\ i + 1 = d - t
          /\ i \in 1 .. q - t /\ i + 1 \in 1 .. q - t
          /\ t + i <= d /\ t + (i + 1) <= d
          /\ t + i - s = j /\ t + (i + 1) - s = j + 1
      BY <1>2, <1>4, <1>5, <1>6, <1>8, <1>13
    <3> HIDE DEF i
    <3>2. IsShortEnd(h, j)
      BY <1>4, <2>2
    <3> HIDE DEF j
    <3>3. data[i] = h[j] /\ data[i + 1] = h[j + 1]
      BY <3>1, <1>9
    <3>5. IsShortEnd(data, i)
      BY <3>2, <3>3 DEF IsShortEnd
    <3>6. [end |-> i + 1, eol |-> LF] \in ends
      BY <3>1, <3>5, <1>8, HeaderListEndsAre
    <3> QED BY <2>2, <3>1, <3>6
  <2> QED BY <2>1, <2>2
<1>14. ASSUME q >= d PROVE (CHOOSE e \in ends : \A f \in ends : e.end <= f.end) = found
  <2> DEFINE IsFirst(e) == \A f \in ends : e.end <= f.end
  <2>1. found \in ends /\ found.end = d - t
    BY <1>13, <1>14
  <2>2. \A f \in ends : f.end \in Int
    BY <1>11
  <2>3. \A f \in ends : f.end >= d - t
    <3> SUFFICES ASSUME NEW f \in ends, f.end < d - t PROVE FALSE
      BY <2>2, <1>2
    <3> HIDE DEF ends
    <3>1. t + f.end <= d
      BY <2>2, <1>2
    <3>2. f = found
      BY <3>1, <1>10
    <3>3. f.end = d - t
      BY <3>2
    <3> QED BY <3>3, <1>2
  <2>4. IsFirst(found)
    BY <2>1, <2>2, <2>3, <1>2
  <2>5. ASSUME NEW e \in ends, IsFirst(e) PROVE e = found
    <3> HIDE DEF ends, found
    <3>1. e.end <= found.end
      BY <2>1, <2>5
    <3>2. t + e.end <= d
      BY <3>1, <2>1, <2>2, <1>2
    <3> QED BY <3>2, <1>10
  <2> HIDE DEF ends, found, IsFirst
  <2>6. (CHOOSE e \in ends : IsFirst(e)) = found
    BY <2>1, <2>4, <2>5, Zenon
  <2> QED BY <2>6 DEF IsFirst
<1> QED
  BY <1>12, <1>13, <1>14 DEF data, body, d, FindsHead

----------------------------------------------------------------------------
(* The splitter in step with the answer (DataSplitter.ts), however the answer is*)
(* cut into chunks.  The variables chunk and response are seen and rest here.*)

\* The lesser and the greater of two numbers.
LEMMA MinOfTwo ==
  ASSUME NEW a \in Nat, NEW b \in Nat
  PROVE  Min({a, b}) = IF a <= b THEN a ELSE b
<1> DEFINE m == IF a <= b THEN a ELSE b
<1>1. m \in {a, b} /\ \A y \in {a, b} : m <= y
  OBVIOUS
<1>2. \A x \in {a, b} : (\A y \in {a, b} : x <= y) => x = m
  OBVIOUS
<1> HIDE DEF m
<1>3. (CHOOSE x \in {a, b} : \A y \in {a, b} : x <= y) = m
  BY <1>1, <1>2, Zenon
<1> QED
  BY <1>3 DEF Min, m

\* The greater of two numbers.
LEMMA MaxOfTwo ==
  ASSUME NEW a \in Int, NEW b \in Int
  PROVE  Max({a, b}) = IF a >= b THEN a ELSE b
<1> DEFINE m == IF a >= b THEN a ELSE b
<1>1. m \in {a, b} /\ \A y \in {a, b} : m >= y
  OBVIOUS
<1>2. \A x \in {a, b} : (\A y \in {a, b} : x >= y) => x = m
  OBVIOUS
<1> HIDE DEF m
<1>3. (CHOOSE x \in {a, b} : \A y \in {a, b} : x >= y) = m
  BY <1>1, <1>2, Zenon
<1> QED
  BY <1>3 DEF Max, m

\* What the state of a splitter may be.
Splitters ==
  [part : Int, at : {"none", "idle", "part", "copies", "header", "body"}, isHeader : BOOLEAN,
   ignore : Nat, remaining : Nat, tail : Seq(Byte), boundaryLength : Nat, actual : Nat]

\* Where the splitter may be in an answer of n parts, and what it may have left to do there.
IsControlled(n, s) ==
  /\ s \in Splitters /\ s.at # "none"
  /\ s.at # "idle" => s.ignore = 0 /\ s.remaining = 0
  /\ s.ignore = 0 \/ s.remaining = 0
  /\ s.isHeader => s.at \in {"idle", "header"} /\ s.part # -1 /\ s.ignore = 0 /\ s.remaining = 0
  /\ s.at \in {"idle", "part"} => s.part \in -1 .. n - 1
  /\ s.at = "copies" => s.part \in 0..n
  /\ s.at \in {"header", "body"} => s.part \in 0 .. n - 1
  /\ s.part = -1 => s.remaining = 0

\* An answer, taken apart: the first p bytes are handled, but for those after t, which are kept for
\* the search of a header list; the bytes up to q are in the chunk, the others to come.
IsCut(body, tail, seen, rest, t, p, q) ==
  /\ t \in Nat /\ p \in Nat /\ q \in Nat /\ t <= p /\ p <= q /\ q <= Len(body)
  /\ tail = SubSeq(body, t + 1, p)
  /\ seen = SubSeq(body, p + 1, q)
  /\ rest = SubSeq(body, q + 1, Len(body))

\* Up to the end of the delimiter before part k.
IsByDelimiter(ranges, eol, k, p) ==
  PartStart(ranges, eol, k) <= p /\ p <= DelimiterEnd(ranges, eol, k)

\* In the head of part k: the search starts before the line end that ends it.
IsInHead(ranges, eol, k, t, p) ==
  PartStart(ranges, eol, k) <= t /\ t + 4 <= DataStart(ranges, eol, k) /\ p < DataStart(ranges, eol, k)

\* Where each phase of the splitter is in the answer.
IsAt(ranges, eol, s, t, p, q) ==
  /\ s.isHeader \/ t = p
  /\ s.at = "idle" => p = q
  /\ s.at = "header" \/ s.isHeader => IsInHead(ranges, eol, s.part, t, p)
  /\ s.at = "copies" => IsByDelimiter(ranges, eol, s.part, p)
  /\ s.at = "part" => IsByDelimiter(ranges, eol, s.part + 1, p)
  /\ s.at = "body" => p = DataStart(ranges, eol, s.part) /\ s.boundaryLength = Len(eol) + 3
  /\ s.at = "idle" /\ ~s.isHeader /\ s.remaining > 0 =>
       p + s.remaining = PartStart(ranges, eol, s.part + 1)
  /\ s.at = "idle" /\ ~s.isHeader /\ s.remaining = 0 =>
       /\ PartStart(ranges, eol, s.part + 1) <= p
       /\ p + s.ignore <= DelimiterEnd(ranges, eol, s.part + 1)

\* The splitter, the chunk and what is to come are in step with the answer to these ranges.
IsStreamOf(bytes, ranges, eol, s, seen, rest) ==
  \E t, p, q : /\ IsCut(AnswerTo(bytes, ranges, eol), s.tail, seen, rest, t, p, q)
               /\ IsAt(ranges, eol, s, t, p, q)

\* The splitter is in step with the answer to these ranges, with one kind of line ends or the other.
IsStream(bytes, ranges, s, seen, rest) ==
  \E eol \in {CRLF, LF} : IsStreamOf(bytes, ranges, eol, s, seen, rest)

\* Ranges to split an answer into.
AreRanges(bytes, ranges) == bytes \in Seq(Byte) /\ AreWithin(ranges, bytes) /\ Len(ranges) # 0

\* What a search looks at is a part of the answer.
IsSearched(body, tail, seen, t, q) == tail \o seen = SubSeq(body, t + 1, q)

\* The parts of a cut.
LEMMA CutLengths ==
  ASSUME NEW body \in Seq(Byte), NEW tail, NEW seen, NEW rest, NEW t, NEW p, NEW q,
         IsCut(body, tail, seen, rest, t, p, q)
  PROVE  /\ tail \in Seq(Byte) /\ Len(tail) = p - t
         /\ seen \in Seq(Byte) /\ Len(seen) = q - p
         /\ rest \in Seq(Byte) /\ Len(rest) = Len(body) - q
         /\ IsSearched(body, tail, seen, t, q)
<1> DEFINE n == Len(body)
<1>1. /\ t \in Nat /\ p \in Nat /\ q \in Nat /\ n \in Nat /\ t <= p /\ p <= q /\ q <= n /\ p <= n
      /\ tail = SubSeq(body, t + 1, p) /\ seen = SubSeq(body, p + 1, q)
      /\ rest = SubSeq(body, q + 1, n)
  BY DEF IsCut
<1>2. SubSeq(body, t + 1, p) \in Seq(Byte) /\ Len(SubSeq(body, t + 1, p)) = p - t
  BY <1>1, PartOf
<1>3. SubSeq(body, p + 1, q) \in Seq(Byte) /\ Len(SubSeq(body, p + 1, q)) = q - p
  BY <1>1, PartOf
<1>4. SubSeq(body, q + 1, n) \in Seq(Byte) /\ Len(SubSeq(body, q + 1, n)) = n - q
  <2>1. n <= Len(body)
    BY <1>1
  <2> HIDE DEF n
  <2> QED BY <1>1, <2>1, PartOf
<1>5. SubSeq(body, t + 1, p) \o SubSeq(body, p + 1, q) = SubSeq(body, t + 1, q)
  <2>1. p \in t .. Len(body) /\ q \in p .. Len(body)
    BY <1>1
  <2> QED BY <1>1, <2>1, PartAndNext
<1> QED
  BY <1>1, <1>2, <1>3, <1>4, <1>5 DEF IsSearched

\* A new answer: its first delimiter is still to be skipped.
LEMMA StreamStarts ==
  ASSUME NEW bytes, NEW ranges, AreRanges(bytes, ranges), NEW eol \in {CRLF, LF}
  PROVE  IsStream(bytes, ranges, NewSplitter, <<>>, AnswerTo(bytes, ranges, eol))
<1> DEFINE body == AnswerTo(bytes, ranges, eol)
           s == NewSplitter
<1>1. body \in Seq(Byte) /\ Len(body) \in Nat /\ PartStart(ranges, eol, 0) = 0
  BY AnswerProperties DEF AreRanges
<1>2. DelimiterEnd(ranges, eol, 0) = 3
  BY <1>1 DEF DelimiterEnd, LeadOf
<1>3. /\ s.tail = <<>> /\ ~s.isHeader /\ s.at = "idle" /\ s.part = -1 /\ s.remaining = 0 /\ s.ignore = 3
  BY DEF NewSplitter, NoSplitter, BoundaryTextLength
<1> HIDE DEF s
<1>4. IsAt(ranges, eol, s, 0, 0, 0)
  <2>1. s.part + 1 = 0
    BY <1>3
  <2> QED BY <1>1, <1>2, <1>3, <2>1 DEF IsAt
<1>5. IsCut(body, s.tail, <<>>, body, 0, 0, 0)
  <2> HIDE DEF body
  <2>1. SubSeq(body, 0 + 1, 0) = <<>>
    BY SubSeqEmpty
  <2>2. SubSeq(body, 0 + 1, Len(body)) = body
    BY <1>1, SubSeqFull
  <2> QED BY <1>1, <1>3, <2>1, <2>2 DEF IsCut
<1>6. IsStreamOf(bytes, ranges, eol, s, <<>>, body)
  BY <1>4, <1>5 DEF IsStreamOf
<1> QED
  BY <1>6 DEF IsStream, s

\* Bytes of a part's data, as they are in the answer, are bytes of its range.
IsDataOf(bytes, ranges, eol, k, a, b) ==
  SubSeq(AnswerTo(bytes, ranges, eol), DataStart(ranges, eol, k) + a + 1, DataStart(ranges, eol, k) + b)
    = SubSeq(bytes, ranges[k + 1].start + a + 1, ranges[k + 1].start + b)

\* So they are, everywhere in the data.
LEMMA DataOfPart ==
  ASSUME NEW bytes, NEW ranges, AreRanges(bytes, ranges), NEW eol \in {CRLF, LF},
         NEW k \in 0 .. Len(ranges) - 1, NEW a \in Nat, NEW b \in Nat, a <= b,
         b <= Length(ranges[k + 1])
  PROVE  IsDataOf(bytes, ranges, eol, k, a, b)
<1> DEFINE body == AnswerTo(bytes, ranges, eol)
           d == DataStart(ranges, eol, k)
           l == Length(ranges[k + 1])
           f == ranges[k + 1].start
<1>1. /\ bytes \in Seq(Byte) /\ body \in Seq(Byte) /\ Len(ranges) \in Nat /\ Len(bytes) \in Nat
      /\ Len(body) \in Nat
  BY AnswerProperties DEF AreRanges
<1>2. d \in Nat /\ l \in Nat /\ PartStart(ranges, eol, k + 1) = d + l
  BY AnswerProperties DEF AreRanges
<1>3. k + 1 \in 0 .. Len(ranges) /\ k + 1 \in 1 .. Len(ranges)
  BY <1>1
<1>4. PartStart(ranges, eol, k + 1) < Len(body)
  <2>1. /\ PartStart(ranges, eol, k + 1) \in Nat /\ DelimiterEnd(ranges, eol, k + 1) \in Nat
        /\ PartStart(ranges, eol, k + 1) <= DelimiterEnd(ranges, eol, k + 1)
        /\ DelimiterEnd(ranges, eol, k + 1) < Len(AnswerTo(bytes, ranges, eol))
    BY <1>3, AnswerProperties DEF AreRanges
  <2> QED BY <2>1, <1>1
<1>5. f \in Nat /\ f + l <= Len(bytes)
  <2>1. ranges[k + 1] \in Op /\ ranges[k + 1].end <= Len(bytes)
    BY <1>3 DEF AreRanges, AreWithin
  <2> QED BY <2>1 DEF Op, Length
<1>6. \A j \in 1..l : body[d + j] = bytes[f + j]
  BY DataBytes DEF AreRanges
<1> HIDE DEF body, d, l, f
<1>7. /\ d + a \in Nat /\ d + b \in Int /\ d + b <= Len(body) /\ d + a <= d + b /\ (d + b) - (d + a) = b - a
      /\ f + a \in Nat /\ f + b \in Int /\ f + b <= Len(bytes) /\ f + a <= f + b /\ (f + b) - (f + a) = b - a
  BY <1>1, <1>2, <1>4, <1>5 DEF l
<1> DEFINE x == SubSeq(body, d + a + 1, d + b)
           y == SubSeq(bytes, f + a + 1, f + b)
<1>8. x \in Seq(Byte) /\ Len(x) = b - a /\ \A i \in 1 .. b - a : x[i] = body[(d + a) + i]
  <2> DEFINE m == d + a
             n == d + b
  <2>1. m \in Nat /\ n \in Int /\ n <= Len(body) /\ m <= n /\ n - m = b - a
    BY <1>7
  <2> HIDE DEF m, n
  <2>2. /\ SubSeq(body, m + 1, n) \in Seq(Byte) /\ Len(SubSeq(body, m + 1, n)) = n - m
        /\ \A i \in 1 .. n - m : SubSeq(body, m + 1, n)[i] = body[m + i]
    BY <1>1, <2>1, PartOf
  <2> QED BY <2>1, <2>2 DEF m, n
<1>9. y \in Seq(Byte) /\ Len(y) = b - a /\ \A i \in 1 .. b - a : y[i] = bytes[(f + a) + i]
  <2> DEFINE m == f + a
             n == f + b
  <2>1. m \in Nat /\ n \in Int /\ n <= Len(bytes) /\ m <= n /\ n - m = b - a
    BY <1>7
  <2> HIDE DEF m, n
  <2>2. /\ SubSeq(bytes, m + 1, n) \in Seq(Byte) /\ Len(SubSeq(bytes, m + 1, n)) = n - m
        /\ \A i \in 1 .. n - m : SubSeq(bytes, m + 1, n)[i] = bytes[m + i]
    BY <1>1, <2>1, PartOf
  <2> QED BY <2>1, <2>2 DEF m, n
<1> HIDE DEF x, y
<1>10. \A i \in 1 .. b - a : x[i] = y[i]
  <2> SUFFICES ASSUME NEW i \in 1 .. b - a PROVE x[i] = y[i]
    OBVIOUS
  <2>1. a + i \in 1..l /\ d + (a + i) = (d + a) + i /\ f + (a + i) = (f + a) + i
    BY <1>2, <1>5 DEF l
  <2>2. body[d + (a + i)] = bytes[f + (a + i)]
    BY <2>1, <1>6
  <2> QED BY <2>1, <2>2, <1>8, <1>9
<1>11. x = y
  BY <1>8, <1>9, <1>10, SeqEqual
<1> QED
  BY <1>11 DEF x, y, body, d, f, IsDataOf

\* What handleData sees of the next chunk: the bytes that were waited for are taken from its start.
LEMMA ChunkCut ==
  ASSUME NEW body \in Seq(Byte), NEW tail, NEW seen, NEW rest, NEW t, NEW q,
         IsCut(body, tail, seen, rest, t, q, q),
         NEW n \in 1 .. Len(rest), NEW taken \in 0..n, taken = 0 \/ t = q
  PROVE  LET u == IF taken = 0 THEN t ELSE q + taken
         IN IsCut(body, IF taken = 0 THEN tail ELSE <<>>, SubSeq(rest, taken + 1, n),
                  SubSeq(rest, n + 1, Len(rest)), u, q + taken, q + n)
<1> DEFINE m == Len(body)
           u == IF taken = 0 THEN t ELSE q + taken
           p2 == q + taken
           q2 == q + n
<1>1. /\ t \in Nat /\ q \in Nat /\ m \in Nat /\ t <= q /\ q <= m
      /\ rest = SubSeq(body, q + 1, m) /\ Len(rest) = m - q /\ tail = SubSeq(body, t + 1, q)
  BY CutLengths DEF IsCut
<1>2. n \in Nat /\ taken \in Nat /\ n <= m - q /\ taken <= n
  BY <1>1
<1>3. SubSeq(rest, taken + 1, n) = SubSeq(body, q + taken + 1, q + n)
  <2>1. q \in Nat /\ m \in q .. Len(body) /\ taken \in Nat /\ n \in Nat /\ n <= m - q
    BY <1>1, <1>2
  <2> HIDE DEF m
  <2> QED BY <1>1, <2>1, PartOfPart
<1>4. SubSeq(rest, n + 1, Len(rest)) = SubSeq(body, q + n + 1, m)
  <2> DEFINE j == m - q
  <2>1. q \in Nat /\ m \in q .. Len(body) /\ n \in Nat /\ j \in Nat /\ j <= m - q /\ q + j = m
    BY <1>1, <1>2
  <2> HIDE DEF m, j
  <2>2. SubSeq(SubSeq(body, q + 1, m), n + 1, j) = SubSeq(body, q + n + 1, q + j)
    BY <2>1, PartOfPart
  <2>3. Len(rest) = j
    BY <1>1 DEF j
  <2> QED BY <1>1, <2>1, <2>2, <2>3
<1>5. /\ u \in Nat /\ p2 \in Nat /\ q2 \in Nat /\ u <= p2 /\ p2 <= q2 /\ q2 <= m
  BY <1>1, <1>2
<1>6. (IF taken = 0 THEN tail ELSE <<>>) = SubSeq(body, u + 1, p2)
  <2>1. CASE taken = 0
    <3>1. u = t /\ p2 = q
      BY <2>1, <1>1
    <3> QED BY <3>1, <2>1, <1>1
  <2>2. CASE taken # 0
    <3>1. u = p2 /\ p2 + 1 \in Int /\ p2 \in Int /\ p2 < p2 + 1
      BY <2>2, <1>5
    <3> HIDE DEF p2, u
    <3>2. SubSeq(body, p2 + 1, p2) = <<>>
      BY <3>1, SubSeqEmpty
    <3> QED BY <2>2, <3>1, <3>2
  <2> QED BY <2>1, <2>2
<1> QED
  BY <1>3, <1>4, <1>5, <1>6 DEF IsCut

\* The same for the splitter: it goes on in step.
LEMMA ChunkReceived ==
  ASSUME NEW bytes, NEW ranges, AreRanges(bytes, ranges), NEW s, IsControlled(Len(ranges), s),
         NEW eol \in {CRLF, LF}, NEW tail, NEW seen, NEW rest,
         NEW t, NEW p, NEW q,
         IsCut(AnswerTo(bytes, ranges, eol), s.tail, seen, rest, t, p, q),
         IsAt(ranges, eol, s, t, p, q), s.at = "idle",
         NEW n \in 1 .. Len(rest), NEW taken, taken = Min({n, s.ignore + s.remaining}),
         NEW s2, s2.part = s.part, s2.isHeader = s.isHeader, s2.tail = s.tail,
         s2.ignore = IF s.ignore = 0 /\ s.remaining > 0 THEN s.ignore ELSE s.ignore - taken,
         s2.remaining = IF s.ignore = 0 /\ s.remaining > 0 THEN s.remaining - taken ELSE s.remaining,
         s2.at = IF taken = n THEN "idle" ELSE IF s.isHeader THEN "header" ELSE "part"
  PROVE  IsStreamOf(bytes, ranges, eol, s2, SubSeq(rest, taken + 1, n),
                  SubSeq(rest, n + 1, Len(rest)))
<1> DEFINE body == AnswerTo(bytes, ranges, eol)
<1>1. body \in Seq(Byte) /\ Len(ranges) \in Nat
  BY AnswerProperties DEF AreRanges
<1>2. /\ t \in Nat /\ p \in Nat /\ q \in Nat /\ t <= p /\ p <= q /\ p = q /\ q <= Len(body)
      /\ Len(rest) = Len(body) - q
  <2>1. Len(rest) = Len(body) - q
    BY <1>1, CutLengths
  <2> QED BY <2>1 DEF IsCut, IsAt
<1>3. s.ignore \in Nat /\ s.remaining \in Nat /\ s.part \in Int /\ s.isHeader \in BOOLEAN
      /\ (s.ignore = 0 \/ s.remaining = 0) /\ (s.isHeader => s.ignore = 0 /\ s.remaining = 0)
      /\ s.part \in -1 .. Len(ranges) - 1
  BY DEF IsControlled, Splitters
<1>4. n \in Nat /\ n > 0
  BY <1>1, <1>2
<1>5. taken = IF n <= s.ignore + s.remaining THEN n ELSE s.ignore + s.remaining
  <2>1. s.ignore + s.remaining \in Nat
    BY <1>3
  <2> QED BY <1>4, <2>1, MinOfTwo
<1> HIDE DEF body
<1>6. taken \in 0..n /\ taken \in Nat
  BY <1>3, <1>4, <1>5
<1>7. taken = 0 \/ t = q
  <2>1. CASE s.isHeader
    BY <2>1, <1>3, <1>4, <1>5
  <2>2. CASE ~s.isHeader
    BY <2>2, <1>2 DEF IsAt
  <2> QED BY <2>1, <2>2
<1> DEFINE u == IF taken = 0 THEN t ELSE q + taken
           tail2 == IF taken = 0 THEN s.tail ELSE <<>>
           seen2 == SubSeq(rest, taken + 1, n)
           rest2 == SubSeq(rest, n + 1, Len(rest))
<1>8. IsCut(body, tail2, seen2, rest2, u, q + taken, q + n)
  <2>1. IsCut(body, s.tail, seen, rest, t, q, q)
    BY <1>2 DEF body
  <2> QED BY <1>1, <1>6, <1>7, <2>1, ChunkCut
<1>9. tail2 = s2.tail
  <2>1. CASE taken = 0
    BY <2>1
  <2>2. CASE taken # 0
    <3>1. t = q
      BY <1>7, <2>2
    <3>2. s.tail = SubSeq(body, t + 1, p)
      BY DEF IsCut, body
    <3>3. t + 1 \in Int /\ p \in Int /\ p < t + 1
      BY <3>1, <1>2
    <3>4. s.tail = <<>>
      BY <3>2, <3>3, SubSeqEmpty
    <3> QED BY <2>2, <3>4
  <2> QED BY <2>1, <2>2
<1>10. IsAt(ranges, eol, s2, u, q + taken, q + n)
  <2> HIDE DEF seen2, rest2, tail2
  <2>1. CASE s.isHeader
    <3>1. taken = 0 /\ s2.at = "header" /\ s2.isHeader /\ u = t /\ q + taken = q
      BY <2>1, <1>2, <1>3, <1>4, <1>5
    <3>2. IsInHead(ranges, eol, s.part, t, p)
      BY <2>1 DEF IsAt
    <3> HIDE DEF u
    <3> QED BY <3>1, <3>2, <1>2 DEF IsAt
  <2>2. CASE ~s.isHeader /\ s.remaining > 0
    <3> DEFINE x == PartStart(ranges, eol, s.part + 1)
               y == DelimiterEnd(ranges, eol, s.part + 1)
    <3>1. q + s.remaining = x /\ t = q
      BY <2>2, <1>2 DEF IsAt
    <3>2. x \in Nat /\ y \in Nat /\ x <= y
      <4>1. s.part + 1 \in 0 .. Len(ranges)
        BY <1>1, <1>3
      <4> QED BY <4>1, AnswerProperties DEF AreRanges
    <3>3. s2.remaining = s.remaining - taken /\ s2.ignore = 0 /\ s.ignore = 0 /\ ~s2.isHeader
          /\ taken = IF n <= s.remaining THEN n ELSE s.remaining
      BY <2>2, <1>3, <1>5
    <3>4. u = q + taken
      BY <3>1, <1>2
    <3> HIDE DEF x, y, u
    <3>5. CASE taken = n
      <4>1. s2.at = "idle" /\ q + taken = q + n
        BY <3>5
      <4>2. (q + taken) + s2.remaining = x
        BY <3>1, <3>3, <1>2, <1>3, <1>6
      <4>3. s2.remaining = 0 => x <= q + taken /\ (q + taken) + s2.ignore <= y
        BY <4>2, <3>2, <3>3, <1>2, <1>6
      <4> HIDE DEF x, y
      <4> QED BY <3>3, <3>4, <4>1, <4>2, <4>3 DEF IsAt, x, y
    <3>6. CASE taken # n
      <4>1. s2.at = "part"
        BY <3>6, <2>2
      <4>2. x <= q + taken /\ q + taken <= y
        <5>1. taken = s.remaining
          BY <3>3, <3>6
        <5>2. q + taken = x
          BY <5>1, <3>1
        <5> QED BY <5>2, <3>2
      <4> QED BY <3>3, <3>4, <4>1, <4>2 DEF IsAt, IsByDelimiter, x, y
    <3> QED BY <3>5, <3>6
  <2>3. CASE ~s.isHeader /\ ~(s.remaining > 0)
    <3> DEFINE x == PartStart(ranges, eol, s.part + 1)
               y == DelimiterEnd(ranges, eol, s.part + 1)
    <3>0. s.remaining = 0
      BY <2>3, <1>3
    <3>1. x <= q /\ q + s.ignore <= y /\ t = q
      BY <2>3, <3>0, <1>2 DEF IsAt
    <3>2. x \in Nat /\ y \in Nat
      <4>1. s.part + 1 \in 0 .. Len(ranges)
        BY <1>1, <1>3
      <4> QED BY <4>1, AnswerProperties DEF AreRanges
    <3>3. s2.remaining = 0 /\ s2.ignore = s.ignore - taken /\ ~s2.isHeader
          /\ taken = IF n <= s.ignore THEN n ELSE s.ignore
      <4>1. ~(s.ignore = 0 /\ s.remaining > 0) /\ s.ignore + s.remaining = s.ignore
        BY <3>0, <2>3, <1>3
      <4>2. s2.remaining = s.remaining /\ s2.ignore = s.ignore - taken
        BY <4>1
      <4>3. taken = IF n <= s.ignore THEN n ELSE s.ignore
        BY <4>1, <1>5
      <4> QED BY <2>3, <3>0, <4>2, <4>3
    <3>4. u = q + taken
      BY <3>1, <1>2
    <3> HIDE DEF x, y, u
    <3>7. x <= q + taken /\ (q + taken) + s2.ignore <= y /\ q + taken <= y
      <4> DEFINE i == s.ignore
                 i2 == s2.ignore
      <4>1. i \in Nat /\ i2 = i - taken /\ taken \in Nat /\ taken <= i /\ q \in Nat
        <5>1. i \in Nat /\ n \in Nat /\ q \in Nat /\ taken \in Nat /\ i2 = i - taken
          BY <3>3, <1>2, <1>3, <1>4, <1>6
        <5>2. taken = IF n <= i THEN n ELSE i
          BY <3>3
        <5> HIDE DEF i, i2
        <5>3. taken <= i
          BY <5>1, <5>2
        <5> QED BY <5>1, <5>3
      <4>2. x <= q /\ q + i <= y
        BY <3>1
      <4> HIDE DEF i, i2
      <4>3. x <= q + taken /\ (q + taken) + i2 <= y /\ q + taken <= y
        BY <3>2, <4>1, <4>2, SMTT(30)
      <4> QED BY <4>3 DEF i2
    <3>5. CASE taken = n
      <4>1. s2.at = "idle" /\ q + taken = q + n
        BY <3>5
      <4>2. ~(s2.remaining > 0) /\ s2.at # "part" /\ s2.at # "header" /\ s2.at # "copies" /\ s2.at # "body"
        BY <3>3, <4>1
      <4>3. PartStart(ranges, eol, s2.part + 1) = x /\ DelimiterEnd(ranges, eol, s2.part + 1) = y
        BY DEF x, y
      <4> QED BY <4>2, <4>3, <3>3, <3>4, <3>7, <4>1 DEF IsAt, x, y
    <3>6. CASE taken # n
      <4>1. s2.at = "part"
        BY <3>6, <2>3
      <4> QED BY <3>3, <3>4, <3>7, <4>1 DEF IsAt, IsByDelimiter, x, y
    <3> QED BY <3>5, <3>6
  <2> QED BY <2>1, <2>2, <2>3
<1> HIDE DEF u, tail2, seen2, rest2
<1>11. IsCut(body, s2.tail, seen2, rest2, u, q + taken, q + n)
  BY <1>8, <1>9
<1>12. IsStreamOf(bytes, ranges, eol, s2, seen2, rest2)
  BY <1>10, <1>11 DEF IsStreamOf, body
<1> QED
  BY <1>12 DEF seen2, rest2

\* The places of one part.
LEMMA PartPlaces ==
  ASSUME NEW bytes, NEW ranges, AreRanges(bytes, ranges), NEW eol \in {CRLF, LF},
         NEW k \in 0 .. Len(ranges) - 1
  PROVE  /\ DataStart(ranges, eol, k) \in Nat /\ Length(ranges[k + 1]) \in Nat
         /\ PartStart(ranges, eol, k + 1) = DataStart(ranges, eol, k) + Length(ranges[k + 1])
<1>1. bytes \in Seq(Byte) /\ AreWithin(ranges, bytes) /\ Len(ranges) # 0
  BY DEF AreRanges
<1>2. HasParts(bytes, ranges, eol)
  BY <1>1, AnswerHasParts
<1> QED BY <1>2 DEF HasParts

\* A splitter in step with the answer stays so: with the next chunk (_write), ...
LEMMA StreamAfterChunk ==
  ASSUME NEW bytes, NEW ranges, AreRanges(bytes, ranges), NEW s, IsControlled(Len(ranges), s),
         NEW seen, NEW rest, IsStream(bytes, ranges, s, seen, rest), s.at = "idle",
         NEW n \in 1 .. Len(rest), NEW taken, taken = Min({n, s.ignore + s.remaining}),
         NEW s2, s2.part = s.part, s2.isHeader = s.isHeader, s2.tail = s.tail,
         s2.ignore = IF s.ignore = 0 /\ s.remaining > 0 THEN s.ignore ELSE s.ignore - taken,
         s2.remaining = IF s.ignore = 0 /\ s.remaining > 0 THEN s.remaining - taken ELSE s.remaining,
         s2.at = IF taken = n THEN "idle" ELSE IF s.isHeader THEN "header" ELSE "part"
  PROVE  IsStream(bytes, ranges, s2, SubSeq(rest, taken + 1, n),
                  SubSeq(rest, n + 1, Len(rest)))
<1>1. PICK eol \in {CRLF, LF} : IsStreamOf(bytes, ranges, eol, s, seen, rest)
  BY DEF IsStream
<1>2. PICK t, p, q : /\ IsCut(AnswerTo(bytes, ranges, eol), s.tail, seen, rest, t, p, q)
                     /\ IsAt(ranges, eol, s, t, p, q)
  BY <1>1 DEF IsStreamOf
<1>3. IsStreamOf(bytes, ranges, eol, s2, SubSeq(rest, taken + 1, n),
                 SubSeq(rest, n + 1, Len(rest)))
  BY <1>2, ChunkReceived
<1> QED
  BY <1>3 DEF IsStream

\* ... whose first bytes, when it goes on with the data of a part, are those of the part's range
\* that follow what is done of it;
IsTakenFrom(data, bytes, range, done, taken) ==
  SubSeq(data, 1, taken) = SubSeq(bytes, range.start + done + 1, range.start + (done + taken))
\* The data that a chunk starts with follows what is done of the range.
LEMMA DataOfChunk ==
  ASSUME NEW bytes, NEW ranges, AreRanges(bytes, ranges), NEW s, IsControlled(Len(ranges), s),
         NEW seen, NEW rest, IsStream(bytes, ranges, s, seen, rest), s.at = "idle",
         s.ignore = 0, s.remaining > 0,
         NEW taken \in Nat, taken <= Len(rest), taken <= s.remaining,
         s.remaining <= Length(ranges[s.part + 1])
  PROVE  IsTakenFrom(rest, bytes, ranges[s.part + 1], Length(ranges[s.part + 1]) - s.remaining, taken)
<1> DEFINE k == s.part
           l == Length(ranges[k + 1])
           done == l - s.remaining
           start == ranges[k + 1].start
<1>1. PICK eol \in {CRLF, LF} : IsStreamOf(bytes, ranges, eol, s, seen, rest)
  BY DEF IsStream
<1> DEFINE body == AnswerTo(bytes, ranges, eol)
           d == DataStart(ranges, eol, k)
<1>2. PICK t, p, q : IsCut(body, s.tail, seen, rest, t, p, q) /\ IsAt(ranges, eol, s, t, p, q)
  BY <1>1 DEF IsStreamOf
<1>3. body \in Seq(Byte) /\ Len(body) \in Nat /\ Len(ranges) \in Nat
  BY AnswerProperties DEF AreRanges
<1>4. k \in 0 .. Len(ranges) - 1 /\ s.remaining \in Nat /\ ~s.isHeader
  BY <1>3 DEF IsControlled, Splitters
<1>5. d \in Nat /\ l \in Nat /\ PartStart(ranges, eol, k + 1) = d + l
  <2> HIDE DEF k
  <2>1. k \in 0 .. Len(ranges) - 1
    BY <1>4
  <2> QED BY <2>1, PartPlaces
<1>a. s.remaining <= l
  OBVIOUS
<1>6. /\ q \in Nat /\ q <= Len(body) /\ rest = SubSeq(body, q + 1, Len(body))
      /\ Len(rest) = Len(body) - q /\ p = q
      /\ q + s.remaining = PartStart(ranges, eol, k + 1)
  <2>1. Len(rest) = Len(body) - q
    BY <1>2, <1>3, CutLengths
  <2> QED BY <1>2, <1>4, <2>1 DEF IsCut, IsAt
<1> HIDE DEF body, k, d, l
<1>7. done \in Nat /\ q = d + done /\ done + taken \in Nat /\ done + taken <= l /\ done <= done + taken
  <2> DEFINE r == s.remaining
  <2>1. r \in Nat /\ d \in Nat /\ l \in Nat /\ q \in Nat /\ r <= l /\ q + r = d + l
    BY <1>4, <1>5, <1>6, <1>a
  <2>2. taken <= r
    OBVIOUS
  <2> HIDE DEF r
  <2>3. l - r \in Nat /\ q = d + (l - r) /\ (l - r) + taken \in Nat /\ (l - r) + taken <= l
        /\ l - r <= (l - r) + taken
    BY <2>1, <2>2
  <2> QED BY <2>3 DEF r
<1>8. taken <= Len(body) - q
  BY <1>3, <1>6
<1>9. SubSeq(rest, 0 + 1, taken) = SubSeq(body, q + 0 + 1, q + taken)
  <2> DEFINE m == Len(body)
  <2>1. q \in Nat /\ m \in q .. Len(body) /\ 0 \in Nat /\ taken \in Nat /\ taken <= m - q
        /\ rest = SubSeq(body, q + 1, m)
    BY <1>3, <1>6, <1>8
  <2> HIDE DEF m
  <2> QED BY <1>3, <2>1, PartOfPart
<1>10. SubSeq(body, d + done + 1, d + (done + taken)) = SubSeq(bytes, start + done + 1, start + (done + taken))
  <2> DEFINE a == done
             b == done + taken
  <2>1. a \in Nat /\ b \in Nat /\ a <= b /\ b <= l
    BY <1>7
  <2> HIDE DEF a, b
  <2>2. SubSeq(body, d + a + 1, d + b) = SubSeq(bytes, start + a + 1, start + b)
    <3>1. k \in 0 .. Len(ranges) - 1 /\ b <= Length(ranges[k + 1])
      BY <1>4, <2>1 DEF l
    <3>2. IsDataOf(bytes, ranges, eol, k, a, b)
      BY <2>1, <3>1, DataOfPart
    <3> QED BY <3>2 DEF IsDataOf, body, d
  <2> QED BY <2>2 DEF a, b
<1>11. q + 0 + 1 = d + done + 1 /\ q + taken = d + (done + taken) /\ 0 + 1 = 1
  <2>1. done \in Nat /\ d \in Nat /\ q = d + done
    BY <1>5, <1>7
  <2> HIDE DEF done
  <2> QED BY <2>1
<1> QED
  BY <1>9, <1>10, <1>11 DEF l, k, IsTakenFrom

\* ... at the top of the loop, when the copies before the next part are to be made;
LEMMA StreamAtNextPart ==
  ASSUME NEW bytes, NEW ranges, AreRanges(bytes, ranges), NEW s, IsControlled(Len(ranges), s),
         NEW seen, NEW rest, IsStream(bytes, ranges, s, seen, rest), s.at = "part",
         NEW s2, s2.part = s.part + 1, s2.at = "copies", s2.isHeader = s.isHeader, s2.tail = s.tail
  PROVE  IsStream(bytes, ranges, s2, seen, rest)
<1>1. PICK eol \in {CRLF, LF} : IsStreamOf(bytes, ranges, eol, s, seen, rest)
  BY DEF IsStream
<1>2. PICK t, p, q : /\ IsCut(AnswerTo(bytes, ranges, eol), s.tail, seen, rest, t, p, q)
                     /\ IsAt(ranges, eol, s, t, p, q)
  BY <1>1 DEF IsStreamOf
<1>3. ~s.isHeader
  BY DEF IsControlled
<1>4. IsAt(ranges, eol, s2, t, p, q)
  BY <1>2, <1>3 DEF IsAt
<1>5. IsStreamOf(bytes, ranges, eol, s2, seen, rest)
  BY <1>2, <1>4 DEF IsStreamOf
<1> QED
  BY <1>5 DEF IsStream

\* ... when they are made, and the header list of the part comes;
LEMMA StreamAtHeader ==
  ASSUME NEW bytes, NEW ranges, AreRanges(bytes, ranges), NEW s, IsControlled(Len(ranges), s),
         NEW seen, NEW rest, IsStream(bytes, ranges, s, seen, rest), s.at = "copies",
         s.part < Len(ranges),
         NEW s2, s2.part = s.part, s2.at = "header", s2.isHeader = s.isHeader, s2.tail = s.tail
  PROVE  IsStream(bytes, ranges, s2, seen, rest)
<1>1. PICK eol \in {CRLF, LF} : IsStreamOf(bytes, ranges, eol, s, seen, rest)
  BY DEF IsStream
<1>2. PICK t, p, q : /\ IsCut(AnswerTo(bytes, ranges, eol), s.tail, seen, rest, t, p, q)
                     /\ IsAt(ranges, eol, s, t, p, q)
  BY <1>1 DEF IsStreamOf
<1>3. ~s.isHeader /\ s.part \in Int /\ s.part >= 0
  BY DEF IsControlled
<1> DEFINE k == s.part
<1>4. k \in 0 .. Len(ranges) - 1 /\ k \in 0 .. Len(ranges) /\ Len(ranges) \in Nat /\ k \in Nat
  <2>1. Len(ranges) \in Nat
    BY AnswerProperties DEF AreRanges
  <2> QED BY <1>3, <2>1
<1>5. /\ PartStart(ranges, eol, k) \in Nat /\ DelimiterEnd(ranges, eol, k) \in Nat
      /\ DataStart(ranges, eol, k) = DelimiterEnd(ranges, eol, k) + 1 + 3 * Len(eol)
  <2>1. bytes \in Seq(Byte) /\ AreWithin(ranges, bytes) /\ Len(ranges) # 0
    BY DEF AreRanges
  <2>2. HasParts(bytes, ranges, eol)
    BY <2>1, AnswerHasParts
  <2> HIDE DEF k
  <2> QED BY ONLY <1>4, <2>2 DEF HasParts
<1>6. Len(eol) \in {1, 2}
  BY <1>4, HeadLength
<1>7. t = p /\ t \in Nat /\ IsByDelimiter(ranges, eol, k, p)
  BY <1>2, <1>3 DEF IsAt, IsCut
<1>8. IsInHead(ranges, eol, k, t, p)
  <2> DEFINE x == PartStart(ranges, eol, k)
             y == DelimiterEnd(ranges, eol, k)
             z == DataStart(ranges, eol, k)
             l == Len(eol)
  <2>1. x \in Nat /\ y \in Nat /\ z = y + 1 + 3 * l /\ l \in {1, 2} /\ t \in Nat /\ x <= t /\ t <= y
    BY <1>5, <1>6, <1>7 DEF IsByDelimiter
  <2> HIDE DEF x, y, z, l
  <2>2. x <= t /\ t + 4 <= z /\ t < z
    BY <2>1
  <2> QED BY <2>2, <1>7 DEF IsInHead, x, z
<1>9. IsAt(ranges, eol, s2, t, p, q)
  BY <1>2, <1>3, <1>7, <1>8 DEF IsAt
<1>10. IsStreamOf(bytes, ranges, eol, s2, seen, rest)
  BY <1>2, <1>9 DEF IsStreamOf
<1> QED
  BY <1>10 DEF IsStream

\* ... and it never waits for bytes when the whole answer has come.
LEMMA NoStreamIdleAtEnd ==
  ASSUME NEW bytes, NEW ranges, AreRanges(bytes, ranges), NEW s, IsControlled(Len(ranges), s),
         NEW seen, NEW rest, IsStream(bytes, ranges, s, seen, rest), s.at = "idle",
         rest = <<>>
  PROVE  FALSE
<1>1. PICK eol \in {CRLF, LF} : IsStreamOf(bytes, ranges, eol, s, seen, rest)
  BY DEF IsStream
<1> DEFINE body == AnswerTo(bytes, ranges, eol)
<1>2. PICK t, p, q : IsCut(body, s.tail, seen, rest, t, p, q) /\ IsAt(ranges, eol, s, t, p, q)
  BY <1>1 DEF IsStreamOf
<1>3. body \in Seq(Byte) /\ Len(body) \in Nat /\ Len(ranges) \in Nat
  BY AnswerProperties DEF AreRanges
<1>4. p = Len(body) /\ p = q
  <2>1. Len(rest) = Len(body) - q
    BY <1>2, <1>3, CutLengths
  <2>2. Len(rest) = 0
    OBVIOUS
  <2> QED BY <2>1, <2>2, <1>2, <1>3 DEF IsCut, IsAt
<1>5. s.part \in -1 .. Len(ranges) - 1 /\ s.ignore \in Nat /\ s.remaining \in Nat
      /\ s.isHeader \in BOOLEAN /\ (s.isHeader => s.part # -1)
  BY DEF IsControlled, Splitters
<1> DEFINE k == s.part + 1
<1>6. k \in 0 .. Len(ranges)
  BY <1>3, <1>5
<1>7. /\ PartStart(ranges, eol, k) \in Nat /\ DelimiterEnd(ranges, eol, k) \in Nat
      /\ PartStart(ranges, eol, k) <= DelimiterEnd(ranges, eol, k)
      /\ DelimiterEnd(ranges, eol, k) < Len(body)
  BY <1>6, AnswerProperties DEF AreRanges
<1> HIDE DEF body
<1>8. CASE s.isHeader
  <2>1. s.part \in 0 .. Len(ranges) - 1
    BY <1>3, <1>5, <1>8
  <2>2. /\ DataStart(ranges, eol, s.part) \in Nat /\ Length(ranges[k]) \in Nat
        /\ PartStart(ranges, eol, k) = DataStart(ranges, eol, s.part) + Length(ranges[k])
    BY <2>1, PartPlaces
  <2>3. p < DataStart(ranges, eol, s.part)
    BY <1>2, <1>8 DEF IsAt, IsInHead
  <2> HIDE DEF k
  <2> QED BY <2>2, <2>3, <1>3, <1>4, <1>7
<1>9. CASE ~s.isHeader /\ s.remaining > 0
  <2>1. p + s.remaining = PartStart(ranges, eol, k)
    BY <1>2, <1>9 DEF IsAt
  <2> HIDE DEF k
  <2> QED BY <2>1, <1>3, <1>4, <1>5, <1>7
<1>10. CASE ~s.isHeader /\ s.remaining = 0
  <2>1. p + s.ignore <= DelimiterEnd(ranges, eol, k)
    BY <1>2, <1>10 DEF IsAt
  <2> HIDE DEF k
  <2> QED BY <2>1, <1>3, <1>4, <1>5, <1>7
<1> QED
  BY <1>5, <1>8, <1>9, <1>10

\* What a search leaves for the next chunk.
LEMMA CarriedOf ==
  ASSUME NEW body \in Seq(Byte), NEW t \in Nat, NEW q \in Nat, t <= q, q <= Len(body)
  PROVE  LET i == IF q - t >= 3 THEN q - t - 3 ELSE 0
         IN Carried(SubSeq(body, t + 1, q)) = SubSeq(body, t + i + 1, q)
<1> DEFINE data == SubSeq(body, t + 1, q)
           i == IF q - t >= 3 THEN q - t - 3 ELSE 0
           n == q - t
<1>1. data \in Seq(Byte) /\ Len(data) = n
  BY PartOf
<1>2. i \in Nat /\ n \in Nat /\ n <= q - t /\ t + n = q
  OBVIOUS
<1>3. Max({1, n - 2}) = i + 1
  <2>1. Max({1, n - 2}) = IF 1 >= n - 2 THEN 1 ELSE n - 2
    BY <1>2, MaxOfTwo
  <2> QED BY <2>1, <1>2
<1>4. Carried(data) = SubSeq(data, i + 1, n)
  BY <1>1, <1>3 DEF Carried
<1>5. SubSeq(data, i + 1, n) = SubSeq(body, t + i + 1, t + n)
  <2>1. q \in t .. Len(body)
    OBVIOUS
  <2> HIDE DEF i, n
  <2> QED BY <1>2, <2>1, PartOfPart
<1> QED
  BY <1>2, <1>4, <1>5

\* The search of a header list keeps the splitter in step: when the list's end has not come, what
\* may be the start of it is kept, ...
LEMMA StreamAfterFruitlessSearch ==
  ASSUME NEW bytes, NEW ranges, AreRanges(bytes, ranges), NEW s, IsControlled(Len(ranges), s),
         NEW seen, NEW rest, IsStream(bytes, ranges, s, seen, rest), s.at = "header",
         HeaderListEnds(s.tail \o seen) = {},
         NEW s2, s2.part = s.part, s2.isHeader = TRUE, s2.at = "idle", s2.tail = Carried(s.tail \o seen)
  PROVE  IsStream(bytes, ranges, s2, <<>>, rest)
<1>1. PICK eol \in {CRLF, LF} : IsStreamOf(bytes, ranges, eol, s, seen, rest)
  BY DEF IsStream
<1> DEFINE body == AnswerTo(bytes, ranges, eol)
           k == s.part
<1>2. PICK t, p, q : IsCut(body, s.tail, seen, rest, t, p, q) /\ IsAt(ranges, eol, s, t, p, q)
  BY <1>1 DEF IsStreamOf
<1>3. body \in Seq(Byte) /\ Len(body) \in Nat /\ bytes \in Seq(Byte) /\ AreWithin(ranges, bytes)
      /\ Len(ranges) # 0
  BY AnswerProperties DEF AreRanges
<1>4. k \in 0 .. Len(ranges) - 1
  BY DEF IsControlled
<1>5. /\ t \in Nat /\ q \in Nat /\ t <= q /\ q <= Len(body) /\ rest = SubSeq(body, q + 1, Len(body))
      /\ s.tail \o seen = SubSeq(body, t + 1, q)
  <2>1. s.tail \o seen = SubSeq(body, t + 1, q)
    <3>1. IsSearched(body, s.tail, seen, t, q)
      BY <1>2, <1>3, CutLengths
    <3> QED BY <3>1 DEF IsSearched
  <2> QED BY <1>2, <2>1 DEF IsCut
<1>6. IsInHead(ranges, eol, k, t, p)
  BY <1>2 DEF IsAt
<1> DEFINE x == PartStart(ranges, eol, k)
           d == DataStart(ranges, eol, k)
<1>7. x <= t /\ t + 4 <= d
  BY <1>6 DEF IsInHead
<1>8. d \in Nat /\ x \in Nat
  <2>1. d \in Nat
    <3> HIDE DEF k
    <3> QED BY <1>4, PartPlaces
  <2>2. x \in Nat
    <3>1. k \in 0 .. Len(ranges)
      BY <1>3, <1>4 DEF AreWithin
    <3> HIDE DEF k
    <3> QED BY <3>1, <1>3, AnswerProperties
  <2> QED BY <2>1, <2>2
<1>9. q < d
  <2>1. q >= d => HeaderListEnds(SubSeq(body, t + 1, q)) # {}
    <3>1. PartStart(ranges, eol, k) <= t /\ t + 4 <= DataStart(ranges, eol, k)
      BY <1>7
    <3>2. FindsHead(bytes, ranges, eol, k, t, q)
      <4> HIDE DEF k, x
      <4> QED BY <3>1, <1>3, <1>4, <1>5, HeaderListIsFound
    <3> QED BY <3>2 DEF FindsHead
  <2> QED BY <2>1, <1>5, <1>8
<1> HIDE DEF body, k, x, d
<1> DEFINE i == IF q - t >= 3 THEN q - t - 3 ELSE 0
           t2 == t + i
<1>10. t2 \in Nat /\ t2 <= q /\ x <= t2 /\ t2 + 4 <= d
  <2>1. t \in Nat /\ q \in Nat /\ d \in Nat /\ x \in Nat /\ t <= q /\ q < d /\ x <= t /\ t + 4 <= d
    BY <1>5, <1>7, <1>8, <1>9
  <2>2. CASE q - t >= 3
    <3>1. i = q - t - 3
      BY ONLY <2>2
    <3> HIDE DEF i
    <3> QED BY ONLY <2>1, <2>2, <3>1
  <2>3. CASE ~(q - t >= 3)
    <3>1. i = 0
      BY ONLY <2>3
    <3> HIDE DEF i
    <3> QED BY ONLY <2>1, <3>1
  <2> QED BY ONLY <2>2, <2>3
<1>11. s2.tail = SubSeq(body, t2 + 1, q)
  <2>1. Carried(SubSeq(body, t + 1, q)) = SubSeq(body, t + i + 1, q)
    BY <1>3, <1>5, CarriedOf
  <2>2. s2.tail = Carried(s.tail \o seen) /\ s.tail \o seen = SubSeq(body, t + 1, q)
    BY <1>5
  <2> QED BY <2>1, <2>2
<1> HIDE DEF t2
<1>12. IsCut(body, s2.tail, <<>>, rest, t2, q, q)
  <2>1. SubSeq(body, q + 1, q) = <<>>
    <3>1. q + 1 \in Int /\ q \in Int /\ q < q + 1
      BY <1>5
    <3> QED BY <3>1, SubSeqEmpty
  <2> QED BY <2>1, <1>5, <1>10, <1>11 DEF IsCut
<1>13. IsAt(ranges, eol, s2, t2, q, q)
  BY <1>9, <1>10 DEF IsAt, IsInHead, k, x, d
<1>14. IsStreamOf(bytes, ranges, eol, s2, <<>>, rest)
  BY <1>12, <1>13 DEF IsStreamOf, body
<1> QED
  BY <1>14 DEF IsStream

\* The fields of the record of a found end.
LEMMA FieldsOfEnd ==
  ASSUME NEW e, NEW y, NEW z, e = [end |-> y, eol |-> z]
  PROVE  e.end = y /\ e.eol = z
  OBVIOUS

\* ... and when it has, the data of the part comes next.
LEMMA StreamAfterSearch ==
  ASSUME NEW bytes, NEW ranges, AreRanges(bytes, ranges), NEW s, IsControlled(Len(ranges), s),
         NEW seen, NEW rest, IsStream(bytes, ranges, s, seen, rest), s.at = "header",
         NEW data, data = s.tail \o seen, HeaderListEnds(data) # {},
         NEW found, found = CHOOSE e \in HeaderListEnds(data) :
                              \A f \in HeaderListEnds(data) : e.end <= f.end,
         NEW s2, s2.part = s.part, s2.isHeader = FALSE, s2.at = "body", s2.tail = <<>>,
         s2.boundaryLength = BoundaryTextLength + Len(found.eol) + 2
  PROVE  IsStream(bytes, ranges, s2, SubSeq(data, found.end + 1, Len(data)), rest)
<1>1. PICK eol \in {CRLF, LF} : IsStreamOf(bytes, ranges, eol, s, seen, rest)
  BY DEF IsStream
<1> DEFINE body == AnswerTo(bytes, ranges, eol)
           k == s.part
<1>2. PICK t, p, q : IsCut(body, s.tail, seen, rest, t, p, q) /\ IsAt(ranges, eol, s, t, p, q)
  BY <1>1 DEF IsStreamOf
<1>3. body \in Seq(Byte) /\ Len(body) \in Nat /\ bytes \in Seq(Byte) /\ AreWithin(ranges, bytes)
      /\ Len(ranges) # 0
  BY AnswerProperties DEF AreRanges
<1>4. k \in 0 .. Len(ranges) - 1
  BY DEF IsControlled
<1>5. /\ t \in Nat /\ q \in Nat /\ t <= q /\ q <= Len(body) /\ rest = SubSeq(body, q + 1, Len(body))
      /\ data = SubSeq(body, t + 1, q)
  <2>0. data = s.tail \o seen
    OBVIOUS
  <2>1. s.tail \o seen = SubSeq(body, t + 1, q)
    <3>1. IsSearched(body, s.tail, seen, t, q)
      BY <1>2, <1>3, CutLengths
    <3> QED BY <3>1 DEF IsSearched
  <2>2. data = SubSeq(body, t + 1, q)
    BY <2>0, <2>1, Zenon
  <2>3. t \in Nat /\ q \in Nat /\ t <= q /\ q <= Len(body) /\ rest = SubSeq(body, q + 1, Len(body))
    <3>1. p \in Nat /\ t <= p /\ p <= q /\ t \in Nat /\ q \in Nat /\ q <= Len(body)
      BY <1>2 DEF IsCut
    <3>2. rest = SubSeq(body, q + 1, Len(body))
      BY <1>2 DEF IsCut
    <3> QED BY <3>1, <3>2
  <2> QED BY <2>2, <2>3
<1>6. IsInHead(ranges, eol, k, t, p)
  BY <1>2 DEF IsAt
<1> DEFINE x == PartStart(ranges, eol, k)
           d == DataStart(ranges, eol, k)
<1>7. x <= t /\ t + 4 <= d
  BY <1>6 DEF IsInHead
<1>8. d \in Nat
  <2> HIDE DEF k
  <2> QED BY <1>4, PartPlaces
<1>9. q >= d /\ found.end = d - t /\ found.eol = eol
  <2> DEFINE ends == HeaderListEnds(SubSeq(body, t + 1, q))
             first == CHOOSE e \in ends : \A f \in ends : e.end <= f.end
  <2>1. /\ q < d => ends = {}
        /\ q >= d => first = [end |-> d - t, eol |-> eol]
    <3>1. PartStart(ranges, eol, k) <= t /\ t + 4 <= DataStart(ranges, eol, k)
      BY <1>7
    <3> HIDE DEF k
    <3>2. /\ q < DataStart(ranges, eol, k) => ends = {}
          /\ q >= DataStart(ranges, eol, k) => first = [end |-> DataStart(ranges, eol, k) - t, eol |-> eol]
      <4>1. FindsHead(bytes, ranges, eol, k, t, q)
        BY <3>1, <1>3, <1>4, <1>5, HeaderListIsFound
      <4> QED BY <4>1 DEF FindsHead
    <3> QED BY <3>2
  <2>2. found = first /\ ends # {}
    BY <1>5
  <2> HIDE DEF ends, first, d
  <2>3. q >= d /\ found = [end |-> d - t, eol |-> eol]
    BY <2>1, <2>2, <1>5, <1>8
  <2> DEFINE y == d - t
  <2>4. found = [end |-> y, eol |-> eol]
    BY <2>3
  <2> HIDE DEF y
  <2>5. found.end = y /\ found.eol = eol
    BY ONLY <2>4, FieldsOfEnd
  <2> QED BY <2>3, <2>5 DEF y
<1> HIDE DEF body, k, x, d
<1> DEFINE i == d - t
<1>10. i \in Nat /\ t + i = d /\ found.end = i /\ found.eol = eol /\ d <= q
  <2>1. found.end = d - t /\ found.eol = eol /\ d <= q
    <3>1. found.end = d - t /\ found.eol = eol
      BY <1>9
    <3>2. q \in Nat /\ d \in Nat /\ q >= d
      BY <1>5, <1>8, <1>9
    <3> QED BY <3>1, <3>2
  <2>2. t \in Nat /\ d \in Nat /\ t + 4 <= d
    BY <1>5, <1>7, <1>8
  <2> QED BY <2>1, <2>2
<1>11. SubSeq(data, found.end + 1, Len(data)) = SubSeq(body, d + 1, q)
  <2> DEFINE j == q - t
  <2>1. j \in Nat /\ j <= q - t /\ t + j = q /\ q \in t .. Len(body)
    BY <1>3, <1>5
  <2>2. Len(data) = j
    BY <1>3, <1>5, PartOf
  <2> HIDE DEF i, j
  <2>3. SubSeq(SubSeq(body, t + 1, q), i + 1, j) = SubSeq(body, t + i + 1, t + j)
    BY <1>3, <1>5, <1>10, <2>1, PartOfPart
  <2> QED BY <2>1, <2>2, <2>3, <1>5, <1>10
<1>12. IsCut(body, s2.tail, SubSeq(body, d + 1, q), rest, d, d, q)
  <2>1. SubSeq(body, d + 1, d) = <<>>
    <3>1. d + 1 \in Int /\ d \in Int /\ d < d + 1
      BY <1>8
    <3> QED BY <3>1, SubSeqEmpty
  <2> QED BY <2>1, <1>5, <1>8, <1>10 DEF IsCut
<1>13. IsAt(ranges, eol, s2, d, d, q)
  <2>1. s2.boundaryLength = Len(eol) + 3
    <3>1. Len(eol) \in {1, 2}
      BY <1>4, HeadLength, <1>3 DEF AreWithin, k
    <3> QED BY <3>1, <1>10 DEF BoundaryTextLength
  <2> QED BY <2>1 DEF IsAt, k, d
<1>14. IsStreamOf(bytes, ranges, eol, s2, SubSeq(body, d + 1, q), rest)
  BY <1>12, <1>13 DEF IsStreamOf, body
<1> QED
  BY <1>11, <1>14 DEF IsStream

\* Where the data of the part that is to be read is: at the start of the chunk.
IsBody(bytes, ranges, eol, s, seen, rest, q) ==
  LET d == DataStart(ranges, eol, s.part)
      l == Length(ranges[s.part + 1])
      b == AnswerTo(bytes, ranges, eol)
  IN /\ d \in Nat /\ l \in Nat /\ b \in Seq(Byte) /\ Len(b) \in Nat /\ q \in Nat /\ d <= q /\ q <= Len(b)
     /\ s.part \in 0 .. Len(ranges) - 1 /\ ~s.isHeader /\ s.tail = <<>>
     /\ s.boundaryLength = Len(eol) + 3 /\ Len(eol) \in {1, 2}
     /\ PartStart(ranges, eol, s.part + 1) = d + l
     /\ DelimiterEnd(ranges, eol, s.part + 1) = d + l + (Len(eol) + 3)
     /\ seen = SubSeq(b, d + 1, q) /\ Len(seen) = q - d
     /\ rest = SubSeq(b, q + 1, Len(b))

\* It is there when the splitter is about to read it.
LEMMA BodyOfStream ==
  ASSUME NEW bytes, NEW ranges, AreRanges(bytes, ranges), NEW s, IsControlled(Len(ranges), s),
         NEW seen, NEW rest, s.at = "body",
         NEW eol \in {CRLF, LF}, NEW t, NEW p, NEW q,
         IsCut(AnswerTo(bytes, ranges, eol), s.tail, seen, rest, t, p, q),
         IsAt(ranges, eol, s, t, p, q)
  PROVE  IsBody(bytes, ranges, eol, s, seen, rest, q)
<1> DEFINE d == DataStart(ranges, eol, s.part)
           l == Length(ranges[s.part + 1])
           b == AnswerTo(bytes, ranges, eol)
           k == s.part
<1>1. b \in Seq(Byte) /\ Len(b) \in Nat /\ Len(ranges) \in Nat
  BY AnswerProperties DEF AreRanges
<1>2. k \in 0 .. Len(ranges) - 1 /\ ~s.isHeader
  BY DEF IsControlled
<1>3. d \in Nat /\ l \in Nat /\ PartStart(ranges, eol, k + 1) = d + l
  <2> HIDE DEF k
  <2>1. /\ DataStart(ranges, eol, k) \in Nat /\ Length(ranges[k + 1]) \in Nat
        /\ PartStart(ranges, eol, k + 1) = DataStart(ranges, eol, k) + Length(ranges[k + 1])
    BY <1>2, PartPlaces
  <2> QED BY <2>1 DEF k
<1>4. Len(eol) \in {1, 2}
  BY <1>2, HeadLength
<1>5. DelimiterEnd(ranges, eol, k + 1) = d + l + (Len(eol) + 3)
  <2>1. k + 1 # 0
    BY <1>1, <1>2
  <2>2. DelimiterEnd(ranges, eol, k + 1) = PartStart(ranges, eol, k + 1) + LeadOf(k + 1, eol) + 3
    BY DEF DelimiterEnd
  <2>3. LeadOf(k + 1, eol) = Len(eol)
    BY <2>1 DEF LeadOf
  <2> QED BY ONLY <2>2, <2>3, <1>3, <1>4
<1>6. p = d /\ t = p /\ s.boundaryLength = Len(eol) + 3
  BY <1>2 DEF IsAt
<1>7. /\ q \in Nat /\ d <= q /\ q <= Len(b) /\ seen = SubSeq(b, d + 1, q)
      /\ rest = SubSeq(b, q + 1, Len(b)) /\ s.tail = SubSeq(b, d + 1, d)
  <2> HIDE DEF d, b
  <2>1. IsCut(b, s.tail, seen, rest, d, d, q)
    BY <1>6 DEF b
  <2> QED BY <2>1 DEF IsCut
<1>8. Len(seen) = q - d
  <2>1. Len(seen) = q - p
    BY <1>1, CutLengths
  <2> QED BY <2>1, <1>6
<1>9. s.tail = <<>>
  <2>1. d + 1 \in Int /\ d \in Int /\ d < d + 1
    BY <1>3
  <2> HIDE DEF d
  <2> QED BY <2>1, <1>7, SubSeqEmpty
<1> HIDE DEF d, l, b, k
<1>10. /\ d \in Nat /\ l \in Nat /\ b \in Seq(Byte) /\ Len(b) \in Nat /\ q \in Nat /\ d <= q /\ q <= Len(b)
       /\ k \in 0 .. Len(ranges) - 1 /\ ~s.isHeader /\ s.tail = <<>>
       /\ s.boundaryLength = Len(eol) + 3 /\ Len(eol) \in {1, 2}
       /\ PartStart(ranges, eol, k + 1) = d + l
       /\ DelimiterEnd(ranges, eol, k + 1) = d + l + (Len(eol) + 3)
       /\ seen = SubSeq(b, d + 1, q) /\ Len(seen) = q - d
       /\ rest = SubSeq(b, q + 1, Len(b))
  BY <1>1, <1>2, <1>3, <1>4, <1>5, <1>6, <1>7, <1>8, <1>9
<1> QED BY <1>10 DEF IsBody, d, l, b, k

\* The data of a part that is read from the chunk is that of its range.
LEMMA DataOfBody ==
  ASSUME NEW bytes, NEW ranges, AreRanges(bytes, ranges), NEW s, IsControlled(Len(ranges), s),
         NEW seen, NEW rest, IsStream(bytes, ranges, s, seen, rest), s.at = "body",
         NEW taken \in Nat, taken <= Len(seen), taken <= Length(ranges[s.part + 1])
  PROVE  IsTakenFrom(seen, bytes, ranges[s.part + 1], 0, taken)
<1>1. PICK eol \in {CRLF, LF} : IsStreamOf(bytes, ranges, eol, s, seen, rest)
  BY DEF IsStream
<1> DEFINE k == s.part
           b == AnswerTo(bytes, ranges, eol)
           d == DataStart(ranges, eol, k)
           l == Length(ranges[k + 1])
           start == ranges[k + 1].start
<1>2. PICK t, p, q : IsCut(b, s.tail, seen, rest, t, p, q) /\ IsAt(ranges, eol, s, t, p, q)
  BY <1>1 DEF IsStreamOf
<1>3. /\ d \in Nat /\ l \in Nat /\ b \in Seq(Byte) /\ Len(b) \in Nat /\ q \in Nat /\ d <= q /\ q <= Len(b)
      /\ k \in 0 .. Len(ranges) - 1 /\ seen = SubSeq(b, d + 1, q) /\ Len(seen) = q - d
  <2>1. IsBody(bytes, ranges, eol, s, seen, rest, q)
    BY <1>2, BodyOfStream
  <2> QED BY <2>1 DEF IsBody
<1>0. taken <= Len(seen) /\ taken <= l
  OBVIOUS
<1>4. IsDataOf(bytes, ranges, eol, k, 0, taken)
  <2> HIDE DEF k
  <2>1. 0 <= taken /\ taken <= Length(ranges[k + 1])
    BY <1>0
  <2> QED BY <2>1, <1>3, DataOfPart
<1>5. SubSeq(b, d + 0 + 1, d + taken) = SubSeq(bytes, start + 0 + 1, start + taken)
  BY <1>4 DEF IsDataOf
<1> HIDE DEF b, d, k, start, l
<1>6. SubSeq(SubSeq(b, d + 1, q), 0 + 1, taken) = SubSeq(b, d + 0 + 1, d + taken)
  <2>1. q \in d .. Len(b) /\ taken <= q - d /\ 0 \in Nat /\ taken \in Nat
    BY <1>3, <1>0
  <2> QED BY <2>1, <1>3, PartOfPart
<1>7. 0 + 1 = 1 /\ 0 + taken = taken /\ seen = SubSeq(b, d + 1, q)
  BY <1>3
<1>9. SubSeq(seen, 1, taken) = SubSeq(bytes, start + 0 + 1, start + (0 + taken))
  BY <1>5, <1>6, <1>7
<1> QED
  BY <1>9 DEF start, k, IsTakenFrom

\* The splitter goes on in step with what it has read of the part, and of the delimiter after it.
LEMMA StreamAfterBody ==
  ASSUME NEW bytes, NEW ranges, AreRanges(bytes, ranges), NEW s, IsControlled(Len(ranges), s),
         NEW seen, NEW rest, IsStream(bytes, ranges, s, seen, rest), s.at = "body",
         NEW length, length = Length(ranges[s.part + 1]),
         NEW taken, taken = Min({length, Len(seen)}),
         NEW end, end = taken + s.boundaryLength,
         NEW s2, s2.part = s.part, s2.isHeader = s.isHeader, s2.tail = s.tail,
         s2.remaining = length - taken,
         s2.ignore = IF taken = length /\ end >= Len(seen) THEN end - Len(seen) ELSE s.ignore,
         s2.at = IF taken = length /\ end < Len(seen) THEN "part" ELSE "idle"
  PROVE  IsStream(bytes, ranges, s2, SubSeq(seen, end + 1, Len(seen)), rest)
<1>1. PICK eol \in {CRLF, LF} : IsStreamOf(bytes, ranges, eol, s, seen, rest)
  BY DEF IsStream
<1> DEFINE k == s.part
           b == AnswerTo(bytes, ranges, eol)
           d == DataStart(ranges, eol, k)
           x == PartStart(ranges, eol, k + 1)
           y == DelimiterEnd(ranges, eol, k + 1)
           n == Len(seen)
           bl == s.boundaryLength
<1>2. PICK t, p, q : IsCut(b, s.tail, seen, rest, t, p, q) /\ IsAt(ranges, eol, s, t, p, q)
  BY <1>1 DEF IsStreamOf
<1>3. /\ d \in Nat /\ length \in Nat /\ b \in Seq(Byte) /\ Len(b) \in Nat /\ q \in Nat /\ d <= q /\ q <= Len(b)
      /\ k \in 0 .. Len(ranges) - 1 /\ ~s.isHeader /\ s.tail = <<>>
      /\ bl \in Nat /\ x = d + length /\ y = d + length + bl
      /\ seen = SubSeq(b, d + 1, q) /\ n = q - d /\ rest = SubSeq(b, q + 1, Len(b))
  <2>0. IsBody(bytes, ranges, eol, s, seen, rest, q)
    BY <1>2, BodyOfStream
  <2>1. /\ d \in Nat /\ Length(ranges[k + 1]) \in Nat /\ b \in Seq(Byte) /\ Len(b) \in Nat /\ q \in Nat
        /\ d <= q /\ q <= Len(b) /\ k \in 0 .. Len(ranges) - 1 /\ ~s.isHeader /\ s.tail = <<>>
        /\ seen = SubSeq(b, d + 1, q) /\ Len(seen) = q - d /\ rest = SubSeq(b, q + 1, Len(b))
    BY <2>0 DEF IsBody
  <2>2. /\ bl = Len(eol) + 3 /\ Len(eol) \in {1, 2} /\ x = d + Length(ranges[k + 1])
        /\ y = d + Length(ranges[k + 1]) + (Len(eol) + 3)
    BY <2>0 DEF IsBody
  <2>3. length = Length(ranges[k + 1])
    OBVIOUS
  <2> QED
    <3> HIDE DEF b, d, x, y, k, n, bl
    <3> QED BY ONLY <2>1, <2>2, <2>3, SMTT(30) DEF n
<1>4. taken = IF length <= n THEN length ELSE n
  <2>1. n \in Nat
    <3> HIDE DEF b, d, x, y, k, n, bl
    <3>1. d \in Nat /\ q \in Nat /\ d <= q /\ n = q - d
      BY ONLY <1>3, Zenon
    <3> QED BY ONLY <3>1
  <2> HIDE DEF n
  <2>2. Min({length, n}) = IF length <= n THEN length ELSE n
    BY <1>3, <2>1, MinOfTwo
  <2> QED BY <2>2 DEF n
<1>a. /\ s2.part = k /\ ~s2.isHeader /\ s2.tail = <<>> /\ end = taken + bl
      /\ s2.remaining = length - taken
      /\ s2.ignore = IF taken = length /\ end >= n THEN end - n ELSE s.ignore
      /\ s2.at = IF taken = length /\ end < n THEN "part" ELSE "idle"
  BY <1>3
<1> DEFINE seen2 == SubSeq(seen, end + 1, n)
<1> HIDE DEF b, d, k, x, y, n, bl
<1>c. /\ d \in Nat /\ length \in Nat /\ q \in Nat /\ bl \in Nat /\ d <= q /\ n = q - d
      /\ x = d + length /\ y = d + length + bl /\ end = taken + bl /\ s2.remaining = length - taken
  BY <1>3, <1>a
<1>b. n \in Nat /\ taken \in Nat /\ end \in Nat /\ taken <= n /\ taken <= end
  BY ONLY <1>c, <1>4
<1>5. CASE taken # length \/ end >= n
  <2>1. s2.at = "idle" /\ end >= n
    <3>1. taken # length => end >= n
      BY <1>3, <1>4, <1>b
    <3> QED BY <1>5, <1>a, <1>b, <3>1
  <2>2. seen2 = <<>>
    <3>1. end + 1 \in Int /\ n \in Int /\ n < end + 1
      BY <2>1, <1>b
    <3> QED BY <3>1, SubSeqEmpty
  <2>3. IsCut(b, <<>>, <<>>, rest, q, q, q)
    <3>1. q + 1 \in Int /\ q \in Int /\ q < q + 1
      BY <1>3
    <3>2. SubSeq(b, q + 1, q) = <<>>
      BY <3>1, SubSeqEmpty
    <3>3. q \in Nat /\ q <= q /\ q <= Len(b) /\ rest = SubSeq(b, q + 1, Len(b))
      BY <1>3
    <3> QED BY ONLY <3>2, <3>3 DEF IsCut
  <2>4. /\ s2.remaining > 0 => q + s2.remaining = x
        /\ s2.remaining = 0 => x <= q /\ q + s2.ignore <= y
    <3>1. CASE taken # length
      <4>1. taken = n /\ n < length /\ s2.remaining = length - n
        BY ONLY <3>1, <1>c, <1>4, <1>b
      <4>2. q + (length - n) = x /\ length - n > 0
        BY ONLY <4>1, <1>c, <1>b
      <4> QED BY <4>1, <4>2
    <3>2. CASE taken = length
      <4>1. s2.remaining = 0 /\ s2.ignore = end - n
        BY <3>2, <2>1, <1>3, <1>a
      <4>2. length <= n
        BY <3>2, <1>4, <1>3, <1>b
      <4>3. x <= q /\ q + (end - n) <= y
        BY ONLY <4>2, <3>2, <1>c, <1>b
      <4> QED BY <4>1, <4>3
    <3> QED BY <3>1, <3>2
  <2>5. IsAt(ranges, eol, s2, q, q, q)
    <3>1. s2.at = "idle" /\ ~s2.isHeader /\ s2.part = k
      BY <2>1, <1>a
    <3> QED BY <2>4, <3>1 DEF IsAt, x, y
  <2>6. IsStreamOf(bytes, ranges, eol, s2, <<>>, rest)
    BY <2>3, <2>5, <1>a DEF IsStreamOf, b
  <2> QED BY <2>2, <2>6 DEF IsStream, n
<1>6. CASE taken = length /\ end < n
  <2>1. s2.at = "part" /\ d + end = y /\ y \in Nat /\ y <= q /\ x <= y
    BY ONLY <1>6, <1>3, <1>a, <1>b
  <2>2. seen2 = SubSeq(b, y + 1, q)
    <3>1. q \in d .. Len(b) /\ end \in Nat /\ n \in Nat /\ n <= q - d /\ d + n = q
      <4>1. Len(b) \in Nat /\ q <= Len(b)
        BY <1>3
      <4> QED BY ONLY <4>1, <1>b, <1>c
    <3>2. SubSeq(SubSeq(b, d + 1, q), end + 1, n) = SubSeq(b, d + end + 1, d + n)
      <4>1. b \in Seq(Byte) /\ d \in Nat
        BY ONLY <1>3
      <4> QED BY ONLY <4>1, <3>1, PartOfPart
    <3> QED BY <3>1, <3>2, <2>1, <1>3
  <2>3. IsCut(b, <<>>, seen2, rest, y, y, q)
    <3>1. y + 1 \in Int /\ y \in Int /\ y < y + 1
      BY <2>1
    <3>2. SubSeq(b, y + 1, y) = <<>>
      BY <3>1, SubSeqEmpty
    <3> HIDE DEF seen2
    <3> QED BY ONLY <3>2, <2>1, <2>2, <1>3 DEF IsCut
  <2>5. IsAt(ranges, eol, s2, y, y, q)
    <3>1. s2.at = "part" /\ ~s2.isHeader /\ s2.part = k /\ x <= y /\ y <= y
      BY <2>1, <1>a
    <3> QED BY <3>1 DEF IsAt, IsByDelimiter, x, y
  <2>6. IsStreamOf(bytes, ranges, eol, s2, seen2, rest)
    BY <2>3, <2>5, <1>a DEF IsStreamOf, b
  <2> QED BY <2>6 DEF IsStream, n
<1> QED
  BY <1>5, <1>6, <1>b

----------------------------------------------------------------------------
(* The control of one attempt: its descriptor, its error and the digest.    *)

\* The phases of a download.
Phases == {"planning", "starting", "running", "stopping", "stopped", "done", "failed"}

\* Between the opening of the old file and its closing.
HasFiles == phase \in {"running", "stopping", "stopped"}

\* Where the download is and what it waits for: w goes on only in an attempt that runs.
Control ==
  /\ phase \in Phases
  /\ step # "none" => phase = "running"

\* The descriptor is open as long as the attempt lasts, and copies belong to an attempt.
Descriptor ==
  /\ HasFiles => oldFileOpen = TRUE
  /\ ~HasFiles => oldFileOpen = FALSE
  /\ copy # 0 => HasFiles

\* An attempt that runs has not failed, one that stops has; one that stopped without an error has
\* passed the digest check, and nothing is written after it.
Verdict ==
  /\ phase = "running" => error = "none"
  /\ phase = "stopping" => error # "none"
  /\ phase \in {"stopped", "done"} /\ error = "none" => newFile = NewBytes
  /\ phase = "done" => error = "none"

\* The three together: inductive on their own.
IInv == Control /\ Descriptor /\ Verdict

\* When the download has settled its descriptor is closed and no copy is left.
ClosedWhenSettled == IsSettled => ~oldFileOpen /\ copy = 0

\* A download reported as done has produced the new file, byte for byte.
DoneMeansNewFile == phase = "done" => newFile = NewBytes
----------------------------------------------------------------------------
\* A rejection of writeNewFile's promise stops a running attempt, with an error.
LEMMA Rejected ==
  ASSUME IInv, phase = "running", NEW e, e # "none", Reject(e),
         UNCHANGED <<oldFileOpen, inputs>>, copy' = copy
  PROVE  IInv'
  BY DEF IInv, Control, Descriptor, Verdict, HasFiles, Phases, Reject, inputs, NewBytes

\* A step inside a running attempt that opens and closes nothing.
LEMMA Continued ==
  ASSUME IInv, phase = "running", phase' = phase, error' = error, oldFileOpen' = oldFileOpen
  PROVE  IInv'
  BY DEF IInv, Control, Descriptor, Verdict, HasFiles, Phases

\* Every step of a differential download keeps the three parts, for every plan of operations,
\* every answer of the host and every number of failures.
THEOREM Invariance == Spec => []IInv
<1>1. Init => IInv
  BY DEF Init, IInv, Control, Descriptor, Verdict, HasFiles, Phases
<1>2. IInv /\ [Next]_vars => IInv'
  <2> SUFFICES ASSUME IInv, [Next]_vars PROVE IInv'
    OBVIOUS
  <2> USE DEF inputs, control, files, multipart
  <2>a. step # "none" => phase = "running"
    BY DEF IInv, Control
  <2>1. CASE ReceiveRange
    BY <2>1, <2>a, Continued DEF ReceiveRange
  <2>2. ASSUME NEW eol \in {CRLF, LF}, AnswerMultipart(eol) PROVE IInv'
    BY <2>2, <2>a, Continued DEF AnswerMultipart
  <2>3. CASE RefuseRanges
    BY <2>3, <2>a, Rejected DEF RefuseRanges, StopsFor
  <2>4. ASSUME NEW n \in 1..Len(response), ReceiveChunk(n) PROVE IInv'
    BY <2>4, <2>a, Continued DEF ReceiveChunk, Splitting, SplitterStep
  <2>5. CASE CheckPlan
    BY <2>5 DEF CheckPlan, Idle, IInv, Control, Descriptor, Verdict, HasFiles, Phases
  <2>6. CASE StartAttempt
    BY <2>6 DEF StartAttempt, IInv, Control, Descriptor, Verdict, HasFiles, Phases
  <2>7. CASE StartCancelled
    BY <2>7 DEF StartCancelled, Idle, IInv, Control, Descriptor, Verdict, HasFiles, Phases
  <2>8. CASE CloseNewFile
    BY <2>8 DEF CloseNewFile, Idle, IInv, Control, Descriptor, Verdict, HasFiles, Phases
  <2>9. CASE CloseOldFile
    <3>1. phase' \in {"starting", "done", "failed"} /\ (phase' = "done" => error = "none")
      BY <2>9 DEF CloseOldFile
    <3>2. oldFileOpen' = FALSE /\ copy' = 0 /\ step' = "none"
      BY <2>9 DEF CloseOldFile, CopiesAreClosed, IInv, Control
    <3>3. error' = error /\ newFile' = newFile /\ NewBytes' = NewBytes /\ phase = "stopped"
      BY <2>9 DEF CloseOldFile, Idle, NewBytes
    <3> QED
      BY <3>1, <3>2, <3>3 DEF IInv, Control, Descriptor, Verdict, HasFiles, Phases
  <2>10. CASE StartBatch
    BY <2>10, <2>a, Continued DEF StartBatch
  <2>11. CASE StartCopy
    BY <2>11, <2>a, Continued DEF StartCopy
  <2>12. CASE EndCopy
    BY <2>12, Continued DEF EndCopy, OutIsDestroyed
  <2>13. CASE EndStoppedCopy
    BY <2>13 DEF EndStoppedCopy, Idle, NewBytes, IInv, Control, Descriptor, Verdict, HasFiles, Phases
  <2>14. CASE RequestRange
    BY <2>14, <2>a, Continued DEF RequestRange
  <2>15. CASE EndPause
    BY <2>15 DEF EndPause, OutIsDestroyed, NewBytes, IInv, Control, Descriptor, Verdict, HasFiles,
                 Phases
  <2>16. CASE EndFile
    BY <2>16, <2>a, Continued DEF EndFile
  <2>17. CASE ValidateNewFile
    <3>1. CASE IsDigestValid(newFile)
      BY <2>17, <3>1, <2>a DEF ValidateNewFile, IsDigestValid, Idle, NewBytes, IInv, Control,
                               Descriptor, Verdict, HasFiles, Phases
    <3>2. CASE ~IsDigestValid(newFile)
      BY <2>17, <3>2, <2>a, Rejected DEF ValidateNewFile, Idle
    <3> QED
      BY <3>1, <3>2
  <2>18. CASE NextPart
    BY <2>18, <2>a, Continued DEF NextPart, Splitting, SplitterStep
  <2>19. CASE CopyExistingData
    BY <2>19, <2>a, Continued DEF CopyExistingData, Splitting, SplitterStep
  <2>20. CASE EndCopies
    <3>1. phase = "running" /\ UNCHANGED <<oldFileOpen, inputs>> /\ copy' = copy
      BY <2>20, <2>a DEF EndCopies, Splitting, SplitterStep
    <3>2. CASE UNCHANGED <<phase, error>>
      BY <3>1, <3>2, Continued
    <3>3. CASE Reject("splitter")
      BY <3>1, <3>3, Rejected
    <3> QED
      BY <2>20, <3>2, <3>3 DEF EndCopies
  <2>21. CASE SearchHeaderListEnd
    BY <2>21, <2>a, Continued DEF SearchHeaderListEnd, Splitting, SplitterStep
  <2>22. CASE ReadPart
    <3>1. phase = "running" /\ UNCHANGED <<oldFileOpen, inputs>> /\ copy' = copy
      BY <2>22, <2>a DEF ReadPart, Splitting, SplitterStep
    <3>2. CASE UNCHANGED <<phase, error>>
      BY <3>1, <3>2, Continued
    <3>3. CASE Reject("splitter")
      BY <3>1, <3>3, Rejected
    <3> QED
      BY <2>22, <3>2, <3>3 DEF ReadPart
  <2>23. CASE Watchdog
    <3>1. PICK e \in {"incomplete", "slow"} : StopsFor(e)
      BY <2>23 DEF Watchdog
    <3> QED
      BY <2>23, <3>1, <2>a, Rejected DEF Watchdog, StopsFor
  <2>24. CASE Cancel
    <3>1. CASE phase = "running"
      BY <2>24, <3>1, Rejected DEF Cancel, StopsFor
    <3>2. CASE phase # "running"
      BY <2>24, <3>2 DEF Cancel, NewBytes, IInv, Control, Descriptor, Verdict, HasFiles, Phases
    <3> QED
      BY <3>1, <3>2
  <2>25. CASE ServerFails
    BY <2>25, <2>a, Rejected DEF ServerFails, StopsFor
  <2>26. CASE TruncateResponse
    BY <2>26, <2>a, Continued DEF TruncateResponse
  <2>27. CASE UNCHANGED vars
    BY <2>27 DEF vars, NewBytes, IInv, Control, Descriptor, Verdict, HasFiles, Phases
  <2> QED
    BY <2>1, <2>2, <2>3, <2>4, <2>5, <2>6, <2>7, <2>8, <2>9, <2>10, <2>11, <2>12, <2>13, <2>14,
       <2>15, <2>16, <2>17, <2>18, <2>19, <2>20, <2>21, <2>22, <2>23, <2>24, <2>25, <2>26, <2>27
       DEF Next, ServerStep, LocalStep
<1> QED
  BY <1>1, <1>2, PTL DEF Spec

\* The old file is never read after its descriptor was closed (DifferentialDownloader.downloadFile,
\* copyData): however the download stops, and whichever timer or copy is still under way then.
THEOREM DescriptorIsSafe == Spec => []OldFileIsOpenWhileRead
<1>1. IInv => OldFileIsOpenWhileRead
  BY DEF IInv, Descriptor, OldFileIsOpenWhileRead
<1> QED
  BY <1>1, Invariance, PTL

\* The descriptor is not leaked: a download that has settled has closed it, after its last copy.
THEOREM NothingIsLeaked == Spec => []ClosedWhenSettled
<1>1. IInv => ClosedWhenSettled
  BY DEF IInv, Control, Descriptor, HasFiles, ClosedWhenSettled, IsSettled
<1> QED
  BY <1>1, Invariance, PTL

\* A download is done only with the new file: the safety half of OutcomeIsRight, for every plan,
\* right or wrong, every old file and every cut of the answer.
THEOREM DoneIsRight == Spec => []DoneMeansNewFile
<1>1. IInv => DoneMeansNewFile
  BY DEF IInv, Verdict, DoneMeansNewFile
<1> QED
  BY <1>1, Invariance, PTL

----------------------------------------------------------------------------
(* The shape of the state: types, the control of w, of its copies and of the*)
(* splitter, for every failure outside.                                     *)

\* What a download may fail with.
Errors == {"none", "plan", "cancelled", "server", "multipleRanges", "digest", "splitter", "incomplete", "slow"}

\* The number of parts of the answer to a batch.
Count(operations, b) == Len(Downloads(operations, b))

\* The block maps, and the plan for them, which no step changes.
Given ==
  /\ oldMap \in BlockMaps /\ newMap \in BlockMaps /\ isOldFileIntact \in BOOLEAN
  /\ plan \in Seq(Op)
  /\ \E u \in BOOLEAN : plan = PlanFor(oldMap, newMap, u)

\* What each part of the state may be.
Kinds ==
  /\ useMultiple \in BOOLEAN /\ cancelled \in BOOLEAN /\ oldFileOpen \in BOOLEAN /\ timer \in BOOLEAN
  /\ error \in Errors
  /\ step \in {"none", "next", "copying", "response", "split", "finishing"}
  /\ IsBatch(plan, batch) /\ next \in 1 .. Len(plan) + 1 /\ copy \in 0 .. Len(plan)
  /\ downloads \in 0 .. RangesPerPause - 1 /\ faults \in 0..MaxFaults
  /\ chunk \in Seq(Byte) /\ response \in Seq(Byte) /\ splitter \in Splitters

\* A plan that is executed has no empty range.
Executable == phase \notin {"planning", "failed"} => \A i \in DOMAIN plan : plan[i].end > plan[i].start

\* The batch is asked for with one request of several ranges.
IsMulti == useMultiple /\ Count(plan, batch) > 1

\* The copy that reads is that of the next operation; one that is asked for a range is a download,
\* a multipart answer is to a batch of which nothing was written.
Waiting ==
  /\ step # "split" => splitter = NoSplitter
  /\ timer => ~useMultiple /\ phase \notin {"planning", "starting"}
  /\ phase = "running" =>
     /\ timer <=> step = "none"
     /\ step \in {"none", "next", "copying", "response"} => next \in batch.start .. batch.end
     /\ copy # 0 => /\ copy = next /\ next < batch.end /\ plan[next].kind = "copy"
                    /\ step = "copying" \/ (step = "split" /\ splitter.at = "copies")
     /\ step = "copying" => copy = next /\ ~IsMulti
     /\ step = "next" /\ IsMulti => next = batch.end
     /\ step = "response" => IF IsMulti THEN next = batch.start
                             ELSE next < batch.end /\ plan[next].kind = "download"

\* A multipart answer is split at a place of its batch.
SplitterIsControlled ==
  step = "split" =>
    /\ IsMulti
    /\ IsControlled(Count(plan, batch), splitter)
    /\ splitter.at = "copies" =>
         /\ next \in PrevTask(plan, batch, splitter.part) .. Task(plan, batch, splitter.part)
         /\ copy # 0 => next < Task(plan, batch, splitter.part)

\* Types and control: what a step keeps, whatever goes wrong outside.
Shape == Given /\ Kinds /\ Executable /\ Waiting /\ SplitterIsControlled

\* Everything but the control of one attempt.
Inv == IInv /\ Shape

\* The batch of the state.
LEMMA BatchOfState ==
  ASSUME Given, Kinds
  PROVE  /\ Count(plan, batch) \in Nat /\ PartCount = Count(plan, batch)
         /\ Len(plan) \in Nat /\ batch.start \in 1 .. Len(plan) + 1 /\ batch.end \in 1 .. Len(plan) + 1
         /\ batch.start <= batch.end
         /\ Task(plan, batch, Count(plan, batch)) = batch.end /\ PrevTask(plan, batch, 0) = batch.start
         /\ \A k \in 0 .. Count(plan, batch) :
              /\ TaskOf(k) = Task(plan, batch, k) /\ PrevTaskOf(k) = PrevTask(plan, batch, k)
              /\ Task(plan, batch, k) \in batch.start .. batch.end
              /\ PrevTask(plan, batch, k) \in batch.start .. Task(plan, batch, k)
              /\ \A j \in PrevTask(plan, batch, k) .. Task(plan, batch, k) - 1 : plan[j].kind = "copy"
         /\ \A k \in 0 .. Count(plan, batch) - 1 :
              /\ PrevTask(plan, batch, k + 1) = Task(plan, batch, k) + 1
              /\ Task(plan, batch, k) < batch.end
              /\ plan[Task(plan, batch, k)].kind = "download"
              /\ Task(plan, batch, k) \in 1 .. Len(plan)
<1>1. plan \in Seq(Op) /\ IsBatch(plan, batch)
  BY DEF Given, Kinds
<1> DEFINE n == Count(plan, batch)
<1>2. /\ n \in Nat /\ PartCount = n
      /\ Task(plan, batch, n) = batch.end /\ PrevTask(plan, batch, 0) = batch.start
  BY <1>1, BatchProperties DEF Count, PartCount
<1>3. \A k \in 0..n : /\ Task(plan, batch, k) \in batch.start .. batch.end
                      /\ PrevTask(plan, batch, k) \in batch.start .. Task(plan, batch, k)
                      /\ \A j \in PrevTask(plan, batch, k) .. Task(plan, batch, k) - 1 : plan[j].kind = "copy"
  BY <1>1, BatchProperties DEF Count
<1>4. \A k \in 0 .. n - 1 : /\ PrevTask(plan, batch, k + 1) = Task(plan, batch, k) + 1
                            /\ Task(plan, batch, k) < batch.end
                            /\ plan[Task(plan, batch, k)].kind = "download"
  BY <1>1, BatchProperties DEF Count
<1>5. /\ Len(plan) \in Nat /\ batch.start \in 1 .. Len(plan) + 1 /\ batch.end \in 1 .. Len(plan) + 1
      /\ batch.start <= batch.end
  BY <1>1 DEF IsBatch
<1>6. \A k : TaskOf(k) = Task(plan, batch, k)
  BY DEF TaskOf, Task, PartCount
<1>7. \A k : PrevTaskOf(k) = PrevTask(plan, batch, k)
  BY <1>6 DEF PrevTaskOf, PrevTask
<1>8. \A k \in 0 .. n - 1 : Task(plan, batch, k) \in 1 .. Len(plan)
  <2> SUFFICES ASSUME NEW k \in 0 .. n - 1 PROVE Task(plan, batch, k) \in 1 .. Len(plan)
    OBVIOUS
  <2>1. k \in 0..n
    BY <1>2
  <2>2. Task(plan, batch, k) \in batch.start .. batch.end /\ Task(plan, batch, k) < batch.end
    BY <2>1, <1>3, <1>4
  <2> HIDE DEF n
  <2> QED BY <2>2, <1>5
<1> HIDE DEF n
<1>9. \A k \in 0..n : TaskOf(k) = Task(plan, batch, k) /\ PrevTaskOf(k) = PrevTask(plan, batch, k)
  BY <1>6, <1>7
<1> QED
  BY <1>2, <1>3, <1>4, <1>5, <1>8, <1>9 DEF n

\* The ranges that the multipart answer of the state is made of.
Ranges == [k \in 1 .. Count(plan, batch) |-> plan[Task(plan, batch, k - 1)]]

\* The ranges are the downloads of the batch, and the answer is to them.
LEMMA RangesOfState ==
  ASSUME Given, Kinds
  PROVE  /\ Ranges \in Seq(Op) /\ Len(Ranges) = Count(plan, batch)
         /\ \A k \in 0 .. Count(plan, batch) - 1 :
              /\ Ranges[k + 1] = plan[Task(plan, batch, k)]
              /\ PartLength(k) = Length(Ranges[k + 1])
         /\ \A eol : MultipartBody(eol) = AnswerTo(NewBytes, Ranges, eol)
<1> DEFINE n == Count(plan, batch)
           T(k) == Task(plan, batch, k)
<1>1. n \in Nat /\ PartCount = n /\ plan \in Seq(Op)
  BY BatchOfState DEF Given
<1>2. \A k \in 0 .. n - 1 : T(k) \in 1 .. Len(plan) /\ plan[T(k)] \in Op
  <2>1. \A k \in 0 .. n - 1 : T(k) \in 1 .. Len(plan)
    BY BatchOfState
  <2> HIDE DEF T
  <2> QED BY <2>1, <1>1
<1>3. \A k \in 0..n : TaskOf(k) = T(k)
  BY BatchOfState
<1> HIDE DEF n, T
<1>4. \A k \in 1..n : k - 1 \in 0 .. n - 1 /\ k - 1 \in 0..n
  BY <1>1
<1>5. Ranges = [k \in 1..n |-> plan[T(k - 1)]]
  BY DEF Ranges, n, T
<1>6. Ranges \in [1..n -> Op]
  BY <1>2, <1>4, <1>5
<1>7. Ranges \in Seq(Op) /\ Len(Ranges) = n
  BY <1>1, <1>6
<1>8. \A k \in 0 .. n - 1 : Ranges[k + 1] = plan[T(k)] /\ PartLength(k) = Length(Ranges[k + 1])
  <2> SUFFICES ASSUME NEW k \in 0 .. n - 1
               PROVE  Ranges[k + 1] = plan[T(k)] /\ PartLength(k) = Length(Ranges[k + 1])
    OBVIOUS
  <2>1. k + 1 \in 1..n /\ (k + 1) - 1 = k /\ k \in 0..n
    BY <1>1
  <2>2. Ranges[k + 1] = plan[T(k)]
    BY <1>5, <2>1
  <2>3. PartLength(k) = Length(plan[T(k)])
    BY <1>3, <2>1 DEF PartLength
  <2> QED BY <2>2, <2>3
<1>9. \A eol : MultipartBody(eol) = AnswerTo(NewBytes, Ranges, eol)
  <2>1. [k \in 1..PartCount |-> plan[TaskOf(k - 1)]] = Ranges
    <3>1. \A k \in 1..n : plan[TaskOf(k - 1)] = plan[T(k - 1)]
      BY <1>3, <1>4
    <3> QED BY <3>1, <1>1, <1>5
  <2> QED BY <2>1 DEF MultipartBody
<1> QED
  BY <1>7, <1>8, <1>9 DEF n, T

\* The new file of the state.
LEMMA NewFileOfState ==
  ASSUME Given
  PROVE  NewBytes \in Seq(Byte) /\ FileOf(newMap) \in Seq(Byte) /\ FileMetadata \in Seq(Byte)
         /\ Len(NewBytes) = Len(FileOf(newMap)) + Len(FileMetadata)
         /\ Len(NewBytes) \in Nat /\ Len(FileOf(newMap)) \in Nat /\ Len(FileMetadata) \in Nat
<1>1. FileOf(newMap) \in Seq(Byte) /\ FileMetadata \in Seq(Byte)
  BY FileProperties, MetadataAssumption DEF Given
<1> DEFINE f == FileOf(newMap)
<1> HIDE DEF f
<1>2. f \in Seq(Byte) /\ FileMetadata \in Seq(Byte)
  BY <1>1 DEF f
<1>3. f \o FileMetadata \in Seq(Byte) /\ Len(f \o FileMetadata) = Len(f) + Len(FileMetadata)
  BY <1>2, ConcatProperties
<1> QED
  BY <1>2, <1>3 DEF f, NewBytes

\* The files and the plan stay, ...
LEMMA GivenIsKept ==
  ASSUME Given, UNCHANGED <<inputs, plan>>
  PROVE  Given'
  BY DEF Given, inputs

\* ... in every step.
LEMMA NothingGivenChanges ==
  ASSUME [Next]_vars
  PROVE  UNCHANGED <<inputs, plan>>
<1> USE DEF control, vars
<1>1. ASSUME ServerStep PROVE UNCHANGED <<inputs, plan>>
  BY <1>1 DEF ServerStep, ReceiveRange, AnswerMultipart, RefuseRanges, StopsFor, ReceiveChunk, SplitterStep
<1>2. ASSUME LocalStep PROVE UNCHANGED <<inputs, plan>>
  <2>1. CASE CheckPlan \/ StartAttempt \/ StartCancelled \/ CloseNewFile \/ CloseOldFile
    BY <2>1 DEF CheckPlan, StartAttempt, StartCancelled, CloseNewFile, CloseOldFile, Idle
  <2>2. CASE StartBatch \/ StartCopy \/ EndCopy \/ EndStoppedCopy \/ RequestRange \/ EndPause
    BY <2>2 DEF StartBatch, StartCopy, EndCopy, EndStoppedCopy, RequestRange, EndPause, Idle
  <2>3. CASE EndFile \/ ValidateNewFile \/ Watchdog
    BY <2>3 DEF EndFile, ValidateNewFile, Watchdog, StopsFor, Idle
  <2>4. CASE NextPart \/ CopyExistingData \/ EndCopies \/ SearchHeaderListEnd \/ ReadPart
    BY <2>4 DEF NextPart, CopyExistingData, EndCopies, SearchHeaderListEnd, ReadPart, SplitterStep
  <2> QED BY <1>2, <2>1, <2>2, <2>3, <2>4 DEF LocalStep
<1>3. ASSUME Cancel \/ ServerFails \/ TruncateResponse PROVE UNCHANGED <<inputs, plan>>
  BY <1>3 DEF Cancel, ServerFails, TruncateResponse, StopsFor
<1>4. ASSUME UNCHANGED vars PROVE UNCHANGED <<inputs, plan>>
  BY <1>4
<1> QED
  BY <1>1, <1>2, <1>3, <1>4 DEF Next

\* The parts that a step may change.
Moving == Kinds /\ Executable /\ Waiting /\ SplitterIsControlled

\* An attempt that stops leaves nothing to wait for.
LEMMA MovingStops ==
  ASSUME Inv, phase = "running", NEW e \in Errors, Reject(e),
         UNCHANGED <<plan, useMultiple, oldFileOpen, next, batch, copy, downloads, timer>>,
         cancelled' \in BOOLEAN, faults' \in 0..MaxFaults
  PROVE  Moving'
<1>1. NoSplitter \in Splitters /\ <<>> \in Seq(Byte)
  BY DEF NoSplitter, Splitters
<1>2. Kinds'
  BY <1>1 DEF Inv, Shape, Kinds, Reject
<1>3. Executable' /\ Waiting' /\ SplitterIsControlled'
  BY DEF Inv, Shape, Executable, Waiting, SplitterIsControlled, Reject
<1> QED BY <1>2, <1>3 DEF Moving

\* Before an attempt, between two and after the last.
LEMMA MovingOutside ==
  ASSUME Inv, IInv', CheckPlan \/ StartCancelled \/ CloseNewFile \/ CloseOldFile
  PROVE  Moving'
<1> USE DEF control, files, multipart, inputs
<1>1. CASE CheckPlan
  <2>1. IsPlanValid(plan, Len(NewBytes) - Len(FileMetadata)) => \A i \in DOMAIN plan : plan[i].end > plan[i].start
    BY DEF IsPlanValid
  <2>2. Kinds'
    BY <1>1 DEF CheckPlan, Idle, Inv, Shape, Kinds, Errors
  <2>3. step = "none" /\ step' = "none" /\ phase' \in {"starting", "failed"} /\ UNCHANGED <<splitter, plan>>
    BY <1>1 DEF CheckPlan, Idle, Inv, IInv, Control
  <2>4. Executable'
    BY <1>1, <2>1 DEF CheckPlan, Idle, Executable
  <2>5. Waiting'
    BY <1>1, <2>3 DEF CheckPlan, Idle, Inv, Shape, Waiting
  <2>6. SplitterIsControlled'
    BY <2>3 DEF SplitterIsControlled
  <2> QED BY <2>2, <2>4, <2>5, <2>6 DEF Moving
<1>2. CASE StartCancelled
  <2>2. Kinds'
    BY <1>2 DEF StartCancelled, Idle, Inv, Shape, Kinds, Errors
  <2>3. step = "none" /\ step' = "none" /\ phase' = "failed" /\ UNCHANGED <<splitter, plan>>
    BY <1>2 DEF StartCancelled, Idle, Inv, IInv, Control
  <2>4. Executable'
    BY <2>3 DEF Executable
  <2>5. Waiting'
    BY <1>2, <2>3 DEF StartCancelled, Idle, Inv, Shape, Waiting
  <2>6. SplitterIsControlled'
    BY <2>3 DEF SplitterIsControlled
  <2> QED BY <2>2, <2>4, <2>5, <2>6 DEF Moving
<1>3. CASE CloseNewFile
  <2>2. Kinds'
    BY <1>3 DEF CloseNewFile, Idle, Inv, Shape, Kinds, Errors
  <2>3. step = "none" /\ step' = "none" /\ phase' = "stopped" /\ phase = "stopping" /\ UNCHANGED <<splitter, plan>>
    BY <1>3 DEF CloseNewFile, Idle, Inv, IInv, Control
  <2>4. Executable'
    BY <2>3 DEF Executable, Inv, Shape
  <2>5. Waiting'
    BY <1>3, <2>3 DEF CloseNewFile, Idle, Inv, Shape, Waiting
  <2>6. SplitterIsControlled'
    BY <2>3 DEF SplitterIsControlled
  <2> QED BY <2>2, <2>4, <2>5, <2>6 DEF Moving
<1>4. CASE CloseOldFile
  <2>2. Kinds'
    BY <1>4 DEF CloseOldFile, Idle, Inv, Shape, Kinds, Errors
  <2>3. step = "none" /\ step' = "none" /\ phase' \in {"starting", "done", "failed"} /\ phase = "stopped"
        /\ UNCHANGED <<splitter, plan>> /\ (phase' = "starting" => useMultiple)
    BY <1>4 DEF CloseOldFile, Idle, Inv, IInv, Control
  <2>4. Executable'
    BY <2>3 DEF Executable, Inv, Shape
  <2>5. Waiting'
    BY <1>4, <2>3 DEF CloseOldFile, Idle, Inv, Shape, Waiting
  <2>6. SplitterIsControlled'
    BY <2>3 DEF SplitterIsControlled
  <2> QED BY <2>2, <2>4, <2>5, <2>6 DEF Moving
<1> QED BY <1>1, <1>2, <1>3, <1>4

\* An attempt starts with the first operation.
LEMMA MovingStarts ==
  ASSUME Inv, IInv', StartAttempt
  PROVE  Moving'
<1> USE DEF control, files, multipart, inputs
<1>1. plan \in Seq(Op) /\ Len(plan) \in Nat
  BY DEF Inv, Shape, Given
<1>2. batch' = [start |-> 1, end |-> IF useMultiple THEN 1 ELSE Len(plan) + 1] /\ plan' = plan
      /\ useMultiple' = useMultiple /\ next' = 1 /\ downloads' = 0 /\ step' = "next" /\ UNCHANGED <<copy, timer, chunk, response, splitter>>
      /\ error' = "none" /\ phase' = "running" /\ phase = "starting" /\ oldFileOpen' = TRUE /\ cancelled' = cancelled
      /\ faults' = faults
  BY DEF StartAttempt
<1>3. IsBatch(plan, batch') /\ batch'.start = 1 /\ batch'.end \in 1 .. Len(plan) + 1
      /\ (~useMultiple => batch'.end = Len(plan) + 1) /\ (useMultiple => batch'.end = 1)
  <2>1. batch'.start = 1 /\ batch'.end = IF useMultiple THEN 1 ELSE Len(plan) + 1
    BY <1>2
  <2>2. 1 \in 1 .. Len(plan) + 1 /\ Len(plan) + 1 \in 1 .. Len(plan) + 1
    BY <1>1
  <2>3. batch' \in [start : 1 .. Len(plan) + 1, end : 1 .. Len(plan) + 1]
    BY <1>2, <2>2
  <2> QED BY <2>1, <2>2, <2>3, <1>1 DEF IsBatch
<1>4. Kinds'
  <2>1. 0 \in 0 .. RangesPerPause - 1
    BY LimitsAssumption
  <2>2. next' \in 1 .. Len(plan') + 1
    BY <1>1, <1>2
  <2>3. IsBatch(plan', batch')
    BY <1>2, <1>3
  <2> QED BY <1>2, <2>1, <2>2, <2>3 DEF Inv, Shape, Kinds, Errors
<1>5. copy = 0 /\ ~timer /\ step = "none" /\ splitter = NoSplitter
  BY <1>2 DEF Inv, Shape, Waiting, Kinds, IInv, Control, Descriptor, HasFiles
<1>6. ~IsMulti' \/ next' = batch'.end
  BY <1>2, <1>3 DEF IsMulti
<1>7. Waiting'
  BY <1>1, <1>2, <1>3, <1>5, <1>6 DEF Waiting
<1>8. Executable' /\ SplitterIsControlled'
  BY <1>2 DEF Executable, SplitterIsControlled, Inv, Shape
<1> QED BY <1>4, <1>7, <1>8 DEF Moving

\* The steps of w: a batch, ...
LEMMA MovingBatch ==
  ASSUME Inv, StartBatch
  PROVE  Moving'
<1> USE DEF control, files, multipart, inputs
<1>1. plan \in Seq(Op) /\ Len(plan) \in Nat /\ next \in 1 .. Len(plan) + 1 /\ phase = "running" /\ phase' = phase
      /\ plan' = plan /\ IsBatch(plan, batch) /\ next <= Len(plan)
  BY DEF StartBatch, Inv, Shape, Given, Kinds, IInv, Control
<1>2. ComputeBatchEnd(next) \in next .. Len(plan) + 1
  BY <1>1, BatchEndIsRight
<1>3. IsBatch(plan, batch') /\ batch'.start = next /\ batch'.end = ComputeBatchEnd(next)
  <2>1. batch' = [start |-> next, end |-> ComputeBatchEnd(next)]
    BY DEF StartBatch
  <2> DEFINE e == ComputeBatchEnd(next)
  <2>2. e \in 1 .. Len(plan) + 1 /\ next <= e
    BY <1>1, <1>2
  <2> HIDE DEF e
  <2> QED BY <2>1, <2>2, <1>1 DEF IsBatch, e
<1>4. step = "next" /\ step' \in {"response", "next"} /\ (step' = "response" <=> Count(plan, batch') > 1)
      /\ useMultiple /\ UNCHANGED <<phase, error, useMultiple, cancelled, plan, oldFileOpen, next, copy, downloads, timer,
                                    chunk, response, splitter, faults>>
  BY DEF StartBatch, Count
<1>5. Kinds'
  BY <1>1, <1>3, <1>4 DEF Inv, Shape, Kinds
<1>6. Executable' /\ SplitterIsControlled'
  BY <1>4 DEF Executable, SplitterIsControlled, Inv, Shape
<1>7. copy = 0 /\ ~timer /\ splitter = NoSplitter
  BY <1>1, <1>4 DEF Inv, Shape, Waiting, Kinds
<1>8. Waiting'
  <2>1. next' \in batch'.start .. batch'.end /\ next' = batch'.start
    BY <1>1, <1>2, <1>3, <1>4
  <2>2. IsMulti' <=> step' = "response"
    BY <1>4 DEF IsMulti
  <2> QED BY <1>1, <1>4, <1>7, <2>1, <2>2 DEF Waiting, Inv, Shape
<1> QED BY <1>5, <1>6, <1>8 DEF Moving

\* ... a copy, ...
LEMMA MovingStartCopy ==
  ASSUME Inv, StartCopy
  PROVE  Moving'
<1> USE DEF control, files, multipart, inputs
<1>1. phase = "running" /\ step = "next" /\ next < batch.end /\ plan[next].kind = "copy" /\ copy' = next /\ step' = "copying"
      /\ UNCHANGED <<phase, error, useMultiple, cancelled, plan, oldFileOpen, next, batch, downloads, timer,
                     chunk, response, splitter, faults>>
  BY DEF StartCopy, OutIsDestroyed
<1>2. next \in 1 .. Len(plan) /\ Len(plan) \in Nat /\ next \in Nat
  BY <1>1, BatchOfState DEF Inv, Shape, Kinds
<1>3. Kinds'
  BY <1>1, <1>2 DEF Inv, Shape, Kinds
<1>4. Executable' /\ SplitterIsControlled'
  BY <1>1 DEF Executable, SplitterIsControlled, Inv, Shape
<1>5. IsMulti' <=> IsMulti
  BY <1>1 DEF IsMulti
<1>6. Waiting'
  <2>1. ~IsMulti
    <3>1. IsMulti => next = batch.end
      BY <1>1 DEF Waiting, Inv, Shape
    <3>2. batch.end \in Nat
      BY BatchOfState DEF Inv, Shape
    <3> QED BY <3>1, <3>2, <1>1
  <2> QED BY <1>1, <1>5, <2>1 DEF Waiting, Inv, Shape
<1> QED BY <1>3, <1>4, <1>6 DEF Moving

\* ... that ends, in w or between the parts of an answer, ...
LEMMA MovingEndCopy ==
  ASSUME Inv, EndCopy
  PROVE  Moving'
<1> USE DEF control, files, multipart, inputs
<1>1. phase = "running" /\ copy # 0 /\ next' = copy + 1 /\ copy' = 0 /\ step' = (IF step = "copying" THEN "next" ELSE step)
      /\ UNCHANGED <<phase, error, useMultiple, cancelled, plan, oldFileOpen, batch, downloads, timer,
                     chunk, response, splitter, faults>>
  BY DEF EndCopy, OutIsDestroyed
<1>2. copy = next /\ next < batch.end /\ (step = "copying" \/ (step = "split" /\ splitter.at = "copies"))
      /\ (step = "copying" => ~IsMulti)
  BY <1>1 DEF Waiting, Inv, Shape
<1>3. Len(plan) \in Nat /\ next \in Nat /\ batch.start \in Nat /\ batch.end \in 1 .. Len(plan) + 1 /\ next >= 1
  BY BatchOfState DEF Inv, Shape, Kinds
<1>4. next' \in 1 .. Len(plan) + 1 /\ next' = next + 1 /\ next' <= batch.end
  BY <1>1, <1>2, <1>3
<1>5. Kinds'
  BY <1>1, <1>4 DEF Inv, Shape, Kinds
<1>6. Executable'
  BY <1>1 DEF Executable, Inv, Shape
<1>7. IsMulti' <=> IsMulti
  BY <1>1 DEF IsMulti
<1>8. CASE step = "copying"
  <2>1. step' = "next" /\ next \in batch.start .. batch.end /\ ~timer /\ splitter = NoSplitter /\ ~IsMulti
    BY <1>1, <1>2, <1>8 DEF Waiting, Inv, Shape
  <2>2. next' \in batch'.start .. batch'.end
    BY <1>1, <1>3, <1>4, <2>1
  <2>3. Waiting'
    BY <1>1, <1>7, <2>1, <2>2 DEF Waiting, Inv, Shape
  <2>4. SplitterIsControlled'
    BY <2>1 DEF SplitterIsControlled
  <2> QED BY <1>5, <1>6, <2>3, <2>4 DEF Moving
<1>9. CASE step = "split" /\ splitter.at = "copies"
  <2>1. step' = "split" /\ ~timer
    BY <1>1, <1>2, <1>9 DEF Waiting, Inv, Shape
  <2>2. Waiting'
    BY <1>1, <2>1 DEF Waiting, Inv, Shape
  <2>3. /\ IsMulti /\ IsControlled(Count(plan, batch), splitter)
        /\ next \in PrevTask(plan, batch, splitter.part) .. Task(plan, batch, splitter.part)
        /\ next < Task(plan, batch, splitter.part)
    BY <1>1, <1>9 DEF SplitterIsControlled, Inv, Shape
  <2> DEFINE a == PrevTask(plan, batch, splitter.part)
             b == Task(plan, batch, splitter.part)
  <2>4. a \in Int /\ b \in Int
    <3> DEFINE k == splitter.part
    <3>1. k \in 0 .. Count(plan, batch)
      BY <1>9, <2>3 DEF IsControlled
    <3> HIDE DEF k
    <3>2. Task(plan, batch, k) \in batch.start .. batch.end
          /\ PrevTask(plan, batch, k) \in batch.start .. Task(plan, batch, k)
      BY <3>1, BatchOfState DEF Inv, Shape
    <3>3. Task(plan, batch, k) \in Int /\ PrevTask(plan, batch, k) \in Int
      BY <3>2, <1>3
    <3> QED BY <3>3 DEF k
  <2>5. next' \in a..b
    <3>1. next \in a..b /\ next < b
      BY <2>3
    <3> HIDE DEF a, b
    <3> QED BY <2>4, <3>1, <1>4, <1>3
  <2>6. SplitterIsControlled'
    BY <1>1, <1>7, <2>3, <2>5 DEF SplitterIsControlled
  <2> QED BY <1>5, <1>6, <2>2, <2>6 DEF Moving
<1> QED BY <1>2, <1>8, <1>9

\* ... or that ends when the attempt has stopped, ...
LEMMA MovingStoppedCopy ==
  ASSUME Inv, EndStoppedCopy
  PROVE  Moving'
<1> USE DEF control, files, multipart, inputs
<1>1. phase # "running" /\ copy' = 0
      /\ UNCHANGED <<phase, error, useMultiple, cancelled, plan, oldFileOpen, step, next, batch, downloads, timer,
                     chunk, response, splitter, faults>>
  BY DEF EndStoppedCopy, OutIsDestroyed, Idle
<1>2. step = "none"
  BY <1>1 DEF Inv, IInv, Control
<1>3. Kinds'
  BY <1>1 DEF Inv, Shape, Kinds
<1>4. Executable' /\ SplitterIsControlled' /\ Waiting'
  BY <1>1, <1>2 DEF Executable, SplitterIsControlled, Waiting, Inv, Shape
<1> QED BY <1>3, <1>4 DEF Moving

\* ... the request of a range ...
LEMMA MovingRequest ==
  ASSUME Inv, RequestRange
  PROVE  Moving'
<1> USE DEF control, files, multipart, inputs
<1>1. phase = "running" /\ step = "next" /\ next < batch.end /\ plan[next].kind = "download" /\ step' = "response"
      /\ UNCHANGED <<phase, error, useMultiple, cancelled, plan, oldFileOpen, next, batch, copy, downloads, timer,
                     chunk, response, splitter, faults>>
  BY DEF RequestRange, OutIsDestroyed
<1>3. Kinds'
  BY <1>1 DEF Inv, Shape, Kinds
<1>4. Executable' /\ SplitterIsControlled'
  BY <1>1 DEF Executable, SplitterIsControlled, Inv, Shape
<1>5. IsMulti' <=> IsMulti
  BY <1>1 DEF IsMulti
<1>6. Waiting'
  <2>1. ~IsMulti
    <3>1. IsMulti => next = batch.end
      BY <1>1 DEF Waiting, Inv, Shape
    <3>2. batch.end \in Nat
      BY BatchOfState DEF Inv, Shape
    <3> QED BY <3>1, <3>2, <1>1
  <2> QED BY <1>1, <1>5, <2>1 DEF Waiting, Inv, Shape
<1> QED BY <1>3, <1>4, <1>6 DEF Moving

\* ... and its answer, with the pause after many.
LEMMA MovingRange ==
  ASSUME Inv, ReceiveRange
  PROVE  Moving'
<1> USE DEF control, files, multipart, inputs
<1>1. /\ step = "response" /\ ~IsMultiRequest /\ next' = next + 1
      /\ downloads' = IF useMultiple THEN downloads ELSE (downloads + 1) % RangesPerPause
      /\ timer' = (~useMultiple /\ downloads + 1 = RangesPerPause)
      /\ step' = IF ~useMultiple /\ downloads + 1 = RangesPerPause THEN "none" ELSE "next"
      /\ UNCHANGED <<phase, error, useMultiple, cancelled, plan, oldFileOpen, batch, copy,
                     chunk, response, splitter, faults>>
  BY DEF ReceiveRange
<1>2. phase = "running"
  BY <1>1 DEF Inv, IInv, Control
<1>3. (IsMulti <=> IsMultiRequest) /\ (IsMulti' <=> IsMulti)
  <2>1. PartCount = Count(plan, batch)
    BY BatchOfState DEF Inv, Shape
  <2>2. IsMulti <=> IsMultiRequest
    BY <2>1 DEF IsMulti, IsMultiRequest
  <2>3. IsMulti' <=> IsMulti
    BY <1>1 DEF IsMulti
  <2> QED BY <2>2, <2>3
<1>4. next < batch.end /\ next \in batch.start .. batch.end /\ copy = 0 /\ splitter = NoSplitter
  BY <1>1, <1>2, <1>3 DEF Waiting, Inv, Shape, Kinds
<1>5. next' \in batch.start .. batch.end /\ next' \in 1 .. Len(plan) + 1
  BY <1>1, <1>4, BatchOfState DEF Inv, Shape
<1>6. downloads' \in 0 .. RangesPerPause - 1
  <2>1. RangesPerPause \in Nat \ {0} /\ downloads \in 0 .. RangesPerPause - 1
    BY LimitsAssumption DEF Inv, Shape, Kinds
  <2>2. (downloads + 1) % RangesPerPause \in 0 .. RangesPerPause - 1
    BY <2>1
  <2> QED BY <1>1, <2>1, <2>2
<1>7. Kinds'
  <2>1. timer' \in BOOLEAN
    BY <1>1
  <2> QED BY <1>1, <1>5, <1>6, <2>1 DEF Inv, Shape, Kinds
<1>8. Executable' /\ SplitterIsControlled'
  BY <1>1, <1>2 DEF Executable, SplitterIsControlled, Inv, Shape
<1>9. Waiting'
  BY <1>1, <1>2, <1>3, <1>4, <1>5 DEF Waiting, Inv, Shape
<1> QED BY <1>7, <1>8, <1>9 DEF Moving

\* After a pause w goes on where it was, if the attempt still runs.
LEMMA MovingPause ==
  ASSUME Inv, EndPause
  PROVE  Moving'
<1> USE DEF control, files, multipart, inputs
<1>1. timer /\ timer' = FALSE /\ step' = (IF phase # "running" THEN step ELSE "next")
      /\ UNCHANGED <<phase, error, useMultiple, cancelled, plan, oldFileOpen, next, batch, copy, downloads,
                     chunk, response, splitter, faults>>
  BY DEF EndPause, OutIsDestroyed
<1>2. Kinds'
  BY <1>1 DEF Inv, Shape, Kinds
<1>3. (IsMulti' <=> IsMulti) /\ ~IsMulti
  BY <1>1 DEF IsMulti, Waiting, Inv, Shape
<1>4. step = "none" /\ splitter = NoSplitter /\ step' # "split"
  BY <1>1 DEF Waiting, Inv, Shape, IInv, Control
<1>5. Executable' /\ SplitterIsControlled'
  BY <1>1, <1>4 DEF Executable, SplitterIsControlled, Inv, Shape
<1>6. Waiting'
  BY <1>1, <1>3, <1>4 DEF Waiting, Inv, Shape
<1> QED BY <1>2, <1>5, <1>6 DEF Moving

\* The end of the file ...
LEMMA MovingEndFile ==
  ASSUME Inv, EndFile
  PROVE  Moving'
<1> USE DEF control, files, multipart, inputs
<1>1. step = "next" /\ step' = "finishing"
      /\ UNCHANGED <<phase, error, useMultiple, cancelled, plan, oldFileOpen, next, batch, copy, downloads, timer,
                     chunk, response, splitter, faults>>
  BY DEF EndFile
<1>2. Kinds'
  BY <1>1 DEF Inv, Shape, Kinds
<1>3. Executable' /\ SplitterIsControlled' /\ Waiting'
  BY <1>1 DEF Executable, SplitterIsControlled, Waiting, Inv, Shape
<1> QED BY <1>2, <1>3 DEF Moving

\* ... and its digest.
LEMMA MovingValidate ==
  ASSUME Inv, ValidateNewFile
  PROVE  Moving'
<1> USE DEF control, files, multipart, inputs
<1>1. step = "finishing" /\ phase = "running"
      /\ UNCHANGED <<useMultiple, cancelled, plan, oldFileOpen, next, batch, copy, downloads, timer, faults>>
  BY DEF ValidateNewFile, Idle, Inv, IInv, Control
<1>2. CASE Reject("digest")
  <2>1. cancelled' \in BOOLEAN /\ faults' \in 0..MaxFaults /\ "digest" \in Errors
    BY <1>1 DEF Inv, Shape, Kinds, Errors
  <2> QED BY <1>1, <1>2, <2>1, MovingStops
<1>3. CASE phase' = "stopped" /\ step' = "none" /\ UNCHANGED <<error, multipart>>
  <2>1. Kinds'
    BY <1>1, <1>3 DEF Inv, Shape, Kinds
  <2>2. Executable' /\ SplitterIsControlled' /\ Waiting'
    BY <1>1, <1>3 DEF Executable, SplitterIsControlled, Waiting, Inv, Shape
  <2> QED BY <2>1, <2>2 DEF Moving
<1> QED BY <1>2, <1>3 DEF ValidateNewFile

\* What may stop an attempt from outside.
LEMMA MovingFailures ==
  ASSUME Inv, RefuseRanges \/ Cancel \/ ServerFails \/ Watchdog
  PROVE  Moving'
<1> USE DEF control, files, multipart, inputs
<1>0. cancelled \in BOOLEAN /\ faults \in 0..MaxFaults /\ MaxFaults \in Nat
  BY LimitsAssumption DEF Inv, Shape, Kinds
<1>1. CASE RefuseRanges
  <2>1. phase = "running" /\ "multipleRanges" \in Errors /\ Reject("multipleRanges")
        /\ UNCHANGED <<cancelled, faults, useMultiple, plan, oldFileOpen, next, batch, copy, downloads, timer>>
    BY <1>1 DEF RefuseRanges, StopsFor, Inv, IInv, Control, Errors
  <2> QED BY <1>0, <2>1, MovingStops
<1>2. CASE ServerFails
  <2>1. phase = "running" /\ "server" \in Errors /\ Reject("server")
        /\ UNCHANGED <<cancelled, useMultiple, plan, oldFileOpen, next, batch, copy, downloads, timer>>
        /\ faults < MaxFaults /\ faults' = faults + 1
    BY <1>2 DEF ServerFails, StopsFor, Inv, IInv, Control, Errors
  <2>2. faults' \in 0..MaxFaults /\ cancelled' \in BOOLEAN
    BY <1>0, <2>1
  <2> QED BY <2>1, <2>2, MovingStops
<1>3. CASE Watchdog
  <2>1. PICK e \in {"incomplete", "slow"} : StopsFor(e)
    BY <1>3 DEF Watchdog
  <2>2. phase = "running" /\ e \in Errors /\ Reject(e)
        /\ UNCHANGED <<cancelled, faults, useMultiple, plan, oldFileOpen, next, batch, copy, downloads, timer>>
    BY <1>3, <2>1 DEF Watchdog, StopsFor, Inv, IInv, Control, Errors
  <2> QED BY <1>0, <2>2, MovingStops
<1>4. CASE Cancel
  <2>1. cancelled' \in BOOLEAN /\ faults' \in 0..MaxFaults
    BY <1>0, <1>4 DEF Cancel
  <2>2. CASE phase = "running"
    <3>1. "cancelled" \in Errors /\ Reject("cancelled")
          /\ UNCHANGED <<useMultiple, plan, oldFileOpen, next, batch, copy, downloads, timer>>
      BY <1>4, <2>2 DEF Cancel, StopsFor, Errors
    <3> QED BY <2>1, <2>2, <3>1, MovingStops
  <2>3. CASE phase # "running"
    <3>1. UNCHANGED <<phase, error, useMultiple, plan, oldFileOpen, step, next, batch, copy, downloads, timer,
                      chunk, response, splitter>>
      BY <1>4, <2>3 DEF Cancel
    <3>2. Kinds'
      BY <2>1, <3>1 DEF Inv, Shape, Kinds
    <3>3. Executable' /\ SplitterIsControlled' /\ Waiting'
      BY <3>1, <2>3 DEF Executable, SplitterIsControlled, Waiting, Inv, Shape, IInv, Control
    <3> QED BY <3>2, <3>3 DEF Moving
  <2> QED BY <2>2, <2>3
<1> QED BY <1>1, <1>2, <1>3, <1>4

\* The connection that closes in an answer.
LEMMA MovingTruncated ==
  ASSUME Inv, TruncateResponse
  PROVE  Moving'
<1> USE DEF control, files, multipart, inputs
<1>1. step = "split" /\ response' = <<>> /\ faults < MaxFaults /\ faults' = faults + 1
      /\ UNCHANGED <<phase, error, useMultiple, cancelled, plan, oldFileOpen, step, next, batch, copy, downloads, timer,
                     chunk, splitter>>
  BY DEF TruncateResponse
<1>2. Kinds'
  <2>1. faults' \in 0..MaxFaults
    BY <1>1, LimitsAssumption DEF Inv, Shape, Kinds
  <2>2. <<>> \in Seq(Byte)
    OBVIOUS
  <2> QED BY <1>1, <2>1, <2>2 DEF Inv, Shape, Kinds
<1>3. (IsMulti' <=> IsMulti)
  BY <1>1 DEF IsMulti
<1>4. Executable' /\ Waiting'
  BY <1>1, <1>3 DEF Executable, Waiting, Inv, Shape
<1>5. SplitterIsControlled'
  BY <1>1, <1>3 DEF SplitterIsControlled, Inv, Shape
<1> QED BY <1>2, <1>4, <1>5 DEF Moving

\* A new splitter waits for the first delimiter.
LEMMA NewSplitterIsControlled ==
  ASSUME NEW n \in Nat
  PROVE  NewSplitter \in Splitters /\ IsControlled(n, NewSplitter)
<1>1. NoSplitter \in Splitters
  BY DEF NoSplitter, Splitters
<1>2. NewSplitter \in Splitters
  <2> DEFINE a == BoundaryTextLength + 4
             b == BoundaryTextLength + 2
  <2>1. a \in Nat /\ b \in Nat
    BY DEF BoundaryTextLength
  <2>2. NewSplitter = [NoSplitter EXCEPT !.at = "idle", !.boundaryLength = a, !.ignore = b]
    BY DEF NewSplitter
  <2> HIDE DEF a, b
  <2>3. [NoSplitter EXCEPT !.at = "idle", !.boundaryLength = a, !.ignore = b] \in Splitters
    BY <1>1, <2>1 DEF Splitters
  <2> QED BY <2>2, <2>3
<1>3. /\ NewSplitter.part = -1 /\ NewSplitter.at = "idle" /\ NewSplitter.isHeader = FALSE
      /\ NewSplitter.ignore = 3 /\ NewSplitter.remaining = 0
  BY DEF NewSplitter, NoSplitter, BoundaryTextLength
<1> QED BY <1>2, <1>3 DEF IsControlled

\* An answer to several ranges.
LEMMA MovingAnswer ==
  ASSUME Inv, NEW eol \in {CRLF, LF}, AnswerMultipart(eol)
  PROVE  Moving'
<1> USE DEF control, files, multipart, inputs
<1>1. step = "response" /\ IsMultiRequest /\ step' = "split" /\ response' = MultipartBody(eol) /\ chunk' = <<>>
      /\ splitter' = NewSplitter
      /\ UNCHANGED <<phase, error, useMultiple, cancelled, plan, oldFileOpen, next, batch, copy, downloads, timer, faults>>
  BY DEF AnswerMultipart
<1>2. IsMulti /\ IsMulti' /\ Count(plan, batch) \in Nat
  <2>1. PartCount = Count(plan, batch) /\ Count(plan, batch) \in Nat
    BY BatchOfState DEF Inv, Shape
  <2> QED BY <1>1, <2>1 DEF IsMulti, IsMultiRequest
<1>3. NewSplitter \in Splitters /\ IsControlled(Count(plan, batch), NewSplitter)
  BY <1>2, NewSplitterIsControlled
<1>4. MultipartBody(eol) \in Seq(Byte)
  <2>1. Ranges \in Seq(Op) /\ MultipartBody(eol) = AnswerTo(NewBytes, Ranges, eol)
    BY RangesOfState DEF Inv, Shape
  <2>2. NewBytes \in Seq(Byte)
    BY NewFileOfState DEF Inv, Shape
  <2>3. AnswerTo(NewBytes, Ranges, eol) \in Seq(Byte)
    BY <2>1, <2>2, AnswerType
  <2> QED BY <2>1, <2>3
<1>5. Kinds'
  <2>1. <<>> \in Seq(Byte)
    OBVIOUS
  <2> QED BY <1>1, <1>3, <1>4, <2>1 DEF Inv, Shape, Kinds
<1>6. phase = "running" /\ copy = 0 /\ ~timer
  BY <1>1 DEF Inv, Shape, IInv, Control, Waiting, Kinds
<1>7. Executable' /\ Waiting'
  BY <1>1, <1>6 DEF Executable, Waiting, Inv, Shape
<1>8. SplitterIsControlled'
  <2>1. splitter'.at # "copies"
    BY <1>1 DEF NewSplitter, NoSplitter
  <2> QED BY <1>1, <1>2, <1>3, <2>1 DEF SplitterIsControlled
<1> QED BY <1>5, <1>7, <1>8 DEF Moving

\* Whether the next bytes are data of a part.
TakesData(s) == s.ignore = 0 /\ s.remaining > 0

\* What _write makes of the splitter with a chunk of n bytes.
IsChunkTaken(s, n, taken, s2) ==
  s2 = [s EXCEPT !.ignore = IF TakesData(s) THEN @ ELSE @ - taken,
                 !.remaining = IF TakesData(s) THEN @ - taken ELSE @,
                 !.actual = IF TakesData(s) THEN @ + taken ELSE @,
                 !.at = IF taken = n THEN "idle" ELSE IF s.isHeader THEN "header" ELSE "part"]

\* The fields of the splitter then.
AfterChunk(c, s, n, taken, s2) ==
  /\ IsControlled(c, s2)
  /\ s2.part = s.part /\ s2.isHeader = s.isHeader /\ s2.tail = s.tail
  /\ s2.ignore = (IF TakesData(s) THEN s.ignore ELSE s.ignore - taken)
  /\ s2.remaining = (IF TakesData(s) THEN s.remaining - taken ELSE s.remaining)
  /\ s2.actual = (IF TakesData(s) THEN s.actual + taken ELSE s.actual)
  /\ s2.at = (IF taken = n THEN "idle" ELSE IF s.isHeader THEN "header" ELSE "part")
  /\ taken \in 0..n /\ (TakesData(s) => taken <= s.remaining)

\* It stays at a place of the answer.
LEMMA ControlledAfterChunk ==
  ASSUME NEW c \in Nat, NEW s, IsControlled(c, s), s.at = "idle", NEW n \in Nat, n > 0,
         NEW taken, taken = Min({n, s.ignore + s.remaining}),
         NEW s2, IsChunkTaken(s, n, taken, s2)
  PROVE  AfterChunk(c, s, n, taken, s2)
<1> DEFINE i == IF TakesData(s) THEN s.ignore ELSE s.ignore - taken
           r == IF TakesData(s) THEN s.remaining - taken ELSE s.remaining
           a == IF TakesData(s) THEN s.actual + taken ELSE s.actual
           w == IF taken = n THEN "idle" ELSE IF s.isHeader THEN "header" ELSE "part"
<1>1. /\ s \in Splitters /\ s.ignore \in Nat /\ s.remaining \in Nat /\ s.actual \in Nat /\ s.part \in -1 .. c - 1
      /\ s.isHeader \in BOOLEAN /\ s.tail \in Seq(Byte) /\ s.part \in Int
      /\ (s.ignore = 0 \/ s.remaining = 0)
      /\ (s.isHeader => s.part # -1 /\ s.ignore = 0 /\ s.remaining = 0)
      /\ (s.part = -1 => s.remaining = 0)
  BY DEF IsControlled, Splitters
<1>2. taken = IF n <= s.ignore + s.remaining THEN n ELSE s.ignore + s.remaining
  <2>1. s.ignore + s.remaining \in Nat
    BY <1>1
  <2> QED BY <2>1, MinOfTwo
<1>a. ~TakesData(s) => s.remaining = 0
  <2>1. ASSUME ~TakesData(s) PROVE s.remaining = 0
    <3>1. ~(s.ignore = 0 /\ s.remaining > 0)
      BY <2>1 DEF TakesData
    <3> QED BY ONLY <1>1, <3>1
  <2> QED BY <2>1
<1>3. taken \in Nat /\ taken \in 0..n /\ (TakesData(s) => taken <= s.remaining) /\ (~TakesData(s) => taken <= s.ignore)
  <2>2. ~TakesData(s) => s.remaining = 0
    BY <1>a
  <2>3. TakesData(s) => s.ignore = 0
    BY DEF TakesData
  <2> QED BY ONLY <1>1, <1>2, <2>2, <2>3, n \in Nat
<1>4. i \in Nat /\ r \in Nat /\ a \in Nat /\ w \in {"idle", "header", "part"}
  BY <1>1, <1>3, SMTT(30)
<1>5. taken # n => i = 0 /\ r = 0
  <2>1. taken # n => taken = s.ignore + s.remaining
    BY <1>2
  <2>2. ~TakesData(s) => s.remaining = 0
    BY <1>a
  <2>3. TakesData(s) => s.ignore = 0
    BY DEF TakesData
  <2> QED BY ONLY <1>1, <2>1, <2>2, <2>3
<1>6. (i = 0 \/ r = 0) /\ (s.isHeader => i = 0 /\ r = 0) /\ (s.part = -1 => r = 0)
  <2>1. ASSUME s.isHeader PROVE taken = 0 /\ ~TakesData(s)
    <3>1. s.ignore = 0 /\ s.remaining = 0
      BY <1>1, <2>1
    <3>2. taken = 0
      BY ONLY <3>1, <1>2, n \in Nat, n > 0
    <3>3. ~(s.ignore = 0 /\ s.remaining > 0)
      BY ONLY <3>1
    <3> QED BY <3>2, <3>3 DEF TakesData
  <2> QED BY ONLY <1>1, <1>3, <2>1
<1> HIDE DEF i, r, a, w
<1>7. s2 = [s EXCEPT !.ignore = i, !.remaining = r, !.actual = a, !.at = w]
  BY DEF i, r, a, w, IsChunkTaken
<1>8. s2 \in Splitters /\ s2.part = s.part /\ s2.isHeader = s.isHeader /\ s2.tail = s.tail
      /\ s2.ignore = i /\ s2.remaining = r /\ s2.actual = a /\ s2.at = w
  BY ONLY <1>1, <1>4, <1>7 DEF Splitters
<1>9. w = "idle" \/ (i = 0 /\ r = 0 /\ w = IF s.isHeader THEN "header" ELSE "part")
  BY <1>5 DEF w
<1>10. IsControlled(c, s2)
  <2>1. s.isHeader => s.part \in 0 .. c - 1
    BY <1>1
  <2> QED BY ONLY <1>1, <1>4, <1>6, <1>8, <1>9, <2>1 DEF IsControlled
<1> QED BY <1>3, <1>8, <1>10 DEF i, r, a, w, AfterChunk

\* What the search for the end of a header list makes of it.
LEMMA ControlledAfterSearch ==
  ASSUME NEW c \in Nat, NEW s, IsControlled(c, s), s.at = "header", NEW data \in Seq(Byte)
  PROVE  /\ LET s2 == [s EXCEPT !.tail = Carried(data), !.isHeader = TRUE, !.at = "idle"]
            IN IsControlled(c, s2)
         /\ HeaderListEnds(data) # {} =>
              LET found == CHOOSE e \in HeaderListEnds(data) : \A f \in HeaderListEnds(data) : e.end <= f.end
                  s2 == [s EXCEPT !.tail = <<>>, !.isHeader = FALSE, !.at = "body",
                                  !.boundaryLength = BoundaryTextLength + Len(found.eol) + 2]
              IN IsControlled(c, s2) /\ found.end \in 1 .. Len(data)
<1>1. s \in Splitters /\ s.ignore = 0 /\ s.remaining = 0 /\ s.part \in 0 .. c - 1 /\ s.part # -1
  BY DEF IsControlled
<1>2. Carried(data) \in Seq(Byte)
  <2> DEFINE a == Max({1, Len(data) - 2})
  <2>1. a \in Int /\ a - 1 \in Nat /\ (a - 1) + 1 = a
    <3>1. Len(data) - 2 \in Int
      OBVIOUS
    <3>2. a = IF 1 >= Len(data) - 2 THEN 1 ELSE Len(data) - 2
      BY <3>1, MaxOfTwo
    <3> QED BY <3>1, <3>2
  <2> HIDE DEF a
  <2>2. SubSeq(data, (a - 1) + 1, Len(data)) \in Seq(Byte)
    <3> DEFINE b == a - 1
    <3>1. b \in Nat /\ Len(data) \in Int /\ Len(data) <= Len(data)
      BY <2>1
    <3> HIDE DEF b
    <3>2. SubSeq(data, b + 1, Len(data)) \in Seq(Byte)
      BY <3>1, PartOf
    <3> QED BY <3>2 DEF b
  <2> QED BY <2>1, <2>2 DEF Carried, a
<1>3. LET s2 == [s EXCEPT !.tail = Carried(data), !.isHeader = TRUE, !.at = "idle"]
      IN IsControlled(c, s2)
  <2> DEFINE s2 == [s EXCEPT !.tail = Carried(data), !.isHeader = TRUE, !.at = "idle"]
  <2>1. s2 \in Splitters /\ s2.part = s.part /\ s2.isHeader = TRUE /\ s2.ignore = 0 /\ s2.remaining = 0 /\ s2.at = "idle"
    BY <1>1, <1>2 DEF Splitters
  <2> HIDE DEF s2
  <2>2. s.part \in -1 .. c - 1
    BY <1>1
  <2>3. IsControlled(c, s2)
    BY <1>1, <2>1, <2>2 DEF IsControlled
  <2> QED BY <2>3 DEF s2
<1>b. \A e \in HeaderListEnds(data) : e.eol \in {CRLF, LF} /\ e.end \in 1 .. Len(data)
  <2> SUFFICES ASSUME NEW found \in HeaderListEnds(data)
               PROVE  found.eol \in {CRLF, LF} /\ found.end \in 1 .. Len(data)
    OBVIOUS
  <2>1. \/ \E i \in 1 .. Len(data) - 3 : IsLongEnd(data, i) /\ found = [end |-> i + 3, eol |-> CRLF]
        \/ \E i \in 1 .. Len(data) - 1 : IsShortEnd(data, i) /\ found = [end |-> i + 1, eol |-> LF]
    BY HeaderListEndsAre
  <2> QED BY <2>1
<1>4. ASSUME NEW found, found \in HeaderListEnds(data)
      PROVE  /\ IsControlled(c, [s EXCEPT !.tail = <<>>, !.isHeader = FALSE, !.at = "body",
                                  !.boundaryLength = BoundaryTextLength + Len(found.eol) + 2])
             /\ found.end \in 1 .. Len(data)
  <2>1. found.eol \in {CRLF, LF} /\ found.end \in 1 .. Len(data)
    BY <1>4, <1>b
  <2>2. Len(found.eol) \in {1, 2}
    <3>1. 0 \in Nat
      OBVIOUS
    <3> QED BY <2>1, <3>1, HeadLength
  <2> DEFINE b == BoundaryTextLength + Len(found.eol) + 2
             s2 == [s EXCEPT !.tail = <<>>, !.isHeader = FALSE, !.at = "body", !.boundaryLength = b]
  <2>3. b \in Nat
    BY <2>2 DEF BoundaryTextLength
  <2> HIDE DEF b
  <2>4. s2 \in Splitters /\ s2.part = s.part /\ s2.isHeader = FALSE /\ s2.ignore = 0 /\ s2.remaining = 0 /\ s2.at = "body"
    <3>1. <<>> \in Seq(Byte)
      OBVIOUS
    <3> QED BY <1>1, <2>3, <3>1 DEF Splitters
  <2> HIDE DEF s2
  <2>5. IsControlled(c, s2)
    BY <1>1, <2>4 DEF IsControlled
  <2> QED BY <2>1, <2>5 DEF s2, b
<1>5. ASSUME HeaderListEnds(data) # {}
      PROVE  (CHOOSE e \in HeaderListEnds(data) : \A f \in HeaderListEnds(data) : e.end <= f.end) \in HeaderListEnds(data)
  <2> DEFINE ends == HeaderListEnds(data)
             S == {e.end : e \in ends}
  <2>1. \A e \in ends : e.end \in Nat
    BY <1>b
  <2>2. S \subseteq Nat /\ S # {}
    BY <1>5, <2>1
  <2> HIDE DEF ends
  <2>3. PICK m \in S : \A k \in S : m <= k
    BY <2>2, LeastNat
  <2>4. \E e \in ends : \A f \in ends : e.end <= f.end
    BY <2>3
  <2>5. (CHOOSE e \in ends : \A f \in ends : e.end <= f.end) \in ends
    BY <2>4, Zenon
  <2> QED BY <2>5 DEF ends
<1> QED BY <1>3, <1>4, <1>5

\* What processPartStarted makes of the splitter.
IsPartRead(s, length, n, taken, end, s2) ==
  s2 = [s EXCEPT !.actual = taken, !.remaining = length - taken,
                 !.ignore = IF taken = length /\ end >= n THEN end - n ELSE @,
                 !.at = IF taken = length /\ end < n THEN "part" ELSE "idle"]

\* The fields of the splitter then.
AfterBody(c, s, length, n, taken, end, s2) ==
  /\ IsControlled(c, s2)
  /\ s2.part = s.part /\ s2.isHeader = s.isHeader /\ s2.tail = s.tail /\ s2.actual = taken
  /\ s2.remaining = length - taken
  /\ s2.ignore = (IF taken = length /\ end >= n THEN end - n ELSE s.ignore)
  /\ s2.at = (IF taken = length /\ end < n THEN "part" ELSE "idle")
  /\ taken \in Nat /\ taken <= n /\ taken <= length /\ end \in Nat

\* It stays at a place of the answer.
LEMMA ControlledAfterBody ==
  ASSUME NEW c \in Nat, NEW s, IsControlled(c, s), s.at = "body", NEW n \in Nat,
         NEW length \in Nat, NEW taken, taken = Min({length, n}),
         NEW end, end = taken + s.boundaryLength,
         NEW s2, IsPartRead(s, length, n, taken, end, s2)
  PROVE  AfterBody(c, s, length, n, taken, end, s2)
<1> DEFINE i == IF taken = length /\ end >= n THEN end - n ELSE s.ignore
           r == length - taken
           w == IF taken = length /\ end < n THEN "part" ELSE "idle"
<1>1. /\ s \in Splitters /\ s.ignore = 0 /\ s.part \in 0 .. c - 1 /\ s.isHeader = FALSE /\ s.boundaryLength \in Nat
      /\ s.part \in Int
  BY DEF IsControlled, Splitters
<1>2. taken = IF length <= n THEN length ELSE n
  BY MinOfTwo
<1>3. taken \in Nat /\ taken <= n /\ taken <= length /\ end \in Nat
  BY <1>1, <1>2
<1>4. i \in Nat /\ r \in Nat /\ w \in {"part", "idle"} /\ (i = 0 \/ r = 0) /\ (w = "part" => i = 0 /\ r = 0)
  BY <1>1, <1>3
<1> HIDE DEF i, r, w
<1>5. s2 = [s EXCEPT !.actual = taken, !.remaining = r, !.ignore = i, !.at = w]
  BY DEF i, r, w, IsPartRead
<1>6. s2 \in Splitters /\ s2.part = s.part /\ s2.isHeader = s.isHeader /\ s2.tail = s.tail
      /\ s2.ignore = i /\ s2.remaining = r /\ s2.actual = taken /\ s2.at = w
  BY ONLY <1>1, <1>3, <1>4, <1>5 DEF Splitters
<1>7. IsControlled(c, s2)
  <2>1. s.part \in -1 .. c - 1 /\ s.part # -1
    BY <1>1
  <2> QED BY ONLY <1>1, <1>4, <1>6, <2>1 DEF IsControlled
<1> QED BY <1>3, <1>6, <1>7 DEF i, r, w, AfterBody

\* A step of the splitter inside an attempt.
LEMMA MovingSplit ==
  ASSUME Inv, step = "split", step' = "split",
         UNCHANGED <<phase, error, useMultiple, cancelled, plan, oldFileOpen, batch, downloads, timer, faults>>,
         chunk' \in Seq(Byte), response' \in Seq(Byte), next' \in 1 .. Len(plan) + 1, copy' \in 0 .. Len(plan),
         IsControlled(Count(plan, batch), splitter'),
         splitter'.at = "copies" =>
           /\ next' \in PrevTask(plan, batch, splitter'.part) .. Task(plan, batch, splitter'.part)
           /\ copy' # 0 => next' < Task(plan, batch, splitter'.part),
         copy' # 0 => copy' = next' /\ next' < batch.end /\ plan[next'].kind = "copy" /\ splitter'.at = "copies"
  PROVE  Moving'
<1>1. splitter' \in Splitters
  BY DEF IsControlled
<1>2. Kinds'
  BY <1>1 DEF Inv, Shape, Kinds
<1>3. (IsMulti' <=> IsMulti) /\ IsMulti
  BY DEF IsMulti, Inv, Shape, SplitterIsControlled
<1>4. Executable' /\ Waiting'
  BY <1>3 DEF Executable, Waiting, Inv, Shape
<1>5. SplitterIsControlled'
  BY <1>3 DEF SplitterIsControlled
<1> QED BY <1>2, <1>4, <1>5 DEF Moving

\* Where an attempt that splits is.
LEMMA SplittingState ==
  ASSUME Inv, step = "split"
  PROVE  /\ phase = "running" /\ IsMulti /\ IsControlled(Count(plan, batch), splitter) /\ ~timer
         /\ Count(plan, batch) \in Nat /\ plan \in Seq(Op) /\ Len(plan) \in Nat
         /\ chunk \in Seq(Byte) /\ response \in Seq(Byte) /\ next \in 1 .. Len(plan) + 1 /\ copy \in 0 .. Len(plan)
         /\ copy # 0 => copy = next /\ next < batch.end /\ plan[next].kind = "copy" /\ splitter.at = "copies"
         /\ splitter \in Splitters
  BY BatchOfState DEF Inv, Shape, Kinds, Given, Waiting, SplitterIsControlled, IInv, Control

\* The next chunk.
LEMMA MovingChunk ==
  ASSUME Inv, NEW n \in 1 .. Len(response), ReceiveChunk(n)
  PROVE  Moving'
<1> USE DEF multipart, SplitterStep
<1> DEFINE taken == Min({n, splitter.ignore + splitter.remaining})
           c == Count(plan, batch)
<1>1. /\ step = "split" /\ step' = step /\ splitter.at = "idle"
      /\ UNCHANGED <<phase, error, useMultiple, cancelled, plan, oldFileOpen, batch, downloads, timer, faults>>
      /\ UNCHANGED <<next, copy>>
      /\ response' = SubSeq(response, n + 1, Len(response)) /\ chunk' = SubSeq(response, taken + 1, n)
  BY DEF ReceiveChunk, Splitting
<1>2. IsChunkTaken(splitter, n, taken, splitter')
  BY DEF ReceiveChunk, TakesData, IsChunkTaken
<1>3. /\ c \in Nat /\ IsControlled(c, splitter) /\ response \in Seq(Byte) /\ copy = 0
      /\ next \in 1 .. Len(plan) + 1 /\ copy \in 0 .. Len(plan)
  BY <1>1, SplittingState
<1>4. n \in Nat /\ n > 0 /\ Len(response) \in Nat /\ n <= Len(response)
  BY <1>3
<1>5. IsControlled(c, splitter') /\ taken \in 0..n
      /\ splitter'.at = (IF taken = n THEN "idle" ELSE IF splitter.isHeader THEN "header" ELSE "part")
  <2>1. taken = Min({n, splitter.ignore + splitter.remaining})
    OBVIOUS
  <2> HIDE DEF c, taken
  <2>2. splitter.at = "idle"
    BY <1>1
  <2>3. AfterChunk(c, splitter, n, taken, splitter')
    BY <1>2, <1>3, <1>4, <2>1, <2>2, ControlledAfterChunk
  <2> QED BY <2>3 DEF AfterChunk
<1> HIDE DEF taken, c
<1>6. splitter'.at # "copies"
  BY <1>5
<1>7. chunk' \in Seq(Byte) /\ response' \in Seq(Byte)
  <2>1. taken \in Nat /\ n \in Int
    BY <1>4, <1>5
  <2>2. SubSeq(response, taken + 1, n) \in Seq(Byte)
    BY <1>3, <1>4, <2>1, PartOf
  <2>3. SubSeq(response, n + 1, Len(response)) \in Seq(Byte)
    <3> DEFINE m == Len(response)
    <3>1. m \in Int /\ m <= Len(response)
      BY <1>4
    <3> HIDE DEF m
    <3>2. SubSeq(response, n + 1, m) \in Seq(Byte)
      BY <1>3, <1>4, <3>1, PartOf
    <3> QED BY <3>2 DEF m
  <2> QED BY <1>1, <2>2, <2>3
<1> QED BY <1>1, <1>3, <1>5, <1>6, <1>7, MovingSplit DEF c

\* The next part, before which copies may be made.
LEMMA MovingNextPart ==
  ASSUME Inv, NextPart
  PROVE  Moving'
<1> USE DEF multipart, files, SplitterStep
<1> DEFINE c == Count(plan, batch)
           k == splitter.part + 1
<1>1. /\ step = "split" /\ step' = step /\ splitter.at = "part"
      /\ UNCHANGED <<phase, error, useMultiple, cancelled, plan, oldFileOpen, batch, downloads, timer, faults>>
      /\ UNCHANGED <<copy, chunk, response>>
      /\ splitter' = [splitter EXCEPT !.part = @ + 1, !.at = "copies"] /\ next' = PrevTaskOf(splitter.part + 1)
  BY DEF NextPart, Splitting
<1>2. /\ c \in Nat /\ IsControlled(c, splitter) /\ response \in Seq(Byte) /\ chunk \in Seq(Byte) /\ copy = 0
      /\ copy \in 0 .. Len(plan) /\ splitter \in Splitters /\ Len(plan) \in Nat
  BY <1>1, SplittingState
<1>3. k \in 0..c /\ k \in Int /\ splitter.ignore = 0 /\ splitter.remaining = 0 /\ splitter.isHeader = FALSE
  <2>1. splitter.part \in -1 .. c - 1 /\ splitter.ignore = 0 /\ splitter.remaining = 0 /\ splitter.isHeader \in BOOLEAN
        /\ ~splitter.isHeader
    BY <1>1, <1>2 DEF IsControlled, Splitters
  <2> HIDE DEF c
  <2> QED BY <1>2, <2>1
<1> HIDE DEF k
<1>4. splitter' = [splitter EXCEPT !.part = k, !.at = "copies"]
  BY <1>1 DEF k
<1>5. splitter' \in Splitters /\ splitter'.part = k /\ splitter'.at = "copies" /\ splitter'.isHeader = FALSE
      /\ splitter'.ignore = 0 /\ splitter'.remaining = 0
  BY ONLY <1>2, <1>3, <1>4 DEF Splitters
<1>6. IsControlled(c, splitter')
  <2>1. k # -1
    BY <1>2, <1>3
  <2> QED BY ONLY <1>3, <1>5, <2>1 DEF IsControlled
<1>7. next' = PrevTask(plan, batch, k) /\ Task(plan, batch, k) \in batch.start .. batch.end
      /\ PrevTask(plan, batch, k) \in batch.start .. Task(plan, batch, k)
      /\ batch.start \in 1 .. Len(plan) + 1 /\ batch.end \in 1 .. Len(plan) + 1
  <2>1. PrevTaskOf(k) = PrevTask(plan, batch, k) /\ Task(plan, batch, k) \in batch.start .. batch.end
        /\ PrevTask(plan, batch, k) \in batch.start .. Task(plan, batch, k)
        /\ batch.start \in 1 .. Len(plan) + 1 /\ batch.end \in 1 .. Len(plan) + 1
    BY <1>3, BatchOfState DEF Inv, Shape
  <2> QED BY <1>1, <2>1 DEF k
<1>8. next' \in 1 .. Len(plan) + 1 /\ next' \in PrevTask(plan, batch, k) .. Task(plan, batch, k)
  <2> DEFINE a == PrevTask(plan, batch, k)
             b == Task(plan, batch, k)
  <2>1. next' = a /\ b \in batch.start .. batch.end /\ a \in batch.start .. b
        /\ batch.start \in 1 .. Len(plan) + 1 /\ batch.end \in 1 .. Len(plan) + 1 /\ Len(plan) \in Nat
    BY <1>2, <1>7
  <2> HIDE DEF a, b
  <2>2. next' \in 1 .. Len(plan) + 1 /\ next' \in a..b
    BY ONLY <2>1
  <2> QED BY <2>2 DEF a, b
<1> HIDE DEF c
<1>9. copy' = 0 /\ copy' \in 0 .. Len(plan) /\ chunk' \in Seq(Byte) /\ response' \in Seq(Byte)
  BY <1>1, <1>2
<1> QED BY <1>1, <1>5, <1>6, <1>8, <1>9, MovingSplit DEF c

\* A copy between two parts.
LEMMA MovingCopy ==
  ASSUME Inv, CopyExistingData
  PROVE  Moving'
<1> USE DEF multipart, files, SplitterStep
<1> DEFINE c == Count(plan, batch)
           k == splitter.part
<1>1. /\ step = "split" /\ step' = step /\ splitter.at = "copies" /\ copy = 0 /\ copy' = next
      /\ UNCHANGED <<phase, error, useMultiple, cancelled, plan, oldFileOpen, batch, downloads, timer, faults>>
      /\ UNCHANGED <<next, chunk, response, splitter>>
      /\ next < TaskOf(k)
  BY DEF CopyExistingData, Splitting
<1>2. /\ c \in Nat /\ IsControlled(c, splitter) /\ response \in Seq(Byte) /\ chunk \in Seq(Byte)
      /\ next \in 1 .. Len(plan) + 1 /\ Len(plan) \in Nat
  BY <1>1, SplittingState
<1>3. k \in 0..c /\ next \in PrevTask(plan, batch, k) .. Task(plan, batch, k)
  <2>1. k \in 0..c
    BY <1>1, <1>2 DEF IsControlled
  <2>2. next \in PrevTask(plan, batch, k) .. Task(plan, batch, k)
    BY <1>1 DEF Inv, Shape, SplitterIsControlled
  <2> QED BY <2>1, <2>2
<1>4. /\ TaskOf(k) = Task(plan, batch, k)
      /\ Task(plan, batch, k) \in batch.start .. batch.end /\ PrevTask(plan, batch, k) \in batch.start .. Task(plan, batch, k)
      /\ \A j \in PrevTask(plan, batch, k) .. Task(plan, batch, k) - 1 : plan[j].kind = "copy"
      /\ batch.start \in 1 .. Len(plan) + 1 /\ batch.end \in 1 .. Len(plan) + 1
  <2> HIDE DEF k
  <2> QED BY <1>3, BatchOfState DEF Inv, Shape
<1> DEFINE a == PrevTask(plan, batch, k)
           b == Task(plan, batch, k)
<1>5. next < b /\ next < batch.end /\ next \in 1 .. Len(plan) /\ next \in a .. b - 1
  <2>1. next < b /\ next \in a..b /\ b \in batch.start .. batch.end /\ a \in batch.start .. b
        /\ batch.start \in 1 .. Len(plan) + 1 /\ batch.end \in 1 .. Len(plan) + 1 /\ Len(plan) \in Nat
    BY <1>1, <1>2, <1>3, <1>4
  <2> HIDE DEF a, b
  <2> QED BY ONLY <2>1
<1>6. plan[next].kind = "copy"
  BY <1>4, <1>5
<1>7. /\ copy' = next' /\ copy' \in 0 .. Len(plan) /\ next' \in a..b /\ next' < b /\ next' < batch.end
      /\ plan[next'].kind = "copy" /\ splitter'.at = "copies" /\ IsControlled(c, splitter') /\ splitter'.part = k
      /\ chunk' \in Seq(Byte) /\ response' \in Seq(Byte) /\ next' \in 1 .. Len(plan) + 1
  <2>1. copy' \in 0 .. Len(plan)
    BY <1>1, <1>2, <1>5
  <2> HIDE DEF a, b, c
  <2> QED BY <1>1, <1>2, <1>3, <1>5, <1>6, <2>1 DEF a, b
<1> QED BY <1>1, <1>7, MovingSplit

\* The end of the copies before a part.
LEMMA MovingEndCopies ==
  ASSUME Inv, EndCopies
  PROVE  Moving'
<1> USE DEF multipart, files, SplitterStep
<1> DEFINE c == Count(plan, batch)
           k == splitter.part
<1>1. /\ step = "split" /\ splitter.at = "copies" /\ copy = 0 /\ next = TaskOf(k)
      /\ UNCHANGED <<useMultiple, cancelled, plan, oldFileOpen, batch, downloads, timer, faults, next, copy>>
  BY DEF EndCopies, Splitting
<1>2. /\ phase = "running" /\ c \in Nat /\ IsControlled(c, splitter) /\ response \in Seq(Byte) /\ chunk \in Seq(Byte)
      /\ next \in 1 .. Len(plan) + 1 /\ copy \in 0 .. Len(plan) /\ splitter \in Splitters /\ ~timer /\ IsMulti
  BY <1>1, SplittingState
<1>3. k \in 0..c /\ splitter.ignore = 0 /\ splitter.remaining = 0 /\ splitter.isHeader = FALSE /\ PartCount = c
  <2>1. k \in 0..c /\ splitter.ignore = 0 /\ splitter.remaining = 0 /\ ~splitter.isHeader /\ splitter.isHeader \in BOOLEAN
    BY <1>1, <1>2 DEF IsControlled, Splitters
  <2>2. PartCount = c
    BY BatchOfState DEF Inv, Shape
  <2> QED BY <2>1, <2>2
<1>4. CASE Reject("splitter")
  <2>1. "splitter" \in Errors /\ cancelled' \in BOOLEAN /\ faults' \in 0..MaxFaults
    BY <1>1 DEF Errors, Inv, Shape, Kinds
  <2> QED BY <1>1, <1>2, <1>4, <2>1, MovingStops
<1>5. CASE /\ k < PartCount /\ splitter' = [splitter EXCEPT !.at = "header"]
           /\ UNCHANGED <<phase, error, step, response, chunk>>
  <2>1. splitter' \in Splitters /\ splitter'.part = k /\ splitter'.at = "header" /\ splitter'.isHeader = FALSE
        /\ splitter'.ignore = 0 /\ splitter'.remaining = 0
    BY <1>2, <1>3, <1>5 DEF Splitters
  <2>2. IsControlled(c, splitter')
    <3>1. k \in 0 .. c - 1 /\ k # -1
      BY <1>2, <1>3, <1>5
    <3> HIDE DEF c, k
    <3> QED BY ONLY <2>1, <3>1 DEF IsControlled
  <2>3. splitter'.at # "copies" /\ step' = "split" /\ copy' = 0 /\ next' \in 1 .. Len(plan) + 1 /\ copy' \in 0 .. Len(plan)
        /\ chunk' \in Seq(Byte) /\ response' \in Seq(Byte)
    BY <1>1, <1>2, <1>5, <2>1
  <2> QED BY <1>1, <1>5, <2>2, <2>3, MovingSplit
<1>6. CASE /\ ~(k < PartCount) /\ step' = "next" /\ response' = <<>> /\ chunk' = <<>> /\ splitter' = NoSplitter
           /\ UNCHANGED <<phase, error>>
  <2>1. next = batch.end /\ batch.start <= batch.end /\ batch.start \in Nat /\ batch.end \in Nat
    <3>1. k = c
      BY <1>2, <1>3, <1>6
    <3>2. TaskOf(c) = Task(plan, batch, c) /\ Task(plan, batch, c) = batch.end
          /\ batch.start <= batch.end /\ batch.start \in Nat /\ batch.end \in Nat
      <4>1. c \in 0..c
        BY <1>2
      <4> QED BY <4>1, BatchOfState DEF Inv, Shape
    <3> QED BY <1>1, <3>1, <3>2
  <2>2. NoSplitter \in Splitters /\ <<>> \in Seq(Byte)
    BY DEF NoSplitter, Splitters
  <2>3. Kinds'
    BY <1>1, <1>6, <2>2 DEF Inv, Shape, Kinds
  <2>4. IsMulti' <=> IsMulti
    BY <1>1 DEF IsMulti
  <2>5. Executable' /\ SplitterIsControlled' /\ Waiting'
    BY <1>1, <1>2, <1>6, <2>1, <2>4 DEF Executable, SplitterIsControlled, Waiting, Inv, Shape
  <2> QED BY <2>3, <2>5 DEF Moving
<1> QED BY <1>4, <1>5, <1>6 DEF EndCopies

\* The search for the end of a header list.
LEMMA MovingSearch ==
  ASSUME Inv, SearchHeaderListEnd
  PROVE  Moving'
<1> USE DEF multipart, files, SplitterStep
<1> DEFINE c == Count(plan, batch)
           data == splitter.tail \o chunk
           ends == HeaderListEnds(data)
           found == CHOOSE e \in ends : \A f \in ends : e.end <= f.end
           s1 == [splitter EXCEPT !.tail = Carried(data), !.isHeader = TRUE, !.at = "idle"]
           s2 == [splitter EXCEPT !.tail = <<>>, !.isHeader = FALSE, !.at = "body",
                                  !.boundaryLength = BoundaryTextLength + Len(found.eol) + 2]
<1>1. /\ step = "split" /\ step' = step /\ splitter.at = "header"
      /\ UNCHANGED <<phase, error, useMultiple, cancelled, plan, oldFileOpen, batch, downloads, timer, faults>>
      /\ UNCHANGED <<next, copy, response>>
  BY DEF SearchHeaderListEnd, Splitting
<1>2. \/ ends = {} /\ splitter' = s1 /\ chunk' = <<>>
      \/ ends # {} /\ splitter' = s2 /\ chunk' = SubSeq(data, found.end + 1, Len(data))
  BY DEF SearchHeaderListEnd
<1>3. /\ c \in Nat /\ IsControlled(c, splitter) /\ response \in Seq(Byte) /\ chunk \in Seq(Byte) /\ copy = 0
      /\ next \in 1 .. Len(plan) + 1 /\ copy \in 0 .. Len(plan) /\ splitter \in Splitters
  BY <1>1, SplittingState
<1>4. data \in Seq(Byte) /\ Len(data) \in Nat
  <2>1. splitter.tail \in Seq(Byte)
    BY <1>3 DEF Splitters
  <2>2. splitter.tail \o chunk \in Seq(Byte)
    BY <2>1, <1>3, ConcatProperties
  <2> HIDE DEF data
  <2>3. data \in Seq(Byte)
    BY <2>2 DEF data
  <2> QED BY <2>3
<1> HIDE DEF data
<1>5. /\ IsControlled(c, s1)
      /\ ends # {} => IsControlled(c, s2) /\ found.end \in 1 .. Len(data)
  <2> HIDE DEF c
  <2> QED BY <1>1, <1>3, <1>4, ControlledAfterSearch
<1>6. s1.at = "idle" /\ s2.at = "body"
  BY <1>3 DEF Splitters
<1> HIDE DEF s1, s2, found, ends, c
<1>7. IsControlled(c, splitter') /\ splitter'.at # "copies"
  BY <1>2, <1>5, <1>6
<1>8. chunk' \in Seq(Byte)
  <2>1. ends # {} => SubSeq(data, found.end + 1, Len(data)) \in Seq(Byte)
    <3> DEFINE i == found.end
               m == Len(data)
    <3> SUFFICES ASSUME ends # {} PROVE SubSeq(data, i + 1, m) \in Seq(Byte)
      OBVIOUS
    <3>1. i \in Nat /\ m \in Int /\ m <= Len(data)
      BY <1>4, <1>5
    <3> HIDE DEF i, m
    <3> QED BY <1>4, <3>1, PartOf
  <2>2. <<>> \in Seq(Byte)
    OBVIOUS
  <2> QED BY <1>2, <2>1, <2>2
<1>9. copy' = 0 /\ copy' \in 0 .. Len(plan) /\ next' \in 1 .. Len(plan) + 1 /\ response' \in Seq(Byte) /\ step' = "split"
  BY <1>1, <1>3
<1> QED BY <1>1, <1>7, <1>8, <1>9, MovingSplit DEF c

\* The data of a part.
LEMMA MovingBody ==
  ASSUME Inv, ReadPart
  PROVE  Moving'
<1> USE DEF multipart, files, SplitterStep
<1> DEFINE c == Count(plan, batch)
           k == splitter.part
           length == PartLength(k)
           n == Len(chunk)
           taken == Min({length, n})
           end == taken + splitter.boundaryLength
<1>1. /\ step = "split" /\ splitter.at = "body"
      /\ UNCHANGED <<useMultiple, cancelled, plan, oldFileOpen, batch, downloads, timer, faults>>
      /\ UNCHANGED <<next, copy>>
  BY DEF ReadPart, Splitting
<1>2. /\ phase = "running" /\ c \in Nat /\ IsControlled(c, splitter) /\ response \in Seq(Byte) /\ chunk \in Seq(Byte)
      /\ next \in 1 .. Len(plan) + 1 /\ copy \in 0 .. Len(plan) /\ splitter \in Splitters /\ copy = 0 /\ n \in Nat
  BY <1>1, SplittingState
<1>3. CASE Reject("splitter")
  <2>1. "splitter" \in Errors /\ cancelled' \in BOOLEAN /\ faults' \in 0..MaxFaults
    BY <1>1 DEF Errors, Inv, Shape, Kinds
  <2> QED BY <1>1, <1>2, <1>3, <2>1, MovingStops
<1>4. CASE ~Reject("splitter")
  <2>1. IsPartRead(splitter, length, n, taken, end, splitter')
    BY <1>4 DEF ReadPart, IsPartRead
  <2>2. chunk' = SubSeq(chunk, end + 1, n) /\ UNCHANGED <<phase, error, step, response>>
    BY <1>4 DEF ReadPart
  <2>3. length \in Nat
    <3>1. k \in 0 .. c - 1
      BY <1>1, <1>2 DEF IsControlled
    <3>2. TaskOf(k) = Task(plan, batch, k) /\ Task(plan, batch, k) \in 1 .. Len(plan)
      <4> HIDE DEF k
      <4>1. k \in 0..c
        BY <1>2, <3>1
      <4> QED BY <3>1, <4>1, BatchOfState DEF Inv, Shape
    <3> DEFINE j == TaskOf(k)
    <3> HIDE DEF j
    <3>3. j \in 1 .. Len(plan) /\ plan \in Seq(Op)
      BY <3>2 DEF j, Inv, Shape, Given
    <3>4. plan[j] \in Op /\ plan[j].end > plan[j].start
      BY <1>2, <3>3 DEF Inv, Shape, Executable
    <3>5. Length(plan[j]) \in Nat
      BY <3>4 DEF Op, Length
    <3> QED BY <3>5 DEF j, PartLength
  <2>4. IsControlled(c, splitter') /\ end \in Nat
        /\ splitter'.at = (IF taken = length /\ end < n THEN "part" ELSE "idle")
    <3>1. taken = Min({length, n}) /\ end = taken + splitter.boundaryLength
      OBVIOUS
    <3> HIDE DEF c, taken, length, n, end
    <3>2. AfterBody(c, splitter, length, n, taken, end, splitter')
      BY <1>1, <1>2, <2>1, <2>3, <3>1, ControlledAfterBody
    <3> QED BY <3>2 DEF AfterBody
  <2> HIDE DEF taken, end, length
  <2>5. splitter'.at # "copies"
    BY <2>4
  <2>6. chunk' \in Seq(Byte)
    <3>1. n \in Int /\ n <= Len(chunk)
      BY <1>2
    <3> HIDE DEF n
    <3>2. SubSeq(chunk, end + 1, n) \in Seq(Byte)
      BY <1>2, <2>4, <3>1, PartOf
    <3> QED BY <2>2, <3>2
  <2>7. copy' = 0 /\ copy' \in 0 .. Len(plan) /\ next' \in 1 .. Len(plan) + 1 /\ response' \in Seq(Byte) /\ step' = "split"
    BY <1>1, <1>2, <2>2
  <2> HIDE DEF c
  <2> QED BY <1>1, <2>2, <2>4, <2>5, <2>6, <2>7, MovingSplit DEF c
<1> QED BY <1>3, <1>4

\* A download before its first step.
LEMMA ShapeInitially == Init => Shape
<1> SUFFICES ASSUME Init PROVE Shape
  OBVIOUS
<1>1. oldMap \in BlockMaps /\ newMap \in BlockMaps /\ isOldFileIntact \in BOOLEAN /\ useMultiple \in BOOLEAN
      /\ plan = PlanFor(oldMap, newMap, useMultiple)
  BY MapsAssumption DEF Init, BlockMaps
<1>2. plan \in Seq(Op)
  BY <1>1, PlanType
<1>3. Given
  BY <1>1, <1>2 DEF Given
<1>4. Kinds
  <2>1. Len(plan) \in Nat
    BY <1>2
  <2>2. IsBatch(plan, batch) /\ next \in 1 .. Len(plan) + 1 /\ copy \in 0 .. Len(plan)
    <3>1. batch = [start |-> 1, end |-> 1] /\ next = 1 /\ copy = 0 /\ 1 \in 1 .. Len(plan) + 1 /\ 0 \in 0 .. Len(plan)
      BY <2>1 DEF Init
    <3>2. batch \in [start : 1 .. Len(plan) + 1, end : 1 .. Len(plan) + 1] /\ batch.start <= batch.end
      BY <3>1
    <3> QED BY <3>1, <3>2 DEF IsBatch
  <2>3. downloads \in 0 .. RangesPerPause - 1 /\ faults \in 0..MaxFaults
    BY LimitsAssumption DEF Init
  <2>4. NoSplitter \in Splitters /\ <<>> \in Seq(Byte)
    BY DEF NoSplitter, Splitters
  <2> QED BY <1>1, <2>2, <2>3, <2>4 DEF Init, Kinds, Errors
<1>5. Executable /\ Waiting /\ SplitterIsControlled
  BY DEF Init, Executable, Waiting, SplitterIsControlled
<1> QED BY <1>3, <1>4, <1>5 DEF Shape

\* The control of a differential download, of its copies, batches, pauses and of the splitter, is
\* kept by every step, whatever the block maps (with empty blocks too), the answers of the host
\* and the chunks they come in.
THEOREM ControlIsKept == Spec => []Shape
<1>1. IInv /\ IInv' /\ Shape /\ [Next]_vars => Shape'
  <2> SUFFICES ASSUME IInv, IInv', Shape, [Next]_vars PROVE Shape'
    OBVIOUS
  <2>a. Inv
    BY DEF Inv
  <2>b. Given'
    BY NothingGivenChanges, GivenIsKept DEF Shape
  <2>c. Moving' => Shape'
    BY <2>b DEF Moving, Shape
  <2>1. ASSUME ServerStep PROVE Moving'
    <3>1. CASE ReceiveRange
      BY <2>a, <3>1, MovingRange
    <3>2. CASE \E eol \in {CRLF, LF} : AnswerMultipart(eol)
      BY <2>a, <3>2, MovingAnswer
    <3>3. CASE RefuseRanges
      BY <2>a, <3>3, MovingFailures
    <3>4. CASE \E n \in 1..Len(response) : ReceiveChunk(n)
      BY <2>a, <3>4, MovingChunk
    <3> QED BY <2>1, <3>1, <3>2, <3>3, <3>4 DEF ServerStep
  <2>2. ASSUME LocalStep PROVE Moving'
    <3>1. CASE CheckPlan \/ StartCancelled \/ CloseNewFile \/ CloseOldFile
      BY <2>a, <3>1, MovingOutside
    <3>2. CASE StartAttempt
      BY <2>a, <3>2, MovingStarts
    <3>3. CASE StartBatch
      BY <2>a, <3>3, MovingBatch
    <3>4. CASE StartCopy
      BY <2>a, <3>4, MovingStartCopy
    <3>5. CASE EndCopy
      BY <2>a, <3>5, MovingEndCopy
    <3>6. CASE EndStoppedCopy
      BY <2>a, <3>6, MovingStoppedCopy
    <3>7. CASE RequestRange
      BY <2>a, <3>7, MovingRequest
    <3>8. CASE EndPause
      BY <2>a, <3>8, MovingPause
    <3>9. CASE EndFile
      BY <2>a, <3>9, MovingEndFile
    <3>10. CASE ValidateNewFile
      BY <2>a, <3>10, MovingValidate
    <3>11. CASE NextPart
      BY <2>a, <3>11, MovingNextPart
    <3>12. CASE CopyExistingData
      BY <2>a, <3>12, MovingCopy
    <3>13. CASE EndCopies
      BY <2>a, <3>13, MovingEndCopies
    <3>14. CASE SearchHeaderListEnd
      BY <2>a, <3>14, MovingSearch
    <3>15. CASE ReadPart
      BY <2>a, <3>15, MovingBody
    <3>16. CASE Watchdog
      BY <2>a, <3>16, MovingFailures
    <3> QED BY <2>2, <3>1, <3>2, <3>3, <3>4, <3>5, <3>6, <3>7, <3>8, <3>9, <3>10, <3>11, <3>12,
               <3>13, <3>14, <3>15, <3>16 DEF LocalStep
  <2>3. ASSUME Cancel \/ ServerFails PROVE Moving'
    BY <2>a, <2>3, MovingFailures
  <2>4. ASSUME TruncateResponse PROVE Moving'
    BY <2>a, <2>4, MovingTruncated
  <2>5. ASSUME UNCHANGED vars PROVE Moving'
    <3> USE DEF vars, inputs, control, files, multipart
    <3>1. Kinds' /\ Executable'
      BY <2>5 DEF Shape, Kinds, Executable
    <3>2. IsMulti' <=> IsMulti
      BY <2>5 DEF IsMulti
    <3>3. Waiting' /\ SplitterIsControlled'
      BY <2>5, <3>2 DEF Shape, Waiting, SplitterIsControlled
    <3> QED BY <3>1, <3>3 DEF Moving
  <2>6. Moving'
    BY <2>1, <2>2, <2>3, <2>4, <2>5 DEF Next
  <2> QED BY <2>c, <2>6
<1> QED
  BY <1>1, Invariance, ShapeInitially, PTL DEF Spec

\* The invariant says of every variable what it may be.
LEMMA ShapeIsTyped == IInv /\ Shape => TypeOK
<1> SUFFICES ASSUME IInv, Shape PROVE TypeOK
  OBVIOUS
<1>1. PartCount = Count(plan, batch) /\ Count(plan, batch) \in Nat
  BY BatchOfState DEF Shape
<1>2. splitter.part \in -1 .. PartCount /\ (splitter.ignore = 0 \/ splitter.remaining = 0)
  <2>1. CASE step = "split"
    <3>1. IsControlled(Count(plan, batch), splitter)
      BY <2>1 DEF Shape, SplitterIsControlled
    <3> QED BY <1>1, <3>1 DEF IsControlled, Splitters
  <2>2. CASE step # "split"
    <3>1. splitter = NoSplitter
      BY <2>2 DEF Shape, Waiting
    <3>2. splitter.part = -1 /\ splitter.ignore = 0
      BY <3>1 DEF NoSplitter
    <3> QED BY <1>1, <3>2
  <2> QED BY <2>1, <2>2
<1>3. splitter.at \in {"none", "idle", "part", "copies", "header", "body"} /\ splitter.ignore \in Nat
      /\ splitter.remaining \in Nat
  BY DEF Shape, Kinds, Splitters
<1>4. batch.start \in 1 .. Len(plan) + 1 /\ batch.end \in batch.start .. Len(plan) + 1
  BY BatchOfState DEF Shape
<1>5. phase \in {"planning", "starting", "running", "stopping", "stopped", "done", "failed"}
  BY DEF IInv, Control, Phases
<1> QED BY <1>2, <1>3, <1>4, <1>5 DEF TypeOK, Shape, Kinds, Errors

----------------------------------------------------------------------------
(* The data: what is written, as long as nothing goes wrong outside.        *)

\* Nothing has gone wrong outside.
Clean == ~cancelled /\ faults = 0 /\ isOldFileIntact /\ HasNoEmptyBlock(newMap)

\* What the operations before i write.
WrittenBefore(bytes, operations, i) == SubSeq(bytes, 1, EndsOf(Lengths(operations))[i - 1])

\* What an operation adds to it.
Writes(bytes, operations, i, piece) ==
  WrittenBefore(bytes, operations, i) \o piece = WrittenBefore(bytes, operations, i + 1)

\* An operation lies in the new file where those before it end.
LEMMA CleanPlan ==
  ASSUME Given, Clean
  PROVE  LET e == EndsOf(Lengths(plan))
         IN /\ e \in [0 .. Len(plan) -> Nat] /\ e[0] = 0 /\ e[Len(plan)] = Len(FileOf(newMap))
            /\ \A i \in 1 .. Len(plan) :
                 /\ e[i - 1] \in Nat /\ e[i] \in Nat
                 /\ e[i - 1] < e[i] /\ e[i] <= Len(FileOf(newMap)) /\ Length(plan[i]) = e[i] - e[i - 1]
                 /\ Produces(plan[i], FileOf(oldMap), FileOf(newMap), e[i - 1], e[i])
                 /\ plan[i].kind = "download" => plan[i].start = e[i - 1] /\ plan[i].end = e[i]
<1> DEFINE e == EndsOf(Lengths(plan))
           old == FileOf(oldMap)
           new == FileOf(newMap)
           n == Len(plan)
<1>1. IsLaid(plan, old, new, e, Len(new))
  <2>1. PICK u \in BOOLEAN : plan = PlanFor(oldMap, newMap, u)
    BY DEF Given
  <2> QED BY <2>1, PlanBuildsNewFile DEF Given, Clean
<1>2. /\ plan \in Seq(Op) /\ n \in Nat /\ e \in [0..n -> Nat] /\ e[0] = 0 /\ e[n] = Len(new)
      /\ \A i \in 1..n : Produces(plan[i], old, new, e[i - 1], e[i])
  BY <1>1 DEF IsLaid
<1>3. Lengths(plan) \in Seq(Nat) /\ Len(Lengths(plan)) = n
  <2>1. \A i \in 1..n : Length(plan[i]) \in Nat
    <3> SUFFICES ASSUME NEW i \in 1..n PROVE Length(plan[i]) \in Nat
      OBVIOUS
    <3> DEFINE a == e[i - 1]
               b == e[i]
    <3>1. i - 1 \in 0..n /\ i \in 0..n
      BY <1>2
    <3>2. a \in Nat /\ b \in Nat
      BY <1>2, <3>1
    <3>3. Produces(plan[i], old, new, a, b)
      BY <1>2
    <3> HIDE DEF a, b, e
    <3> QED BY <3>2, <3>3 DEF Produces, Length
  <2>2. Lengths(plan) \in [1..n -> Nat]
    BY <1>2, <2>1 DEF Lengths
  <2> DEFINE ls == Lengths(plan)
  <2> HIDE DEF ls
  <2>3. ls \in [1..n -> Nat]
    BY <2>2 DEF ls
  <2>4. ls \in Seq(Nat) /\ Len(ls) = n
    BY <1>2, <2>3
  <2> QED BY <2>4 DEF ls
<1>4. ASSUME NEW i \in 1..n
      PROVE  /\ e[i - 1] \in Nat /\ e[i] \in Nat
             /\ e[i - 1] < e[i] /\ e[i] <= Len(new) /\ Length(plan[i]) = e[i] - e[i - 1]
             /\ Produces(plan[i], old, new, e[i - 1], e[i])
             /\ plan[i].kind = "download" => plan[i].start = e[i - 1] /\ plan[i].end = e[i]
  <2> DEFINE a == e[i - 1]
             b == e[i]
  <2>1. i - 1 \in 0..n /\ i \in 0..n /\ n \in i..n
    BY <1>2
  <2>2. a \in Nat /\ b \in Nat
    BY <1>2, <2>1
  <2>3. Produces(plan[i], old, new, a, b)
    BY <1>2
  <2>4. b <= Len(new)
    <3>1. e[i] <= e[n]
      BY <1>3, <2>1, EndsOfMonotone
    <3> QED BY <1>2, <3>1
  <2> HIDE DEF a, b, e, old, new
  <2>5. plan[i] \in Op
    BY <2>3 DEF Produces
  <2>6. a < b /\ Length(plan[i]) = b - a /\ (plan[i].kind = "download" => plan[i].start = a /\ plan[i].end = b)
    BY <2>2, <2>3, <2>5 DEF Produces, Op, Length
  <2> QED BY <2>2, <2>3, <2>4, <2>6 DEF a, b
<1> HIDE DEF e, n, old, new
<1>5. \A i \in 1..n :
             /\ e[i - 1] \in Nat /\ e[i] \in Nat
             /\ e[i - 1] < e[i] /\ e[i] <= Len(new) /\ Length(plan[i]) = e[i] - e[i - 1]
             /\ Produces(plan[i], old, new, e[i - 1], e[i])
             /\ plan[i].kind = "download" => plan[i].start = e[i - 1] /\ plan[i].end = e[i]
  BY <1>4
<1> QED BY <1>2, <1>5 DEF e, n, old, new

\* A piece of the new file after what is written.
IsPieceAt(bytes, from, piece, to) == SubSeq(bytes, 1, from) \o piece = SubSeq(bytes, 1, to)

\* The bytes between two positions are such a piece.
LEMMA PieceAt ==
  ASSUME NEW bytes \in Seq(Byte), NEW a \in Nat, NEW b \in Nat, a <= b, b <= Len(bytes)
  PROVE  IsPieceAt(bytes, a, SubSeq(bytes, a + 1, b), b)
<1>1. a \in 0 .. Len(bytes) /\ b \in a .. Len(bytes) /\ 0 + 1 = 1 /\ 0 \in Nat
  OBVIOUS
<1>2. SubSeq(bytes, 0 + 1, a) \o SubSeq(bytes, a + 1, b) = SubSeq(bytes, 0 + 1, b)
  BY <1>1, PartAndNext
<1> QED BY <1>1, <1>2 DEF IsPieceAt

\* The new file is its blocks, then the metadata.
LEMMA BlocksOfNewFile ==
  ASSUME Given
  PROVE  /\ SubSeq(NewBytes, 1, Len(FileOf(newMap))) = FileOf(newMap)
         /\ \A i \in 1 .. Len(FileOf(newMap)) : NewBytes[i] = FileOf(newMap)[i]
<1> DEFINE f == FileOf(newMap)
           m == FileMetadata
<1>1. f \in Seq(Byte) /\ m \in Seq(Byte) /\ NewBytes = f \o m /\ NewBytes \in Seq(Byte) /\ Len(NewBytes) = Len(f) + Len(m)
      /\ Len(f) \in Nat /\ Len(m) \in Nat
  BY NewFileOfState DEF NewBytes
<1> HIDE DEF f, m
<1>2. \A i \in 1 .. Len(f) : NewBytes[i] = f[i]
  BY <1>1, ConcatProperties
<1> DEFINE n == Len(f)
           s == SubSeq(NewBytes, 0 + 1, n)
<1>3. s \in Seq(Byte) /\ Len(s) = n /\ \A i \in 1 .. n : s[i] = NewBytes[i]
  <2>1. n \in Int /\ n <= Len(NewBytes) /\ 0 <= n /\ n - 0 = n /\ 0 \in Nat
    BY <1>1
  <2> HIDE DEF n
  <2>2. /\ SubSeq(NewBytes, 0 + 1, n) \in Seq(Byte) /\ Len(SubSeq(NewBytes, 0 + 1, n)) = n - 0
        /\ \A i \in 1 .. n - 0 : SubSeq(NewBytes, 0 + 1, n)[i] = NewBytes[0 + i]
    BY <1>1, <2>1, PartOf
  <2>3. \A i \in 1..n : 0 + i = i
    BY <2>1
  <2> QED BY <2>1, <2>2, <2>3
<1>4. s = f
  <2> HIDE DEF s
  <2>1. Len(s) = Len(f) /\ \A i \in 1 .. Len(s) : s[i] = f[i]
    BY <1>2, <1>3
  <2> QED BY <1>1, <1>3, <2>1, SeqEqual
<1>5. 0 + 1 = 1
  OBVIOUS
<1> QED BY <1>2, <1>4, <1>5 DEF f

\* A download writes what comes next, ...
LEMMA DownloadWrites ==
  ASSUME Given, Clean, NEW i \in 1 .. Len(plan), plan[i].kind = "download"
  PROVE  Writes(NewBytes, plan, i, Slice(NewBytes, plan[i]))
<1> DEFINE e == EndsOf(Lengths(plan))
           a == e[i - 1]
           b == e[i]
<1>1. /\ a \in Nat /\ b \in Nat /\ a < b /\ b <= Len(FileOf(newMap)) /\ plan[i].start = a /\ plan[i].end = b
      /\ plan[i] \in Op
  BY CleanPlan DEF Produces
<1>2. NewBytes \in Seq(Byte) /\ b <= Len(NewBytes)
  <2> HIDE DEF b
  <2> QED BY <1>1, NewFileOfState
<1>3. Slice(NewBytes, plan[i]) = SubSeq(NewBytes, a + 1, b)
  <2> HIDE DEF a, b
  <2> QED BY <1>1, <1>2, SliceProperties
<1>4. IsPieceAt(NewBytes, a, SubSeq(NewBytes, a + 1, b), b)
  <2> HIDE DEF a, b
  <2> QED BY <1>1, <1>2, PieceAt
<1>5. (i + 1) - 1 = i
  BY <1>1 DEF Given
<1> QED BY <1>3, <1>4, <1>5 DEF Writes, WrittenBefore, IsPieceAt

\* ... and a copy of the old file too.
LEMMA CopyWrites ==
  ASSUME Given, Clean, NEW i \in 1 .. Len(plan), plan[i].kind = "copy"
  PROVE  Writes(NewBytes, plan, i, Slice(OldBytes, plan[i]))
<1> DEFINE e == EndsOf(Lengths(plan))
           a == e[i - 1]
           b == e[i]
           old == FileOf(oldMap)
           new == FileOf(newMap)
           x == plan[i].start
           y == plan[i].end
<1>1. /\ a \in Nat /\ b \in Nat /\ a < b /\ b <= Len(new) /\ plan[i] \in Op
      /\ y - x = b - a /\ y <= Len(old) /\ \A j \in 1 .. b - a : old[x + j] = new[a + j]
  BY CleanPlan DEF Produces
<1>2. x \in Nat /\ y \in Nat /\ old \in Seq(Byte) /\ OldBytes = old
  BY <1>1, FileProperties DEF Op, Given, Clean, OldBytes
<1>3. NewBytes \in Seq(Byte) /\ b <= Len(NewBytes) /\ \A j \in 1 .. Len(new) : NewBytes[j] = new[j]
  <2>1. Len(new) <= Len(NewBytes)
    BY NewFileOfState
  <2>2. NewBytes \in Seq(Byte) /\ \A j \in 1 .. Len(new) : NewBytes[j] = new[j]
    BY NewFileOfState, BlocksOfNewFile
  <2>3. Len(NewBytes) \in Nat /\ Len(new) \in Nat
    BY NewFileOfState
  <2> HIDE DEF b, new
  <2> QED BY <1>1, <2>1, <2>2, <2>3
<1> HIDE DEF a, b, old, new
<1>4. Slice(OldBytes, plan[i]) = SubSeq(old, x + 1, y)
  BY <1>1, <1>2, SliceProperties
<1> HIDE DEF x, y
<1> DEFINE s == SubSeq(old, x + 1, y)
           t == SubSeq(NewBytes, a + 1, b)
<1>5. s \in Seq(Byte) /\ Len(s) = y - x /\ \A j \in 1 .. y - x : s[j] = old[x + j]
  <2>1. x <= y
    BY <1>1, <1>2
  <2> QED BY <1>1, <1>2, <2>1, PartOf
<1>6. t \in Seq(Byte) /\ Len(t) = b - a /\ \A j \in 1 .. b - a : t[j] = NewBytes[a + j]
  <2>1. a <= b
    BY <1>1
  <2> QED BY <1>1, <1>3, <2>1, PartOf
<1>7. s = t
  <2> HIDE DEF s, t
  <2>1. \A j \in 1 .. b - a : s[j] = t[j]
    <3> SUFFICES ASSUME NEW j \in 1 .. b - a PROVE s[j] = t[j]
      OBVIOUS
    <3>1. a + j \in 1 .. Len(new)
      <4>1. Len(new) \in Nat
        BY NewFileOfState DEF new
      <4> QED BY <1>1, <4>1
    <3>2. s[j] = old[x + j] /\ t[j] = NewBytes[a + j] /\ old[x + j] = new[a + j]
      BY <1>1, <1>5, <1>6
    <3> QED BY <1>3, <3>1, <3>2
  <2> QED BY <1>1, <1>5, <1>6, <2>1, SeqEqual
<1>8. IsPieceAt(NewBytes, a, t, b)
  BY <1>1, <1>3, PieceAt
<1>9. (i + 1) - 1 = i
  BY DEF Given
<1> QED BY <1>4, <1>7, <1>8, <1>9 DEF Writes, WrittenBefore, IsPieceAt, a, b, s, t

\* Nothing is written at the start; after the last operation only the metadata is missing.
LEMMA WrittenEnds ==
  ASSUME Given, Clean
  PROVE  /\ WrittenBefore(NewBytes, plan, 1) = <<>>
         /\ WrittenBefore(NewBytes, plan, Len(plan) + 1) \o FileMetadata = NewBytes
<1> DEFINE e == EndsOf(Lengths(plan))
<1>1. e[0] = 0 /\ e[Len(plan)] = Len(FileOf(newMap)) /\ Len(plan) \in Nat
  BY CleanPlan DEF Given
<1>2. 1 - 1 = 0 /\ (Len(plan) + 1) - 1 = Len(plan)
  BY <1>1
<1>3. WrittenBefore(NewBytes, plan, 1) = <<>>
  <2>1. SubSeq(NewBytes, 1, 0) = <<>>
    BY SubSeqEmpty
  <2> QED BY <1>1, <1>2, <2>1 DEF WrittenBefore
<1>4. WrittenBefore(NewBytes, plan, Len(plan) + 1) = FileOf(newMap)
  BY <1>1, <1>2, BlocksOfNewFile DEF WrittenBefore
<1> QED BY <1>3, <1>4 DEF NewBytes

\* The ranges of an answer are ranges of the new file.
LEMMA CleanRanges ==
  ASSUME Given, Kinds, Clean, IsMulti
  PROVE  AreRanges(NewBytes, Ranges)
<1> DEFINE n == Count(plan, batch)
<1>1. Ranges \in Seq(Op) /\ Len(Ranges) = n /\ n # 0 /\ n \in Nat
  BY RangesOfState, BatchOfState DEF IsMulti
<1>2. NewBytes \in Seq(Byte) /\ Len(FileOf(newMap)) <= Len(NewBytes) /\ Len(NewBytes) \in Nat /\ Len(FileOf(newMap)) \in Nat
  BY NewFileOfState
<1>3. ASSUME NEW k \in 1..n PROVE Ranges[k].start <= Ranges[k].end /\ Ranges[k].end <= Len(NewBytes)
  <2> DEFINE j == k - 1
             i == Task(plan, batch, j)
  <2>1. j \in 0 .. n - 1 /\ j + 1 = k
    BY <1>1
  <2>2. Ranges[j + 1] = plan[i] /\ i \in 1 .. Len(plan) /\ plan[i].kind = "download"
    <3> HIDE DEF j
    <3> QED BY <2>1, RangesOfState, BatchOfState
  <2> HIDE DEF i
  <2> DEFINE a == EndsOf(Lengths(plan))[i - 1]
             b == EndsOf(Lengths(plan))[i]
  <2>3. a \in Nat /\ b \in Nat /\ a < b /\ b <= Len(FileOf(newMap)) /\ plan[i].start = a /\ plan[i].end = b
    BY <2>2, CleanPlan
  <2> HIDE DEF a, b, j
  <2> QED BY <2>1, <2>2, <2>3, <1>2
<1> QED BY <1>1, <1>2, <1>3 DEF AreRanges, AreWithin

\* What is written while the parts of an answer are taken apart: all before the next operation and,
\* while the data of a part comes, the first bytes of it.
IsSplit(bytes, operations, b, s, next_, file) ==
  LET m == s.part IN
  IF s.at = "part" \/ (s.at = "idle" /\ ~s.isHeader)
  THEN IF m = -1 THEN next_ = b.start /\ file = WrittenBefore(bytes, operations, b.start)
       ELSE /\ next_ = Task(operations, b, m) /\ s.actual + s.remaining = Length(operations[next_])
            /\ file = SubSeq(bytes, 1, EndsOf(Lengths(operations))[next_ - 1] + s.actual)
  ELSE /\ file = WrittenBefore(bytes, operations, next_)
       /\ m > 0 => s.actual = Length(operations[Task(operations, b, m - 1)])
       /\ s.at # "copies" => next_ = Task(operations, b, m)

\* An attempt stops only for a slow copy or a refusal of several ranges, and the download fails
\* only for the copy.
Blameless ==
  /\ phase \in {"stopping", "stopped"} => /\ error \in {"none", "slow", "multipleRanges"}
                                          /\ error = "multipleRanges" => useMultiple
  /\ phase = "failed" => error = "slow"
\* What w has written.
IsWritten ==
  /\ step \in {"next", "copying", "response"} \/ (step = "none" /\ phase = "running") =>
       newFile = WrittenBefore(NewBytes, plan, next)
  /\ step = "finishing" => newFile = NewBytes
\* Where the splitter is, in the new file and in the answer.
IsInStep ==
  step = "split" => /\ IsSplit(NewBytes, plan, batch, splitter, next, newFile)
                    /\ IsStream(NewBytes, Ranges, splitter, chunk, response)
\* The three together.
Good == Blameless /\ IsWritten /\ IsInStep

\* As long as nothing goes wrong outside, all is well inside.
Right == Clean => Good

\* What has gone wrong outside stays so.
LEMMA CleanBefore ==
  ASSUME Inv, [Next]_vars, Clean'
  PROVE  Clean /\ ~cancelled' /\ faults' = 0 /\ NewBytes' = NewBytes
<1>1. UNCHANGED <<inputs, plan>>
  BY NothingGivenChanges
<1>2. cancelled \in BOOLEAN /\ faults \in Nat
  BY DEF Inv, Shape, Kinds
<1>3. ~cancelled' /\ faults' = 0 /\ isOldFileIntact /\ HasNoEmptyBlock(newMap) /\ NewBytes' = NewBytes
  BY <1>1 DEF Clean, inputs, NewBytes
<1>4. (cancelled' = cancelled \/ cancelled') /\ (faults' = faults \/ faults' = faults + 1)
  <2> USE DEF inputs, control, files, multipart, Idle, StopsFor, SplitterStep
  <2>1. CASE CheckPlan \/ StartAttempt \/ StartCancelled \/ CloseNewFile \/ CloseOldFile
    BY <2>1 DEF CheckPlan, StartAttempt, StartCancelled, CloseNewFile, CloseOldFile
  <2>2. CASE StartBatch \/ StartCopy \/ EndCopy \/ EndStoppedCopy \/ RequestRange \/ EndPause
    BY <2>2 DEF StartBatch, StartCopy, EndCopy, EndStoppedCopy, RequestRange, EndPause
  <2>3. CASE EndFile \/ ValidateNewFile \/ NextPart \/ CopyExistingData
    BY <2>3 DEF EndFile, ValidateNewFile, NextPart, CopyExistingData
  <2>4. CASE EndCopies \/ SearchHeaderListEnd \/ ReadPart
    BY <2>4 DEF EndCopies, SearchHeaderListEnd, ReadPart
  <2>5. CASE ReceiveRange \/ (\E eol \in {CRLF, LF} : AnswerMultipart(eol)) \/ RefuseRanges
             \/ \E n \in 1..Len(response) : ReceiveChunk(n)
    BY <2>5 DEF ReceiveRange, AnswerMultipart, RefuseRanges, ReceiveChunk
  <2>6. CASE Cancel \/ ServerFails \/ TruncateResponse \/ Watchdog \/ UNCHANGED vars
    BY <2>6 DEF Cancel, ServerFails, TruncateResponse, Watchdog, vars
  <2> QED BY <2>1, <2>2, <2>3, <2>4, <2>5, <2>6 DEF Next, ServerStep, LocalStep
<1>5. ~cancelled /\ faults = 0
  BY <1>2, <1>3, <1>4
<1> QED BY <1>3, <1>5 DEF Clean

\* The plan, and what is written at its ends.
LEMMA GoodStarts ==
  ASSUME Inv, Clean, Good, CheckPlan, NewBytes' = NewBytes
  PROVE  Good'
<1> USE DEF inputs, control, files, multipart, Idle
<1>1. phase = "planning" /\ UNCHANGED <<step, newFile>> /\ phase' \in {"starting", "failed"}
  BY DEF CheckPlan
<1>2. step = "none"
  BY <1>1 DEF Inv, IInv, Control
<1>3. IsPlanValid(plan, Len(NewBytes) - Len(FileMetadata))
  <2>1. Len(NewBytes) - Len(FileMetadata) = Len(FileOf(newMap))
    BY NewFileOfState DEF Inv, Shape
  <2>2. PICK u \in BOOLEAN : plan = PlanFor(oldMap, newMap, u)
    BY DEF Inv, Shape, Given
  <2>3. oldMap \in BlockMaps /\ newMap \in BlockMaps /\ HasNoEmptyBlock(newMap)
    BY DEF Inv, Shape, Given, Clean
  <2>4. IsPlanValid(plan, Len(FileOf(newMap)))
    BY ONLY <2>2, <2>3, PlanIsValid
  <2> QED BY <2>1, <2>4
<1>4. phase' = "starting"
  BY <1>3 DEF CheckPlan
<1> QED BY <1>1, <1>2, <1>4 DEF Good, Blameless, IsWritten, IsInStep

\* An attempt starts with an empty file.
LEMMA GoodAttempt ==
  ASSUME Inv, Clean, Good, StartAttempt, NewBytes' = NewBytes
  PROVE  Good'
<1> USE DEF inputs, control, files, multipart, Idle
<1>1. phase' = "running" /\ step' = "next" /\ next' = 1 /\ newFile' = <<>> /\ plan' = plan
  BY DEF StartAttempt
<1>2. WrittenBefore(NewBytes, plan, 1) = <<>>
  BY WrittenEnds DEF Inv, Shape
<1> QED BY <1>1, <1>2 DEF Good, Blameless, IsWritten, IsInStep

\* An attempt that has stopped ends the download or makes room for the next.
LEMMA GoodOutside ==
  ASSUME Inv, Clean, Good, StartCancelled \/ CloseNewFile \/ CloseOldFile, NewBytes' = NewBytes
  PROVE  Good'
<1> USE DEF inputs, control, files, multipart, Idle
<1>1. step' = step /\ step = "none"
  <2>1. step' = step /\ phase # "running"
    BY DEF StartCancelled, CloseNewFile, CloseOldFile
  <2> QED BY <2>1 DEF Inv, IInv, Control
<1>2. ~StartCancelled
  BY DEF StartCancelled, Clean
<1>3. CASE CloseNewFile
  BY <1>1, <1>3 DEF CloseNewFile, Good, Blameless, IsWritten, IsInStep
<1>4. CASE CloseOldFile
  BY <1>1, <1>4 DEF CloseOldFile, Good, Blameless, IsWritten, IsInStep, Clean
<1> QED BY <1>2, <1>3, <1>4

\* An attempt that stops for a slow copy or a refusal of several ranges.
LEMMA GoodStops ==
  ASSUME NEW e, e \in {"slow", "multipleRanges"}, e = "multipleRanges" => useMultiple',
         phase' = "stopping", error' = e, step' = "none"
  PROVE  Good'
  BY DEF Good, Blameless, IsWritten, IsInStep

\* The refusal, and a copy that takes longer than the watchdog allows: it does not bark while
\* bytes of a whole answer are waited for.
LEMMA GoodRefused ==
  ASSUME Inv, Clean, Good, RefuseRanges \/ Watchdog
  PROVE  Good'
<1>1. CASE RefuseRanges
  <2>1. phase' = "stopping" /\ error' = "multipleRanges" /\ step' = "none" /\ useMultiple' /\ useMultiple' = TRUE
    BY <1>1 DEF RefuseRanges, StopsFor, Reject, IsMultiRequest, Inv, Shape, Kinds
  <2> QED BY <2>1, GoodStops
<1>2. CASE Watchdog
  <2>1. step = "split" /\ response = <<>>
    BY <1>2 DEF Watchdog
  <2>2. splitter.at # "idle"
    <3> SUFFICES ASSUME splitter.at = "idle" PROVE FALSE
      OBVIOUS
    <3>1. IsMulti /\ IsControlled(Count(plan, batch), splitter)
      BY <2>1, SplittingState
    <3>2. AreRanges(NewBytes, Ranges) /\ Len(Ranges) = Count(plan, batch)
      BY <3>1, CleanRanges, RangesOfState DEF Inv, Shape
    <3>3. IsStream(NewBytes, Ranges, splitter, chunk, response)
      BY <2>1 DEF Good, IsInStep
    <3>4. IsControlled(Len(Ranges), splitter)
      BY <3>1, <3>2
    <3> QED BY ONLY <2>1, <3>2, <3>3, <3>4, splitter.at = "idle", NoStreamIdleAtEnd
  <2>3. phase' = "stopping" /\ error' = "slow" /\ step' = "none"
    BY <1>2, <2>2 DEF Watchdog, StopsFor, Reject
  <2> QED BY <2>3, GoodStops
<1> QED BY <1>1, <1>2

\* The steps of w that write nothing.
LEMMA GoodBetween ==
  ASSUME Inv, Good, StartBatch \/ StartCopy \/ RequestRange \/ EndPause \/ EndStoppedCopy, NewBytes' = NewBytes
  PROVE  Good'
<1> USE DEF inputs, control, files, multipart, Idle
<1>1. /\ UNCHANGED <<phase, error, useMultiple, plan, newFile, next>>
      /\ step' = step \/ (step \in {"none", "next"} /\ step' \in {"next", "copying", "response"} /\ phase = "running")
  <2>1. CASE StartBatch
    BY <2>1 DEF StartBatch, Inv, IInv, Control
  <2>2. CASE StartCopy
    BY <2>2 DEF StartCopy, OutIsDestroyed
  <2>3. CASE RequestRange
    BY <2>3 DEF RequestRange, OutIsDestroyed
  <2>4. CASE EndPause
    <3>1. phase = "running" => step = "none"
      BY <2>4 DEF EndPause, Inv, Shape, Waiting
    <3> QED BY <2>4, <3>1 DEF EndPause, OutIsDestroyed
  <2>5. CASE EndStoppedCopy
    BY <2>5 DEF EndStoppedCopy
  <2> QED BY <2>1, <2>2, <2>3, <2>4, <2>5
<1>2. Blameless'
  BY <1>1 DEF Good, Blameless
<1>3. IsWritten'
  BY <1>1 DEF Good, IsWritten, WrittenBefore
<1>4. step' = "split" => UNCHANGED <<batch, splitter, chunk, response>>
  BY <1>1 DEF StartBatch, StartCopy, RequestRange, EndPause, EndStoppedCopy
<1>5. IsInStep'
  <2> SUFFICES ASSUME step' = "split" PROVE IsInStep'
    BY DEF IsInStep
  <2>1. step = "split" /\ UNCHANGED <<batch, splitter, chunk, response, plan, newFile, next>>
    BY <1>1, <1>4
  <2>2. Ranges' = Ranges
    BY <2>1 DEF Ranges
  <2>3. IsSplit(NewBytes, plan, batch, splitter, next, newFile) /\ IsStream(NewBytes, Ranges, splitter, chunk, response)
    BY <2>1 DEF Good, IsInStep
  <2> QED BY <2>1, <2>2, <2>3 DEF IsInStep
<1> QED BY <1>2, <1>3, <1>5 DEF Good

\* A range that was asked for.
LEMMA GoodRange ==
  ASSUME Inv, Clean, Good, ReceiveRange, NewBytes' = NewBytes
  PROVE  Good'
<1> USE DEF inputs, control, files, multipart
<1>1. /\ step = "response" /\ next' = next + 1 /\ step' \in {"none", "next"} /\ newFile' = newFile \o Slice(NewBytes, plan[next])
      /\ UNCHANGED <<phase, error, useMultiple, plan>>
  BY DEF ReceiveRange
<1>2. phase = "running" /\ next < batch.end /\ plan[next].kind = "download" /\ ~IsMulti
  <2>1. phase = "running"
    BY <1>1 DEF Inv, IInv, Control
  <2>2. ~IsMulti
    BY BatchOfState DEF ReceiveRange, IsMultiRequest, IsMulti, Inv, Shape
  <2> QED BY <1>1, <2>1, <2>2 DEF Inv, Shape, Waiting
<1>3. next \in 1 .. Len(plan)
  BY <1>2 DEF Inv, Shape, Kinds, Given, IsBatch
<1>4. newFile = WrittenBefore(NewBytes, plan, next)
  BY <1>1 DEF Good, IsWritten
<1>5. newFile' = WrittenBefore(NewBytes, plan, next + 1)
  BY <1>1, <1>2, <1>3, <1>4, DownloadWrites DEF Writes, Inv, Shape
<1>6. Blameless'
  BY <1>1 DEF Good, Blameless
<1>7. IsWritten'
  BY <1>1, <1>5 DEF IsWritten
<1> QED BY <1>1, <1>6, <1>7 DEF Good, IsInStep

\* A copy, in w or between the parts of an answer.
LEMMA GoodCopy ==
  ASSUME Inv, Clean, Good, EndCopy, NewBytes' = NewBytes
  PROVE  Good'
<1> USE DEF inputs, control, files, multipart
<1>1. /\ copy # 0 /\ phase = "running" /\ next' = copy + 1 /\ newFile' = newFile \o Slice(OldBytes, plan[copy])
      /\ step' = (IF step = "copying" THEN "next" ELSE step)
      /\ UNCHANGED <<phase, error, useMultiple, plan, batch, splitter, chunk, response>>
  BY DEF EndCopy, OutIsDestroyed
<1>2. copy = next /\ next < batch.end /\ plan[next].kind = "copy" /\ (step = "copying" \/ (step = "split" /\ splitter.at = "copies"))
  BY <1>1 DEF Inv, Shape, Waiting
<1>3. next \in 1 .. Len(plan)
  BY <1>2 DEF Inv, Shape, Kinds, Given, IsBatch
<1>4. newFile = WrittenBefore(NewBytes, plan, next)
  BY <1>2 DEF Good, IsWritten, IsInStep, IsSplit
<1>5. newFile' = WrittenBefore(NewBytes, plan, next')
  BY <1>1, <1>2, <1>3, <1>4, CopyWrites DEF Writes, Inv, Shape
<1>6. Blameless'
  BY <1>1 DEF Good, Blameless
<1>7. IsWritten'
  BY <1>1, <1>2, <1>5 DEF IsWritten
<1>8. IsInStep'
  <2> SUFFICES ASSUME step' = "split" PROVE IsInStep'
    BY DEF IsInStep
  <2>1. step = "split" /\ splitter.at = "copies"
    BY <1>1, <1>2
  <2>2. Ranges' = Ranges
    BY <1>1 DEF Ranges
  <2>3. IsSplit(NewBytes, plan, batch, splitter, next, newFile) /\ IsStream(NewBytes, Ranges, splitter, chunk, response)
    BY <2>1 DEF Good, IsInStep
  <2>4. IsSplit(NewBytes, plan, batch, splitter, next', newFile')
    BY <2>1, <2>3, <1>5 DEF IsSplit
  <2> QED BY <1>1, <2>2, <2>3, <2>4 DEF IsInStep
<1> QED BY <1>6, <1>7, <1>8 DEF Good

\* The end of the file and its digest.
LEMMA GoodEnd ==
  ASSUME Inv, Clean, Good, EndFile \/ ValidateNewFile, NewBytes' = NewBytes
  PROVE  Good'
<1> USE DEF inputs, control, files, multipart, Idle
<1>1. CASE EndFile
  <2>1. /\ step = "next" /\ next > Len(plan) /\ newFile' = newFile \o FileMetadata /\ step' = "finishing"
        /\ UNCHANGED <<phase, error, useMultiple>>
    BY <1>1 DEF EndFile
  <2>2. next = Len(plan) + 1
    BY <2>1 DEF Inv, Shape, Kinds, Given
  <2>3. newFile = WrittenBefore(NewBytes, plan, next)
    BY <2>1 DEF Good, IsWritten
  <2>4. newFile' = NewBytes
    BY <2>1, <2>2, <2>3, WrittenEnds DEF Inv, Shape
  <2> QED BY <2>1, <2>4 DEF Good, Blameless, IsWritten, IsInStep
<1>2. CASE ValidateNewFile
  <2>1. IsDigestValid(newFile) /\ phase = "running"
    BY <1>2 DEF ValidateNewFile, IsDigestValid, Good, IsWritten, Inv, IInv, Control
  <2>2. phase' = "stopped" /\ error' = "none" /\ step' = "none"
    BY <1>2, <2>1 DEF ValidateNewFile, Inv, IInv, Verdict
  <2> QED BY <2>2 DEF Good, Blameless, IsWritten, IsInStep
<1> QED BY <1>1, <1>2

\* A step of the splitter that leaves it in step.
LEMMA GoodSplit ==
  ASSUME Good, UNCHANGED <<phase, error, useMultiple, plan, batch>>, step' = "split", NewBytes' = NewBytes,
         IsSplit(NewBytes, plan, batch, splitter', next', newFile'),
         IsStream(NewBytes, Ranges, splitter', chunk', response')
  PROVE  Good'
<1>1. Ranges' = Ranges
  BY DEF Ranges
<1>2. Blameless' /\ IsWritten'
  BY DEF Good, Blameless, IsWritten
<1>3. IsInStep'
  BY <1>1 DEF IsInStep
<1> QED BY <1>2, <1>3 DEF Good

\* The splitter in an answer that is to its ranges.
LEMMA InStepState ==
  ASSUME Inv, Clean, Good, step = "split"
  PROVE  /\ AreRanges(NewBytes, Ranges) /\ Len(Ranges) = Count(plan, batch) /\ Count(plan, batch) \in Nat
         /\ IsControlled(Len(Ranges), splitter) /\ splitter \in Splitters
         /\ IsSplit(NewBytes, plan, batch, splitter, next, newFile)
         /\ IsStream(NewBytes, Ranges, splitter, chunk, response)
<1>1. IsMulti /\ IsControlled(Count(plan, batch), splitter) /\ Count(plan, batch) \in Nat /\ splitter \in Splitters
  BY SplittingState
<1>2. AreRanges(NewBytes, Ranges) /\ Len(Ranges) = Count(plan, batch)
  BY <1>1, CleanRanges, RangesOfState DEF Inv, Shape
<1> QED BY <1>1, <1>2 DEF Good, IsInStep

\* The answer: nothing of the batch is written.
LEMMA GoodAnswer ==
  ASSUME Inv, Clean, Good, NEW eol \in {CRLF, LF}, AnswerMultipart(eol), NewBytes' = NewBytes
  PROVE  Good'
<1> USE DEF inputs, control, files
<1>1. /\ step = "response" /\ step' = "split" /\ UNCHANGED <<phase, error, useMultiple, plan, batch, next, newFile>>
      /\ response' = MultipartBody(eol) /\ chunk' = <<>> /\ splitter' = NewSplitter
  BY DEF AnswerMultipart
<1>2. IsMulti
  BY BatchOfState DEF AnswerMultipart, IsMultiRequest, IsMulti, Inv, Shape
<1>3. next = batch.start
  BY <1>1, <1>2 DEF Inv, Shape, Waiting, IInv, Control
<1>4. newFile = WrittenBefore(NewBytes, plan, next)
  BY <1>1 DEF Good, IsWritten
<1>5. IsSplit(NewBytes, plan, batch, splitter', next', newFile')
  <2>1. NewSplitter.at = "idle" /\ NewSplitter.isHeader = FALSE /\ NewSplitter.part = -1
    BY DEF NewSplitter, NoSplitter
  <2> QED BY <1>1, <1>3, <1>4, <2>1 DEF IsSplit
<1>6. IsStream(NewBytes, Ranges, splitter', chunk', response')
  <2>1. AreRanges(NewBytes, Ranges) /\ MultipartBody(eol) = AnswerTo(NewBytes, Ranges, eol)
    BY <1>2, CleanRanges, RangesOfState DEF Inv, Shape
  <2>2. IsStream(NewBytes, Ranges, NewSplitter, <<>>, AnswerTo(NewBytes, Ranges, eol))
    BY ONLY <2>1, StreamStarts, eol \in {CRLF, LF}
  <2> QED BY <1>1, <2>1, <2>2
<1> QED BY <1>1, <1>5, <1>6, GoodSplit

\* A copy is started between two parts.
LEMMA GoodCopyStarts ==
  ASSUME Inv, Clean, Good, CopyExistingData, NewBytes' = NewBytes
  PROVE  Good'
<1> USE DEF multipart, files, SplitterStep
<1>1. step = "split" /\ step' = step
      /\ UNCHANGED <<phase, error, useMultiple, plan, batch, next, newFile, splitter, chunk, response>>
  BY DEF CopyExistingData, Splitting
<1> QED BY <1>1, InStepState, GoodSplit

\* The fields of the splitter at the next part.
LEMMA NextPartFields ==
  ASSUME NEW s \in Splitters, NEW s2, s2 = [s EXCEPT !.part = @ + 1, !.at = "copies"]
  PROVE  s2.part = s.part + 1 /\ s2.at = "copies" /\ s2.isHeader = s.isHeader /\ s2.tail = s.tail /\ s2.actual = s.actual
  BY DEF Splitters

\* The next part: the data of the one before it is written.
LEMMA GoodNextPart ==
  ASSUME Inv, Clean, Good, NextPart, NewBytes' = NewBytes
  PROVE  Good'
<1> USE DEF multipart, files, SplitterStep
<1> DEFINE c == Count(plan, batch)
           m == splitter.part
<1>1. /\ step = "split" /\ step' = step /\ splitter.at = "part"
      /\ UNCHANGED <<phase, error, useMultiple, plan, batch, newFile, chunk, response>>
      /\ splitter' = [splitter EXCEPT !.part = @ + 1, !.at = "copies"] /\ next' = PrevTaskOf(splitter.part + 1)
  BY DEF NextPart, Splitting
<1>2. /\ AreRanges(NewBytes, Ranges) /\ Len(Ranges) = c /\ c \in Nat
      /\ IsControlled(Len(Ranges), splitter) /\ splitter \in Splitters
      /\ IsSplit(NewBytes, plan, batch, splitter, next, newFile)
      /\ IsStream(NewBytes, Ranges, splitter, chunk, response)
  BY <1>1, InStepState
<1>3. splitter'.part = m + 1 /\ splitter'.at = "copies" /\ splitter'.isHeader = splitter.isHeader
      /\ splitter'.tail = splitter.tail /\ splitter'.actual = splitter.actual
  BY <1>1, <1>2, NextPartFields
<1>4. m \in -1 .. c - 1 /\ splitter.remaining = 0 /\ splitter.actual \in Nat
  BY <1>1, <1>2 DEF IsControlled, Splitters
<1>5. IsStream(NewBytes, Ranges, splitter', chunk', response')
  <2>1. IsStream(NewBytes, Ranges, splitter', chunk, response)
    BY <1>1, <1>2, <1>3, StreamAtNextPart
  <2> QED BY <1>1, <2>1
<1>6. next' = PrevTask(plan, batch, m + 1)
  <2>1. m + 1 \in 0..c
    BY <1>2, <1>4
  <2> HIDE DEF m
  <2> DEFINE k == m + 1
  <2> HIDE DEF k
  <2>2. PrevTaskOf(k) = PrevTask(plan, batch, k)
    BY <2>1, BatchOfState DEF Inv, Shape, k
  <2> QED BY <1>1, <2>2 DEF k, m
<1>7. CASE m = -1
  <2>1. next' = batch.start /\ newFile = WrittenBefore(NewBytes, plan, batch.start)
    <3>1. PrevTask(plan, batch, 0) = batch.start /\ -1 + 1 = 0
      BY BatchOfState DEF Inv, Shape
    <3>2. newFile = WrittenBefore(NewBytes, plan, batch.start)
      BY <1>1, <1>2, <1>7 DEF IsSplit
    <3> QED BY <1>6, <1>7, <3>1, <3>2
  <2>2. IsSplit(NewBytes, plan, batch, splitter', next', newFile')
    <3>1. ~(splitter'.part > 0)
      BY <1>3, <1>7
    <3> QED BY <1>1, <1>3, <2>1, <3>1 DEF IsSplit
  <2> QED BY <1>1, <1>5, <2>2, GoodSplit
<1>8. CASE m # -1
  <2> DEFINE i == Task(plan, batch, m)
             e == EndsOf(Lengths(plan))
  <2>1. i \in 1 .. Len(plan) /\ PrevTask(plan, batch, m + 1) = i + 1
    <3>1. m \in 0 .. c - 1
      BY <1>2, <1>4, <1>8
    <3> HIDE DEF m
    <3> QED BY <3>1, BatchOfState DEF Inv, Shape
  <2>2. next = i /\ splitter.actual = Length(plan[i]) /\ newFile = SubSeq(NewBytes, 1, e[i - 1] + splitter.actual)
    <3>1. next = i /\ splitter.actual + splitter.remaining = Length(plan[next])
          /\ newFile = SubSeq(NewBytes, 1, e[next - 1] + splitter.actual)
      BY <1>1, <1>2, <1>8 DEF IsSplit
    <3> HIDE DEF i, e
    <3>2. splitter.actual + splitter.remaining = splitter.actual
      BY <1>4
    <3> QED BY <3>1, <3>2
  <2>3. e[i - 1] \in Nat /\ e[i] \in Nat /\ Length(plan[i]) = e[i] - e[i - 1]
    <3> HIDE DEF i
    <3> QED BY <2>1, CleanPlan DEF Inv, Shape
  <2>4. e[i - 1] + splitter.actual = e[i] /\ (i + 1) - 1 = i
    <3> HIDE DEF e, i
    <3> QED BY <2>1, <2>2, <2>3
  <2>5. newFile = WrittenBefore(NewBytes, plan, i + 1)
    BY <2>2, <2>4 DEF WrittenBefore
  <2>6. (m + 1) - 1 = m
    BY <1>4
  <2>7. IsSplit(NewBytes, plan, batch, splitter', next', newFile')
    <3> HIDE DEF e
    <3>1. next' = i + 1 /\ newFile' = WrittenBefore(NewBytes, plan, next')
      BY <1>1, <1>6, <2>1, <2>5
    <3>2. splitter'.actual = Length(plan[Task(plan, batch, splitter'.part - 1)])
      BY <1>3, <2>2, <2>6
    <3> QED BY <1>3, <3>1, <3>2 DEF IsSplit
  <2> QED BY <1>1, <1>5, <2>7, GoodSplit
<1> QED BY <1>7, <1>8

\* The copies before a part are made: its header list comes, or the batch is done, with its last
\* part whole.
LEMMA GoodEndCopies ==
  ASSUME Inv, Clean, Good, EndCopies, NewBytes' = NewBytes
  PROVE  Good'
<1> USE DEF multipart, files, SplitterStep
<1> DEFINE c == Count(plan, batch)
           m == splitter.part
<1>1. /\ step = "split" /\ splitter.at = "copies" /\ next = TaskOf(m)
      /\ UNCHANGED <<useMultiple, plan, batch, newFile, next>>
  BY DEF EndCopies, Splitting
<1>2. /\ AreRanges(NewBytes, Ranges) /\ Len(Ranges) = c /\ c \in Nat
      /\ IsControlled(Len(Ranges), splitter) /\ splitter \in Splitters
      /\ IsSplit(NewBytes, plan, batch, splitter, next, newFile)
      /\ IsStream(NewBytes, Ranges, splitter, chunk, response)
  BY <1>1, InStepState
<1>3. m \in 0..c
  BY <1>1, <1>2 DEF IsControlled
<1>4. PartCount = c /\ TaskOf(m) = Task(plan, batch, m)
  <2> HIDE DEF m
  <2> QED BY <1>3, BatchOfState DEF Inv, Shape
<1>5. newFile = WrittenBefore(NewBytes, plan, next) /\ (m > 0 => splitter.actual = Length(plan[Task(plan, batch, m - 1)]))
  BY <1>1, <1>2 DEF IsSplit
<1>6. CASE m < PartCount
  <2>1. splitter' = [splitter EXCEPT !.at = "header"] /\ UNCHANGED <<phase, error, step, response, chunk>>
    BY <1>6 DEF EndCopies
  <2>2. splitter'.part = m /\ splitter'.at = "header" /\ splitter'.isHeader = splitter.isHeader
        /\ splitter'.tail = splitter.tail /\ splitter'.actual = splitter.actual
    BY <1>2, <2>1 DEF Splitters
  <2>3. IsStream(NewBytes, Ranges, splitter', chunk, response)
    BY <1>1, <1>2, <1>4, <1>6, <2>2, StreamAtHeader
  <2>4. IsSplit(NewBytes, plan, batch, splitter', next', newFile')
    BY <1>1, <1>4, <1>5, <2>2 DEF IsSplit
  <2> QED BY <1>1, <2>1, <2>3, <2>4, GoodSplit
<1>7. CASE ~(m < PartCount)
  <2>1. m = c /\ m > 0 /\ m - 1 \in 0 .. c - 1
    <3>1. c > 1
      BY <1>1, SplittingState DEF IsMulti
    <3> QED BY <1>2, <1>3, <1>4, <1>7, <3>1
  <2>2. IsPartWhole(m - 1)
    <3> DEFINE k == m - 1
    <3>1. TaskOf(k) = Task(plan, batch, k)
      <4>1. k \in 0..c
        BY <1>2, <2>1
      <4> HIDE DEF k
      <4> QED BY <4>1, BatchOfState DEF Inv, Shape
    <3> QED BY <1>5, <2>1, <3>1 DEF IsPartWhole, PartLength
  <2>3. step' = "next" /\ UNCHANGED <<phase, error>>
    BY <1>7, <2>2 DEF EndCopies
  <2> QED BY <1>1, <1>5, <2>3 DEF Good, Blameless, IsWritten, IsInStep
<1> QED BY <1>6, <1>7

\* Part m of the answer, in the plan and in the new file.
IsPartOf(m, i, a, l) ==
  /\ i = Task(plan, batch, m) /\ i \in 1 .. Len(plan) /\ a = EndsOf(Lengths(plan))[i - 1] /\ a \in Nat
  /\ l = Length(plan[i]) /\ l \in Nat /\ a + l <= Len(NewBytes) /\ Len(NewBytes) \in Nat
  /\ Length(Ranges[m + 1]) = l /\ Ranges[m + 1].start = a /\ PartLength(m) = l
\* Every part of the answer has its operation.
LEMMA PartOfState ==
  ASSUME Inv, Clean, NEW m \in 0 .. Count(plan, batch) - 1
  PROVE  \E i, a, l : IsPartOf(m, i, a, l)
<1> DEFINE i == Task(plan, batch, m)
           a == EndsOf(Lengths(plan))[i - 1]
           b == EndsOf(Lengths(plan))[i]
           l == Length(plan[i])
<1>1. i \in 1 .. Len(plan) /\ plan[i].kind = "download"
  BY BatchOfState DEF Inv, Shape
<1>2. Ranges[m + 1] = plan[i] /\ PartLength(m) = Length(Ranges[m + 1])
  BY RangesOfState DEF Inv, Shape
<1>3. a \in Nat /\ b \in Nat /\ a < b /\ b <= Len(FileOf(newMap)) /\ l = b - a /\ plan[i].start = a
  <2> HIDE DEF i
  <2> QED BY <1>1, CleanPlan DEF Inv, Shape
<1>4. Len(FileOf(newMap)) <= Len(NewBytes) /\ Len(NewBytes) \in Nat /\ Len(FileOf(newMap)) \in Nat
  BY NewFileOfState DEF Inv, Shape
<1>5. l \in Nat /\ a + l <= Len(NewBytes)
  <2> HIDE DEF a, b, l
  <2> QED BY <1>3, <1>4
<1> HIDE DEF i
<1>6. Length(Ranges[m + 1]) = l /\ Ranges[m + 1].start = a /\ PartLength(m) = l
  BY <1>2, <1>3
<1>7. i = Task(plan, batch, m)
  BY DEF i
<1> HIDE DEF a, l
<1>8. a = EndsOf(Lengths(plan))[i - 1] /\ l = Length(plan[i])
  BY DEF a, l
<1>9. IsPartOf(m, i, a, l)
  BY <1>1, <1>3, <1>4, <1>5, <1>6, <1>7, <1>8 DEF IsPartOf
<1> QED BY <1>9

\* The file has what is to be written up to some byte.
IsMore(file, piece, bytes, to) == file \o piece = SubSeq(bytes, 1, to)

\* More of a part.
LEMMA MoreOfPart ==
  ASSUME NEW bytes \in Seq(Byte), NEW a \in Nat, NEW done \in Nat, NEW taken \in Nat, NEW l \in Nat,
         done + taken <= l, a + l <= Len(bytes), NEW file, file = SubSeq(bytes, 1, a + done),
         NEW piece, piece = SubSeq(bytes, a + done + 1, a + (done + taken))
  PROVE  IsMore(file, piece, bytes, a + (done + taken))
<1> DEFINE x == a + done
           y == a + (done + taken)
<1>1. x \in Nat /\ y \in Nat /\ x <= y /\ y <= Len(bytes)
  OBVIOUS
<1> HIDE DEF x, y
<1>2. IsPieceAt(bytes, x, SubSeq(bytes, x + 1, y), y)
  BY <1>1, PieceAt
<1> QED BY <1>2 DEF IsPieceAt, IsMore, x, y

\* The next chunk, whose first bytes may be data.
LEMMA GoodChunk ==
  ASSUME Inv, Clean, Good, NEW n \in 1 .. Len(response), ReceiveChunk(n), NewBytes' = NewBytes
  PROVE  Good'
<1> USE DEF multipart, SplitterStep
<1> DEFINE taken == Min({n, splitter.ignore + splitter.remaining})
           c == Count(plan, batch)
           m == splitter.part
<1>1. /\ step = "split" /\ step' = step /\ splitter.at = "idle"
      /\ UNCHANGED <<phase, error, useMultiple, plan, batch, next>>
      /\ response' = SubSeq(response, n + 1, Len(response)) /\ chunk' = SubSeq(response, taken + 1, n)
      /\ newFile' = (IF TakesData(splitter) THEN newFile \o SubSeq(response, 1, taken) ELSE newFile)
  BY DEF ReceiveChunk, Splitting, TakesData
<1>2. IsChunkTaken(splitter, n, taken, splitter')
  BY DEF ReceiveChunk, TakesData, IsChunkTaken
<1>3. /\ AreRanges(NewBytes, Ranges) /\ Len(Ranges) = c /\ c \in Nat
      /\ IsControlled(Len(Ranges), splitter) /\ splitter \in Splitters
      /\ IsSplit(NewBytes, plan, batch, splitter, next, newFile)
      /\ IsStream(NewBytes, Ranges, splitter, chunk, response)
  BY <1>1, InStepState
<1>4. n \in Nat /\ n > 0 /\ Len(response) \in Nat /\ n <= Len(response)
  BY <1>1, SplittingState
<1>5. AfterChunk(c, splitter, n, taken, splitter') /\ taken = Min({n, splitter.ignore + splitter.remaining})
  <2>1. taken = Min({n, splitter.ignore + splitter.remaining})
    OBVIOUS
  <2>2. splitter.at = "idle" /\ IsControlled(c, splitter)
    BY <1>1, <1>3
  <2> HIDE DEF c, taken
  <2> QED BY <1>2, <1>3, <1>4, <2>1, <2>2, ControlledAfterChunk
<1> HIDE DEF taken, c
<1>6. IsStream(NewBytes, Ranges, splitter', chunk', response')
  <2>1. /\ splitter'.part = splitter.part /\ splitter'.isHeader = splitter.isHeader /\ splitter'.tail = splitter.tail
        /\ splitter'.ignore = (IF splitter.ignore = 0 /\ splitter.remaining > 0 THEN splitter.ignore ELSE splitter.ignore - taken)
        /\ splitter'.remaining = (IF splitter.ignore = 0 /\ splitter.remaining > 0 THEN splitter.remaining - taken
                                  ELSE splitter.remaining)
        /\ splitter'.at = (IF taken = n THEN "idle" ELSE IF splitter.isHeader THEN "header" ELSE "part")
    BY <1>5 DEF AfterChunk, TakesData
  <2>2. IsStream(NewBytes, Ranges, splitter', SubSeq(response, taken + 1, n), SubSeq(response, n + 1, Len(response)))
    BY ONLY <1>1, <1>3, <1>5, <2>1, n \in 1 .. Len(response), StreamAfterChunk
  <2> QED BY <1>1, <2>2
<1>7. IsSplit(NewBytes, plan, batch, splitter', next', newFile')
  <2>1. /\ splitter'.part = m /\ splitter'.isHeader = splitter.isHeader
        /\ splitter'.remaining = (IF TakesData(splitter) THEN splitter.remaining - taken ELSE splitter.remaining)
        /\ splitter'.actual = (IF TakesData(splitter) THEN splitter.actual + taken ELSE splitter.actual)
        /\ splitter'.at = (IF taken = n THEN "idle" ELSE IF splitter.isHeader THEN "header" ELSE "part")
        /\ taken \in Nat /\ taken <= n /\ (TakesData(splitter) => taken <= splitter.remaining)
    BY <1>4, <1>5 DEF AfterChunk
  <2>2. splitter.actual \in Nat /\ splitter.remaining \in Nat /\ m \in -1 .. c - 1 /\ (m = -1 => splitter.remaining = 0)
        /\ (splitter.isHeader => m # -1 /\ splitter.remaining = 0)
    BY <1>1, <1>3 DEF IsControlled, Splitters
  <2>3. CASE splitter.isHeader
    <3>1. ~TakesData(splitter)
      BY <2>2, <2>3 DEF TakesData
    <3>2. newFile' = newFile /\ splitter'.actual = splitter.actual
      BY <1>1, <2>1, <3>1
    <3>3. /\ newFile = WrittenBefore(NewBytes, plan, next) /\ (m > 0 => splitter.actual = Length(plan[Task(plan, batch, m - 1)]))
          /\ next = Task(plan, batch, m)
      BY <1>1, <1>3, <2>3 DEF IsSplit
    <3>4. splitter'.isHeader /\ splitter'.at \in {"idle", "header"}
      BY <2>1, <2>3
    <3> QED BY <1>1, <2>1, <3>2, <3>3, <3>4 DEF IsSplit
  <2>4. CASE ~splitter.isHeader /\ m = -1
    <3>1. ~TakesData(splitter)
      BY <2>2, <2>4 DEF TakesData
    <3>2. newFile' = newFile
      BY <1>1, <3>1
    <3>3. next = batch.start /\ newFile = WrittenBefore(NewBytes, plan, batch.start)
      BY <1>1, <1>3, <2>4 DEF IsSplit
    <3>4. ~splitter'.isHeader /\ splitter'.at \in {"idle", "part"}
      BY <2>1, <2>4
    <3> QED BY <1>1, <2>1, <2>4, <3>2, <3>3, <3>4 DEF IsSplit
  <2>5. CASE ~splitter.isHeader /\ m # -1
    <3>1. m \in 0 .. c - 1
      BY <1>3, <2>2, <2>5
    <3>2. PICK i, a, l : IsPartOf(m, i, a, l)
      <4> HIDE DEF m
      <4> QED BY <3>1, PartOfState DEF c
    <3>3. /\ next = i /\ splitter.actual + splitter.remaining = l
          /\ newFile = SubSeq(NewBytes, 1, a + splitter.actual)
      BY <1>1, <1>3, <2>5, <3>2 DEF IsSplit, IsPartOf
    <3>4. ~splitter'.isHeader /\ splitter'.at \in {"idle", "part"}
      BY <2>1, <2>5
    <3>5. CASE ~TakesData(splitter)
      BY <1>1, <1>3, <2>1, <2>5, <3>4, <3>5, <3>3, <3>2 DEF IsSplit, IsPartOf
    <3>6. CASE TakesData(splitter)
      <4> DEFINE done == splitter.actual
      <4>1. done \in Nat /\ l \in Nat /\ a \in Nat /\ taken <= splitter.remaining /\ done + taken <= l /\ a + l <= Len(NewBytes)
            /\ done = l - splitter.remaining /\ splitter.remaining <= l
        <5>1. l \in Nat /\ a \in Nat /\ a + l <= Len(NewBytes)
          BY <3>2 DEF IsPartOf
        <5>2. taken <= splitter.remaining
          BY <2>1, <3>6
        <5> QED BY ONLY <2>1, <2>2, <3>3, <5>1, <5>2, SMTT(30)
      <4>2. SubSeq(response, 1, taken) = SubSeq(NewBytes, a + done + 1, a + (done + taken))
        <5>1. splitter.ignore = 0 /\ splitter.remaining > 0 /\ splitter.remaining <= Length(Ranges[splitter.part + 1])
          BY <3>2, <3>6, <4>1 DEF TakesData, IsPartOf
        <5>2. IsTakenFrom(response, NewBytes, Ranges[splitter.part + 1],
                          Length(Ranges[splitter.part + 1]) - splitter.remaining, taken)
          <6>1. splitter.at = "idle" /\ taken \in Nat /\ taken <= n /\ taken <= splitter.remaining
            BY <1>1, <2>1, <4>1
          <6>2. taken <= Len(response)
            BY <1>4, <6>1
          <6> QED BY ONLY <1>3, <5>1, <6>1, <6>2, DataOfChunk
        <5>3. Length(Ranges[splitter.part + 1]) - splitter.remaining = done /\ Ranges[splitter.part + 1].start = a
          BY <3>2, <4>1 DEF IsPartOf
        <5> QED BY <5>2, <5>3 DEF IsTakenFrom
      <4>3. newFile' = SubSeq(NewBytes, 1, a + (done + taken))
        <5>1. NewBytes \in Seq(Byte)
          BY NewFileOfState DEF Inv, Shape
        <5>2. newFile' = newFile \o SubSeq(response, 1, taken)
          BY <1>1, <3>6
        <5> HIDE DEF done
        <5>3. newFile = SubSeq(NewBytes, 1, a + done)
          BY <3>3 DEF done
        <5> DEFINE piece == SubSeq(response, 1, taken)
        <5> HIDE DEF piece
        <5>4. piece = SubSeq(NewBytes, a + done + 1, a + (done + taken)) /\ newFile' = newFile \o piece
          BY <4>2, <5>2 DEF piece
        <5>5. done \in Nat /\ l \in Nat /\ a \in Nat /\ taken \in Nat /\ done + taken <= l /\ a + l <= Len(NewBytes)
          BY <2>1, <4>1 DEF done
        <5>6. IsMore(newFile, piece, NewBytes, a + (done + taken))
          BY ONLY <5>1, <5>3, <5>4, <5>5, MoreOfPart
        <5> QED BY <5>4, <5>6 DEF IsMore
      <4>4. splitter'.actual = done + taken /\ splitter'.actual + splitter'.remaining = l
        BY <2>1, <2>2, <3>3, <3>6
      <4>5. next' = Task(plan, batch, splitter'.part) /\ l = Length(plan[next']) /\ a = EndsOf(Lengths(plan))[next' - 1]
            /\ splitter'.part # -1
        BY <1>1, <2>1, <2>5, <3>2, <3>3 DEF IsPartOf
      <4> HIDE DEF done
      <4> QED BY <3>4, <4>3, <4>4, <4>5 DEF IsSplit
    <3> QED BY <3>5, <3>6
  <2> QED BY <2>3, <2>4, <2>5
<1> QED BY <1>1, <1>6, <1>7, GoodSplit

\* The search for the end of a header list.
LEMMA GoodSearch ==
  ASSUME Inv, Clean, Good, SearchHeaderListEnd, NewBytes' = NewBytes
  PROVE  Good'
<1> USE DEF multipart, files, SplitterStep
<1> DEFINE c == Count(plan, batch)
           data == splitter.tail \o chunk
           ends == HeaderListEnds(data)
           found == CHOOSE e \in ends : \A f \in ends : e.end <= f.end
<1>1. /\ step = "split" /\ step' = step /\ splitter.at = "header"
      /\ UNCHANGED <<phase, error, useMultiple, plan, batch, next, newFile, response>>
  BY DEF SearchHeaderListEnd, Splitting
<1>2. \/ /\ ends = {} /\ chunk' = <<>>
         /\ splitter' = [splitter EXCEPT !.tail = Carried(data), !.isHeader = TRUE, !.at = "idle"]
      \/ /\ ends # {} /\ chunk' = SubSeq(data, found.end + 1, Len(data))
         /\ splitter' = [splitter EXCEPT !.tail = <<>>, !.isHeader = FALSE, !.at = "body",
                                  !.boundaryLength = BoundaryTextLength + Len(found.eol) + 2]
  BY DEF SearchHeaderListEnd
<1>3. /\ AreRanges(NewBytes, Ranges) /\ Len(Ranges) = c /\ c \in Nat
      /\ IsControlled(Len(Ranges), splitter) /\ splitter \in Splitters
      /\ IsSplit(NewBytes, plan, batch, splitter, next, newFile)
      /\ IsStream(NewBytes, Ranges, splitter, chunk, response)
  BY <1>1, InStepState
<1>4. /\ newFile = WrittenBefore(NewBytes, plan, next)
      /\ (splitter.part > 0 => splitter.actual = Length(plan[Task(plan, batch, splitter.part - 1)]))
      /\ next = Task(plan, batch, splitter.part)
  BY <1>1, <1>3 DEF IsSplit
<1>5. CASE ends = {}
  <2> DEFINE carried == Carried(data)
  <2> HIDE DEF carried
  <2>1. splitter' = [splitter EXCEPT !.tail = carried, !.isHeader = TRUE, !.at = "idle"] /\ chunk' = <<>>
    BY <1>2, <1>5 DEF carried
  <2>2. splitter'.part = splitter.part /\ splitter'.isHeader = TRUE /\ splitter'.at = "idle" /\ splitter'.tail = carried
        /\ splitter'.actual = splitter.actual
    BY ONLY <1>3, <2>1 DEF Splitters
  <2>3. IsStream(NewBytes, Ranges, splitter', <<>>, response)
    <3>1. splitter'.tail = Carried(splitter.tail \o chunk) /\ HeaderListEnds(splitter.tail \o chunk) = {}
      BY <1>5, <2>2 DEF carried
    <3> QED BY ONLY <1>1, <1>3, <2>2, <3>1, StreamAfterFruitlessSearch
  <2>4. IsSplit(NewBytes, plan, batch, splitter', next', newFile')
    BY <1>1, <1>4, <2>2 DEF IsSplit
  <2>5. IsStream(NewBytes, Ranges, splitter', chunk', response')
    BY <1>1, <2>1, <2>3
  <2> QED BY <1>1, <2>4, <2>5, GoodSplit
<1>6. CASE ends # {}
  <2> DEFINE length == BoundaryTextLength + Len(found.eol) + 2
  <2> HIDE DEF length, found
  <2>1. splitter' = [splitter EXCEPT !.tail = <<>>, !.isHeader = FALSE, !.at = "body", !.boundaryLength = length]
        /\ chunk' = SubSeq(data, found.end + 1, Len(data))
    BY <1>2, <1>6 DEF length
  <2>2. splitter'.part = splitter.part /\ splitter'.isHeader = FALSE /\ splitter'.at = "body" /\ splitter'.tail = <<>>
        /\ splitter'.actual = splitter.actual /\ splitter'.boundaryLength = length
    BY ONLY <1>3, <2>1 DEF Splitters
  <2>3. IsStream(NewBytes, Ranges, splitter', SubSeq(data, found.end + 1, Len(data)), response)
    <3>1. found = CHOOSE e \in HeaderListEnds(data) : \A f \in HeaderListEnds(data) : e.end <= f.end
      BY DEF found
    <3>2. splitter'.boundaryLength = BoundaryTextLength + Len(found.eol) + 2 /\ data = splitter.tail \o chunk
          /\ HeaderListEnds(data) # {}
      BY <1>6, <2>2 DEF length
    <3> HIDE DEF data
    <3> QED BY ONLY <1>1, <1>3, <2>2, <3>1, <3>2, StreamAfterSearch
  <2>4. IsSplit(NewBytes, plan, batch, splitter', next', newFile')
    BY <1>1, <1>4, <2>2 DEF IsSplit
  <2>5. IsStream(NewBytes, Ranges, splitter', chunk', response')
    BY <1>1, <2>1, <2>3
  <2> QED BY <1>1, <2>4, <2>5, GoodSplit
<1> QED BY <1>5, <1>6

\* The data of a part, as far as the chunk goes.
LEMMA GoodBody ==
  ASSUME Inv, Clean, Good, ReadPart, NewBytes' = NewBytes
  PROVE  Good'
<1> USE DEF multipart, files, SplitterStep
<1> DEFINE c == Count(plan, batch)
           m == splitter.part
           length == PartLength(m)
           n == Len(chunk)
           taken == Min({length, n})
           end == taken + splitter.boundaryLength
<1>1. /\ step = "split" /\ splitter.at = "body"
      /\ UNCHANGED <<useMultiple, plan, batch, next>>
  BY DEF ReadPart, Splitting
<1>2. /\ AreRanges(NewBytes, Ranges) /\ Len(Ranges) = c /\ c \in Nat
      /\ IsControlled(Len(Ranges), splitter) /\ splitter \in Splitters
      /\ IsSplit(NewBytes, plan, batch, splitter, next, newFile)
      /\ IsStream(NewBytes, Ranges, splitter, chunk, response)
  BY <1>1, InStepState
<1>3. m \in 0 .. c - 1 /\ splitter.isHeader = FALSE /\ n \in Nat /\ chunk \in Seq(Byte) /\ splitter.ignore = 0
  <2>1. splitter.isHeader \in BOOLEAN
    BY <1>2 DEF Splitters
  <2>2. m \in 0 .. c - 1 /\ ~splitter.isHeader /\ splitter.ignore = 0
    BY <1>1, <1>2 DEF IsControlled
  <2>3. chunk \in Seq(Byte)
    BY <1>1, SplittingState
  <2> QED BY <2>1, <2>2, <2>3
<1>4. /\ newFile = WrittenBefore(NewBytes, plan, next)
      /\ (m > 0 => splitter.actual = Length(plan[Task(plan, batch, m - 1)]))
      /\ next = Task(plan, batch, m)
  BY <1>1, <1>2 DEF IsSplit
<1>5. m = 0 \/ IsPartWhole(m - 1)
  <2> SUFFICES ASSUME m # 0 PROVE IsPartWhole(m - 1)
    OBVIOUS
  <2> DEFINE k == m - 1
  <2>1. k \in 0..c
    BY <1>2, <1>3
  <2>2. TaskOf(k) = Task(plan, batch, k)
    <3> HIDE DEF k
    <3> QED BY <2>1, BatchOfState DEF Inv, Shape
  <2>3. m > 0
    BY <1>2, <1>3
  <2> QED BY <1>4, <2>2, <2>3 DEF IsPartWhole, PartLength
<1>6. /\ newFile' = newFile \o SubSeq(chunk, 1, taken) /\ chunk' = SubSeq(chunk, end + 1, n)
      /\ UNCHANGED <<phase, error, step, response>>
      /\ IsPartRead(splitter, length, n, taken, end, splitter')
  BY <1>5 DEF ReadPart, IsPartRead
<1>7. PICK i, a, l : IsPartOf(m, i, a, l)
  <2> HIDE DEF m
  <2> QED BY <1>3, PartOfState DEF c
<1>8. length = l /\ l \in Nat /\ length \in Nat
  BY <1>7 DEF IsPartOf
<1>9. AfterBody(c, splitter, length, n, taken, end, splitter') /\ taken = Min({length, n})
      /\ end = taken + splitter.boundaryLength
  <2>1. taken = Min({length, n}) /\ end = taken + splitter.boundaryLength
    OBVIOUS
  <2>2. IsControlled(c, splitter)
    BY <1>2
  <2> HIDE DEF c, taken, length, n, end
  <2> QED BY <1>1, <1>2, <1>3, <1>6, <1>8, <2>1, <2>2, ControlledAfterBody
<1> HIDE DEF taken, end, length, c
<1>10. /\ splitter'.part = m /\ splitter'.isHeader = FALSE /\ splitter'.tail = splitter.tail /\ splitter'.actual = taken
       /\ splitter'.remaining = length - taken
       /\ splitter'.ignore = (IF taken = length /\ end >= n THEN end - n ELSE splitter.ignore)
       /\ splitter'.at = (IF taken = length /\ end < n THEN "part" ELSE "idle")
       /\ taken \in Nat /\ taken <= n /\ taken <= length /\ end \in Nat
  BY <1>3, <1>9 DEF AfterBody
<1>11. IsStream(NewBytes, Ranges, splitter', chunk', response')
  <2>1. length = Length(Ranges[splitter.part + 1])
    BY <1>7, <1>8 DEF IsPartOf
  <2>2. splitter'.isHeader = splitter.isHeader
    BY <1>3, <1>10
  <2>3. IsStream(NewBytes, Ranges, splitter', SubSeq(chunk, end + 1, Len(chunk)), response)
    BY ONLY <1>1, <1>2, <1>9, <1>10, <2>1, <2>2, StreamAfterBody
  <2> QED BY <1>6, <2>3
<1>12. IsSplit(NewBytes, plan, batch, splitter', next', newFile')
  <2>1. taken <= l /\ a \in Nat /\ a + l <= Len(NewBytes) /\ 0 \in Nat /\ 0 + taken = taken /\ a + 0 = a
    BY <1>7, <1>8, <1>10 DEF IsPartOf
  <2>2. SubSeq(chunk, 1, taken) = SubSeq(NewBytes, a + 1, a + taken)
    <3>1. taken <= Len(chunk) /\ taken <= Length(Ranges[splitter.part + 1]) /\ Ranges[splitter.part + 1].start = a
      BY <1>7, <1>8, <1>10 DEF IsPartOf
    <3>2. IsTakenFrom(chunk, NewBytes, Ranges[splitter.part + 1], 0, taken)
      <4>1. splitter.at = "body" /\ taken \in Nat
        BY <1>1, <1>10
      <4> QED BY ONLY <1>2, <3>1, <4>1, DataOfBody
    <3> QED BY <2>1, <3>1, <3>2 DEF IsTakenFrom
  <2>3. newFile = SubSeq(NewBytes, 1, a) /\ next = i
    BY <1>4, <1>7 DEF WrittenBefore, IsPartOf
  <2>4. newFile' = SubSeq(NewBytes, 1, a + taken)
    <3>1. NewBytes \in Seq(Byte)
      BY NewFileOfState DEF Inv, Shape
    <3> DEFINE piece == SubSeq(chunk, 1, taken)
    <3> HIDE DEF piece
    <3>2. piece = SubSeq(NewBytes, a + 0 + 1, a + (0 + taken)) /\ newFile' = newFile \o piece
      BY <1>6, <2>1, <2>2 DEF piece
    <3>3. newFile = SubSeq(NewBytes, 1, a + 0) /\ 0 + taken <= l
      BY <2>1, <2>3
    <3>4. l \in Nat /\ taken \in Nat /\ a \in Nat /\ 0 \in Nat /\ a + l <= Len(NewBytes)
      BY <1>8, <1>10, <2>1
    <3>5. IsMore(newFile, piece, NewBytes, a + (0 + taken))
      BY ONLY <3>1, <3>2, <3>3, <3>4, MoreOfPart
    <3> QED BY <2>1, <3>2, <3>5 DEF IsMore
  <2>5. splitter'.actual + splitter'.remaining = l
    BY <1>8, <1>10
  <2>6. next' = Task(plan, batch, splitter'.part) /\ l = Length(plan[next']) /\ a = EndsOf(Lengths(plan))[next' - 1]
    BY <1>1, <1>7, <1>10, <2>3 DEF IsPartOf
  <2>7. splitter'.part # -1 /\ splitter'.at \in {"part", "idle"} /\ ~splitter'.isHeader
    BY <1>3, <1>10
  <2> QED BY <1>10, <2>4, <2>5, <2>6, <2>7 DEF IsSplit
<1> QED BY <1>1, <1>6, <1>11, <1>12, GoodSplit

----------------------------------------------------------------------------
(* The outcome.                                                             *)

\* Every step keeps it, unless something goes wrong outside.
LEMMA GoodIsKept ==
  ASSUME Inv, Clean, Good, [Next]_vars, Clean'
  PROVE  Good'
<1>1. ~cancelled' /\ faults' = 0 /\ NewBytes' = NewBytes /\ faults = 0
  BY CleanBefore DEF Clean
<1>2. CASE CheckPlan
  BY <1>1, <1>2, GoodStarts
<1>3. CASE StartAttempt
  BY <1>1, <1>3, GoodAttempt
<1>4. CASE StartCancelled \/ CloseNewFile \/ CloseOldFile
  BY <1>1, <1>4, GoodOutside
<1>5. CASE StartBatch \/ StartCopy \/ RequestRange \/ EndPause \/ EndStoppedCopy
  BY <1>1, <1>5, GoodBetween
<1>6. CASE EndCopy
  BY <1>1, <1>6, GoodCopy
<1>7. CASE EndFile \/ ValidateNewFile
  BY <1>1, <1>7, GoodEnd
<1>8. CASE NextPart
  BY <1>1, <1>8, GoodNextPart
<1>9. CASE CopyExistingData
  BY <1>1, <1>9, GoodCopyStarts
<1>10. CASE EndCopies
  BY <1>1, <1>10, GoodEndCopies
<1>11. CASE SearchHeaderListEnd
  BY <1>1, <1>11, GoodSearch
<1>12. CASE ReadPart
  BY <1>1, <1>12, GoodBody
<1>13. CASE Watchdog \/ RefuseRanges
  BY <1>13, GoodRefused
<1>14. CASE ReceiveRange
  BY <1>1, <1>14, GoodRange
<1>15. CASE \E eol \in {CRLF, LF} : AnswerMultipart(eol)
  BY <1>1, <1>15, GoodAnswer
<1>16. CASE \E n \in 1..Len(response) : ReceiveChunk(n)
  BY <1>1, <1>16, GoodChunk
<1>17. CASE Cancel \/ ServerFails \/ TruncateResponse
  BY <1>1, <1>17 DEF Cancel, ServerFails, TruncateResponse
<1>18. CASE UNCHANGED vars
  <2>1. UNCHANGED <<phase, error, useMultiple, plan, step, next, newFile, batch, splitter, chunk, response>>
    BY <1>18 DEF vars, control, files, multipart
  <2>2. Ranges' = Ranges
    BY <2>1 DEF Ranges
  <2> QED BY <1>1, <2>1, <2>2 DEF Good, Blameless, IsWritten, IsInStep
<1> QED
  BY <1>2, <1>3, <1>4, <1>5, <1>6, <1>7, <1>8, <1>9, <1>10, <1>11, <1>12, <1>13, <1>14, <1>15, <1>16,
     <1>17, <1>18 DEF Next, ServerStep, LocalStep

\* As long as nothing goes wrong outside, the new file grows by its next bytes, the splitter is in
\* step with the answer, and an attempt stops only for a slow copy or a host that refuses several
\* ranges: whatever the block maps, the limits of a request, the cut of the answer and the line
\* ends in it.
THEOREM DataIsRight == Spec => []Right
<1>1. Init => Right
  BY DEF Init, Right, Good, Blameless, IsWritten, IsInStep
<1>2. Inv /\ Right /\ [Next]_vars => Right'
  <2> SUFFICES ASSUME Inv, Right, [Next]_vars, Clean' PROVE Good'
    BY DEF Right
  <2>1. Clean /\ Good
    BY CleanBefore DEF Right
  <2> QED BY <2>1, GoodIsKept
<1>3. IInv /\ Shape => Inv
  BY DEF Inv
<1> QED BY <1>1, <1>2, <1>3, Invariance, ControlIsKept, PTL DEF Spec

\* A download ends with the new file, byte for byte, and fails only for a cause outside: the app
\* cancels, the server fails, the old file is not the one of its block map, the block map has an
\* empty block, or a copy takes longer than the watchdog allows.
THEOREM DownloadIsRight == Spec => []OutcomeIsRight
<1>1. IInv /\ Shape /\ Right => OutcomeIsRight
  <2> SUFFICES ASSUME IInv, Shape, Right PROVE OutcomeIsRight
    OBVIOUS
  <2>1. TypeOK
    BY ShapeIsTyped
  <2>2. phase = "done" => newFile = NewBytes
    BY DEF IInv, Verdict
  <2>3. phase = "failed" => HasExcuse
    <3> SUFFICES ASSUME phase = "failed", ~HasExcuse PROVE FALSE
      OBVIOUS
    <3>1. faults \in Nat
      BY DEF Shape, Kinds
    <3>2. ~cancelled /\ ~(faults > 0) /\ isOldFileIntact /\ error # "slow" /\ HasNoEmptyBlock(newMap)
      BY DEF HasExcuse, HasNoEmptyBlock
    <3>3. Clean
      BY <3>1, <3>2 DEF Clean
    <3> QED BY <3>2, <3>3 DEF Right, Good, Blameless
  <2> QED BY <2>1, <2>2, <2>3 DEF OutcomeIsRight
<1> QED BY <1>1, Invariance, ControlIsKept, DataIsRight, PTL
=============================================================================
