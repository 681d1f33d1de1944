------------------------ MODULE RecoveryCachesProofs ------------------------
(***************************************************************************)
(* Proofs about the two stores of originals, the server's (ResponseCache)  *)
(* and that of a host's toolsets (HostShrinkfit), for any keys, results,   *)
(* sizes, calls, toolsets and limits.  They begin with the queue that both *)
(* are made of (Originals): what its recursive definitions come to is      *)
(* proved by induction over a set of natural numbers.                      *)
(***************************************************************************)
EXTENDS HostShrinkfit, ResponseCache, WellFoundedInduction, FiniteSetTheorems,
        SequenceTheorems, TLAPS

-----------------------------------------------------------------------------
(* Induction and recursion over natural numbers *)

\* A set of natural numbers has a least one.
LEMMA LeastNumber ==
    ASSUME NEW T \in SUBSET Nat, T # {}
    PROVE  \E x \in T : \A y \in T : x <= y
<1> DEFINE R == OpToRel(<, Nat)
<1>1. IsWellFoundedOn(R, Nat)
  BY NatLessThanWellFounded
<1>2. \A x, y \in Nat : <<x, y>> \in R <=> x < y
  BY DEF OpToRel
<1> HIDE DEF R
<1>3. PICK x \in T : \A y \in T : ~ (<<y, x>> \in R)
  BY <1>1, WFMin
<1>4. \A y \in T : ~ (y < x)
  BY <1>2, <1>3
<1>. QED
  BY <1>4

\* A set with 0 that is closed under successors has every natural number.
LEMMA Induction ==
    ASSUME NEW S \in SUBSET Nat, 0 \in S, \A n \in S : n + 1 \in S
    PROVE  S = Nat
<1> SUFFICES ASSUME Nat \ S # {} PROVE FALSE
  OBVIOUS
<1>1. PICK x \in Nat \ S : \A y \in Nat \ S : x <= y
  BY LeastNumber
<1>2. x - 1 \in Nat /\ x - 1 \notin Nat \ S
  BY <1>1
<1>. QED
  BY <1>1, <1>2

\* The same along 0..n.
LEMMA InductionUpTo ==
    ASSUME NEW n \in Nat, NEW S, 0 \in S, \A i \in 1..n : i - 1 \in S => i \in S
    PROVE  \A i \in 0..n : i \in S
<1> DEFINE T == {i \in Nat : i <= n => i \in S}
<1>1. T \in SUBSET Nat /\ 0 \in T
  OBVIOUS
<1>2. ASSUME NEW i \in T PROVE i + 1 \in T
  <2>1. CASE i + 1 <= n
    <3>1. i + 1 \in 1..n /\ (i + 1) - 1 \in S /\ (i + 1) - 1 = i
      BY <2>1
    <3>. QED
      BY <3>1
  <2>. QED
    BY <2>1
<1>3. T = Nat
  <2> HIDE DEF T
  <2>. QED
    BY <1>1, <1>2, Induction
<1>. QED
  BY <1>3

\* A recursive definition whose steps stay within T has a solution.
LEMMA Recursion ==
    ASSUME NEW T, NEW b \in T, NEW n \in Nat, NEW h \in [1..n -> [T -> T]]
    PROVE  \E f \in [0..n -> T] : f[0] = b /\ \A i \in 1..n : f[i] = h[i][f[i - 1]]
<1> DEFINE IsSolution(f, m) ==
               f \in [0..m -> T] /\ f[0] = b /\ \A i \in 1..m : f[i] = h[i][f[i - 1]]
           S == {m \in 0..n : \E f : IsSolution(f, m)}
<1>1. 0 \in S
  <2> DEFINE f == [i \in 0..0 |-> b]
  <2>1. IsSolution(f, 0)
    OBVIOUS
  <2> HIDE DEF IsSolution, f
  <2>. QED
    BY <2>1
<1>2. ASSUME NEW m \in 1..n, m - 1 \in S PROVE m \in S
  <2>1. PICK f : IsSolution(f, m - 1)
    BY <1>2
  <2> DEFINE g == [i \in 0..m |-> IF i < m THEN f[i] ELSE h[m][f[m - 1]]]
  <2>2. h[m][f[m - 1]] \in T
    BY <2>1
  <2>3. g \in [0..m -> T]
    BY <2>1, <2>2
  <2>4. ASSUME NEW i \in 1..m PROVE g[i] = h[i][g[i - 1]]
    <3>1. CASE i < m
      BY <3>1, <2>1
    <3>2. CASE i = m
      BY <3>2, <2>1
    <3>. QED
      BY <3>1, <3>2
  <2>5. g[0] = b
    BY <2>1
  <2>6. IsSolution(g, m)
    <3> HIDE DEF g
    <3>. QED
      BY <2>3, <2>4, <2>5
  <2> HIDE DEF IsSolution
  <2>. QED
    BY <2>6
<1>3. n \in S
  <2> HIDE DEF S
  <2>1. \A m \in 0..n : m \in S
    BY <1>1, <1>2, InductionUpTo
  <2>. QED
    BY <2>1
<1>. QED
  BY <1>3

-----------------------------------------------------------------------------
(* The queue *)

\* The running total of the sizes in a queue.
LEMMA RunningTotal ==
    ASSUME NEW q, Len(q) \in Nat, \A i \in 1..Len(q) : q[i].bytes \in Nat
    PROVE  \E t \in [0..Len(q) -> Nat] :
               /\ t[0] = 0
               /\ \A i \in 1..Len(q) : t[i] = t[i - 1] + q[i].bytes
               /\ TotalBytes(q) = t[Len(q)]
<1> DEFINE n == Len(q)
           h == [i \in 1..n |-> [x \in Nat |-> x + q[i].bytes]]
           IsTotal(f) == f = [i \in 0..n |-> IF i = 0 THEN 0 ELSE f[i - 1] + q[i].bytes]
           t == CHOOSE f : IsTotal(f)
<1>1. h \in [1..n -> [Nat -> Nat]]
  OBVIOUS
<1>2. PICK f \in [0..n -> Nat] : f[0] = 0 /\ \A i \in 1..n : f[i] = h[i][f[i - 1]]
  <2> DEFINE T == Nat
             b == 0
  <2>1. n \in Nat /\ b \in T
    OBVIOUS
  <2>2. h \in [1..n -> [T -> T]]
    BY <1>1
  <2> HIDE DEF h, n, T, b
  <2>3. \E f \in [0..n -> T] : f[0] = b /\ \A i \in 1..n : f[i] = h[i][f[i - 1]]
    BY <2>1, <2>2, Recursion
  <2> USE DEF T, b
  <2>. QED
    BY <2>3
<1>3. ASSUME NEW i \in 1..n PROVE f[i] = f[i - 1] + q[i].bytes
  <2>1. f[i - 1] \in Nat
    BY SMTT(60)
  <2>. QED
    BY <1>2, <2>1
<1>4. IsTotal(f)
  BY <1>2, <1>3
<1>5. TotalBytes(q) = t[n]
  BY DEF TotalBytes
<1>6. IsTotal(t)
  <2> HIDE DEF IsTotal
  <2>. QED
    BY <1>4
<1> HIDE DEF t
<1>7. t[0] = 0 /\ \A i \in 1..n : t[i] = t[i - 1] + q[i].bytes
  BY <1>6
<1>8. \A i \in 0..n : t[i] \in Nat
  <2> DEFINE S == {i \in 0..n : t[i] \in Nat}
  <2>1. n \in Nat /\ 0 \in S /\ \A i \in 1..n : i - 1 \in S => i \in S
    BY <1>7
  <2> HIDE DEF S
  <2>2. \A i \in 0..n : i \in S
    BY <2>1, InductionUpTo
  <2>. QED
    BY <2>2 DEF S
<1>9. t \in [0..n -> Nat]
  BY <1>6, <1>8
<1>. QED
  BY <1>5, <1>7, <1>9

\* Nothing is in an empty queue.
LEMMA TotalEmpty == TotalBytes(<< >>) = 0
<1>1. Len(<< >>) = 0 /\ \A i \in 1..Len(<< >>) : << >>[i].bytes \in Nat
  OBVIOUS
<1>2. \E t \in [0..Len(<< >>) -> Nat] :
         /\ t[0] = 0
         /\ \A i \in 1..Len(<< >>) : t[i] = t[i - 1] + << >>[i].bytes
         /\ TotalBytes(<< >>) = t[Len(<< >>)]
  BY <1>1, RunningTotal
<1>. QED
  BY <1>1, <1>2

\* The total is a number.
LEMMA TotalIsNat ==
    ASSUME NEW S, NEW q \in Seq(S), \A x \in S : x.bytes \in Nat
    PROVE  TotalBytes(q) \in Nat
<1>1. Len(q) \in Nat /\ \A i \in 1..Len(q) : q[i].bytes \in Nat
  <2>1. \A i \in 1..Len(q) : q[i] \in S
    OBVIOUS
  <2>. QED
    BY <2>1
<1>2. PICK t \in [0..Len(q) -> Nat] : TotalBytes(q) = t[Len(q)]
  BY <1>1, RunningTotal
<1>. QED
  BY <1>1, <1>2

\* Two sequences that begin alike and go on alike end alike.
LEMMA AgreeUpTo ==
    ASSUME NEW n \in Nat, NEW t, NEW u, t[0] = u[0],
           \A i \in 1..n : t[i - 1] = u[i - 1] => t[i] = u[i]
    PROVE  t[n] = u[n]
<1> DEFINE S == {i \in 0..n : t[i] = u[i]}
<1>1. 0 \in S
  OBVIOUS
<1>2. ASSUME NEW i \in 1..n, i - 1 \in S PROVE i \in S
  BY <1>2
<1>3. \A i \in 0..n : i \in S
  <2> HIDE DEF S
  <2>. QED
    BY <1>1, <1>2, InductionUpTo
<1>. QED
  BY <1>3

\* Only the sizes count, not the ages.
LEMMA TotalSame ==
    ASSUME NEW q, NEW r, Len(q) \in Nat, Len(r) = Len(q),
           \A i \in 1..Len(q) : q[i].bytes \in Nat /\ r[i].bytes = q[i].bytes
    PROVE  TotalBytes(r) = TotalBytes(q)
<1>1. PICK t \in [0..Len(q) -> Nat] :
         /\ t[0] = 0
         /\ \A i \in 1..Len(q) : t[i] = t[i - 1] + q[i].bytes
         /\ TotalBytes(q) = t[Len(q)]
  BY RunningTotal
<1>2. PICK u \in [0..Len(r) -> Nat] :
         /\ u[0] = 0
         /\ \A i \in 1..Len(r) : u[i] = u[i - 1] + r[i].bytes
         /\ TotalBytes(r) = u[Len(r)]
  BY RunningTotal
<1>3. t[Len(q)] = u[Len(q)]
  <2>1. \A i \in 1..Len(q) : t[i - 1] = u[i - 1] => t[i] = u[i]
    BY <1>1, <1>2
  <2>2. Len(q) \in Nat /\ t[0] = u[0]
    BY <1>1, <1>2
  <2>. QED
    BY <2>1, <2>2, AgreeUpTo, Zenon
<1>. QED
  BY <1>1, <1>2, <1>3

\* One more entry adds its size.
LEMMA TotalAppend ==
    ASSUME NEW S, NEW q \in Seq(S), NEW e \in S, \A x \in S : x.bytes \in Nat
    PROVE  TotalBytes(Append(q, e)) = TotalBytes(q) + e.bytes
<1> DEFINE n == Len(q)
           r == Append(q, e)
<1>1. n \in Nat /\ Len(r) = n + 1 /\ r[n + 1] = e /\ \A i \in 1..n : r[i] = q[i]
  OBVIOUS
<1>2. \A i \in 1..n : q[i] \in S
  OBVIOUS
<1>3. (\A i \in 1..Len(q) : q[i].bytes \in Nat) /\ (\A i \in 1..Len(r) : r[i].bytes \in Nat)
  <2> HIDE DEF r
  <2>1. ASSUME NEW i \in 1..Len(r) PROVE r[i] \in S
    BY <1>1, <1>2
  <2>. QED
    BY <1>2, <2>1
<1> HIDE DEF r
<1>4. PICK t \in [0..Len(q) -> Nat] :
         /\ t[0] = 0
         /\ \A i \in 1..Len(q) : t[i] = t[i - 1] + q[i].bytes
         /\ TotalBytes(q) = t[Len(q)]
  BY <1>3, RunningTotal
<1>5. PICK u \in [0..Len(r) -> Nat] :
         /\ u[0] = 0
         /\ \A i \in 1..Len(r) : u[i] = u[i - 1] + r[i].bytes
         /\ TotalBytes(r) = u[Len(r)]
  BY <1>1, <1>3, RunningTotal
<1>6. t[n] = u[n]
  <2>1. \A i \in 1..n : t[i - 1] = u[i - 1] => t[i] = u[i]
    BY <1>1, <1>4, <1>5
  <2>2. n \in Nat /\ t[0] = u[0]
    BY <1>1, <1>4, <1>5
  <2>. QED
    BY <2>1, <2>2, AgreeUpTo, Zenon
<1>7. u[n + 1] = u[n] + e.bytes
  <2>1. n + 1 \in 1..Len(r) /\ (n + 1) - 1 = n
    BY <1>1
  <2>. QED
    BY <1>1, <1>5, <2>1
<1>. QED
  BY <1>1, <1>4, <1>5, <1>6, <1>7 DEF r

\* What is kept of the first i entries, for each i.
KeptOf(q, places, kept) ==
    /\ kept[0] = << >>
    /\ \A i \in 1..Len(q) :
          kept[i] = IF i \in places THEN Append(kept[i - 1], q[i]) ELSE kept[i - 1]

\* Retained comes to the last of them.
LEMMA RetainedSteps ==
    ASSUME NEW S, NEW q \in Seq(S), NEW places
    PROVE  \E kept \in [0..Len(q) -> Seq(S)] :
               KeptOf(q, places, kept) /\ Retained(q, places) = kept[Len(q)]
<1> DEFINE n == Len(q)
           h == [i \in 1..n |->
                    [x \in Seq(S) |-> IF i \in places THEN Append(x, q[i]) ELSE x]]
           IsKept(f) == f = [i \in 0..n |->
                                IF i = 0 THEN << >>
                                ELSE IF i \in places THEN Append(f[i - 1], q[i]) ELSE f[i - 1]]
           kept == CHOOSE f : IsKept(f)
<1>1. n \in Nat /\ \A i \in 1..n : q[i] \in S
  OBVIOUS
<1>2. h \in [1..n -> [Seq(S) -> Seq(S)]]
  BY <1>1
<1>3. PICK f \in [0..n -> Seq(S)] :
         f[0] = << >> /\ \A i \in 1..n : f[i] = h[i][f[i - 1]]
  <2> DEFINE T == Seq(S)
             b == << >>
  <2>1. n \in Nat /\ b \in T
    BY <1>1
  <2>2. h \in [1..n -> [T -> T]]
    BY <1>2
  <2> HIDE DEF h, n, T, b
  <2>3. \E f \in [0..n -> T] : f[0] = b /\ \A i \in 1..n : f[i] = h[i][f[i - 1]]
    BY <2>1, <2>2, Recursion, SMTT(60)
  <2> USE DEF T, b
  <2>. QED
    BY <2>3
<1>4. ASSUME NEW i \in 1..n
      PROVE  f[i] = IF i \in places THEN Append(f[i - 1], q[i]) ELSE f[i - 1]
  <2>1. f[i - 1] \in Seq(S)
    BY <1>1
  <2>. QED
    BY <1>3, <2>1
<1>5. IsKept(f)
  <2>1. \A i \in 0..n : f[i] = IF i = 0 THEN << >>
                               ELSE IF i \in places THEN Append(f[i - 1], q[i]) ELSE f[i - 1]
    <3> HIDE DEF n, h
    <3> TAKE i \in 0..n
    <3>1. CASE i = 0
      BY <1>3, <3>1
    <3>2. CASE i # 0
      <4>1. i \in 1..n
        BY <1>1, <3>2
      <4>. QED
        BY <1>4, <3>2, <4>1
    <3>. QED
      BY <3>1, <3>2
  <2> HIDE DEF n, h
  <2>. QED
    BY <1>3, <2>1
<1>6. Retained(q, places) = kept[n]
  BY DEF Retained
<1>7. IsKept(kept)
  <2> HIDE DEF IsKept
  <2>. QED
    BY <1>5
<1>0. n = Len(q)
  OBVIOUS
<1> HIDE DEF kept, n, h
<1>8. /\ kept[0] = << >>
      /\ \A i \in 1..n : kept[i] = IF i \in places THEN Append(kept[i - 1], q[i])
                                   ELSE kept[i - 1]
  <2>1. kept = [i \in 0..n |-> IF i = 0 THEN << >>
                               ELSE IF i \in places THEN Append(kept[i - 1], q[i])
                                    ELSE kept[i - 1]]
    BY <1>7
  <2>2. 0 \in 0..n /\ \A i \in 1..n : i \in 0..n /\ i # 0
    BY <1>1
  <2>3. kept[0] = << >>
    BY <2>1, <2>2, Zenon
  <2>4. ASSUME NEW i \in 1..n
        PROVE  kept[i] = IF i \in places THEN Append(kept[i - 1], q[i]) ELSE kept[i - 1]
    BY <2>1, <2>2, Zenon
  <2>. QED
    BY <2>3, <2>4
<1>9. \A i \in 0..n : kept[i] \in Seq(S)
  <2> DEFINE K == {i \in 0..n : kept[i] \in Seq(S)}
  <2>1. 0 \in K
    <3>1. 0 \in 0..n /\ << >> \in Seq(S)
      BY <1>1
    <3>. QED
      BY <1>8, <3>1, Zenon
  <2>2. ASSUME NEW i \in 1..n, i - 1 \in K PROVE i \in K
    <3>1. i \in 0..n /\ q[i] \in S /\ kept[i - 1] \in Seq(S)
      BY <1>1, <2>2
    <3>2. Append(kept[i - 1], q[i]) \in Seq(S)
      BY <3>1
    <3>. QED
      BY <1>8, <3>1, <3>2, Zenon
  <2> HIDE DEF K
  <2>3. \A i \in 0..n : i \in K
    BY <1>1, <2>1, <2>2, InductionUpTo
  <2>. QED
    BY <2>3 DEF K
<1>10. kept \in [0..n -> Seq(S)]
  BY <1>7, <1>9
<1>. QED
  BY <1>0, <1>6, <1>8, <1>10 DEF KeptOf
\* s is what there is at certain places among the first n of q, in their order:
\* of names each entry's place.
Thinned(of, s, q, places, n) ==
    /\ of \in [1..Len(s) -> places \cap (1..n)]
    /\ \A i, j \in 1..Len(s) : i < j => of[i] < of[j]
    /\ \A p \in places \cap (1..n) : \E j \in 1..Len(s) : of[j] = p
    /\ \A j \in 1..Len(s) : s[j] = q[of[j]]

\* One more place, which stays or does not.
LEMMA ThinnedStep ==
    ASSUME NEW S, NEW q \in Seq(S), NEW places, NEW n \in 1..Len(q), NEW s \in Seq(S),
           NEW of, Thinned(of, s, q, places, n - 1)
    PROVE  /\ n \notin places => Thinned(of, s, q, places, n)
           /\ n \in places =>
                 Thinned([j \in 1..(Len(s) + 1) |-> IF j = Len(s) + 1 THEN n ELSE of[j]],
                         Append(s, q[n]), q, places, n)
<1> DEFINE m == Len(s)
           s2 == Append(s, q[n])
           of2 == [j \in 1..(m + 1) |-> IF j = m + 1 THEN n ELSE of[j]]
<1>1. /\ n \in Nat /\ m \in Nat /\ n - 1 \in Nat /\ n >= 1
      /\ Len(s2) = m + 1 /\ s2[m + 1] = q[n] /\ \A j \in 1..m : s2[j] = s[j]
  <2>1. q[n] \in S /\ Len(q) \in Nat
    OBVIOUS
  <2>. QED
    BY <2>1, AppendProperties
<1>2. /\ of \in [1..m -> places \cap (1..(n - 1))]
      /\ \A i, j \in 1..m : i < j => of[i] < of[j]
      /\ \A p \in places \cap (1..(n - 1)) : \E j \in 1..m : of[j] = p
      /\ \A j \in 1..m : s[j] = q[of[j]]
  BY DEF Thinned
<1>3. \A p \in 1..n : p \in 1..(n - 1) \/ p = n
  BY <1>1
<1>4. \A p \in 1..(n - 1) : p \in 1..n /\ p < n
  BY <1>1
<1>5. m = Len(s)
  OBVIOUS
<1> HIDE DEF m, s2
<1>6. ASSUME n \notin places PROVE Thinned(of, s, q, places, n)
  <2>1. places \cap (1..n) = places \cap (1..(n - 1))
    BY <1>3, <1>4, <1>6
  <2>. QED
    BY <1>2, <1>5, <2>1 DEF Thinned
<1>7. ASSUME n \in places PROVE Thinned(of2, s2, q, places, n)
  <2>1. of2 \in [1..(m + 1) -> places \cap (1..n)]
    <3>1. ASSUME NEW j \in 1..(m + 1), j # m + 1 PROVE of[j] \in places \cap (1..n)
      <4>1. j \in 1..m
        BY <1>1, <3>1
      <4>. QED
        BY <1>2, <1>4, <4>1
    <3>2. n \in places \cap (1..n)
      BY <1>1, <1>7
    <3>. QED
      BY <3>1, <3>2
  <2>2. \A j \in 1..m : j \in 1..(m + 1) /\ j # m + 1 /\ of2[j] = of[j] /\ of[j] \in 1..(n - 1)
    BY <1>1, <1>2
  <2>3. m + 1 \in 1..(m + 1) /\ of2[m + 1] = n
    BY <1>1
  <2>4. \A j \in 1..(m + 1) : j \in 1..m \/ j = m + 1
    BY <1>1
  <2> HIDE DEF of2
  <2>5. ASSUME NEW i \in 1..(m + 1), NEW j \in 1..(m + 1), i < j PROVE of2[i] < of2[j]
    <3>1. i \in 1..m
      BY <1>1, <2>5
    <3>2. CASE j \in 1..m
      BY <1>2, <2>2, <2>5, <3>1, <3>2
    <3>3. CASE j = m + 1
      BY <1>4, <2>2, <2>3, <3>1, <3>3
    <3>. QED
      BY <2>4, <3>2, <3>3
  <2>6. ASSUME NEW p \in places \cap (1..n) PROVE \E j \in 1..(m + 1) : of2[j] = p
    <3>1. CASE p = n
      BY <2>3, <3>1
    <3>2. CASE p # n
      <4>1. p \in places \cap (1..(n - 1))
        BY <1>3, <3>2
      <4>2. PICK j \in 1..m : of[j] = p
        BY <1>2, <4>1
      <4>. QED
        BY <2>2, <4>2
    <3>. QED
      BY <3>1, <3>2
  <2>7. ASSUME NEW j \in 1..(m + 1) PROVE s2[j] = q[of2[j]]
    <3>1. CASE j \in 1..m
      BY <1>1, <1>2, <2>2, <3>1
    <3>2. CASE j = m + 1
      BY <1>1, <2>3, <3>2
    <3>. QED
      BY <2>4, <3>1, <3>2
  <2>. QED
    BY <1>1, <2>1, <2>5, <2>6, <2>7 DEF Thinned
<1>. QED
  BY <1>5, <1>6, <1>7 DEF s2

\* What Retained leaves of a queue: the entries at the places, in their order, no more
\* of them and no more bytes than there were.
LEMMA RetainedIsThinned ==
    ASSUME NEW S, NEW q \in Seq(S), NEW places, \A x \in S : x.bytes \in Nat
    PROVE  /\ Retained(q, places) \in Seq(S)
           /\ Len(Retained(q, places)) <= Len(q)
           /\ TotalBytes(Retained(q, places)) <= TotalBytes(q)
           /\ \E of : Thinned(of, Retained(q, places), q, places, Len(q))
<1> DEFINE n == Len(q)
<1>1. n \in Nat /\ \A i \in 1..n : q[i] \in S
  OBVIOUS
<1>2. PICK kept \in [0..n -> Seq(S)] :
         KeptOf(q, places, kept) /\ Retained(q, places) = kept[n]
  BY RetainedSteps
<1>3. PICK t \in [0..n -> Nat] :
         /\ t[0] = 0
         /\ \A i \in 1..n : t[i] = t[i - 1] + q[i].bytes
         /\ TotalBytes(q) = t[n]
  BY <1>1, RunningTotal
<1> DEFINE Fine(i) == /\ Len(kept[i]) <= i
                      /\ TotalBytes(kept[i]) \in Nat
                      /\ TotalBytes(kept[i]) <= t[i]
                      /\ \E of : Thinned(of, kept[i], q, places, i)
           K == {i \in 0..n : Fine(i)}
<1>0. n = Len(q)
  OBVIOUS
<1> HIDE DEF n
<1>4. 0 \in K
  <2>1. Len(<< >>) = 0 /\ 1..0 = {} /\ 0 \in 0..n
    BY <1>1
  <2>2. Thinned([j \in 1..0 |-> j], << >>, q, places, 0)
    BY <2>1 DEF Thinned
  <2>3. Fine(0)
    BY <1>2, <1>3, <2>1, <2>2, TotalEmpty DEF KeptOf
  <2> HIDE DEF Fine
  <2>. QED
    BY <2>1, <2>3
<1>5. ASSUME NEW i \in 1..n, i - 1 \in K PROVE i \in K
  <2>1. /\ i \in 0..n /\ i - 1 \in 0..n /\ i \in 1..Len(q) /\ q[i] \in S
        /\ q[i].bytes \in Nat /\ t[i - 1] \in Nat /\ t[i] = t[i - 1] + q[i].bytes
    BY <1>0, <1>1, <1>3
  <2>2. Fine(i - 1) /\ kept[i - 1] \in Seq(S)
    BY <1>5, <2>1, <1>2
  <2>3. PICK of : Thinned(of, kept[i - 1], q, places, i - 1)
    BY <2>2
  <2>4. /\ i \notin places => Thinned(of, kept[i - 1], q, places, i)
        /\ i \in places => \E of2 : Thinned(of2, Append(kept[i - 1], q[i]), q, places, i)
    BY <2>1, <2>2, <2>3, ThinnedStep
  <2>5. CASE i \in places
    <3>1. kept[i] = Append(kept[i - 1], q[i])
      BY <1>0, <1>2, <2>5 DEF KeptOf
    <3>2. Len(kept[i]) = Len(kept[i - 1]) + 1 /\ Len(kept[i - 1]) \in Nat
      BY <2>1, <2>2, <3>1, AppendProperties
    <3>3. TotalBytes(kept[i]) = TotalBytes(kept[i - 1]) + q[i].bytes
      BY <2>1, <2>2, <3>1, TotalAppend
    <3>4. Fine(i)
      BY <2>1, <2>2, <2>4, <2>5, <3>1, <3>2, <3>3
    <3> HIDE DEF Fine
    <3>. QED
      BY <2>1, <3>4
  <2>6. CASE i \notin places
    <3>1. kept[i] = kept[i - 1]
      BY <1>0, <1>2, <2>6 DEF KeptOf
    <3>2. Len(kept[i - 1]) \in Nat
      BY <2>2
    <3>4. Fine(i)
      BY <2>1, <2>2, <2>4, <2>6, <3>1, <3>2
    <3> HIDE DEF Fine
    <3>. QED
      BY <2>1, <3>4
  <2>. QED
    BY <2>5, <2>6
<1>6. Fine(n)
  <2>1. \A i \in 0..n : i \in K
    <3> HIDE DEF K
    <3>. QED
      BY <1>1, <1>4, <1>5, InductionUpTo
  <2>2. n \in 0..n
    BY <1>1
  <2> HIDE DEF Fine
  <2>. QED
    BY <2>1, <2>2
<1>7. kept[n] \in Seq(S)
  BY <1>1, <1>2
<1>. QED
  BY <1>0, <1>2, <1>3, <1>6, <1>7
\* rest is what is left of q when the first n were removed, no more than it took to
\* have room.
RoomMade(rest, q, n, size, maxEntries, maxBytes) ==
    /\ Len(rest) = Len(q) - n
    /\ \A j \in 1..(Len(q) - n) : rest[j] = q[n + j]
    /\ HasRoom(rest, size, maxEntries, maxBytes)
    /\ \A m \in 0..(n - 1) :
          ~HasRoom(SubSeq(q, m + 1, Len(q)), size, maxEntries, maxBytes)

\* Making room ends, and the longest end of the queue with room is left, for any entry
\* that an empty store has room for.
LEMMA EvictedHasRoom ==
    ASSUME NEW S, NEW q \in Seq(S), \A x \in S : x.bytes \in Nat,
           NEW maxEntries \in Nat \ {0}, NEW maxBytes \in Nat,
           NEW size \in Nat, size <= maxBytes
    PROVE  /\ EvictedFor(q, size, maxEntries, maxBytes) \in Seq(S)
           /\ \E n \in 0..Len(q) :
                 RoomMade(EvictedFor(q, size, maxEntries, maxBytes), q, n,
                          size, maxEntries, maxBytes)
<1> DEFINE Rest(n) == SubSeq(q, n + 1, Len(q))
           Room(n) == HasRoom(Rest(n), size, maxEntries, maxBytes)
           First(n) == Room(n) /\ \A m \in 0..(n - 1) : ~Room(m)
           popped == CHOOSE n \in 0..Len(q) : First(n)
           T == {n \in 0..Len(q) : Room(n)}
<1>1. Len(q) \in Nat
  OBVIOUS
<1>2. Len(q) \in T
  <2>1. Rest(Len(q)) = << >>
    BY <1>1
  <2>2. HasRoom(<< >>, size, maxEntries, maxBytes)
    BY TotalEmpty DEF HasRoom
  <2>3. Room(Len(q))
    BY <2>1, <2>2
  <2> HIDE DEF Room
  <2>. QED
    BY <1>1, <2>3
<1>3. PICK n \in T : \A m \in T : n <= m
  <2>1. T \in SUBSET Nat /\ T # {}
    BY <1>1, <1>2
  <2> HIDE DEF T
  <2>. QED
    BY <2>1, LeastNumber
<1>4. n \in 0..Len(q) /\ First(n)
  <2> HIDE DEF Room
  <2>1. n \in 0..Len(q) /\ Room(n)
    OBVIOUS
  <2>2. ASSUME NEW m \in 0..(n - 1), Room(m) PROVE FALSE
    <3>1. m \in T /\ m < n
      BY <1>1, <2>1, <2>2
    <3>. QED
      BY <1>1, <1>3, <2>1, <3>1
  <2>. QED
    BY <2>1, <2>2
<1>5. popped \in 0..Len(q) /\ First(popped)
  <2> HIDE DEF First
  <2>. QED
    BY <1>4
<1>6. EvictedFor(q, size, maxEntries, maxBytes) = Rest(popped)
  BY DEF EvictedFor
<1> HIDE DEF popped
<1>7. /\ Rest(popped) \in Seq(S)
      /\ Len(Rest(popped)) = Len(q) - popped
      /\ \A j \in 1..(Len(q) - popped) : Rest(popped)[j] = q[popped + j]
  BY <1>1, <1>5
<1>. QED
  BY <1>5, <1>6, <1>7 DEF RoomMade

\* r is some of the entries of q in their order.
PartOf(r, q) ==
    \E of \in [1..Len(r) -> 1..Len(q)] :
        /\ \A i, j \in 1..Len(r) : i < j => of[i] < of[j]
        /\ \A j \in 1..Len(r) : r[j] = q[of[j]]

\* Retaining some and making room both leave a part.
LEMMA RetainedIsPart ==
    ASSUME NEW S, NEW q \in Seq(S), NEW places, \A x \in S : x.bytes \in Nat
    PROVE  PartOf(Retained(q, places), q)
<1>1. PICK of : Thinned(of, Retained(q, places), q, places, Len(q))
  BY RetainedIsThinned
<1>2. of \in [1..Len(Retained(q, places)) -> 1..Len(q)]
  BY <1>1 DEF Thinned
<1>. QED
  BY <1>1, <1>2 DEF Thinned, PartOf

LEMMA RestIsPart ==
    ASSUME NEW S, NEW q \in Seq(S), NEW r \in Seq(S), NEW n \in 0..Len(q),
           Len(r) = Len(q) - n, \A j \in 1..(Len(q) - n) : r[j] = q[n + j]
    PROVE  PartOf(r, q)
<1> DEFINE of == [j \in 1..Len(r) |-> n + j]
<1>1. Len(q) \in Nat /\ Len(r) \in Nat
  OBVIOUS
<1>2. of \in [1..Len(r) -> 1..Len(q)] /\ \A i, j \in 1..Len(r) : i < j => of[i] < of[j]
  BY <1>1
<1>3. \A j \in 1..Len(r) : r[j] = q[of[j]]
  BY <1>1
<1> HIDE DEF of
<1>. QED
  BY <1>2, <1>3 DEF PartOf

LEMMA PartOfPart ==
    ASSUME NEW r, NEW s, NEW q, PartOf(r, s), PartOf(s, q)
    PROVE  PartOf(r, q)
<1>1. PICK f \in [1..Len(r) -> 1..Len(s)] :
         /\ \A i, j \in 1..Len(r) : i < j => f[i] < f[j]
         /\ \A j \in 1..Len(r) : r[j] = s[f[j]]
  BY DEF PartOf
<1>2. PICK g \in [1..Len(s) -> 1..Len(q)] :
         /\ \A i, j \in 1..Len(s) : i < j => g[i] < g[j]
         /\ \A j \in 1..Len(s) : s[j] = q[g[j]]
  BY DEF PartOf
<1> DEFINE of == [j \in 1..Len(r) |-> g[f[j]]]
<1>3. of \in [1..Len(r) -> 1..Len(q)]
  BY <1>1, <1>2
<1>4. \A i, j \in 1..Len(r) : i < j => of[i] < of[j]
  BY <1>1, <1>2
<1>5. \A j \in 1..Len(r) : r[j] = q[of[j]]
  BY <1>1, <1>2
<1> HIDE DEF of
<1>. QED
  BY <1>3, <1>4, <1>5 DEF PartOf

-----------------------------------------------------------------------------
(* The server's cache: what a lookup finds *)

\* One entry per key, oldest first.
Ordered(queue) ==
    \A i, j \in 1..Len(queue) : i < j =>
        /\ queue[i].key # queue[j].key
        /\ queue[i].age >= queue[j].age

LEMMA EntriesAreSized ==
    /\ \A x \in CacheEntry : x.bytes \in Nat
    /\ \A x \in CacheEntry : x.age \in 0..TTL /\ x.key \in Keys /\ x.value \in Values
    /\ TTL \in Nat \ {0} /\ None \notin Values
  BY CacheAssumption DEF CacheEntry

\* A part of an ordered queue is ordered.
LEMMA PartIsOrdered ==
    ASSUME NEW q, NEW r, PartOf(r, q), Ordered(q)
    PROVE  Ordered(r)
  BY DEF PartOf, Ordered

\* A lookup finds the live entry with the key, if there is one.
LEMMA LookupFinds ==
    ASSUME NEW q \in Seq(CacheEntry), Ordered(q), NEW i \in 1..Len(q), q[i].age < TTL
    PROVE  Lookup(q, q[i].key) = q[i].value
<1> DEFINE matching == {j \in DOMAIN q : q[j].key = q[i].key /\ q[j].age < TTL}
<1>1. DOMAIN q = 1..Len(q) /\ Len(q) \in Nat
  OBVIOUS
<1>2. i \in matching
  BY <1>1
<1>3. ASSUME NEW j \in matching PROVE j = i
  <2>1. j \in 1..Len(q) /\ q[j].key = q[i].key
    BY <1>1, <1>3
  <2>2. ~(i < j) /\ ~(j < i)
    BY <2>1 DEF Ordered
  <2>. QED
    BY <1>1, <2>1, <2>2
<1> DEFINE found == CHOOSE j \in matching : \A m \in matching : m <= j
<1>4. Lookup(q, q[i].key) = IF matching = {} THEN None ELSE q[found].value
  BY DEF Lookup
<1>5. found \in matching
  <2> HIDE DEF matching
  <2>1. \A m \in matching : m <= i
    BY <1>1, <1>3
  <2>. QED
    BY <1>2, <2>1
<1> HIDE DEF matching, found
<1>. QED
  BY <1>2, <1>3, <1>4, <1>5

LEMMA LookupFindsNone ==
    ASSUME NEW q \in Seq(CacheEntry), NEW k,
           \A i \in 1..Len(q) : ~(q[i].key = k /\ q[i].age < TTL)
    PROVE  Lookup(q, k) = None
<1>1. {j \in DOMAIN q : q[j].key = k /\ q[j].age < TTL} = {}
  OBVIOUS
<1>. QED
  BY <1>1 DEF Lookup

\* A lookup in a part finds what it finds in the whole, or nothing.
LEMMA PartForgets ==
    ASSUME NEW q \in Seq(CacheEntry), NEW r \in Seq(CacheEntry), PartOf(r, q), Ordered(q), NEW k
    PROVE  Lookup(r, k) \in {None, Lookup(q, k)}
<1>1. CASE \A i \in 1..Len(r) : ~(r[i].key = k /\ r[i].age < TTL)
  BY <1>1, LookupFindsNone
<1>2. CASE \E i \in 1..Len(r) : r[i].key = k /\ r[i].age < TTL
  <2>1. PICK i \in 1..Len(r) : r[i].key = k /\ r[i].age < TTL
    BY <1>2
  <2>2. PICK m \in 1..Len(q) : r[i] = q[m]
    BY DEF PartOf
  <2>3. Lookup(r, k) = r[i].value
    BY <2>1, PartIsOrdered, LookupFinds
  <2>4. Lookup(q, k) = q[m].value
    BY <2>1, <2>2, LookupFinds
  <2>. QED
    BY <2>2, <2>3, <2>4
<1>. QED
  BY <1>1, <1>2
\* Dropping what has expired changes no lookup.
LEMMA UnexpiredFindsTheSame ==
    ASSUME NEW q \in Seq(CacheEntry), Ordered(q), NEW k
    PROVE  /\ Unexpired(q) \in Seq(CacheEntry) /\ PartOf(Unexpired(q), q)
           /\ Lookup(Unexpired(q), k) = Lookup(q, k)
<1> DEFINE places == {i \in DOMAIN q : q[i].age < TTL}
           r == Retained(q, places)
<1>1. Unexpired(q) = r
  BY DEF Unexpired, LiveEntries
<1>2. r \in Seq(CacheEntry) /\ PartOf(r, q) /\ \E of : Thinned(of, r, q, places, Len(q))
  <2> HIDE DEF places
  <2>. QED
    BY EntriesAreSized, RetainedIsThinned, RetainedIsPart
<1>3. DOMAIN q = 1..Len(q) /\ Len(q) \in Nat
  OBVIOUS
<1> HIDE DEF r
<1>4. CASE \A i \in 1..Len(q) : ~(q[i].key = k /\ q[i].age < TTL)
  <2>1. Lookup(q, k) = None
    BY <1>4, LookupFindsNone
  <2>. QED
    BY <1>1, <1>2, <2>1, PartForgets
<1>5. CASE \E i \in 1..Len(q) : q[i].key = k /\ q[i].age < TTL
  <2>1. PICK i \in 1..Len(q) : q[i].key = k /\ q[i].age < TTL
    BY <1>5
  <2>2. i \in places \cap (1..Len(q))
    BY <1>3, <2>1
  <2>3. PICK of : Thinned(of, r, q, places, Len(q))
    BY <1>2
  <2>4. PICK j \in 1..Len(r) : of[j] = i
    BY <2>2, <2>3 DEF Thinned
  <2>5. r[j] = q[i]
    BY <2>3, <2>4 DEF Thinned
  <2>6. Lookup(r, k) = q[i].value
    BY <1>2, <2>1, <2>5, PartIsOrdered, LookupFinds
  <2>7. Lookup(q, k) = q[i].value
    BY <2>1, LookupFinds
  <2>. QED
    BY <1>1, <1>2, <2>6, <2>7
<1>. QED
  BY <1>4, <1>5

\* What is without a key is a part in which no entry has it.
LEMMA WithoutHasNone ==
    ASSUME NEW q \in Seq(CacheEntry), NEW k
    PROVE  /\ Without(q, k) \in Seq(CacheEntry) /\ PartOf(Without(q, k), q)
           /\ \A i \in 1..Len(Without(q, k)) : Without(q, k)[i].key # k
<1> DEFINE places == {i \in DOMAIN q : q[i].key # k}
           r == Retained(q, places)
<1>1. Without(q, k) = r
  BY DEF Without
<1>2. r \in Seq(CacheEntry) /\ PartOf(r, q) /\ \E of : Thinned(of, r, q, places, Len(q))
  <2> HIDE DEF places
  <2>. QED
    BY EntriesAreSized, RetainedIsThinned, RetainedIsPart
<1> HIDE DEF r
<1>3. PICK of : Thinned(of, r, q, places, Len(q))
  BY <1>2
<1>4. ASSUME NEW i \in 1..Len(r) PROVE r[i].key # k
  <2>1. of[i] \in places /\ r[i] = q[of[i]]
    BY <1>3 DEF Thinned
  <2>. QED
    BY <2>1
<1>. QED
  BY <1>1, <1>2, <1>4

\* Time only lets entries expire.
LEMMA OlderForgets ==
    ASSUME NEW q \in Seq(CacheEntry), Ordered(q)
    PROVE  /\ Older(q, TTL) \in Seq(CacheEntry) /\ Ordered(Older(q, TTL))
           /\ Len(Older(q, TTL)) = Len(q)
           /\ TotalBytes(Older(q, TTL)) = TotalBytes(q)
           /\ \A k : Lookup(Older(q, TTL), k) \in {None, Lookup(q, k)}
<1> DEFINE n == Len(q)
           r == Older(q, TTL)
<1>1. n \in Nat /\ DOMAIN q = 1..n /\ \A i \in 1..n : q[i] \in CacheEntry
  OBVIOUS
<1>2. r = [i \in 1..n |-> [q[i] EXCEPT !.age = IF @ < TTL THEN @ + 1 ELSE @]]
  BY <1>1 DEF Older
<1>3. ASSUME NEW i \in 1..n
      PROVE  /\ r[i] \in CacheEntry
             /\ r[i].key = q[i].key /\ r[i].value = q[i].value /\ r[i].bytes = q[i].bytes
             /\ r[i].age = IF q[i].age < TTL THEN q[i].age + 1 ELSE q[i].age
  <2>1. q[i] \in CacheEntry /\ q[i].age \in 0..TTL /\ TTL \in Nat
    BY <1>1, EntriesAreSized
  <2>2. r[i] = [q[i] EXCEPT !.age = IF q[i].age < TTL THEN q[i].age + 1 ELSE q[i].age]
    BY <1>2
  <2>. QED
    BY <2>1, <2>2 DEF CacheEntry
<1>4. r \in Seq(CacheEntry) /\ Len(r) = n
  <2> HIDE DEF r
  <2>1. r \in [1..n -> CacheEntry]
    BY <1>2, <1>3
  <2>. QED
    BY <1>1, <2>1
<1>5. n = Len(q) /\ r = Older(q, TTL)
  OBVIOUS
<1> HIDE DEF n, r
<1>6. Ordered(r)
  <2> SUFFICES ASSUME NEW i \in 1..n, NEW j \in 1..n, i < j
               PROVE  r[i].key # r[j].key /\ r[i].age >= r[j].age
    BY <1>4 DEF Ordered
  <2>1. q[i].key # q[j].key /\ q[i].age >= q[j].age
    BY <1>5 DEF Ordered
  <2>2. q[i].age \in 0..TTL /\ q[j].age \in 0..TTL /\ TTL \in Nat
    BY <1>1, EntriesAreSized
  <2>. QED
    BY <1>3, <2>1, <2>2
<1>7. TotalBytes(r) = TotalBytes(q)
  <2>1. Len(q) \in Nat /\ Len(r) = Len(q)
    BY <1>1, <1>4, <1>5
  <2>2. \A i \in 1..Len(q) : q[i].bytes \in Nat /\ r[i].bytes = q[i].bytes
    BY <1>1, <1>3, <1>5, EntriesAreSized
  <2>. QED
    BY <2>1, <2>2, TotalSame
<1>8. ASSUME NEW k PROVE Lookup(r, k) \in {None, Lookup(q, k)}
  <2>1. CASE \A i \in 1..Len(r) : ~(r[i].key = k /\ r[i].age < TTL)
    BY <1>4, <2>1, LookupFindsNone
  <2>2. CASE \E i \in 1..Len(r) : r[i].key = k /\ r[i].age < TTL
    <3>1. PICK i \in 1..Len(r) : r[i].key = k /\ r[i].age < TTL
      BY <2>2
    <3>2. i \in 1..Len(q) /\ q[i].key = k /\ q[i].age < TTL /\ r[i].value = q[i].value
      <4>1. i \in 1..n /\ q[i].age \in 0..TTL /\ TTL \in Nat
        BY <1>1, <1>4, <3>1, EntriesAreSized
      <4>. QED
        BY <1>3, <1>5, <3>1, <4>1
    <3>3. Lookup(r, k) = r[i].value
      BY <1>4, <1>6, <3>1, LookupFinds
    <3>4. Lookup(q, k) = q[i].value
      BY <3>2, LookupFinds
    <3>. QED
      BY <3>2, <3>3, <3>4
  <2>. QED
    BY <2>1, <2>2
<1>. QED
  BY <1>4, <1>5, <1>6, <1>7, <1>8

\* A new entry is found under its key, and nothing else is found otherwise.
LEMMA AppendFinds ==
    ASSUME NEW q \in Seq(CacheEntry), Ordered(q), NEW e \in CacheEntry, e.age = 0,
           \A i \in 1..Len(q) : q[i].key # e.key
    PROVE  /\ Append(q, e) \in Seq(CacheEntry) /\ Ordered(Append(q, e))
           /\ Len(Append(q, e)) = Len(q) + 1
           /\ TotalBytes(Append(q, e)) = TotalBytes(q) + e.bytes
           /\ Lookup(Append(q, e), e.key) = e.value
           /\ \A k : k # e.key => Lookup(Append(q, e), k) = Lookup(q, k)
<1> DEFINE n == Len(q)
           r == Append(q, e)
<1>1. /\ n \in Nat /\ n = Len(q) /\ r = Append(q, e)
      /\ r \in Seq(CacheEntry) /\ Len(r) = n + 1 /\ r[n + 1] = e
      /\ \A i \in 1..n : r[i] = q[i]
  BY AppendProperties
<1> HIDE DEF n, r
<1>2. \A i \in 1..(n + 1) : i \in 1..n \/ i = n + 1
  BY <1>1
<1>3. n + 1 \in 1..(n + 1) /\ \A i \in 1..n : i \in 1..(n + 1) /\ i < n + 1
  BY <1>1
<1>4. Ordered(r)
  <2> SUFFICES ASSUME NEW i \in 1..(n + 1), NEW j \in 1..(n + 1), i < j
               PROVE  r[i].key # r[j].key /\ r[i].age >= r[j].age
    BY <1>1 DEF Ordered
  <2>1. i \in 1..n
    BY <1>1
  <2>2. CASE j \in 1..n
    BY <1>1, <2>1, <2>2 DEF Ordered
  <2>3. CASE j = n + 1
    <3>1. q[i] \in CacheEntry
      BY <1>1, <2>1
    <3>2. q[i].age >= 0 /\ q[i].key # e.key
      BY <1>1, <2>1, <3>1, EntriesAreSized
    <3>. QED
      BY <1>1, <2>1, <2>3, <3>2
  <2>. QED
    BY <1>2, <2>2, <2>3
<1>5. TotalBytes(r) = TotalBytes(q) + e.bytes
  BY <1>1, EntriesAreSized, TotalAppend
<1>6. Lookup(r, e.key) = e.value
  <2>1. n + 1 \in 1..Len(r) /\ r[n + 1].age < TTL
    BY <1>1, <1>3, EntriesAreSized
  <2>2. Lookup(r, r[n + 1].key) = r[n + 1].value
    BY <1>1, <1>4, <2>1, LookupFinds
  <2>. QED
    BY <1>1, <2>2
<1>7. ASSUME NEW k, k # e.key PROVE Lookup(r, k) = Lookup(q, k)
  <2>1. CASE \A i \in 1..Len(q) : ~(q[i].key = k /\ q[i].age < TTL)
    <3>1. \A i \in 1..Len(r) : ~(r[i].key = k /\ r[i].age < TTL)
      BY <1>1, <1>2, <1>7, <2>1
    <3>2. Lookup(r, k) = None
      BY <1>1, <3>1, LookupFindsNone
    <3>3. Lookup(q, k) = None
      BY <2>1, LookupFindsNone
    <3>. QED
      BY <3>2, <3>3
  <2>2. CASE \E i \in 1..Len(q) : q[i].key = k /\ q[i].age < TTL
    <3>1. PICK i \in 1..Len(q) : q[i].key = k /\ q[i].age < TTL
      BY <2>2
    <3>2. i \in 1..Len(r) /\ r[i] = q[i]
      BY <1>1, <1>3, <3>1
    <3>3. Lookup(r, k) = r[i].value
      BY <1>1, <1>4, <3>1, <3>2, LookupFinds
    <3>4. Lookup(q, k) = q[i].value
      BY <3>1, LookupFinds
    <3>. QED
      BY <3>2, <3>3, <3>4
  <2>. QED
    BY <2>1, <2>2
<1>. QED
  BY <1>1, <1>4, <1>5, <1>6, <1>7
-----------------------------------------------------------------------------
(* The server's cache: what it keeps is within limits and current *)

\* A queue that the cache may hold.
Sound(queue) ==
    /\ queue \in Seq(CacheEntry)
    /\ Len(queue) <= MaxEntries
    /\ TotalBytes(queue) <= MaxBytes
    /\ Ordered(queue)

LEMMA EntriesAreSound ==
    CacheTypeOK => (Bounded <=> Sound(entries))
<1> SUFFICES ASSUME entries \in Seq(CacheEntry) PROVE Bounded <=> Sound(entries)
  BY DEF CacheTypeOK
<1>1. DOMAIN entries = 1..Len(entries)
  OBVIOUS
<1>. QED
  BY <1>1 DEF Bounded, Sound, Ordered

\* The empty queue is sound and nothing is found in it.
LEMMA EmptyIsSound == Sound(<< >>) /\ \A k : Lookup(<< >>, k) = None
<1>1. << >> \in Seq(CacheEntry) /\ Len(<< >>) = 0 /\ 1..0 = {}
  OBVIOUS
<1>2. MaxEntries >= 0 /\ MaxBytes >= 0
  BY CacheAssumption
<1>3. Sound(<< >>)
  BY <1>1, <1>2, TotalEmpty DEF Sound, Ordered
<1>. QED
  BY <1>1, <1>3, LookupFindsNone

\* What is left when expired entries go, and then those of a key.
LEMMA UnexpiredIsSound ==
    ASSUME NEW q, Sound(q)
    PROVE  Sound(Unexpired(q)) /\ \A k : Lookup(Unexpired(q), k) = Lookup(q, k)
<1>1. /\ Len(Unexpired(q)) <= Len(q) /\ TotalBytes(Unexpired(q)) <= TotalBytes(q)
      /\ TotalBytes(q) \in Nat /\ TotalBytes(Unexpired(q)) \in Nat
  <2> DEFINE places == {i \in DOMAIN q : q[i].age < TTL}
  <2>1. Unexpired(q) = Retained(q, places)
    BY DEF Unexpired, LiveEntries
  <2> HIDE DEF places
  <2>2. Unexpired(q) \in Seq(CacheEntry) /\ q \in Seq(CacheEntry)
    BY <2>1, EntriesAreSized, RetainedIsThinned DEF Sound
  <2>. QED
    BY <2>1, <2>2, EntriesAreSized, RetainedIsThinned, TotalIsNat DEF Sound
<1>2. /\ Unexpired(q) \in Seq(CacheEntry) /\ PartOf(Unexpired(q), q)
      /\ \A k : Lookup(Unexpired(q), k) = Lookup(q, k)
  BY UnexpiredFindsTheSame DEF Sound
<1>3. Ordered(Unexpired(q))
  BY <1>2, PartIsOrdered DEF Sound
<1>4. Len(q) \in Nat /\ Len(Unexpired(q)) \in Nat /\ MaxEntries \in Nat /\ MaxBytes \in Nat
  BY <1>2, CacheAssumption DEF Sound
<1>. QED
  BY <1>1, <1>2, <1>3, <1>4 DEF Sound

LEMMA WithoutIsSound ==
    ASSUME NEW q, Sound(q), NEW k
    PROVE  /\ Sound(Without(q, k)) /\ Lookup(Without(q, k), k) = None
           /\ \A x : Lookup(Without(q, k), x) \in {None, Lookup(q, x)}
           /\ \A i \in 1..Len(Without(q, k)) : Without(q, k)[i].key # k
<1>1. /\ Len(Without(q, k)) <= Len(q) /\ TotalBytes(Without(q, k)) <= TotalBytes(q)
      /\ TotalBytes(q) \in Nat /\ TotalBytes(Without(q, k)) \in Nat
  <2> DEFINE places == {i \in DOMAIN q : q[i].key # k}
  <2>1. Without(q, k) = Retained(q, places)
    BY DEF Without
  <2> HIDE DEF places
  <2>2. Without(q, k) \in Seq(CacheEntry) /\ q \in Seq(CacheEntry)
    BY <2>1, EntriesAreSized, RetainedIsThinned DEF Sound
  <2>. QED
    BY <2>1, <2>2, EntriesAreSized, RetainedIsThinned, TotalIsNat DEF Sound
<1>2. /\ Without(q, k) \in Seq(CacheEntry) /\ PartOf(Without(q, k), q)
      /\ \A i \in 1..Len(Without(q, k)) : Without(q, k)[i].key # k
  BY WithoutHasNone DEF Sound
<1>3. Ordered(Without(q, k)) /\ \A x : Lookup(Without(q, k), x) \in {None, Lookup(q, x)}
  BY <1>2, PartIsOrdered, PartForgets DEF Sound
<1>4. Len(q) \in Nat /\ Len(Without(q, k)) \in Nat /\ MaxEntries \in Nat /\ MaxBytes \in Nat
  BY <1>2, CacheAssumption DEF Sound
<1>5. Lookup(Without(q, k), k) = None
  BY <1>2, LookupFindsNone
<1>. QED
  BY <1>1, <1>2, <1>3, <1>4, <1>5 DEF Sound

\* The queue after room was made and the new entry appended.
LEMMA InsertedIsSound ==
    ASSUME NEW q, Sound(q), NEW e \in CacheEntry, e.age = 0, e.bytes <= MaxBytes,
           \A i \in 1..Len(q) : q[i].key # e.key
    PROVE  LET r == Append(EvictedFor(q, e.bytes, MaxEntries, MaxBytes), e) IN
           /\ Sound(r) /\ Lookup(r, e.key) = e.value
           /\ \A k : k # e.key => Lookup(r, k) \in {None, Lookup(q, k)}
<1> DEFINE rest == EvictedFor(q, e.bytes, MaxEntries, MaxBytes)
           r == Append(rest, e)
<1>1. /\ q \in Seq(CacheEntry) /\ e.bytes \in Nat /\ MaxEntries \in Nat \ {0} /\ MaxBytes \in Nat
      /\ \A x \in CacheEntry : x.bytes \in Nat
  BY EntriesAreSized, CacheAssumption DEF Sound
<1>2. PICK n \in 0..Len(q) :
         /\ rest \in Seq(CacheEntry) /\ Len(rest) = Len(q) - n
         /\ \A j \in 1..(Len(q) - n) : rest[j] = q[n + j]
         /\ HasRoom(rest, e.bytes, MaxEntries, MaxBytes)
  <2>1. e.bytes <= MaxBytes
    OBVIOUS
  <2>2. /\ rest \in Seq(CacheEntry)
        /\ \E n \in 0..Len(q) : RoomMade(rest, q, n, e.bytes, MaxEntries, MaxBytes)
    BY <1>1, <2>1, EvictedHasRoom
  <2> HIDE DEF rest
  <2>. QED
    BY <2>2 DEF RoomMade
<1> HIDE DEF rest
<1>3. PartOf(rest, q)
  BY <1>1, <1>2, RestIsPart
<1>4. Ordered(rest) /\ \A k : Lookup(rest, k) \in {None, Lookup(q, k)}
  BY <1>1, <1>2, <1>3, PartIsOrdered, PartForgets DEF Sound
<1>5. \A i \in 1..Len(rest) : rest[i].key # e.key
  BY <1>3 DEF PartOf
<1>6. /\ r \in Seq(CacheEntry) /\ Ordered(r) /\ Len(r) = Len(rest) + 1
      /\ TotalBytes(r) = TotalBytes(rest) + e.bytes
      /\ Lookup(r, e.key) = e.value /\ \A k : k # e.key => Lookup(r, k) = Lookup(rest, k)
  BY <1>2, <1>4, <1>5, AppendFinds
<1>7. Len(r) <= MaxEntries /\ TotalBytes(r) <= MaxBytes
  <2>1. Len(rest) \in Nat /\ TotalBytes(rest) \in Nat
    BY <1>1, <1>2, TotalIsNat
  <2>. QED
    BY <1>1, <1>2, <1>6, <2>1 DEF HasRoom
<1> HIDE DEF r
<1>8. Sound(r)
  BY <1>6, <1>7 DEF Sound
<1>9. \A k : k # e.key => Lookup(r, k) \in {None, Lookup(q, k)}
  BY <1>4, <1>6
<1>. QED
  BY <1>6, <1>8, <1>9 DEF r, rest

LEMMA OlderIsSound ==
    ASSUME NEW q, Sound(q)
    PROVE  Sound(Older(q, TTL)) /\ \A k : Lookup(Older(q, TTL), k) \in {None, Lookup(q, k)}
  BY OlderForgets DEF Sound
\* The invariant in terms of queues.
CacheInv ==
    /\ Sound(entries)
    /\ answer \in Values \cup {None}
    /\ latest \in [Keys -> Values \cup {None}]
    /\ \A k \in Keys : Lookup(entries, k) \in {None, latest[k]}

LEMMA CurrentIsSound == CurrentWithinLimits <=> CacheInv
  BY EntriesAreSound DEF CurrentWithinLimits, CacheTypeOK, NeverOutdated, Sound, CacheInv

\* What each operation does to the queue and to what is found in it.
LEMMA GetFinds ==
    ASSUME Sound(entries), NEW k \in Keys, CacheGet(k)
    PROVE  /\ Sound(entries') /\ \A x : Lookup(entries', x) = Lookup(entries, x)
           /\ answer' = Lookup(entries, k) /\ latest' = latest
  BY UnexpiredIsSound DEF CacheGet

LEMMA InsertPuts ==
    ASSUME Sound(entries), NEW k \in Keys, NEW v \in Values, NEW size \in Sizes,
           CacheInsert(k, v, size)
    PROVE  /\ Sound(entries') /\ answer' = answer /\ latest' = [latest EXCEPT ![k] = v]
           /\ Lookup(entries', k) \in {None, v}
           /\ \A x : x # k => Lookup(entries', x) \in {None, Lookup(entries, x)}
<1> DEFINE kept == Without(Unexpired(entries), k)
           e == [key |-> k, value |-> v, bytes |-> size, age |-> 0]
<1>1. /\ entries' = IF size > MaxBytes THEN kept
                    ELSE Append(EvictedFor(kept, size, MaxEntries, MaxBytes), e)
      /\ answer' = answer /\ latest' = [latest EXCEPT ![k] = v]
  BY DEF CacheInsert
<1>2. Sound(Unexpired(entries)) /\ \A x : Lookup(Unexpired(entries), x) = Lookup(entries, x)
  BY UnexpiredIsSound
<1>3. /\ Sound(kept) /\ Lookup(kept, k) = None
      /\ \A x : Lookup(kept, x) \in {None, Lookup(entries, x)}
      /\ \A i \in 1..Len(kept) : kept[i].key # k
  BY <1>2, WithoutIsSound
<1>4. e \in CacheEntry /\ e.age = 0 /\ e.bytes = size /\ e.key = k /\ e.value = v
  BY EntriesAreSized DEF CacheEntry
<1> HIDE DEF kept, e
<1>5. CASE size > MaxBytes
  BY <1>1, <1>3, <1>5
<1>6. CASE ~(size > MaxBytes)
  <2>1. e.bytes <= MaxBytes /\ \A i \in 1..Len(kept) : kept[i].key # e.key
    BY <1>3, <1>4, <1>6, CacheAssumption
  <2>2. entries' = Append(EvictedFor(kept, e.bytes, MaxEntries, MaxBytes), e)
    BY <1>1, <1>4, <1>6
  <2>3. /\ Sound(entries') /\ Lookup(entries', e.key) = e.value
        /\ \A x : x # e.key => Lookup(entries', x) \in {None, Lookup(kept, x)}
    BY <1>3, <1>4, <2>1, <2>2, InsertedIsSound
  <2>. QED
    BY <1>1, <1>3, <1>4, <2>3
<1>. QED
  BY <1>5, <1>6

LEMMA RemoveForgets ==
    ASSUME Sound(entries), NEW k \in Keys, CacheRemove(k)
    PROVE  /\ Sound(entries') /\ answer' = answer /\ latest' = [latest EXCEPT ![k] = None]
           /\ Lookup(entries', k) = None
           /\ \A x : Lookup(entries', x) \in {None, Lookup(entries, x)}
  BY WithoutIsSound DEF CacheRemove

LEMMA ClearForgets ==
    ASSUME CacheClear
    PROVE  /\ Sound(entries') /\ answer' = answer /\ latest' = [k \in Keys |-> None]
           /\ \A x : Lookup(entries', x) = None
  BY EmptyIsSound DEF CacheClear

LEMMA TickForgets ==
    ASSUME Sound(entries), CacheTick
    PROVE  /\ Sound(entries') /\ answer' = answer /\ latest' = latest
           /\ \A x : Lookup(entries', x) \in {None, Lookup(entries, x)}
  BY OlderIsSound DEF CacheTick

\* It holds at first and every operation keeps it.
LEMMA CacheStart == CacheInit => CacheInv
  BY EmptyIsSound DEF CacheInit, CacheInv

LEMMA CacheStep == CacheInv /\ [CacheNext]_cacheVars => CacheInv'
<1> SUFFICES ASSUME CacheInv, [CacheNext]_cacheVars PROVE CacheInv'
  OBVIOUS
<1>1. /\ Sound(entries)
      /\ answer \in Values \cup {None}
      /\ latest \in [Keys -> Values \cup {None}]
      /\ \A k \in Keys : Lookup(entries, k) \in {None, latest[k]}
  BY DEF CacheInv
<1>2. ASSUME NEW k \in Keys, CacheGet(k) PROVE CacheInv'
  <2>1. /\ Sound(entries') /\ \A x : Lookup(entries', x) = Lookup(entries, x)
        /\ answer' = Lookup(entries, k) /\ latest' = latest
    BY <1>1, <1>2, GetFinds
  <2>. QED
    BY <1>1, <2>1 DEF CacheInv
<1>3. ASSUME NEW k \in Keys, NEW v \in Values, NEW size \in Sizes, CacheInsert(k, v, size)
      PROVE  CacheInv'
  <2>1. /\ Sound(entries') /\ answer' = answer /\ latest' = [latest EXCEPT ![k] = v]
        /\ Lookup(entries', k) \in {None, v}
        /\ \A x : x # k => Lookup(entries', x) \in {None, Lookup(entries, x)}
    BY <1>1, <1>3, InsertPuts
  <2>. QED
    BY <1>1, <2>1 DEF CacheInv
<1>4. ASSUME NEW k \in Keys, CacheRemove(k) PROVE CacheInv'
  <2>1. /\ Sound(entries') /\ answer' = answer /\ latest' = [latest EXCEPT ![k] = None]
        /\ Lookup(entries', k) = None
        /\ \A x : Lookup(entries', x) \in {None, Lookup(entries, x)}
    BY <1>1, <1>4, RemoveForgets
  <2>. QED
    BY <1>1, <2>1 DEF CacheInv
<1>5. CASE CacheClear
  BY <1>1, <1>5, ClearForgets DEF CacheInv
<1>6. CASE CacheTick
  <2>1. /\ Sound(entries') /\ answer' = answer /\ latest' = latest
        /\ \A x : Lookup(entries', x) \in {None, Lookup(entries, x)}
    BY <1>1, <1>6, TickForgets
  <2>. QED
    BY <1>1, <2>1 DEF CacheInv
<1>7. CASE UNCHANGED cacheVars
  BY <1>1, <1>7 DEF cacheVars, CacheInv
<1>. QED
  BY <1>2, <1>3, <1>4, <1>5, <1>6, <1>7 DEF CacheNext

\* Whatever is asked of the cache in whatever order, it stays within both limits, with
\* one entry per key, and a get answers with the last insert of its key or nothing.
THEOREM CacheStaysCurrent == CacheSpec => []CurrentWithinLimits
<1>. QED
  BY CacheStart, CacheStep, CurrentIsSound, PTL DEF CacheSpec

-----------------------------------------------------------------------------
(* The server's cache implements a lossy map *)

\* What is found loses nothing but the keys of some set.
LEMMA ForgetsSome ==
    ASSUME \A x \in Keys : Lookup(entries', x) \in {None, Lookup(entries, x)},
           answer' = answer
    PROVE  Map!Next
<1> DEFINE forgotten == {x \in Keys : Lookup(entries', x) # Lookup(entries, x)}
<1>1. [k \in Keys |-> Lookup(entries', k)] = Map!Without([k \in Keys |-> Lookup(entries, k)], forgotten)
  BY DEF Map!Without
<1>2. Map!Forget(forgotten)
  BY <1>1 DEF Map!Forget
<1>3. forgotten \in SUBSET Keys
  OBVIOUS
<1> HIDE DEF forgotten
<1>. QED
  BY <1>2, <1>3 DEF Map!Next

\* An operation of the cache is one of the map, or changes nothing of it.
LEMMA CacheMapStep == CacheInv /\ [CacheNext]_cacheVars => [Map!Next]_(Map!vars)
<1> SUFFICES ASSUME CacheInv, [CacheNext]_cacheVars PROVE Map!Next \/ UNCHANGED Map!vars
  OBVIOUS
<1>1. Sound(entries)
  BY DEF CacheInv
<1> DEFINE found(queue) == [k \in Keys |-> Lookup(queue, k)]
<1>2. ASSUME NEW k \in Keys, CacheGet(k) PROVE Map!Next
  <2>1. (\A x : Lookup(entries', x) = Lookup(entries, x)) /\ answer' = Lookup(entries, k)
    BY <1>1, <1>2, GetFinds
  <2>2. Map!Get(k)
    BY <2>1 DEF Map!Get
  <2>. QED
    BY <2>2 DEF Map!Next
<1>3. ASSUME NEW k \in Keys, NEW v \in Values, NEW size \in Sizes, CacheInsert(k, v, size)
      PROVE  Map!Next
  <2>1. /\ answer' = answer
        /\ Lookup(entries', k) \in {None, v}
        /\ \A x : x # k => Lookup(entries', x) \in {None, Lookup(entries, x)}
    BY <1>1, <1>3, InsertPuts
  <2>2. CASE Lookup(entries', k) = v
    <3> DEFINE forgotten == {x \in Keys : Lookup(entries', x) # Lookup(entries, x)}
    <3>1. found(entries') = [Map!Without(found(entries), forgotten) EXCEPT ![k] = v]
      BY <2>1, <2>2 DEF Map!Without
    <3>2. Map!Put(k, v, forgotten)
      BY <2>1, <3>1 DEF Map!Put
    <3>3. forgotten \in SUBSET Keys
      OBVIOUS
    <3> HIDE DEF forgotten
    <3>. QED
      BY <3>2, <3>3 DEF Map!Next
  <2>3. CASE Lookup(entries', k) = None
    BY <2>1, <2>3, ForgetsSome
  <2>. QED
    BY <2>1, <2>2, <2>3
<1>4. ASSUME NEW k \in Keys, CacheRemove(k) PROVE Map!Next
  BY <1>1, <1>4, RemoveForgets, ForgetsSome
<1>5. CASE CacheClear
  BY <1>5, ClearForgets, ForgetsSome
<1>6. CASE CacheTick
  BY <1>1, <1>6, TickForgets, ForgetsSome
<1>7. CASE UNCHANGED cacheVars
  BY <1>7 DEF cacheVars, Map!vars
<1>. QED
  BY <1>2, <1>3, <1>4, <1>5, <1>6, <1>7 DEF CacheNext

\* Refinement: what is seen of the cache from outside is a map that forgets, but never
\* answers with what was replaced, removed or has expired.
THEOREM CacheImplementsLossyMap == CacheSpec => IsLossyMap
<1>1. CacheInit => Map!Init
  BY EmptyIsSound DEF CacheInit, Map!Init
<1>. QED
  BY <1>1, CacheStart, CacheStep, CacheMapStep, PTL DEF CacheSpec, IsLossyMap, Map!Spec
-----------------------------------------------------------------------------
(* The host's calls: places for jobs *)

Where == {"idle", "executing", "divide", "wait", "job", "original", "preview", "failed"}

OriginalEntry == [id : Calls, bytes : Nat \ {0}, age : 0..Lifetime]

\* What a call has in hand adds up to the limit, and what is left for its next block
\* suffices: for its budget while it condenses, and at the end.
WorkFits(c) ==
    LET w == work[c] IN
    /\ pc[c] \in {"idle", "executing"} => w = Nothing
    /\ pc[c] \in {"divide", "wait", "job"} =>
          /\ w.used + w.remaining = Limit - (Len(w.response.blocks) - 1)
          /\ w.index > Len(w.response.blocks) => w.remaining >= 0
    /\ pc[c] \in {"wait", "job"} => w.budget \in 1..w.remaining /\ w.target >= 1

CallsInv ==
    /\ pc \in [Calls -> Where]
    /\ running \in Calls \cup {NoCall}
    /\ work \in [Calls -> Work]
    /\ \A c \in Calls : WorkFits(c)

\* The places taken are those of the jobs, and each call that waits does so once.
PlacesInv ==
    /\ IsFiniteSet({c \in Calls : pc[c] = "job"})
    /\ activeJobs = Cardinality({c \in Calls : pc[c] = "job"})
    /\ activeJobs <= MaxJobs
    /\ waiters \in Seq(Calls)
    /\ waiters # << >> => activeJobs = MaxJobs
    /\ \A i \in 1..Len(waiters) : pc[waiters[i]] = "wait"
    /\ \A i, j \in 1..Len(waiters) : i # j => waiters[i] # waiters[j]
    /\ \A c \in Calls : pc[c] = "wait" => \E i \in 1..Len(waiters) : waiters[i] = c

StoresInv ==
    /\ cache \in [Toolsets -> Seq(OriginalEntry)]
    /\ bytes \in [Toolsets -> Int]
    /\ closed \in [Toolsets -> BOOLEAN]
    /\ \A t \in Toolsets :
          /\ bytes[t] = TotalBytes(cache[t])
          /\ bytes[t] <= MaxOriginalBytes
          /\ Len(cache[t]) <= MaxOriginals
          /\ closed[t] => cache[t] = << >> /\ bytes[t] = 0

HostInv == CallsInv /\ PlacesInv /\ StoresInv

\* Nobody's place changes as long as nobody comes to a job or to waiting, or leaves.
LEMMA PlacesUntouched ==
    ASSUME PlacesInv, UNCHANGED jobs,
           \A c \in Calls : pc[c] \in {"job", "wait"} \/ pc'[c] \in {"job", "wait"}
                              => pc'[c] = pc[c]
    PROVE  PlacesInv'
<1>1. {c \in Calls : pc'[c] = "job"} = {c \in Calls : pc[c] = "job"}
  OBVIOUS
<1>2. \A i \in 1..Len(waiters) : waiters[i] \in Calls
  BY DEF PlacesInv
<1>. QED
  BY <1>1, <1>2 DEF PlacesInv, jobs

\* A call that leaves its place gives it back or hands it to the first who waits.
LEMMA PlaceIsLeft ==
    ASSUME CallsInv, PlacesInv, NEW c \in Calls, pc[c] = "job",
           NEW there \in {"divide", "failed"}, LeavePlace(c, there)
    PROVE  /\ PlacesInv'
           /\ pc' \in [Calls -> Where] /\ pc'[c] = there
           /\ \A d \in Calls \ {c} : pc'[d] = pc[d] \/ (pc[d] = "wait" /\ pc'[d] = "job")
<1> DEFINE J == {d \in Calls : pc[d] = "job"}
<1>1. /\ pc \in [Calls -> Where] /\ there \in Where /\ "job" \in Where
      /\ IsFiniteSet(J) /\ activeJobs = Cardinality(J) /\ activeJobs <= MaxJobs
      /\ waiters \in Seq(Calls)
      /\ waiters # << >> => activeJobs = MaxJobs
      /\ \A i \in 1..Len(waiters) : pc[waiters[i]] = "wait"
      /\ \A i, j \in 1..Len(waiters) : i # j => waiters[i] # waiters[j]
      /\ \A d \in Calls : pc[d] = "wait" => \E i \in 1..Len(waiters) : waiters[i] = d
  BY DEF CallsInv, PlacesInv, Where
<1>2. c \in J
  OBVIOUS
<1>3. IsFiniteSet(J \ {c}) /\ Cardinality(J \ {c}) = activeJobs - 1 /\ activeJobs \in Nat
  <2> HIDE DEF J
  <2>. QED
    BY <1>1, <1>2, FS_RemoveElement, FS_CardinalityType
<1>4. MaxJobs \in Nat \ {0}
  BY ShrinkfitAssumption
<1>5. CASE waiters = << >>
  <2>1. activeJobs' = activeJobs - 1 /\ pc' = [pc EXCEPT ![c] = there] /\ waiters' = waiters
    BY <1>5 DEF LeavePlace, Goto
  <2>2. {d \in Calls : pc'[d] = "job"} = J \ {c}
    BY <1>1, <2>1
  <2>3. \A d \in Calls : pc'[d] = "wait" => pc[d] = "wait"
    BY <1>1, <2>1
  <2>4. Len(waiters) = 0 /\ 1..0 = {}
    BY <1>5
  <2>5. PlacesInv'
    <3> HIDE DEF J
    <3>1. /\ IsFiniteSet({d \in Calls : pc'[d] = "job"})
          /\ activeJobs' = Cardinality({d \in Calls : pc'[d] = "job"})
      BY <1>3, <2>1, <2>2
    <3>2. activeJobs' <= MaxJobs /\ waiters' = << >> /\ << >> \in Seq(Calls)
      BY <1>1, <1>3, <1>4, <1>5, <2>1
    <3>3. \A d \in Calls : pc'[d] # "wait"
      BY <1>1, <1>5, <2>3, <2>4
    <3>. QED
      BY <1>5, <2>4, <3>1, <3>2, <3>3 DEF PlacesInv
  <2>. QED
    BY <1>1, <2>1, <2>5
<1>6. CASE waiters # << >>
  <2> DEFINE h == Head(waiters)
             n == Len(waiters)
  <2>1. /\ waiters' = Tail(waiters) /\ pc' = [pc EXCEPT ![c] = there, ![h] = "job"]
        /\ activeJobs' = activeJobs
    BY <1>6 DEF LeavePlace
  <2>2. /\ n \in Nat \ {0} /\ n = Len(waiters) /\ h = waiters[1] /\ h \in Calls /\ pc[h] = "wait"
        /\ 1 \in 1..n
        /\ waiters' \in Seq(Calls) /\ Len(waiters') = n - 1
        /\ \A i \in 1..(n - 1) : waiters'[i] = waiters[i + 1]
    <3>1. Len(waiters) \in Nat /\ Len(waiters) # 0
      BY <1>1, <1>6, EmptySeq
    <3>. QED
      BY <1>1, <1>6, <2>1, <3>1, HeadTailProperties
  <2>3. h # c
    BY <2>2
  <2> HIDE DEF h, n
  <2>4. \A d \in Calls : pc'[d] = IF d = h THEN "job" ELSE IF d = c THEN there ELSE pc[d]
    BY <1>1, <2>1, <2>2, <2>3
  <2>5. {d \in Calls : pc'[d] = "job"} = (J \ {c}) \cup {h}
    BY <2>2, <2>3, <2>4
  <2>6. /\ IsFiniteSet({d \in Calls : pc'[d] = "job"})
        /\ Cardinality({d \in Calls : pc'[d] = "job"}) = activeJobs
    <3>1. h \notin J \ {c}
      BY <2>2
    <3> DEFINE K == J \ {c}
    <3>2. IsFiniteSet(K) /\ Cardinality(K) = activeJobs - 1 /\ activeJobs \in Nat /\ h \notin K
      BY <1>3, <3>1
    <3> HIDE DEF K
    <3>3. IsFiniteSet(K \cup {h}) /\ Cardinality(K \cup {h}) = (activeJobs - 1) + 1
      BY <3>2, FS_AddElement
    <3> HIDE DEF J
    <3>. QED
      BY <2>5, <3>2, <3>3 DEF K
  <2>7. \A i \in 1..(n - 1) : i + 1 \in 1..n /\ i + 1 # 1
    BY <2>2
  <2>8. \A i \in 1..(n - 1) : waiters'[i] \in Calls /\ pc'[waiters'[i]] = "wait"
    <3> TAKE i \in 1..(n - 1)
    <3>1. waiters'[i] = waiters[i + 1] /\ i + 1 \in 1..n /\ waiters[i + 1] # h
      BY <1>1, <2>2, <2>7
    <3>2. waiters[i + 1] \in Calls /\ pc[waiters[i + 1]] = "wait"
      BY <1>1, <2>2, <3>1
    <3>. QED
      BY <2>4, <3>1, <3>2
  <2>9. \A i, j \in 1..(n - 1) : i # j => waiters'[i] # waiters'[j]
    BY <1>1, <2>2, <2>7
  <2>10. ASSUME NEW d \in Calls, pc'[d] = "wait" PROVE \E i \in 1..(n - 1) : waiters'[i] = d
    <3>1. pc[d] = "wait" /\ d # h
      BY <2>4, <2>10
    <3>2. PICK i \in 1..n : waiters[i] = d
      BY <1>1, <2>2, <3>1
    <3>3. i - 1 \in 1..(n - 1) /\ (i - 1) + 1 = i
      BY <2>2, <3>1, <3>2
    <3>. QED
      BY <2>2, <3>2, <3>3
  <2>11. PlacesInv'
    BY <1>1, <1>4, <1>6, <2>1, <2>2, <2>6, <2>8, <2>9, <2>10 DEF PlacesInv
  <2>12. pc' \in [Calls -> Where]
    BY <1>1, <2>1
  <2>. QED
    BY <2>2, <2>3, <2>4, <2>11, <2>12
<1>. QED
  BY <1>5, <1>6

\* A call that has to condense takes a free place, or waits as the last.
LEMMA PlaceIsTaken ==
    ASSUME CallsInv, PlacesInv, NEW c \in Calls, BlockShrinks(c)
    PROVE  PlacesInv'
<1> DEFINE J == {d \in Calls : pc[d] = "job"}
           n == Len(waiters)
<1>1. /\ pc \in [Calls -> Where] /\ pc[c] = "divide"
      /\ IsFiniteSet(J) /\ activeJobs = Cardinality(J) /\ activeJobs <= MaxJobs
      /\ waiters \in Seq(Calls) /\ n \in Nat /\ n = Len(waiters)
      /\ waiters # << >> => activeJobs = MaxJobs
      /\ \A i \in 1..n : pc[waiters[i]] = "wait"
      /\ \A i, j \in 1..n : i # j => waiters[i] # waiters[j]
      /\ \A d \in Calls : pc[d] = "wait" => \E i \in 1..n : waiters[i] = d
  BY DEF CallsInv, PlacesInv, BlockShrinks, Dividing, At
<1>2. activeJobs \in Nat /\ MaxJobs \in Nat /\ c \notin J
  BY <1>1, FS_CardinalityType, ShrinkfitAssumption
<1>3. CASE activeJobs >= MaxJobs
  <2>1. /\ pc' = [pc EXCEPT ![c] = "wait"] /\ waiters' = Append(waiters, c)
        /\ activeJobs' = activeJobs /\ activeJobs = MaxJobs
    BY <1>1, <1>2, <1>3 DEF BlockShrinks, Goto
  <2>2. \A d \in Calls : pc'[d] = IF d = c THEN "wait" ELSE pc[d]
    BY <1>1, <2>1
  <2>3. {d \in Calls : pc'[d] = "job"} = J
    BY <1>1, <2>2
  <2>4. /\ waiters' \in Seq(Calls) /\ Len(waiters') = n + 1 /\ waiters'[n + 1] = c
        /\ \A i \in 1..n : waiters'[i] = waiters[i] /\ waiters[i] \in Calls /\ waiters[i] # c
    BY <1>1, <2>1, AppendProperties
  <2> HIDE DEF n, J
  <2>5. \A i \in 1..(n + 1) : i \in 1..n \/ i = n + 1
    BY <1>1
  <2>6. n + 1 \in 1..(n + 1) /\ \A i \in 1..n : i \in 1..(n + 1) /\ i # n + 1
    BY <1>1
  <2>7. ASSUME NEW i \in 1..(n + 1) PROVE waiters'[i] \in Calls /\ pc'[waiters'[i]] = "wait"
    BY <1>1, <2>2, <2>4, <2>5
  <2>8. ASSUME NEW i \in 1..(n + 1), NEW j \in 1..(n + 1), i # j
        PROVE  waiters'[i] # waiters'[j]
    BY <1>1, <2>4, <2>5, <2>8
  <2>9. ASSUME NEW d \in Calls, pc'[d] = "wait" PROVE \E i \in 1..(n + 1) : waiters'[i] = d
    BY <1>1, <2>2, <2>4, <2>6, <2>9
  <2>. QED
    <3>1. /\ IsFiniteSet({d \in Calls : pc'[d] = "job"})
          /\ activeJobs' = Cardinality({d \in Calls : pc'[d] = "job"})
          /\ activeJobs' <= MaxJobs /\ activeJobs' = MaxJobs
      BY <1>1, <2>1, <2>3
    <3>. QED
      BY <2>4, <2>7, <2>8, <2>9, <3>1 DEF PlacesInv
<1>4. CASE ~(activeJobs >= MaxJobs)
  <2>1. /\ pc' = [pc EXCEPT ![c] = "job"] /\ waiters' = waiters
        /\ activeJobs' = activeJobs + 1 /\ activeJobs < MaxJobs
    BY <1>2, <1>4 DEF BlockShrinks, Goto
  <2>2. {d \in Calls : pc'[d] = "job"} = J \cup {c}
    BY <1>1, <2>1
  <2>3. IsFiniteSet(J \cup {c}) /\ Cardinality(J \cup {c}) = activeJobs + 1
    <3> HIDE DEF J
    <3>. QED
      BY <1>1, <1>2, FS_AddElement
  <2>4. waiters = << >> /\ Len(waiters) = 0 /\ 1..0 = {}
    BY <1>1, <1>2, <2>1
  <2>5. \A d \in Calls : pc'[d] # "wait"
    BY <1>1, <2>1, <2>4
  <2> HIDE DEF J
  <2>6. activeJobs' <= MaxJobs /\ waiters' = << >> /\ << >> \in Seq(Calls)
    BY <1>2, <2>1, <2>4
  <2>. QED
    BY <2>1, <2>2, <2>3, <2>4, <2>5, <2>6 DEF PlacesInv
<1>. QED
  BY <1>3, <1>4

-----------------------------------------------------------------------------
(* The host's calls: what is divided never exceeds the limit *)

\* A share of at least 1 is no more than there is.
LEMMA ShareIsPart ==
    ASSUME NEW r \in Int, NEW k \in Nat \ {0}, r \div k >= 1
    PROVE  r \div k \in Nat /\ r \div k <= r
  OBVIOUS

\* The next size of a round is a smaller number of characters, at least 1.
LEMMA SmallerIsSmaller ==
    ASSUME NEW of \in Nat, of > 1, NEW length \in Nat \ {0}, NEW allowed \in Nat
    PROVE  Smaller(of, length, allowed) \in 1..(of - 1)
<1>1. of * allowed \in Nat
  OBVIOUS
<1>2. (of * allowed) \div length \in Int
  BY <1>1
<1>3. Slack \in Nat
  BY ShrinkfitAssumption
<1>. QED
  BY <1>2, <1>3 DEF Smaller
LEMMA NothingIsWork ==
    /\ Nothing \in Work
    /\ Nothing.index = 1 /\ Nothing.used = 0 /\ Nothing.budget = 0 /\ Nothing.target = 0
<1>1. << >> \in Seq(Nat)
  OBVIOUS
<1>. QED
  BY <1>1 DEF Nothing, Work, Response

\* The fields of what a call has in hand.
LEMMA WorkFields ==
    ASSUME NEW w \in Work
    PROVE  /\ w.response \in Response /\ w.response.blocks \in Seq(Nat)
           /\ Len(w.response.blocks) \in Nat
           /\ w.index \in Nat \ {0} /\ w.index \in Nat /\ w.index >= 1
           /\ w.remaining \in Int /\ w.used \in Nat
           /\ w.budget \in Nat /\ w.target \in Nat /\ w.rounds \in Nat
<1>1. w.response \in Response /\ w.index \in Nat \ {0} /\ w.remaining \in Int /\ w.used \in Nat
      /\ w.budget \in Nat /\ w.target \in Nat /\ w.rounds \in Nat
  BY DEF Work
<1>2. w.response.blocks \in Seq(Nat)
  BY <1>1 DEF Response
<1>. QED
  BY <1>1, <1>2

\* A step of one call leaves the others what they have.
LEMMA CallMoves ==
    ASSUME CallsInv, NEW c \in Calls, pc' \in [Calls -> Where], running' \in Calls \cup {NoCall},
           work' \in [Calls -> Work], WorkFits(c)',
           \A d \in Calls \ {c} : /\ work'[d] = work[d]
                                  /\ pc'[d] = pc[d] \/ (pc[d] = "wait" /\ pc'[d] = "job")
    PROVE  CallsInv'
<1>1. ASSUME NEW d \in Calls, d # c PROVE WorkFits(d)'
  <2>1. WorkFits(d)
    BY DEF CallsInv
  <2>. QED
    BY <1>1, <2>1 DEF WorkFits
<1>. QED
  BY <1>1 DEF CallsInv

\* A call that is over, or has just begun, has nothing in hand that must fit.
LEMMA CallIsOver ==
    ASSUME CallsInv, NEW c \in Calls, NEW there \in {"failed", "original", "preview"},
           pc' \in [Calls -> Where], pc'[c] = there, running' \in Calls \cup {NoCall},
           \/ work' = work
           \/ LetGo(c),
           \A d \in Calls \ {c} : pc'[d] = pc[d] \/ (pc[d] = "wait" /\ pc'[d] = "job")
    PROVE  CallsInv'
<1>1. work \in [Calls -> Work]
  BY DEF CallsInv
<1>2. work' \in [Calls -> Work] /\ \A d \in Calls \ {c} : work'[d] = work[d]
  BY <1>1, NothingIsWork DEF LetGo
<1>3. WorkFits(c)'
  BY DEF WorkFits
<1>. QED
  BY <1>2, <1>3, CallMoves

LEMMA InvokeFits ==
    ASSUME CallsInv, NEW c \in Calls, Invoke(c)
    PROVE  CallsInv'
<1>1. /\ pc \in [Calls -> Where] /\ pc' = [pc EXCEPT ![c] = "executing"] /\ pc[c] = "idle"
      /\ work' = work /\ running' = running /\ work \in [Calls -> Work]
      /\ running \in Calls \cup {NoCall} /\ WorkFits(c)
  BY DEF CallsInv, Invoke, At, Goto
<1>2. pc' \in [Calls -> Where] /\ pc'[c] = "executing" /\ \A d \in Calls \ {c} : pc'[d] = pc[d]
  BY <1>1 DEF Where
<1>3. WorkFits(c)'
  BY <1>1, <1>2 DEF WorkFits
<1>. QED
  BY <1>1, <1>2, <1>3, CallMoves

LEMMA AnswerFits ==
    ASSUME CallsInv, NEW c \in Calls, NEW r \in Responses, AnswerIsTooLong(c, r)
    PROVE  CallsInv'
<1>1. /\ pc \in [Calls -> Where] /\ pc' = [pc EXCEPT ![c] = "divide"] /\ pc[c] = "executing"
      /\ work' = [work EXCEPT ![c].response = r, ![c].remaining = Limit - (Len(r.blocks) - 1)]
      /\ running' = c /\ work \in [Calls -> Work] /\ WorkFits(c)
  BY DEF CallsInv, AnswerIsTooLong, At, Goto
<1>2. pc' \in [Calls -> Where] /\ pc'[c] = "divide" /\ \A d \in Calls \ {c} : pc'[d] = pc[d]
  BY <1>1 DEF Where
<1>3. r \in Response /\ r.blocks \in Seq(Nat) /\ Len(r.blocks) \in Nat /\ Limit \in Nat \ {0}
  BY ShrinkfitAssumption DEF Response
<1>4. work[c] = Nothing
  BY <1>1 DEF WorkFits
<1>5. work'[c] = [Nothing EXCEPT !.response = r, !.remaining = Limit - (Len(r.blocks) - 1)]
  BY <1>1, <1>4
<1>6. /\ work'[c] \in Work /\ work'[c].used = 0 /\ work'[c].index = 1
      /\ work'[c].response = r /\ work'[c].remaining = Limit - (Len(r.blocks) - 1)
  <2>1. Limit - (Len(r.blocks) - 1) \in Int
    BY <1>3
  <2>. QED
    BY <1>3, <1>5, <2>1, NothingIsWork DEF Work
<1>7. work' \in [Calls -> Work] /\ \A d \in Calls \ {c} : work'[d] = work[d]
  BY <1>1, <1>6
<1>8. WorkFits(c)'
  BY <1>2, <1>3, <1>6 DEF WorkFits
<1>. QED
  BY <1>1, <1>2, <1>7, <1>8, CallMoves
\* A block takes its place: what it takes is no more than there is.
LEMMA PlacedFits ==
    ASSUME NEW c \in Calls, work \in [Calls -> Work],
           work[c].used + work[c].remaining = Limit - (Len(Blocks(c)) - 1),
           NEW length \in Nat, length <= work[c].remaining, Placed(c, length)
    PROVE  /\ work' \in [Calls -> Work] /\ \A d \in Calls \ {c} : work'[d] = work[d]
           /\ pc'[c] = "divide" => WorkFits(c)'
<1> DEFINE w == work[c]
           x == [w EXCEPT !.index = @ + 1, !.used = @ + length, !.remaining = @ - length,
                          !.budget = 0, !.target = 0, !.rounds = 0]
<1>0. w \in Work
  OBVIOUS
<1>1. /\ w \in Work /\ work'[c] = x
      /\ work' = [work EXCEPT ![c] = work'[c]]
  BY <1>0 DEF Placed
<1>2. /\ x.response = w.response /\ x.index = w.index + 1 /\ x.used = w.used + length
      /\ x.remaining = w.remaining - length
      /\ x.budget = 0 /\ x.target = 0 /\ x.rounds = 0
  BY <1>1 DEF Work
<1>4. Len(w.response.blocks) \in Nat /\ Limit \in Nat
  BY <1>1, ShrinkfitAssumption, WorkFields
<1>5. /\ w.used \in Nat /\ w.remaining \in Int /\ w.index \in Nat \ {0}
      /\ w.used + w.remaining = Limit - (Len(w.response.blocks) - 1)
      /\ length <= w.remaining
  BY <1>1, WorkFields DEF Blocks
<1>3. x \in Work
  <2>1. w.index + 1 \in Nat \ {0} /\ w.used + length \in Nat /\ w.remaining - length \in Int
    BY <1>5
  <2>. QED
    BY <1>1, <2>1 DEF Work
<1> HIDE DEF x
<1>6. work'[c] = x /\ work' \in [Calls -> Work] /\ \A d \in Calls \ {c} : work'[d] = work[d]
  BY <1>1, <1>3
<1>7. ASSUME pc'[c] = "divide" PROVE WorkFits(c)'
  <2>1. x.used + x.remaining = Limit - (Len(x.response.blocks) - 1) /\ x.remaining >= 0
    <3> HIDE DEF w
    <3>1. x.used = w.used + length /\ x.remaining = w.remaining - length
      BY <1>2
    <3>2. Len(x.response.blocks) = Len(w.response.blocks)
      BY <1>2
    <3>3. /\ (w.used + length) + (w.remaining - length) = Limit - (Len(w.response.blocks) - 1)
          /\ w.remaining - length >= 0
      <4>1. \A u, l \in Nat, r, g \in Int :
               u + r = g /\ l <= r => (u + l) + (r - l) = g /\ r - l >= 0
        OBVIOUS
      <4>2. Limit - (Len(w.response.blocks) - 1) \in Int
        BY <1>4
      <4>. QED
        BY <1>5, <4>1, <4>2
    <3>. QED
      BY <3>1, <3>2, <3>3
  <2>. QED
    BY <1>6, <1>7, <2>1 DEF WorkFits
<1>. QED
  BY <1>6, <1>7

LEMMA BlockFitsWell ==
    ASSUME CallsInv, NEW c \in Calls, BlockFits(c)
    PROVE  CallsInv'
<1>1. /\ pc \in [Calls -> Where] /\ pc[c] = "divide" /\ pc' = pc
      /\ running \in Calls \cup {NoCall} /\ running' = running
      /\ work \in [Calls -> Work] /\ WorkFits(c)
      /\ work[c].index <= Len(Blocks(c)) /\ Share(c) >= 1
      /\ Blocks(c)[work[c].index] <= Share(c) /\ Placed(c, Blocks(c)[work[c].index])
  BY DEF CallsInv, BlockFits, Dividing, At
<1>2. /\ work[c] \in Work /\ Blocks(c) \in Seq(Nat) /\ Len(Blocks(c)) \in Nat
      /\ work[c].index \in 1..Len(Blocks(c)) /\ work[c].remaining \in Int
  BY <1>1, WorkFields DEF Blocks
<1>3. Share(c) \in Nat /\ Share(c) <= work[c].remaining
  <2> DEFINE k == Len(Blocks(c)) - work[c].index + 1
  <2>1. k \in Nat \ {0}
    BY <1>2, SMTT(60)
  <2>2. Share(c) = work[c].remaining \div k
    BY DEF Share
  <2> HIDE DEF k
  <2>. QED
    BY <1>1, <1>2, <2>1, <2>2, ShareIsPart
<1>4. Blocks(c)[work[c].index] \in Nat /\ Blocks(c)[work[c].index] <= work[c].remaining
  BY <1>1, <1>2, <1>3
<1>5. work[c].used + work[c].remaining = Limit - (Len(Blocks(c)) - 1)
  BY <1>1 DEF WorkFits, Blocks
<1>6. /\ work' \in [Calls -> Work] /\ \A d \in Calls \ {c} : work'[d] = work[d]
      /\ WorkFits(c)'
  BY <1>1, <1>4, <1>5, PlacedFits
<1>. QED
  BY <1>1, <1>6, CallMoves

LEMMA BlockShrinksWell ==
    ASSUME CallsInv, NEW c \in Calls, BlockShrinks(c)
    PROVE  CallsInv'
<1>1. /\ pc \in [Calls -> Where] /\ pc[c] = "divide" /\ running' = NoCall
      /\ work \in [Calls -> Work] /\ WorkFits(c)
      /\ work[c].index <= Len(Blocks(c)) /\ Share(c) >= 1
      /\ work' = [work EXCEPT ![c].budget = Share(c), ![c].target = Share(c)]
  BY DEF CallsInv, BlockShrinks, Dividing, At
<1>2. /\ work[c] \in Work /\ Blocks(c) \in Seq(Nat) /\ Len(Blocks(c)) \in Nat
      /\ work[c].index \in 1..Len(Blocks(c)) /\ work[c].remaining \in Int
  BY <1>1, WorkFields DEF Blocks
<1>3. Share(c) \in Nat /\ Share(c) <= work[c].remaining
  <2> DEFINE k == Len(Blocks(c)) - work[c].index + 1
  <2>1. k \in Nat \ {0}
    BY <1>2, SMTT(60)
  <2>2. Share(c) = work[c].remaining \div k
    BY DEF Share
  <2> HIDE DEF k
  <2>. QED
    BY <1>1, <1>2, <2>1, <2>2, ShareIsPart
<1>4. PICK there \in {"wait", "job"} : pc' = [pc EXCEPT ![c] = there]
  BY DEF BlockShrinks, Goto
<1>5. pc' \in [Calls -> Where] /\ pc'[c] = there /\ \A d \in Calls \ {c} : pc'[d] = pc[d]
  BY <1>1, <1>4 DEF Where
<1>6. work'[c] = [work[c] EXCEPT !.budget = Share(c), !.target = Share(c)]
  BY <1>1
<1>7. /\ work'[c] \in Work /\ work'[c].response = work[c].response
      /\ work'[c].index = work[c].index /\ work'[c].used = work[c].used
      /\ work'[c].remaining = work[c].remaining
      /\ work'[c].budget = Share(c) /\ work'[c].target = Share(c)
  BY <1>2, <1>3, <1>6 DEF Work
<1>8. work' \in [Calls -> Work] /\ \A d \in Calls \ {c} : work'[d] = work[d]
  BY <1>1, <1>7
<1>9. WorkFits(c)'
  <2>1. Share(c) \in 1..work[c].remaining
    BY <1>1, <1>2, <1>3
  <2>2. /\ work[c].used + work[c].remaining = Limit - (Len(work[c].response.blocks) - 1)
        /\ work[c].index > Len(work[c].response.blocks) => work[c].remaining >= 0
    BY <1>1 DEF WorkFits
  <2>. QED
    BY <1>1, <1>5, <1>7, <2>1, <2>2 DEF WorkFits
<1>. QED
  BY <1>1, <1>5, <1>8, <1>9, CallMoves

LEMMA RoundFitsWell ==
    ASSUME CallsInv, PlacesInv, NEW c \in Calls, RoundFits(c)
    PROVE  CallsInv'
<1>1. /\ pc[c] = "job" /\ LeavePlace(c, "divide") /\ running' = c
      /\ work \in [Calls -> Work] /\ WorkFits(c)
  BY DEF CallsInv, RoundFits, At
<1>2. PICK length \in 1..work[c].budget : Placed(c, length)
  BY DEF RoundFits
<1>3. /\ pc' \in [Calls -> Where] /\ pc'[c] = "divide"
      /\ \A d \in Calls \ {c} : pc'[d] = pc[d] \/ (pc[d] = "wait" /\ pc'[d] = "job")
  BY <1>1, PlaceIsLeft
<1>4. work[c] \in Work /\ work[c].budget \in Nat /\ work[c].remaining \in Int
  BY <1>1 DEF Work
<1>5. work[c].budget \in 1..work[c].remaining
      /\ work[c].used + work[c].remaining = Limit - (Len(Blocks(c)) - 1)
  BY <1>1 DEF WorkFits, Blocks
<1>6. length \in Nat /\ length <= work[c].remaining
  BY <1>4, <1>5
<1>7. /\ work' \in [Calls -> Work] /\ \A d \in Calls \ {c} : work'[d] = work[d]
      /\ WorkFits(c)'
  BY <1>1, <1>2, <1>3, <1>5, <1>6, PlacedFits
<1>. QED
  BY <1>1, <1>3, <1>7, CallMoves

LEMMA RoundTooLongFits ==
    ASSUME CallsInv, NEW c \in Calls, RoundTooLong(c)
    PROVE  CallsInv'
<1>1. /\ pc \in [Calls -> Where] /\ pc[c] = "job" /\ pc' = pc /\ running' = running
      /\ running \in Calls \cup {NoCall}
      /\ work \in [Calls -> Work] /\ WorkFits(c) /\ work[c].target > 1
  BY DEF CallsInv, RoundTooLong, At
<1>2. PICK length \in {work[c].budget, work[c].budget + 1, 2 * work[c].budget} :
         work' = [work EXCEPT ![c].target = Smaller(@, length, work[c].budget),
                              ![c].rounds = @ + 1]
  BY DEF RoundTooLong
<1>3. /\ work[c] \in Work /\ work[c].budget \in Nat /\ work[c].budget \in 1..work[c].remaining
      /\ work[c].target \in Nat /\ work[c].rounds \in Nat
  BY <1>1 DEF Work, WorkFits
<1>4. length \in Nat \ {0}
  BY <1>3
<1> DEFINE less == Smaller(work[c].target, length, work[c].budget)
<1>5. less \in 1..(work[c].target - 1) /\ less \in Nat
  <2>1. work[c].target \in Nat /\ work[c].target > 1 /\ work[c].budget \in Nat
    BY <1>1, <1>3
  <2>2. less \in 1..(work[c].target - 1)
    BY <1>4, <2>1, SmallerIsSmaller
  <2>. QED
    BY <2>1, <2>2
<1>6. work'[c] = [work[c] EXCEPT !.target = less, !.rounds = @ + 1]
  BY <1>1, <1>2
<1> HIDE DEF less
<1>7. /\ work'[c] \in Work /\ work'[c].response = work[c].response
      /\ work'[c].index = work[c].index /\ work'[c].used = work[c].used
      /\ work'[c].remaining = work[c].remaining
      /\ work'[c].budget = work[c].budget /\ work'[c].target = less
  <2> DEFINE w == work[c]
             x == [w EXCEPT !.target = less, !.rounds = @ + 1]
  <2>1. w \in Work /\ less \in Nat /\ w.rounds + 1 \in Nat /\ work'[c] = x
    BY <1>3, <1>5, <1>6
  <2> HIDE DEF w
  <2>2. /\ x \in Work /\ x.response = w.response /\ x.index = w.index /\ x.used = w.used
        /\ x.remaining = w.remaining /\ x.budget = w.budget /\ x.target = less
    BY <2>1 DEF Work
  <2> HIDE DEF x
  <2>. QED
    BY <2>1, <2>2 DEF w
<1>8. work' \in [Calls -> Work] /\ \A d \in Calls \ {c} : work'[d] = work[d]
  BY <1>1, <1>2, <1>7
<1>9. WorkFits(c)'
  <2>1. less >= 1 /\ work[c].budget \in 1..work[c].remaining
    BY <1>3, <1>5
  <2>2. /\ work[c].used + work[c].remaining = Limit - (Len(work[c].response.blocks) - 1)
        /\ work[c].index > Len(work[c].response.blocks) => work[c].remaining >= 0
    BY <1>1 DEF WorkFits
  <2>. QED
    BY <1>1, <1>7, <2>1, <2>2 DEF WorkFits
<1>. QED
  BY <1>1, <1>8, <1>9, CallMoves
-----------------------------------------------------------------------------
(* The host's calls: what a toolset keeps *)

LEMMA OriginalsAreSized ==
    /\ \A x \in OriginalEntry : x.bytes \in Nat
    /\ Lifetime \in Nat \ {0} /\ MaxOriginals \in Nat \ {0} /\ MaxOriginalBytes \in Nat \ {0}
  BY ShrinkfitAssumption DEF OriginalEntry

\* What has not expired, as a store and as a number of bytes.
LEMMA LiveIsKept ==
    ASSUME NEW q \in Seq(OriginalEntry)
    PROVE  /\ Live(q) \in Seq(OriginalEntry)
           /\ Len(Live(q)) \in Nat /\ Len(q) \in Nat /\ Len(Live(q)) <= Len(q)
           /\ TotalBytes(Live(q)) \in Nat /\ TotalBytes(q) \in Nat
           /\ TotalBytes(Live(q)) <= TotalBytes(q)
           /\ q = << >> => Live(q) = << >>
<1> DEFINE places == {i \in DOMAIN q : q[i].age < Lifetime}
<1>1. Live(q) = Retained(q, places)
  BY DEF Live, LiveEntries
<1> HIDE DEF places
<1>2. /\ Live(q) \in Seq(OriginalEntry) /\ Len(Live(q)) <= Len(q)
      /\ TotalBytes(Live(q)) <= TotalBytes(q)
  BY <1>1, OriginalsAreSized, RetainedIsThinned
<1>3. Len(Live(q)) \in Nat /\ Len(q) \in Nat /\ TotalBytes(Live(q)) \in Nat /\ TotalBytes(q) \in Nat
  BY <1>2, OriginalsAreSized, TotalIsNat
<1>4. ASSUME q = << >> PROVE Live(q) = << >>
  <2>1. Len(Live(q)) = 0
    BY <1>2, <1>3, <1>4
  <2>. QED
    BY <1>2, <2>1
<1>. QED
  BY <1>2, <1>3, <1>4

LEMMA OlderIsKept ==
    ASSUME NEW q \in Seq(OriginalEntry)
    PROVE  /\ Older(q, Lifetime) \in Seq(OriginalEntry)
           /\ Len(Older(q, Lifetime)) = Len(q)
           /\ TotalBytes(Older(q, Lifetime)) = TotalBytes(q)
           /\ q = << >> => Older(q, Lifetime) = << >>
<1> DEFINE n == Len(q)
           r == Older(q, Lifetime)
<1>1. n \in Nat /\ DOMAIN q = 1..n /\ \A i \in 1..n : q[i] \in OriginalEntry
  OBVIOUS
<1>2. r = [i \in 1..n |-> [q[i] EXCEPT !.age = IF @ < Lifetime THEN @ + 1 ELSE @]]
  BY <1>1 DEF Older
<1>3. ASSUME NEW i \in 1..n
      PROVE  r[i] \in OriginalEntry /\ r[i].bytes = q[i].bytes
  <2>1. q[i] \in OriginalEntry /\ q[i].age \in 0..Lifetime /\ Lifetime \in Nat
    BY <1>1, OriginalsAreSized DEF OriginalEntry
  <2>2. r[i] = [q[i] EXCEPT !.age = IF q[i].age < Lifetime THEN q[i].age + 1 ELSE q[i].age]
    BY <1>2
  <2> DEFINE age == IF q[i].age < Lifetime THEN q[i].age + 1 ELSE q[i].age
  <2>3. age \in 0..Lifetime
    BY <2>1
  <2>4. r[i] = [q[i] EXCEPT !.age = age]
    BY <2>2
  <2> HIDE DEF age, r
  <2>. QED
    BY <2>1, <2>3, <2>4 DEF OriginalEntry
<1>4. n = Len(q) /\ r = Older(q, Lifetime)
  OBVIOUS
<1>5. r \in Seq(OriginalEntry) /\ Len(r) = n
  <2> HIDE DEF r
  <2>1. r \in [1..n -> OriginalEntry]
    BY <1>2, <1>3
  <2>. QED
    BY <1>1, <2>1
<1> HIDE DEF n, r
<1>6. TotalBytes(r) = TotalBytes(q)
  <2>1. Len(q) \in Nat /\ Len(r) = Len(q)
    BY <1>1, <1>4, <1>5
  <2>2. \A i \in 1..Len(q) : q[i].bytes \in Nat /\ r[i].bytes = q[i].bytes
    BY <1>1, <1>3, <1>4, OriginalsAreSized
  <2>. QED
    BY <2>1, <2>2, TotalSame
<1>7. ASSUME q = << >> PROVE r = << >>
  BY <1>4, <1>5, <1>7
<1>. QED
  BY <1>4, <1>5, <1>6, <1>7

\* The original of a call enters its toolset's store: within both limits, counted
\* exactly, and there to be recovered.
LEMMA KeepIsExact ==
    ASSUME StoresInv, NEW c \in Calls, work[c] \in Work, NEW t \in Toolsets,
           work[c].response.bytes <= MaxOriginalBytes, Keep(c, t)
    PROVE  /\ cache' \in [Toolsets -> Seq(OriginalEntry)] /\ bytes' \in [Toolsets -> Int]
           /\ \A u \in Toolsets \ {t} : cache'[u] = cache[u] /\ bytes'[u] = bytes[u]
           /\ bytes'[t] = TotalBytes(cache'[t]) /\ bytes'[t] <= MaxOriginalBytes
           /\ Len(cache'[t]) <= MaxOriginals
           /\ \E i \in DOMAIN cache'[t] : cache'[t][i].id = c /\ cache'[t][i].age < Lifetime
<1> DEFINE live == Live(cache[t])
           size == work[c].response.bytes
           kept == Evicted(live, size)
           e == Entry(c)
           q == Append(kept, e)
<1>1. /\ cache \in [Toolsets -> Seq(OriginalEntry)] /\ bytes \in [Toolsets -> Int]
      /\ bytes[t] = TotalBytes(cache[t])
      /\ cache' = [cache EXCEPT ![t] = q]
      /\ bytes' = [bytes EXCEPT ![t] = Counted(t, kept) + size]
  BY DEF StoresInv, Keep
<1>2. size \in Nat \ {0} /\ size \in Nat
  BY WorkFields DEF Response
<1>3. e \in OriginalEntry /\ e.bytes = size /\ e.id = c /\ e.age = 0
  BY <1>2, OriginalsAreSized DEF Entry, OriginalEntry
<1>4. live \in Seq(OriginalEntry)
  BY <1>1, LiveIsKept
<1>5. size <= MaxOriginalBytes
  OBVIOUS
<1>6. kept = EvictedFor(live, size, MaxOriginals, MaxOriginalBytes)
  BY DEF Evicted
<1> HIDE DEF live, size, kept, e
<1>7. kept \in Seq(OriginalEntry) /\ HasRoom(kept, size, MaxOriginals, MaxOriginalBytes)
  <2>1. MaxOriginals \in Nat \ {0} /\ MaxOriginalBytes \in Nat
    BY OriginalsAreSized
  <2>2. /\ kept \in Seq(OriginalEntry)
        /\ \E n \in 0..Len(live) : RoomMade(kept, live, n, size, MaxOriginals, MaxOriginalBytes)
    BY <1>2, <1>4, <1>5, <1>6, <2>1, OriginalsAreSized, EvictedHasRoom
  <2>. QED
    BY <2>2 DEF RoomMade
<1>8. /\ q \in Seq(OriginalEntry) /\ Len(q) = Len(kept) + 1 /\ q[Len(kept) + 1] = e
      /\ TotalBytes(q) = TotalBytes(kept) + size
      /\ Len(kept) \in Nat /\ TotalBytes(kept) \in Nat /\ TotalBytes(cache[t]) \in Nat
  BY <1>1, <1>3, <1>7, AppendProperties, TotalAppend, TotalIsNat, OriginalsAreSized
<1>9. Counted(t, kept) = TotalBytes(kept)
  BY <1>1, <1>8 DEF Counted
<1> HIDE DEF q
<1>10. cache'[t] = q /\ bytes'[t] = TotalBytes(q)
  BY <1>1, <1>8, <1>9
<1>11. Len(q) <= MaxOriginals /\ TotalBytes(q) <= MaxOriginalBytes
  BY <1>2, <1>7, <1>8, OriginalsAreSized DEF HasRoom
<1>12. \E i \in DOMAIN q : q[i].id = c /\ q[i].age < Lifetime
  <2>1. Len(kept) + 1 \in DOMAIN q
    BY <1>8
  <2>2. q[Len(kept) + 1].id = c /\ q[Len(kept) + 1].age < Lifetime
    BY <1>3, <1>8, OriginalsAreSized
  <2>. QED
    BY <2>1, <2>2
<1>13. TotalBytes(q) \in Int
  BY <1>2, <1>8
<1>. QED
  BY <1>1, <1>8, <1>9, <1>10, <1>11, <1>12, <1>13
-----------------------------------------------------------------------------
(* The host's calls: the invariant *)

\* A call that ends without a place at a job.
LEMMA CallEnds ==
    ASSUME CallsInv, PlacesInv, NEW c \in Calls, NEW there \in {"failed", "original", "preview"},
           pc[c] \in {"idle", "executing", "divide"}, Goto(c, there), UNCHANGED jobs,
           running' \in Calls \cup {NoCall},
           \/ work' = work
           \/ LetGo(c)
    PROVE  CallsInv' /\ PlacesInv'
<1>1. /\ pc \in [Calls -> Where] /\ pc' = [pc EXCEPT ![c] = there]
  BY DEF CallsInv, Goto
<1>2. pc' \in [Calls -> Where] /\ pc'[c] = there /\ \A d \in Calls \ {c} : pc'[d] = pc[d]
  BY <1>1 DEF Where
<1>3. CallsInv'
  BY <1>2, CallIsOver
<1>4. \A d \in Calls : pc[d] \in {"job", "wait"} \/ pc'[d] \in {"job", "wait"} => pc'[d] = pc[d]
  BY <1>2
<1>. QED
  BY <1>3, <1>4, PlacesUntouched

\* A step of a call from one wait of its own to the next, jobs apart.
LEMMA PlacesOfOthers ==
    ASSUME CallsInv, PlacesInv, NEW c \in Calls, NEW there \in {"executing", "divide"},
           pc[c] \in {"idle", "executing", "divide"}, Goto(c, there), UNCHANGED jobs
    PROVE  PlacesInv'
<1>1. /\ pc \in [Calls -> Where] /\ pc' = [pc EXCEPT ![c] = there]
  BY DEF CallsInv, Goto
<1>2. \A d \in Calls : pc[d] \in {"job", "wait"} \/ pc'[d] \in {"job", "wait"} => pc'[d] = pc[d]
  BY <1>1
<1>. QED
  BY <1>2, PlacesUntouched

\* What an execution does to the calls and the places.
LEMMA ExecuteKeeps ==
    ASSUME CallsInv, PlacesInv, NEW c \in Calls, Execute(c)
    PROVE  CallsInv' /\ PlacesInv'
<1>0. running \in Calls \cup {NoCall}
  BY DEF CallsInv
<1>1. CASE Refuse(c)
  BY <1>0, <1>1, CallEnds DEF Refuse, At
<1>2. CASE Invoke(c)
  BY <1>2, InvokeFits, PlacesOfOthers DEF Invoke, At
<1>3. CASE ToolFails(c)
  BY <1>0, <1>3, CallEnds DEF ToolFails, At
<1>4. ASSUME NEW r \in Responses, AnswerPassesOn(c, r) PROVE CallsInv' /\ PlacesInv'
  BY <1>0, <1>4, CallEnds DEF AnswerPassesOn, At
<1>5. ASSUME NEW r \in Responses, AnswerIsTooLong(c, r) PROVE CallsInv' /\ PlacesInv'
  BY <1>5, AnswerFits, PlacesOfOthers DEF AnswerIsTooLong, At
<1>6. CASE BlockFits(c)
  <2>1. UNCHANGED jobs /\ pc' = pc
    BY <1>6 DEF BlockFits
  <2>. QED
    BY <1>6, <2>1, BlockFitsWell, PlacesUntouched
<1>7. CASE BudgetTooSmall(c)
  BY <1>7, CallEnds DEF BudgetTooSmall, Dividing, At
<1>8. CASE BlockShrinks(c)
  BY <1>8, BlockShrinksWell, PlaceIsTaken
<1>9. CASE Returns(c)
  BY <1>9, CallEnds DEF Returns, AllPlaced, At
<1>10. CASE CannotKeep(c)
  BY <1>10, CallEnds DEF CannotKeep, AllPlaced, At
<1>. QED
  BY <1>1, <1>2, <1>3, <1>4, <1>5, <1>6, <1>7, <1>8, <1>9, <1>10 DEF Execute

LEMMA JobKeeps ==
    ASSUME CallsInv, PlacesInv, NEW c \in Calls, Job(c)
    PROVE  CallsInv' /\ PlacesInv'
<1>1. CASE RoundFits(c)
  <2>1. pc[c] = "job" /\ LeavePlace(c, "divide")
    BY <1>1 DEF RoundFits, At
  <2>. QED
    BY <1>1, <2>1, RoundFitsWell, PlaceIsLeft
<1>2. CASE RoundTooLong(c)
  <2>1. UNCHANGED jobs /\ pc' = pc
    BY <1>2 DEF RoundTooLong
  <2>. QED
    BY <1>2, <2>1, RoundTooLongFits, PlacesUntouched
<1>3. CASE JobFails(c)
  <2>1. pc[c] = "job" /\ LeavePlace(c, "failed") /\ LetGo(c) /\ running' = running
    BY <1>3 DEF JobFails, At
  <2>2. /\ PlacesInv'
        /\ pc' \in [Calls -> Where] /\ pc'[c] = "failed"
        /\ \A d \in Calls \ {c} : pc'[d] = pc[d] \/ (pc[d] = "wait" /\ pc'[d] = "job")
    BY <2>1, PlaceIsLeft
  <2>3. running' \in Calls \cup {NoCall}
    BY <2>1 DEF CallsInv
  <2>. QED
    BY <2>1, <2>2, <2>3, CallIsOver
<1>. QED
  BY <1>1, <1>2, <1>3 DEF Job

\* What every step does to the stores.
LEMMA StoresUntouched == StoresInv /\ UNCHANGED stores => StoresInv'
  BY DEF StoresInv, stores

LEMMA ReturnsKeeps ==
    ASSUME CallsInv, StoresInv, NEW c \in Calls, Returns(c)
    PROVE  StoresInv' /\ Recoverable(c)'
<1> DEFINE t == ToolsetOf[c]
<1>1. t \in Toolsets /\ ~closed[t] /\ closed' = closed /\ work[c] \in Work
  BY ShrinkfitAssumption DEF Returns, Keepable, CallsInv
<1>2. work[c].response.bytes <= MaxOriginalBytes /\ Keep(c, t)
  BY DEF Returns, Keepable
<1>0. t = ToolsetOf[c]
  OBVIOUS
<1> HIDE DEF t
<1>3. /\ cache' \in [Toolsets -> Seq(OriginalEntry)] /\ bytes' \in [Toolsets -> Int]
      /\ \A u \in Toolsets \ {t} : cache'[u] = cache[u] /\ bytes'[u] = bytes[u]
      /\ bytes'[t] = TotalBytes(cache'[t]) /\ bytes'[t] <= MaxOriginalBytes
      /\ Len(cache'[t]) <= MaxOriginals
      /\ \E i \in DOMAIN cache'[t] : cache'[t][i].id = c /\ cache'[t][i].age < Lifetime
  BY <1>1, <1>2, KeepIsExact
<1>4. StoresInv'
  BY <1>1, <1>3 DEF StoresInv
<1>. QED
  BY <1>0, <1>1, <1>3, <1>4 DEF Recoverable

LEMMA RecoverKeeps ==
    ASSUME StoresInv, NEW t \in Toolsets, Recover(t)
    PROVE  StoresInv'
<1>1. /\ cache \in [Toolsets -> Seq(OriginalEntry)] /\ bytes \in [Toolsets -> Int]
      /\ cache' = [cache EXCEPT ![t] = Live(cache[t])]
      /\ bytes' = [bytes EXCEPT ![t] = Counted(t, Live(cache[t]))]
      /\ closed' = closed
      /\ bytes[t] = TotalBytes(cache[t]) /\ bytes[t] <= MaxOriginalBytes
      /\ Len(cache[t]) <= MaxOriginals
      /\ closed[t] => cache[t] = << >> /\ bytes[t] = 0
  BY DEF StoresInv, Recover
<1> DEFINE live == Live(cache[t])
<1>2. /\ live \in Seq(OriginalEntry)
      /\ Len(live) \in Nat /\ Len(cache[t]) \in Nat /\ Len(live) <= Len(cache[t])
      /\ TotalBytes(live) \in Nat /\ TotalBytes(cache[t]) \in Nat
      /\ TotalBytes(live) <= TotalBytes(cache[t])
      /\ cache[t] = << >> => live = << >>
  BY <1>1, LiveIsKept
<1> HIDE DEF live
<1>3. Counted(t, live) = TotalBytes(live)
  BY <1>1, <1>2 DEF Counted
<1>4. /\ cache'[t] = live /\ bytes'[t] = TotalBytes(live)
      /\ cache' \in [Toolsets -> Seq(OriginalEntry)] /\ bytes' \in [Toolsets -> Int]
      /\ \A u \in Toolsets \ {t} : cache'[u] = cache[u] /\ bytes'[u] = bytes[u]
  BY <1>1, <1>2, <1>3 DEF live
<1>5. TotalBytes(live) <= MaxOriginalBytes /\ Len(live) <= MaxOriginals
  BY <1>1, <1>2, OriginalsAreSized
<1>6. closed[t] => live = << >> /\ TotalBytes(live) = 0
  BY <1>1, <1>2, TotalEmpty
<1>. QED
  BY <1>1, <1>4, <1>5, <1>6 DEF StoresInv

LEMMA TickKeeps ==
    ASSUME StoresInv, Tick
    PROVE  StoresInv'
<1>1. /\ cache \in [Toolsets -> Seq(OriginalEntry)] /\ bytes' = bytes /\ closed' = closed
      /\ cache' = [t \in Toolsets |-> Older(cache[t], Lifetime)]
  BY DEF StoresInv, Tick
<1>2. ASSUME NEW t \in Toolsets
      PROVE  /\ cache'[t] \in Seq(OriginalEntry) /\ Len(cache'[t]) = Len(cache[t])
             /\ TotalBytes(cache'[t]) = TotalBytes(cache[t])
             /\ cache[t] = << >> => cache'[t] = << >>
  BY <1>1, OlderIsKept
<1>3. cache' \in [Toolsets -> Seq(OriginalEntry)]
  BY <1>1, <1>2
<1>. QED
  BY <1>1, <1>2, <1>3 DEF StoresInv

LEMMA CloseKeeps ==
    ASSUME StoresInv, NEW t \in Toolsets, Close(t)
    PROVE  StoresInv'
<1>1. << >> \in Seq(OriginalEntry) /\ Len(<< >>) = 0
  OBVIOUS
<1>2. MaxOriginalBytes >= 0 /\ MaxOriginals >= 0
  BY OriginalsAreSized
<1>. QED
  BY <1>1, <1>2, TotalEmpty DEF StoresInv, Close

LEMMA HostStart == Init => HostInv
<1> SUFFICES ASSUME Init PROVE HostInv
  OBVIOUS
<1>1. CallsInv
  BY NothingIsWork DEF Init, CallsInv, WorkFits, Where
<1>2. PlacesInv
  <2>1. {c \in Calls : pc[c] = "job"} = {} /\ Len(<< >>) = 0 /\ 1..0 = {} /\ << >> \in Seq(Calls)
    BY DEF Init
  <2>. QED
    BY <2>1, FS_EmptySet, ShrinkfitAssumption DEF Init, PlacesInv
<1>3. StoresInv
  <2>1. << >> \in Seq(OriginalEntry) /\ Len(<< >>) = 0
    OBVIOUS
  <2>. QED
    BY <2>1, OriginalsAreSized, TotalEmpty DEF Init, StoresInv
<1>. QED
  BY <1>1, <1>2, <1>3 DEF HostInv

LEMMA HostStep == HostInv /\ [Next]_vars => HostInv'
<1> SUFFICES ASSUME HostInv, [Next]_vars PROVE HostInv'
  OBVIOUS
<1>0. CallsInv /\ PlacesInv /\ StoresInv
  BY DEF HostInv
<1>1. ASSUME NEW c \in Calls, Execute(c) PROVE HostInv'
  <2>1. CASE Returns(c)
    BY <1>0, <1>1, <2>1, ExecuteKeeps, ReturnsKeeps DEF HostInv
  <2>2. CASE ~Returns(c)
    <3>1. UNCHANGED stores
      BY <1>1, <2>2 DEF Execute, Refuse, Invoke, ToolFails, AnswerPassesOn, AnswerIsTooLong,
                        BlockFits, BudgetTooSmall, BlockShrinks, CannotKeep
    <3>. QED
      BY <1>0, <1>1, <3>1, ExecuteKeeps, StoresUntouched DEF HostInv
  <2>. QED
    BY <2>1, <2>2
<1>2. ASSUME NEW c \in Calls, Job(c) PROVE HostInv'
  <2>1. UNCHANGED stores
    BY <1>2 DEF Job, RoundFits, RoundTooLong, JobFails
  <2>. QED
    BY <1>0, <1>2, <2>1, JobKeeps, StoresUntouched DEF HostInv
<1>3. ASSUME UNCHANGED <<pc, running, work, jobs>>, StoresInv' PROVE HostInv'
  <2>1. CallsInv'
    BY <1>0, <1>3 DEF CallsInv, WorkFits
  <2>2. PlacesInv'
    BY <1>0, <1>3, PlacesUntouched
  <2>. QED
    BY <1>3, <2>1, <2>2 DEF HostInv
<1>4. ASSUME NEW t \in Toolsets, Recover(t) PROVE HostInv'
  BY <1>0, <1>3, <1>4, RecoverKeeps DEF Recover
<1>5. ASSUME NEW t \in Toolsets, Close(t) PROVE HostInv'
  BY <1>0, <1>3, <1>5, CloseKeeps DEF Close
<1>6. CASE Tick
  BY <1>0, <1>3, <1>6, TickKeeps DEF Tick
<1>7. CASE UNCHANGED vars
  BY <1>0, <1>3, <1>7, StoresUntouched DEF vars
<1>. QED
  BY <1>1, <1>2, <1>4, <1>5, <1>6, <1>7 DEF Next

-----------------------------------------------------------------------------
(* The host's calls: what follows *)

\* Each variable has its type, and the invariant holds, in every behaviour.
THEOREM HostIsTyped == Spec => []TypeOK
<1>1. HostInv => TypeOK
  <2> SUFFICES ASSUME HostInv PROVE TypeOK
    OBVIOUS
  <2>1. activeJobs \in Int
    BY FS_CardinalityType DEF HostInv, PlacesInv
  <2>. QED
    BY <2>1 DEF HostInv, CallsInv, PlacesInv, StoresInv, TypeOK, Where, OriginalEntry
<1>. QED
  BY <1>1, HostStart, HostStep, PTL DEF Spec

\* Whatever the answers' blocks and whatever the shrinking makes of them, a preview with
\* its line breaks is within the limit of the option.
THEOREM PreviewsStayWithinLimit == Spec => []WithinLimit
<1>1. HostInv => WithinLimit
  <2> SUFFICES ASSUME HostInv, NEW c \in Calls, AllPlaced(c)
               PROVE  work[c].used + Len(Blocks(c)) - 1 <= Limit
    BY DEF WithinLimit
  <2>1. work[c] \in Work /\ WorkFits(c) /\ pc[c] = "divide" /\ work[c].index > Len(Blocks(c))
    BY DEF HostInv, CallsInv, AllPlaced, At
  <2>2. /\ work[c].used + work[c].remaining = Limit - (Len(Blocks(c)) - 1)
        /\ work[c].remaining >= 0
    BY <2>1 DEF WorkFits, Blocks
  <2>3. /\ work[c].used \in Nat /\ work[c].remaining \in Int /\ Len(Blocks(c)) \in Nat
        /\ Limit \in Nat
    BY <2>1, WorkFields, ShrinkfitAssumption DEF Blocks
  <2>. QED
    BY <2>2, <2>3
<1>. QED
  BY <1>1, HostStart, HostStep, PTL DEF Spec

\* For any number of calls and places: the places taken are exactly those of the jobs, and
\* nobody waits beside a free one or unheard.
THEOREM PlacesStayHandedOn == Spec => []PlacesAreHandedOn
<1>1. HostInv => PlacesAreHandedOn
  <2> SUFFICES ASSUME HostInv PROVE PlacesAreHandedOn
    OBVIOUS
  <2>1. DOMAIN waiters = 1..Len(waiters) /\ \A i \in 1..Len(waiters) : waiters[i] \in Calls
    BY DEF HostInv, PlacesInv
  <2>2. {waiters[i] : i \in DOMAIN waiters} = {c \in Calls : pc[c] = "wait"}
    BY <2>1 DEF HostInv, PlacesInv
  <2>. QED
    BY <2>2 DEF HostInv, PlacesInv, PlacesAreHandedOn, At
<1>. QED
  BY <1>1, HostStart, HostStep, PTL DEF Spec

\* For any limits, sizes and lifetimes, through expiry, eviction and close: the count of
\* bytes is the size of what is kept, both limits hold, and a closed toolset keeps nothing.
THEOREM StoresStayAddedUp == Spec => []StoresAddUp
<1>1. HostInv => CountIsExact /\ ClosedKeepsNothing
  BY DEF HostInv, StoresInv, CountIsExact, ClosedKeepsNothing
<1>. QED
  BY <1>1, HostIsTyped, HostStart, HostStep, PTL DEF Spec, StoresAddUp

\* A preview is returned only together with the original that it advertises.
THEOREM PreviewsAreRecoverable == Spec => PreviewIsRecoverable
<1> DEFINE Kept == \A c \in Calls : At(c, "divide") /\ At(c, "preview")' => Recoverable(c)'
<1>1. HostInv /\ [Next]_vars => [Kept]_vars
  <2> SUFFICES ASSUME HostInv, Next, NEW c \in Calls, pc[c] = "divide", pc'[c] = "preview"
               PROVE  Recoverable(c)'
    BY DEF At
  <2>0. CallsInv /\ PlacesInv /\ StoresInv /\ pc \in [Calls -> Where]
    BY DEF HostInv, CallsInv
  <2>1. ASSUME NEW d \in Calls, Execute(d) PROVE Returns(c)
    <3>1. ASSUME ~Returns(d) PROVE pc'[c] # "preview"
      BY <2>0, <2>1, <3>1
         DEF Execute, Refuse, Invoke, ToolFails, AnswerPassesOn, AnswerIsTooLong,
             BlockFits, BudgetTooSmall, BlockShrinks, CannotKeep, Goto, At, Dividing
    <3>2. d = c
      BY <2>0, <3>1 DEF Returns, Goto
    <3>. QED
      BY <3>1, <3>2
  <2>2. ASSUME NEW d \in Calls, Job(d) PROVE FALSE
    <3>1. CASE RoundTooLong(d)
      BY <3>1 DEF RoundTooLong
    <3>2. ASSUME NEW there \in {"divide", "failed"}, pc[d] = "job", LeavePlace(d, there)
          PROVE  FALSE
      BY <2>0, <3>2, PlaceIsLeft
    <3>. QED
      BY <2>2, <3>1, <3>2 DEF Job, RoundFits, JobFails, At
  <2>3. ASSUME pc' = pc PROVE FALSE
    BY <2>3
  <2>. QED
    BY <2>0, <2>1, <2>2, <2>3, ReturnsKeeps DEF Next, Recover, Close, Tick
<1>. QED
  BY <1>1, HostStart, HostStep, PTL DEF Spec, PreviewIsRecoverable
=============================================================================
