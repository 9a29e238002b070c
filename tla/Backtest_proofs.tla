--------------------------- MODULE Backtest_proofs ---------------------------
(***************************************************************************)
(* Proofs about Backtest for any stream of ticks, indicators, risk         *)
(* configuration, spread, slippage and commission.                         *)
(*                                                                         *)
(* The first part says what the loops over lists compute; the induction is *)
(* over sets of natural numbers.                                           *)
(***************************************************************************)
EXTENDS Backtest, RiskEngine_proofs, SequenceTheorems, WellFoundedInduction, NaturalsInduction

(* A set of places that a loop does not leave holds all of them.           *)
LEMMA Induction ==
  ASSUME NEW T, 0 \in T, NEW m \in Nat, \A n \in 0..m : n \in T /\ n < m => n + 1 \in T
  PROVE  0..m \subseteq T
  <1> DEFINE Out == (0..m) \ T
  <1>1. SUFFICES ASSUME Out # {} PROVE FALSE
    OBVIOUS
  <1>2. Out \subseteq Nat
    OBVIOUS
  <1>3. PICK x \in Out : \A y \in Out : ~(<<y, x>> \in OpToRel(<, Nat))
    <2> HIDE DEF Out
    <2>1. QED
      BY <1>1, <1>2, WFMin, NatLessThanWellFounded, Zenon
  <1>4. x \in 0..m /\ x # 0 /\ x - 1 \in 0..m /\ x - 1 \in Nat /\ x - 1 < x
    OBVIOUS
  <1>5. x - 1 \notin Out
    BY <1>2, <1>3, <1>4 DEF OpToRel
  <1>6. (x - 1) + 1 \in T
    BY <1>4, <1>5
  <1>7. QED
    BY <1>4, <1>6

-----------------------------------------------------------------------------
(* Sum.                                                                    *)

Summing(seq, f, n) == f = [i \in 0..n |-> IF i = 0 THEN 0 ELSE f[i - 1] + seq[i]]

(* The partial sums exist.                                                 *)
LEMMA SumExists == ASSUME NEW s, NEW n \in Nat PROVE \E f : Summing(s, f, n)
  <1> DEFINE T == {k \in Nat : \E f : Summing(s, f, k)}
  <1>1. Summing(s, [i \in 0..0 |-> 0], 0)
    BY DEF Summing
  <1>2. ASSUME NEW k \in T PROVE k + 1 \in T
    <2>1. PICK f : Summing(s, f, k)
      OBVIOUS
    <2> DEFINE g == [i \in 0..(k + 1) |-> IF i = 0 THEN 0 ELSE f[i - 1] + s[i]]
    <2>2. ASSUME NEW i \in 0..k PROVE g[i] = f[i]
      BY <2>1 DEF Summing
    <2>3. ASSUME NEW i \in 0..(k + 1), i # 0 PROVE f[i - 1] = g[i - 1]
      <3>1. i - 1 \in 0..k
        BY <2>3
      <3>2. QED
        BY <3>1, <2>2
    <2>4. g = [i \in 0..(k + 1) |-> IF i = 0 THEN 0 ELSE f[i - 1] + s[i]]
      OBVIOUS
    <2> HIDE DEF g
    <2>5. Summing(s, g, k + 1)
      BY <2>3, <2>4 DEF Summing
    <2>6. k + 1 \in Nat
      OBVIOUS
    <2>7. QED
      BY <2>5, <2>6
  <1> HIDE DEF T
  <1>3. 0 \in T
    BY <1>1 DEF T
  <1>4. 0..n \subseteq T
    BY <1>2, <1>3, Induction
  <1>5. QED
    BY <1>4 DEF T

(* Sum is the last of them.                                                *)
LEMMA SumSteps ==
  ASSUME NEW s \in Seq(Int)
  PROVE  \E f \in [0..Len(s) -> Int] :
            f[0] = 0 /\ Sum(s) = f[Len(s)] /\ \A n \in 1..Len(s) : f[n] = f[n - 1] + s[n]
  <1>1. Len(s) \in Nat
    OBVIOUS
  <1> DEFINE f == CHOOSE f : Summing(s, f, Len(s))
  <1>2. Summing(s, f, Len(s))
    BY <1>1, SumExists, Zenon
  <1>3. Sum(s) = f[Len(s)]
    BY Zenon DEF Sum, Summing
  <1> HIDE DEF f
  <1>4. f[0] = 0 /\ \A n \in 1..Len(s) : f[n] = f[n - 1] + s[n]
    BY <1>1, <1>2 DEF Summing
  <1> DEFINE T == {n \in 0..Len(s) : f[n] \in Int}
  <1>5. 0 \in T
    BY <1>1, <1>4
  <1>6. ASSUME NEW n \in 0..Len(s), n \in T, n < Len(s) PROVE n + 1 \in T
    <2>1. n + 1 \in 1..Len(s) /\ s[n + 1] \in Int /\ f[n] \in Int /\ (n + 1) - 1 = n
      BY <1>1, <1>6, ElementOfSeq
    <2>2. f[n + 1] = f[n] + s[n + 1]
      BY <1>4, <2>1
    <2>3. QED
      BY <2>1, <2>2
  <1>7. 0..Len(s) \subseteq T
    <2> HIDE DEF T
    <2>1. QED
      BY <1>1, <1>5, <1>6, Induction
  <1>8. f = [n \in 0..Len(s) |-> f[n]]
    BY <1>2 DEF Summing
  <1>9. f \in [0..Len(s) -> Int]
    BY <1>7, <1>8
  <1>10. QED
    BY <1>3, <1>4, <1>9

(* The same for a list whose length goes by another name.                  *)
LEMMA SumStepsOf ==
  ASSUME NEW s \in Seq(Int), NEW m \in Nat, Len(s) = m
  PROVE  \E f \in [0..m -> Int] :
            f[0] = 0 /\ Sum(s) = f[m] /\ \A n \in 1..m : f[n] = f[n - 1] + s[n]
  BY SumSteps

(* A sum of amounts is an amount.                                          *)
LEMMA SumType == ASSUME NEW s \in Seq(Int) PROVE Sum(s) \in Int
  <1>1. Len(s) \in 0..Len(s)
    OBVIOUS
  <1>2. QED
    BY <1>1, SumSteps

(* Nothing adds up to nothing.                                             *)
LEMMA SumNone == Sum(<< >>) = 0
  <1>1. << >> \in Seq(Int) /\ Len(<< >>) = 0
    OBVIOUS
  <1>2. QED
    BY <1>1, SumSteps

(* One more.                                                               *)
LEMMA SumAppend == ASSUME NEW s \in Seq(Int), NEW x \in Int PROVE Sum(Append(s, x)) = Sum(s) + x
  <1> DEFINE t == Append(s, x)
  <1>1. t \in Seq(Int) /\ Len(t) = Len(s) + 1 /\ t[Len(s) + 1] = x /\ \A n \in 1..Len(s) : t[n] = s[n]
    OBVIOUS
  <1> HIDE DEF t
  <1>2. Len(s) \in Nat
    OBVIOUS
  <1>3. PICK f \in [0..Len(s) -> Int] :
            f[0] = 0 /\ Sum(s) = f[Len(s)] /\ \A n \in 1..Len(s) : f[n] = f[n - 1] + s[n]
    BY SumSteps
  <1>4. PICK g \in [0..Len(t) -> Int] :
            g[0] = 0 /\ Sum(t) = g[Len(t)] /\ \A n \in 1..Len(t) : g[n] = g[n - 1] + t[n]
    BY <1>1, SumSteps
  <1> DEFINE T == {n \in 0..Len(s) : f[n] = g[n]}
  <1>5. 0 \in T
    BY <1>2, <1>3, <1>4
  <1>6. ASSUME NEW n \in 0..Len(s), n \in T, n < Len(s) PROVE n + 1 \in T
    <2>1. n + 1 \in 1..Len(s) /\ n + 1 \in 1..Len(t) /\ (n + 1) - 1 = n /\ f[n] = g[n]
      BY <1>1, <1>2, <1>6
    <2>2. f[n + 1] = f[n] + s[n + 1]
      BY <1>3, <2>1
    <2>3. g[n + 1] = g[n] + t[n + 1]
      BY <1>4, <2>1
    <2>4. t[n + 1] = s[n + 1]
      BY <1>1, <2>1
    <2>5. QED
      BY <2>1, <2>2, <2>3, <2>4
  <1>7. 0..Len(s) \subseteq T
    <2> HIDE DEF T
    <2>1. QED
      BY <1>2, <1>5, <1>6, Induction
  <1>8. Sum(s) = g[Len(s)]
    <2>1. Len(s) \in T
      <3> HIDE DEF T
      <3>1. Len(s) \in 0..Len(s)
        BY <1>2
      <3>2. QED
        BY <1>7, <3>1
    <2>2. f[Len(s)] = g[Len(s)]
      BY <2>1
    <2>3. QED
      BY <1>3, <2>2
  <1>9. Len(s) + 1 \in 1..Len(t) /\ (Len(s) + 1) - 1 = Len(s)
    BY <1>1, <1>2
  <1>10. g[Len(s) + 1] = g[Len(s)] + t[Len(s) + 1]
    BY <1>4, <1>9
  <1>11. Sum(t) = Sum(s) + x
    BY <1>1, <1>4, <1>8, <1>10
  <1>12. QED
    BY <1>11 DEF t

(* A list of one.                                                          *)
LEMMA SumOfOne == ASSUME NEW s \in Seq(Int), Len(s) = 1 PROVE Sum(s) = s[1]
  <1>1. PICK f \in [0..Len(s) -> Int] :
            f[0] = 0 /\ Sum(s) = f[Len(s)] /\ \A n \in 1..Len(s) : f[n] = f[n - 1] + s[n]
    BY SumSteps
  <1>2. f[1] = f[0] + s[1]
    <2>1. 1 \in 1..Len(s) /\ 1 - 1 = 0
      OBVIOUS
    <2>2. f[1] = f[1 - 1] + s[1]
      BY <1>1, <2>1
    <2>3. QED
      BY <2>1, <2>2
  <1>3. s[1] \in Int
    BY ElementOfSeq
  <1>4. QED
    BY <1>1, <1>2, <1>3

(* A sum of a list and another that follows it.                            *)
LEMMA SumConcat ==
  ASSUME NEW s \in Seq(Int), NEW t \in Seq(Int)
  PROVE  Sum(s \o t) = Sum(s) + Sum(t)
  <1> DEFINE u == s \o t
  <1>1. /\ u \in Seq(Int) /\ Len(u) = Len(s) + Len(t)
        /\ \A n \in 1..Len(s) : u[n] = s[n]
        /\ \A n \in 1..Len(t) : u[Len(s) + n] = t[n]
    BY ConcatProperties
  <1> HIDE DEF u
  <1>2. Len(s) \in Nat /\ Len(t) \in Nat
    OBVIOUS
  <1>3. PICK f \in [0..Len(s) -> Int] :
            f[0] = 0 /\ Sum(s) = f[Len(s)] /\ \A n \in 1..Len(s) : f[n] = f[n - 1] + s[n]
    BY SumSteps
  <1>4. PICK g \in [0..Len(t) -> Int] :
            g[0] = 0 /\ Sum(t) = g[Len(t)] /\ \A n \in 1..Len(t) : g[n] = g[n - 1] + t[n]
    BY SumSteps
  <1>5. PICK h \in [0..Len(u) -> Int] :
            h[0] = 0 /\ Sum(u) = h[Len(u)] /\ \A n \in 1..Len(u) : h[n] = h[n - 1] + u[n]
    BY <1>1, SumSteps
  <1>6. h[Len(s)] = Sum(s)
    <2> DEFINE T == {n \in 0..Len(s) : f[n] = h[n]}
    <2>1. 0 \in T
      BY <1>2, <1>3, <1>5
    <2>2. ASSUME NEW n \in 0..Len(s), n \in T, n < Len(s) PROVE n + 1 \in T
      <3>1. n + 1 \in 1..Len(s) /\ n + 1 \in 1..Len(u) /\ (n + 1) - 1 = n /\ f[n] = h[n]
        BY <1>1, <1>2, <2>2
      <3>2. f[n + 1] = f[n] + s[n + 1]
        BY <1>3, <3>1
      <3>3. h[n + 1] = h[n] + u[n + 1]
        BY <1>5, <3>1
      <3>4. u[n + 1] = s[n + 1]
        BY <1>1, <3>1
      <3>5. QED
        BY <3>1, <3>2, <3>3, <3>4
    <2>3. 0..Len(s) \subseteq T
      <3> HIDE DEF T
      <3>1. QED
        BY <1>2, <2>1, <2>2, Induction
    <2>4. Len(s) \in T
      <3> HIDE DEF T
      <3>1. Len(s) \in 0..Len(s)
        BY <1>2
      <3>2. QED
        BY <2>3, <3>1
    <2>5. QED
      BY <1>3, <2>4
  <1>7. h[Len(u)] = Sum(s) + Sum(t)
    <2> DEFINE T == {n \in 0..Len(t) : h[Len(s) + n] = Sum(s) + g[n]}
    <2>1. 0 \in T
      BY <1>2, <1>4, <1>6, SumType
    <2>2. ASSUME NEW n \in 0..Len(t), n \in T, n < Len(t) PROVE n + 1 \in T
      <3>0. h[Len(s) + n] = Sum(s) + g[n] /\ g[n] \in Int
        BY <2>2
      <3>1. /\ n + 1 \in 1..Len(t) /\ Len(s) + (n + 1) \in 1..Len(u) /\ (n + 1) - 1 = n
            /\ (Len(s) + (n + 1)) - 1 = Len(s) + n
        BY <1>1, <1>2, <2>2
      <3>6. t[n + 1] \in Int
        BY <3>1, ElementOfSeq
      <3>2. g[n + 1] = g[n] + t[n + 1]
        BY <1>4, <3>1
      <3>3. h[Len(s) + (n + 1)] = h[Len(s) + n] + u[Len(s) + (n + 1)]
        BY <1>5, <3>1
      <3>4. u[Len(s) + (n + 1)] = t[n + 1]
        BY <1>1, <3>1
      <3>5. QED
        BY <3>0, <3>1, <3>2, <3>3, <3>4, <3>6, SumType
    <2>3. 0..Len(t) \subseteq T
      <3> HIDE DEF T
      <3>1. QED
        BY <1>2, <2>1, <2>2, Induction
    <2>4. Len(t) \in T
      <3> HIDE DEF T
      <3>1. Len(t) \in 0..Len(t)
        BY <1>2
      <3>2. QED
        BY <2>3, <3>1
    <2>5. h[Len(s) + Len(t)] = Sum(s) + g[Len(t)]
      BY <2>4
    <2>6. QED
      BY <1>1, <1>4, <2>5
  <1>8. QED
    BY <1>5, <1>7 DEF u

(* Sums of lists that differ, place by place, by the third.                *)
LEMMA SumPlus ==
  ASSUME NEW a \in Seq(Int), NEW b \in Seq(Int), NEW c \in Seq(Int),
         Len(b) = Len(a), Len(c) = Len(a), \A i \in 1..Len(a) : a[i] = b[i] + c[i]
  PROVE  Sum(a) = Sum(b) + Sum(c)
  <1>1. Len(a) \in Nat
    OBVIOUS
  <1>2. PICK f \in [0..Len(a) -> Int] :
            f[0] = 0 /\ Sum(a) = f[Len(a)] /\ \A n \in 1..Len(a) : f[n] = f[n - 1] + a[n]
    BY <1>1, SumStepsOf
  <1>3. PICK g \in [0..Len(a) -> Int] :
            g[0] = 0 /\ Sum(b) = g[Len(a)] /\ \A n \in 1..Len(a) : g[n] = g[n - 1] + b[n]
    BY <1>1, SumStepsOf
  <1>4. PICK h \in [0..Len(a) -> Int] :
            h[0] = 0 /\ Sum(c) = h[Len(a)] /\ \A n \in 1..Len(a) : h[n] = h[n - 1] + c[n]
    BY <1>1, SumStepsOf
  <1> DEFINE T == {n \in 0..Len(a) : f[n] = g[n] + h[n]}
  <1>5. 0 \in T
    BY <1>1, <1>2, <1>3, <1>4
  <1>6. ASSUME NEW n \in 0..Len(a), n \in T, n < Len(a) PROVE n + 1 \in T
    <2>0. f[n] = g[n] + h[n] /\ g[n] \in Int /\ h[n] \in Int
      BY <1>6
    <2>1. n + 1 \in 1..Len(a) /\ (n + 1) - 1 = n
      BY <1>1, <1>6
    <2>2. a[n + 1] \in Int /\ b[n + 1] \in Int /\ c[n + 1] \in Int /\ a[n + 1] = b[n + 1] + c[n + 1]
      BY <2>1, ElementOfSeq
    <2>3. f[n + 1] = f[n] + a[n + 1]
      BY <1>2, <2>1
    <2>4. g[n + 1] = g[n] + b[n + 1]
      BY <1>3, <2>1
    <2>5. h[n + 1] = h[n] + c[n + 1]
      BY <1>4, <2>1
    <2>6. f[n + 1] = g[n + 1] + h[n + 1]
      <3>1. PICK u \in Int, v \in Int : u = g[n] /\ v = h[n]
        BY <2>0
      <3>2. PICK x \in Int, y \in Int : x = b[n + 1] /\ y = c[n + 1]
        BY <2>2
      <3>3. f[n + 1] = (u + v) + (x + y)
        BY <2>0, <2>2, <2>3, <3>1, <3>2
      <3>4. g[n + 1] = u + x
        BY <2>4, <3>1, <3>2
      <3>5. h[n + 1] = v + y
        BY <2>5, <3>1, <3>2
      <3>6. (u + v) + (x + y) = (u + x) + (v + y)
        OBVIOUS
      <3>7. QED
        BY <3>3, <3>4, <3>5, <3>6
    <2>7. n + 1 \in 0..Len(a)
      BY <2>1
    <2>8. QED
      BY <2>6, <2>7
  <1>7. 0..Len(a) \subseteq T
    <2> HIDE DEF T
    <2>1. QED
      BY <1>1, <1>5, <1>6, Induction
  <1>8. Len(a) \in T
    <2> HIDE DEF T
    <2>1. Len(a) \in 0..Len(a)
      BY <1>1
    <2>2. QED
      BY <1>7, <2>1
  <1>9. QED
    BY <1>2, <1>3, <1>4, <1>8

(* A list that is nowhere above another has no larger sum.                 *)
LEMMA SumLess ==
  ASSUME NEW a \in Seq(Int), NEW b \in Seq(Int), Len(b) = Len(a), \A i \in 1..Len(a) : a[i] <= b[i]
  PROVE  Sum(a) <= Sum(b)
  <1>1. Len(a) \in Nat
    OBVIOUS
  <1>2. PICK f \in [0..Len(a) -> Int] :
            f[0] = 0 /\ Sum(a) = f[Len(a)] /\ \A n \in 1..Len(a) : f[n] = f[n - 1] + a[n]
    BY <1>1, SumStepsOf
  <1>3. PICK g \in [0..Len(a) -> Int] :
            g[0] = 0 /\ Sum(b) = g[Len(a)] /\ \A n \in 1..Len(a) : g[n] = g[n - 1] + b[n]
    BY <1>1, SumStepsOf
  <1> DEFINE T == {n \in 0..Len(a) : f[n] <= g[n]}
  <1>5. 0 \in T
    BY <1>1, <1>2, <1>3
  <1>6. ASSUME NEW n \in 0..Len(a), n \in T, n < Len(a) PROVE n + 1 \in T
    <2>0. f[n] <= g[n] /\ g[n] \in Int /\ f[n] \in Int
      BY <1>6
    <2>1. n + 1 \in 1..Len(a) /\ (n + 1) - 1 = n
      BY <1>1, <1>6
    <2>2. a[n + 1] \in Int /\ b[n + 1] \in Int /\ a[n + 1] <= b[n + 1]
      BY <2>1, ElementOfSeq
    <2>3. f[n + 1] = f[n] + a[n + 1]
      BY <1>2, <2>1
    <2>4. g[n + 1] = g[n] + b[n + 1]
      BY <1>3, <2>1
    <2>6. QED
      BY <2>0, <2>1, <2>2, <2>3, <2>4
  <1>7. 0..Len(a) \subseteq T
    <2> HIDE DEF T
    <2>1. QED
      BY <1>1, <1>5, <1>6, Induction
  <1>8. Len(a) \in T
    <2> HIDE DEF T
    <2>1. Len(a) \in 0..Len(a)
      BY <1>1
    <2>2. QED
      BY <1>7, <2>1
  <1>9. QED
    BY <1>2, <1>3, <1>8

(* n amounts that are at most b add up to at most n times b.               *)
LEMMA SumBounded ==
  ASSUME NEW a \in Seq(Int), NEW b \in Int, \A i \in 1..Len(a) : a[i] <= b
  PROVE  Sum(a) <= Len(a) * b
  <1>1. Len(a) \in Nat
    OBVIOUS
  <1>2. PICK f \in [0..Len(a) -> Int] :
            f[0] = 0 /\ Sum(a) = f[Len(a)] /\ \A n \in 1..Len(a) : f[n] = f[n - 1] + a[n]
    BY <1>1, SumStepsOf
  <1> DEFINE T == {n \in 0..Len(a) : f[n] <= n * b}
  <1>5. 0 \in T
    BY <1>1, <1>2
  <1>6. ASSUME NEW n \in 0..Len(a), n \in T, n < Len(a) PROVE n + 1 \in T
    <2>0. f[n] <= n * b /\ f[n] \in Int
      BY <1>6
    <2>1. n + 1 \in 1..Len(a) /\ (n + 1) - 1 = n
      BY <1>1, <1>6
    <2>2. a[n + 1] \in Int /\ a[n + 1] <= b
      BY <2>1, ElementOfSeq
    <2>3. f[n + 1] = f[n] + a[n + 1]
      BY <1>2, <2>1
    <2>4. (n + 1) * b = n * b + b /\ n * b \in Int
      OBVIOUS
    <2>5. f[n + 1] <= (n + 1) * b
      BY <2>0, <2>1, <2>2, <2>3, <2>4
    <2>6. QED
      BY <2>1, <2>5
  <1>7. 0..Len(a) \subseteq T
    <2> HIDE DEF T
    <2>1. QED
      BY <1>1, <1>5, <1>6, Induction
  <1>8. Len(a) \in T
    <2> HIDE DEF T
    <2>1. Len(a) \in 0..Len(a)
      BY <1>1
    <2>2. QED
      BY <1>7, <2>1
  <1>9. QED
    BY <1>2, <1>8

-----------------------------------------------------------------------------
(* Picked.                                                                 *)

Kept(S, q, i, x) == IF i \in S THEN Append(q, x) ELSE q

Picking(seq, S, f, n) == f = [i \in 0..n |-> IF i = 0 THEN << >> ELSE Kept(S, f[i - 1], i, seq[i])]

(* What the loop has picked after each place exists.                       *)
LEMMA PickedExists == ASSUME NEW s, NEW S, NEW n \in Nat PROVE \E f : Picking(s, S, f, n)
  <1> DEFINE T == {k \in Nat : \E f : Picking(s, S, f, k)}
  <1>1. Picking(s, S, [i \in 0..0 |-> << >>], 0)
    BY DEF Picking
  <1>2. ASSUME NEW k \in T PROVE k + 1 \in T
    <2>1. PICK f : Picking(s, S, f, k)
      OBVIOUS
    <2> DEFINE g == [i \in 0..(k + 1) |-> IF i = 0 THEN << >> ELSE Kept(S, f[i - 1], i, s[i])]
    <2>2. ASSUME NEW i \in 0..k PROVE g[i] = f[i]
      BY <2>1 DEF Picking
    <2>3. ASSUME NEW i \in 0..(k + 1), i # 0 PROVE f[i - 1] = g[i - 1]
      <3>1. i - 1 \in 0..k
        BY <2>3
      <3>2. QED
        BY <3>1, <2>2
    <2>4. g = [i \in 0..(k + 1) |-> IF i = 0 THEN << >> ELSE Kept(S, f[i - 1], i, s[i])]
      OBVIOUS
    <2> HIDE DEF g
    <2>5. Picking(s, S, g, k + 1)
      BY <2>3, <2>4 DEF Picking
    <2>6. k + 1 \in Nat
      OBVIOUS
    <2>7. QED
      BY <2>5, <2>6
  <1> HIDE DEF T
  <1>3. 0 \in T
    BY <1>1 DEF T
  <1>4. 0..n \subseteq T
    BY <1>2, <1>3, Induction
  <1>5. QED
    BY <1>4 DEF T

(* Picked is the last of it.                                               *)
LEMMA PickedSteps ==
  ASSUME NEW s, NEW S, Len(s) \in Nat
  PROVE  \E f : /\ f[0] = << >> /\ Picked(s, S) = f[Len(s)]
                /\ \A n \in 1..Len(s) : f[n] = Kept(S, f[n - 1], n, s[n])
  <1> DEFINE f == CHOOSE f : Picking(s, S, f, Len(s))
  <1>1. Picking(s, S, f, Len(s))
    BY PickedExists, Zenon
  <1>2. Picked(s, S) = f[Len(s)]
    BY Zenon DEF Picked, Picking, Kept
  <1> HIDE DEF f
  <1>3. f[0] = << >> /\ \A n \in 1..Len(s) : f[n] = Kept(S, f[n - 1], n, s[n])
    BY <1>1 DEF Picking
  <1>4. QED
    BY <1>2, <1>3

(* Every element picked is one of the list, at a place in S.               *)
LEMMA PickedFrom ==
  ASSUME NEW X, NEW s \in Seq(X), NEW S
  PROVE  /\ Picked(s, S) \in Seq(X)
         /\ \A k \in DOMAIN Picked(s, S) : \E i \in DOMAIN s : i \in S /\ Picked(s, S)[k] = s[i]
  <1>1. Len(s) \in Nat /\ DOMAIN s = 1..Len(s)
    OBVIOUS
  <1>2. PICK f : /\ f[0] = << >> /\ Picked(s, S) = f[Len(s)]
                 /\ \A n \in 1..Len(s) : f[n] = Kept(S, f[n - 1], n, s[n])
    BY <1>1, PickedSteps
  <1> DEFINE Good(q) == q \in Seq(X) /\ \A k \in DOMAIN q : \E i \in DOMAIN s : i \in S /\ q[k] = s[i]
             T == {n \in 0..Len(s) : Good(f[n])}
  <1>3. 0 \in T
    <2>1. Good(<< >>)
      OBVIOUS
    <2> HIDE DEF Good
    <2>2. QED
      BY <1>1, <1>2, <2>1
  <1>4. ASSUME NEW n \in 0..Len(s), n \in T, n < Len(s) PROVE n + 1 \in T
    <2>1. Good(f[n])
      BY <1>4
    <2>2. n + 1 \in 1..Len(s) /\ (n + 1) - 1 = n
      BY <1>1, <1>4
    <2>3. f[n + 1] = Kept(S, f[n], n + 1, s[n + 1])
      BY <1>2, <2>2
    <2>4. s[n + 1] \in X
      BY <2>2, ElementOfSeq
    <2>5. CASE n + 1 \in S
      <3> DEFINE q == f[n]
                 r == Append(q, s[n + 1])
      <3>1. /\ r \in Seq(X) /\ Len(r) = Len(q) + 1 /\ DOMAIN r = 1..Len(r) /\ DOMAIN q = 1..Len(q)
            /\ Len(q) \in Nat
            /\ r[Len(q) + 1] = s[n + 1] /\ \A k \in 1..Len(q) : r[k] = q[k]
        BY <2>1, <2>4
      <3> HIDE DEF r
      <3>2. ASSUME NEW k \in DOMAIN r PROVE \E i \in DOMAIN s : i \in S /\ r[k] = s[i]
        <4>1. CASE k = Len(q) + 1
          BY <1>1, <2>2, <2>5, <3>1, <4>1
        <4>2. CASE k # Len(q) + 1
          <5>1. k \in 1..Len(q)
            BY <3>1, <4>2
          <5>2. QED
            BY <2>1, <3>1, <5>1
        <4>3. QED
          BY <4>1, <4>2
      <3>3. Good(r)
        BY <3>1, <3>2
      <3>4. f[n + 1] = r
        BY <2>3, <2>5 DEF r, Kept
      <3> HIDE DEF Good
      <3>5. QED
        BY <1>1, <2>2, <3>3, <3>4
    <2>6. CASE n + 1 \notin S
      <3> HIDE DEF Good
      <3>1. f[n + 1] = f[n]
        BY <2>3, <2>6 DEF Kept
      <3>2. QED
        BY <1>1, <2>1, <2>2, <3>1
    <2>7. QED
      BY <2>5, <2>6
  <1>5. 0..Len(s) \subseteq T
    <2> HIDE DEF T
    <2>1. QED
      BY <1>1, <1>3, <1>4, Induction
  <1>6. Len(s) \in T
    <2> HIDE DEF T
    <2>1. Len(s) \in 0..Len(s)
      BY <1>1
    <2>2. QED
      BY <1>5, <2>1
  <1>7. Good(f[Len(s)])
    BY <1>6
  <1>8. QED
    BY <1>2, <1>7

-----------------------------------------------------------------------------
(* Lists of trades.                                                        *)

Sides     == {"BUY", "SELL"}
Trades    == [net : Int, reason : {"SL_HIT", "TP_HIT", "END_OF_DATA"}, lots : Nat, commission : Nat, equity : Int]
Positions == [side : Sides, stop : Int, target : Int, entry : Int, lots : Nat, commission : Nat, equity : Int]

(* One amount for each trade.                                              *)
LEMMA NetsType ==
  ASSUME NEW s \in Seq(Trades)
  PROVE  Nets(s) \in Seq(Int) /\ Len(Nets(s)) = Len(s) /\ \A i \in 1..Len(s) : Nets(s)[i] = s[i].net
  <1>1. DOMAIN s = 1..Len(s) /\ Len(s) \in Nat
    OBVIOUS
  <1>2. \A i \in 1..Len(s) : s[i] \in Trades
    BY ElementOfSeq
  <1>4. \A i \in 1..Len(s) : s[i].net \in Int
    BY <1>2 DEF Trades
  <1>3. QED
    BY <1>1, <1>4 DEF Nets

(* A trade more.                                                           *)
LEMMA NetsAppend ==
  ASSUME NEW s \in Seq(Trades), NEW t \in Trades
  PROVE  Nets(Append(s, t)) = Append(Nets(s), t.net)
  <1>1. Append(s, t) \in Seq(Trades) /\ Len(Append(s, t)) = Len(s) + 1 /\ Len(s) \in Nat
    OBVIOUS
  <1>2. /\ Nets(Append(s, t)) \in Seq(Int) /\ Len(Nets(Append(s, t))) = Len(s) + 1
        /\ \A i \in 1..(Len(s) + 1) : Nets(Append(s, t))[i] = Append(s, t)[i].net
    BY <1>1, NetsType
  <1>3. Nets(s) \in Seq(Int) /\ Len(Nets(s)) = Len(s) /\ \A i \in 1..Len(s) : Nets(s)[i] = s[i].net
    BY NetsType
  <1>4. t.net \in Int
    BY DEF Trades
  <1>5. Append(Nets(s), t.net) \in Seq(Int) /\ Len(Append(Nets(s), t.net)) = Len(s) + 1
    BY <1>3, <1>4
  <1>6. ASSUME NEW i \in 1..(Len(s) + 1) PROVE Nets(Append(s, t))[i] = Append(Nets(s), t.net)[i]
    <2>1. CASE i = Len(s) + 1
      BY <1>1, <1>2, <1>3, <2>1
    <2>2. CASE i # Len(s) + 1
      <3>1. i \in 1..Len(s) /\ Append(s, t)[i] = s[i]
        BY <1>1, <2>2
      <3>2. Append(Nets(s), t.net)[i] = Nets(s)[i]
        BY <1>3, <1>4, <3>1
      <3>3. QED
        BY <1>2, <1>3, <3>1, <3>2
    <2>3. QED
      BY <2>1, <2>2
  <1>7. QED
    BY <1>2, <1>5, <1>6, SeqEqual

(* Trades that follow others.                                              *)
LEMMA NetsConcat ==
  ASSUME NEW s \in Seq(Trades), NEW t \in Seq(Trades)
  PROVE  Nets(s \o t) = Nets(s) \o Nets(t)
  <1>1. /\ s \o t \in Seq(Trades) /\ Len(s \o t) = Len(s) + Len(t) /\ Len(s) \in Nat /\ Len(t) \in Nat
        /\ \A i \in 1..(Len(s) + Len(t)) : (s \o t)[i] = IF i <= Len(s) THEN s[i] ELSE t[i - Len(s)]
    BY ConcatProperties
  <1>2. /\ Nets(s \o t) \in Seq(Int) /\ Len(Nets(s \o t)) = Len(s) + Len(t)
        /\ \A i \in 1..(Len(s) + Len(t)) : Nets(s \o t)[i] = (s \o t)[i].net
    BY <1>1, NetsType
  <1>3. Nets(s) \in Seq(Int) /\ Len(Nets(s)) = Len(s) /\ \A i \in 1..Len(s) : Nets(s)[i] = s[i].net
    BY NetsType
  <1>4. Nets(t) \in Seq(Int) /\ Len(Nets(t)) = Len(t) /\ \A i \in 1..Len(t) : Nets(t)[i] = t[i].net
    BY NetsType
  <1>5. /\ Nets(s) \o Nets(t) \in Seq(Int) /\ Len(Nets(s) \o Nets(t)) = Len(s) + Len(t)
        /\ \A i \in 1..(Len(s) + Len(t)) :
              (Nets(s) \o Nets(t))[i] = IF i <= Len(s) THEN Nets(s)[i] ELSE Nets(t)[i - Len(s)]
    <2>1. PICK a : a = Nets(s)
      OBVIOUS
    <2>2. PICK b : b = Nets(t)
      OBVIOUS
    <2>3. a \in Seq(Int) /\ b \in Seq(Int) /\ Len(a) = Len(s) /\ Len(b) = Len(t)
      BY <1>3, <1>4, <2>1, <2>2
    <2>6. /\ a \o b \in Seq(Int) /\ Len(a \o b) = Len(a) + Len(b)
          /\ \A i \in 1..(Len(a) + Len(b)) : (a \o b)[i] = IF i <= Len(a) THEN a[i] ELSE b[i - Len(a)]
      BY <2>3, ConcatProperties
    <2>4. /\ a \o b \in Seq(Int) /\ Len(a \o b) = Len(s) + Len(t)
          /\ \A i \in 1..(Len(s) + Len(t)) : (a \o b)[i] = IF i <= Len(s) THEN a[i] ELSE b[i - Len(s)]
      BY <2>3, <2>6
    <2>5. QED
      BY <2>1, <2>2, <2>4
  <1>6. ASSUME NEW i \in 1..(Len(s) + Len(t)) PROVE Nets(s \o t)[i] = (Nets(s) \o Nets(t))[i]
    <2>1. CASE i <= Len(s)
      <3>1. i \in 1..Len(s)
        BY <1>1, <2>1
      <3>2. QED
        BY <1>1, <1>2, <1>3, <1>5, <2>1, <3>1
    <2>2. CASE ~(i <= Len(s))
      <3>1. i - Len(s) \in 1..Len(t)
        BY <1>1, <2>2
      <3>2. QED
        BY <1>1, <1>2, <1>4, <1>5, <2>2, <3>1
    <2>3. QED
      BY <2>1, <2>2
  <1>7. QED
    BY <1>2, <1>5, <1>6, SeqEqual

(* The places outside S count for nothing.                                 *)
Masked(s, S) == [i \in DOMAIN s |-> IF i \in S THEN s[i].net ELSE 0]

(* Masked lists have the same length.                                      *)
LEMMA MaskedType ==
  ASSUME NEW s \in Seq(Trades), NEW S
  PROVE  /\ Masked(s, S) \in Seq(Int) /\ Len(Masked(s, S)) = Len(s)
         /\ \A i \in 1..Len(s) : Masked(s, S)[i] = IF i \in S THEN s[i].net ELSE 0
  <1>1. DOMAIN s = 1..Len(s) /\ Len(s) \in Nat
    OBVIOUS
  <1>2. \A i \in 1..Len(s) : s[i] \in Trades
    BY ElementOfSeq
  <1>3. \A i \in 1..Len(s) : (IF i \in S THEN s[i].net ELSE 0) \in Int
    BY <1>2 DEF Trades
  <1>4. QED
    BY <1>1, <1>3 DEF Masked

(* What the picked trades add up to.                                       *)
LEMMA PickedNets ==
  ASSUME NEW s \in Seq(Trades), NEW S
  PROVE  Sum(Nets(Picked(s, S))) = Sum(Masked(s, S))
  <1>1. Len(s) \in Nat /\ DOMAIN s = 1..Len(s)
    OBVIOUS
  <1>2. PICK f : /\ f[0] = << >> /\ Picked(s, S) = f[Len(s)]
                 /\ \A n \in 1..Len(s) : f[n] = Kept(S, f[n - 1], n, s[n])
    BY <1>1, PickedSteps
  <1>3. PICK m : m = Masked(s, S)
    OBVIOUS
  <1>4. m \in Seq(Int) /\ Len(m) = Len(s) /\ \A i \in 1..Len(s) : m[i] = IF i \in S THEN s[i].net ELSE 0
    BY <1>3, MaskedType
  <1>5. PICK g \in [0..Len(s) -> Int] :
            g[0] = 0 /\ Sum(m) = g[Len(s)] /\ \A n \in 1..Len(s) : g[n] = g[n - 1] + m[n]
    BY <1>1, <1>4, SumStepsOf
  <1> DEFINE T == {n \in 0..Len(s) : f[n] \in Seq(Trades) /\ Sum(Nets(f[n])) = g[n]}
  <1>6. 0 \in T
    <2>1. << >> \in Seq(Trades) /\ Len(<< >>) = 0
      OBVIOUS
    <2>2. Nets(<< >>) \in Seq(Int) /\ Len(Nets(<< >>)) = 0
      BY <2>1, NetsType
    <2>3. Sum(Nets(<< >>)) = 0
      BY <2>2, SumStepsOf
    <2>4. f[0] \in Seq(Trades) /\ Sum(Nets(f[0])) = g[0]
      BY <1>2, <1>5, <2>1, <2>3
    <2>5. 0 \in 0..Len(s)
      BY <1>1
    <2>6. QED
      BY <2>4, <2>5
  <1>7. ASSUME NEW n \in 0..Len(s), n \in T, n < Len(s) PROVE n + 1 \in T
    <2>0. f[n] \in Seq(Trades) /\ Sum(Nets(f[n])) = g[n] /\ g[n] \in Int
      BY <1>7
    <2>1. n + 1 \in 1..Len(s) /\ (n + 1) - 1 = n /\ n + 1 \in 0..Len(s)
      BY <1>1, <1>7
    <2>2. f[n + 1] = Kept(S, f[n], n + 1, s[n + 1])
      BY <1>2, <2>1
    <2>3. g[n + 1] = g[n] + m[n + 1]
      BY <1>5, <2>1
    <2>4. s[n + 1] \in Trades
      BY <2>1, ElementOfSeq
    <2>5. CASE n + 1 \in S
      <3>1. f[n + 1] = Append(f[n], s[n + 1]) /\ m[n + 1] = s[n + 1].net
        BY <1>4, <2>1, <2>2, <2>5 DEF Kept
      <3>2. Nets(f[n + 1]) = Append(Nets(f[n]), s[n + 1].net)
        BY <2>0, <2>4, <3>1, NetsAppend
      <3>3. Nets(f[n]) \in Seq(Int) /\ s[n + 1].net \in Int
        BY <2>0, <2>4, NetsType DEF Trades
      <3>4. Sum(Nets(f[n + 1])) = g[n + 1]
        BY <2>0, <2>3, <3>1, <3>2, <3>3, SumAppend
      <3>5. f[n + 1] \in Seq(Trades)
        BY <2>0, <2>4, <3>1
      <3>6. QED
        BY <2>1, <3>4, <3>5
    <2>6. CASE n + 1 \notin S
      <3>1. f[n + 1] = f[n] /\ m[n + 1] = 0
        BY <1>4, <2>1, <2>2, <2>6 DEF Kept
      <3>2. QED
        BY <2>0, <2>1, <2>3, <3>1
    <2>7. QED
      BY <2>5, <2>6
  <1>8. 0..Len(s) \subseteq T
    <2> HIDE DEF T
    <2>1. QED
      BY <1>1, <1>6, <1>7, Induction
  <1>9. Len(s) \in T
    <2> HIDE DEF T
    <2>1. Len(s) \in 0..Len(s)
      BY <1>1
    <2>2. QED
      BY <1>8, <2>1
  <1>10. QED
    BY <1>2, <1>3, <1>5, <1>9

(* Profits and losses are the whole.                                       *)
LEMMA ProfitAndLoss ==
  ASSUME NEW s \in Seq(Trades)
  PROVE  Sum(Nets(s)) = Sum(Nets(Picked(s, {i \in DOMAIN s : s[i].net > 0})))
                        + Sum(Nets(Picked(s, {i \in DOMAIN s : s[i].net < 0})))
  <1> DEFINE W == {i \in DOMAIN s : s[i].net > 0}
             L == {i \in DOMAIN s : s[i].net < 0}
  <1>1. PICK a : a = Nets(s)
    OBVIOUS
  <1>2. PICK b : b = Masked(s, W)
    OBVIOUS
  <1>3. PICK c : c = Masked(s, L)
    OBVIOUS
  <1>4. a \in Seq(Int) /\ Len(a) = Len(s) /\ \A i \in 1..Len(s) : a[i] = s[i].net
    BY <1>1, NetsType
  <1>5. b \in Seq(Int) /\ Len(b) = Len(s) /\ \A i \in 1..Len(s) : b[i] = IF i \in W THEN s[i].net ELSE 0
    BY <1>2, MaskedType
  <1>6. c \in Seq(Int) /\ Len(c) = Len(s) /\ \A i \in 1..Len(s) : c[i] = IF i \in L THEN s[i].net ELSE 0
    BY <1>3, MaskedType
  <1>7. ASSUME NEW i \in 1..Len(s) PROVE a[i] = b[i] + c[i]
    <2>1. s[i] \in Trades /\ i \in DOMAIN s
      BY ElementOfSeq
    <2>2. s[i].net \in Int
      BY <2>1 DEF Trades
    <2>3. (i \in W <=> s[i].net > 0) /\ (i \in L <=> s[i].net < 0)
      BY <2>1
    <2> HIDE DEF W, L
    <2>4. PICK x \in Int : x = s[i].net
      BY <2>2
    <2>5. a[i] = x
      BY <1>4, <2>4
    <2>6. b[i] = IF x > 0 THEN x ELSE 0
      BY <1>5, <2>3, <2>4
    <2>7. c[i] = IF x < 0 THEN x ELSE 0
      BY <1>6, <2>3, <2>4
    <2>8. QED
      BY <2>5, <2>6, <2>7
  <1>8. Sum(a) = Sum(b) + Sum(c)
    BY <1>4, <1>5, <1>6, <1>7, SumPlus
  <1>9. Sum(b) = Sum(Nets(Picked(s, W))) /\ Sum(c) = Sum(Nets(Picked(s, L)))
    BY <1>2, <1>3, PickedNets
  <1>10. QED
    BY <1>1, <1>8, <1>9

-----------------------------------------------------------------------------
(* What the Brain proposes.                                                *)

Bars  == [high : Int, low : Int, close : Int]
Ticks == [bid : Int, ask : Int]

(* A set of places has a last one.                                         *)
LEMMA LastPlace ==
  ASSUME NEW m \in Nat, NEW S \in SUBSET (0..m), S # {}
  PROVE  \E i \in S : \A j \in S : j <= i
  <1> DEFINE T == {n \in Nat : \A R \in SUBSET (0..n) : R # {} => \E i \in R : \A j \in R : j <= i}
  <1>1. 0 \in T
    <2>1. ASSUME NEW R \in SUBSET (0..0), R # {} PROVE \E i \in R : \A j \in R : j <= i
      <3>0. 0..0 = {0}
        OBVIOUS
      <3>1. R = {0}
        BY <2>1, <3>0, Zenon
      <3>2. QED
        BY <3>1
    <2>2. QED
      BY <2>1
  <1>2. ASSUME NEW n \in 0..m, n \in T, n < m PROVE n + 1 \in T
    <2>1. ASSUME NEW R \in SUBSET (0..(n + 1)), R # {} PROVE \E i \in R : \A j \in R : j <= i
      <3>1. CASE n + 1 \in R
        BY <3>1
      <3>2. CASE n + 1 \notin R
        <4>1. R \in SUBSET (0..n)
          BY <3>2
        <4>2. QED
          BY <1>2, <2>1, <4>1
      <3>3. QED
        BY <3>1, <3>2
    <2>2. QED
      BY <2>1
  <1>3. 0..m \subseteq T
    <2> HIDE DEF T
    <2>1. QED
      BY <1>1, <1>2, Induction
  <1>4. m \in T
    <2> HIDE DEF T
    <2>1. m \in 0..m
      OBVIOUS
    <2>2. QED
      BY <1>3, <2>1
  <1>5. QED
    BY <1>4

(* The latest swing is a swing.                                            *)
LEMMA LatestIn == ASSUME NEW m \in Nat, NEW S \in SUBSET (0..m), S # {} PROVE Latest(S) \in S
  <1>1. \E i \in S : \A j \in S : j <= i
    BY LastPlace
  <1>2. QED
    BY <1>1, Zenon DEF Latest

(* The prices of the swings are prices of bars.                            *)
LEMMA SwingPrices ==
  ASSUME NEW b \in Seq(Bars), NEW atr
  PROVE  /\ analyze_structure(b, Lookback, atr).high \in Int \cup {None}
         /\ analyze_structure(b, Lookback, atr).low \in Int \cup {None}
  <1>1. Len(b) \in Nat /\ Lookback \in Nat /\ Lookback # 0
    BY BacktestAssumption
  <1>2. SwingHighs(b, Lookback) \subseteq 1..Len(b) /\ SwingLows(b, Lookback) \subseteq 1..Len(b)
    BY <1>1 DEF SwingHighs, SwingLows
  <1>3. SwingHighs(b, Lookback) \in SUBSET (0..Len(b)) /\ SwingLows(b, Lookback) \in SUBSET (0..Len(b))
    BY <1>1, <1>2
  <1>4. ASSUME NEW i \in 1..Len(b) PROVE b[i].high \in Int /\ b[i].low \in Int
    <2>1. b[i] \in Bars
      BY <1>4, ElementOfSeq
    <2>2. QED
      BY <2>1 DEF Bars
  <1>5. PICK H : H = SwingHighs(b, Lookback)
    OBVIOUS
  <1>6. PICK L : L = SwingLows(b, Lookback)
    OBVIOUS
  <1>7. H # {} => Latest(H) \in 1..Len(b)
    BY <1>1, <1>2, <1>3, <1>5, LatestIn
  <1>8. L # {} => Latest(L) \in 1..Len(b)
    BY <1>1, <1>2, <1>3, <1>6, LatestIn
  <1>9. /\ analyze_structure(b, Lookback, atr).high = IF H = {} THEN None ELSE b[Latest(H)].high
        /\ analyze_structure(b, Lookback, atr).low = IF L = {} THEN None ELSE b[Latest(L)].low
    BY <1>5, <1>6 DEF analyze_structure
  <1>10. QED
    BY <1>4, <1>7, <1>8, <1>9

(* A candidate: where it stands, and where it ends.                        *)
Sensible(c, tick) ==
    /\ c.side \in Sides /\ c.stop \in Int /\ c.target \in Int
    /\ c.entry = IF c.side = "BUY" THEN tick.ask ELSE tick.bid
    /\ c.target - c.entry = 2 * (c.entry - c.stop)
    /\ IF c.side = "BUY" THEN c.stop < c.entry ELSE c.entry < c.stop

(* A risk of at least 0.30 ATR is one.                                     *)
LEMMA RiskPositive ==
  ASSUME NEW atr \in Nat \ {0}, NEW a \in Int, NEW b \in Int, ~(10 * (a - b) < 3 * atr)
  PROVE  b < a
  OBVIOUS

(* compute_sl_tp: a risk of at least 0.30 ATR.                             *)
LEMMA StopsSensible ==
  ASSUME NEW tick \in Ticks, NEW st, st.high \in Int \cup {None}, st.low \in Int \cup {None},
         NEW atr \in Nat \ {0}, NEW d \in Sides, compute_sl_tp(tick, st, atr, d) # None
  PROVE  Sensible(compute_sl_tp(tick, st, atr, d), tick)
  <1>1. tick.bid \in Int /\ tick.ask \in Int
    BY DEF Ticks
  <1>2. PICK sl : sl = compute_sl(tick, st, atr, d)
    OBVIOUS
  <1>3. sl \in Int
    <2>1. atr \div 2 \in Int
      OBVIOUS
    <2>2. QED
      BY <1>1, <1>2, <2>1 DEF compute_sl, Sides
  <1>4. CASE d = "BUY"
    <2>0. compute_sl_tp(tick, st, atr, "BUY") =
             IF 10 * (tick.ask - sl) < 3 * atr THEN None
             ELSE [side |-> "BUY", entry |-> tick.ask, stop |-> sl, target |-> tick.ask + 2 * (tick.ask - sl)]
      BY <1>2, <1>4 DEF compute_sl_tp
    <2>1. /\ ~(10 * (tick.ask - sl) < 3 * atr)
          /\ compute_sl_tp(tick, st, atr, d) =
               [side |-> d, entry |-> tick.ask, stop |-> sl, target |-> tick.ask + 2 * (tick.ask - sl)]
      BY <1>4, <2>0
    <2>2. sl < tick.ask
      BY <1>1, <1>3, <2>1, RiskPositive
    <2>3. QED
      BY <1>1, <1>3, <1>4, <2>1, <2>2 DEF Sensible, Sides
  <1>5. CASE d = "SELL"
    <2>0. d # "BUY"
      BY <1>5
    <2>1. /\ ~(10 * (sl - tick.bid) < 3 * atr)
          /\ compute_sl_tp(tick, st, atr, d) =
               [side |-> d, entry |-> tick.bid, stop |-> sl, target |-> tick.bid - 2 * (sl - tick.bid)]
      BY <1>2, <2>0 DEF compute_sl_tp
    <2>2. tick.bid < sl
      BY <1>1, <1>3, <2>1, RiskPositive
    <2>3. QED
      BY <1>1, <1>3, <1>5, <2>1, <2>2 DEF Sensible, Sides
  <1>6. QED
    BY <1>4, <1>5 DEF Sides

(* process proposes nothing else.                                          *)
LEMMA CandidateSensible ==
  ASSUME NEW tick \in Ticks, NEW b \in Seq(Bars), NEW x \in Indicators,
         process(tick, b, Lookback, x, TRUE, "CLEAR") # None
  PROVE  Sensible(process(tick, b, Lookback, x, TRUE, "CLEAR"), tick)
  <1>1. PICK atr : atr = IF x = None THEN 0 ELSE x.atr
    OBVIOUS
  <1>2. PICK st : st = analyze_structure(b, Lookback, atr)
    OBVIOUS
  <1>3. PICK setup : setup = detect_setup(b, st, atr)
    OBVIOUS
  <1>4. PICK reg : reg = classify_regime(x)
    OBVIOUS
  <1>5. PICK c : c = process(tick, b, Lookback, x, TRUE, "CLEAR")
    OBVIOUS
  <1>6. c = MultiFactorScorer(tick, st, reg, "CLEAR", setup) /\ c # None
    BY <1>1, <1>2, <1>3, <1>4, <1>5 DEF process
  <1>7. permits_new_entry(reg)
    BY <1>6 DEF MultiFactorScorer
  <1>8. x # None
    BY <1>4, <1>7 DEF permits_new_entry, classify_regime, Unknown
  <1>9. reg.atr \in Nat
    BY <1>4, <1>8, BacktestAssumption DEF classify_regime
  <1>10. PICK d \in Sides : c = Qualified(d, tick, st, reg, setup)
    BY <1>6 DEF MultiFactorScorer, Sides
  <1>11. c = compute_sl_tp(tick, st, IF reg.atr = 0 THEN 10 ELSE reg.atr, d)
    BY <1>6, <1>10 DEF Qualified
  <1>12. (IF reg.atr = 0 THEN 10 ELSE reg.atr) \in Nat \ {0}
    BY <1>9
  <1>13. st.high \in Int \cup {None} /\ st.low \in Int \cup {None}
    BY <1>2, SwingPrices
  <1>14. QED
    BY <1>5, <1>6, <1>11, <1>12, <1>13, StopsSensible

-----------------------------------------------------------------------------
(* What is opened.                                                         *)

(* The price the Brain had in mind.                                        *)
Ref(pos) == IF pos.side = "BUY" THEN pos.entry - Slippage ELSE pos.entry + Slippage

(* A position between its stop and its target, of a size that keeps to the *)
(* percentage.                                                             *)
Placed(pos) ==
    /\ pos.target - Ref(pos) = 2 * (Ref(pos) - pos.stop)
    /\ IF pos.side = "BUY" THEN pos.stop < Ref(pos) ELSE Ref(pos) < pos.stop
    /\ Risk.fixed = None =>
          Risk.pct \in Nat /\ 100 * pos.lots * Distance(Ref(pos), pos.stop) <= Risk.pct * pos.equity

(* Opened with this tick.                                                  *)
Fresh(pos, tick) == Ref(pos) = IF pos.side = "BUY" THEN tick.ask ELSE tick.bid

(* The size that comes with an approval.                                   *)
LEMMA ApprovedSize ==
  ASSUME NEW snap, snap.equity \in Int, NEW c, c # None, c.entry \in Int, c.stop \in Int, NEW market, NEW lots,
         evaluate(Risk, snap, c, market, "CLEAR").decision = "APPROVED",
         lots = evaluate(Risk, snap, c, market, "CLEAR").lots, lots \notin {None, 0}
  PROVE  /\ lots \in Nat
         /\ Risk.fixed = None =>
               Risk.pct \in Nat /\ 100 * lots * Distance(c.entry, c.stop) <= Risk.pct * snap.equity
  <1>1. is_fully_configured(Risk) /\ lots = AuthorizedLots(Risk, snap.equity, c)
    BY ApprovalConfigured
  <1>2. Risk \in RiskConfigs
    BY BacktestAssumption
  <1>3. lots \in Nat
    BY <1>1, <1>2, SizeType
  <1>4. ASSUME Risk.fixed = None
        PROVE  Risk.pct \in Nat /\ 100 * lots * Distance(c.entry, c.stop) <= Risk.pct * snap.equity
    <2>1. Risk.pct # None
      BY <1>1, <1>4 DEF is_fully_configured
    <2>2. Risk.pct \in Nat
      BY <1>2, <2>1 DEF RiskConfigs
    <2>3. lots = PercentageEquity(Risk.pct, snap.equity, c.entry, c.stop)
      BY <1>1, <1>4, <2>1 DEF AuthorizedLots, calculate_lot_size
    <2>4. 100 * lots * Distance(c.entry, c.stop) <= Risk.pct * snap.equity
      BY <2>2, <2>3, SizeWithin
    <2>5. QED
      BY <2>2, <2>4
  <1>5. QED
    BY <1>3, <1>4

(* A position that follows a sensible candidate.                           *)
LEMMA EnterPlaced ==
  ASSUME NEW tick \in Ticks, NEW c, Sensible(c, tick), NEW lots \in Nat, NEW amount \in Int,
         Risk.fixed = None => Risk.pct \in Nat /\ 100 * lots * Distance(c.entry, c.stop) <= Risk.pct * amount
  PROVE  LET pos == Enter(c, lots, amount) IN pos \in Positions /\ Placed(pos) /\ Fresh(pos, tick)
  <1>1. PICK pos : pos = Enter(c, lots, amount)
    OBVIOUS
  <1>2. tick.bid \in Int /\ tick.ask \in Int /\ Slippage \in Nat /\ Commission \in Nat
    BY BacktestAssumption DEF Ticks
  <1>3. c.side \in Sides /\ c.stop \in Int /\ c.target \in Int /\ c.entry \in Int
    BY <1>2 DEF Sensible
  <1>4. Commission * lots \in Nat
    BY <1>2
  <1>5. pos \in Positions
    BY <1>1, <1>2, <1>3, <1>4 DEF Enter, Positions
  <1>6. pos.side = c.side /\ pos.stop = c.stop /\ pos.target = c.target /\ pos.lots = lots /\ pos.equity = amount
    BY <1>1 DEF Enter
  <1>7. Ref(pos) = c.entry
    BY <1>1, <1>2, <1>3 DEF Enter, Ref
  <1>8. Placed(pos)
    BY <1>6, <1>7 DEF Placed, Sensible
  <1>9. Fresh(pos, tick)
    BY <1>6, <1>7 DEF Fresh, Sensible
  <1>10. QED
    BY <1>1, <1>5, <1>8, <1>9

(* A closed bar opens one such position, or none.                          *)
LEMMA EnteredPlaced ==
  ASSUME NEW tick \in Ticks, NEW b \in Seq(Bars), NEW x \in Indicators, NEW age, NEW snap, snap.equity \in Int,
         Entered(tick, b, x, age, snap) # << >>
  PROVE  \E pos \in Positions : Entered(tick, b, x, age, snap) = <<pos>> /\ Placed(pos) /\ Fresh(pos, tick)
  <1>1. PICK c : c = process(tick, b, Lookback, x, TRUE, "CLEAR")
    OBVIOUS
  <1>2. PICK market : market = [status |-> "READY", age |-> age, spread |-> tick.ask - tick.bid]
    OBVIOUS
  <1>3. PICK lots : lots = evaluate(Risk, snap, c, market, "CLEAR").lots
    OBVIOUS
  <1>4. /\ c # None /\ evaluate(Risk, snap, c, market, "CLEAR").decision = "APPROVED" /\ lots \notin {None, 0}
        /\ Entered(tick, b, x, age, snap) = <<Enter(c, lots, snap.equity)>>
    BY <1>1, <1>2, <1>3 DEF Entered
  <1>5. Sensible(c, tick)
    BY <1>1, <1>4, CandidateSensible
  <1>6. c.entry \in Int /\ c.stop \in Int
    BY <1>5 DEF Sensible, Ticks
  <1>7. /\ lots \in Nat
        /\ Risk.fixed = None =>
              Risk.pct \in Nat /\ 100 * lots * Distance(c.entry, c.stop) <= Risk.pct * snap.equity
    BY <1>3, <1>4, <1>6, ApprovedSize
  <1>8. LET pos == Enter(c, lots, snap.equity) IN pos \in Positions /\ Placed(pos) /\ Fresh(pos, tick)
    BY <1>5, <1>7, EnterPlaced
  <1>9. QED
    BY <1>4, <1>8

-----------------------------------------------------------------------------
(* A tick.                                                                 *)

(* What is held and what is booked.                                        *)
Typed ==
    /\ (last = None /\ open = << >>) \/ (last \in Ticks /\ last.ask - last.bid = 2 * HalfSpread)
    /\ forming \in Bars \cup {None} /\ bars \in Seq(Bars)
    /\ open \in Seq(Positions) /\ done \in Seq(Trades)
    /\ balance \in Int /\ peak \in Int /\ drawdown \in Int /\ finished \in BOOLEAN

(* A gain or a loss is an amount.                                          *)
LEMMA GrossType == ASSUME NEW pos \in Positions, NEW price \in Int PROVE Gross(pos, price) \in Int
  <1>1. pos.entry \in Int /\ pos.lots \in Int
    BY DEF Positions
  <1>2. (IF pos.side = "BUY" THEN price - pos.entry ELSE pos.entry - price) \in Int
    BY <1>1
  <1>3. QED
    BY <1>1, <1>2 DEF Gross

(* A position that is closed is a trade.                                   *)
LEMMA ClosedType ==
  ASSUME NEW pos \in Positions, NEW price \in Int, NEW reason \in {"SL_HIT", "TP_HIT", "END_OF_DATA"}
  PROVE  Closed(pos, price, reason) \in Trades
  <1>1. pos.lots \in Nat /\ pos.commission \in Nat /\ pos.equity \in Int
    BY DEF Positions
  <1>2. Gross(pos, price) - pos.commission \in Int
    BY <1>1, GrossType
  <1>3. QED
    BY <1>1, <1>2 DEF Closed, Trades

(* The price at which a position would be closed now.                      *)
LEMMA MarketType == ASSUME NEW pos \in Positions, NEW tick \in Ticks PROVE Market(pos, tick) \in Int
  BY DEF Market, Ticks

(* One amount for each position.                                           *)
LEMMA FloatingType ==
  ASSUME NEW s \in Seq(Positions), NEW tick \in Ticks
  PROVE  /\ Floating(s, tick) \in Seq(Int) /\ Len(Floating(s, tick)) = Len(s)
         /\ \A i \in 1..Len(s) : Floating(s, tick)[i] = Gross(s[i], Market(s[i], tick))
  <1>1. DOMAIN s = 1..Len(s) /\ Len(s) \in Nat
    OBVIOUS
  <1>2. \A i \in 1..Len(s) : s[i] \in Positions
    BY ElementOfSeq
  <1>3. \A i \in 1..Len(s) : Gross(s[i], Market(s[i], tick)) \in Int
    BY <1>2, GrossType, MarketType
  <1>4. QED
    BY <1>1, <1>3 DEF Floating

(* A trade of a position that leaves at one of its levels.                 *)
Hit(t, pos, tick) == Exit(pos, tick) # None /\ t = Closed(pos, Exit(pos, tick), HitReason(pos, tick))

(* It is a trade.                                                          *)
LEMMA HitType ==
  ASSUME NEW pos \in Positions, NEW tick, Exit(pos, tick) # None
  PROVE  Closed(pos, Exit(pos, tick), HitReason(pos, tick)) \in Trades
  <1>1. pos.stop \in Int /\ pos.target \in Int
    BY DEF Positions
  <1>2. Exit(pos, tick) \in {pos.stop, pos.target}
    BY DEF Exit
  <1>3. HitReason(pos, tick) \in {"SL_HIT", "TP_HIT", "END_OF_DATA"}
    BY DEF HitReason
  <1>4. QED
    BY <1>1, <1>2, <1>3, ClosedType

(* What one tick does, for a tick, the trades it ends, the positions that  *)
(* stay and the one it opens.                                              *)
Ticked(tick, exits, still, added) ==
    /\ tick.ask - tick.bid = 2 * HalfSpread
    /\ last' = tick /\ done' = done \o exits /\ open' = still \o added
    /\ balance' = balance + Sum(Nets(exits))
    /\ LET equity == balance' + Sum(Floating(still, tick))
       IN  /\ peak' = IF equity > peak THEN equity ELSE peak
           /\ drawdown' = Deeper(drawdown, peak', balance', Sum(Floating(still, tick)))
    /\ \A k \in 1..Len(exits) : \E i \in 1..Len(open) : Hit(exits[k], open[i], tick)
    /\ \A k \in 1..Len(still) : Exit(still[k], tick) = None /\ \E i \in 1..Len(open) : still[k] = open[i]
    /\ added # << >> => \E pos \in Positions : added = <<pos>> /\ Placed(pos) /\ Fresh(pos, tick)
    /\ forming' \in Bars /\ bars' \in Seq(Bars) /\ ~finished /\ ~finished'

(* Every tick is like that.                                                *)
LEMMA TickStep ==
  ASSUME Typed, NEW p \in Prices, NEW crosses \in BOOLEAN, NEW x, crosses => x \in Indicators, NEW age,
         OnTick(p, crosses, x, age)
  PROVE  \E tick \in Ticks, exits \in Seq(Trades), still \in Seq(Positions), added \in Seq(Positions) :
            Ticked(tick, exits, still, added)
  <1>1. PICK tick : tick = Tick(p)
    OBVIOUS
  <1>2. p \in Int /\ HalfSpread \in Nat
    BY BacktestAssumption
  <1>3. tick \in Ticks /\ tick.ask - tick.bid = 2 * HalfSpread
    BY <1>1, <1>2 DEF Tick, Ticks
  <1>4. PICK leaving : leaving = Picked(open, {i \in DOMAIN open : Exit(open[i], tick) # None})
    OBVIOUS
  <1>5. PICK still : still = Picked(open, {i \in DOMAIN open : Exit(open[i], tick) = None})
    OBVIOUS
  <1>6. PICK exits : exits = [i \in DOMAIN leaving |->
                                Closed(leaving[i], Exit(leaving[i], tick), HitReason(leaving[i], tick))]
    OBVIOUS
  <1>7. open \in Seq(Positions) /\ DOMAIN open = 1..Len(open)
    BY DEF Typed
  <1>8. /\ leaving \in Seq(Positions)
        /\ \A k \in DOMAIN leaving : \E i \in 1..Len(open) : Exit(open[i], tick) # None /\ leaving[k] = open[i]
    <2>1. PICK S : S = {i \in DOMAIN open : Exit(open[i], tick) # None}
      OBVIOUS
    <2>2. leaving = Picked(open, S)
      BY <1>4, <2>1
    <2>3. /\ leaving \in Seq(Positions)
          /\ \A k \in DOMAIN leaving : \E i \in DOMAIN open : i \in S /\ leaving[k] = open[i]
      BY <1>7, <2>2, PickedFrom
    <2>4. QED
      BY <1>7, <2>1, <2>3
  <1>9. /\ still \in Seq(Positions)
        /\ \A k \in DOMAIN still : \E i \in 1..Len(open) : Exit(open[i], tick) = None /\ still[k] = open[i]
    <2>1. PICK S : S = {i \in DOMAIN open : Exit(open[i], tick) = None}
      OBVIOUS
    <2>2. still = Picked(open, S)
      BY <1>5, <2>1
    <2>3. /\ still \in Seq(Positions)
          /\ \A k \in DOMAIN still : \E i \in DOMAIN open : i \in S /\ still[k] = open[i]
      BY <1>7, <2>2, PickedFrom
    <2>4. QED
      BY <1>7, <2>1, <2>3
  <1>10. /\ exits \in Seq(Trades)
         /\ \A k \in 1..Len(exits) : \E i \in 1..Len(open) : Hit(exits[k], open[i], tick)
    <2>1. DOMAIN leaving = 1..Len(leaving) /\ Len(leaving) \in Nat
      BY <1>8
    <2>2. \A k \in 1..Len(leaving) : leaving[k] \in Positions /\ Exit(leaving[k], tick) # None
      BY <1>8, <2>1, ElementOfSeq
    <2>3. \A k \in 1..Len(leaving) :
             Closed(leaving[k], Exit(leaving[k], tick), HitReason(leaving[k], tick)) \in Trades
      BY <2>2, HitType
    <2>4. exits \in Seq(Trades) /\ Len(exits) = Len(leaving)
      BY <1>6, <2>1, <2>3
    <2>5. ASSUME NEW k \in 1..Len(exits) PROVE \E i \in 1..Len(open) : Hit(exits[k], open[i], tick)
      <3>1. k \in DOMAIN leaving
        BY <2>1, <2>4
      <3>2. PICK i \in 1..Len(open) : Exit(open[i], tick) # None /\ leaving[k] = open[i]
        BY <1>8, <3>1
      <3>3. exits[k] = Closed(open[i], Exit(open[i], tick), HitReason(open[i], tick))
        BY <1>6, <3>1, <3>2
      <3>4. QED
        BY <3>2, <3>3 DEF Hit
    <2>6. QED
      BY <2>4, <2>5
  <1>11. ASSUME NEW k \in 1..Len(still)
         PROVE  Exit(still[k], tick) = None /\ \E i \in 1..Len(open) : still[k] = open[i]
    BY <1>9
  <1>12. PICK cash : cash = balance + Sum(Nets(exits))
    OBVIOUS
  <1>13. PICK floating : floating = Sum(Floating(still, tick))
    OBVIOUS
  <1>14. PICK top : top = IF cash + floating > peak THEN cash + floating ELSE peak
    OBVIOUS
  <1>15. PICK closed : closed = IF crosses THEN Append(bars, forming) ELSE bars
    OBVIOUS
  <1>16. PICK added : added = IF crosses THEN Entered(tick, closed, x, age, Snapshot(cash, floating, top, still))
                              ELSE << >>
    OBVIOUS
  <1>17. /\ ~finished /\ (crosses => forming # None) /\ last' = tick /\ done' = done \o exits /\ balance' = cash
         /\ peak' = top /\ drawdown' = Deeper(drawdown, top, cash, floating) /\ bars' = closed /\ finished' = finished
         /\ forming' = IF crosses \/ forming = None THEN New(p) ELSE Updated(forming, p)
    BY <1>1, <1>4, <1>5, <1>6, <1>12, <1>13, <1>14, <1>15 DEF OnTick
  <1>18. open' = IF crosses THEN still \o Entered(tick, closed, x, age, Snapshot(cash, floating, top, still))
                 ELSE still
    BY <1>1, <1>4, <1>5, <1>6, <1>12, <1>13, <1>14, <1>15 DEF OnTick
  <1>19. open' = still \o added
    BY <1>9, <1>16, <1>18, ConcatEmptySeq
  <1>20. closed \in Seq(Bars)
    BY <1>15, <1>17 DEF Typed
  <1>21. forming' \in Bars
    <2>1. CASE crosses \/ forming = None
      BY <1>2, <1>17, <2>1 DEF New, Bars
    <2>2. CASE ~(crosses \/ forming = None)
      <3>1. forming.high \in Int /\ forming.low \in Int
        BY <2>2 DEF Typed, Bars
      <3>2. forming' = Updated(forming, p)
        BY <1>17, <2>2
      <3>3. QED
        BY <1>2, <3>1, <3>2 DEF Updated, Bars
    <2>3. QED
      BY <2>1, <2>2
  <1>22. cash \in Int /\ floating \in Int
    <2>1. Nets(exits) \in Seq(Int) /\ Floating(still, tick) \in Seq(Int)
      BY <1>3, <1>9, <1>10, NetsType, FloatingType
    <2>2. Sum(Nets(exits)) \in Int /\ floating \in Int
      BY <1>13, <2>1, SumType
    <2>3. QED
      BY <1>12, <2>2 DEF Typed
  <1>23. ASSUME added # << >> PROVE \E pos \in Positions : added = <<pos>> /\ Placed(pos) /\ Fresh(pos, tick)
    <2>1. Snapshot(cash, floating, top, still).equity \in Int
      BY <1>22 DEF Snapshot
    <2>2. crosses /\ x \in Indicators /\ added = Entered(tick, closed, x, age, Snapshot(cash, floating, top, still))
      BY <1>16, <1>23
    <2>3. QED
      BY <1>3, <1>20, <1>23, <2>1, <2>2, EnteredPlaced
  <1>24. added \in Seq(Positions)
    <2>1. CASE added = << >>
      BY <2>1
    <2>2. CASE added # << >>
      <3>1. PICK pos \in Positions : added = <<pos>>
        BY <1>23, <2>2
      <3>2. QED
        BY <3>1
    <2>3. QED
      BY <2>1, <2>2
  <1>25. Ticked(tick, exits, still, added)
    BY <1>3, <1>10, <1>11, <1>12, <1>13, <1>14, <1>17, <1>19, <1>20, <1>21, <1>23 DEF Ticked
  <1>26. QED
    BY <1>3, <1>9, <1>10, <1>24, <1>25

(* The end of the data, for the trades it closes.                          *)
Ended(closing) ==
    /\ ~finished /\ finished' /\ open' = << >>
    /\ done' = done \o closing /\ balance' = balance + Sum(Nets(closing))
    /\ Len(closing) = Len(open)
    /\ \A i \in 1..Len(open) : closing[i] = Closed(open[i], Market(open[i], last), "END_OF_DATA")
    /\ UNCHANGED <<last, forming, bars, peak, drawdown>>

(* The last step is like that.                                             *)
LEMMA FinishStep == ASSUME Typed, Finish PROVE \E closing \in Seq(Trades) : Ended(closing)
  <1>1. PICK closing : closing = [i \in DOMAIN open |-> Closed(open[i], Market(open[i], last), "END_OF_DATA")]
    OBVIOUS
  <1>2. open \in Seq(Positions) /\ DOMAIN open = 1..Len(open) /\ Len(open) \in Nat
    BY DEF Typed
  <1>3. ASSUME NEW i \in 1..Len(open) PROVE Closed(open[i], Market(open[i], last), "END_OF_DATA") \in Trades
    <2>1. open[i] \in Positions
      BY <1>2, ElementOfSeq
    <2>2. open # << >>
      BY <1>2
    <2>3. Market(open[i], last) \in Int
      BY <2>1, <2>2, MarketType DEF Typed
    <2>4. QED
      BY <2>1, <2>3, ClosedType
  <1>4. closing \in Seq(Trades) /\ Len(closing) = Len(open)
    BY <1>1, <1>2, <1>3
  <1>5. \A i \in 1..Len(open) : closing[i] = Closed(open[i], Market(open[i], last), "END_OF_DATA")
    BY <1>1, <1>2
  <1>6. /\ ~finished /\ finished' = TRUE /\ open' = << >>
        /\ done' = done \o closing /\ balance' = balance + Sum(Nets(closing))
        /\ UNCHANGED <<last, forming, bars, peak, drawdown>>
    BY <1>1 DEF Finish
  <1>7. QED
    BY <1>4, <1>5, <1>6 DEF Ended

(* The steps there are.                                                    *)
LEMMA Steps ==
  ASSUME Typed, [Next]_vars
  PROVE  \/ \E tick \in Ticks, exits \in Seq(Trades), still \in Seq(Positions), added \in Seq(Positions) :
               Ticked(tick, exits, still, added)
         \/ \E closing \in Seq(Trades) : Ended(closing)
         \/ UNCHANGED <<last, forming, bars, open, done, balance, peak, drawdown, finished>>
  <1>1. CASE \E p \in Prices : OnTick(p, FALSE, None, 0)
    BY <1>1, TickStep
  <1>2. CASE \E p \in Prices, x \in Indicators, age \in Ages : OnTick(p, TRUE, x, age)
    BY <1>2, TickStep
  <1>3. CASE Finish
    BY <1>3, FinishStep
  <1>4. CASE UNCHANGED vars
    BY <1>4 DEF vars, money
  <1>5. QED
    BY <1>1, <1>2, <1>3, <1>4 DEF Next

(* The first state.                                                        *)
LEMMA InitTyped == Init => Typed
  <1> HAVE Init
  <1>1. << >> \in Seq(Bars) /\ << >> \in Seq(Positions) /\ << >> \in Seq(Trades)
    OBVIOUS
  <1>2. /\ balance \in Int /\ peak \in Int /\ drawdown \in Int /\ finished \in BOOLEAN
        /\ last = None /\ open = << >> /\ forming = None
        /\ bars \in Seq(Bars) /\ open \in Seq(Positions) /\ done \in Seq(Trades)
    <2>1. /\ last = None /\ open = << >> /\ forming = None /\ bars = << >> /\ done = << >>
          /\ balance = Initial /\ peak = Initial /\ drawdown = 0 /\ finished = FALSE
      BY DEF Init
    <2>2. Initial \in Int
      BY BacktestAssumption
    <2>3. balance \in Int /\ peak \in Int /\ drawdown \in Int
      BY <2>1, <2>2
    <2>4. finished \in BOOLEAN
      BY <2>1
    <2>5. bars \in Seq(Bars) /\ open \in Seq(Positions) /\ done \in Seq(Trades)
      BY <1>1, <2>1
    <2>6. QED
      BY <2>1, <2>3, <2>4, <2>5
  <1>3. QED
    BY <1>2 DEF Typed

(* A tick keeps the types.                                                 *)
LEMMA TickTyped ==
  ASSUME Typed, NEW tick \in Ticks, NEW exits \in Seq(Trades), NEW still \in Seq(Positions),
         NEW added \in Seq(Positions), Ticked(tick, exits, still, added)
  PROVE  Typed'
  <1>1. open' \in Seq(Positions) /\ done' \in Seq(Trades)
    <2>1. open' = still \o added /\ done' = done \o exits /\ done \in Seq(Trades)
      BY DEF Ticked, Typed
    <2>2. QED
      BY <2>1, ConcatProperties
  <1>2. PICK floating : floating = Sum(Floating(still, tick))
    OBVIOUS
  <1>3. Sum(Nets(exits)) \in Int /\ floating \in Int
    <2>1. Nets(exits) \in Seq(Int) /\ Floating(still, tick) \in Seq(Int)
      BY NetsType, FloatingType
    <2>2. QED
      BY <1>2, <2>1, SumType
  <1>4. balance' \in Int
    <2>1. balance' = balance + Sum(Nets(exits))
      BY DEF Ticked
    <2>2. balance \in Int
      BY DEF Typed
    <2>3. QED
      BY <1>3, <2>1, <2>2
  <1>5. peak' \in Int /\ drawdown' \in Int
    <2>1. /\ peak' = IF balance' + floating > peak THEN balance' + floating ELSE peak
          /\ drawdown' = Deeper(drawdown, peak', balance', floating)
      BY <1>2 DEF Ticked
    <2>2. peak \in Int /\ drawdown \in Int
      BY DEF Typed
    <2>3. PICK equity : equity = balance' + floating
      OBVIOUS
    <2>4. equity \in Int
      BY <1>3, <1>4, <2>3
    <2>5. peak' = IF equity > peak THEN equity ELSE peak
      BY <2>1, <2>3
    <2>6. peak' \in Int
      BY <2>2, <2>4, <2>5
    <2>7. drawdown' = IF peak' - equity > drawdown THEN peak' - equity ELSE drawdown
      BY <2>1, <2>3 DEF Deeper
    <2>10. peak' - equity \in Int
      BY <2>4, <2>6
    <2>8. drawdown' \in Int
      BY <2>2, <2>7, <2>10
    <2>9. QED
      BY <2>6, <2>8
  <1>6. /\ last' = tick /\ tick.ask - tick.bid = 2 * HalfSpread /\ forming' \in Bars /\ bars' \in Seq(Bars)
        /\ finished' = FALSE
    BY DEF Ticked
  <1>7. QED
    BY <1>1, <1>4, <1>5, <1>6 DEF Typed

(* Every step keeps the types.                                             *)
LEMMA NextTyped == Typed /\ [Next]_vars => Typed'
  <1> SUFFICES ASSUME Typed, [Next]_vars PROVE Typed'
    OBVIOUS
  <1>2. ASSUME NEW closing \in Seq(Trades), Ended(closing) PROVE Typed'
    <2>1. done' \in Seq(Trades) /\ open' = << >> /\ open' \in Seq(Positions)
      BY <1>2 DEF Ended, Typed
    <2>2. Sum(Nets(closing)) \in Int
      BY NetsType, SumType
    <2>3. balance' \in Int
      BY <1>2, <2>2 DEF Ended, Typed
    <2>4. finished' \in BOOLEAN /\ UNCHANGED <<last, forming, bars, peak, drawdown>>
      BY <1>2 DEF Ended
    <2>5. QED
      BY <2>1, <2>3, <2>4 DEF Typed
  <1>3. CASE UNCHANGED <<last, forming, bars, open, done, balance, peak, drawdown, finished>>
    BY <1>3 DEF Typed
  <1>4. QED
    BY <1>2, <1>3, Steps, TickTyped

(* BacktestEngine.run: the types of its variables, for any input.          *)
THEOREM TypesKept == Spec => []Typed
  BY InitTyped, NextTyped, PTL DEF Spec

-----------------------------------------------------------------------------
(* Scores.                                                                 *)

(* Between them the two directions never share enough evidence.            *)
LEMMA ScoresApart ==
  ASSUME NEW st, NEW reg, NEW setup
  PROVE  Confidence("BUY", st, reg, setup) + Confidence("SELL", st, reg, setup) <= 1350
         /\ Confidence("BUY", st, reg, setup) \in Int /\ Confidence("SELL", st, reg, setup) \in Int
  <1>1. score_structure("BUY", st) \in {0, 100, 150, 250} /\ score_structure("SELL", st) \in {0, 100, 150, 250}
        /\ ~(score_structure("BUY", st) = 250 /\ score_structure("SELL", st) = 250)
    BY DEF score_structure, Toward
  <1>2. score_trend("BUY", reg) \in {0, 100, 200} /\ score_trend("SELL", reg) \in {0, 100, 200}
        /\ ~(score_trend("BUY", reg) = 200 /\ score_trend("SELL", reg) = 200)
    BY DEF score_trend, Toward
  <1>3. score_setup("BUY", setup) \in {0, 125, 200, 250} /\ score_setup("SELL", setup) \in {0, 125, 200, 250}
        /\ score_setup("BUY", setup) + score_setup("SELL", setup) <= 250
    BY DEF score_setup, Toward
  <1>4. score_momentum("BUY", reg) \in {0, 50, 100} /\ score_momentum("SELL", reg) \in {0, 50, 100}
        /\ score_momentum("BUY", reg) + score_momentum("SELL", reg) <= 100
    BY DEF score_momentum, Toward
  <1>5. score_volatility(reg) \in {0, 50, 80, 100}
    BY DEF score_volatility
  <1>6. score_regime("BUY", reg) \in {0, 30, 100} /\ score_regime("SELL", reg) \in {0, 30, 100}
        /\ score_regime("BUY", reg) + score_regime("SELL", reg) <= 100
    BY DEF score_regime, Toward
  <1>7. /\ score_structure("BUY", st) + score_structure("SELL", st) <= 400
        /\ score_structure("BUY", st) \in Int /\ score_structure("SELL", st) \in Int
    BY <1>1
  <1>8. /\ score_trend("BUY", reg) + score_trend("SELL", reg) <= 300
        /\ score_trend("BUY", reg) \in Int /\ score_trend("SELL", reg) \in Int
    BY <1>2
  <1>9. score_setup("BUY", setup) \in Int /\ score_setup("SELL", setup) \in Int
    BY <1>3
  <1>10. score_momentum("BUY", reg) \in Int /\ score_momentum("SELL", reg) \in Int
    BY <1>4
  <1>11. score_volatility(reg) \in Int /\ score_volatility(reg) <= 100
    BY <1>5
  <1>12. score_regime("BUY", reg) \in Int /\ score_regime("SELL", reg) \in Int
    BY <1>6
  <1>13. /\ score_setup("BUY", setup) + score_setup("SELL", setup) <= 250
         /\ score_momentum("BUY", reg) + score_momentum("SELL", reg) <= 100
         /\ score_regime("BUY", reg) + score_regime("SELL", reg) <= 100
    BY <1>3, <1>4, <1>6
  <1>14. QED
    BY <1>7, <1>8, <1>9, <1>10, <1>11, <1>12, <1>13 DEF Confidence

(* MultiFactorScorer.evaluate: evidence never supports both directions, so *)
(* the order in which it looks at them and its tie-break do not matter.    *)
THEOREM NeverBothDirections == Spec => []OneDirection
  <1>1. ASSUME NEW st, NEW reg, NEW setup
        PROVE  ~ \A d \in {"BUY", "SELL"} : Confidence(d, st, reg, setup) >= min_conf
    <2>1. PICK buy : buy = Confidence("BUY", st, reg, setup)
      OBVIOUS
    <2>2. PICK sell : sell = Confidence("SELL", st, reg, setup)
      OBVIOUS
    <2>3. buy + sell <= 1350 /\ buy \in Int /\ sell \in Int
      BY <2>1, <2>2, ScoresApart
    <2>4. ~(buy >= 700 /\ sell >= 700)
      BY <2>3
    <2>5. QED
      BY <2>1, <2>2, <2>4 DEF min_conf
  <1>2. OneDirection
    BY <1>1 DEF OneDirection
  <1>3. QED
    BY <1>2, PTL

-----------------------------------------------------------------------------
(* Stops, targets and losses.                                              *)

(* An open position is well placed, and either has just been opened or has *)
(* survived the last tick.                                                 *)
Survives(pos, tick) == Exit(pos, tick) = None \/ Fresh(pos, tick)

Held == \A i \in 1..Len(open) : Placed(open[i]) /\ Survives(open[i], last)

(* A tick keeps what is placed and adds what is.                           *)
LEMMA TickHeld ==
  ASSUME Typed, Held, NEW tick \in Ticks, NEW exits \in Seq(Trades), NEW still \in Seq(Positions),
         NEW added \in Seq(Positions), Ticked(tick, exits, still, added)
  PROVE  Held'
  <1>1. open' = still \o added /\ last' = tick
    BY DEF Ticked
  <1>2. \A k \in 1..Len(still) : Placed(still[k]) /\ Survives(still[k], tick)
    <2>1. \A k \in 1..Len(still) : Exit(still[k], tick) = None /\ \E i \in 1..Len(open) : still[k] = open[i]
      BY DEF Ticked
    <2>2. QED
      BY <2>1 DEF Held, Survives
  <1>3. \A k \in 1..Len(added) : Placed(added[k]) /\ Survives(added[k], tick)
    <2>1. SUFFICES ASSUME NEW k \in 1..Len(added) PROVE Placed(added[k]) /\ Survives(added[k], tick)
      OBVIOUS
    <2>2. added # << >>
      OBVIOUS
    <2>3. PICK pos \in Positions : added = <<pos>> /\ Placed(pos) /\ Fresh(pos, tick)
      BY <2>2 DEF Ticked
    <2>4. added[k] = pos
      BY <2>3
    <2>5. QED
      BY <2>3, <2>4 DEF Survives
  <1>4. PICK held : held = still \o added
    OBVIOUS
  <1>5. /\ Len(held) = Len(still) + Len(added) /\ Len(still) \in Nat /\ Len(added) \in Nat
        /\ \A k \in 1..(Len(still) + Len(added)) : held[k] = IF k <= Len(still) THEN still[k] ELSE added[k - Len(still)]
    BY <1>4, ConcatProperties
  <1>6. ASSUME NEW k \in 1..Len(held) PROVE Placed(held[k]) /\ Survives(held[k], tick)
    <2>1. CASE k <= Len(still)
      <3>1. k \in 1..Len(still) /\ held[k] = still[k]
        BY <1>5, <2>1
      <3>2. QED
        BY <1>2, <3>1
    <2>2. CASE ~(k <= Len(still))
      <3>1. k - Len(still) \in 1..Len(added) /\ held[k] = added[k - Len(still)]
        BY <1>5, <2>2
      <3>2. QED
        BY <1>3, <3>1
    <2>3. QED
      BY <2>1, <2>2
  <1>7. \A k \in 1..Len(open') : Placed(open'[k]) /\ Survives(open'[k], last')
    BY <1>1, <1>4, <1>6
  <1>8. QED
    BY <1>7 DEF Held, Placed, Survives, Fresh, Ref, Exit

(* Every step keeps the positions placed.                                  *)
LEMMA NextHeld == Typed /\ Held /\ [Next]_vars => Held'
  <1> SUFFICES ASSUME Typed, Held, [Next]_vars PROVE Held'
    OBVIOUS
  <1>1. ASSUME NEW closing \in Seq(Trades), Ended(closing) PROVE Held'
    <2>1. open' = << >>
      BY <1>1 DEF Ended
    <2>2. 1..Len(open') = {}
      BY <2>1
    <2>3. QED
      BY <2>2 DEF Held
  <1>2. CASE UNCHANGED <<last, forming, bars, open, done, balance, peak, drawdown, finished>>
    BY <1>2 DEF Held, Placed, Survives, Fresh, Ref, Exit
  <1>3. QED
    BY <1>1, <1>2, Steps, TickHeld

(* MultiFactorScorer._compute_sl_tp and the entry that follows it: stop    *)
(* and target of every open position are on the two sides of the price the *)
(* Brain had in mind, the target twice as far.                             *)
THEOREM StopsAndTargetsPlaced == Spec => []StopAndTarget
  <1>1. Init => Held
    <2> HAVE Init
    <2>1. 1..Len(open) = {}
      BY DEF Init
    <2>2. QED
      BY <2>1 DEF Held
  <1>2. Typed /\ Held => StopAndTarget
    <2> SUFFICES ASSUME Typed, Held PROVE StopAndTarget
      OBVIOUS
    <2>1. DOMAIN open = 1..Len(open)
      BY DEF Typed
    <2>2. QED
      BY <2>1 DEF Held, Placed, Ref, StopAndTarget
  <1>3. QED
    BY <1>1, <1>2, InitTyped, NextTyped, NextHeld, PTL DEF Spec

(* What a trade has lost, costs aside.                                     *)
Loss(t) == -t.net - t.commission - t.lots * Slippage

(* How far a price is on the losing side of the reference price.           *)
Adverse(pos, price) == IF pos.side = "BUY" THEN Ref(pos) - price ELSE price - Ref(pos)

(* The loss of a position closed at a price.                               *)
LEMMA LossIs ==
  ASSUME NEW pos \in Positions, NEW price \in Int, NEW reason
  PROVE  Adverse(pos, price) \in Int /\ Loss(Closed(pos, price, reason)) = Adverse(pos, price) * pos.lots
  <1>1. PICK t : t = Closed(pos, price, reason)
    OBVIOUS
  <1>2. pos.entry \in Int /\ pos.lots \in Nat /\ pos.commission \in Nat /\ Slippage \in Nat /\ pos.side \in Sides
    BY BacktestAssumption DEF Positions
  <1>3. t.net = Gross(pos, price) - pos.commission /\ t.commission = pos.commission /\ t.lots = pos.lots
    BY <1>1 DEF Closed
  <1>4. Gross(pos, price) \in Int
    BY GrossType
  <1>5. Loss(t) = -Gross(pos, price) - pos.lots * Slippage
    BY <1>2, <1>3, <1>4 DEF Loss
  <1>6. CASE pos.side = "BUY"
    <2>1. Gross(pos, price) = (price - pos.entry) * pos.lots /\ Adverse(pos, price) = (pos.entry - Slippage) - price
      BY <1>6 DEF Gross, Adverse, Ref
    <2>2. -((price - pos.entry) * pos.lots) - pos.lots * Slippage = ((pos.entry - Slippage) - price) * pos.lots
      BY <1>2
    <2>3. QED
      BY <1>1, <1>2, <1>5, <2>1, <2>2
  <1>7. CASE pos.side # "BUY"
    <2>1. Gross(pos, price) = (pos.entry - price) * pos.lots /\ Adverse(pos, price) = price - (pos.entry + Slippage)
      BY <1>7 DEF Gross, Adverse, Ref
    <2>2. -((pos.entry - price) * pos.lots) - pos.lots * Slippage = (price - (pos.entry + Slippage)) * pos.lots
      BY <1>2
    <2>3. QED
      BY <1>1, <1>2, <1>5, <2>1, <2>2
  <1>8. QED
    BY <1>6, <1>7

(* A price no farther than the stop loses no more than the size allows.    *)
LEMMA LossWithin ==
  ASSUME NEW pos \in Positions, Placed(pos), Risk.fixed = None, NEW price \in Int, NEW reason,
         Adverse(pos, price) <= Distance(Ref(pos), pos.stop)
  PROVE  100 * Loss(Closed(pos, price, reason)) <= Risk.pct * pos.equity
  <1>1. PICK a : a = Adverse(pos, price)
    OBVIOUS
  <1>2. PICK r : r = Distance(Ref(pos), pos.stop)
    OBVIOUS
  <1>3. PICK n : n = pos.lots
    OBVIOUS
  <1>4. PICK limit : limit = Risk.pct * pos.equity
    OBVIOUS
  <1>5. a \in Int /\ Loss(Closed(pos, price, reason)) = a * n
    BY <1>1, <1>3, LossIs
  <1>6. Ref(pos) \in Int /\ pos.stop \in Int /\ n \in Nat /\ pos.equity \in Int
    BY <1>3, BacktestAssumption DEF Positions, Ref
  <1>7. r \in Int
    BY <1>2, <1>6 DEF Distance
  <1>8. Risk.pct \in Nat /\ 100 * n * r <= limit
    BY <1>2, <1>3, <1>4 DEF Placed
  <1>9. limit \in Int
    BY <1>4, <1>6, <1>8
  <1>10. a <= r
    BY <1>1, <1>2
  <1>11. a * n <= r * n /\ a * n \in Int /\ r * n \in Int
    BY <1>5, <1>6, <1>7, <1>10
  <1>12. 100 * n * r = 100 * (r * n)
    BY <1>6, <1>7
  <1>13. 100 * (a * n) <= limit
    BY <1>8, <1>9, <1>11, <1>12
  <1>14. QED
    BY <1>4, <1>5, <1>13

(* The distance to the stop of a placed position.                          *)
LEMMA StopDistance ==
  ASSUME NEW pos \in Positions, Placed(pos)
  PROVE  /\ Ref(pos) \in Int /\ pos.stop \in Int /\ pos.target \in Int
         /\ Distance(Ref(pos), pos.stop) \in Nat
         /\ Adverse(pos, pos.stop) = Distance(Ref(pos), pos.stop)
         /\ Adverse(pos, pos.target) <= Distance(Ref(pos), pos.stop)
  <1>1. PICK r : r = Ref(pos)
    OBVIOUS
  <1>2. pos.entry \in Int /\ pos.stop \in Int /\ pos.target \in Int /\ Slippage \in Nat
    BY BacktestAssumption DEF Positions
  <1>3. r \in Int
    BY <1>1, <1>2 DEF Ref
  <1>4. pos.target - r = 2 * (r - pos.stop) /\ IF pos.side = "BUY" THEN pos.stop < r ELSE r < pos.stop
    BY <1>1 DEF Placed
  <1>5. CASE pos.side = "BUY"
    <2>1. pos.stop < r
      BY <1>4, <1>5
    <2>2. Distance(r, pos.stop) = r - pos.stop
      BY <1>2, <1>3, <2>1 DEF Distance
    <2>3. Adverse(pos, pos.stop) = r - pos.stop /\ Adverse(pos, pos.target) = r - pos.target
      BY <1>1, <1>5 DEF Adverse
    <2>4. r - pos.target <= r - pos.stop /\ r - pos.stop \in Nat
      BY <1>2, <1>3, <1>4, <2>1
    <2>5. QED
      BY <1>1, <1>2, <1>3, <2>2, <2>3, <2>4
  <1>6. CASE pos.side # "BUY"
    <2>1. r < pos.stop
      BY <1>4, <1>6
    <2>2. Distance(r, pos.stop) = pos.stop - r
      BY <1>2, <1>3, <2>1 DEF Distance
    <2>3. Adverse(pos, pos.stop) = pos.stop - r /\ Adverse(pos, pos.target) = pos.target - r
      BY <1>1, <1>6 DEF Adverse
    <2>4. pos.target - r <= pos.stop - r /\ pos.stop - r \in Nat
      BY <1>2, <1>3, <1>4, <2>1
    <2>5. QED
      BY <1>1, <1>2, <1>3, <2>2, <2>3, <2>4
  <1>7. QED
    BY <1>5, <1>6

(* LossBound for one trade.                                                *)
Bounded(t) == 100 * Loss(t) <= Risk.pct * t.equity \/ (t.reason = "END_OF_DATA" /\ Loss(t) <= t.lots * 2 * HalfSpread)

(* A trade at its stop or its target, wherever the tick was.               *)
LEMMA HitBounded ==
  ASSUME NEW pos \in Positions, Placed(pos), Risk.fixed = None, NEW tick, NEW t, Hit(t, pos, tick)
  PROVE  Bounded(t)
  <1>1. Exit(pos, tick) \in {pos.stop, pos.target}
    BY DEF Hit, Exit
  <1>2. PICK price \in Int : price = Exit(pos, tick) /\ Adverse(pos, price) <= Distance(Ref(pos), pos.stop)
    BY <1>1, StopDistance
  <1>3. t = Closed(pos, price, HitReason(pos, tick))
    BY <1>2 DEF Hit
  <1>4. 100 * Loss(t) <= Risk.pct * pos.equity
    BY <1>2, <1>3, LossWithin
  <1>5. t.equity = pos.equity
    BY <1>3 DEF Closed
  <1>6. QED
    BY <1>4, <1>5 DEF Bounded

(* A trade that ends with the data.                                        *)
LEMMA EndBounded ==
  ASSUME NEW pos \in Positions, Placed(pos), Risk.fixed = None, NEW tick \in Ticks,
         tick.ask - tick.bid = 2 * HalfSpread, Survives(pos, tick)
  PROVE  Bounded(Closed(pos, Market(pos, tick), "END_OF_DATA"))
  <1>1. PICK t : t = Closed(pos, Market(pos, tick), "END_OF_DATA")
    OBVIOUS
  <1>2. t.equity = pos.equity /\ t.lots = pos.lots /\ t.reason = "END_OF_DATA"
    BY <1>1 DEF Closed
  <1>3. tick.bid \in Int /\ tick.ask \in Int /\ pos.side \in Sides
    BY DEF Ticks, Positions
  <1>4. PICK price \in Int : price = Market(pos, tick)
    BY MarketType
  <1>5. CASE Exit(pos, tick) = None
    <2>1. pos.stop # None /\ pos.target # None /\ pos.stop \in Int /\ Ref(pos) \in Int
      BY StopDistance, NoneAssumption
    <2>2. Adverse(pos, price) <= Adverse(pos, pos.stop)
      <3>1. CASE pos.side = "BUY"
        <4>1. ~(tick.bid <= pos.stop) /\ price = tick.bid
          BY <1>4, <1>5, <2>1, <3>1 DEF Exit, Market
        <4>2. Ref(pos) - price <= Ref(pos) - pos.stop
          BY <1>3, <2>1, <4>1
        <4>3. QED
          BY <3>1, <4>2 DEF Adverse
      <3>2. CASE pos.side # "BUY"
        <4>1. ~(tick.ask >= pos.stop) /\ price = tick.ask
          BY <1>4, <1>5, <2>1, <3>2 DEF Exit, Market
        <4>2. price - Ref(pos) <= pos.stop - Ref(pos)
          BY <1>3, <2>1, <4>1
        <4>3. QED
          BY <3>2, <4>2 DEF Adverse
      <3>3. QED
        BY <3>1, <3>2
    <2>3. Adverse(pos, price) <= Distance(Ref(pos), pos.stop)
      BY <2>2, StopDistance
    <2>4. 100 * Loss(t) <= Risk.pct * pos.equity
      BY <1>1, <1>4, <2>3, LossWithin
    <2>5. QED
      BY <1>1, <1>2, <2>4 DEF Bounded
  <1>6. CASE Fresh(pos, tick)
    <2>1. Adverse(pos, price) = 2 * HalfSpread
      <3>1. CASE pos.side = "BUY"
        BY <1>4, <1>6, <3>1 DEF Fresh, Market, Adverse
      <3>2. CASE pos.side # "BUY"
        BY <1>4, <1>6, <3>2 DEF Fresh, Market, Adverse
      <3>3. QED
        BY <3>1, <3>2
    <2>2. Loss(t) = (2 * HalfSpread) * pos.lots
      BY <1>1, <1>4, <2>1, LossIs
    <2>3. pos.lots \in Nat /\ HalfSpread \in Nat
      BY BacktestAssumption DEF Positions
    <2>4. (2 * HalfSpread) * pos.lots <= pos.lots * 2 * HalfSpread
      BY <2>3
    <2>5. QED
      BY <1>1, <1>2, <2>2, <2>4 DEF Bounded
  <1>7. QED
    BY <1>5, <1>6 DEF Survives

(* The trades after a step are the ones before it and some more.           *)
LEMMA TradesAfter ==
  ASSUME NEW s \in Seq(Trades), NEW t \in Seq(Trades), NEW i \in 1..Len(s \o t)
  PROVE  \/ (\E k \in 1..Len(s) : (s \o t)[i] = s[k])
         \/ (\E k \in 1..Len(t) : (s \o t)[i] = t[k])
  <1>1. /\ Len(s \o t) = Len(s) + Len(t) /\ Len(s) \in Nat /\ Len(t) \in Nat
        /\ \A k \in 1..(Len(s) + Len(t)) : (s \o t)[k] = IF k <= Len(s) THEN s[k] ELSE t[k - Len(s)]
    BY ConcatProperties
  <1>2. CASE i <= Len(s)
    <2>1. i \in 1..Len(s) /\ (s \o t)[i] = s[i]
      BY <1>1, <1>2
    <2>2. QED
      BY <2>1
  <1>3. CASE ~(i <= Len(s))
    <2>1. i - Len(s) \in 1..Len(t) /\ (s \o t)[i] = t[i - Len(s)]
      BY <1>1, <1>3
    <2>2. QED
      BY <2>1
  <1>4. QED
    BY <1>2, <1>3

AllBounded == Risk.fixed = None => \A i \in 1..Len(done) : Bounded(done[i])

(* The trades that a step adds keep to the bound.                          *)
LEMMA NextBounded == Typed /\ Held /\ AllBounded /\ [Next]_vars => AllBounded'
  <1> SUFFICES ASSUME Typed, Held, AllBounded, [Next]_vars, Risk.fixed = None
               PROVE  \A i \in 1..Len(done') : Bounded(done'[i])
    BY DEF AllBounded, Bounded, Loss
  <1>1. \A i \in 1..Len(done) : Bounded(done[i])
    BY DEF AllBounded
  <1>2. done \in Seq(Trades) /\ open \in Seq(Positions)
    BY DEF Typed
  <1>3. \A i \in 1..Len(open) : open[i] \in Positions /\ Placed(open[i]) /\ Survives(open[i], last)
    BY <1>2, ElementOfSeq DEF Held
  <1>4. ASSUME NEW more \in Seq(Trades), done' = done \o more, \A k \in 1..Len(more) : Bounded(more[k])
        PROVE  \A i \in 1..Len(done') : Bounded(done'[i])
    <2>1. SUFFICES ASSUME NEW i \in 1..Len(done \o more) PROVE Bounded((done \o more)[i])
      BY <1>4
    <2>2. \/ (\E k \in 1..Len(done) : (done \o more)[i] = done[k])
          \/ (\E k \in 1..Len(more) : (done \o more)[i] = more[k])
      BY <1>2, TradesAfter
    <2>3. QED
      BY <1>1, <1>4, <2>2
  <1>5. ASSUME NEW tick \in Ticks, NEW exits \in Seq(Trades), NEW still \in Seq(Positions),
               NEW added \in Seq(Positions), Ticked(tick, exits, still, added)
        PROVE  \A i \in 1..Len(done') : Bounded(done'[i])
    <2>1. done' = done \o exits /\ \A k \in 1..Len(exits) : \E i \in 1..Len(open) : Hit(exits[k], open[i], tick)
      BY <1>5 DEF Ticked
    <2>2. \A k \in 1..Len(exits) : Bounded(exits[k])
      BY <1>3, <2>1, HitBounded
    <2>3. QED
      BY <1>4, <2>1, <2>2
  <1>6. ASSUME NEW closing \in Seq(Trades), Ended(closing) PROVE \A i \in 1..Len(done') : Bounded(done'[i])
    <2>1. /\ done' = done \o closing /\ Len(closing) = Len(open)
          /\ \A i \in 1..Len(open) : closing[i] = Closed(open[i], Market(open[i], last), "END_OF_DATA")
      BY <1>6 DEF Ended
    <2>2. ASSUME NEW k \in 1..Len(closing) PROVE Bounded(closing[k])
      <3>1. k \in 1..Len(open) /\ open # << >>
        BY <1>2, <2>1
      <3>2. last \in Ticks /\ last.ask - last.bid = 2 * HalfSpread
        BY <3>1 DEF Typed
      <3>3. Bounded(Closed(open[k], Market(open[k], last), "END_OF_DATA"))
        BY <1>3, <3>1, <3>2, EndBounded
      <3>4. QED
        BY <2>1, <3>1, <3>3
    <2>3. QED
      BY <1>4, <2>1, <2>2
  <1>7. CASE UNCHANGED <<last, forming, bars, open, done, balance, peak, drawdown, finished>>
    BY <1>1, <1>7
  <1>8. QED
    BY <1>5, <1>6, <1>7, Steps

(* BacktestEngine.run with a risk configuration without a fixed size: no   *)
(* trade loses more than its share of the equity, the costs aside, unless  *)
(* the data end with the tick that opened it.                              *)
THEOREM LossesBounded == Spec => []LossBound
  <1>1. Init => Held /\ AllBounded
    <2> HAVE Init
    <2>1. 1..Len(open) = {} /\ 1..Len(done) = {}
      BY DEF Init
    <2>2. QED
      BY <2>1 DEF Held, AllBounded
  <1>2. Typed /\ AllBounded => LossBound
    <2> SUFFICES ASSUME Typed, AllBounded PROVE LossBound
      OBVIOUS
    <2>1. DOMAIN done = 1..Len(done)
      BY DEF Typed
    <2>2. QED
      BY <2>1 DEF AllBounded, Bounded, Loss, LossBound
  <1>3. QED
    BY <1>1, <1>2, InitTyped, NextTyped, NextHeld, NextBounded, PTL DEF Spec

-----------------------------------------------------------------------------
(* The books.                                                              *)

Booked == balance = Initial + Sum(Nets(done))

(* Every step books what it reports.                                       *)
LEMMA NextBooked == Typed /\ Booked /\ [Next]_vars => Booked'
  <1> SUFFICES ASSUME Typed, Booked, [Next]_vars PROVE Booked'
    OBVIOUS
  <1>1. done \in Seq(Trades) /\ balance \in Int /\ Initial \in Int
    BY BacktestAssumption DEF Typed
  <1>2. ASSUME NEW more \in Seq(Trades), done' = done \o more, balance' = balance + Sum(Nets(more))
        PROVE  Booked'
    <2>1. Nets(done \o more) = Nets(done) \o Nets(more)
      BY <1>1, NetsConcat
    <2>2. Nets(done) \in Seq(Int) /\ Nets(more) \in Seq(Int)
      BY <1>1, NetsType
    <2>3. Sum(Nets(done \o more)) = Sum(Nets(done)) + Sum(Nets(more))
      BY <2>1, <2>2, SumConcat
    <2>4. Sum(Nets(done)) \in Int /\ Sum(Nets(more)) \in Int
      BY <2>2, SumType
    <2>5. balance' = Initial + Sum(Nets(done \o more))
      BY <1>1, <1>2, <2>3, <2>4 DEF Booked
    <2>6. Nets(done') = Nets(done \o more)
      BY <1>2
    <2>7. balance' = Initial + Sum(Nets(done'))
      BY <2>5, <2>6
    <2>8. QED
      BY <2>7 DEF Booked, Sum, Nets
  <1>3. ASSUME NEW tick \in Ticks, NEW exits \in Seq(Trades), NEW still \in Seq(Positions),
               NEW added \in Seq(Positions), Ticked(tick, exits, still, added)
        PROVE  Booked'
    BY <1>2, <1>3 DEF Ticked
  <1>4. ASSUME NEW closing \in Seq(Trades), Ended(closing) PROVE Booked'
    BY <1>2, <1>4 DEF Ended
  <1>5. CASE UNCHANGED <<last, forming, bars, open, done, balance, peak, drawdown, finished>>
    BY <1>5 DEF Booked, Sum, Nets
  <1>6. QED
    BY <1>3, <1>4, <1>5, Steps

(* BacktestEngine.run: the balance is the initial one and what the trades  *)
(* made of it, and the report's net profit is gross profit minus gross     *)
(* loss, for any list of trades.                                           *)
THEOREM BooksAlwaysBalance == Spec => []BooksBalance
  <1>1. Init => Booked
    <2> HAVE Init
    <2>1. done = << >> /\ balance = Initial /\ Initial \in Int
      BY BacktestAssumption DEF Init
    <2>2. << >> \in Seq(Trades) /\ Len(<< >>) = 0
      OBVIOUS
    <2>3. Nets(<< >>) \in Seq(Int) /\ Len(Nets(<< >>)) = 0
      BY <2>2, NetsType
    <2>4. Sum(Nets(<< >>)) = 0
      BY <2>3, SumStepsOf
    <2>5. QED
      BY <2>1, <2>4 DEF Booked
  <1>2. Typed /\ Booked => BooksBalance
    <2> SUFFICES ASSUME Typed, Booked PROVE BooksBalance
      OBVIOUS
    <2>1. done \in Seq(Trades) /\ balance \in Int /\ Initial \in Int
      BY BacktestAssumption DEF Typed
    <2>2. Sum(Nets(done)) = Sum(Nets(Wins)) + Sum(Nets(Losses))
      BY <2>1, ProfitAndLoss DEF Wins, Losses
    <2>3. Wins \in Seq(Trades) /\ Losses \in Seq(Trades)
      BY <2>1, PickedFrom DEF Wins, Losses
    <2>4. Sum(Nets(Wins)) \in Int /\ Sum(Nets(Losses)) \in Int
      BY <2>3, NetsType, SumType
    <2>5. balance - Initial = Sum(Nets(Wins)) - (-Sum(Nets(Losses)))
      BY <2>1, <2>2, <2>4 DEF Booked
    <2>6. balance - Initial = gross_profit - gross_loss
      BY <2>5 DEF gross_profit, gross_loss
    <2>7. QED
      BY <2>6 DEF BooksBalance, Booked
  <1>3. QED
    BY <1>1, <1>2, InitTyped, NextTyped, NextBooked, PTL DEF Spec

-----------------------------------------------------------------------------
(* The drawdown.                                                           *)

(* A value for each element of a list.                                     *)
Mapped(s, v) == [i \in DOMAIN s |-> v[s[i]]]

(* One for each.                                                           *)
LEMMA MappedType ==
  ASSUME NEW X, NEW s \in Seq(X), NEW v \in [X -> Int]
  PROVE  Mapped(s, v) \in Seq(Int) /\ Len(Mapped(s, v)) = Len(s) /\ \A i \in 1..Len(s) : Mapped(s, v)[i] = v[s[i]]
  <1>1. DOMAIN s = 1..Len(s) /\ Len(s) \in Nat
    OBVIOUS
  <1>2. \A i \in 1..Len(s) : s[i] \in X
    BY ElementOfSeq
  <1>3. \A i \in 1..Len(s) : v[s[i]] \in Int
    BY <1>2
  <1>4. QED
    BY <1>1, <1>3 DEF Mapped

(* The values of a list and another that follows it.                       *)
LEMMA MappedConcat ==
  ASSUME NEW X, NEW s \in Seq(X), NEW t \in Seq(X), NEW v \in [X -> Int]
  PROVE  Sum(Mapped(s \o t, v)) = Sum(Mapped(s, v)) + Sum(Mapped(t, v))
  <1>1. /\ s \o t \in Seq(X) /\ Len(s \o t) = Len(s) + Len(t) /\ Len(s) \in Nat /\ Len(t) \in Nat
        /\ \A i \in 1..(Len(s) + Len(t)) : (s \o t)[i] = IF i <= Len(s) THEN s[i] ELSE t[i - Len(s)]
    BY ConcatProperties
  <1>2. PICK a : a = Mapped(s, v)
    OBVIOUS
  <1>3. PICK b : b = Mapped(t, v)
    OBVIOUS
  <1>4. PICK c : c = Mapped(s \o t, v)
    OBVIOUS
  <1>5. a \in Seq(Int) /\ Len(a) = Len(s) /\ \A i \in 1..Len(s) : a[i] = v[s[i]]
    BY <1>2, MappedType
  <1>6. b \in Seq(Int) /\ Len(b) = Len(t) /\ \A i \in 1..Len(t) : b[i] = v[t[i]]
    BY <1>3, MappedType
  <1>7. c \in Seq(Int) /\ Len(c) = Len(s) + Len(t) /\ \A i \in 1..(Len(s) + Len(t)) : c[i] = v[(s \o t)[i]]
    <2>1. PICK u : u = s \o t
      OBVIOUS
    <2>2. u \in Seq(X) /\ c = Mapped(u, v) /\ Len(u) = Len(s) + Len(t)
      BY <1>1, <1>4, <2>1
    <2>3. c \in Seq(Int) /\ Len(c) = Len(u) /\ \A i \in 1..Len(u) : c[i] = v[u[i]]
      BY <2>2, MappedType
    <2>4. QED
      BY <2>1, <2>2, <2>3
  <1>8. /\ a \o b \in Seq(Int) /\ Len(a \o b) = Len(a) + Len(b)
        /\ \A i \in 1..(Len(a) + Len(b)) : (a \o b)[i] = IF i <= Len(a) THEN a[i] ELSE b[i - Len(a)]
    <2>1. a \in Seq(Int)
      BY <1>5
    <2>2. b \in Seq(Int)
      BY <1>6
    <2>3. QED
      BY <2>1, <2>2, ConcatProperties
  <1>9. ASSUME NEW i \in 1..(Len(s) + Len(t)) PROVE c[i] = (a \o b)[i]
    <2>1. CASE i <= Len(s)
      <3>1. i \in 1..Len(s)
        BY <1>1, <2>1
      <3>2. c[i] = v[s[i]] /\ (a \o b)[i] = a[i]
        BY <1>1, <1>5, <1>6, <1>7, <1>8, <2>1
      <3>3. QED
        BY <1>5, <3>1, <3>2
    <2>2. CASE ~(i <= Len(s))
      <3>1. i - Len(s) \in 1..Len(t)
        BY <1>1, <2>2
      <3>2. c[i] = v[t[i - Len(s)]] /\ (a \o b)[i] = b[i - Len(s)]
        BY <1>1, <1>5, <1>6, <1>7, <1>8, <2>2
      <3>3. QED
        BY <1>6, <3>1, <3>2
    <2>3. QED
      BY <2>1, <2>2
  <1>10. c = a \o b
    BY <1>5, <1>6, <1>7, <1>8, <1>9, SeqEqual
  <1>11. QED
    BY <1>2, <1>3, <1>4, <1>5, <1>6, <1>10, SumConcat

(* Nothing below zero adds up to nothing below zero.                       *)
LEMMA SumNat == ASSUME NEW s \in Seq(Int), \A i \in 1..Len(s) : s[i] \in Nat PROVE Sum(s) \in Nat
  <1>1. PICK z : z = [i \in 1..Len(s) |-> 0]
    OBVIOUS
  <1>2. Len(s) \in Nat
    OBVIOUS
  <1>3. z \in Seq(Int) /\ Len(z) = Len(s) /\ \A i \in 1..Len(z) : z[i] = 0
    BY <1>1, <1>2
  <1>4. Sum(z) <= Sum(s)
    BY <1>3, SumLess
  <1>5. Sum(z) = Sum(z) + Sum(z)
    BY <1>3, SumPlus
  <1>6. QED
    BY <1>3, <1>4, <1>5, SumType

(* What it costs to open a position and close it at once.                  *)
Spread(pos) == pos.lots * (2 * HalfSpread + Slippage)
Spreads     == [pos \in Positions |-> Spread(pos)]
Valued(tick) == [pos \in Positions |-> Gross(pos, Market(pos, tick))]

(* The cost reported for a trade that ends with the data.                  *)
EndCost == [t \in Trades |-> IF t.reason = "END_OF_DATA"
                             THEN t.commission + t.lots * (2 * HalfSpread + Slippage) ELSE 0]

(* These are amounts.                                                      *)
LEMMA CostTypes ==
  /\ Spreads \in [Positions -> Nat] /\ Spreads \in [Positions -> Int] /\ EndCost \in [Trades -> Int]
  /\ \A tick \in Ticks : Valued(tick) \in [Positions -> Int]
  <1>1. HalfSpread \in Nat /\ Slippage \in Nat
    BY BacktestAssumption
  <1>2. ASSUME NEW pos \in Positions PROVE Spread(pos) \in Nat
    <2>1. pos.lots \in Nat
      BY DEF Positions
    <2>2. QED
      BY <1>1, <2>1 DEF Spread
  <1>3. ASSUME NEW t \in Trades PROVE t.commission + t.lots * (2 * HalfSpread + Slippage) \in Int
    <2>1. t.lots \in Nat /\ t.commission \in Nat
      BY DEF Trades
    <2>2. QED
      BY <1>1, <2>1
  <1>4. ASSUME NEW tick \in Ticks, NEW pos \in Positions PROVE Gross(pos, Market(pos, tick)) \in Int
    BY GrossType, MarketType
  <1>5. Spreads \in [Positions -> Nat] /\ Spreads \in [Positions -> Int]
    BY <1>2 DEF Spreads
  <1>6. EndCost \in [Trades -> Int]
    BY <1>3 DEF EndCost
  <1>7. QED
    BY <1>4, <1>5, <1>6 DEF Valued

(* Floating as a map.                                                      *)
LEMMA FloatingMapped ==
  ASSUME NEW s \in Seq(Positions), NEW tick
  PROVE  Floating(s, tick) = Mapped(s, Valued(tick))
  <1>1. \A i \in DOMAIN s : s[i] \in Positions
    BY ElementOfSeq
  <1>2. \A i \in DOMAIN s : Valued(tick)[s[i]] = Gross(s[i], Market(s[i], tick))
    BY <1>1 DEF Valued
  <1>3. QED
    BY <1>2 DEF Floating, Mapped

(* A fresh position stands below its entry by the spread and the slippage. *)
LEMMA FreshValue ==
  ASSUME NEW pos \in Positions, NEW tick \in Ticks, tick.ask - tick.bid = 2 * HalfSpread, Fresh(pos, tick)
  PROVE  Gross(pos, Market(pos, tick)) = -Spread(pos)
  <1>1. tick.bid \in Int /\ tick.ask \in Int /\ pos.entry \in Int /\ pos.lots \in Nat
        /\ HalfSpread \in Nat /\ Slippage \in Nat
    BY BacktestAssumption DEF Ticks, Positions
  <1>2. CASE pos.side = "BUY"
    <2>1. pos.entry - Slippage = tick.ask /\ Gross(pos, Market(pos, tick)) = (tick.bid - pos.entry) * pos.lots
      BY <1>2 DEF Fresh, Ref, Gross, Market
    <2>2. tick.bid - pos.entry = -(2 * HalfSpread + Slippage)
      BY <1>1, <2>1
    <2>3. (-(2 * HalfSpread + Slippage)) * pos.lots = -(pos.lots * (2 * HalfSpread + Slippage))
      BY <1>1
    <2>4. QED
      BY <2>1, <2>2, <2>3 DEF Spread
  <1>3. CASE pos.side # "BUY"
    <2>1. pos.entry + Slippage = tick.bid /\ Gross(pos, Market(pos, tick)) = (pos.entry - tick.ask) * pos.lots
      BY <1>3 DEF Fresh, Ref, Gross, Market
    <2>2. pos.entry - tick.ask = -(2 * HalfSpread + Slippage)
      BY <1>1, <2>1
    <2>3. (-(2 * HalfSpread + Slippage)) * pos.lots = -(pos.lots * (2 * HalfSpread + Slippage))
      BY <1>1
    <2>4. QED
      BY <2>1, <2>2, <2>3 DEF Spread
  <1>4. QED
    BY <1>2, <1>3

(* While the data last: no trade has ended with them, and the drawdown     *)
(* covers the fall from the peak but for the cost of the open positions.   *)
NoneEnded == \A i \in 1..Len(done) : done[i].reason # "END_OF_DATA"
Fallen    == peak - (balance + Sum(Floating(open, last))) <= drawdown + Sum(Mapped(open, Spreads))
Covers    == ~finished => NoneEnded /\ Fallen

(* The drawdown after a tick covers the equity of that tick.               *)
LEMMA TickFallen ==
  ASSUME Typed, NEW tick \in Ticks, NEW exits \in Seq(Trades), NEW still \in Seq(Positions),
         NEW added \in Seq(Positions), Ticked(tick, exits, still, added)
  PROVE  Fallen'
  <1>1. PICK f : f = Sum(Floating(still, tick))
    OBVIOUS
  <1>2. PICK g : g = Sum(Floating(added, tick))
    OBVIOUS
  <1>3. PICK c : c = Sum(Mapped(still, Spreads))
    OBVIOUS
  <1>4. PICK d : d = Sum(Mapped(added, Spreads))
    OBVIOUS
  <1>5. f \in Int /\ g \in Int
    BY <1>1, <1>2, FloatingType, SumType
  <1>6. c \in Nat /\ d \in Int
    <2>1. \A i \in 1..Len(still) : Spreads[still[i]] \in Nat
      BY ElementOfSeq, CostTypes
    <2>2. PICK a : a = Mapped(still, Spreads)
      OBVIOUS
    <2>3. a \in Seq(Int) /\ Len(a) = Len(still) /\ \A i \in 1..Len(still) : a[i] = Spreads[still[i]]
      BY <2>2, CostTypes, MappedType
    <2>4. Sum(a) \in Nat
      BY <2>1, <2>3, SumNat
    <2>5. Mapped(added, Spreads) \in Seq(Int)
      BY CostTypes, MappedType
    <2>6. QED
      BY <1>3, <1>4, <2>2, <2>4, <2>5, SumType
  <1>17. Spreads \in [Positions -> Int]
    BY CostTypes
  <1>7. g + d = 0
    <2>1. CASE added = << >>
      <3>1. Floating(added, tick) \in Seq(Int) /\ Len(Floating(added, tick)) = 0
        BY <2>1, FloatingType
      <3>2. Mapped(added, Spreads) \in Seq(Int) /\ Len(Mapped(added, Spreads)) = 0
        BY <2>1, <1>17, MappedType
      <3>3. g = 0 /\ d = 0
        BY <1>2, <1>4, <3>1, <3>2, SumStepsOf
      <3>4. QED
        BY <3>3
    <2>2. CASE added # << >>
      <3>1. PICK pos \in Positions : added = <<pos>> /\ Fresh(pos, tick)
        BY <2>2 DEF Ticked
      <3>2. Len(added) = 1 /\ added[1] = pos
        BY <3>1
      <3>3. PICK a : a = Floating(added, tick)
        OBVIOUS
      <3>4. PICK b : b = Mapped(added, Spreads)
        OBVIOUS
      <3>5. a \in Seq(Int) /\ Len(a) = 1 /\ a[1] = Gross(pos, Market(pos, tick))
        <4>1. /\ a \in Seq(Int) /\ Len(a) = Len(added)
              /\ \A i \in 1..Len(added) : a[i] = Gross(added[i], Market(added[i], tick))
          BY <3>3, FloatingType
        <4>2. 1 \in 1..Len(added)
          BY <3>2
        <4>3. QED
          BY <3>2, <4>1, <4>2
      <3>6. b \in Seq(Int) /\ Len(b) = 1 /\ b[1] = Spreads[pos]
        <4>1. b \in Seq(Int) /\ Len(b) = Len(added) /\ \A i \in 1..Len(added) : b[i] = Spreads[added[i]]
          BY <3>4, <1>17, MappedType
        <4>2. 1 \in 1..Len(added)
          BY <3>2
        <4>3. QED
          BY <3>2, <4>1, <4>2
      <3>7. b[1] = Spread(pos)
        BY <3>6 DEF Spreads
      <3>8. a[1] = -Spread(pos)
        BY <3>1, <3>5, FreshValue DEF Ticked
      <3>9. Sum(a) = a[1]
        BY <3>5, SumOfOne
      <3>10. Sum(b) = b[1]
        BY <3>6, SumOfOne
      <3>11. g = a[1] /\ d = b[1]
        BY <1>2, <1>4, <3>3, <3>4, <3>9, <3>10
      <3>12. Spread(pos) \in Int
        <4>1. Spreads[pos] \in Int
          BY <1>17
        <4>2. QED
          BY <3>6, <3>7, <4>1
      <3>13. QED
        BY <3>7, <3>8, <3>11, <3>12
    <2>3. QED
      BY <2>1, <2>2
  <1>8. Sum(Floating(still \o added, tick)) = f + g
    <2>1. still \o added \in Seq(Positions)
      BY ConcatProperties
    <2>2. Sum(Mapped(still \o added, Valued(tick))) = Sum(Mapped(still, Valued(tick))) + Sum(Mapped(added, Valued(tick)))
      BY CostTypes, MappedConcat
    <2>3. QED
      BY <1>1, <1>2, <2>1, <2>2, FloatingMapped
  <1>9. Sum(Mapped(still \o added, Spreads)) = c + d
    BY <1>3, <1>4, CostTypes, MappedConcat
  <1>10. PICK equity : equity = balance' + f
    OBVIOUS
  <1>11. balance' \in Int /\ peak' \in Int /\ drawdown' \in Int
    <2>1. Typed'
      BY TickTyped
    <2>2. QED
      BY <2>1 DEF Typed
  <1>12. peak' - equity <= drawdown'
    <2>1. drawdown' = Deeper(drawdown, peak', balance', f)
      BY <1>1 DEF Ticked
    <2>2. drawdown' = IF peak' - equity > drawdown THEN peak' - equity ELSE drawdown
      BY <1>10, <2>1 DEF Deeper
    <2>3. equity \in Int /\ drawdown \in Int
      BY <1>5, <1>10, <1>11 DEF Typed
    <2>4. peak' - equity \in Int
      BY <1>11, <2>3
    <2>5. QED
      BY <2>2, <2>3, <2>4
  <1>13. peak' - (balance' + (f + g)) <= drawdown' + (c + d)
    <2>1. PICK top \in Int : top = peak'
      BY <1>11
    <2>2. PICK cash \in Int : cash = balance'
      BY <1>11
    <2>3. PICK deep \in Int : deep = drawdown'
      BY <1>11
    <2>4. top - (cash + f) <= deep
      BY <1>10, <1>12, <2>1, <2>2, <2>3
    <2>5. top - (cash + (f + g)) <= deep + (c + d)
      BY <1>5, <1>6, <1>7, <2>4
    <2>6. QED
      BY <2>1, <2>2, <2>3, <2>5
  <1>14. open' = still \o added /\ last' = tick
    BY DEF Ticked
  <1>15. peak' - (balance' + Sum(Floating(open', last'))) <= drawdown' + Sum(Mapped(open', Spreads))
    BY <1>8, <1>9, <1>13, <1>14
  <1>16. QED
    BY <1>15 DEF Fallen, Sum, Floating, Gross, Market, Mapped, Spreads, Spread

(* The cost of the trades that ended with the data.                        *)
LEMMA EndCosts ==
  ASSUME NEW s \in Seq(Trades)
  PROVE  Mapped(s, EndCost) = [i \in DOMAIN s |->
                                 IF s[i].reason = "END_OF_DATA"
                                 THEN s[i].commission + s[i].lots * (2 * HalfSpread + Slippage) ELSE 0]
  <1>1. \A i \in DOMAIN s : s[i] \in Trades
    BY ElementOfSeq
  <1>2. QED
    BY <1>1 DEF Mapped, EndCost

(* Closing everything at the last tick takes the balance to the equity of  *)
(* that tick, less the commissions.                                        *)
LEMMA ClosingSums ==
  ASSUME Typed, NEW closing \in Seq(Trades), Ended(closing)
  PROVE  /\ Sum(Nets(closing)) \in Int /\ Sum(Floating(open, last)) \in Int /\ Sum(Mapped(open, Spreads)) \in Int
         /\ Sum(Mapped(closing, EndCost)) = Sum(Floating(open, last)) - Sum(Nets(closing)) + Sum(Mapped(open, Spreads))
  <1>1. /\ Len(closing) = Len(open) /\ open \in Seq(Positions) /\ Len(open) \in Nat
        /\ \A i \in 1..Len(open) : closing[i] = Closed(open[i], Market(open[i], last), "END_OF_DATA")
    BY DEF Ended, Typed
  <1>2. PICK n : n = Nets(closing)
    OBVIOUS
  <1>3. PICK f : f = Floating(open, last)
    OBVIOUS
  <1>4. PICK w : w = Mapped(open, Spreads)
    OBVIOUS
  <1>5. PICK e : e = Mapped(closing, EndCost)
    OBVIOUS
  <1>6. PICK m : m = [i \in 1..Len(open) |-> open[i].commission]
    OBVIOUS
  <1>7. n \in Seq(Int) /\ Len(n) = Len(open) /\ \A i \in 1..Len(open) : n[i] = closing[i].net
    BY <1>1, <1>2, NetsType
  <1>8. w \in Seq(Int) /\ Len(w) = Len(open) /\ \A i \in 1..Len(open) : w[i] = Spreads[open[i]]
    <2>1. Spreads \in [Positions -> Int]
      BY CostTypes
    <2>2. QED
      BY <1>1, <1>4, <2>1, MappedType
  <1>9. e \in Seq(Int) /\ Len(e) = Len(open) /\ \A i \in 1..Len(open) : e[i] = EndCost[closing[i]]
    <2>1. EndCost \in [Trades -> Int]
      BY CostTypes
    <2>2. e \in Seq(Int) /\ Len(e) = Len(closing) /\ \A i \in 1..Len(closing) : e[i] = EndCost[closing[i]]
      BY <1>5, <2>1, MappedType
    <2>3. QED
      BY <1>1, <2>2
  <1>10. \A i \in 1..Len(open) : open[i] \in Positions /\ open[i].commission \in Int /\ open[i].commission \in Nat
    <2>1. \A i \in 1..Len(open) : open[i] \in Positions
      BY <1>1, ElementOfSeq
    <2>2. QED
      BY <2>1 DEF Positions
  <1>11. m \in Seq(Int) /\ Len(m) = Len(open) /\ \A i \in 1..Len(open) : m[i] = open[i].commission
    BY <1>1, <1>6, <1>10
  <1>12. f \in Seq(Int) /\ Len(f) = Len(open) /\ \A i \in 1..Len(open) : f[i] = Gross(open[i], Market(open[i], last))
    <2>1. CASE open = << >>
      <3>1. f = << >>
        BY <1>3, <2>1 DEF Floating
      <3>2. QED
        BY <2>1, <3>1
    <2>2. CASE open # << >>
      <3>1. last \in Ticks
        BY <2>2 DEF Typed
      <3>2. QED
        BY <1>1, <1>3, <3>1, FloatingType
    <2>3. QED
      BY <2>1, <2>2
  <1>13. \A i \in 1..Len(open) : f[i] \in Int /\ n[i] \in Int /\ w[i] \in Int /\ m[i] \in Int
    BY <1>7, <1>8, <1>11, <1>12, ElementOfSeq
  <1>14. ASSUME NEW i \in 1..Len(open) PROVE f[i] = n[i] + m[i] /\ e[i] = m[i] + w[i]
    <2>1. /\ closing[i].net = Gross(open[i], Market(open[i], last)) - open[i].commission
          /\ closing[i].reason = "END_OF_DATA" /\ closing[i].commission = open[i].commission
          /\ closing[i].lots = open[i].lots
      <3>1. PICK g : g = Gross(open[i], Market(open[i], last))
        OBVIOUS
      <3>2. PICK pos : pos = open[i]
        OBVIOUS
      <3>3. closing[i] = [net |-> g - pos.commission, reason |-> "END_OF_DATA",
                          lots |-> pos.lots, commission |-> pos.commission, equity |-> pos.equity]
        BY <1>1, <3>1, <3>2 DEF Closed
      <3>4. QED
        BY <3>1, <3>2, <3>3
    <2>2. f[i] = n[i] + m[i]
      <3>1. n[i] = f[i] - m[i]
        BY <1>7, <1>11, <1>12, <2>1
      <3>2. QED
        BY <1>13, <3>1
    <2>3. closing[i] \in Trades
      BY <1>1, ElementOfSeq
    <2>4. e[i] = open[i].commission + open[i].lots * (2 * HalfSpread + Slippage)
      BY <1>9, <2>1, <2>3 DEF EndCost
    <2>5. w[i] = open[i].lots * (2 * HalfSpread + Slippage)
      BY <1>8, <1>10 DEF Spreads, Spread
    <2>6. QED
      BY <1>11, <2>2, <2>4, <2>5
  <1>20. /\ Len(n) = Len(f) /\ Len(m) = Len(f) /\ (\A i \in 1..Len(f) : f[i] = n[i] + m[i])
         /\ Len(m) = Len(e) /\ Len(w) = Len(e) /\ (\A i \in 1..Len(e) : e[i] = m[i] + w[i])
    BY <1>7, <1>8, <1>9, <1>11, <1>12, <1>14
  <1>21. f \in Seq(Int) /\ n \in Seq(Int) /\ m \in Seq(Int) /\ e \in Seq(Int) /\ w \in Seq(Int)
    BY <1>7, <1>8, <1>9, <1>11, <1>12
  <1>15. Sum(f) = Sum(n) + Sum(m)
    BY <1>20, <1>21, SumPlus
  <1>16. Sum(e) = Sum(m) + Sum(w)
    BY <1>20, <1>21, SumPlus
  <1>17. Sum(f) \in Int /\ Sum(n) \in Int /\ Sum(m) \in Int /\ Sum(w) \in Int /\ Sum(e) \in Int
    BY <1>7, <1>8, <1>9, <1>11, <1>12, SumType
  <1>18. Sum(e) = Sum(f) - Sum(n) + Sum(w)
    BY <1>15, <1>16, <1>17
  <1>19. QED
    BY <1>2, <1>3, <1>4, <1>5, <1>17, <1>18

(* The trades of before the end cost nothing then.                         *)
LEMMA EarlierCosts ==
  ASSUME NEW s \in Seq(Trades), \A i \in 1..Len(s) : s[i].reason # "END_OF_DATA"
  PROVE  Sum(Mapped(s, EndCost)) = 0
  <1>1. EndCost \in [Trades -> Int]
    BY CostTypes
  <1>2. PICK e : e = Mapped(s, EndCost)
    OBVIOUS
  <1>3. e \in Seq(Int) /\ Len(e) = Len(s) /\ \A i \in 1..Len(s) : e[i] = EndCost[s[i]]
    BY <1>1, <1>2, MappedType
  <1>4. \A i \in 1..Len(s) : s[i] \in Trades
    BY ElementOfSeq
  <1>5. \A i \in 1..Len(e) : e[i] = 0
    BY <1>3, <1>4 DEF EndCost
  <1>6. Sum(e) = Sum(e) + Sum(e)
    BY <1>3, <1>5, SumPlus
  <1>7. Sum(e) \in Int
    BY <1>3, SumType
  <1>8. QED
    BY <1>2, <1>6, <1>7

(* The report of the last step.                                            *)
LEMMA EndReported ==
  ASSUME Typed, NoneEnded, Fallen, NEW closing \in Seq(Trades), Ended(closing)
  PROVE  DrawdownReported'
  <1>1. /\ done' = done \o closing /\ balance' = balance + Sum(Nets(closing)) /\ peak' = peak /\ drawdown' = drawdown
        /\ done \in Seq(Trades) /\ balance \in Int /\ peak \in Int /\ drawdown \in Int
    BY DEF Ended, Typed
  <1>2. PICK e : e = Sum(Mapped(closing, EndCost))
    OBVIOUS
  <1>3. Sum(Mapped(done \o closing, EndCost)) = e
    <2>1. EndCost \in [Trades -> Int]
      BY CostTypes
    <2>2. Sum(Mapped(done \o closing, EndCost)) = Sum(Mapped(done, EndCost)) + Sum(Mapped(closing, EndCost))
      BY <1>1, <2>1, MappedConcat
    <2>3. Sum(Mapped(done, EndCost)) = 0
      BY <1>1, EarlierCosts DEF NoneEnded
    <2>4. e \in Int
      BY <1>2, <2>1, MappedType, SumType
    <2>5. QED
      BY <1>2, <2>2, <2>3, <2>4
  <1>4. PICK n \in Int : n = Sum(Nets(closing))
    BY ClosingSums
  <1>5. PICK f \in Int : f = Sum(Floating(open, last))
    BY ClosingSums
  <1>6. PICK w \in Int : w = Sum(Mapped(open, Spreads))
    BY ClosingSums
  <1>7. e = f - n + w
    BY <1>2, <1>4, <1>5, <1>6, ClosingSums
  <1>8. peak - (balance + f) <= drawdown + w
    BY <1>5, <1>6 DEF Fallen
  <1>9. peak - (balance + n) <= drawdown + e
    BY <1>1, <1>7, <1>8
  <1>10. peak' - balance' <= drawdown' + e
    BY <1>1, <1>4, <1>9
  <1>11. PICK all : all = done \o closing
    OBVIOUS
  <1>12. all \in Seq(Trades) /\ done' = all /\ Sum(Mapped(all, EndCost)) = e
    BY <1>1, <1>3, <1>11, ConcatProperties
  <1>13. Mapped(all, EndCost) = [i \in DOMAIN all |->
                                   IF all[i].reason = "END_OF_DATA"
                                   THEN all[i].commission + all[i].lots * (2 * HalfSpread + Slippage) ELSE 0]
    BY <1>12, EndCosts
  <1>14. peak' - balance' <= drawdown' + Sum([i \in DOMAIN done' |->
                                   IF done'[i].reason = "END_OF_DATA"
                                   THEN done'[i].commission + done'[i].lots * (2 * HalfSpread + Slippage) ELSE 0])
    BY <1>10, <1>12, <1>13
  <1>15. QED
    BY <1>14 DEF DrawdownReported, Sum

(* Every step, with or without an end.                                     *)
LEMMA NextReported ==
  Typed /\ Covers /\ DrawdownReported /\ [Next]_vars => Covers' /\ DrawdownReported'
  <1> SUFFICES ASSUME Typed, Covers, DrawdownReported, [Next]_vars PROVE Covers' /\ DrawdownReported'
    OBVIOUS
  <1>1. ASSUME NEW tick \in Ticks, NEW exits \in Seq(Trades), NEW still \in Seq(Positions),
               NEW added \in Seq(Positions), Ticked(tick, exits, still, added)
        PROVE  Covers' /\ DrawdownReported'
    <2>1. Fallen'
      BY <1>1, TickFallen
    <2>2. ~finished /\ ~finished' /\ done' = done \o exits /\ done \in Seq(Trades)
      BY <1>1 DEF Ticked, Typed
    <2>3. \A k \in 1..Len(exits) : exits[k].reason # "END_OF_DATA"
      <3>1. \A k \in 1..Len(exits) : \E i \in 1..Len(open) : Hit(exits[k], open[i], tick)
        BY <1>1 DEF Ticked
      <3>2. ASSUME NEW t, NEW pos, Hit(t, pos, tick) PROVE t.reason # "END_OF_DATA"
        <4>1. t.reason = HitReason(pos, tick)
          BY <3>2 DEF Hit, Closed
        <4>2. QED
          BY <4>1 DEF HitReason
      <3>3. QED
        BY <3>1, <3>2
    <2>4. \A k \in 1..Len(done) : done[k].reason # "END_OF_DATA"
      BY <2>2 DEF Covers, NoneEnded
    <2>5. \A k \in 1..Len(done \o exits) : (done \o exits)[k].reason # "END_OF_DATA"
      <3>1. SUFFICES ASSUME NEW k \in 1..Len(done \o exits) PROVE (done \o exits)[k].reason # "END_OF_DATA"
        OBVIOUS
      <3>2. \/ (\E i \in 1..Len(done) : (done \o exits)[k] = done[i])
            \/ (\E i \in 1..Len(exits) : (done \o exits)[k] = exits[i])
        BY <2>2, TradesAfter
      <3>3. PICK t : t = (done \o exits)[k]
        OBVIOUS
      <3>4. (\E i \in 1..Len(done) : t = done[i]) \/ (\E i \in 1..Len(exits) : t = exits[i])
        BY <3>2, <3>3
      <3>5. t.reason # "END_OF_DATA"
        BY <2>3, <2>4, <3>4
      <3>6. QED
        BY <3>3, <3>5
    <2>6. NoneEnded'
      BY <2>2, <2>5 DEF NoneEnded
    <2>7. QED
      BY <2>1, <2>2, <2>6 DEF Covers, DrawdownReported
  <1>2. ASSUME NEW closing \in Seq(Trades), Ended(closing) PROVE Covers' /\ DrawdownReported'
    <2>1. NoneEnded /\ Fallen /\ finished'
      BY <1>2 DEF Ended, Covers
    <2>2. DrawdownReported'
      BY <1>2, <2>1, EndReported
    <2>3. QED
      BY <2>1, <2>2 DEF Covers
  <1>3. CASE UNCHANGED <<last, forming, bars, open, done, balance, peak, drawdown, finished>>
    BY <1>3 DEF Covers, NoneEnded, Fallen, DrawdownReported, Sum, Floating, Gross, Market, Mapped, Spreads, Spread
  <1>4. QED
    BY <1>1, <1>2, <1>3, Steps

(* BacktestEngine.run: the reported drawdown covers the fall to the final  *)
(* balance, but for the costs of what was still open at the last tick.     *)
THEOREM DrawdownCoversTheEnd == Spec => []DrawdownReported
  <1>1. Init => Covers /\ DrawdownReported
    <2> HAVE Init
    <2>1. /\ done = << >> /\ open = << >> /\ balance = Initial /\ peak = Initial /\ drawdown = 0
          /\ ~finished /\ Initial \in Int
      BY BacktestAssumption DEF Init
    <2>2. Floating(open, last) = << >> /\ Mapped(open, Spreads) = << >>
      BY <2>1 DEF Floating, Mapped
    <2>3. Fallen
      BY <2>1, <2>2, SumNone DEF Fallen
    <2>4. NoneEnded
      BY <2>1 DEF NoneEnded
    <2>5. QED
      BY <2>1, <2>3, <2>4 DEF Covers, DrawdownReported
  <1>2. QED
    BY <1>1, InitTyped, NextTyped, NextReported, PTL DEF Spec

-----------------------------------------------------------------------------
(* The summary.                                                            *)

(* A set with a largest element has Highest for it.                        *)
LEMMA HighestIs ==
  ASSUME NEW S \in SUBSET Int, NEW b \in S, \A d \in S : d <= b
  PROVE  Highest(S) = b
  <1>1. \E e \in S : \A d \in S : d <= e
    OBVIOUS
  <1>2. Highest(S) \in S /\ \A d \in S : d <= Highest(S)
    BY <1>1, Zenon DEF Highest
  <1>3. PICK h : h = Highest(S)
    OBVIOUS
  <1>4. h \in Int /\ h <= b /\ b <= h /\ b \in Int
    BY <1>2, <1>3
  <1>5. QED
    BY <1>3, <1>4

(* The amounts of a list have a largest one.                               *)
LEMMA HighestOf ==
  ASSUME NEW s \in Seq(Int), s # << >>
  PROVE  Highest({s[i] : i \in DOMAIN s}) \in Int /\ \A i \in 1..Len(s) : s[i] <= Highest({s[j] : j \in DOMAIN s})
  <1>1. Len(s) \in Nat /\ Len(s) # 0 /\ DOMAIN s = 1..Len(s)
    OBVIOUS
  <1>2. \A i \in 1..Len(s) : s[i] \in Int
    BY ElementOfSeq
  <1> DEFINE Top(n) == \E k \in 1..n : \A i \in 1..n : s[i] <= s[k]
             T == {n \in 0..Len(s) : n = 0 \/ Top(n)}
  <1>3. 0 \in T
    BY <1>1
  <1>4. ASSUME NEW n \in 0..Len(s), n \in T, n < Len(s) PROVE n + 1 \in T
    <2>1. n + 1 \in 1..Len(s) /\ s[n + 1] \in Int
      BY <1>1, <1>2, <1>4
    <2>2. Top(n + 1)
      <3>1. CASE n = 0
        <4>1. \A i \in 1..(n + 1) : i = n + 1
          BY <3>1
        <4>2. n + 1 \in 1..(n + 1)
          BY <3>1
        <4>3. s[n + 1] <= s[n + 1]
          BY <2>1
        <4>4. \A i \in 1..(n + 1) : s[i] <= s[n + 1]
          BY <4>1, <4>3
        <4>5. QED
          BY <4>2, <4>4
      <3>2. CASE n # 0
        <4>1. PICK k \in 1..n : \A i \in 1..n : s[i] <= s[k]
          BY <1>4, <3>2
        <4>2. k \in 1..Len(s) /\ s[k] \in Int /\ \A i \in 1..n : s[i] \in Int
          BY <1>1, <1>2, <1>4
        <4>3. \A i \in 1..(n + 1) : i \in 1..n \/ i = n + 1
          OBVIOUS
        <4>4. CASE s[n + 1] <= s[k]
          <5>1. k \in 1..(n + 1) /\ \A i \in 1..(n + 1) : s[i] <= s[k]
            BY <4>1, <4>3, <4>4
          <5>2. QED
            BY <5>1
        <4>5. CASE ~(s[n + 1] <= s[k])
          <5>1. n + 1 \in 1..(n + 1)
            OBVIOUS
          <5>2. \A i \in 1..(n + 1) : s[i] <= s[n + 1]
            BY <2>1, <4>1, <4>2, <4>3, <4>5
          <5>3. QED
            BY <5>1, <5>2
        <4>6. QED
          BY <4>4, <4>5
      <3>3. QED
        BY <3>1, <3>2
    <2> HIDE DEF Top
    <2>3. QED
      BY <1>1, <2>1, <2>2
  <1>5. 0..Len(s) \subseteq T
    <2> HIDE DEF T
    <2>1. QED
      BY <1>1, <1>3, <1>4, Induction
  <1>6. Len(s) \in T
    <2> HIDE DEF T
    <2>1. Len(s) \in 0..Len(s)
      BY <1>1
    <2>2. QED
      BY <1>5, <2>1
  <1>7. PICK k \in 1..Len(s) : \A i \in 1..Len(s) : s[i] <= s[k]
    BY <1>1, <1>6
  <1>8. PICK S : S = {s[i] : i \in DOMAIN s}
    OBVIOUS
  <1>9. S \in SUBSET Int /\ s[k] \in S /\ \A d \in S : d <= s[k]
    BY <1>1, <1>2, <1>7, <1>8
  <1>10. Highest(S) = s[k]
    BY <1>9, HighestIs
  <1>11. QED
    BY <1>2, <1>7, <1>8, <1>10

(* Among the first n places: `cur' in a row up to n, and never more than   *)
(* `best'.                                                                 *)
Run(K, n, cur, best) ==
    /\ cur \in 0..n /\ best \in 0..n
    /\ \A k \in 1..n : k > n - cur => k \in K
    /\ cur # n => n - cur \notin K
    /\ \E i \in 0..(n - best) : (i + 1)..(i + best) \subseteq K
    /\ \A m \in 0..n : \A i \in 0..(n - m) : (i + 1)..(i + m) \subseteq K => m <= best

(* One place more, in K.                                                   *)
LEMMA RunGoesOn ==
  ASSUME NEW K, NEW n \in Nat, NEW cur, NEW best, Run(K, n, cur, best), n + 1 \in K
  PROVE  Run(K, n + 1, cur + 1, IF cur + 1 > best THEN cur + 1 ELSE best)
  <1>1. cur \in 0..n /\ best \in 0..n /\ cur \in Nat /\ best \in Nat
    BY DEF Run
  <1>2. PICK top : top = IF cur + 1 > best THEN cur + 1 ELSE best
    OBVIOUS
  <1>3. top \in 0..(n + 1) /\ cur + 1 \in 0..(n + 1) /\ cur + 1 <= top /\ best <= top
    BY <1>1, <1>2
  <1>4. ASSUME NEW k \in 1..(n + 1), k > (n + 1) - (cur + 1) PROVE k \in K
    <2>1. CASE k = n + 1
      BY <2>1
    <2>2. CASE k # n + 1
      <3>1. k \in 1..n /\ k > n - cur
        BY <1>1, <1>4, <2>2
      <3>2. QED
        BY <3>1 DEF Run
    <2>3. QED
      BY <2>1, <2>2
  <1>5. cur + 1 # n + 1 => (n + 1) - (cur + 1) \notin K
    <2>1. cur + 1 # n + 1 => cur # n /\ (n + 1) - (cur + 1) = n - cur
      BY <1>1
    <2>2. QED
      BY <2>1 DEF Run
  <1>6. \E i \in 0..((n + 1) - top) : (i + 1)..(i + top) \subseteq K
    <2>1. CASE cur + 1 > best
      <3>1. top = cur + 1 /\ n - cur \in 0..((n + 1) - top)
        BY <1>1, <1>2, <2>1
      <3>2. ASSUME NEW k \in ((n - cur) + 1)..((n - cur) + top) PROVE k \in K
        <4>1. k \in 1..(n + 1) /\ k > (n + 1) - (cur + 1)
          BY <1>1, <3>1
        <4>2. QED
          BY <1>4, <4>1
      <3>3. QED
        BY <3>1, <3>2
    <2>2. CASE ~(cur + 1 > best)
      <3>1. PICK i \in 0..(n - best) : (i + 1)..(i + best) \subseteq K
        BY DEF Run
      <3>2. top = best /\ i \in 0..((n + 1) - best)
        BY <1>1, <1>2, <2>2
      <3>3. QED
        BY <3>1, <3>2
    <2>3. QED
      BY <2>1, <2>2
  <1>7. ASSUME NEW m \in 0..(n + 1), NEW i \in 0..((n + 1) - m), (i + 1)..(i + m) \subseteq K
        PROVE  m <= top
    <2>1. CASE i + m <= n
      <3>1. m \in 0..n /\ i \in 0..(n - m)
        BY <1>7, <2>1
      <3>2. m <= best
        BY <1>7, <3>1 DEF Run
      <3>3. QED
        BY <1>1, <1>3, <3>2
    <2>2. CASE i + m = n + 1 /\ m > cur + 1
      <3>1. n - cur \in (i + 1)..(i + m) /\ cur # n
        BY <1>1, <1>7, <2>2
      <3>2. n - cur \in K
        BY <1>7, <3>1
      <3>3. FALSE
        BY <3>1, <3>2 DEF Run
      <3>4. QED
        BY <3>3
    <2>3. CASE m <= cur + 1
      BY <1>1, <1>3, <2>3
    <2>4. i + m <= n + 1
      BY <1>7
    <2>5. QED
      BY <1>1, <2>1, <2>2, <2>3, <2>4
  <1>8. Run(K, n + 1, cur + 1, top)
    BY <1>3, <1>4, <1>5, <1>6, <1>7 DEF Run
  <1>9. QED
    BY <1>2, <1>8

(* One place more, not in K.                                               *)
LEMMA RunBreaks ==
  ASSUME NEW K, NEW n \in Nat, NEW cur, NEW best, Run(K, n, cur, best), n + 1 \notin K
  PROVE  Run(K, n + 1, 0, best)
  <1>1. cur \in 0..n /\ best \in 0..n /\ best \in 0..(n + 1) /\ 0 \in 0..(n + 1)
    BY DEF Run
  <1>2. \A k \in 1..(n + 1) : ~(k > (n + 1) - 0)
    OBVIOUS
  <1>3. (n + 1) - 0 \notin K
    OBVIOUS
  <1>4. \E i \in 0..((n + 1) - best) : (i + 1)..(i + best) \subseteq K
    <2>1. PICK i \in 0..(n - best) : (i + 1)..(i + best) \subseteq K
      BY DEF Run
    <2>2. i \in 0..((n + 1) - best)
      BY <1>1
    <2>3. QED
      BY <2>1, <2>2
  <1>5. ASSUME NEW m \in 0..(n + 1), NEW i \in 0..((n + 1) - m), (i + 1)..(i + m) \subseteq K
        PROVE  m <= best
    <2>1. CASE i + m <= n
      <3>1. m \in 0..n /\ i \in 0..(n - m)
        BY <1>5, <2>1
      <3>2. QED
        BY <1>5, <3>1 DEF Run
    <2>2. CASE m = 0
      BY <1>1, <2>2
    <2>3. CASE i + m = n + 1 /\ m # 0
      <3>1. n + 1 \in (i + 1)..(i + m)
        BY <1>5, <2>3
      <3>2. QED
        BY <1>5, <3>1
    <2>4. i + m <= n + 1
      BY <1>5
    <2>5. QED
      BY <2>1, <2>2, <2>3, <2>4
  <1>6. QED
    BY <1>1, <1>2, <1>3, <1>4, <1>5 DEF Run

Zero == [wins |-> 0, losses |-> 0, maxWins |-> 0, maxLosses |-> 0]

CountingUp(seq, f, n) == f = [i \in 0..n |-> IF i = 0 THEN Zero ELSE Counted(f[i - 1], seq[i])]

(* The counters after each trade exist.                                    *)
LEMMA CountsExist == ASSUME NEW s, NEW n \in Nat PROVE \E f : CountingUp(s, f, n)
  <1> DEFINE T == {k \in Nat : \E f : CountingUp(s, f, k)}
  <1>1. CountingUp(s, [i \in 0..0 |-> Zero], 0)
    BY DEF CountingUp
  <1>2. ASSUME NEW k \in T PROVE k + 1 \in T
    <2>1. PICK f : CountingUp(s, f, k)
      OBVIOUS
    <2> DEFINE g == [i \in 0..(k + 1) |-> IF i = 0 THEN Zero ELSE Counted(f[i - 1], s[i])]
    <2>2. ASSUME NEW i \in 0..k PROVE g[i] = f[i]
      BY <2>1 DEF CountingUp
    <2>3. ASSUME NEW i \in 0..(k + 1), i # 0 PROVE f[i - 1] = g[i - 1]
      <3>1. i - 1 \in 0..k
        BY <2>3
      <3>2. QED
        BY <3>1, <2>2
    <2>4. g = [i \in 0..(k + 1) |-> IF i = 0 THEN Zero ELSE Counted(f[i - 1], s[i])]
      OBVIOUS
    <2> HIDE DEF g
    <2>5. CountingUp(s, g, k + 1)
      BY <2>3, <2>4 DEF CountingUp
    <2>6. k + 1 \in Nat
      OBVIOUS
    <2>7. QED
      BY <2>5, <2>6
  <1> HIDE DEF T
  <1>3. 0 \in T
    BY <1>1 DEF T
  <1>4. 0..n \subseteq T
    BY <1>2, <1>3, Induction
  <1>5. QED
    BY <1>4 DEF T

(* Streaks is the last of them.                                            *)
LEMMA StreakSteps ==
  ASSUME Len(done) \in Nat
  PROVE  \E f : f[0] = Zero /\ Streaks = f[Len(done)] /\ \A n \in 1..Len(done) : f[n] = Counted(f[n - 1], done[n])
  <1> DEFINE f == CHOOSE f : CountingUp(done, f, Len(done))
  <1>1. CountingUp(done, f, Len(done))
    BY CountsExist, Zenon
  <1>2. Streaks = f[Len(done)]
    BY Zenon DEF Streaks, CountingUp, Zero
  <1> HIDE DEF f
  <1>3. f[0] = Zero /\ \A n \in 1..Len(done) : f[n] = Counted(f[n - 1], done[n])
    BY <1>1 DEF CountingUp
  <1>4. QED
    BY <1>2, <1>3

Winning == {i \in DOMAIN done : done[i].net > 0}
Losing  == {i \in DOMAIN done : done[i].net < 0}

(* The counters of one pass are the runs there are.                        *)
LEMMA StreaksAreRuns ==
  ASSUME done \in Seq(Trades)
  PROVE  /\ \E cur : Run(Winning, Len(done), cur, Streaks.maxWins)
         /\ \E cur : Run(Losing, Len(done), cur, Streaks.maxLosses)
  <1>1. Len(done) \in Nat /\ DOMAIN done = 1..Len(done)
    OBVIOUS
  <1>2. PICK f : f[0] = Zero /\ Streaks = f[Len(done)] /\ \A n \in 1..Len(done) : f[n] = Counted(f[n - 1], done[n])
    BY <1>1, StreakSteps
  <1> DEFINE Good(n) == Run(Winning, n, f[n].wins, f[n].maxWins) /\ Run(Losing, n, f[n].losses, f[n].maxLosses)
             T == {n \in 0..Len(done) : Good(n)}
  <1>3. 0 \in T
    <2>1. ASSUME NEW K PROVE Run(K, 0, 0, 0)
      <3>1. 0 \in 0..0 /\ 0 \in 0..(0 - 0) /\ 1..0 = {} /\ (0 + 1)..(0 + 0) = {}
        OBVIOUS
      <3>2. \A m \in 0..0 : m <= 0
        OBVIOUS
      <3>3. QED
        BY <3>1, <3>2 DEF Run
    <2>2. f[0].wins = 0 /\ f[0].losses = 0 /\ f[0].maxWins = 0 /\ f[0].maxLosses = 0
      BY <1>2 DEF Zero
    <2>3. Good(0)
      BY <2>1, <2>2
    <2> HIDE DEF Good
    <2>4. QED
      BY <1>1, <2>3
  <1>4. ASSUME NEW n \in 0..Len(done), n \in T, n < Len(done) PROVE n + 1 \in T
    <2>1. Good(n) /\ n \in Nat
      BY <1>1, <1>4
    <2>2. n + 1 \in 1..Len(done) /\ (n + 1) - 1 = n /\ n + 1 \in 0..Len(done)
      BY <1>1, <1>4
    <2>3. PICK t \in Trades : t = done[n + 1]
      BY <2>2, ElementOfSeq
    <2>4. f[n + 1] = Counted(f[n], t)
      BY <1>2, <2>2, <2>3
    <2>5. (n + 1 \in Winning <=> t.net > 0) /\ (n + 1 \in Losing <=> t.net < 0) /\ t.net \in Int
      BY <1>1, <2>2, <2>3 DEF Winning, Losing, Trades
    <2>6. PICK r : r = f[n]
      OBVIOUS
    <2>7. Run(Winning, n, r.wins, r.maxWins) /\ Run(Losing, n, r.losses, r.maxLosses)
      BY <2>1, <2>6
    <2>8. 0 <= r.maxWins /\ 0 <= r.maxLosses /\ r.maxWins \in Int /\ r.maxLosses \in Int
      <3>1. r.maxWins \in 0..n /\ r.maxLosses \in 0..n
        BY <2>7 DEF Run
      <3>2. QED
        BY <3>1
    <2>9. Run(Winning, n + 1, Counted(r, t).wins, Counted(r, t).maxWins)
      <3>1. CASE t.net > 0
        <4>1. /\ Counted(r, t).wins = r.wins + 1
              /\ Counted(r, t).maxWins = IF r.wins + 1 > r.maxWins THEN r.wins + 1 ELSE r.maxWins
          BY <3>1 DEF Counted
        <4>2. QED
          BY <2>1, <2>5, <2>7, <3>1, <4>1, RunGoesOn
      <3>2. CASE ~(t.net > 0)
        <4>1. Counted(r, t).wins = 0 /\ Counted(r, t).maxWins = r.maxWins
          BY <2>8, <3>2 DEF Counted
        <4>2. QED
          BY <2>1, <2>5, <2>7, <3>2, <4>1, RunBreaks
      <3>3. QED
        BY <3>1, <3>2
    <2>10. Run(Losing, n + 1, Counted(r, t).losses, Counted(r, t).maxLosses)
      <3>1. CASE t.net < 0
        <4>1. /\ Counted(r, t).losses = r.losses + 1
              /\ Counted(r, t).maxLosses = IF r.losses + 1 > r.maxLosses THEN r.losses + 1 ELSE r.maxLosses
          BY <3>1 DEF Counted
        <4>2. QED
          BY <2>1, <2>5, <2>7, <3>1, <4>1, RunGoesOn
      <3>2. CASE ~(t.net < 0)
        <4>1. Counted(r, t).losses = 0 /\ Counted(r, t).maxLosses = r.maxLosses
          BY <2>8, <3>2 DEF Counted
        <4>2. QED
          BY <2>1, <2>5, <2>7, <3>2, <4>1, RunBreaks
      <3>3. QED
        BY <3>1, <3>2
    <2>11. Good(n + 1)
      BY <2>4, <2>6, <2>9, <2>10
    <2> HIDE DEF Good
    <2>12. QED
      BY <2>2, <2>11
  <1>5. 0..Len(done) \subseteq T
    <2> HIDE DEF T
    <2>1. QED
      BY <1>1, <1>3, <1>4, Induction
  <1>6. Len(done) \in T
    <2> HIDE DEF T
    <2>1. Len(done) \in 0..Len(done)
      BY <1>1
    <2>2. QED
      BY <1>5, <2>1
  <1>7. Good(Len(done))
    BY <1>6
  <1>8. QED
    BY <1>2, <1>7

(* The longest run is the best one counted.                                *)
LEMMA LongestIs ==
  ASSUME Len(done) \in Nat, NEW K, NEW cur, NEW best, Run(K, Len(done), cur, best)
  PROVE  LongestRun(K) = best
  <1>1. PICK S : S = {n \in 0..Len(done) : \E i \in 0..(Len(done) - n) : (i + 1)..(i + n) \subseteq K}
    OBVIOUS
  <1>2. best \in S
    BY <1>1 DEF Run
  <1>3. \A m \in S : m <= best
    BY <1>1 DEF Run
  <1>4. S \in SUBSET Int
    BY <1>1
  <1>5. Highest(S) = best
    BY <1>2, <1>3, <1>4, HighestIs
  <1>6. QED
    BY <1>1, <1>5 DEF LongestRun

(* Wins add up to no more than as many times the largest.                  *)
LEMMA WinsBounded ==
  ASSUME done \in Seq(Trades)
  PROVE  gross_profit <= Len(Wins) * largest_win
  <1>1. Wins \in Seq(Trades)
    BY PickedFrom DEF Wins
  <1>2. PICK w : w = Wins
    OBVIOUS
  <1>3. PICK a : a = Nets(w)
    OBVIOUS
  <1>4. a \in Seq(Int) /\ Len(a) = Len(w) /\ (\A i \in 1..Len(w) : a[i] = w[i].net) /\ Len(w) \in Nat
    BY <1>1, <1>2, <1>3, NetsType
  <1>5. gross_profit = Sum(a)
    BY <1>2, <1>3 DEF gross_profit
  <1>6. CASE w = << >>
    <2>1. Len(a) = 0 /\ Sum(a) = 0
      BY <1>4, <1>6, SumStepsOf
    <2>2. largest_win = 0 /\ Len(Wins) = 0
      BY <1>2, <1>6 DEF largest_win
    <2>3. QED
      BY <1>5, <2>1, <2>2
  <1>7. CASE w # << >>
    <2>1. a # << >> /\ DOMAIN a = DOMAIN w
      BY <1>1, <1>2, <1>4, <1>7
    <2>2. PICK h : h = Highest({a[i] : i \in DOMAIN a})
      OBVIOUS
    <2>3. h \in Int /\ \A i \in 1..Len(a) : a[i] <= h
      BY <1>4, <2>1, <2>2, HighestOf
    <2>4. {a[i] : i \in DOMAIN a} = {w[i].net : i \in DOMAIN w}
      BY <1>1, <1>2, <1>4, <2>1
    <2>5. largest_win = h
      BY <1>2, <1>7, <2>2, <2>4 DEF largest_win
    <2>6. Sum(a) <= Len(a) * h
      BY <1>4, <2>3, SumBounded
    <2>7. QED
      BY <1>2, <1>4, <1>5, <2>5, <2>6
  <1>8. QED
    BY <1>6, <1>7

(* The amounts of a list with their signs changed add up to the opposite.  *)
LEMMA SumNegated ==
  ASSUME NEW a \in Seq(Int), NEW b \in Seq(Int), Len(b) = Len(a), \A i \in 1..Len(a) : a[i] + b[i] = 0
  PROVE  Sum(a) + Sum(b) = 0
  <1>1. Len(a) \in Nat
    OBVIOUS
  <1>2. PICK z : z = [i \in 1..Len(a) |-> 0]
    OBVIOUS
  <1>3. z \in Seq(Int) /\ Len(z) = Len(a) /\ \A i \in 1..Len(a) : z[i] = 0
    BY <1>1, <1>2
  <1>4. Len(a) = Len(z) /\ Len(b) = Len(z) /\ \A i \in 1..Len(z) : z[i] = a[i] + b[i]
    BY <1>3
  <1>5. Sum(z) = Sum(a) + Sum(b)
    BY <1>3, <1>4, SumPlus
  <1>6. \A i \in 1..Len(z) : z[i] = z[i] + z[i]
    BY <1>3
  <1>7. Sum(z) = Sum(z) + Sum(z)
    BY <1>3, <1>6, SumPlus
  <1>8. Sum(z) \in Int
    BY <1>3, SumType
  <1>9. Sum(z) = 0
    BY <1>7, <1>8
  <1>10. QED
    BY <1>5, <1>9

(* Losses add up to no more than as many times the largest.                *)
LEMMA LossesSumBounded ==
  ASSUME done \in Seq(Trades)
  PROVE  gross_loss <= -(Len(Losses) * largest_loss)
  <1>1. Losses \in Seq(Trades)
    BY PickedFrom DEF Losses
  <1>2. PICK w : w = Losses
    OBVIOUS
  <1>3. PICK a : a = Nets(w)
    OBVIOUS
  <1>4. a \in Seq(Int) /\ Len(a) = Len(w) /\ (\A i \in 1..Len(w) : a[i] = w[i].net) /\ Len(w) \in Nat
    BY <1>1, <1>2, <1>3, NetsType
  <1>5. gross_loss = -Sum(a) /\ Sum(a) \in Int
    BY <1>2, <1>3, <1>4, SumType DEF gross_loss
  <1>6. CASE w = << >>
    <2>1. Len(a) = 0 /\ Sum(a) = 0
      BY <1>4, <1>6, SumStepsOf
    <2>2. largest_loss = 0 /\ Len(Losses) = 0
      BY <1>2, <1>6 DEF largest_loss
    <2>3. QED
      BY <1>5, <2>1, <2>2
  <1>7. CASE w # << >>
    <2>1. PICK b : b = [i \in 1..Len(w) |-> -a[i]]
      OBVIOUS
    <2>2. ASSUME NEW i \in 1..Len(w) PROVE a[i] \in Int
      BY <1>4, ElementOfSeq
    <2>3. b \in Seq(Int) /\ Len(b) = Len(w) /\ \A i \in 1..Len(w) : b[i] = -a[i]
      BY <1>4, <2>1, <2>2
    <2>4. b # << >> /\ DOMAIN b = 1..Len(w) /\ DOMAIN w = 1..Len(w)
      BY <1>1, <1>2, <1>4, <1>7, <2>3
    <2>5. \A i \in 1..Len(a) : a[i] + b[i] = 0
      BY <1>4, <2>2, <2>3
    <2>6. Sum(a) + Sum(b) = 0
      BY <1>4, <2>3, <2>5, SumNegated
    <2>7. PICK h : h = Highest({b[i] : i \in DOMAIN b})
      OBVIOUS
    <2>8. h \in Int /\ \A i \in 1..Len(b) : b[i] <= h
      BY <2>3, <2>4, <2>7, HighestOf
    <2>9. {b[i] : i \in DOMAIN b} = {-w[i].net : i \in DOMAIN w}
      BY <1>4, <2>3, <2>4
    <2>10. largest_loss = -h
      BY <1>2, <1>7, <2>7, <2>9 DEF largest_loss
    <2>11. Sum(b) <= Len(b) * h
      BY <2>3, <2>8, SumBounded
    <2>12. Sum(b) \in Int
      BY <2>3, SumType
    <2>13. PICK n \in Nat : n = Len(w)
      BY <1>4
    <2>14. -(n * (-h)) = n * h
      BY <2>8
    <2>15. -Sum(a) <= n * h
      <3>1. Sum(b) <= n * h
        BY <2>3, <2>11, <2>13
      <3>2. n * h \in Int
        BY <2>8
      <3>3. QED
        BY <1>5, <2>6, <2>12, <3>1, <3>2
    <2>16. QED
      BY <1>2, <1>5, <2>10, <2>13, <2>14, <2>15
  <1>8. QED
    BY <1>6, <1>7

(* BacktestEngine.run, the summary: on any list of trades the one pass     *)
(* over it finds the longest streaks there are, and the largest win and    *)
(* loss bound the gross figures they are printed beside.                   *)
THEOREM SummaryAlwaysAgrees == Spec => []SummaryAgrees
  <1>1. Typed => SummaryAgrees
    <2> HAVE Typed
    <2>1. done \in Seq(Trades) /\ Len(done) \in Nat
      BY DEF Typed
    <2>2. PICK cw : Run(Winning, Len(done), cw, Streaks.maxWins)
      BY <2>1, StreaksAreRuns
    <2>3. PICK cl : Run(Losing, Len(done), cl, Streaks.maxLosses)
      BY <2>1, StreaksAreRuns
    <2>4. LongestRun(Winning) = Streaks.maxWins
      BY <2>1, <2>2, LongestIs
    <2>5. LongestRun(Losing) = Streaks.maxLosses
      BY <2>1, <2>3, LongestIs
    <2>6. gross_profit <= Len(Wins) * largest_win /\ gross_loss <= -(Len(Losses) * largest_loss)
      BY <2>1, WinsBounded, LossesSumBounded
    <2>7. QED
      BY <2>4, <2>5, <2>6, Zenon DEF SummaryAgrees, Winning, Losing
  <1>2. QED
    BY <1>1, TypesKept, PTL
=============================================================================
