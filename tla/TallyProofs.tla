---------------------------- MODULE TallyProofs ----------------------------
(***************************************************************************)
(* The safety properties of what is added up and concluded along a         *)
(* sequence: the player's ledger, for any number of consequences, finished *)
(* rounds, overlapping requests and failures; the agent's day, for any     *)
(* number of minutes, applications and faults and every size of a window;  *)
(* and what is made of telemetry, for any events, durations and answers of *)
(* the text model.                                                         *)
(*                                                                         *)
(* All three fold a sequence.  What a recursive function computes is       *)
(* proved by induction over a set of natural numbers, which rests on the   *)
(* well-foundedness of < on Nat.                                           *)
(***************************************************************************)
EXTENDS PlayerLedger, AgentDay, Judgement, FiniteSetTheorems, SequenceTheorems, WellFoundedInduction, TLAPS

Below == {p \in Nat \X Nat : p[1] < p[2]}

(* A set that holds 0 and with a number its successor holds all of Nat. *)
LEMMA Induction ==
  ASSUME NEW S, 0 \in S, \A n \in Nat : n \in S => n + 1 \in S
  PROVE  \A n \in Nat : n \in S
<1> SUFFICES ASSUME Nat \ S # {} PROVE FALSE
  OBVIOUS
<1>1. IsWellFoundedOn(Below, Nat)
  BY NatLessThanWellFounded DEF OpToRel, Below
<1>2. PICK x \in Nat \ S : \A y \in Nat \ S : ~ (<<y, x>> \in Below)
  BY <1>1, WFMin
<1>3. PICK m \in Nat : x = m + 1
  <2>1. x # 0 /\ x - 1 \in Nat /\ x = (x - 1) + 1
    OBVIOUS
  <2>2. QED
    BY <2>1
<1>4. <<m, x>> \in Below
  BY <1>3 DEF Below
<1>5. m \in S
  BY <1>2, <1>4
<1>6. QED
  BY <1>2, <1>3, <1>5

(* The values of a recursion: a first one, and a step from each to the     *)
(* next.                                                                   *)
Chained(g, V, first, step, N) ==
    g \in [0..N -> V] /\ g[0] = first /\ \A k \in 1..N : g[k] = step[k][g[k - 1]]

LEMMA Recursion ==
  ASSUME NEW V, NEW first \in V, NEW step \in [Nat -> [V -> V]], NEW N \in Nat
  PROVE  \E g : Chained(g, V, first, step, N)
<1> DEFINE S == {n \in Nat : \E g \in [0..n -> V] :
                    g[0] = first /\ \A k \in 1..n : g[k] = step[k][g[k - 1]]}
<1>1. 0 \in S
  <2>1. PICK g : g = [k \in 0..0 |-> first]
    OBVIOUS
  <2>2. g \in [0..0 -> V] /\ g[0] = first /\ \A k \in 1..0 : g[k] = step[k][g[k - 1]]
    BY <2>1
  <2>3. QED
    BY <2>2
<1>2. \A n \in Nat : n \in S => n + 1 \in S
  <2> SUFFICES ASSUME NEW n \in Nat, n \in S PROVE n + 1 \in S
    OBVIOUS
  <2>1. PICK g \in [0..n -> V] : g[0] = first /\ \A k \in 1..n : g[k] = step[k][g[k - 1]]
    OBVIOUS
  <2>2. PICK h : h = [k \in 0..(n + 1) |-> IF k = n + 1 THEN step[n + 1][g[n]] ELSE g[k]]
    OBVIOUS
  <2>3. step[n + 1][g[n]] \in V
    BY <2>1
  <2>4. h \in [0..(n + 1) -> V]
    BY <2>1, <2>2, <2>3
  <2>5. h[0] = first
    BY <2>1, <2>2
  <2>6. ASSUME NEW k \in 1..(n + 1) PROVE h[k] = step[k][h[k - 1]]
    <3>1. CASE k = n + 1
      <4>0. k \in 0..(n + 1) /\ n \in 0..(n + 1) /\ n # n + 1
        OBVIOUS
      <4>1. h[k] = step[n + 1][g[n]] /\ k - 1 = n /\ h[n] = g[n]
        BY <2>2, <3>1, <4>0
      <4>2. QED
        BY <3>1, <4>1
    <3>2. CASE k \in 1..n
      <4>0. k \in 0..(n + 1) /\ k # n + 1 /\ k - 1 \in 0..(n + 1) /\ k - 1 # n + 1
        BY <3>2
      <4>1. h[k] = g[k] /\ h[k - 1] = g[k - 1]
        BY <2>2, <4>0
      <4>2. QED
        BY <2>1, <3>2, <4>1
    <3>3. QED
      BY <3>1, <3>2
  <2>7. \A k \in 1..(n + 1) : h[k] = step[k][h[k - 1]]
    BY <2>6
  <2>8. \E f \in [0..(n + 1) -> V] : f[0] = first /\ \A k \in 1..(n + 1) : f[k] = step[k][f[k - 1]]
    <3>1. h \in [0..(n + 1) -> V]
      BY <2>4
    <3> WITNESS h \in [0..(n + 1) -> V]
    <3>2. QED
      BY <2>5, <2>7
  <2>9. n + 1 \in Nat
    OBVIOUS
  <2>10. QED
    BY <2>8, <2>9, Zenon
<1> HIDE DEF S
<1>3. N \in S
  BY <1>1, <1>2, Induction
<1>4. QED
  BY <1>3 DEF S, Chained

LEMMA IntegerRecursion ==
  ASSUME NEW step \in [Nat -> [Int -> Int]], NEW N \in Nat
  PROVE  \E g \in [0..N -> Int] : g[0] = 0 /\ \A k \in 1..N : g[k] = step[k][g[k - 1]]
<1>1. PICK first \in Int : first = 0
  OBVIOUS
<1>2. PICK g : Chained(g, Int, first, step, N)
  BY Recursion
<1>3. QED
  BY <1>1, <1>2 DEF Chained

(* A fold goes through the values that its steps give. *)
Passes(g, V, step, first, s) ==
    /\ g \in [0..Len(s) -> V]
    /\ g[0] = first /\ \A k \in 1..Len(s) : g[k] = step[g[k - 1]][s[k]]
    /\ Folded(step, first, s) = g[Len(s)]

LEMMA FoldedValues ==
  ASSUME NEW V, NEW E, NEW first \in V, NEW step \in [V -> [E -> V]], NEW s \in Seq(E)
  PROVE  \E g : Passes(g, V, step, first, s)
<1>0. PICK N \in Nat : N = Len(s)
  OBVIOUS
<1> DEFINE n[k \in 0..Len(s)] == IF k = 0 THEN first ELSE step[n[k - 1]][s[k]]
<1>1. Folded(step, first, s) = n[N]
  BY <1>0 DEF Folded
<1>2. \A k \in 1..N : s[k] \in E
  BY <1>0
<1>3. PICK next : next = [k \in Nat |-> [v \in V |-> IF k \in 1..N THEN step[v][s[k]] ELSE first]]
  OBVIOUS
<1>4. next \in [Nat -> [V -> V]]
  <2>1. ASSUME NEW k \in Nat, NEW v \in V
        PROVE  (IF k \in 1..N THEN step[v][s[k]] ELSE first) \in V
    BY <1>2
  <2>2. QED
    BY <1>3, <2>1
<1>5a. PICK g : Chained(g, V, first, next, N)
  BY <1>4, Recursion
<1>5. g \in [0..N -> V] /\ g[0] = first /\ \A k \in 1..N : g[k] = next[k][g[k - 1]]
  BY <1>5a DEF Chained
<1>6. ASSUME NEW k \in 1..N PROVE g[k] = step[g[k - 1]][s[k]]
  <2>0. k - 1 \in 0..N
    OBVIOUS
  <2>1. PICK v \in V : v = g[k - 1]
    BY <1>5, <2>0
  <2>2. next[k][v] = step[v][s[k]]
    BY <1>3
  <2>3. QED
    BY <1>5, <2>1, <2>2
<1>7. \A k \in 0..N : k = 0 \/ k \in 1..N
  OBVIOUS
<1>9. g = [k \in 0..Len(s) |-> IF k = 0 THEN first ELSE step[g[k - 1]][s[k]]]
  BY <1>0, <1>5, <1>6, <1>7
<1>10. n = [k \in 0..Len(s) |-> IF k = 0 THEN first ELSE step[n[k - 1]][s[k]]]
  BY <1>9 DEF n
<1> HIDE DEF n
<1> DEFINE S == {k \in Nat : k \in 0..N => n[k] = g[k]}
<1>11. 0 \in S
  BY <1>0, <1>5, <1>10
<1>12. ASSUME NEW k \in Nat, k \in S PROVE k + 1 \in S
  <2>1. CASE k + 1 \in 1..N
    <3>1. k \in 0..N /\ k + 1 \in 0..N /\ k + 1 # 0 /\ (k + 1) - 1 = k
      BY <2>1
    <3>2. n[k] = g[k]
      BY <1>12, <3>1
    <3>3. n[k + 1] = step[n[k]][s[k + 1]]
      BY <1>0, <1>10, <3>1
    <3>4. g[k + 1] = step[g[k]][s[k + 1]]
      BY <1>6, <2>1, <3>1
    <3>5. QED
      BY <3>2, <3>3, <3>4
  <2>2. CASE k + 1 \notin 1..N
    BY <2>2
  <2>3. QED
    BY <2>1, <2>2
<1> HIDE DEF S
<1>13. N \in S
  BY <1>11, <1>12, Induction
<1>14. n[N] = g[N]
  BY <1>13 DEF S
<1>15. QED
  BY <1>0, <1>1, <1>5, <1>6, <1>14 DEF Passes

LEMMA FoldedAppend ==
  ASSUME NEW V, NEW E, NEW first \in V, NEW step \in [V -> [E -> V]], NEW s \in Seq(E), NEW x \in E
  PROVE  /\ Folded(step, first, s) \in V
         /\ Folded(step, first, Append(s, x)) = step[Folded(step, first, s)][x]
<1>1. PICK N \in Nat : N = Len(s)
  OBVIOUS
<1>2. PICK e \in Seq(E) : e = Append(s, x)
  <2>1. Append(s, x) \in Seq(E)
    OBVIOUS
  <2>2. QED
    BY <2>1
<1>3. Len(e) = N + 1 /\ e[N + 1] = x /\ \A k \in 1..N : e[k] = s[k]
  BY <1>1, <1>2
<1>4a. PICK g : Passes(g, V, step, first, s)
  BY FoldedValues
<1>4. /\ g \in [0..N -> V]
      /\ g[0] = first /\ \A k \in 1..N : g[k] = step[g[k - 1]][s[k]]
      /\ Folded(step, first, s) = g[N]
  BY <1>1, <1>4a DEF Passes
<1>5a. PICK h : Passes(h, V, step, first, e)
  BY <1>2, FoldedValues
<1>5. /\ h \in [0..(N + 1) -> V]
      /\ h[0] = first /\ \A k \in 1..(N + 1) : h[k] = step[h[k - 1]][e[k]]
      /\ Folded(step, first, e) = h[N + 1]
  BY <1>3, <1>5a DEF Passes
<1> DEFINE S == {k \in Nat : k \in 0..N => g[k] = h[k]}
<1>6. 0 \in S
  BY <1>4, <1>5
<1>7. ASSUME NEW k \in Nat, k \in S PROVE k + 1 \in S
  <2>1. CASE k + 1 \in 1..N
    <3>1. k \in 0..N /\ k + 1 \in 1..(N + 1) /\ (k + 1) - 1 = k
      BY <2>1
    <3>2. g[k] = h[k]
      BY <1>7, <3>1
    <3>3. g[k + 1] = step[g[k]][s[k + 1]]
      BY <1>4, <2>1, <3>1
    <3>4. h[k + 1] = step[h[k]][e[k + 1]]
      BY <1>5, <3>1
    <3>5. s[k + 1] = e[k + 1]
      BY <1>3, <2>1
    <3>6. QED
      BY <3>2, <3>3, <3>4, <3>5
  <2>2. CASE k + 1 \notin 1..N
    BY <2>2
  <2>3. QED
    BY <2>1, <2>2
<1> HIDE DEF S
<1>8. N \in S
  BY <1>6, <1>7, Induction
<1>9. g[N] = h[N]
  BY <1>8 DEF S
<1>10. h[N + 1] = step[h[N]][e[N + 1]]
  <2>1. N + 1 \in 1..(N + 1) /\ (N + 1) - 1 = N
    OBVIOUS
  <2>2. QED
    BY <1>5, <2>1
<1>11. g[N] \in V
  BY <1>4
<1>12. QED
  BY <1>2, <1>3, <1>4, <1>5, <1>9, <1>10, <1>11

LEMMA FoldedEmpty ==
  ASSUME NEW V, NEW E, NEW first \in V, NEW step \in [V -> [E -> V]]
  PROVE  Folded(step, first, <<>>) = first
<1>1. <<>> \in Seq(E) /\ Len(<<>>) = 0
  OBVIOUS
<1>2. PICK g : Passes(g, V, step, first, <<>>)
  BY <1>1, FoldedValues
<1>3. QED
  BY <1>1, <1>2 DEF Passes

(* The same with the hypotheses and the conclusion each in one predicate.  *)
Folding(V, E, step, first) == first \in V /\ step \in [V -> [E -> V]]
Continues(V, E, step, first) ==
    /\ Folded(step, first, <<>>) = first
    /\ \A s \in Seq(E), x \in E :
          /\ Folded(step, first, s) \in V
          /\ Folded(step, first, Append(s, x)) = step[Folded(step, first, s)][x]

LEMMA FoldContinues ==
  ASSUME NEW V, NEW E, NEW step, NEW first, Folding(V, E, step, first)
  PROVE  Continues(V, E, step, first)
<1>1. first \in V /\ step \in [V -> [E -> V]]
  BY DEF Folding
<1>2. Folded(step, first, <<>>) = first
  BY <1>1, FoldedEmpty
<1>3. \A s \in Seq(E), x \in E :
          /\ Folded(step, first, s) \in V
          /\ Folded(step, first, Append(s, x)) = step[Folded(step, first, s)][x]
  BY <1>1, FoldedAppend
<1>4. QED
  BY <1>2, <1>3 DEF Continues

LEMMA SumContinues ==
  /\ SumOf(<<>>) = 0
  /\ \A s \in Seq(Int), x \in Int : SumOf(s) \in Int /\ SumOf(Append(s, x)) = SumOf(s) + x
<1>1. PICK add : add = [n \in Int |-> [m \in Int |-> n + m]]
  OBVIOUS
<1>2. add \in [Int -> [Int -> Int]] /\ \A n, m \in Int : add[n][m] = n + m
  BY <1>1
<1>3. Folding(Int, Int, add, 0)
  BY <1>2 DEF Folding
<1>4. Continues(Int, Int, add, 0)
  BY <1>3, FoldContinues
<1>5. \A s : SumOf(s) = Folded(add, 0, s)
  BY <1>1 DEF SumOf
<1>6. QED
  BY <1>2, <1>4, <1>5 DEF Continues

(* The sum of the first k members. *)
LEMMA SumParts ==
  ASSUME NEW s \in Seq(Int)
  PROVE  /\ SumOf(SubSeq(s, 1, 0)) = 0 /\ SubSeq(s, 1, Len(s)) = s
         /\ \A k \in Nat : k < Len(s) =>
              /\ s[k + 1] \in Int /\ SumOf(SubSeq(s, 1, k)) \in Int
              /\ SumOf(SubSeq(s, 1, k + 1)) = SumOf(SubSeq(s, 1, k)) + s[k + 1]
<1>1. SubSeq(s, 1, 0) = <<>> /\ SubSeq(s, 1, Len(s)) = s
  OBVIOUS
<1>2. ASSUME NEW k \in Nat, k < Len(s)
      PROVE  /\ s[k + 1] \in Int /\ SumOf(SubSeq(s, 1, k)) \in Int
             /\ SumOf(SubSeq(s, 1, k + 1)) = SumOf(SubSeq(s, 1, k)) + s[k + 1]
  <2>1. s[k + 1] \in Int /\ SubSeq(s, 1, k) \in Seq(Int)
    BY <1>2
  <2>2. SubSeq(s, 1, k + 1) = Append(SubSeq(s, 1, k), s[k + 1])
    BY <1>2, <2>1
  <2>3. QED
    BY <2>1, <2>2, SumContinues
<1>3. QED
  BY <1>1, <1>2, SumContinues

LEMMA SumTyped == \A s \in Seq(Int) : SumOf(s) \in Int
BY SumContinues, EmptySeq

(* Sums go along with their parts. *)
LEMMA SumMonotone ==
  ASSUME NEW s \in Seq(Int), NEW t \in Seq(Int), Len(s) = Len(t),
         \A k \in DOMAIN s : s[k] <= t[k]
  PROVE  SumOf(s) <= SumOf(t)
<1> DEFINE S == {k \in Nat : k <= Len(s) => SumOf(SubSeq(s, 1, k)) <= SumOf(SubSeq(t, 1, k))}
<1>1. 0 \in S
  BY SumParts
<1>2. ASSUME NEW k \in Nat, k \in S PROVE k + 1 \in S
  <2> SUFFICES ASSUME k < Len(s)
               PROVE  SumOf(SubSeq(s, 1, k + 1)) <= SumOf(SubSeq(t, 1, k + 1))
    OBVIOUS
  <2>1. SumOf(SubSeq(s, 1, k)) <= SumOf(SubSeq(t, 1, k)) /\ s[k + 1] <= t[k + 1]
    BY <1>2
  <2>2. /\ s[k + 1] \in Int /\ SumOf(SubSeq(s, 1, k)) \in Int
        /\ SumOf(SubSeq(s, 1, k + 1)) = SumOf(SubSeq(s, 1, k)) + s[k + 1]
    BY SumParts
  <2>3. /\ t[k + 1] \in Int /\ SumOf(SubSeq(t, 1, k)) \in Int
        /\ SumOf(SubSeq(t, 1, k + 1)) = SumOf(SubSeq(t, 1, k)) + t[k + 1]
    BY SumParts
  <2>4. QED
    BY <2>1, <2>2, <2>3
<1> HIDE DEF S
<1>3. Len(s) \in S
  <2>1. PICK n \in Nat : n = Len(s)
    OBVIOUS
  <2>2. n \in S
    BY <1>1, <1>2, Induction
  <2>3. QED
    BY <2>1, <2>2
<1>4. SumOf(SubSeq(s, 1, Len(s))) <= SumOf(SubSeq(t, 1, Len(s)))
  BY <1>3 DEF S
<1>5. QED
  BY <1>4, SumParts

(* Two sums added part by part.                                            *)
LEMMA CrosswiseSum == \A a, b, x, y \in Int : (a + b) + (x + y) = (a + x) + (b + y)
OBVIOUS

LEMMA SumSplits ==
  ASSUME NEW s \in Seq(Int), NEW t \in Seq(Int), NEW u \in Seq(Int),
         Len(s) = Len(u), Len(t) = Len(u), \A k \in DOMAIN u : u[k] = s[k] + t[k]
  PROVE  SumOf(u) = SumOf(s) + SumOf(t)
<1> DEFINE S == {k \in Nat : k <= Len(u) =>
                   SumOf(SubSeq(u, 1, k)) = SumOf(SubSeq(s, 1, k)) + SumOf(SubSeq(t, 1, k))}
<1>1. 0 \in S
  BY SumParts
<1>2. ASSUME NEW k \in Nat, k \in S PROVE k + 1 \in S
  <2> SUFFICES ASSUME k < Len(u)
               PROVE  SumOf(SubSeq(u, 1, k + 1)) = SumOf(SubSeq(s, 1, k + 1)) + SumOf(SubSeq(t, 1, k + 1))
    OBVIOUS
  <2> DEFINE su(j) == SumOf(SubSeq(u, 1, j))
             ss(j) == SumOf(SubSeq(s, 1, j))
             st(j) == SumOf(SubSeq(t, 1, j))
  <2>1. su(k) = ss(k) + st(k) /\ u[k + 1] = s[k + 1] + t[k + 1]
    BY <1>2
  <2>2. s[k + 1] \in Int /\ ss(k) \in Int /\ ss(k + 1) = ss(k) + s[k + 1]
    BY SumParts
  <2>3. t[k + 1] \in Int /\ st(k) \in Int /\ st(k + 1) = st(k) + t[k + 1]
    BY SumParts
  <2>4. su(k + 1) = su(k) + u[k + 1]
    BY SumParts
  <2> HIDE DEF su, ss, st
  <2>5. PICK a \in Int, b \in Int, x \in Int, y \in Int :
               a = ss(k) /\ b = st(k) /\ x = s[k + 1] /\ y = t[k + 1]
    BY <2>2, <2>3, Zenon
  <2>6. su(k + 1) = (a + b) + (x + y)
    BY <2>1, <2>4, <2>5, Zenon
  <2>7. ss(k + 1) = a + x /\ st(k + 1) = b + y
    BY <2>2, <2>3, <2>5, Zenon
  <2>8. (a + b) + (x + y) = (a + x) + (b + y)
    BY CrosswiseSum
  <2>9. su(k + 1) = ss(k + 1) + st(k + 1)
    BY <2>6, <2>7, <2>8, Zenon
  <2>10. QED
    BY <2>9, Zenon DEF su, ss, st
<1> HIDE DEF S
<1>3. Len(u) \in S
  <2>1. PICK n \in Nat : n = Len(u)
    OBVIOUS
  <2>2. n \in S
    BY <1>1, <1>2, Induction
  <2>3. QED
    BY <2>1, <2>2
<1>4. SumOf(SubSeq(u, 1, Len(u))) = SumOf(SubSeq(s, 1, Len(u))) + SumOf(SubSeq(t, 1, Len(u)))
  BY <1>3 DEF S
<1>5. QED
  BY <1>4, SumParts
-----------------------------------------------------------------------------
(* What deltas make of a reputation. *)

LEMMA AfterTyped ==
  ASSUME NEW n \in Int, NEW x \in Int
  PROVE  reputationAfter(n, x) \in Nat
BY DEF reputationAfter

LEMMA OutcomeValues ==
  ASSUME NEW d \in Seq(Int), NEW N \in Nat, N = Len(d)
  PROVE  \E g \in [0..N -> Nat] :
            /\ g[0] = 0 /\ \A k \in 1..N : g[k] = reputationAfter(g[k - 1], d[k])
            /\ Outcome(d) = g[N]
<1> DEFINE n[k \in 0..Len(d)] == IF k = 0 THEN 0 ELSE reputationAfter(n[k - 1], d[k])
<1>1. Outcome(d) = n[N]
  BY DEF Outcome
<1>2. \A k \in 1..N : d[k] \in Int
  OBVIOUS
<1>3. PICK step : step = [k \in Nat |-> [v \in Int |->
                            IF k \in 1..N THEN reputationAfter(v, d[k]) ELSE 0]]
  OBVIOUS
<1>4. step \in [Nat -> [Int -> Int]]
  <2>1. ASSUME NEW k \in Nat, NEW v \in Int
        PROVE  (IF k \in 1..N THEN reputationAfter(v, d[k]) ELSE 0) \in Int
    BY <1>2 DEF reputationAfter
  <2>2. QED
    BY <1>3, <2>1
<1>5. PICK g \in [0..N -> Int] : g[0] = 0 /\ \A k \in 1..N : g[k] = step[k][g[k - 1]]
  BY <1>4, IntegerRecursion
<1>6. ASSUME NEW k \in 1..N PROVE g[k] = reputationAfter(g[k - 1], d[k]) /\ g[k] \in Nat
  <2>0. k - 1 \in 0..N
    OBVIOUS
  <2>1. PICK v \in Int : v = g[k - 1]
    BY <1>5, <2>0
  <2>2. step[k][v] = reputationAfter(v, d[k])
    BY <1>3
  <2>3. reputationAfter(v, d[k]) \in Nat
    BY <1>2, AfterTyped
  <2>4. QED
    BY <1>5, <2>1, <2>2, <2>3
<1>7. \A k \in 0..N : k = 0 \/ k \in 1..N
  OBVIOUS
<1>8. g \in [0..N -> Nat]
  BY <1>5, <1>6, <1>7
<1>9. g = [k \in 0..Len(d) |-> IF k = 0 THEN 0 ELSE reputationAfter(g[k - 1], d[k])]
  BY <1>5, <1>6, <1>7
<1>10. n = [k \in 0..Len(d) |-> IF k = 0 THEN 0 ELSE reputationAfter(n[k - 1], d[k])]
  BY <1>9 DEF n
<1> HIDE DEF n
<1> DEFINE S == {k \in Nat : k \in 0..N => n[k] = g[k]}
<1>11. 0 \in S
  BY <1>5, <1>10
<1>12. ASSUME NEW k \in Nat, k \in S PROVE k + 1 \in S
  <2>1. CASE k + 1 \in 1..N
    <3>1. k \in 0..N /\ k + 1 \in 0..N /\ k + 1 # 0 /\ (k + 1) - 1 = k
      BY <2>1
    <3>2. n[k] = g[k]
      BY <1>12, <3>1
    <3>3. n[k + 1] = reputationAfter(n[k], d[k + 1])
      BY <1>10, <3>1
    <3>4. g[k + 1] = reputationAfter(g[k], d[k + 1])
      BY <1>6, <2>1, <3>1
    <3>5. QED
      BY <3>2, <3>3, <3>4
  <2>2. CASE k + 1 \notin 1..N
    BY <2>2
  <2>3. QED
    BY <2>1, <2>2
<1> HIDE DEF S
<1>13. N \in S
  BY <1>11, <1>12, Induction
<1>14. n[N] = g[N]
  BY <1>13 DEF S
<1>15. QED
  BY <1>1, <1>5, <1>6, <1>8, <1>14

LEMMA OutcomeExtends ==
  ASSUME NEW d \in Seq(Int), NEW x \in Int
  PROVE  /\ Outcome(d) \in Nat
         /\ Outcome(Append(d, x)) = reputationAfter(Outcome(d), x)
<1>1. PICK N \in Nat : N = Len(d)
  OBVIOUS
<1>2. PICK e \in Seq(Int) : e = Append(d, x)
  <2>1. Append(d, x) \in Seq(Int)
    OBVIOUS
  <2>2. QED
    BY <2>1
<1>3. Len(e) = N + 1 /\ e[N + 1] = x /\ \A k \in 1..N : e[k] = d[k]
  BY <1>1, <1>2
<1>4. PICK g \in [0..N -> Nat] :
        /\ g[0] = 0 /\ \A k \in 1..N : g[k] = reputationAfter(g[k - 1], d[k])
        /\ Outcome(d) = g[N]
  BY <1>1, OutcomeValues
<1>5. PICK h \in [0..(N + 1) -> Nat] :
        /\ h[0] = 0 /\ \A k \in 1..(N + 1) : h[k] = reputationAfter(h[k - 1], e[k])
        /\ Outcome(e) = h[N + 1]
  <2>1. N + 1 \in Nat /\ N + 1 = Len(e)
    BY <1>3
  <2>2. QED
    BY <2>1, OutcomeValues
<1> DEFINE S == {k \in Nat : k \in 0..N => g[k] = h[k]}
<1>6. 0 \in S
  BY <1>4, <1>5
<1>7. ASSUME NEW k \in Nat, k \in S PROVE k + 1 \in S
  <2>1. CASE k + 1 \in 1..N
    <3>1. k \in 0..N /\ k + 1 \in 1..(N + 1) /\ (k + 1) - 1 = k
      BY <2>1
    <3>2. g[k] = h[k]
      BY <1>7, <3>1
    <3>3. g[k + 1] = reputationAfter(g[k], d[k + 1])
      BY <1>4, <2>1, <3>1
    <3>4. h[k + 1] = reputationAfter(h[k], e[k + 1])
      BY <1>5, <3>1
    <3>5. d[k + 1] = e[k + 1]
      BY <1>3, <2>1
    <3>6. QED
      BY <3>2, <3>3, <3>4, <3>5
  <2>2. CASE k + 1 \notin 1..N
    BY <2>2
  <2>3. QED
    BY <2>1, <2>2
<1> HIDE DEF S
<1>8. N \in S
  BY <1>6, <1>7, Induction
<1>9. g[N] = h[N]
  BY <1>8 DEF S
<1>10. h[N + 1] = reputationAfter(h[N], e[N + 1])
  <2>1. N + 1 \in 1..(N + 1) /\ (N + 1) - 1 = N
    OBVIOUS
  <2>2. QED
    BY <1>5, <2>1
<1>11. QED
  BY <1>2, <1>3, <1>4, <1>5, <1>9, <1>10

LEMMA OutcomeEmpty ==
  ASSUME NEW d \in Seq(Int), Len(d) = 0
  PROVE  Outcome(d) = 0
<1>1. 0 \in Nat /\ 0 = Len(d)
  OBVIOUS
<1>2. PICK g \in [0..0 -> Nat] :
        /\ g[0] = 0 /\ \A k \in 1..0 : g[k] = reputationAfter(g[k - 1], d[k])
        /\ Outcome(d) = g[0]
  BY <1>1, OutcomeValues
<1>3. QED
  BY <1>2

-----------------------------------------------------------------------------
(* The arithmetic of difficulties. *)

LEMMA TotalTyped ==
  ASSUME NEW s \in Seq([completed : BOOLEAN, difficulty : Int])
  PROVE  Total(s) \in Int
<1> DEFINE sum[n \in 0..Len(s)] == IF n = 0 THEN 0 ELSE sum[n - 1] + s[n].difficulty
<1>1. PICK N \in Nat : N = Len(s)
  OBVIOUS
<1>2. Total(s) = sum[N]
  BY <1>1 DEF Total
<1>3. \A k \in 1..N : s[k].difficulty \in Int
  <2>1. PICK Rows : Rows = [completed : BOOLEAN, difficulty : Int]
    OBVIOUS
  <2>2. s \in Seq(Rows)
    BY <2>1
  <2>3. \A k \in 1..N : s[k] \in Rows
    BY <1>1, <2>2
  <2>4. QED
    BY <2>1, <2>3
<1>4. PICK step : step = [k \in Nat |-> [v \in Int |->
                            IF k \in 1..N THEN v + s[k].difficulty ELSE 0]]
  OBVIOUS
<1>5. step \in [Nat -> [Int -> Int]]
  <2>1. ASSUME NEW k \in Nat, NEW v \in Int
        PROVE  (IF k \in 1..N THEN v + s[k].difficulty ELSE 0) \in Int
    BY <1>3
  <2>2. QED
    BY <1>4, <2>1
<1>6. PICK g \in [0..N -> Int] : g[0] = 0 /\ \A k \in 1..N : g[k] = step[k][g[k - 1]]
  BY <1>5, IntegerRecursion
<1>7. ASSUME NEW k \in 1..N PROVE g[k] = g[k - 1] + s[k].difficulty
  <2>0. k - 1 \in 0..N
    OBVIOUS
  <2>1. PICK v \in Int : v = g[k - 1]
    BY <1>6, <2>0
  <2>2. step[k][v] = v + s[k].difficulty
    BY <1>4
  <2>3. QED
    BY <1>6, <2>1, <2>2
<1>8. \A k \in 0..N : k = 0 \/ k \in 1..N
  OBVIOUS
<1>9. g = [k \in 0..Len(s) |-> IF k = 0 THEN 0 ELSE g[k - 1] + s[k].difficulty]
  BY <1>1, <1>6, <1>7, <1>8
<1>10. sum = [k \in 0..Len(s) |-> IF k = 0 THEN 0 ELSE sum[k - 1] + s[k].difficulty]
  BY <1>9 DEF sum
<1> HIDE DEF sum
<1> DEFINE S == {k \in Nat : k \in 0..N => sum[k] \in Int}
<1>11. 0 \in S
  BY <1>1, <1>10
<1>12. ASSUME NEW k \in Nat, k \in S PROVE k + 1 \in S
  <2>1. CASE k + 1 \in 1..N
    <3>1. k \in 0..N /\ k + 1 \in 0..N /\ k + 1 # 0 /\ (k + 1) - 1 = k
      BY <2>1
    <3>2. sum[k] \in Int /\ s[k + 1].difficulty \in Int
      BY <1>3, <1>12, <2>1, <3>1
    <3>3. sum[k + 1] = sum[k] + s[k + 1].difficulty
      BY <1>1, <1>10, <3>1
    <3>4. QED
      BY <3>2, <3>3
  <2>2. CASE k + 1 \notin 1..N
    BY <2>2
  <2>3. QED
    BY <2>1, <2>2
<1> HIDE DEF S
<1>13. N \in S
  BY <1>11, <1>12, Induction
<1>14. QED
  BY <1>2, <1>13 DEF S

LEMMA CompletedTyped ==
  ASSUME NEW s \in Seq([completed : BOOLEAN, difficulty : Int])
  PROVE  Completed(s) \in Nat
<1>1. {i \in DOMAIN s : s[i].completed} \subseteq 1..Len(s) /\ Len(s) \in Nat
  OBVIOUS
<1>2. IsFiniteSet(1..Len(s))
  BY <1>1, FS_Interval
<1>3. QED
  BY <1>1, <1>2, FS_Subset, FS_CardinalityType DEF Completed

(* What is held within two bounds lies between them.                      *)
LEMMA WithinBounds ==
  ASSUME NEW low \in Int, NEW high \in Int, low <= high, NEW n \in Int
  PROVE  Within(low, high, n) \in low..high
BY DEF Within

(* The bounds of a ceiling, and its value before there is any history.     *)
LEMMA CeilingRange ==
  /\ CEILING_MIN \in Int /\ CEILING_MAX \in Int /\ CEILING_MIN <= CEILING_MAX
  /\ BASELINE \in Ceilings
  /\ \A c \in Ceilings : c \in Int /\ CEILING_MIN <= c /\ c <= CEILING_MAX
BY DEF CEILING_MIN, CEILING_MAX, BASELINE, Ceilings

(* Any history of rounds gives a ceiling within its bounds. *)
LEMMA CeilingBounded ==
  ASSUME NEW s \in Seq([completed : BOOLEAN, difficulty : Int])
  PROVE  calculateCeiling(s) \in Ceilings
<1>1. CASE s = <<>>
  BY <1>1, CeilingRange DEF calculateCeiling
<1>2. CASE s # <<>>
  <2>1. PICK n \in Nat : n = Len(s) /\ n > 0
    BY <1>2
  <2>2. PICK low \in 1..n : low = IF n > 10 THEN n - 9 ELSE 1
    <3>1. (IF n > 10 THEN n - 9 ELSE 1) \in 1..n
      BY <2>1
    <3>2. QED
      BY <3>1
  <2>3. PICK recent : recent = SubSeq(s, low, n)
    OBVIOUS
  <2>4. recent \in Seq([completed : BOOLEAN, difficulty : Int]) /\ Len(recent) \in Nat \ {0}
    <3>1. PICK Rows : Rows = [completed : BOOLEAN, difficulty : Int]
      OBVIOUS
    <3>2. s \in Seq(Rows) /\ low \in 1..(n + 1) /\ n \in (low - 1)..n
      BY <2>1, <2>2, <3>1
    <3>3. recent \in Seq(Rows) /\ Len(recent) = n - low + 1
      BY <2>1, <2>3, <3>2
    <3>4. QED
      BY <2>1, <2>2, <3>1, <3>3
  <2>5. PICK t \in Int, c \in Nat, l \in Nat \ {0} :
           t = Total(recent) /\ c = Completed(recent) /\ l = Len(recent)
    BY <2>4, TotalTyped, CompletedTyped
  <2>6. PICK x \in Int : x = (t \div l) + ((500 * c) \div l) - 350
    <3>1. PICK a \in Int, b \in Int : a = t \div l /\ b = (500 * c) \div l
      BY <2>5
    <3>2. a + b - 350 \in Int
      OBVIOUS
    <3>3. PICK x \in Int : x = a + b - 350
      BY <3>2
    <3>4. x = (t \div l) + ((500 * c) \div l) - 350
      BY <3>1, <3>3
    <3>5. QED
      BY <3>4
  <2>7. calculateCeiling(s) = Within(CEILING_MIN, CEILING_MAX, x)
    BY <1>2, <2>1, <2>2, <2>3, <2>5, <2>6 DEF calculateCeiling
  <2>8. QED
    BY <2>7, CeilingRange, WithinBounds DEF Ceilings
<1>3. QED
  BY <1>1, <1>2

LEMMA RoundedBounded ==
  ASSUME NEW n \in Ceilings
  PROVE  RoundedCeiling(n) \in Ceilings
BY DEF Ceilings, CEILING_MIN, CEILING_MAX, RoundedCeiling

LEMMA AdjustedBounded ==
  ASSUME NEW c \in Ceilings, NEW type
  PROVE  adjustedCeiling(c, type) \in Ceilings
<1>1. Times(c, 60) \in Int /\ c \div 2 \in Int
  BY CeilingRange DEF Times
<1>2. PICK v, w : v = Within(CEILING_MIN, c, Times(c, 60)) /\ w = Within(CEILING_MIN, c, c \div 2)
  OBVIOUS
<1>3. v \in CEILING_MIN..c /\ w \in CEILING_MIN..c
  BY <1>1, <1>2, CeilingRange, WithinBounds
<1>4. v \in Ceilings /\ w \in Ceilings
  BY <1>3, CeilingRange DEF Ceilings
<1>5. adjustedCeiling(c, type) \in {v, BASELINE, w, c}
  BY <1>2 DEF adjustedCeiling
<1>6. QED
  BY <1>4, <1>5, CeilingRange

(* The difficulty handed out is within the bounds of a dimension, and not  *)
(* above the ceiling it is made for.                                       *)
LEMMA NextBounded ==
  ASSUME NEW c \in Ceilings, NEW n \in Nat
  PROVE  /\ nextDifficulty(c, n).target \in DIMENSION_MIN..DIMENSION_MAX
         /\ nextDifficulty(c, n).target <= c
         /\ nextDifficulty(c, n).multiplier \in MULTIPLIER_MIN..MULTIPLIER_MAX
<1> USE DEF Ceilings, CEILING_MIN, CEILING_MAX, DIMENSION_MIN, DIMENSION_MAX, MULTIPLIER_MIN, MULTIPLIER_MAX
<1>1. PICK ratio \in {60, 75, 90, 85} : ratio = PhaseRatio[(n % 4) + 1]
  <2>1. n % 4 \in {0, 1, 2, 3}
    OBVIOUS
  <2>2. PhaseRatio[1] = 60 /\ PhaseRatio[2] = 75 /\ PhaseRatio[3] = 90 /\ PhaseRatio[4] = 85
    BY DEF PhaseRatio
  <2>3. QED
    BY <2>1, <2>2
<1>2. PICK t \in Int : t = Times(c, ratio) /\ t <= c
  BY <1>1 DEF Times
<1>3. PICK target : target = clampDimension(t)
  OBVIOUS
<1>4. target \in 100..1000 /\ target <= c
  <2>1. c \in Int /\ 100 <= c /\ c <= 1000
    OBVIOUS
  <2>2. target = IF t < 100 THEN 100 ELSE IF t > 1000 THEN 1000 ELSE t
    BY <1>3 DEF clampDimension, Within
  <2>3. QED
    BY <1>2, <2>1, <2>2
<1>5. Times(target - BASELINE, 15) \in Int
  BY <1>4 DEF Times, BASELINE
<1>6. nextDifficulty(c, n) = [target |-> target,
                              multiplier |-> Within(50, 200, 100 + Times(target - BASELINE, 15))]
  BY <1>1, <1>2, <1>3 DEF nextDifficulty
<1>7. Within(50, 200, 100 + Times(target - BASELINE, 15)) \in 50..200
  <2>1. 100 + Times(target - BASELINE, 15) \in Int /\ 50 \in Int /\ 200 \in Int /\ 50 <= 200
    BY <1>5
  <2>2. QED
    BY <2>1 DEF Within
<1>8. QED
  BY <1>4, <1>6, <1>7

LEMMA AdjustedDifficultyBounded ==
  ASSUME NEW c \in Ceilings, NEW type
  PROVE  /\ adjustedDifficulty(c, type).target \in DIMENSION_MIN..DIMENSION_MAX
         /\ adjustedDifficulty(c, type).target <= c
         /\ adjustedDifficulty(c, type).multiplier \in MULTIPLIER_MIN..MULTIPLIER_MAX
<1> USE DEF Ceilings, CEILING_MIN, CEILING_MAX, DIMENSION_MIN, DIMENSION_MAX, MULTIPLIER_MIN, MULTIPLIER_MAX
<1>1. adjustedDifficulty(c, type).target = clampDimension(Times(c, 60))
  BY DEF adjustedDifficulty
<1>2. adjustedDifficulty(c, type).multiplier \in {50, 75, 100}
  BY DEF adjustedDifficulty
<1>3. clampDimension(Times(c, 60)) \in 100..1000 /\ clampDimension(Times(c, 60)) <= c
  BY DEF clampDimension, Within, Times
<1>4. QED
  BY <1>1, <1>2, <1>3

-----------------------------------------------------------------------------
(* The consequences and the requests as parameters, so that what follows   *)
(* holds before and after a step.                                          *)

Lists(C, L) ==
    L \in Nat /\ L = Len(C) /\ DOMAIN C = 1..L /\ \A i \in 1..L : C[i].delta \in Int

ChainsOf(C) == {s \in UNION {[1..n -> DOMAIN C] : n \in 0..Len(C)} :
                   \A i, j \in DOMAIN s : s[i] = s[j] => i = j}
DeltasOf(C, chain)  == [k \in 1..Len(chain) |-> C[chain[k]].delta]
AppliedTo(C, chain) == Outcome(DeltasOf(C, chain))

PendingIn(q, r, c) == q[r] # Idle /\ q[r].kind = "issue" /\ q[r].at = "load" /\ q[r].row = c
ReachedIn(C, q, n) ==
    \E chain \in ChainsOf(C) : n = AppliedTo(C, chain) /\ \A i \in DOMAIN chain, r \in Requests :
                                  ~PendingIn(q, r, chain[i])

LEMMA ChainTyped ==
  ASSUME NEW C, NEW L, Lists(C, L), NEW s \in ChainsOf(C)
  PROVE  \E n \in 0..L : /\ Len(s) = n /\ DOMAIN s = 1..n /\ s \in [1..n -> 1..L]
                         /\ \A i, j \in 1..n : s[i] = s[j] => i = j
<1>1. PICK n \in 0..L : s \in [1..n -> 1..L]
  BY DEF Lists, ChainsOf
<1>2. DOMAIN s = 1..n /\ Len(s) = n
  <2>1. n \in Nat /\ s \in Seq(1..L)
    BY <1>1 DEF Lists
  <2>2. QED
    BY <1>1, <2>1
<1>3. \A i, j \in 1..n : s[i] = s[j] => i = j
  BY <1>2 DEF ChainsOf
<1>4. QED
  BY <1>1, <1>2, <1>3

LEMMA ChainDeltas ==
  ASSUME NEW C, NEW L, Lists(C, L), NEW n \in Nat, NEW s \in [1..n -> 1..L], Len(s) = n
  PROVE  DeltasOf(C, s) \in Seq(Int) /\ Len(DeltasOf(C, s)) = n
<1>1. PICK d : d = DeltasOf(C, s)
  OBVIOUS
<1>2. d = [k \in 1..n |-> C[s[k]].delta]
  BY <1>1 DEF DeltasOf
<1>3. \A k \in 1..n : C[s[k]].delta \in Int
  BY DEF Lists
<1>4. d \in [1..n -> Int]
  BY <1>2, <1>3
<1>5. QED
  BY <1>1, <1>4

(* A chain goes on to be one while consequences are added, and when no     *)
(* request has come to wait with one of its consequences.                  *)
LEMMA ReachedKept ==
  ASSUME NEW C, NEW L, Lists(C, L), NEW D, NEW M, Lists(D, M),
         L <= M, \A i \in 1..L : D[i].delta = C[i].delta,
         NEW q, NEW p, \A r \in Requests, c \in 1..L : PendingIn(p, r, c) => PendingIn(q, r, c),
         NEW n, ReachedIn(C, q, n)
  PROVE  ReachedIn(D, p, n)
<1>1. PICK s \in ChainsOf(C) :
        n = AppliedTo(C, s) /\ \A i \in DOMAIN s, r \in Requests : ~PendingIn(q, r, s[i])
  BY DEF ReachedIn
<1>2. PICK m \in 0..L : /\ Len(s) = m /\ DOMAIN s = 1..m /\ s \in [1..m -> 1..L]
                        /\ \A i, j \in 1..m : s[i] = s[j] => i = j
  BY ChainTyped
<1>3. s \in ChainsOf(D)
  <2>1. m \in 0..Len(D) /\ s \in [1..m -> DOMAIN D]
    BY <1>2 DEF Lists
  <2>2. QED
    BY <1>2, <2>1 DEF ChainsOf
<1>4. DeltasOf(D, s) = DeltasOf(C, s)
  <2>1. \A k \in 1..m : D[s[k]].delta = C[s[k]].delta
    BY <1>2
  <2>2. QED
    BY <1>2, <2>1 DEF DeltasOf
<1>5. n = AppliedTo(D, s)
  BY <1>1, <1>4 DEF AppliedTo
<1>6. \A i \in DOMAIN s, r \in Requests : ~PendingIn(p, r, s[i])
  BY <1>1, <1>2
<1>7. QED
  BY <1>3, <1>5, <1>6 DEF ReachedIn

(* A request applies the consequence it waited with.                       *)
LEMMA ReachedExtends ==
  ASSUME NEW C, NEW L, Lists(C, L), NEW q, NEW p, NEW r \in Requests, NEW c \in 1..L,
         PendingIn(q, r, c),
         \A s \in Requests, e \in 1..L : PendingIn(p, s, e) => PendingIn(q, s, e) /\ e # c,
         NEW n, ReachedIn(C, q, n)
  PROVE  ReachedIn(C, p, reputationAfter(n, C[c].delta))
<1>1. PICK s \in ChainsOf(C) :
        n = AppliedTo(C, s) /\ \A i \in DOMAIN s, t \in Requests : ~PendingIn(q, t, s[i])
  BY DEF ReachedIn
<1>2. PICK m \in 0..L : /\ Len(s) = m /\ DOMAIN s = 1..m /\ s \in [1..m -> 1..L]
                        /\ \A i, j \in 1..m : s[i] = s[j] => i = j
  BY ChainTyped
<1>3. \A i \in 1..m : s[i] # c
  BY <1>1, <1>2
<1>4. PICK t : t = [i \in 1..(m + 1) |-> IF i = m + 1 THEN c ELSE s[i]]
  OBVIOUS
<1>5. m \in Nat /\ L \in Nat
  BY <1>2 DEF Lists
<1>6. t \in [1..(m + 1) -> 1..L] /\ Len(t) = m + 1
  <2>1. t \in [1..(m + 1) -> 1..L]
    BY <1>2, <1>4, <1>5
  <2>2. QED
    BY <1>5, <2>1
<1>7. \A i, j \in 1..(m + 1) : t[i] = t[j] => i = j
  <2>1. ASSUME NEW i \in 1..(m + 1), NEW j \in 1..(m + 1), t[i] = t[j] PROVE i = j
    <3>1. (i = m + 1 \/ i \in 1..m) /\ (j = m + 1 \/ j \in 1..m)
      BY <1>5
    <3>2. \A k \in 1..m : t[k] = s[k] /\ k # m + 1
      BY <1>4, <1>5
    <3>3. t[m + 1] = c
      BY <1>4, <1>5
    <3>4. QED
      BY <1>2, <1>3, <2>1, <3>1, <3>2, <3>3
  <2>2. QED
    BY <2>1
<1>8. m + 1 <= L
  <2>1. SUFFICES ASSUME ~(m + 1 <= L) PROVE FALSE
    OBVIOUS
  <2>2. IsFiniteSet(1..L) /\ Cardinality(1..L) = L
    BY <1>5, FS_Interval
  <2>3. IsFiniteSet(1..(m + 1)) /\ Cardinality(1..(m + 1)) = m + 1
    BY <1>5, FS_Interval
  <2>4. Cardinality(1..L) < Cardinality(1..(m + 1))
    BY <1>5, <2>1, <2>2, <2>3
  <2>5. \E x, y \in 1..(m + 1) : x # y /\ t[x] = t[y]
    BY <1>6, <2>2, <2>3, <2>4, FS_PigeonHole
  <2>6. QED
    BY <1>7, <2>5
<1>9. t \in ChainsOf(C)
  <2>1. m + 1 \in 0..Len(C) /\ t \in [1..(m + 1) -> DOMAIN C] /\ DOMAIN t = 1..(m + 1)
    BY <1>5, <1>6, <1>8 DEF Lists
  <2>2. QED
    BY <1>7, <2>1 DEF ChainsOf
<1>10. AppliedTo(C, t) = reputationAfter(AppliedTo(C, s), C[c].delta)
  <2>1. PICK d \in Seq(Int) : d = DeltasOf(C, s) /\ Len(d) = m
    BY <1>2, <1>5, ChainDeltas
  <2>2. PICK e \in Seq(Int) : e = DeltasOf(C, t) /\ Len(e) = m + 1
    <3>1. m + 1 \in Nat
      BY <1>5
    <3>2. QED
      BY <1>6, <3>1, ChainDeltas
  <2>3. PICK x \in Int : x = C[c].delta
    BY DEF Lists
  <2>4. \A k \in 1..m : e[k] = d[k]
    BY <1>2, <1>4, <1>5, <1>6, <2>1, <2>2 DEF DeltasOf
  <2>5. e[m + 1] = x
    BY <1>4, <1>5, <1>6, <2>2, <2>3 DEF DeltasOf
  <2>6. e = Append(d, x)
    BY <1>5, <2>1, <2>2, <2>4, <2>5
  <2>7. QED
    BY <2>1, <2>2, <2>3, <2>6, OutcomeExtends DEF AppliedTo
<1>11. \A i \in DOMAIN t, u \in Requests : ~PendingIn(p, u, t[i])
  <2>1. ASSUME NEW i \in 1..(m + 1), NEW u \in Requests PROVE ~PendingIn(p, u, t[i])
    <3>1. CASE i = m + 1
      <4>1. t[i] = c
        BY <1>4, <3>1
      <4>2. QED
        BY <4>1
    <3>2. CASE i # m + 1
      <4>1. i \in 1..m /\ t[i] = s[i]
        BY <1>4, <1>5, <3>2
      <4>2. s[i] \in 1..L /\ ~PendingIn(q, u, s[i])
        BY <1>1, <1>2, <4>1
      <4>3. QED
        BY <4>1, <4>2
    <3>3. QED
      BY <3>1, <3>2
  <2>2. QED
    BY <1>6, <2>1
<1>12. QED
  BY <1>1, <1>9, <1>10, <1>11 DEF ReachedIn

LEMMA FirstTyped ==
  ASSUME NEW L \in Nat, NEW n \in 0..L
  PROVE  n \in Nat /\ First(n) \in [1..n -> 1..L] /\ Len(First(n)) = n
<1>1. First(n) \in [1..n -> 1..L]
  BY DEF First
<1>2. QED
  BY <1>1

(* The first n consequences are what they were. *)
LEMMA PrefixKept ==
  ASSUME NEW C, NEW L, Lists(C, L), NEW D, NEW M, Lists(D, M), NEW n \in Nat, n <= L, n <= M,
         \A i \in 1..n : D[i].delta = C[i].delta
  PROVE  AppliedTo(D, First(n)) = AppliedTo(C, First(n))
<1>1. Len(First(n)) = n
  <2>1. n \in 0..L /\ L \in Nat
    BY DEF Lists
  <2>2. QED
    BY <2>1, FirstTyped
<1>2. \A k \in 1..n : First(n)[k] = k
  BY DEF First
<1>3. DeltasOf(D, First(n)) = DeltasOf(C, First(n))
  BY <1>1, <1>2 DEF DeltasOf
<1>4. QED
  BY <1>3 DEF AppliedTo

LEMMA PrefixExtends ==
  ASSUME NEW C, NEW L, Lists(C, L), NEW n \in Nat, n + 1 <= L
  PROVE  /\ AppliedTo(C, First(n)) \in Nat
         /\ AppliedTo(C, First(n + 1)) = reputationAfter(AppliedTo(C, First(n)), C[n + 1].delta)
<1>0. L \in Nat /\ n \in 0..L /\ n + 1 \in 0..L /\ n + 1 \in Nat
  BY DEF Lists
<1>1. PICK s \in [1..n -> 1..L] : s = First(n) /\ Len(s) = n
  BY <1>0, FirstTyped
<1>2. PICK t \in [1..(n + 1) -> 1..L] : t = First(n + 1) /\ Len(t) = n + 1
  BY <1>0, FirstTyped
<1>3. PICK d \in Seq(Int) : d = DeltasOf(C, s) /\ Len(d) = n
  BY <1>1, ChainDeltas
<1>4. PICK e \in Seq(Int) : e = DeltasOf(C, t) /\ Len(e) = n + 1
  BY <1>0, <1>2, ChainDeltas
<1>5. PICK x \in Int : x = C[n + 1].delta
  <2>1. n + 1 \in 1..L
    BY <1>0
  <2>2. C[n + 1].delta \in Int
    BY <2>1 DEF Lists
  <2>3. QED
    BY <2>2
<1>6. (\A k \in 1..n : s[k] = k) /\ \A k \in 1..(n + 1) : t[k] = k
  BY <1>1, <1>2 DEF First
<1>7. (\A k \in 1..n : e[k] = d[k]) /\ e[n + 1] = x
  BY <1>1, <1>2, <1>3, <1>4, <1>5, <1>6 DEF DeltasOf
<1>8. e = Append(d, x)
  BY <1>3, <1>4, <1>7
<1>9. QED
  BY <1>1, <1>2, <1>3, <1>4, <1>5, <1>8, OutcomeExtends DEF AppliedTo

LEMMA PrefixEmpty ==
  ASSUME NEW C, NEW L, Lists(C, L)
  PROVE  /\ AppliedTo(C, First(0)) = 0
         /\ \A q : ReachedIn(C, q, 0)
<1>0. L \in Nat /\ 0 \in 0..L /\ 0 \in Nat
  BY DEF Lists
<1>1. PICK s \in [1..0 -> 1..L] : s = First(0) /\ Len(s) = 0
  BY <1>0, FirstTyped
<1>2. DeltasOf(C, s) \in Seq(Int) /\ Len(DeltasOf(C, s)) = 0
  BY <1>0, <1>1, ChainDeltas
<1>3. AppliedTo(C, s) = 0
  BY <1>2, OutcomeEmpty DEF AppliedTo
<1>4. DOMAIN s = {}
  BY <1>1
<1>5. s \in ChainsOf(C)
  <2>1. 0 \in 0..Len(C) /\ s \in [1..0 -> DOMAIN C]
    BY <1>0, <1>1 DEF Lists
  <2>2. QED
    BY <1>4, <2>1 DEF ChainsOf
<1>6. QED
  BY <1>1, <1>3, <1>4, <1>5 DEF ReachedIn

-----------------------------------------------------------------------------
(* The parts of the inductive invariant, with their variables as parameters.*)

Cause == [type : ConsequenceType, delta : Int, acknowledged : BOOLEAN]
Shape == {"kind", "arg", "at", "copy", "row"}

RequestOKIn(C, q) ==
    /\ DOMAIN q = Shape /\ q.copy \in BoundedRow
    /\ q.kind \in DOMAIN Calls /\ q.at \in Calls[q.kind]
    /\ q.kind = "issue" => /\ q.arg \in [type : ConsequenceType, delta : Int]
                           /\ q.at # "insert" => /\ q.row \in DOMAIN C
                                                 /\ C[q.row].delta = q.arg.delta
    /\ q.kind = "adjust" => q.arg \in ConsequenceType
    /\ q.kind = "ceiling" /\ q.at # "rounds" => q.row \in Ceilings
    /\ q.kind = "profile" => q.arg \in BOOLEAN
    /\ q.kind = "acknowledge" => q.arg \in DOMAIN C

AllOKIn(C, q) == \A r \in Requests : q[r] # Idle => RequestOKIn(C, q[r])

InsertedRec(x) == x # Idle /\ x.kind = "issue" /\ x.at # "insert"
OwnIn(q) ==
    \A r, s \in Requests : InsertedRec(q[r]) /\ InsertedRec(q[s]) /\ q[r].row = q[s].row => r = s

RowReachedIn(C, q, u) ==
    /\ ReachedIn(C, q, u.reputation)
    /\ \A r \in Requests : q[r] # Idle => ReachedIn(C, q, q[r].copy.reputation)

OneIn(q) == \A r, s \in Requests : q[r] # Idle /\ q[s] # Idle => r = s

CopyExactIn(C, u, deactivated, x) ==
    /\ x.at = "save" /\ x.kind # "issue" => x.copy.reputation = u.reputation
    /\ x.at = "save" /\ x.kind # "profile" => x.copy.active = u.active
    /\ x.at = "save" /\ x.kind = "profile" => x.copy.active = x.arg
    /\ x.kind = "profile" => ~deactivated
    /\ Applying(x) => x.row = Len(C)
    /\ Applying(x) /\ x.at = "save" => x.copy.reputation = AppliedTo(C, First(Len(C)))

ExactIn(C, q, u, deactivated) ==
    /\ deactivated => ~u.active
    /\ \A r \in Requests : q[r] # Idle => CopyExactIn(C, u, deactivated, q[r])
    /\ (\A r \in Requests : q[r] # Idle => ~Applying(q[r])) => u.reputation = AppliedTo(C, First(Len(C)))
    /\ (\E r \in Requests : q[r] # Idle /\ Applying(q[r])) => u.reputation = AppliedTo(C, First(Len(C) - 1))

LEMMA Parts ==
  /\ (\A r \in Requests : Busy(r) => RequestOK(req[r])) <=> AllOKIn(consequences, req)
  /\ OwnConsequence <=> OwnIn(req)
  /\ RowReached <=> RowReachedIn(consequences, req, user)
  /\ OneByOne <=> (~overlapped => OneIn(req))
  /\ Exact <=> (Untroubled => ExactIn(consequences, req, user, log.deactivated))
<1>1. (\A r \in Requests : Busy(r) => RequestOK(req[r])) <=> AllOKIn(consequences, req)
  BY DEF Busy, RequestOK, RequestOKIn, AllOKIn, Shape
<1>2. OwnConsequence <=> OwnIn(req)
  BY DEF OwnConsequence, OwnIn, Inserted, InsertedRec, Busy
<1>3. RowReached <=> RowReachedIn(consequences, req, user)
  BY DEF RowReached, RowReachedIn, Reached, ReachedIn, Chains, ChainsOf, Applied, AppliedTo, DeltasOf,
         Pending, PendingIn, Busy
<1>4. OneByOne <=> (~overlapped => OneIn(req))
  BY DEF OneByOne, OneIn, Busy
<1>5. Exact <=> (Untroubled => ExactIn(consequences, req, user, log.deactivated))
  BY DEF Exact, ExactIn, CopyExact, CopyExactIn, Applied, AppliedTo, DeltasOf, Busy
<1>6. QED
  BY <1>1, <1>2, <1>3, <1>4, <1>5

LEMMA PartsNext ==
  /\ (\A r \in Requests : Busy(r) => RequestOK(req[r]))' <=> AllOKIn(consequences', req')
  /\ OwnConsequence' <=> OwnIn(req')
  /\ RowReached' <=> RowReachedIn(consequences', req', user')
  /\ OneByOne' <=> (~overlapped' => OneIn(req'))
  /\ Exact' <=> (Untroubled' => ExactIn(consequences', req', user', log'.deactivated))
<1>1. (\A r \in Requests : Busy(r) => RequestOK(req[r]))' <=> AllOKIn(consequences', req')
  BY DEF Busy, RequestOK, RequestOKIn, AllOKIn, Shape
<1>2. OwnConsequence' <=> OwnIn(req')
  BY DEF OwnConsequence, OwnIn, Inserted, InsertedRec, Busy
<1>3. RowReached' <=> RowReachedIn(consequences', req', user')
  BY DEF RowReached, RowReachedIn, Reached, ReachedIn, Chains, ChainsOf, Applied, AppliedTo, DeltasOf,
         Pending, PendingIn, Busy
<1>4. OneByOne' <=> (~overlapped' => OneIn(req'))
  BY DEF OneByOne, OneIn, Busy
<1>5. Exact' <=> (Untroubled' => ExactIn(consequences', req', user', log'.deactivated))
  BY DEF Exact, ExactIn, CopyExact, CopyExactIn, Applied, AppliedTo, DeltasOf, Busy
<1>6. QED
  BY <1>1, <1>2, <1>3, <1>4, <1>5

LEMMA ListsOfSeq ==
  ASSUME NEW C \in Seq(Cause)
  PROVE  Lists(C, Len(C)) /\ DOMAIN C = 1..Len(C)
<1>1. PICK Rows : Rows = Cause
  OBVIOUS
<1>2. C \in Seq(Rows)
  BY <1>1
<1>3. Len(C) \in Nat /\ DOMAIN C = 1..Len(C) /\ \A i \in 1..Len(C) : C[i] \in Rows
  BY <1>2
<1>4. \A i \in 1..Len(C) : C[i].delta \in Int
  BY <1>1, <1>3 DEF Cause
<1>5. QED
  BY <1>3, <1>4 DEF Lists

(* Consequences are added, and what there was keeps its delta. *)
Grows(C, D) == Len(C) <= Len(D) /\ \A i \in 1..Len(C) : D[i].delta = C[i].delta

LEMMA RequestKept ==
  ASSUME NEW C, NEW L, Lists(C, L), NEW D, NEW M, Lists(D, M), Grows(C, D), NEW x, RequestOKIn(C, x)
  PROVE  RequestOKIn(D, x)
<1>1. \A i \in DOMAIN C : i \in DOMAIN D /\ D[i].delta = C[i].delta
  BY DEF Lists, Grows
<1>2. QED
  BY <1>1 DEF RequestOKIn

LEMMA AllKept ==
  ASSUME NEW C, NEW L, Lists(C, L), NEW D, NEW M, Lists(D, M), Grows(C, D),
         NEW q, NEW r \in Requests, NEW x, AllOKIn(C, q), DOMAIN q = Requests,
         x = Idle \/ RequestOKIn(D, x)
  PROVE  AllOKIn(D, [q EXCEPT ![r] = x])
<1>1. PICK p : p = [q EXCEPT ![r] = x]
  OBVIOUS
<1>2. p[r] = x /\ \A s \in Requests : s # r => p[s] = q[s]
  BY <1>1
<1>3. ASSUME NEW s \in Requests, p[s] # Idle PROVE RequestOKIn(D, p[s])
  <2>1. CASE s = r
    BY <1>2, <1>3, <2>1
  <2>2. CASE s # r
    <3>1. RequestOKIn(C, q[s])
      BY <1>2, <1>3, <2>2 DEF AllOKIn
    <3>2. RequestOKIn(D, q[s])
      BY <3>1, RequestKept
    <3>3. QED
      BY <1>2, <2>2, <3>2
  <2>3. QED
    BY <2>1, <2>2
<1>4. QED
  BY <1>1, <1>3 DEF AllOKIn

LEMMA OwnKept ==
  ASSUME NEW q, DOMAIN q = Requests, OwnIn(q), NEW r \in Requests, NEW x,
         \A s \in Requests \ {r} : InsertedRec(x) /\ InsertedRec(q[s]) => q[s].row # x.row
  PROVE  OwnIn([q EXCEPT ![r] = x])
BY DEF OwnIn

LEMMA RowKept ==
  ASSUME NEW C, NEW L, Lists(C, L), NEW D, NEW M, Lists(D, M), Grows(C, D), NEW q, NEW p,
         \A r \in Requests, c \in 1..L : PendingIn(p, r, c) => PendingIn(q, r, c)
  PROVE  ReachedIn(D, p, 0) /\ \A n : ReachedIn(C, q, n) => ReachedIn(D, p, n)
<1>1. L <= M /\ \A i \in 1..L : D[i].delta = C[i].delta
  BY DEF Grows, Lists
<1>2. \A n : ReachedIn(C, q, n) => ReachedIn(D, p, n)
  BY <1>1, ReachedKept
<1>3. ReachedIn(D, p, 0)
  BY PrefixEmpty
<1>4. QED
  BY <1>2, <1>3

-----------------------------------------------------------------------------
(* One request at a time. *)

LEMMA AloneFacts ==
  ASSUME NEW C, NEW q, NEW u, NEW deactivated, ExactIn(C, q, u, deactivated), OneIn(q),
         NEW r \in Requests, q[r] # Idle
  PROVE  /\ deactivated => ~u.active
         /\ CopyExactIn(C, u, deactivated, q[r])
         /\ ~Applying(q[r]) => u.reputation = AppliedTo(C, First(Len(C)))
         /\ Applying(q[r]) => u.reputation = AppliedTo(C, First(Len(C) - 1))
         /\ \A s \in Requests \ {r} : q[s] = Idle
BY DEF ExactIn, OneIn

LEMMA AloneExact ==
  ASSUME NEW C, NEW q, NEW u, NEW deactivated, NEW r \in Requests, \A s \in Requests \ {r} : q[s] = Idle,
         deactivated => ~u.active,
         q[r] # Idle => CopyExactIn(C, u, deactivated, q[r]),
         q[r] = Idle \/ ~Applying(q[r]) => u.reputation = AppliedTo(C, First(Len(C))),
         q[r] # Idle /\ Applying(q[r]) => u.reputation = AppliedTo(C, First(Len(C) - 1))
  PROVE  ExactIn(C, q, u, deactivated)
BY DEF ExactIn

-----------------------------------------------------------------------------
(* The steps of a request. *)

LEMMA TypedFacts ==
  ASSUME TypeOK
  PROVE  /\ consequences \in Seq(Cause) /\ Lists(consequences, Len(consequences))
         /\ DOMAIN consequences = 1..Len(consequences) /\ Len(consequences) \in Nat
         /\ AllOKIn(consequences, req) /\ DOMAIN req = Requests
         /\ user.reputation \in Nat /\ user.ceiling \in Ceilings /\ user.active \in BOOLEAN
<1>1. consequences \in Seq(Cause)
  BY DEF TypeOK, Cause
<1>2. AllOKIn(consequences, req)
  BY Parts DEF TypeOK
<1>3. DOMAIN req = Requests /\ user \in BoundedRow
  BY DEF TypeOK
<1>4. Len(consequences) \in Nat
  BY <1>1, ListsOfSeq DEF Lists
<1>5. QED
  BY <1>1, <1>2, <1>3, <1>4, ListsOfSeq DEF BoundedRow

LEMMA TypedNext ==
  ASSUME user' \in BoundedRow, DOMAIN req' = Requests, consequences' \in Seq(Cause),
         finished' \in Seq([completed : BOOLEAN, difficulty : Int]),
         log' \in [issued : Seq(Nat), acked : Seq(Nat), deactivated : BOOLEAN],
         Len(log'.issued) = Len(consequences'), Len(log'.acked) = Len(consequences'),
         failures' \in Nat, overlapped' \in BOOLEAN, AllOKIn(consequences', req')
  PROVE  TypeOK'
BY PartsNext DEF TypeOK, Cause

(* Where a request goes from one awaited call to the next. *)
LEMMA StepTo ==
  ASSUME NEW r \in Requests, TypeOK, req[r] # Idle, NEW at, Goto(r, at)
  PROVE  \E x : /\ req' = [req EXCEPT ![r] = x]
                /\ at = "done" => x = Idle
                /\ at # "done" => /\ DOMAIN x = Shape /\ x.kind = req[r].kind /\ x.arg = req[r].arg
                                  /\ x.copy = req[r].copy /\ x.row = req[r].row /\ x.at = at
<1>1. RequestOKIn(consequences, req[r])
  BY TypedFacts DEF AllOKIn
<1>2. DOMAIN req[r] = {"kind", "arg", "at", "copy", "row"}
  BY <1>1 DEF RequestOKIn, Shape
<1>3. CASE at = "done"
  BY <1>3 DEF Goto, Done
<1>4. CASE at # "done"
  <2>1. PICK x : x = [req[r] EXCEPT !.at = at]
    OBVIOUS
  <2>2. req' = [req EXCEPT ![r] = x]
    BY <1>4, <2>1 DEF Goto
  <2>3. /\ DOMAIN x = Shape /\ x.kind = req[r].kind /\ x.arg = req[r].arg
        /\ x.copy = req[r].copy /\ x.row = req[r].row /\ x.at = at
    BY <1>2, <2>1 DEF Shape
  <2>4. QED
    BY <1>4, <2>2, <2>3
<1>5. QED
  BY <1>3, <1>4

(* A step of a request, not one that awaits with a consequence, after which *)
(* the user's row and the deltas are what they were.                       *)
LEMMA Advance ==
  ASSUME IInv, NEW r \in Requests, req[r] # Idle, NEW x, req' = [req EXCEPT ![r] = x],
         consequences' \in Seq(Cause), Len(consequences') = Len(consequences),
         Grows(consequences, consequences'),
         user' = user, overlapped' = overlapped, log'.deactivated = log.deactivated,
         failures' = 0 => failures = 0 /\ ~Applying(req[r]),
         x # Idle => /\ x.kind = req[r].kind /\ x.kind # "issue" /\ x.arg = req[r].arg
                     /\ x.copy.reputation \in {user.reputation, req[r].copy.reputation}
                     /\ x.at = "save" => /\ x.copy.reputation = user.reputation
                                         /\ x.kind # "profile" => x.copy.active = user.active
                                         /\ x.kind = "profile" => x.copy.active = x.arg
  PROVE  OwnConsequence' /\ RowReached' /\ OneByOne' /\ Exact'
<1> USE DEF IInv
<1>1. PICK L \in Nat : /\ L = Len(consequences) /\ Lists(consequences, L) /\ DOMAIN req = Requests
                       /\ AllOKIn(consequences, req)
  BY TypedFacts
<1>2. Lists(consequences', L)
  BY <1>1, ListsOfSeq
<1>3. req'[r] = x /\ \A s \in Requests : s # r => req'[s] = req[s]
  BY <1>1
<1>4. OwnConsequence'
  <2>1. OwnIn(req)
    BY Parts
  <2>2. ~InsertedRec(x)
    BY DEF InsertedRec
  <2>3. OwnIn(req')
    BY <1>1, <2>1, <2>2, OwnKept
  <2>4. QED
    BY <2>3, PartsNext
<1>5. RowReached'
  <2>1. RowReachedIn(consequences, req, user)
    BY Parts
  <2>2. \A s \in Requests, c \in 1..L : PendingIn(req', s, c) => PendingIn(req, s, c)
    BY <1>3 DEF PendingIn
  <2>3. \A n : ReachedIn(consequences, req, n) => ReachedIn(consequences', req', n)
    BY <1>1, <1>2, <2>2, RowKept
  <2>4. ASSUME NEW s \in Requests, req'[s] # Idle
        PROVE  ReachedIn(consequences', req', req'[s].copy.reputation)
    <3>1. \/ req'[s].copy.reputation = user.reputation
          \/ \E t \in Requests : req[t] # Idle /\ req'[s].copy.reputation = req[t].copy.reputation
      BY <1>3, <2>4
    <3>2. QED
      BY <2>1, <2>3, <3>1 DEF RowReachedIn
  <2>5. ReachedIn(consequences', req', user'.reputation)
    BY <2>1, <2>3 DEF RowReachedIn
  <2>6. QED
    BY <2>4, <2>5, PartsNext DEF RowReachedIn
<1>6. OneByOne'
  <2>1. ~overlapped => OneIn(req)
    BY Parts
  <2>2. ~overlapped' => OneIn(req')
    BY <1>3, <2>1 DEF OneIn
  <2>3. QED
    BY <2>2, PartsNext
<1>7. Exact'
  <2> SUFFICES ASSUME Untroubled' PROVE ExactIn(consequences', req', user', log'.deactivated)
    BY PartsNext
  <2>1. failures' = 0 /\ ~overlapped'
    BY DEF Untroubled
  <2>2. Untroubled /\ ~Applying(req[r])
    BY <2>1 DEF Untroubled
  <2>3. ExactIn(consequences, req, user, log.deactivated) /\ OneIn(req)
    BY <2>1, <2>2, Parts
  <2>4. /\ log.deactivated => ~user.active
        /\ CopyExactIn(consequences, user, log.deactivated, req[r])
        /\ user.reputation = AppliedTo(consequences, First(L))
        /\ \A s \in Requests \ {r} : req[s] = Idle
    BY <1>1, <2>2, <2>3, AloneFacts
  <2>5. AppliedTo(consequences', First(L)) = AppliedTo(consequences, First(L))
    <3>1. L \in Nat /\ L <= L /\ \A i \in 1..L : consequences'[i].delta = consequences[i].delta
      BY <1>1 DEF Grows
    <3>2. QED
      BY <1>1, <1>2, <3>1, PrefixKept
  <2>6. x # Idle => ~Applying(x)
    BY DEF Applying
  <2>7. x # Idle => CopyExactIn(consequences', user', log'.deactivated, x)
    BY <2>4, <2>6 DEF CopyExactIn
  <2>8. user'.reputation = AppliedTo(consequences', First(Len(consequences')))
    BY <1>1, <2>4, <2>5
  <2>9. (\A s \in Requests \ {r} : req'[s] = Idle) /\ (log'.deactivated => ~user'.active)
    BY <1>3, <2>4
  <2>10. req'[r] # Idle => CopyExactIn(consequences', user', log'.deactivated, req'[r])
    BY <1>3, <2>7
  <2>11. ~(req'[r] # Idle /\ Applying(req'[r]))
    BY <1>3, <2>6
  <2>12. QED
    BY <2>8, <2>9, <2>10, <2>11, AloneExact
<1>8. QED
  BY <1>4, <1>5, <1>6, <1>7

LEMMA BoundsKept ==
  ASSUME DifficultyInBounds, TypeOK', given' = given
  PROVE  DifficultyInBounds'
BY DEF DifficultyInBounds, TypeOK, BoundedRow, Ceilings

LEMMA SameDeltas ==
  ASSUME TypeOK, consequences' = consequences
  PROVE  /\ consequences' \in Seq(Cause) /\ Len(consequences') = Len(consequences)
         /\ Lists(consequences', Len(consequences)) /\ Grows(consequences, consequences')
BY TypedFacts DEF Grows, Lists

LEMMA StartKeeps ==
  ASSUME IInv, NEW r \in Requests, NEW kind, NEW arg, NEW first, Start(r, kind, arg, first),
         kind \in DOMAIN Calls, first \in Calls[kind], first # "save",
         kind = "issue" => first = "insert" /\ arg \in [type : ConsequenceType, delta : Int],
         kind = "adjust" => arg \in ConsequenceType,
         kind = "ceiling" => first = "rounds",
         kind = "profile" => arg \in BOOLEAN /\ user.active,
         kind = "acknowledge" => arg \in DOMAIN consequences
  PROVE  IInv'
<1> USE DEF IInv
<1>1. PICK L \in Nat : /\ L = Len(consequences) /\ Lists(consequences, L) /\ DOMAIN req = Requests
                       /\ AllOKIn(consequences, req)
  BY TypedFacts
<1>2. PICK x : x = [kind |-> kind, arg |-> arg, at |-> first, copy |-> NewUser, row |-> 0]
  OBVIOUS
<1>3. /\ req' = [req EXCEPT ![r] = x] /\ req[r] = Idle
      /\ req'[r] = x /\ \A s \in Requests : s # r => req'[s] = req[s]
  BY <1>1, <1>2 DEF Start
<1>4. UNCHANGED <<user, consequences, finished, log, given, failures>>
  BY DEF Start
<1>5. overlapped' = (overlapped \/ \E s \in Requests : req[s] # Idle)
  BY DEF Start
<1>6. /\ DOMAIN x = Shape /\ x.kind = kind /\ x.arg = arg /\ x.at = first /\ x.copy = NewUser
      /\ NewUser \in BoundedRow /\ NewUser.reputation = 0
  BY <1>2 DEF Shape, NewUser, BoundedRow, Ceilings, CEILING_MIN, CEILING_MAX, BASELINE
<1>7. RequestOKIn(consequences', x) /\ x # Idle
  <2>1. RequestOKIn(consequences', x)
    BY <1>4, <1>6 DEF RequestOKIn
  <2>2. x.kind # "idle"
    BY <1>6 DEF Calls
  <2>3. QED
    BY <2>1, <2>2 DEF Idle
<1>8. TypeOK'
  <2>1. Lists(consequences', L) /\ Grows(consequences, consequences')
    BY <1>1, <1>4, SameDeltas
  <2>2. AllOKIn(consequences', req')
    BY <1>1, <1>3, <1>7, <2>1, AllKept
  <2>3. DOMAIN req' = Requests /\ consequences' \in Seq(Cause) /\ overlapped' \in BOOLEAN
    BY <1>1, <1>3, <1>4, <1>5, SameDeltas DEF TypeOK
  <2>4. QED
    BY <1>4, <2>2, <2>3, TypedNext DEF TypeOK
<1>9. OwnConsequence'
  <2>1. OwnIn(req) /\ ~InsertedRec(x)
    BY <1>6, Parts DEF InsertedRec
  <2>2. OwnIn(req')
    BY <1>1, <1>3, <2>1, OwnKept
  <2>3. QED
    BY <2>2, PartsNext
<1>10. RowReached'
  <2>1. RowReachedIn(consequences, req, user)
    BY Parts
  <2>2. \A s \in Requests, c \in 1..L : PendingIn(req', s, c) => PendingIn(req, s, c)
    BY <1>3, <1>6 DEF PendingIn
  <2>3. Lists(consequences', L) /\ Grows(consequences, consequences')
    BY <1>1, <1>4, SameDeltas
  <2>4. /\ ReachedIn(consequences', req', 0)
        /\ \A n : ReachedIn(consequences, req, n) => ReachedIn(consequences', req', n)
    BY <1>1, <2>2, <2>3, RowKept
  <2>5. ASSUME NEW s \in Requests, req'[s] # Idle
        PROVE  ReachedIn(consequences', req', req'[s].copy.reputation)
    BY <1>3, <1>6, <2>1, <2>4, <2>5 DEF RowReachedIn
  <2>6. ReachedIn(consequences', req', user'.reputation)
    BY <1>4, <2>1, <2>4 DEF RowReachedIn
  <2>7. QED
    BY <2>5, <2>6, PartsNext DEF RowReachedIn
<1>11. OneByOne'
  <2>1. ~overlapped' => OneIn(req')
    BY <1>3, <1>5 DEF OneIn
  <2>2. QED
    BY <2>1, PartsNext
<1>12. Exact'
  <2> SUFFICES ASSUME Untroubled' PROVE ExactIn(consequences', req', user', log'.deactivated)
    BY PartsNext
  <2>1. Untroubled /\ \A s \in Requests : req[s] = Idle
    BY <1>4, <1>5 DEF Untroubled
  <2>2. ExactIn(consequences, req, user, log.deactivated)
    BY <2>1, Parts
  <2>3. (log.deactivated => ~user.active) /\ user.reputation = AppliedTo(consequences, First(Len(consequences)))
    BY <2>1, <2>2 DEF ExactIn
  <2>4. ~Applying(x)
    BY <1>6 DEF Applying
  <2>5. CopyExactIn(consequences', user', log'.deactivated, x)
    BY <1>4, <1>6, <2>3, <2>4 DEF CopyExactIn
  <2>6. \A s \in Requests \ {r} : req'[s] = Idle
    BY <1>3, <2>1
  <2>7. QED
    BY <1>3, <1>4, <2>3, <2>4, <2>5, <2>6, AloneExact
<1>13. DifficultyInBounds'
  BY <1>4, <1>8, BoundsKept
<1>14. QED
  BY <1>8, <1>9, <1>10, <1>11, <1>12, <1>13

(* The consequence exists before the reputation is touched. *)
LEMMA InsertKeeps ==
  ASSUME IInv, NEW r \in Requests, Insert(r)
  PROVE  IInv'
<1> USE DEF IInv
<1>1. PICK L \in Nat : /\ L = Len(consequences) /\ Lists(consequences, L) /\ DOMAIN req = Requests
                       /\ AllOKIn(consequences, req) /\ consequences \in Seq(Cause)
  BY TypedFacts
<1>2. UNCHANGED <<user, finished, given, failures, overlapped>> /\ req[r] # Idle /\ req[r].at = "insert"
  BY DEF Insert
<1>3. RequestOKIn(consequences, req[r]) /\ req[r].kind = "issue"
  <2>1. RequestOKIn(consequences, req[r])
    BY <1>1, <1>2 DEF AllOKIn
  <2>2. QED
    BY <1>2, <2>1 DEF RequestOKIn, Calls
<1>4. PICK t \in ConsequenceType, d \in Int : t = req[r].arg.type /\ d = req[r].arg.delta
  BY <1>3 DEF RequestOKIn
<1>5. PICK y : y = [type |-> t, delta |-> d, acknowledged |-> FALSE]
  OBVIOUS
<1>6. y \in Cause /\ y.delta = d
  BY <1>5 DEF Cause
<1>7. PICK D \in Seq(Cause) : /\ D = Append(consequences, y) /\ Len(D) = L + 1
                             /\ D[L + 1] = y /\ \A i \in 1..L : D[i] = consequences[i]
  <2>1. PICK Rows : Rows = Cause
    OBVIOUS
  <2>2. consequences \in Seq(Rows) /\ y \in Rows
    BY <1>1, <1>6, <2>1
  <2>3. PICK D : D = Append(consequences, y)
    OBVIOUS
  <2>4. D \in Seq(Rows) /\ Len(D) = L + 1 /\ D[L + 1] = y /\ \A i \in 1..L : D[i] = consequences[i]
    BY <1>1, <2>2, <2>3
  <2>5. QED
    BY <2>1, <2>3, <2>4
<1>8. consequences' = D
  BY <1>4, <1>5, <1>7 DEF Insert
<1>9. Lists(D, L + 1) /\ Grows(consequences, D) /\ DOMAIN D = 1..(L + 1)
  <2>1. Lists(D, L + 1) /\ DOMAIN D = 1..(L + 1)
    BY <1>7, ListsOfSeq
  <2>2. QED
    BY <1>1, <1>7, <2>1 DEF Grows
<1>10. PICK x : x = [req[r] EXCEPT !.at = IF d = 0 THEN "emit" ELSE "load", !.row = L + 1]
  OBVIOUS
<1>11. /\ req' = [req EXCEPT ![r] = x]
       /\ req'[r] = x /\ \A s \in Requests : s # r => req'[s] = req[s]
  BY <1>1, <1>4, <1>10 DEF Insert
<1>12. /\ DOMAIN x = Shape /\ x.kind = "issue" /\ x.arg = req[r].arg /\ x.copy = req[r].copy
       /\ x.row = L + 1 /\ x.at = (IF d = 0 THEN "emit" ELSE "load")
  BY <1>3, <1>10 DEF RequestOKIn, Shape
<1>13. RequestOKIn(D, x) /\ x # Idle
  <2>1. L + 1 \in DOMAIN D /\ D[L + 1].delta = req[r].arg.delta
    BY <1>4, <1>6, <1>7, <1>9
  <2>2. RequestOKIn(D, x)
    BY <1>3, <1>12, <2>1 DEF RequestOKIn, Calls
  <2>3. QED
    BY <1>12, <2>2 DEF Idle
<1>14. TypeOK'
  <2>1. AllOKIn(D, req')
    BY <1>1, <1>9, <1>11, <1>13, AllKept
  <2>2. PICK i \in Seq(Nat), a \in Seq(Nat), b \in BOOLEAN :
          i = log.issued /\ a = log.acked /\ b = log.deactivated /\ Len(i) = L /\ Len(a) = L
    BY <1>1 DEF TypeOK
  <2>3. log' = [issued |-> Append(i, 0), acked |-> Append(a, 0), deactivated |-> b]
    <3>1. log \in [issued : Seq(Nat), acked : Seq(Nat), deactivated : BOOLEAN]
      BY DEF TypeOK
    <3>2. log' = [log EXCEPT !.issued = Append(i, 0), !.acked = Append(a, 0)]
      BY <2>2 DEF Insert
    <3>3. QED
      BY <2>2, <3>1, <3>2
  <2>4. Append(i, 0) \in Seq(Nat) /\ Append(a, 0) \in Seq(Nat)
        /\ Len(Append(i, 0)) = L + 1 /\ Len(Append(a, 0)) = L + 1
    BY <2>2
  <2>5. /\ log' \in [issued : Seq(Nat), acked : Seq(Nat), deactivated : BOOLEAN]
        /\ Len(log'.issued) = Len(consequences') /\ Len(log'.acked) = Len(consequences')
    BY <1>7, <1>8, <2>3, <2>4
  <2>6. DOMAIN req' = Requests
    BY <1>1, <1>11
  <2>7. QED
    BY <1>2, <1>7, <1>8, <2>1, <2>5, <2>6, TypedNext DEF TypeOK
<1>15. OwnConsequence'
  <2>1. OwnIn(req)
    BY Parts
  <2>2. \A s \in Requests \ {r} : InsertedRec(req[s]) => req[s].row # x.row
    <3>1. ASSUME NEW s \in Requests, InsertedRec(req[s]) PROVE req[s].row \in 1..L
      BY <1>1, <3>1 DEF AllOKIn, RequestOKIn, InsertedRec, Lists
    <3>2. QED
      BY <1>12, <3>1
  <2>3. OwnIn(req')
    BY <1>1, <1>11, <2>1, <2>2, OwnKept
  <2>4. QED
    BY <2>3, PartsNext
<1>16. RowReached'
  <2>1. RowReachedIn(consequences, req, user)
    BY Parts
  <2>2. \A s \in Requests, c \in 1..L : PendingIn(req', s, c) => PendingIn(req, s, c)
    BY <1>11, <1>12 DEF PendingIn
  <2>3. \A n : ReachedIn(consequences, req, n) => ReachedIn(D, req', n)
    BY <1>1, <1>9, <2>2, RowKept
  <2>4. ASSUME NEW s \in Requests, req'[s] # Idle
        PROVE  ReachedIn(D, req', req'[s].copy.reputation)
    <3>1. req[s] # Idle /\ req'[s].copy = req[s].copy
      BY <1>2, <1>11, <1>12, <2>4
    <3>2. QED
      BY <2>1, <2>3, <3>1 DEF RowReachedIn
  <2>5. ReachedIn(D, req', user'.reputation)
    BY <1>2, <2>1, <2>3 DEF RowReachedIn
  <2>6. QED
    BY <1>8, <2>4, <2>5, PartsNext DEF RowReachedIn
<1>17. OneByOne'
  <2>1. ~overlapped => OneIn(req)
    BY Parts
  <2>2. ~overlapped' => OneIn(req')
    BY <1>2, <1>11, <2>1 DEF OneIn
  <2>3. QED
    BY <2>2, PartsNext
<1>18. Exact'
  <2> SUFFICES ASSUME Untroubled' PROVE ExactIn(D, req', user', log'.deactivated)
    BY <1>8, PartsNext
  <2>1. Untroubled /\ ~Applying(req[r])
    BY <1>2 DEF Untroubled, Applying
  <2>2. ExactIn(consequences, req, user, log.deactivated) /\ OneIn(req)
    BY <2>1, Parts DEF Untroubled
  <2>3. /\ log.deactivated => ~user.active
        /\ user.reputation = AppliedTo(consequences, First(L))
        /\ \A s \in Requests \ {r} : req[s] = Idle
    BY <1>1, <1>2, <2>1, <2>2, AloneFacts
  <2>4. AppliedTo(D, First(L)) = AppliedTo(consequences, First(L))
    <3>1. L <= L + 1 /\ L <= L /\ \A i \in 1..L : D[i].delta = consequences[i].delta
      BY <1>7
    <3>2. QED
      BY <1>1, <1>9, <3>1, PrefixKept
  <2>5. /\ AppliedTo(D, First(L)) \in Nat
        /\ AppliedTo(D, First(L + 1)) = reputationAfter(AppliedTo(D, First(L)), d)
    <3>1. L + 1 <= L + 1 /\ D[L + 1].delta = d
      BY <1>6, <1>7
    <3>2. QED
      BY <1>9, <3>1, PrefixExtends
  <2>6. log'.deactivated = log.deactivated
    <3>1. log \in [issued : Seq(Nat), acked : Seq(Nat), deactivated : BOOLEAN]
      BY DEF TypeOK
    <3>2. QED
      BY <3>1 DEF Insert
  <2>7. CopyExactIn(D, user', log'.deactivated, x)
    BY <1>7, <1>12 DEF CopyExactIn
  <2>8. Applying(x) <=> d # 0
    BY <1>12 DEF Applying
  <2>9. d = 0 => user'.reputation = AppliedTo(D, First(Len(D)))
    BY <1>2, <1>7, <2>3, <2>4, <2>5 DEF reputationAfter
  <2>10. user'.reputation = AppliedTo(D, First(Len(D) - 1))
    <3>1. Len(D) - 1 = L
      BY <1>7
    <3>2. QED
      BY <1>2, <2>3, <2>4, <3>1
  <2>11. \A s \in Requests \ {r} : req'[s] = Idle
    BY <1>11, <2>3
  <2>12. QED
    BY <1>2, <1>11, <1>13, <2>3, <2>6, <2>7, <2>8, <2>9, <2>10, <2>11, AloneExact
<1>19. DifficultyInBounds'
  BY <1>2, <1>14, BoundsKept
<1>20. QED
  BY <1>14, <1>15, <1>16, <1>17, <1>18, <1>19

LEMMA EditedFacts ==
  ASSUME NEW C, NEW q, RequestOKIn(C, q), q.kind \notin {"acknowledge", "next"},
         q.at \notin {"insert", "rounds"}, NEW row \in BoundedRow
  PROVE  /\ Edited(q, row) \in BoundedRow
         /\ q.kind = "issue" => Edited(q, row).reputation = reputationAfter(row.reputation, q.arg.delta)
         /\ q.kind # "issue" => Edited(q, row).reputation = row.reputation
         /\ q.kind # "profile" => Edited(q, row).active = row.active
         /\ q.kind = "profile" => Edited(q, row).active = q.arg
<1>1. PICK n \in Nat, c \in Ceilings, a \in BOOLEAN :
        row = [reputation |-> n, ceiling |-> c, active |-> a]
  BY DEF BoundedRow
<1>2. CASE q.kind = "issue"
  <2>0. n \in Int
    OBVIOUS
  <2>1. q.arg.delta \in Int
    BY <1>2 DEF RequestOKIn
  <2>2. reputationAfter(n, q.arg.delta) \in Nat
    BY <2>0, <2>1, AfterTyped
  <2>3. Edited(q, row) = [reputation |-> reputationAfter(n, q.arg.delta), ceiling |-> c, active |-> a]
    BY <1>1, <1>2 DEF Edited
  <2>4. QED
    BY <1>1, <1>2, <2>2, <2>3 DEF BoundedRow
<1>3. CASE q.kind = "adjust"
  <2>1. adjustedCeiling(c, q.arg) \in Ceilings
    BY AdjustedBounded
  <2>2. Edited(q, row) = [reputation |-> n, ceiling |-> adjustedCeiling(c, q.arg), active |-> a]
    BY <1>1, <1>3 DEF Edited
  <2>3. QED
    BY <1>1, <1>3, <2>1, <2>2 DEF BoundedRow
<1>4. CASE q.kind = "ceiling"
  <2>1. q.row \in Ceilings
    BY <1>4 DEF RequestOKIn
  <2>2. RoundedCeiling(q.row) \in Ceilings
    BY <2>1, RoundedBounded
  <2>3. Edited(q, row) = [reputation |-> n, ceiling |-> RoundedCeiling(q.row), active |-> a]
    BY <1>1, <1>4 DEF Edited
  <2>4. QED
    BY <1>1, <1>4, <2>2, <2>3 DEF BoundedRow
<1>5. CASE q.kind = "profile"
  <2>1. q.arg \in BOOLEAN
    BY <1>5 DEF RequestOKIn
  <2>2. Edited(q, row) = [reputation |-> n, ceiling |-> c, active |-> q.arg]
    BY <1>1, <1>5 DEF Edited
  <2>3. QED
    BY <1>1, <1>5, <2>1, <2>2 DEF BoundedRow
<1>6. CASE q.kind = "login"
  BY <1>1, <1>6 DEF Edited, BoundedRow
<1>7. q.kind \in {"issue", "adjust", "ceiling", "profile", "login"}
  BY DEF RequestOKIn, Calls
<1>8. QED
  BY <1>2, <1>3, <1>4, <1>5, <1>6, <1>7

(* The row is read, and a copy of it edited. *)
LEMMA LoadUserKeeps ==
  ASSUME IInv, NEW r \in Requests, LoadUser(r)
  PROVE  IInv'
<1> USE DEF IInv
<1>1. PICK L \in Nat : /\ L = Len(consequences) /\ Lists(consequences, L) /\ DOMAIN req = Requests
                       /\ AllOKIn(consequences, req) /\ DOMAIN consequences = 1..L
  BY TypedFacts
<1>2. /\ UNCHANGED <<user, consequences, finished, log, given, started, failures, overlapped>>
      /\ req[r] # Idle /\ req[r].at = "load" /\ req[r].kind \notin {"acknowledge", "next"}
  BY DEF LoadUser
<1>3. RequestOKIn(consequences, req[r])
  BY <1>1, <1>2 DEF AllOKIn
<1>4. user \in BoundedRow
  BY DEF TypeOK
<1>5. PICK edited : edited = Edited(req[r], user)
  OBVIOUS
<1>6. /\ edited \in BoundedRow
      /\ req[r].kind = "issue" => edited.reputation = reputationAfter(user.reputation, req[r].arg.delta)
      /\ req[r].kind # "issue" => edited.reputation = user.reputation
      /\ req[r].kind # "profile" => edited.active = user.active
      /\ req[r].kind = "profile" => edited.active = req[r].arg
  <2>1. req[r].kind \notin {"acknowledge", "next"} /\ req[r].at \notin {"insert", "rounds"}
    BY <1>2
  <2>2. QED
    BY <1>3, <1>4, <1>5, <2>1, EditedFacts
<1>7. PICK next : next = AfterLoad(req[r].kind, edited)
  OBVIOUS
<1>8. /\ req[r].kind \in {"issue", "profile"} => next = "save"
      /\ req[r].kind = "adjust" => next \in {"save", "emit"}
      /\ req[r].kind \in {"ceiling", "login"} => next \in {"save", "done"}
      /\ req[r].kind \in {"issue", "adjust", "ceiling", "profile", "login"}
  <2>1. req[r].kind \in {"issue", "adjust", "ceiling", "profile", "login"}
    BY <1>2, <1>3 DEF RequestOKIn, Calls
  <2>2. QED
    BY <1>7, <2>1 DEF AfterLoad
<1>9. PICK x : x = IF next = "done" THEN Idle ELSE [req[r] EXCEPT !.copy = edited, !.at = next]
  OBVIOUS
<1>10. /\ req' = [req EXCEPT ![r] = x]
       /\ req'[r] = x /\ \A s \in Requests : s # r => req'[s] = req[s]
  BY <1>1, <1>5, <1>7, <1>9 DEF LoadUser
<1>11. CASE next # "done"
  <2>1. /\ DOMAIN x = Shape /\ x.kind = req[r].kind /\ x.arg = req[r].arg /\ x.copy = edited
        /\ x.row = req[r].row /\ x.at = next
    BY <1>3, <1>9, <1>11 DEF RequestOKIn, Shape
  <2>2. RequestOKIn(consequences, x) /\ x # Idle
    <3>1. next \in Calls[req[r].kind]
      BY <1>8, <1>11 DEF Calls
    <3>2. RequestOKIn(consequences, x)
      BY <1>2, <1>3, <1>6, <2>1, <3>1 DEF RequestOKIn
    <3>3. x.kind # "idle"
      BY <1>8, <2>1
    <3>4. QED
      BY <3>2, <3>3 DEF Idle
  <2>3. TypeOK'
    <3>1. Lists(consequences', L) /\ Grows(consequences, consequences') /\ consequences' \in Seq(Cause)
      BY <1>1, <1>2, SameDeltas
    <3>2. AllOKIn(consequences', req')
      BY <1>1, <1>2, <1>10, <2>2, <3>1, AllKept
    <3>3. DOMAIN req' = Requests
      BY <1>1, <1>10
    <3>4. QED
      BY <1>2, <3>1, <3>2, <3>3, TypedNext DEF TypeOK
  <2>4. CASE req[r].kind # "issue"
    <3>1. /\ consequences' \in Seq(Cause) /\ Len(consequences') = Len(consequences)
          /\ Grows(consequences, consequences')
      BY <1>2, SameDeltas
    <3>2. ~Applying(req[r])
      BY <2>4 DEF Applying
    <3>3. /\ x.kind = req[r].kind /\ x.kind # "issue" /\ x.arg = req[r].arg
          /\ x.copy.reputation = user.reputation
          /\ x.kind # "profile" => x.copy.active = user.active
          /\ x.kind = "profile" => x.copy.active = x.arg
      BY <1>6, <2>1, <2>4
    <3>4. OwnConsequence' /\ RowReached' /\ OneByOne' /\ Exact'
      BY <1>2, <1>10, <3>1, <3>2, <3>3, Advance
    <3>5. DifficultyInBounds'
      BY <1>2, <2>3, BoundsKept
    <3>6. QED
      BY <2>3, <3>4, <3>5
  <2>5. CASE req[r].kind = "issue"
    <3>1. PICK c \in 1..L : c = req[r].row /\ consequences[c].delta = req[r].arg.delta
      BY <1>1, <1>2, <1>3, <2>5 DEF RequestOKIn
    <3>2. x.at = "save" /\ x.kind = "issue" /\ x.row = c
      BY <1>8, <2>1, <2>5, <3>1
    <3>3. edited.reputation = reputationAfter(user.reputation, consequences[c].delta)
      BY <1>6, <2>5, <3>1
    <3>4. OwnIn(req)
      BY Parts
    <3>5. OwnConsequence'
      <4>1. InsertedRec(req[r]) /\ req[r].row = x.row
        BY <1>2, <2>1, <2>5 DEF InsertedRec
      <4>2. \A s \in Requests \ {r} : InsertedRec(req[s]) => req[s].row # x.row
        BY <3>4, <4>1 DEF OwnIn
      <4>3. OwnIn(req')
        BY <1>1, <1>10, <3>4, <4>2, OwnKept
      <4>4. QED
        BY <4>3, PartsNext
    <3>6. PendingIn(req, r, c)
      BY <1>2, <2>5, <3>1 DEF PendingIn
    <3>7. \A s \in Requests, e \in 1..L : PendingIn(req', s, e) => PendingIn(req, s, e) /\ e # c
      <4>1. ASSUME NEW s \in Requests, NEW e \in 1..L, PendingIn(req', s, e)
            PROVE  PendingIn(req, s, e) /\ e # c
        <5>1. s # r
          BY <1>10, <3>2, <4>1 DEF PendingIn
        <5>2. PendingIn(req, s, e)
          BY <1>10, <4>1, <5>1 DEF PendingIn
        <5>3. e # c
          BY <3>4, <3>6, <5>1, <5>2 DEF OwnIn, PendingIn, InsertedRec
        <5>4. QED
          BY <5>2, <5>3
      <4>2. QED
        BY <4>1
    <3>8. RowReachedIn(consequences, req, user)
      BY Parts
    <3>9. ReachedIn(consequences, req', edited.reputation)
      <4>1. ReachedIn(consequences, req, user.reputation)
        BY <3>8 DEF RowReachedIn
      <4>2. ReachedIn(consequences, req', reputationAfter(user.reputation, consequences[c].delta))
        BY <1>1, <3>6, <3>7, <4>1, ReachedExtends
      <4>3. QED
        BY <3>3, <4>2
    <3>10. RowReached'
      <4>1. Lists(consequences', L) /\ Grows(consequences, consequences')
        BY <1>1, <1>2, SameDeltas
      <4>2. \A n : ReachedIn(consequences, req, n) => ReachedIn(consequences', req', n)
        BY <1>1, <3>7, <4>1, RowKept
      <4>3. ASSUME NEW s \in Requests, req'[s] # Idle
            PROVE  ReachedIn(consequences', req', req'[s].copy.reputation)
        <5>1. CASE s = r
          BY <1>2, <1>10, <2>1, <3>9, <5>1
        <5>2. CASE s # r
          BY <1>10, <3>8, <4>2, <4>3, <5>2 DEF RowReachedIn
        <5>3. QED
          BY <5>1, <5>2
      <4>4. ReachedIn(consequences', req', user'.reputation)
        BY <1>2, <3>8, <4>2 DEF RowReachedIn
      <4>5. QED
        BY <4>3, <4>4, PartsNext DEF RowReachedIn
    <3>11. OneByOne'
      <4>1. ~overlapped => OneIn(req)
        BY Parts
      <4>2. ~overlapped' => OneIn(req')
        BY <1>2, <1>10, <4>1 DEF OneIn
      <4>3. QED
        BY <4>2, PartsNext
    <3>12. Exact'
      <4> SUFFICES ASSUME Untroubled' PROVE ExactIn(consequences', req', user', log'.deactivated)
        BY PartsNext
      <4>1. Untroubled /\ Applying(req[r])
        BY <1>2, <2>5 DEF Untroubled, Applying
      <4>2. ExactIn(consequences, req, user, log.deactivated) /\ OneIn(req)
        BY <4>1, Parts DEF Untroubled
      <4>3. /\ log.deactivated => ~user.active
            /\ CopyExactIn(consequences, user, log.deactivated, req[r])
            /\ user.reputation = AppliedTo(consequences, First(L - 1))
            /\ \A s \in Requests \ {r} : req[s] = Idle
        BY <1>1, <1>2, <4>1, <4>2, AloneFacts
      <4>4. c = L
        BY <1>1, <3>1, <4>1, <4>3 DEF CopyExactIn
      <4>5. edited.reputation = AppliedTo(consequences, First(L))
        <5>1. L - 1 \in Nat /\ (L - 1) + 1 = L /\ (L - 1) + 1 <= L
          BY <4>4
        <5>2. AppliedTo(consequences, First((L - 1) + 1))
                = reputationAfter(AppliedTo(consequences, First(L - 1)), consequences[(L - 1) + 1].delta)
          BY <1>1, <5>1, PrefixExtends
        <5>3. QED
          BY <3>3, <4>3, <4>4, <5>1, <5>2
      <4>6. Applying(x)
        BY <3>2 DEF Applying
      <4>7. CopyExactIn(consequences, user, log.deactivated, x)
        BY <1>1, <1>6, <2>1, <2>5, <3>2, <4>4, <4>5 DEF CopyExactIn
      <4>8. \A s \in Requests \ {r} : req'[s] = Idle
        BY <1>10, <4>3
      <4>9. QED
        BY <1>1, <1>2, <1>10, <2>2, <4>3, <4>6, <4>7, <4>8, AloneExact
    <3>13. DifficultyInBounds'
      BY <1>2, <2>3, BoundsKept
    <3>14. QED
      BY <2>3, <3>5, <3>10, <3>11, <3>12, <3>13
  <2>6. QED
    BY <2>4, <2>5
<1>12. CASE next = "done"
  <2>1. x = Idle /\ req[r].kind # "issue"
    BY <1>8, <1>9, <1>12
  <2>2. /\ consequences' \in Seq(Cause) /\ Len(consequences') = Len(consequences)
        /\ Grows(consequences, consequences') /\ Lists(consequences', L)
    BY <1>1, <1>2, SameDeltas
  <2>3. TypeOK'
    <3>1. AllOKIn(consequences', req')
      BY <1>1, <1>10, <2>1, <2>2, AllKept
    <3>2. DOMAIN req' = Requests
      BY <1>1, <1>10
    <3>3. QED
      BY <1>2, <2>2, <3>1, <3>2, TypedNext DEF TypeOK
  <2>4. ~Applying(req[r])
    BY <2>1 DEF Applying
  <2>5. OwnConsequence' /\ RowReached' /\ OneByOne' /\ Exact'
    BY <1>2, <1>10, <2>1, <2>2, <2>4, Advance
  <2>6. DifficultyInBounds'
    BY <1>2, <2>3, BoundsKept
  <2>7. QED
    BY <2>3, <2>5, <2>6
<1>13. QED
  BY <1>11, <1>12

(* The copy is written over the row. *)
LEMMA SaveUserKeeps ==
  ASSUME IInv, NEW r \in Requests, SaveUser(r)
  PROVE  IInv'
<1> USE DEF IInv
<1>1. PICK L \in Nat : /\ L = Len(consequences) /\ Lists(consequences, L) /\ DOMAIN req = Requests
                       /\ AllOKIn(consequences, req)
  BY TypedFacts
<1>2. /\ UNCHANGED <<consequences, finished, given, failures, overlapped>> /\ user' = req[r].copy
      /\ req[r] # Idle /\ req[r].at = "save"
  BY DEF SaveUser
<1>3. RequestOKIn(consequences, req[r])
  BY <1>1, <1>2 DEF AllOKIn
<1>4. PICK at : at = AfterSave(req[r].kind)
  OBVIOUS
<1>5. /\ req[r].kind \in {"issue", "adjust", "ceiling", "login", "profile"}
      /\ at \in {"emit", "emitCeiling", "done"}
      /\ at = "emit" <=> req[r].kind = "issue"
      /\ at = "emitCeiling" <=> req[r].kind \in {"adjust", "ceiling"}
  <2>1. req[r].kind \in {"issue", "adjust", "ceiling", "login", "profile"}
    BY <1>2, <1>3 DEF RequestOKIn, Calls
  <2>2. QED
    BY <1>4, <2>1 DEF AfterSave
<1>6. PICK x : /\ req' = [req EXCEPT ![r] = x]
               /\ at = "done" => x = Idle
               /\ at # "done" => /\ DOMAIN x = Shape /\ x.kind = req[r].kind /\ x.arg = req[r].arg
                                 /\ x.copy = req[r].copy /\ x.row = req[r].row /\ x.at = at
  <2>1. Goto(r, at)
    BY <1>4 DEF SaveUser
  <2>2. QED
    BY <1>2, <2>1, StepTo
<1>7. req'[r] = x /\ \A s \in Requests : s # r => req'[s] = req[s]
  BY <1>1, <1>6
<1>8. /\ consequences' \in Seq(Cause) /\ Len(consequences') = L
      /\ Grows(consequences, consequences') /\ Lists(consequences', L)
  BY <1>1, <1>2, SameDeltas
<1>9. x = Idle \/ RequestOKIn(consequences', x)
  <2>1. CASE at # "done"
    <3>1. at \in Calls[req[r].kind]
      BY <1>5, <2>1 DEF Calls
    <3>2. QED
      BY <1>2, <1>3, <1>6, <2>1, <3>1 DEF RequestOKIn
  <2>2. QED
    BY <1>6, <2>1
<1>10. log \in [issued : Seq(Nat), acked : Seq(Nat), deactivated : BOOLEAN]
  BY DEF TypeOK
<1>11. /\ log'.issued = log.issued /\ log'.acked = log.acked
       /\ log'.deactivated = (log.deactivated \/ (req[r].kind = "profile" /\ ~req[r].arg))
       /\ log' \in [issued : Seq(Nat), acked : Seq(Nat), deactivated : BOOLEAN]
  <2>1. PICK b : b = (log.deactivated \/ (req[r].kind = "profile" /\ ~req[r].arg))
    OBVIOUS
  <2>2. log' = [log EXCEPT !.deactivated = b]
    BY <2>1 DEF SaveUser
  <2>3. b \in BOOLEAN
    BY <2>1
  <2>4. QED
    BY <1>10, <2>1, <2>2, <2>3
<1>12. TypeOK'
  <2>1. AllOKIn(consequences', req')
    BY <1>1, <1>6, <1>8, <1>9, AllKept
  <2>2. DOMAIN req' = Requests
    BY <1>1, <1>6
  <2>3. user' \in BoundedRow
    BY <1>2, <1>3 DEF RequestOKIn
  <2>4. Len(log'.issued) = Len(consequences') /\ Len(log'.acked) = Len(consequences')
    BY <1>2, <1>11 DEF TypeOK
  <2>5. QED
    BY <1>2, <1>8, <1>11, <2>1, <2>2, <2>3, <2>4, TypedNext DEF TypeOK
<1>13. OwnConsequence'
  <2>1. OwnIn(req)
    BY Parts
  <2>2. \A s \in Requests \ {r} : InsertedRec(x) /\ InsertedRec(req[s]) => req[s].row # x.row
    <3>1. InsertedRec(x) => InsertedRec(req[r]) /\ req[r].row = x.row
      BY <1>2, <1>6 DEF InsertedRec
    <3>2. QED
      BY <2>1, <3>1 DEF OwnIn
  <2>3. OwnIn(req')
    BY <1>1, <1>6, <2>1, <2>2, OwnKept
  <2>4. QED
    BY <2>3, PartsNext
<1>14. RowReached'
  <2>1. RowReachedIn(consequences, req, user)
    BY Parts
  <2>2. \A s \in Requests, c \in 1..L : PendingIn(req', s, c) => PendingIn(req, s, c)
    <3>1. x = Idle \/ x.at # "load"
      BY <1>5, <1>6
    <3>2. QED
      BY <1>7, <3>1 DEF PendingIn
  <2>3. \A n : ReachedIn(consequences, req, n) => ReachedIn(consequences', req', n)
    BY <1>1, <1>8, <2>2, RowKept
  <2>4. ASSUME NEW s \in Requests, req'[s] # Idle
        PROVE  ReachedIn(consequences', req', req'[s].copy.reputation)
    <3>1. req[s] # Idle /\ req'[s].copy = req[s].copy
      BY <1>2, <1>6, <1>7, <2>4
    <3>2. QED
      BY <2>1, <2>3, <3>1 DEF RowReachedIn
  <2>5. ReachedIn(consequences', req', user'.reputation)
    BY <1>2, <2>1, <2>3 DEF RowReachedIn
  <2>6. QED
    BY <2>4, <2>5, PartsNext DEF RowReachedIn
<1>15. OneByOne'
  <2>1. ~overlapped => OneIn(req)
    BY Parts
  <2>2. ~overlapped' => OneIn(req')
    BY <1>2, <1>7, <2>1 DEF OneIn
  <2>3. QED
    BY <2>2, PartsNext
<1>16. Exact'
  <2> SUFFICES ASSUME Untroubled' PROVE ExactIn(consequences', req', user', log'.deactivated)
    BY PartsNext
  <2>1. Untroubled
    BY <1>2 DEF Untroubled
  <2>2. ExactIn(consequences, req, user, log.deactivated) /\ OneIn(req)
    BY <2>1, Parts DEF Untroubled
  <2>3. /\ log.deactivated => ~user.active
        /\ CopyExactIn(consequences, user, log.deactivated, req[r])
        /\ ~Applying(req[r]) => user.reputation = AppliedTo(consequences, First(L))
        /\ \A s \in Requests \ {r} : req[s] = Idle
    BY <1>1, <1>2, <2>2, AloneFacts
  <2>4. Applying(req[r]) <=> req[r].kind = "issue"
    BY <1>2 DEF Applying
  <2>5. user'.reputation = AppliedTo(consequences, First(L))
    BY <1>1, <1>2, <2>3, <2>4 DEF CopyExactIn
  <2>6. log'.deactivated => ~user'.active
    <3>1. CASE req[r].kind = "profile"
      BY <1>2, <1>11, <2>3, <3>1 DEF CopyExactIn
    <3>2. CASE req[r].kind # "profile"
      BY <1>2, <1>11, <2>3, <3>2 DEF CopyExactIn
    <3>3. QED
      BY <3>1, <3>2
  <2>7. x # Idle => ~Applying(x) /\ x.at # "save" /\ x.kind # "profile"
    BY <1>5, <1>6 DEF Applying
  <2>8. x # Idle => CopyExactIn(consequences', user', log'.deactivated, x)
    BY <2>7 DEF CopyExactIn
  <2>9. \A s \in Requests \ {r} : req'[s] = Idle
    BY <1>7, <2>3
  <2>10. QED
    BY <1>1, <1>2, <1>7, <2>5, <2>6, <2>7, <2>8, <2>9, AloneExact
<1>17. DifficultyInBounds'
  BY <1>2, <1>12, BoundsKept
<1>18. QED
  BY <1>12, <1>13, <1>14, <1>15, <1>16, <1>17

(* The other steps of a request. *)
LEMMA StepKeeps ==
  ASSUME IInv, NEW r \in Requests, req[r] # Idle, NEW x, req' = [req EXCEPT ![r] = x],
         consequences' \in Seq(Cause), Len(consequences') = Len(consequences),
         Grows(consequences, consequences'),
         user' = user, finished' = finished, overlapped' = overlapped, failures' \in Nat,
         log' \in [issued : Seq(Nat), acked : Seq(Nat), deactivated : BOOLEAN],
         Len(log'.issued) = Len(log.issued), Len(log'.acked) = Len(log.acked),
         log'.deactivated = log.deactivated,
         failures' = 0 => failures = 0 /\ ~Applying(req[r]),
         x = Idle \/ RequestOKIn(consequences', x),
         x # Idle => /\ x.kind = req[r].kind /\ x.kind # "issue" /\ x.arg = req[r].arg
                     /\ x.copy \in {user, req[r].copy} /\ x.at # "save",
         given' = given \/ DifficultyInBounds'
  PROVE  IInv'
<1>1. PICK L \in Nat : /\ L = Len(consequences) /\ Lists(consequences, L) /\ DOMAIN req = Requests
                       /\ AllOKIn(consequences, req)
  BY TypedFacts DEF IInv
<1>2. Lists(consequences', L)
  BY <1>1, ListsOfSeq
<1>3. TypeOK'
  <2>1. AllOKIn(consequences', req')
    BY <1>1, <1>2, AllKept
  <2>2. DOMAIN req' = Requests
    BY <1>1
  <2>3. QED
    BY <2>1, <2>2, TypedNext DEF IInv, TypeOK
<1>4. OwnConsequence' /\ RowReached' /\ OneByOne' /\ Exact'
  <2>1. x # Idle => x.copy.reputation \in {user.reputation, req[r].copy.reputation}
    OBVIOUS
  <2>2. QED
    BY <2>1, Advance
<1>5. DifficultyInBounds'
  BY <1>3, BoundsKept DEF IInv
<1>6. QED
  BY <1>3, <1>4, <1>5 DEF IInv

LEMMA LoggedKept ==
  ASSUME TypeOK, log' = log, failures' = failures
  PROVE  /\ log' \in [issued : Seq(Nat), acked : Seq(Nat), deactivated : BOOLEAN]
         /\ Len(log'.issued) = Len(log.issued) /\ Len(log'.acked) = Len(log.acked)
         /\ log'.deactivated = log.deactivated /\ failures' \in Nat
BY DEF TypeOK

LEMMA LoadRoundsKeeps ==
  ASSUME IInv, NEW r \in Requests, LoadRounds(r)
  PROVE  IInv'
<1>0. TypeOK
  BY DEF IInv
<1>1. /\ UNCHANGED <<user, consequences, finished, log, given, failures, overlapped>>
      /\ req[r] # Idle /\ req[r].at = "rounds"
  BY DEF LoadRounds
<1>2. RequestOKIn(consequences, req[r])
  BY <1>0, <1>1, TypedFacts DEF AllOKIn
<1>3. req[r].kind = "ceiling"
  BY <1>1, <1>2 DEF RequestOKIn, Calls
<1>4. calculateCeiling(finished) \in Ceilings
  BY <1>0, CeilingBounded DEF TypeOK
<1>5. PICK x : x = [req[r] EXCEPT !.row = calculateCeiling(finished), !.at = "load"]
  OBVIOUS
<1>6. req' = [req EXCEPT ![r] = x]
  BY <1>5 DEF LoadRounds
<1>7. /\ DOMAIN x = Shape /\ x.kind = "ceiling" /\ x.arg = req[r].arg /\ x.copy = req[r].copy
      /\ x.row = calculateCeiling(finished) /\ x.at = "load"
  BY <1>2, <1>3, <1>5 DEF RequestOKIn, Shape
<1>8. RequestOKIn(consequences', x)
  BY <1>1, <1>2, <1>4, <1>7 DEF RequestOKIn, Calls
<1>9. ~Applying(req[r])
  BY <1>3 DEF Applying
<1>10. QED
  BY <1>0, <1>1, <1>3, <1>6, <1>7, <1>8, <1>9, SameDeltas, LoggedKept, StepKeeps

LEMMA EmitCeilingKeeps ==
  ASSUME IInv, NEW r \in Requests, EmitCeiling(r)
  PROVE  IInv'
<1>0. TypeOK
  BY DEF IInv
<1>1. /\ UNCHANGED <<user, consequences, finished, log, given, failures, overlapped>>
      /\ req[r] # Idle /\ req[r].at = "emitCeiling"
  BY DEF EmitCeiling
<1>2. RequestOKIn(consequences, req[r])
  BY <1>0, <1>1, TypedFacts DEF AllOKIn
<1>3. req[r].kind \in {"adjust", "ceiling"}
  BY <1>1, <1>2 DEF RequestOKIn, Calls
<1>4. PICK at : at = IF req[r].kind = "adjust" THEN "emit" ELSE "done"
  OBVIOUS
<1>5. PICK x : /\ req' = [req EXCEPT ![r] = x]
               /\ at = "done" => x = Idle
               /\ at # "done" => /\ DOMAIN x = Shape /\ x.kind = req[r].kind /\ x.arg = req[r].arg
                                 /\ x.copy = req[r].copy /\ x.row = req[r].row /\ x.at = at
  <2>1. Goto(r, at)
    BY <1>4 DEF EmitCeiling
  <2>2. QED
    BY <1>0, <1>1, <2>1, StepTo
<1>6. x = Idle \/ RequestOKIn(consequences', x)
  BY <1>1, <1>2, <1>3, <1>4, <1>5 DEF RequestOKIn, Calls
<1>7. x # Idle => /\ x.kind = req[r].kind /\ x.kind # "issue" /\ x.arg = req[r].arg
                  /\ x.copy \in {user, req[r].copy} /\ x.at # "save"
  BY <1>3, <1>4, <1>5
<1>8. ~Applying(req[r])
  BY <1>3 DEF Applying
<1>9. QED
  BY <1>0, <1>1, <1>5, <1>6, <1>7, <1>8, SameDeltas, LoggedKept, StepKeeps

LEMMA EmitKeeps ==
  ASSUME IInv, NEW r \in Requests, Emit(r)
  PROVE  IInv'
<1>0. TypeOK
  BY DEF IInv
<1>1. /\ UNCHANGED <<user, consequences, finished, given, failures, overlapped>>
      /\ req[r] # Idle /\ req[r].at = "emit" /\ req[r].kind = "issue"
  BY DEF Emit
<1>2. PICK L \in Nat : /\ L = Len(consequences) /\ DOMAIN consequences = 1..L
                       /\ AllOKIn(consequences, req)
  BY <1>0, TypedFacts
<1>3. req[r].row \in 1..L
  BY <1>1, <1>2 DEF AllOKIn, RequestOKIn
<1>4. PICK i \in Seq(Nat), a \in Seq(Nat), b \in BOOLEAN :
        log = [issued |-> i, acked |-> a, deactivated |-> b] /\ Len(i) = L
  BY <1>0, <1>2 DEF TypeOK
<1>5. PICK j : j = [i EXCEPT ![req[r].row] = @ + 1]
  OBVIOUS
<1>6. j \in Seq(Nat) /\ Len(j) = Len(i)
  <2>1. PICK c \in 1..Len(i) : c = req[r].row
    BY <1>3, <1>4
  <2>2. j = [i EXCEPT ![c] = i[c] + 1] /\ i[c] \in Nat
    BY <1>5, <2>1
  <2>3. i[c] + 1 \in Nat
    BY <2>2
  <2>4. QED
    BY <2>2, <2>3
<1>7. log' = [issued |-> j, acked |-> a, deactivated |-> b]
  BY <1>4, <1>5 DEF Emit
<1>8. /\ log' \in [issued : Seq(Nat), acked : Seq(Nat), deactivated : BOOLEAN]
      /\ Len(log'.issued) = Len(log.issued) /\ Len(log'.acked) = Len(log.acked)
      /\ log'.deactivated = log.deactivated
  BY <1>4, <1>6, <1>7
<1>9. req' = [req EXCEPT ![r] = Idle] /\ ~Applying(req[r])
  BY <1>1 DEF Emit, Done, Applying
<1>10. failures' \in Nat
  BY <1>0, <1>1 DEF TypeOK
<1>11. QED
  BY <1>0, <1>1, <1>8, <1>9, <1>10, SameDeltas, StepKeeps

LEMMA EmitAcknowledgedKeeps ==
  ASSUME IInv, NEW r \in Requests, EmitAcknowledged(r)
  PROVE  IInv'
<1>0. TypeOK
  BY DEF IInv
<1>1. /\ UNCHANGED <<user, consequences, finished, given, failures, overlapped>>
      /\ req[r] # Idle /\ req[r].at = "emitAck"
  BY DEF EmitAcknowledged
<1>2. PICK L \in Nat : /\ L = Len(consequences) /\ DOMAIN consequences = 1..L
                       /\ AllOKIn(consequences, req)
  BY <1>0, TypedFacts
<1>3. req[r].kind = "acknowledge" /\ req[r].arg \in 1..L
  <2>1. RequestOKIn(consequences, req[r])
    BY <1>1, <1>2 DEF AllOKIn
  <2>2. req[r].kind = "acknowledge"
    BY <1>1, <2>1 DEF RequestOKIn, Calls
  <2>3. QED
    BY <1>2, <2>1, <2>2 DEF RequestOKIn
<1>4. PICK i \in Seq(Nat), a \in Seq(Nat), b \in BOOLEAN :
        log = [issued |-> i, acked |-> a, deactivated |-> b] /\ Len(a) = L
  BY <1>0, <1>2 DEF TypeOK
<1>5. PICK j : j = [a EXCEPT ![req[r].arg] = @ + 1]
  OBVIOUS
<1>6. j \in Seq(Nat) /\ Len(j) = Len(a)
  <2>1. PICK c \in 1..Len(a) : c = req[r].arg
    BY <1>3, <1>4
  <2>2. j = [a EXCEPT ![c] = a[c] + 1] /\ a[c] \in Nat
    BY <1>5, <2>1
  <2>3. a[c] + 1 \in Nat
    BY <2>2
  <2>4. QED
    BY <2>2, <2>3
<1>7. log' = [issued |-> i, acked |-> j, deactivated |-> b]
  BY <1>4, <1>5 DEF EmitAcknowledged
<1>8. /\ log' \in [issued : Seq(Nat), acked : Seq(Nat), deactivated : BOOLEAN]
      /\ Len(log'.issued) = Len(log.issued) /\ Len(log'.acked) = Len(log.acked)
      /\ log'.deactivated = log.deactivated
  BY <1>4, <1>6, <1>7
<1>9. req' = [req EXCEPT ![r] = Idle] /\ ~Applying(req[r])
  BY <1>1, <1>3 DEF EmitAcknowledged, Done, Applying
<1>10. failures' \in Nat
  BY <1>0, <1>1 DEF TypeOK
<1>11. QED
  BY <1>0, <1>1, <1>8, <1>9, <1>10, SameDeltas, StepKeeps

(* The two answers that hand out a difficulty. *)
LEMMA GivenBounded ==
  ASSUME IInv, NEW r \in Requests, req[r] # Idle, user' = user, NEW d,
         d.target \in DIMENSION_MIN..DIMENSION_MAX, d.target <= req[r].copy.ceiling,
         d.multiplier \in MULTIPLIER_MIN..MULTIPLIER_MAX,
         Give(d, req[r].copy.ceiling)
  PROVE  DifficultyInBounds'
BY DEF IInv, DifficultyInBounds, Give

LEMMA EmitAdjustedKeeps ==
  ASSUME IInv, NEW r \in Requests, EmitAdjusted(r)
  PROVE  IInv'
<1>0. TypeOK
  BY DEF IInv
<1>1. /\ UNCHANGED <<user, consequences, finished, log, failures, overlapped>>
      /\ req[r] # Idle /\ req[r].at = "emit" /\ req[r].kind = "adjust"
  BY DEF EmitAdjusted
<1>2. req[r].copy.ceiling \in Ceilings
  BY <1>0, <1>1, TypedFacts DEF AllOKIn, RequestOKIn, BoundedRow
<1>3. PICK d : d = adjustedDifficulty(req[r].copy.ceiling, req[r].arg)
  OBVIOUS
<1>4. /\ d.target \in DIMENSION_MIN..DIMENSION_MAX /\ d.target <= req[r].copy.ceiling
      /\ d.multiplier \in MULTIPLIER_MIN..MULTIPLIER_MAX
  BY <1>2, <1>3, AdjustedDifficultyBounded
<1>5. Give(d, req[r].copy.ceiling)
  BY <1>3 DEF EmitAdjusted
<1>6. DifficultyInBounds'
  BY <1>1, <1>4, <1>5, GivenBounded
<1>7. req' = [req EXCEPT ![r] = Idle] /\ ~Applying(req[r])
  BY <1>1 DEF EmitAdjusted, Done, Applying
<1>8. QED
  BY <1>0, <1>1, <1>6, <1>7, SameDeltas, LoggedKept, StepKeeps

LEMMA AnswerNextKeeps ==
  ASSUME IInv, NEW r \in Requests, AnswerNext(r)
  PROVE  IInv'
<1>0. TypeOK
  BY DEF IInv
<1>1. /\ UNCHANGED <<user, consequences, finished, log, failures, overlapped>>
      /\ req[r] # Idle /\ req[r].at = "count"
  BY DEF AnswerNext
<1>2. RequestOKIn(consequences, req[r])
  BY <1>0, <1>1, TypedFacts DEF AllOKIn
<1>3. req[r].copy.ceiling \in Ceilings /\ req[r].kind = "next"
  BY <1>1, <1>2 DEF RequestOKIn, Calls, BoundedRow
<1>4. Completed(finished) \in Nat
  BY <1>0, CompletedTyped DEF TypeOK
<1>5. PICK d : d = nextDifficulty(req[r].copy.ceiling, Completed(finished))
  OBVIOUS
<1>6. /\ d.target \in DIMENSION_MIN..DIMENSION_MAX /\ d.target <= req[r].copy.ceiling
      /\ d.multiplier \in MULTIPLIER_MIN..MULTIPLIER_MAX
  BY <1>3, <1>4, <1>5, NextBounded
<1>7. Give(d, req[r].copy.ceiling)
  BY <1>5 DEF AnswerNext
<1>8. DifficultyInBounds'
  BY <1>1, <1>6, <1>7, GivenBounded
<1>9. req' = [req EXCEPT ![r] = Idle] /\ ~Applying(req[r])
  BY <1>1, <1>3 DEF AnswerNext, Done, Applying
<1>10. QED
  BY <1>0, <1>1, <1>8, <1>9, SameDeltas, LoggedKept, StepKeeps

LEMMA LoadCeilingKeeps ==
  ASSUME IInv, NEW r \in Requests, LoadCeiling(r)
  PROVE  IInv'
<1>0. TypeOK
  BY DEF IInv
<1>1. /\ UNCHANGED <<user, consequences, finished, log, given, failures, overlapped>>
      /\ req[r] # Idle /\ req[r].at = "load" /\ req[r].kind = "next"
  BY DEF LoadCeiling
<1>2. RequestOKIn(consequences, req[r]) /\ user \in BoundedRow
  BY <1>0, <1>1, TypedFacts DEF AllOKIn, TypeOK
<1>3. PICK x : x = [req[r] EXCEPT !.copy = user, !.at = "count"]
  OBVIOUS
<1>4. req' = [req EXCEPT ![r] = x]
  BY <1>3 DEF LoadCeiling
<1>5. /\ DOMAIN x = Shape /\ x.kind = "next" /\ x.arg = req[r].arg /\ x.copy = user
      /\ x.row = req[r].row /\ x.at = "count"
  BY <1>1, <1>2, <1>3 DEF RequestOKIn, Shape
<1>6. RequestOKIn(consequences', x)
  BY <1>1, <1>2, <1>5 DEF RequestOKIn, Calls
<1>7. ~Applying(req[r])
  BY <1>1 DEF Applying
<1>8. QED
  BY <1>0, <1>1, <1>4, <1>5, <1>6, <1>7, SameDeltas, LoggedKept, StepKeeps

LEMMA LoadConsequenceKeeps ==
  ASSUME IInv, NEW r \in Requests, LoadConsequence(r)
  PROVE  IInv'
<1>0. TypeOK
  BY DEF IInv
<1>1. /\ UNCHANGED <<user, consequences, finished, log, given, failures, overlapped>>
      /\ req[r] # Idle /\ req[r].at = "load" /\ req[r].kind = "acknowledge"
  BY DEF LoadConsequence
<1>2. RequestOKIn(consequences, req[r])
  BY <1>0, <1>1, TypedFacts DEF AllOKIn
<1>3. PICK at : at = IF consequences[req[r].arg].acknowledged THEN "done" ELSE "saveAck"
  OBVIOUS
<1>4. PICK x : /\ req' = [req EXCEPT ![r] = x]
               /\ at = "done" => x = Idle
               /\ at # "done" => /\ DOMAIN x = Shape /\ x.kind = req[r].kind /\ x.arg = req[r].arg
                                 /\ x.copy = req[r].copy /\ x.row = req[r].row /\ x.at = at
  <2>1. Goto(r, at)
    BY <1>3 DEF LoadConsequence
  <2>2. QED
    BY <1>0, <1>1, <2>1, StepTo
<1>5. x = Idle \/ RequestOKIn(consequences', x)
  BY <1>1, <1>2, <1>3, <1>4 DEF RequestOKIn, Calls
<1>6. x # Idle => /\ x.kind = req[r].kind /\ x.kind # "issue" /\ x.arg = req[r].arg
                  /\ x.copy \in {user, req[r].copy} /\ x.at # "save"
  BY <1>1, <1>3, <1>4
<1>7. ~Applying(req[r])
  BY <1>1 DEF Applying
<1>8. QED
  BY <1>0, <1>1, <1>4, <1>5, <1>6, <1>7, SameDeltas, LoggedKept, StepKeeps

LEMMA SaveAcknowledgedKeeps ==
  ASSUME IInv, NEW r \in Requests, SaveAcknowledged(r)
  PROVE  IInv'
<1>0. TypeOK
  BY DEF IInv
<1>1. /\ UNCHANGED <<user, finished, log, given, failures, overlapped>>
      /\ req[r] # Idle /\ req[r].at = "saveAck"
  BY DEF SaveAcknowledged
<1>2. PICK L \in Nat : /\ L = Len(consequences) /\ DOMAIN consequences = 1..L
                       /\ consequences \in Seq(Cause) /\ Lists(consequences, L)
  BY <1>0, TypedFacts
<1>3. RequestOKIn(consequences, req[r])
  BY <1>0, <1>1, TypedFacts DEF AllOKIn
<1>4. req[r].kind = "acknowledge"
  BY <1>1, <1>3 DEF RequestOKIn, Calls
<1>5. PICK c \in 1..L : c = req[r].arg
  BY <1>2, <1>3, <1>4 DEF RequestOKIn
<1>6. PICK t \in ConsequenceType, d \in Int, b \in BOOLEAN :
        consequences[c] = [type |-> t, delta |-> d, acknowledged |-> b]
  <2>1. PICK Rows : Rows = Cause
    OBVIOUS
  <2>2. consequences \in Seq(Rows)
    BY <1>2, <2>1
  <2>3. consequences[c] \in Rows
    BY <1>2, <2>2
  <2>4. QED
    BY <2>1, <2>3 DEF Cause
<1>7. PICK yes \in BOOLEAN : yes = TRUE
  OBVIOUS
<1>8. PICK y \in Cause : /\ y = [consequences[c] EXCEPT !.acknowledged = yes]
                        /\ y.delta = consequences[c].delta
  <2>1. PICK y : y = [[type |-> t, delta |-> d, acknowledged |-> b] EXCEPT !.acknowledged = yes]
    OBVIOUS
  <2>2. y \in Cause /\ y.delta = d
    BY <2>1 DEF Cause
  <2>3. QED
    BY <1>6, <2>1, <2>2
<1>9. consequences' = [consequences EXCEPT ![c] = y]
  BY <1>5, <1>7, <1>8 DEF SaveAcknowledged
<1>10. consequences' \in Seq(Cause) /\ Len(consequences') = L
  <2>1. PICK Rows : Rows = Cause
    OBVIOUS
  <2>2. consequences \in Seq(Rows) /\ y \in Rows /\ c \in 1..Len(consequences)
    BY <1>2, <1>8, <2>1
  <2>3. consequences' \in Seq(Rows) /\ Len(consequences') = L
    BY <1>2, <1>9, <2>2
  <2>4. QED
    BY <2>1, <2>3
<1>11. Grows(consequences, consequences') /\ Lists(consequences', L)
  <2>1. Lists(consequences', L)
    BY <1>10, ListsOfSeq
  <2>2. \A i \in 1..L : consequences'[i].delta = consequences[i].delta
    BY <1>2, <1>8, <1>9
  <2>3. QED
    BY <1>2, <1>10, <2>1, <2>2 DEF Grows
<1>12. PICK x : /\ req' = [req EXCEPT ![r] = x]
                /\ DOMAIN x = Shape /\ x.kind = req[r].kind /\ x.arg = req[r].arg
                /\ x.copy = req[r].copy /\ x.row = req[r].row /\ x.at = "emitAck"
  <2>1. Goto(r, "emitAck") /\ "emitAck" # "done"
    BY DEF SaveAcknowledged
  <2>2. QED
    BY <1>0, <1>1, <2>1, StepTo
<1>13. RequestOKIn(consequences', x)
  <2>1. RequestOKIn(consequences', req[r])
    BY <1>2, <1>3, <1>11, RequestKept
  <2>2. QED
    BY <1>4, <1>12, <2>1 DEF RequestOKIn, Calls
<1>14. ~Applying(req[r])
  BY <1>4 DEF Applying
<1>15. QED
  BY <1>0, <1>1, <1>2, <1>4, <1>10, <1>11, <1>12, <1>13, <1>14, LoggedKept, StepKeeps

(* A rejected call leaves what was saved. *)
LEMMA FailKeeps ==
  ASSUME IInv, NEW r \in Requests, Fail(r)
  PROVE  IInv'
<1>0. TypeOK
  BY DEF IInv
<1>1. UNCHANGED <<user, consequences, finished, log, given, overlapped>> /\ req[r] # Idle
  BY DEF Fail
<1>2. failures' \in Nat /\ failures' # 0
  BY <1>0 DEF Fail, TypeOK
<1>3. req' = [req EXCEPT ![r] = Idle]
  BY DEF Fail, Done
<1>4. /\ log' \in [issued : Seq(Nat), acked : Seq(Nat), deactivated : BOOLEAN]
      /\ Len(log'.issued) = Len(log.issued) /\ Len(log'.acked) = Len(log.acked)
      /\ log'.deactivated = log.deactivated
  BY <1>0, <1>1 DEF TypeOK
<1>5. QED
  BY <1>0, <1>1, <1>2, <1>3, <1>4, SameDeltas, StepKeeps

LEMMA FinishRoundKeeps ==
  ASSUME IInv, FinishRound
  PROVE  IInv'
<1> USE DEF IInv
<1>1. UNCHANGED <<user, consequences, log, req, given, failures, overlapped>>
  BY DEF FinishRound
<1>2. PICK ok \in BOOLEAN, d \in Difficulties :
        finished' = Append(finished, [completed |-> ok, difficulty |-> d])
  BY DEF FinishRound
<1>3. finished' \in Seq([completed : BOOLEAN, difficulty : Int])
  <2>1. PICK Rows : Rows = [completed : BOOLEAN, difficulty : Int]
    OBVIOUS
  <2>2. d \in Int
    BY LedgerAssumption DEF DIMENSION_MIN, DIMENSION_MAX
  <2>3. finished \in Seq(Rows) /\ [completed |-> ok, difficulty |-> d] \in Rows
    BY <2>1, <2>2 DEF TypeOK
  <2>4. finished' \in Seq(Rows)
    BY <1>2, <2>3
  <2>5. QED
    BY <2>1, <2>4
<1>4. TypeOK'
  BY <1>1, <1>3, TypedFacts, TypedNext DEF TypeOK
<1>5. OwnConsequence' /\ RowReached' /\ OneByOne' /\ Exact'
  BY <1>1, Parts, PartsNext DEF Untroubled
<1>6. DifficultyInBounds'
  BY <1>1, <1>4, BoundsKept
<1>7. QED
  BY <1>4, <1>5, <1>6

-----------------------------------------------------------------------------
(* The theorems. *)

LEMMA InitHolds ==
  ASSUME Init
  PROVE  IInv
<1>1. TypeOK
  <2>1. user \in BoundedRow
    BY DEF Init, NewUser, BoundedRow, Ceilings, CEILING_MIN, CEILING_MAX, BASELINE
  <2>2. consequences \in Seq(Cause) /\ Len(consequences) = 0
    BY DEF Init
  <2>3. finished \in Seq([completed : BOOLEAN, difficulty : Int])
    BY DEF Init
  <2>4. PICK e \in Seq(Nat) : e = <<>> /\ Len(e) = 0
    <3>1. <<>> \in Seq(Nat) /\ Len(<<>>) = 0
      OBVIOUS
    <3>2. QED
      BY <3>1
  <2>5. log = [issued |-> e, acked |-> e, deactivated |-> FALSE]
    BY <2>4 DEF Init
  <2>6. log \in [issued : Seq(Nat), acked : Seq(Nat), deactivated : BOOLEAN]
        /\ Len(log.issued) = 0 /\ Len(log.acked) = 0
    BY <2>4, <2>5
  <2>7. failures \in Nat /\ overlapped \in BOOLEAN /\ DOMAIN req = Requests
        /\ \A r \in Requests : ~Busy(r)
    BY DEF Init, Busy
  <2>8. QED
    BY <2>1, <2>2, <2>3, <2>6, <2>7 DEF TypeOK, Cause
<1>2. \A r \in Requests : req[r] = Idle
  BY DEF Init
<1>3. OwnConsequence /\ OneByOne
  BY <1>2 DEF OwnConsequence, OneByOne, Inserted, Busy
<1>4. Lists(consequences, 0) /\ user.reputation = 0 /\ ~log.deactivated /\ Len(consequences) = 0
  BY DEF Init, Lists, NewUser
<1>5. AppliedTo(consequences, First(0)) = 0 /\ ReachedIn(consequences, req, 0)
  BY <1>4, PrefixEmpty
<1>6. RowReached
  BY <1>2, <1>4, <1>5, Parts DEF RowReachedIn
<1>7. Exact
  BY <1>2, <1>4, <1>5, Parts DEF ExactIn
<1>8. DifficultyInBounds
  BY DEF Init, DifficultyInBounds, NewUser, BASELINE, CEILING_MIN, CEILING_MAX, DIMENSION_MIN,
         DIMENSION_MAX, MULTIPLIER_MIN, MULTIPLIER_MAX
<1>9. QED
  BY <1>1, <1>3, <1>6, <1>7, <1>8 DEF IInv

LEMMA TemplatesTyped == Templates \subseteq [type : ConsequenceType, delta : Int]
<1>1. ASSUME NEW t \in {"round_failed", "distraction_threshold"}, NEW s \in Severities
      PROVE  Rule(t, s) \in [type : ConsequenceType, delta : Int]
  <2>1. s \in {"low", "medium", "high", "critical"}
    BY LedgerAssumption
  <2>2. QED
    BY <2>1 DEF Rule, ConsequenceType
<1>2. ASSUME NEW d \in Awards
      PROVE  [type |-> "streak_break", delta |-> d] \in [type : ConsequenceType, delta : Int]
  BY LedgerAssumption DEF ConsequenceType
<1>3. QED
  BY <1>1, <1>2 DEF Templates

LEMMA StartsKeep ==
  ASSUME IInv, NEW r \in Requests,
         Issue(r) \/ Acknowledge(r) \/ Adjust(r) \/ UpdateCeiling(r) \/ NextDifficulty(r)
            \/ Login(r) \/ UpdateProfile(r)
  PROVE  IInv'
<1> USE DEF Calls
<1>1. CASE Issue(r)
  <2>1. PICK t \in Templates : Start(r, "issue", t, "insert")
    BY <1>1 DEF Issue
  <2>2. t \in [type : ConsequenceType, delta : Int]
    BY TemplatesTyped
  <2>3. QED
    BY <2>1, <2>2, StartKeeps
<1>2. CASE Acknowledge(r)
  BY <1>2, StartKeeps DEF Acknowledge
<1>3. CASE Adjust(r)
  <2>1. PICK c \in DOMAIN consequences : Start(r, "adjust", consequences[c].type, "load")
    BY <1>3 DEF Adjust
  <2>2. consequences[c].type \in ConsequenceType
    <3>1. PICK Rows : Rows = Cause
      OBVIOUS
    <3>2. consequences \in Seq(Rows)
      BY <3>1, TypedFacts DEF IInv
    <3>3. consequences[c] \in Rows
      BY <3>2
    <3>4. QED
      BY <3>1, <3>3 DEF Cause
  <2>3. QED
    BY <2>1, <2>2, StartKeeps
<1>4. CASE UpdateCeiling(r)
  BY <1>4, StartKeeps DEF UpdateCeiling
<1>5. CASE NextDifficulty(r)
  BY <1>5, StartKeeps DEF NextDifficulty
<1>6. CASE Login(r)
  BY <1>6, StartKeeps DEF Login
<1>7. CASE UpdateProfile(r)
  BY <1>7, StartKeeps DEF UpdateProfile
<1>8. QED
  BY <1>1, <1>2, <1>3, <1>4, <1>5, <1>6, <1>7

LEMMA NextKeeps ==
  ASSUME IInv, [Next]_vars
  PROVE  IInv'
<1>1. CASE UNCHANGED vars
  <2>1. UNCHANGED <<user, consequences, finished, log, req, given, failures, overlapped>>
    BY <1>1 DEF vars
  <2>2. TypeOK'
    BY <2>1, TypedFacts, TypedNext DEF IInv, TypeOK
  <2>3. OwnConsequence' /\ RowReached' /\ OneByOne' /\ Exact'
    BY <2>1, Parts, PartsNext DEF IInv, Untroubled
  <2>4. QED
    BY <2>1, <2>2, <2>3, BoundsKept DEF IInv
<1>2. CASE FinishRound
  BY <1>2, FinishRoundKeeps
<1>3. ASSUME NEW r \in Requests,
             Issue(r) \/ Acknowledge(r) \/ Adjust(r) \/ UpdateCeiling(r) \/ NextDifficulty(r)
                \/ Login(r) \/ UpdateProfile(r)
      PROVE  IInv'
  BY <1>3, StartsKeep
<1>4. ASSUME NEW r \in Requests, Serve(r) PROVE IInv'
  BY <1>4, InsertKeeps, LoadRoundsKeeps, LoadUserKeeps, SaveUserKeeps, EmitKeeps, EmitAdjustedKeeps,
     LoadCeilingKeeps, AnswerNextKeeps, LoadConsequenceKeeps, SaveAcknowledgedKeeps,
     EmitAcknowledgedKeeps, EmitCeilingKeeps DEF Serve
<1>5. ASSUME NEW r \in Requests, Fail(r) PROVE IInv'
  BY <1>5, FailKeeps
<1>6. QED
  BY <1>1, <1>2, <1>3, <1>4, <1>5 DEF Next

(* At every awaited call of every request: what the copies in flight are    *)
(* made of, and what one request at a time knows of the row.                *)
THEOREM LedgerInvariance == Spec => []IInv
<1>1. Init => IInv
  BY InitHolds
<1>2. IInv /\ [Next]_vars => IInv'
  BY NextKeeps
<1>3. QED
  BY <1>1, <1>2, PTL DEF Spec

LEMMA RowFollows ==
  ASSUME IInv
  PROVE  RowAccounted
<1> USE DEF IInv
<1>1. user \in UserRow /\ \A r \in Requests : req[r] = Idle \/ req[r].copy \in UserRow
  <2>1. BoundedRow \subseteq UserRow
    BY DEF BoundedRow, UserRow, Ceilings, CEILING_MIN, CEILING_MAX
  <2>2. \A r \in Requests : req[r] # Idle => req[r].copy \in BoundedRow
    BY TypedFacts DEF AllOKIn, RequestOKIn
  <2>3. QED
    BY <2>1, <2>2 DEF TypeOK
<1>2. \E chain \in Chains : user.reputation = Applied(chain)
  BY DEF RowReached, Reached
<1>3. ASSUME ~overlapped, failures = 0, \A r \in Requests : req[r] = Idle
      PROVE  /\ user.reputation = Applied(First(Len(consequences)))
             /\ log.deactivated => ~user.active
  BY <1>3 DEF Exact, Untroubled, Busy
<1>4. QED
  BY <1>1, <1>2, <1>3 DEF RowAccounted

(* RowAccounted holds for any number of requests, consequences and          *)
(* failures: no overlap of issues, adjustments, logins and profile changes  *)
(* makes of the reputation what no sequence of consequences makes of it.    *)
THEOREM RowAlwaysAccounted == Spec => []RowAccounted
<1>1. IInv => RowAccounted
  BY RowFollows
<1>2. QED
  BY <1>1, LedgerInvariance, PTL

(* DifficultyInBounds holds after any history of rounds, consequences and   *)
(* overlapping requests.                                                    *)
THEOREM DifficultyAlwaysInBounds == Spec => []DifficultyInBounds
<1>1. IInv => DifficultyInBounds
  BY DEF IInv
<1>2. QED
  BY <1>1, LedgerInvariance, PTL
-----------------------------------------------------------------------------
(* The agent's day. *)

(* Minutes and windows. *)
LEMMA MinutesInWindows ==
  ASSUME NEW m \in Nat
  PROVE  /\ WindowAt(m) \in Nat
         /\ \A w \in Nat : WindowAt(m) = w <=> w * Window <= m /\ m < (w + 1) * Window
<1>1. WindowAt(m) \in Nat /\ WindowAt(m) * Window <= m /\ m < (WindowAt(m) + 1) * Window
  BY DayAssumption DEF WindowAt
<1>2. ASSUME NEW w \in Nat, w * Window <= m, m < (w + 1) * Window
      PROVE  WindowAt(m) = w
  BY <1>2, DayAssumption DEF WindowAt
<1>3. QED
  BY <1>1, <1>2

LEMMA WindowsFollow ==
  ASSUME NEW m \in Nat, NEW n \in Nat, m <= n
  PROVE  WindowAt(m) <= WindowAt(n)
BY DayAssumption DEF WindowAt

LEMMA WindowLimits ==
  ASSUME NEW w \in Nat, NEW v \in Nat
  PROVE  /\ w * Window \in Nat /\ (w + 1) * Window \in Nat /\ (w + 1) * Window = w * Window + Window
         /\ w < v => (w + 1) * Window <= v * Window
BY DayAssumption DEF WindowAt

(* The day so far. *)
LEMMA PresentTyped ==
  ASSUME DayType
  PROVE  /\ now \in Nat /\ Len(day) = now + 1 /\ WindowAt(now) \in Nat
         /\ Sample = day[now + 1]
         /\ \A t \in 0..now : day[t + 1] \in Shown
         /\ \A w \in Nat : w < WindowAt(now) => (w + 1) * Window <= now
<1>1. day \in Seq(Shown) /\ day # <<>>
  BY DEF DayType
<1>2. Len(day) \in Nat /\ Len(day) # 0
  BY <1>1, EmptySeq
<1>3. now \in Nat /\ Len(day) = now + 1
  BY <1>2 DEF now
<1>4. ASSUME NEW w \in Nat, w < WindowAt(now) PROVE (w + 1) * Window <= now
  <2>1. PICK v \in Nat : v = WindowAt(now)
    BY <1>3, MinutesInWindows
  <2>2. v * Window <= now
    BY <1>3, <2>1, MinutesInWindows
  <2>3. (w + 1) * Window <= v * Window /\ (w + 1) * Window \in Nat /\ v * Window \in Nat
    BY <1>4, <2>1, WindowLimits
  <2>4. QED
    BY <1>3, <2>2, <2>3
<1>5. ASSUME NEW t \in 0..now PROVE day[t + 1] \in Shown
  <2>1. t + 1 \in 1..Len(day)
    BY <1>3
  <2>2. QED
    BY <1>1, <2>1
<1>6. QED
  BY <1>3, <1>4, <1>5, MinutesInWindows DEF Sample

LEMMA MinutesWithin ==
  ASSUME NEW w \in Nat, NEW n \in Nat, NEW t
  PROVE  t \in {m \in w * Window..(w + 1) * Window - 1 : m <= n} <=> t \in 0..n /\ WindowAt(t) = w
<1>1. PICK low \in Nat : low = w * Window
  BY WindowLimits
<1>2. PICK high \in Nat : high = (w + 1) * Window
  BY WindowLimits
<1>3. ASSUME NEW m \in Nat PROVE WindowAt(m) = w <=> low <= m /\ m < high
  BY <1>1, <1>2, MinutesInWindows
<1>4. t \in {m \in low..high - 1 : m <= n} <=> t \in 0..n /\ low <= t /\ t < high
  OBVIOUS
<1>5. t \in 0..n => t \in Nat
  OBVIOUS
<1>6. QED
  BY <1>1, <1>2, <1>3, <1>4, <1>5

LEMMA MinutesOfWindow ==
  ASSUME DayType, NEW w \in Nat, NEW t
  PROVE  t \in MinutesOf(w) <=> t \in 0..now /\ WindowAt(t) = w
BY PresentTyped, MinutesWithin DEF MinutesOf

LEMMA IdleAtTyped ==
  ASSUME DayType, NEW t \in 0..now
  PROVE  IdleAt(t) \in BOOLEAN /\ day[t + 1].idle \in Nat
BY PresentTyped DEF IdleAt, Shown

LEMMA MinutesAreFinite ==
  ASSUME DayType, NEW S, S \subseteq 0..now
  PROVE  IsFiniteSet(S)
<1>1. PICK n \in Int : n = now
  BY PresentTyped
<1>2. IsFiniteSet(0..n)
  BY FS_Interval
<1>3. QED
  BY <1>1, <1>2, FS_Subset

(* A minute is one of the idle minutes that count if the one before is, or *)
(* begins a period.                                                        *)
LEMMA IdleWithinGrows ==
  ASSUME DayType, NEW w \in Nat, NEW t \in MinutesOf(w)
  PROVE  t \in IdleWithin(w) <=>
            IdleAt(t) /\ (t = 0 \/ ~IdleAt(t - 1) \/ t - 1 \in IdleWithin(w))
<1>0. now \in Nat
  BY PresentTyped
<1>1. t \in 0..now /\ WindowAt(t) = w
  BY MinutesOfWindow
<1>2. ASSUME t \in IdleWithin(w)
      PROVE  IdleAt(t) /\ (t = 0 \/ ~IdleAt(t - 1) \/ t - 1 \in IdleWithin(w))
  <2>1. PICK s \in MinutesOf(w) :
          s <= t /\ (\A u \in s..t : IdleAt(u)) /\ (s = 0 \/ ~IdleAt(s - 1))
    BY <1>2 DEF IdleWithin
  <2>2. s \in 0..now /\ WindowAt(s) = w
    BY MinutesOfWindow
  <2>3. IdleAt(t)
    BY <1>0, <1>1, <2>1, <2>2
  <2>4. CASE s = t
    BY <2>1, <2>3, <2>4
  <2>5. CASE s # t
    <3>1. s <= t - 1 /\ t - 1 \in 0..now /\ (\A u \in s..(t - 1) : u \in s..t)
      BY <1>0, <1>1, <2>1, <2>2, <2>5
    <3>2. WindowAt(s) <= WindowAt(t - 1) /\ WindowAt(t - 1) <= WindowAt(t)
      BY <1>0, <1>1, <2>2, <3>1, WindowsFollow
    <3>3. WindowAt(t - 1) \in Nat
      BY <3>1, MinutesInWindows
    <3>4. t - 1 \in MinutesOf(w)
      BY <1>1, <2>2, <3>1, <3>2, <3>3, MinutesOfWindow
    <3>5. t - 1 \in IdleWithin(w)
      BY <2>1, <3>1, <3>4 DEF IdleWithin
    <3>6. QED
      BY <2>3, <3>5
  <2>6. QED
    BY <2>4, <2>5
<1>3. ASSUME IdleAt(t), t = 0 \/ ~IdleAt(t - 1)
      PROVE  t \in IdleWithin(w)
  <2>1. t <= t /\ \A u \in t..t : IdleAt(u)
    BY <1>0, <1>1, <1>3
  <2>2. QED
    BY <1>3, <2>1 DEF IdleWithin
<1>4. ASSUME IdleAt(t), t - 1 \in IdleWithin(w)
      PROVE  t \in IdleWithin(w)
  <2>1. PICK s \in MinutesOf(w) :
          s <= t - 1 /\ (\A u \in s..(t - 1) : IdleAt(u)) /\ (s = 0 \/ ~IdleAt(s - 1))
    BY <1>4 DEF IdleWithin
  <2>2. s \in 0..now
    BY MinutesOfWindow
  <2>3. s <= t /\ \A u \in s..t : u = t \/ u \in s..(t - 1)
    BY <1>0, <1>1, <2>1, <2>2
  <2>4. \A u \in s..t : IdleAt(u)
    BY <1>4, <2>1, <2>3
  <2>5. QED
    BY <2>1, <2>3, <2>4 DEF IdleWithin
<1>5. QED
  BY <1>2, <1>3, <1>4

(* What the past was like does not change. *)
LEMMA PastIsFixed ==
  ASSUME DayType, day' = day \/ \E x \in Shown : day' = Append(day, x),
         NEW w \in Nat, NEW until \in Nat, until <= now + 1
  PROVE  /\ now' \in {now, now + 1} /\ (day' = day => now' = now)
         /\ \A t \in 0..now : (IdleAt(t)' <=> IdleAt(t)) /\ day'[t + 1] = day[t + 1]
         /\ {t \in MinutesOf(w) : t < until /\ IdleAt(t)}' = {t \in MinutesOf(w) : t < until /\ IdleAt(t)}
         /\ \A t \in 0..now : t \in IdleWithin(w)' <=> t \in IdleWithin(w)
         /\ {t \in IdleWithin(w) : t < until}' = {t \in IdleWithin(w) : t < until}
<1>0. day \in Seq(Shown) /\ now \in Nat /\ Len(day) = now + 1
  BY PresentTyped DEF DayType
<1>1. /\ now' \in {now, now + 1} /\ (day' = day => now' = now)
      /\ \A t \in 0..now : day'[t + 1] = day[t + 1]
  <2>1. CASE day' = day
    BY <1>0, <2>1 DEF now
  <2>2. CASE \E x \in Shown : day' = Append(day, x)
    <3>1. PICK x \in Shown : day' = Append(day, x)
      BY <2>2
    <3>2. Len(day') = Len(day) + 1 /\ \A k \in 1..Len(day) : day'[k] = day[k]
      BY <1>0, <3>1
    <3>3. now' = now + 1 /\ day' # day
      BY <1>0, <3>2 DEF now
    <3>4. \A t \in 0..now : t + 1 \in 1..Len(day)
      BY <1>0
    <3>5. QED
      BY <3>2, <3>3, <3>4
  <2>3. QED
    BY <2>1, <2>2
<1>2. \A t \in 0..now : IdleAt(t)' <=> IdleAt(t)
  BY <1>1 DEF IdleAt
<1>3a. now' \in Nat
  BY <1>0, <1>1
<1>3b. \A t : t \in MinutesOf(w)' <=> t \in 0..now' /\ WindowAt(t) = w
  BY <1>3a, MinutesWithin DEF MinutesOf
<1>3. ASSUME NEW t, t < until PROVE t \in MinutesOf(w)' <=> t \in MinutesOf(w)
  <2>1. t \in 0..now <=> t \in 0..now'
    BY <1>0, <1>1, <1>3
  <2>2. QED
    BY <2>1, <1>3b, MinutesOfWindow
<1>4. \A t \in MinutesOf(w) : t \in 0..now
  BY MinutesOfWindow
<1>5. ASSUME NEW t \in 0..now PROVE t \in IdleWithin(w)' <=> t \in IdleWithin(w)
  <2>0. \A s : s \in 0..now => s \in 0..now'
    BY <1>0, <1>1
  <2>0a. \A s : s \in 0..now' /\ s <= t => s \in 0..now
    BY <1>0, <1>1
  <2>1. t \in MinutesOf(w)' <=> t \in MinutesOf(w)
    BY <2>0, <1>3b, MinutesOfWindow
  <2>2. \A s \in MinutesOf(w)' : s <= t => s \in MinutesOf(w)
    BY <2>0a, <1>3b, MinutesOfWindow
  <2>3. \A s \in MinutesOf(w) : s \in MinutesOf(w)' /\ s \in 0..now
    BY <2>0, <1>3b, MinutesOfWindow
  <2>4. ASSUME NEW s \in MinutesOf(w), s <= t
        PROVE  /\ (\A u \in s..t : IdleAt(u))' <=> \A u \in s..t : IdleAt(u)
               /\ (s = 0 \/ ~IdleAt(s - 1))' <=> s = 0 \/ ~IdleAt(s - 1)
    <3>1. s \in 0..now /\ \A u \in s..t : u \in 0..now
      BY <1>0, <1>4, <2>4
    <3>2. s # 0 => s - 1 \in 0..now
      BY <1>0, <3>1
    <3>3. QED
      BY <1>2, <3>1, <3>2
  <2>5. QED
    BY <2>1, <2>2, <2>3, <2>4 DEF IdleWithin
<1>6. \A t \in IdleWithin(w) : t \in MinutesOf(w)
  BY DEF IdleWithin
<1>7. \A t \in IdleWithin(w)' : t \in MinutesOf(w)'
  BY DEF IdleWithin
<1>8. {t \in IdleWithin(w) : t < until}' = {t \in IdleWithin(w) : t < until}
  BY <1>3, <1>4, <1>5, <1>6, <1>7
<1>9. {t \in MinutesOf(w) : t < until /\ IdleAt(t)}' = {t \in MinutesOf(w) : t < until /\ IdleAt(t)}
  BY <1>2, <1>3, <1>4
<1>10. QED
  BY <1>1, <1>2, <1>5, <1>8, <1>9

(* A fold that no element moves stays where it was. *)
LEMMA FoldStays ==
  ASSUME NEW V, NEW E, NEW step, NEW first, Folding(V, E, step, first), NEW s \in Seq(E),
         \A k \in 1..Len(s) : step[first][s[k]] = first
  PROVE  Folded(step, first, s) = first
<1> DEFINE S == {k \in Nat : k <= Len(s) => Folded(step, first, SubSeq(s, 1, k)) = first}
<1>0. Continues(V, E, step, first)
  BY FoldContinues
<1>1. 0 \in S
  <2>1. SubSeq(s, 1, 0) = <<>>
    OBVIOUS
  <2>2. QED
    BY <1>0, <2>1 DEF Continues
<1>2. ASSUME NEW k \in Nat, k \in S PROVE k + 1 \in S
  <2> SUFFICES ASSUME k < Len(s)
               PROVE  Folded(step, first, SubSeq(s, 1, k + 1)) = first
    OBVIOUS
  <2>1. PICK x \in E : x = s[k + 1] /\ step[first][x] = first
    OBVIOUS
  <2>2. SubSeq(s, 1, k) \in Seq(E)
    OBVIOUS
  <2>3. SubSeq(s, 1, k + 1) = Append(SubSeq(s, 1, k), x)
    BY <2>1, <2>2
  <2>4. Folded(step, first, SubSeq(s, 1, k)) = first
    BY <1>2
  <2>5. Folded(step, first, Append(SubSeq(s, 1, k), x)) = step[Folded(step, first, SubSeq(s, 1, k))][x]
    BY <1>0, <2>2 DEF Continues
  <2>6. QED
    BY <2>1, <2>3, <2>4, <2>5
<1> HIDE DEF S
<1>3. PICK n \in Nat : n = Len(s)
  OBVIOUS
<1>4. n \in S
  BY <1>1, <1>2, Induction
<1>5. Folded(step, first, SubSeq(s, 1, Len(s))) = first
  BY <1>3, <1>4 DEF S
<1>6. SubSeq(s, 1, Len(s)) = s
  OBVIOUS
<1>7. QED
  BY <1>5, <1>6

EventKinds == RawEvent \cup {NoEvent}
StepOfIdle == [acc \in Idling |-> [e \in EventKinds |-> idleStep(acc, e)]]
NotIdle(w) == [in |-> FALSE, start |-> w * Window, sum |-> 0]

LEMMA IdleStepTyped ==
  ASSUME NEW acc \in Idling, NEW e \in EventKinds
  PROVE  /\ idleStep(acc, e) \in Idling
         /\ e.type = "idle_detected" /\ ~acc.in => idleStep(acc, e) = [in |-> TRUE, start |-> e.at, sum |-> acc.sum]
         /\ e.type = "idle_ended" /\ acc.in =>
              idleStep(acc, e) = [in |-> FALSE, start |-> acc.start, sum |-> acc.sum + e.at - acc.start]
         /\ ~(e.type = "idle_detected" /\ ~acc.in) /\ ~(e.type = "idle_ended" /\ acc.in) =>
              idleStep(acc, e) = acc
<1>0. e.type \in {"idle_detected", "idle_ended"} => e \in RawEvent
  <2>1. NoEvent.type = "none"
    BY DEF NoEvent
  <2>2. QED
    BY <2>1 DEF EventKinds
<1>1. CASE e.type = "idle_detected" /\ ~acc.in
  <2>1. e.at \in Nat
    BY <1>0, <1>1 DEF RawEvent
  <2>2. idleStep(acc, e) = [in |-> TRUE, start |-> e.at, sum |-> acc.sum]
    BY <1>1 DEF idleStep
  <2>3. QED
    BY <1>1, <2>1, <2>2 DEF Idling
<1>2. CASE e.type = "idle_ended" /\ acc.in
  <2>1. e.at \in Nat
    BY <1>0, <1>2 DEF RawEvent
  <2>2. idleStep(acc, e) = [in |-> FALSE, start |-> acc.start, sum |-> acc.sum + e.at - acc.start]
    BY <1>2 DEF idleStep
  <2>3. acc.sum + e.at - acc.start \in Int
    BY <2>1 DEF Idling
  <2>4. QED
    BY <1>2, <2>2, <2>3 DEF Idling
<1>3. CASE ~(e.type = "idle_detected" /\ ~acc.in) /\ ~(e.type = "idle_ended" /\ acc.in)
  BY <1>3 DEF idleStep
<1>4. QED
  BY <1>1, <1>2, <1>3

LEMMA IdleFolding ==
  ASSUME NEW w \in Nat
  PROVE  Folding(Idling, EventKinds, StepOfIdle, NotIdle(w))
<1>1. NotIdle(w) \in Idling
  BY WindowLimits DEF NotIdle, Idling
<1>2. StepOfIdle \in [Idling -> [EventKinds -> Idling]]
  BY IdleStepTyped DEF StepOfIdle
<1>3. QED
  BY <1>1, <1>2 DEF Folding

LEMMA PassIsFold == \A w, ids : idlePass(w, ids) = Folded(StepOfIdle, NotIdle(w), Picked(ids))
BY DEF idlePass, StepOfIdle, NotIdle, EventKinds

LEMMA PassTyped ==
  ASSUME DayType, NEW w \in Nat, NEW ids
  PROVE  /\ idlePass(w, ids) \in Idling /\ Picked(ids) \in Seq(EventKinds)
         /\ ids = {} => idlePass(w, ids) = NotIdle(w)
<1>1. Picked(ids) \in Seq(EventKinds)
  <2>1. events \in Seq(RawEvent)
    BY DEF DayType
  <2>2. PICK n \in Nat : n = Len(events)
    BY <2>1
  <2>3. Picked(ids) = [i \in 1..n |-> IF i \in ids THEN events[i] ELSE NoEvent]
    BY <2>1, <2>2 DEF Picked
  <2>4. \A i \in 1..n : (IF i \in ids THEN events[i] ELSE NoEvent) \in EventKinds
    BY <2>1, <2>2 DEF EventKinds
  <2>5. QED
    BY <2>3, <2>4
<1>2. Continues(Idling, EventKinds, StepOfIdle, NotIdle(w))
  BY IdleFolding, FoldContinues
<1>3. idlePass(w, ids) \in Idling
  <2>1. PICK x \in EventKinds : x = NoEvent
    BY DEF EventKinds
  <2>2. Folded(StepOfIdle, NotIdle(w), Picked(ids)) \in Idling
    BY <1>1, <1>2, <2>1 DEF Continues
  <2>3. QED
    BY <2>2, PassIsFold
<1>4. ASSUME ids = {} PROVE idlePass(w, ids) = NotIdle(w)
  <2>1. \A k \in 1..Len(Picked(ids)) : Picked(ids)[k] = NoEvent
    BY <1>1, <1>4 DEF Picked
  <2>2. NotIdle(w) \in Idling /\ NoEvent \in EventKinds
    BY IdleFolding DEF Folding, EventKinds
  <2>3. idleStep(NotIdle(w), NoEvent) = NotIdle(w)
    BY <2>2, IdleStepTyped DEF NoEvent
  <2>4. StepOfIdle[NotIdle(w)][NoEvent] = NotIdle(w)
    BY <2>2, <2>3 DEF StepOfIdle
  <2>5. \A k \in 1..Len(Picked(ids)) : StepOfIdle[NotIdle(w)][Picked(ids)[k]] = NotIdle(w)
    BY <2>1, <2>4
  <2>6. Folded(StepOfIdle, NotIdle(w), Picked(ids)) = NotIdle(w)
    BY <1>1, <2>5, IdleFolding, FoldStays
  <2>7. QED
    BY <2>6, PassIsFold
<1>5. QED
  BY <1>1, <1>3, <1>4

(* One event more. *)
LEMMA EventsGrow ==
  ASSUME DayType, NEW e \in RawEvent, events' = Append(events, e)
  PROVE  /\ Len(events) \in Nat /\ DOMAIN events = 1..Len(events) /\ DOMAIN events' = 1..(Len(events) + 1)
         /\ events' \in Seq(RawEvent) /\ events'[Len(events) + 1] = e
         /\ \A i \in DOMAIN events : events'[i] = events[i] /\ i # Len(events) + 1
         /\ DOMAIN events' = DOMAIN events \cup {Len(events) + 1}
         /\ Len(events) + 1 \notin DOMAIN events
<1>1. events \in Seq(RawEvent)
  BY DEF DayType
<1>2. QED
  BY <1>1

LEMMA PassAfterEvent ==
  ASSUME DayType, NEW e \in RawEvent, events' = Append(events, e), NEW w \in Nat
  PROVE  idlePass(w, EventsOf(w))' =
           IF WindowAt(e.at) = w THEN idleStep(idlePass(w, EventsOf(w)), e) ELSE idlePass(w, EventsOf(w))
<1>1. PICK s : s = Picked(EventsOf(w))
  OBVIOUS
<1>2. PICK x : x = IF WindowAt(e.at) = w THEN e ELSE NoEvent
  OBVIOUS
<1>3. s \in Seq(EventKinds) /\ x \in EventKinds /\ NoEvent \in EventKinds
  BY <1>1, <1>2, PassTyped DEF EventKinds
<1>4. Picked(EventsOf(w))' = Append(s, x)
  <2>1. PICK n \in Nat : n = Len(events)
    BY EventsGrow
  <2>2. s = [i \in 1..n |-> IF WindowAt(events[i].at) = w THEN events[i] ELSE NoEvent]
    BY <1>1, <2>1, EventsGrow DEF Picked, EventsOf
  <2>3. Picked(EventsOf(w))' = [i \in 1..(n + 1) |-> IF WindowAt(events'[i].at) = w THEN events'[i] ELSE NoEvent]
    BY <2>1, EventsGrow DEF Picked, EventsOf
  <2>4. Len(s) = n
    BY <1>3, <2>2
  <2>5. Picked(EventsOf(w))' \in Seq(EventKinds) /\ Len(Picked(EventsOf(w))') = n + 1
    <3>1. \A i \in 1..(n + 1) : (IF WindowAt(events'[i].at) = w THEN events'[i] ELSE NoEvent) \in EventKinds
      BY <2>1, EventsGrow DEF EventKinds
    <3>2. PICK N \in Nat : N = n + 1
      OBVIOUS
    <3>3. Picked(EventsOf(w))' = [i \in 1..N |-> IF WindowAt(events'[i].at) = w THEN events'[i] ELSE NoEvent]
      BY <2>3, <3>2
    <3>4. \A i \in 1..N : (IF WindowAt(events'[i].at) = w THEN events'[i] ELSE NoEvent) \in EventKinds
      BY <3>1, <3>2
    <3>5. Picked(EventsOf(w))' \in [1..N -> EventKinds]
      BY <3>3, <3>4
    <3>6. \A f \in [1..N -> EventKinds] : f \in Seq(EventKinds) /\ Len(f) = N
      OBVIOUS
    <3>7. QED
      BY <3>2, <3>5, <3>6
  <2>5a. /\ Append(s, x) \in Seq(EventKinds) /\ Len(Append(s, x)) = n + 1 /\ Append(s, x)[n + 1] = x
         /\ \A i \in 1..n : Append(s, x)[i] = s[i]
    BY <1>3, <2>4
  <2>6. ASSUME NEW i \in 1..(n + 1)
        PROVE  Picked(EventsOf(w))'[i] = Append(s, x)[i]
    <3>1. CASE i = n + 1
      BY <1>2, <2>1, <2>3, <2>5a, <3>1, EventsGrow
    <3>2. CASE i # n + 1
      <4>1. i \in 1..n /\ i \in DOMAIN events
        BY <2>1, <3>2, EventsGrow
      <4>2. events'[i] = events[i]
        BY <4>1, EventsGrow
      <4>3. QED
        BY <2>2, <2>3, <2>5a, <4>1, <4>2
    <3>3. QED
      BY <3>1, <3>2
  <2>7. QED
    BY <2>5, <2>5a, <2>6, SeqEqual
<1>5. idlePass(w, EventsOf(w))' = Folded(StepOfIdle, NotIdle(w), Append(s, x))
  <2>1. idlePass(w, EventsOf(w))' = Folded(StepOfIdle, NotIdle(w), Picked(EventsOf(w))')
    BY DEF idlePass, StepOfIdle, NotIdle, EventKinds
  <2>2. QED
    BY <1>4, <2>1
<1>6. idlePass(w, EventsOf(w)) = Folded(StepOfIdle, NotIdle(w), s)
  BY <1>1, PassIsFold
<1>7. Folded(StepOfIdle, NotIdle(w), Append(s, x)) = StepOfIdle[idlePass(w, EventsOf(w))][x]
  <2>1. Continues(Idling, EventKinds, StepOfIdle, NotIdle(w))
    BY IdleFolding, FoldContinues
  <2>2. QED
    BY <1>3, <1>6, <2>1 DEF Continues
<1>8. PICK acc \in Idling : acc = idlePass(w, EventsOf(w))
  BY PassTyped
<1>9. StepOfIdle[acc][x] = idleStep(acc, x)
  BY <1>3 DEF StepOfIdle
<1>10. idleStep(acc, NoEvent) = acc
  BY <1>3, IdleStepTyped DEF NoEvent
<1>11. QED
  BY <1>2, <1>5, <1>7, <1>8, <1>9, <1>10

LEMMA EventTyped == \A e \in RawEvent : e.focus \in Nat /\ e.at \in Nat
BY DEF RawEvent

LEMMA MetricsTyped ==
  \A m \in Batch :
    /\ m.window \in Nat /\ m.idle \in Int /\ m.focus \in Int
    /\ m.distractions \in Nat /\ m.commits \in Nat /\ m.commands \in Nat
BY DEF Batch

Masked(ids) == [i \in DOMAIN events |-> IF i \in ids THEN events[i].focus ELSE 0]

LEMMA MaskedTyped ==
  ASSUME DayType, NEW ids
  PROVE  /\ Masked(ids) \in Seq(Int) /\ Len(Masked(ids)) = Len(events) /\ Len(events) \in Nat
         /\ DOMAIN events = 1..Len(events) /\ DOMAIN Masked(ids) = DOMAIN events
         /\ FocusIn(ids) = SumOf(Masked(ids)) /\ FocusIn(ids) \in Int
         /\ \A i \in DOMAIN events :
              events[i] \in RawEvent /\ events[i].focus \in Nat /\ events[i].at \in Nat
<1>1. events \in Seq(RawEvent)
  BY DEF DayType
<1>2. \A i \in DOMAIN events : events[i] \in RawEvent /\ events[i].focus \in Nat /\ events[i].at \in Nat
  <2>1. \A i \in DOMAIN events : events[i] \in RawEvent
    BY <1>1
  <2>2. QED
    BY <2>1, EventTyped
<1>3. PICK n \in Nat : n = Len(events) /\ DOMAIN events = 1..n
  BY <1>1
<1>4. \A i \in 1..n : (IF i \in ids THEN events[i].focus ELSE 0) \in Int
  BY <1>2, <1>3
<1>5. Masked(ids) \in [1..n -> Int]
  BY <1>3, <1>4 DEF Masked
<1>6. Masked(ids) \in Seq(Int) /\ Len(Masked(ids)) = n
  BY <1>5
<1>7. FocusIn(ids) = SumOf(Masked(ids))
  BY DEF FocusIn, Masked
<1>8. SumOf(Masked(ids)) \in Int
  BY <1>6, SumTyped
<1>9. QED
  BY <1>2, <1>3, <1>5, <1>6, <1>7, <1>8

LEMMA FocusMonotone ==
  ASSUME DayType, NEW ids, NEW more, ids \subseteq more
  PROVE  FocusIn(ids) <= FocusIn(more)
<1>1. \A k \in DOMAIN Masked(ids) : Masked(ids)[k] <= Masked(more)[k]
  <2> SUFFICES ASSUME NEW k \in DOMAIN events PROVE Masked(ids)[k] <= Masked(more)[k]
    BY MaskedTyped
  <2>1. events[k].focus \in Nat
    BY MaskedTyped
  <2>2. QED
    BY <2>1 DEF Masked
<1>2. SumOf(Masked(ids)) <= SumOf(Masked(more))
  BY <1>1, MaskedTyped, SumMonotone
<1>3. QED
  BY <1>2, MaskedTyped

LEMMA FocusSplits ==
  ASSUME DayType, NEW ids, NEW others, ids \cap others = {}
  PROVE  FocusIn(ids \cup others) = FocusIn(ids) + FocusIn(others)
<1>1. ASSUME NEW k \in DOMAIN events
      PROVE  Masked(ids \cup others)[k] = Masked(ids)[k] + Masked(others)[k]
  <2>1. events[k].focus \in Nat
    BY MaskedTyped
  <2>2. QED
    BY <2>1 DEF Masked
<1>2. SumOf(Masked(ids \cup others)) = SumOf(Masked(ids)) + SumOf(Masked(others))
  <2>1. PICK a \in Seq(Int), b \in Seq(Int), c \in Seq(Int) :
               a = Masked(ids) /\ b = Masked(others) /\ c = Masked(ids \cup others)
    BY MaskedTyped
  <2>2. Len(a) = Len(c) /\ Len(b) = Len(c) /\ DOMAIN c = DOMAIN events
    BY <2>1, MaskedTyped
  <2>3. \A k \in DOMAIN c : c[k] = a[k] + b[k]
    BY <1>1, <2>1, <2>2, Zenon
  <2>4. SumOf(c) = SumOf(a) + SumOf(b)
    BY <2>2, <2>3, SumSplits
  <2>5. QED
    BY <2>1, <2>4, Zenon
<1>3. QED
  BY <1>2, MaskedTyped

LEMMA FocusAfterEvent ==
  ASSUME DayType, NEW e \in RawEvent, events' = Append(events, e), NEW ids, NEW these,
         \A i \in DOMAIN events : i \in ids <=> i \in these
  PROVE  SumOf([i \in DOMAIN events' |-> IF i \in these THEN events'[i].focus ELSE 0]) =
           FocusIn(ids) + IF Len(events) + 1 \in these THEN e.focus ELSE 0
<1>0. PICK ev : ev = events'
  OBVIOUS
<1>1. PICK n \in Nat : n = Len(events) /\ DOMAIN events = 1..n
  BY EventsGrow
<1>2. PICK x \in Int : x = IF n + 1 \in these THEN e.focus ELSE 0
  BY EventTyped
<1>3. PICK s \in Seq(Int) : s = Masked(ids)
  BY MaskedTyped
<1>4. PICK t : t = [i \in DOMAIN ev |-> IF i \in these THEN ev[i].focus ELSE 0]
  OBVIOUS
<1>5. PICK N \in Nat : N = n + 1
  OBVIOUS
<1>6. \A i \in 1..N : ev[i] \in RawEvent
  BY <1>0, <1>1, <1>5, EventsGrow
<1>7. ASSUME NEW i \in 1..N PROVE (IF i \in these THEN ev[i].focus ELSE 0) \in Int
  <2>1. PICK f \in Nat : f = ev[i].focus
    BY <1>6, EventTyped
  <2>2. CASE i \in these
    BY <2>1, <2>2
  <2>3. CASE i \notin these
    BY <2>3
  <2>4. QED
    BY <2>2, <2>3
<1>8. t = [i \in 1..N |-> IF i \in these THEN ev[i].focus ELSE 0]
  BY <1>0, <1>1, <1>4, <1>5, EventsGrow
<1>9. t \in [1..N -> Int]
  BY <1>7, <1>8
<1>10. t \in Seq(Int) /\ Len(t) = N
  BY <1>9
<1>11. Len(s) = n /\ \A i \in 1..n : s[i] = IF i \in ids THEN events[i].focus ELSE 0
  BY <1>1, <1>3, MaskedTyped DEF Masked
<1>12. /\ Append(s, x) \in Seq(Int) /\ Len(Append(s, x)) = n + 1 /\ Append(s, x)[n + 1] = x
       /\ \A i \in 1..n : Append(s, x)[i] = s[i]
  BY <1>11
<1>13. ASSUME NEW i \in 1..N PROVE t[i] = Append(s, x)[i]
  <2>1. CASE i = n + 1
    <3>1. ev[i] = e
      BY <1>0, <1>1, <2>1, EventsGrow
    <3>2. QED
      BY <1>2, <1>8, <1>12, <2>1, <3>1
  <2>2. CASE i # n + 1
    <3>1. i \in 1..n /\ i \in DOMAIN events
      BY <1>1, <1>5, <2>2
    <3>2. ev[i] = events[i]
      BY <1>0, <3>1, EventsGrow
    <3>3. QED
      BY <1>8, <1>11, <1>12, <3>1, <3>2
  <2>3. QED
    BY <2>1, <2>2
<1>14. t = Append(s, x)
  BY <1>5, <1>10, <1>12, <1>13, SeqEqual
<1>15. SumOf(t) = SumOf(s) + x
  BY <1>14, SumContinues
<1>16. SumOf(s) = FocusIn(ids)
  BY <1>3, MaskedTyped
<1>17. QED
  BY <1>0, <1>1, <1>2, <1>4, <1>15, <1>16

Totalled == {"focus", "distractions", "commits", "commands"}

LEMMA BatchesTyped ==
  ASSUME DayType
  PROVE  /\ batches \in Seq(Batch) /\ Len(batches) \in Nat /\ DOMAIN batches = 1..Len(batches)
         /\ \A b \in DOMAIN batches :
              /\ batches[b] \in Batch /\ batches[b].window \in Nat /\ batches[b].idle \in Int
              /\ \A field \in Totalled : batches[b][field] \in Int
<1>1. batches \in Seq(Batch)
  BY DEF DayType
<1>2. ASSUME NEW m \in Batch PROVE m.window \in Nat /\ m.idle \in Int /\ \A field \in Totalled : m[field] \in Int
  BY MetricsTyped DEF Totalled
<1>3. Len(batches) \in Nat /\ DOMAIN batches = 1..Len(batches) /\ \A b \in DOMAIN batches : batches[b] \in Batch
  BY <1>1
<1>4. QED
  BY <1>1, <1>2, <1>3

Column(field, from) == [i \in 1..(Len(batches) - from) |-> batches[from + i][field]]

LEMMA ColumnTyped ==
  ASSUME DayType, NEW field \in Totalled, NEW from \in 0..Len(batches)
  PROVE  /\ Column(field, from) \in Seq(Int) /\ Len(Column(field, from)) = Len(batches) - from
         /\ Sum(field, from) = SumOf(Column(field, from)) /\ Sum(field, from) \in Int
         /\ from = Len(batches) => Sum(field, from) = 0
<1>0. Len(batches) - from \in Nat
  BY BatchesTyped
<1>1. PICK n \in Nat : n = Len(batches) - from
  BY <1>0
<1>2. ASSUME NEW i \in 1..n PROVE batches[from + i][field] \in Int
  <2>1. from + i \in DOMAIN batches
    BY <1>1, BatchesTyped
  <2>2. QED
    BY <2>1, BatchesTyped
<1>3. Column(field, from) \in [1..n -> Int]
  BY <1>1, <1>2 DEF Column
<1>4. Column(field, from) \in Seq(Int) /\ Len(Column(field, from)) = n
  BY <1>3
<1>5. Sum(field, from) = SumOf(Column(field, from))
  BY DEF Sum, Column
<1>6. SumOf(Column(field, from)) \in Int
  BY <1>4, SumTyped
<1>7. ASSUME from = Len(batches) PROVE Sum(field, from) = 0
  <2>1. n = 0
    BY <1>1, <1>7, BatchesTyped
  <2>2. Column(field, from) = <<>>
    BY <1>4, <2>1
  <2>3. QED
    BY <1>5, <2>2, SumContinues
<1>8. QED
  BY <1>1, <1>4, <1>5, <1>6, <1>7

LEMMA SumAfterBatch ==
  ASSUME DayType, NEW m \in Batch, batches' = Append(batches, m),
         NEW field \in Totalled, NEW from \in 0..Len(batches)
  PROVE  SumOf([i \in 1..(Len(batches') - from) |-> batches'[from + i][field]]) = Sum(field, from) + m[field]
<1>0. Len(batches) - from \in Nat
  BY BatchesTyped
<1>1. PICK n \in Nat : n = Len(batches) - from
  BY <1>0
<1>2. PICK x \in Int : x = m[field]
  BY MetricsTyped DEF Totalled
<1>3. PICK s \in Seq(Int) : s = Column(field, from) /\ Len(s) = n /\ Sum(field, from) = SumOf(s)
  BY <1>1, ColumnTyped
<1>4. PICK N \in Nat : N = n + 1
  OBVIOUS
<1>5. PICK t : t = [i \in 1..(Len(batches') - from) |-> batches'[from + i][field]]
  OBVIOUS
<1>6. /\ Len(batches') = Len(batches) + 1 /\ batches'[Len(batches) + 1] = m
      /\ \A b \in 1..Len(batches) : batches'[b] = batches[b]
  BY BatchesTyped
<1>7. t = [i \in 1..N |-> batches'[from + i][field]]
  <2>1. Len(batches') - from = N
    BY <1>1, <1>4, <1>6, BatchesTyped
  <2>2. QED
    BY <1>5, <2>1
<1>8. /\ Append(s, x) \in Seq(Int) /\ Len(Append(s, x)) = N /\ Append(s, x)[N] = x
      /\ \A i \in 1..n : Append(s, x)[i] = s[i]
  BY <1>3, <1>4
<1>9. ASSUME NEW i \in 1..N PROVE t[i] = Append(s, x)[i]
  <2>1. CASE i = N
    <3>1. from + i = Len(batches) + 1
      BY <1>1, <1>4, <2>1, BatchesTyped
    <3>2. batches'[from + i] = m
      BY <1>6, <3>1
    <3>3. QED
      BY <1>2, <1>7, <1>8, <2>1, <3>2
  <2>2. CASE i # N
    <3>1. i \in 1..n /\ from + i \in 1..Len(batches)
      BY <1>1, <1>4, <2>2, BatchesTyped
    <3>2. s[i] = batches[from + i][field]
      BY <1>1, <1>3, <3>1 DEF Column
    <3>3. batches'[from + i] = batches[from + i]
      BY <1>6, <3>1
    <3>4. QED
      BY <1>7, <1>8, <3>1, <3>2, <3>3
  <2>3. QED
    BY <2>1, <2>2
<1>10. t \in [1..N -> Int]
  <2>1. \A i \in 1..N : Append(s, x)[i] \in Int
    BY <1>8
  <2>2. DOMAIN t = 1..N /\ t = [i \in 1..N |-> t[i]]
    BY <1>7
  <2>3. QED
    BY <1>9, <2>1, <2>2
<1>11. t \in Seq(Int) /\ Len(t) = N
  BY <1>10
<1>12. t = Append(s, x)
  BY <1>8, <1>9, <1>11, SeqEqual
<1>13. SumOf(t) = SumOf(s) + x
  BY <1>12, SumContinues
<1>14. QED
  BY <1>2, <1>3, <1>5, <1>13

(* Counting events. *)
LEMMA EventsAreFinite ==
  ASSUME DayType, NEW ids, ids \subseteq DOMAIN events
  PROVE  IsFiniteSet(ids) /\ Cardinality(ids) \in Nat
<1>1. PICK n \in Int : n = Len(events) /\ DOMAIN events = 1..n
  BY MaskedTyped
<1>2. IsFiniteSet(1..n)
  BY FS_Interval
<1>3. QED
  BY <1>1, <1>2, FS_Subset, FS_CardinalityType

LEMMA CountAfterEvent ==
  ASSUME DayType, NEW e \in RawEvent, events' = Append(events, e), NEW type
  PROVE  Cardinality(OfType(type, DOMAIN events))' =
           Cardinality(OfType(type, DOMAIN events)) + IF e.type = type THEN 1 ELSE 0
<1>1. OfType(type, DOMAIN events)' = OfType(type, DOMAIN events) \cup (IF e.type = type THEN {Len(events) + 1} ELSE {})
  BY EventsGrow DEF OfType
<1>2. Len(events) + 1 \notin OfType(type, DOMAIN events)
  BY EventsGrow DEF OfType
<1>3. IsFiniteSet(OfType(type, DOMAIN events)) /\ Cardinality(OfType(type, DOMAIN events)) \in Nat
  BY EventsAreFinite DEF OfType
<1>4. CASE e.type = type
  <2>1. OfType(type, DOMAIN events)' = OfType(type, DOMAIN events) \cup {Len(events) + 1}
    BY <1>1, <1>4
  <2>2. QED
    BY <1>2, <1>3, <1>4, <2>1, FS_AddElement
<1>5. CASE e.type # type
  <2>1. OfType(type, DOMAIN events)' = OfType(type, DOMAIN events)
    BY <1>1, <1>5
  <2>2. QED
    BY <1>3, <1>5, <2>1
<1>6. QED
  BY <1>4, <1>5

LEMMA CountSplits ==
  ASSUME DayType, NEW w \in Nat, NEW type, NEW ids, ids \subseteq EventsOf(w)
  PROVE  Cardinality(OfType(type, Before(w))) + Cardinality(OfType(type, ids)) <=
           Cardinality(OfType(type, Before(w + 1)))
<1> DEFINE A == OfType(type, Before(w)) B == OfType(type, ids) C == OfType(type, Before(w + 1))
<1>1. \A i \in DOMAIN events : WindowAt(events[i].at) \in Nat
  BY MaskedTyped, MinutesInWindows
<1>2. A \cap B = {}
  BY <1>1 DEF OfType, Before, EventsOf
<1>3. A \cup B \subseteq C
  BY <1>1 DEF OfType, Before, EventsOf
<1>4. A \subseteq DOMAIN events /\ B \subseteq DOMAIN events /\ C \subseteq DOMAIN events /\ A \cup B \subseteq DOMAIN events
  BY DEF OfType, Before, EventsOf
<1>5. IsFiniteSet(A) /\ IsFiniteSet(B) /\ IsFiniteSet(C)
  BY <1>4, EventsAreFinite
<1>6. Cardinality(A \cup B) = Cardinality(A) + Cardinality(B)
  <2>1. Cardinality(A) + Cardinality(B) - Cardinality(A \cap B) = Cardinality(A \cup B)
    BY <1>5, FS_Union
  <2>2. Cardinality(A \cap B) = 0
    BY <1>2, FS_EmptySet
  <2>3. QED
    BY <1>4, <2>1, <2>2, EventsAreFinite
<1>7. Cardinality(A \cup B) <= Cardinality(C)
  BY <1>3, <1>5, FS_Subset
<1>8. QED
  BY <1>6, <1>7

LEMMA MetricsAreTyped ==
  ASSUME DayType, NEW w \in Nat, NEW ids, ids \subseteq DOMAIN events
  PROVE  /\ computeMetrics(w, ids) \in Batch
         /\ computeMetrics(w, ids).window = w
         /\ computeMetrics(w, ids).focus = FocusIn(OfType("app_switched", ids))
         /\ computeMetrics(w, ids).idle = idleTime(w, ids)
         /\ computeMetrics(w, ids).commits = Cardinality(OfType("git_commit", ids))
         /\ computeMetrics(w, ids).commands = Cardinality(OfType("terminal_activity", ids))
<1>1. FocusIn(OfType("app_switched", ids)) \in Int
  BY MaskedTyped
<1>2. idleTime(w, ids) \in Int
  <2>1. PICK acc \in Idling : acc = idlePass(w, ids)
    BY PassTyped
  <2>2. acc.sum \in Int /\ acc.start \in Int /\ (w + 1) * Window \in Int
    BY WindowLimits DEF Idling
  <2>3. idleTime(w, ids) = acc.sum + IF acc.in THEN (w + 1) * Window - acc.start ELSE 0
    BY <2>1 DEF idleTime
  <2>4. QED
    BY <2>2, <2>3
<1>3. ASSUME NEW type PROVE Cardinality(OfType(type, ids)) \in Nat
  BY EventsAreFinite DEF OfType
<1> DEFINE classedAs(category) == {i \in OfType("app_switched", ids) : Classify(events[i]) = category}
<1>4. Cardinality(classedAs("distraction")) \in Nat
  BY EventsAreFinite DEF OfType
<1>5. {events[i].subject : i \in classedAs("development")} \in SUBSET (Apps \cup {""})
  <2>1. \A e \in RawEvent : e.subject \in Apps \cup {""}
    BY DEF RawEvent
  <2>2. \A i \in classedAs("development") : events[i] \in RawEvent
    BY MaskedTyped DEF OfType
  <2>3. QED
    BY <2>1, <2>2
<1>6. Current \in {""}
  BY DEF Current, Active, fetchedRoundID
<1> HIDE DEF classedAs
<1>7. computeMetrics(w, ids) =
        [window |-> w, focus |-> FocusIn(OfType("app_switched", ids)), idle |-> idleTime(w, ids),
         productive |-> {events[i].subject : i \in classedAs("development")},
         distractions |-> Cardinality(classedAs("distraction")),
         commits |-> Cardinality(OfType("git_commit", ids)),
         commands |-> Cardinality(OfType("terminal_activity", ids)), round |-> Current]
  BY DEF computeMetrics, classedAs
<1>9. computeMetrics(w, ids) \in Batch
  <2>1. PICK f \in Int : f = FocusIn(OfType("app_switched", ids))
    BY <1>1
  <2>2. PICK i \in Int : i = idleTime(w, ids)
    BY <1>2
  <2>3. PICK d \in Nat : d = Cardinality(classedAs("distraction"))
    BY <1>4
  <2>4. PICK c \in Nat : c = Cardinality(OfType("git_commit", ids))
    BY <1>3
  <2>5. PICK t \in Nat : t = Cardinality(OfType("terminal_activity", ids))
    BY <1>3
  <2>6. PICK p \in SUBSET (Apps \cup {""}) : p = {events[j].subject : j \in classedAs("development")}
    BY <1>5
  <2>7. computeMetrics(w, ids) =
          [window |-> w, focus |-> f, idle |-> i, productive |-> p, distractions |-> d,
           commits |-> c, commands |-> t, round |-> Current]
    BY <1>7, <2>1, <2>2, <2>3, <2>4, <2>5, <2>6
  <2>8. [window |-> w, focus |-> f, idle |-> i, productive |-> p, distractions |-> d,
         commits |-> c, commands |-> t, round |-> Current] \in Batch
    BY <1>6 DEF Batch
  <2>9. QED
    BY <2>7, <2>8
<1>10. QED
  BY <1>7, <1>9

LEMMA PolledIs ==
  ASSUME DayType
  PROVE  /\ Polled("window") => due = Pollers /\ due' = <<"idle", "terminal">>
         /\ Polled("idle") => due = <<"idle", "terminal">> /\ due' = <<"terminal">>
         /\ Polled("terminal") => due = <<"terminal">> /\ due' = <<>>
<1>1. due \in {Pollers, <<"idle", "terminal">>, <<"terminal">>, <<>>}
  BY DEF DayType
<1>2. /\ Head(Pollers) = "window" /\ Tail(Pollers) = <<"idle", "terminal">>
      /\ Head(<<"idle", "terminal">>) = "idle" /\ Tail(<<"idle", "terminal">>) = <<"terminal">>
      /\ Head(<<"terminal">>) = "terminal" /\ Tail(<<"terminal">>) = <<>>
  BY DEF Pollers
<1>3. \A p : Polled(p) => due # <<>> /\ Head(due) = p /\ due' = Tail(due)
  BY DEF Polled
<1>4. QED
  BY <1>1, <1>2, <1>3

LEMMA DueDiffer ==
  /\ Pollers # <<"idle", "terminal">> /\ Pollers # <<"terminal">> /\ Pollers # <<>>
  /\ <<"idle", "terminal">> # <<"terminal">> /\ <<"idle", "terminal">> # <<>> /\ <<"terminal">> # <<>>
BY DEF Pollers

(* What becomes of an event. *)
LEMMA SubmitCases ==
  ASSUME NEW e, Submit(e)
  PROVE  \/ events' = Append(events, e) /\ UNCHANGED <<troubled, faults>>
         \/ /\ events' = events /\ troubled' = troubled \cup {WindowAt(now)}
            /\ faults' = faults \/ faults' = faults + 1
BY DEF Submit, Strike, Trouble

LEMMA PollsSubmit ==
  ASSUME DayType, Poll
  PROVE  /\ UNCHANGED <<day, paused, classified, aggregator, hooks, base>>
         /\ due' \in {<<"idle", "terminal">>, <<"terminal">>, <<>>}
         /\ \/ UNCHANGED <<events, troubled, faults>>
            \/ /\ events' = events /\ troubled' = troubled \cup {WindowAt(now)}
               /\ faults' = faults \/ faults' = faults + 1
            \/ \E e \in RawEvent : /\ events' = Append(events, e) /\ e.at = now
                                   /\ UNCHANGED <<troubled, faults>>
<1>0. now \in Nat /\ Sample.app \in Apps
  BY PresentTyped DEF Shown
<1>1. ASSUME NEW type \in {"idle_detected", "idle_ended", "terminal_activity", "git_commit"}
      PROVE  Event(type, "", 0) \in RawEvent /\ Event(type, "", 0).at = now
  BY <1>0 DEF Event, RawEvent
<1>2. ASSUME front.since \in 0..now
      PROVE  /\ Event("app_switched", Sample.app, now - front.since) \in RawEvent
             /\ Event("app_switched", Sample.app, now - front.since).at = now
  <2>1. now - front.since \in Nat
    BY <1>0, <1>2
  <2>2. QED
    BY <1>0, <2>1 DEF Event, RawEvent
<1>3. front.since \in 0..now
  BY DEF DayType
<1>4. CASE LookupFails
  <2>1. PICK poller : Polled(poller) /\ Strike /\ UNCHANGED events
    BY <1>4 DEF LookupFails
  <2>2. due' \in {<<"idle", "terminal">>, <<"terminal">>, <<>>}
    <3>1. due \in {Pollers, <<"idle", "terminal">>, <<"terminal">>, <<>>}
      BY DEF DayType
    <3>2. due # <<>> /\ due' = Tail(due)
      BY <2>1 DEF Polled
    <3>3. /\ Tail(Pollers) = <<"idle", "terminal">> /\ Tail(<<"idle", "terminal">>) = <<"terminal">>
          /\ Tail(<<"terminal">>) = <<>>
      BY DEF Pollers
    <3>4. QED
      BY <3>1, <3>2, <3>3
  <2>3. QED
    BY <2>1, <2>2 DEF Polled, Strike, Trouble
<1>5. CASE PollWindow
  <2>1. Polled("window") /\ (NoSubmit \/ Submit(Event("app_switched", Sample.app, now - front.since)))
    BY <1>5 DEF PollWindow
  <2>2. QED
    BY <1>2, <1>3, <2>1, SubmitCases, PolledIs DEF NoSubmit, Polled
<1>6. CASE PollIdle
  <2>1. Polled("idle") /\ (NoSubmit \/ Submit(Event("idle_detected", "", 0)) \/ Submit(Event("idle_ended", "", 0)))
    BY <1>6 DEF PollIdle
  <2>2. QED
    BY <1>1, <2>1, SubmitCases, PolledIs DEF NoSubmit, Polled
<1>7. CASE PollTerminal
  <2>1. Polled("terminal") /\ (NoSubmit \/ Submit(Event("terminal_activity", "", 0)))
    BY <1>7 DEF PollTerminal
  <2>2. QED
    BY <1>1, <2>1, SubmitCases, PolledIs DEF NoSubmit, Polled
<1>8. QED
  BY <1>4, <1>5, <1>6, <1>7 DEF Poll

(* The events, with one more of the present minute or not. *)
EventsStep == events' = events \/ \E e \in RawEvent : events' = Append(events, e) /\ e.at = now

LEMMA EventsStepTyped ==
  ASSUME DayType, TimesInOrder, EventsStep, now' = now
  PROVE  /\ events' \in Seq(RawEvent) /\ 0..Len(events) \subseteq 0..Len(events')
         /\ \A i \in DOMAIN events' : events'[i].at <= now'
<1>0. now \in Nat
  BY PresentTyped
<1>1. CASE events' = events
  <2>1. \A i \in DOMAIN events : events[i].at <= now
    BY DEF TimesInOrder
  <2>2. QED
    BY <1>1, <2>1 DEF DayType
<1>2. CASE events' # events
  <2>1. PICK e \in RawEvent : events' = Append(events, e) /\ e.at = now
    BY <1>2 DEF EventsStep
  <2>2. PICK n \in Nat : n = Len(events)
    BY <2>1, EventsGrow
  <2>3. events' \in Seq(RawEvent) /\ Len(events') = n + 1
    BY <2>1, <2>2, EventsGrow
  <2>4. ASSUME NEW i \in DOMAIN events' PROVE events'[i].at <= now'
    <3>1. CASE i = n + 1
      BY <1>0, <2>1, <2>2, <3>1, EventsGrow
    <3>2. CASE i # n + 1
      <4>1. i \in DOMAIN events /\ events'[i] = events[i]
        BY <2>1, <2>2, <2>4, <3>2, EventsGrow
      <4>2. QED
        BY <4>1 DEF TimesInOrder
    <3>3. QED
      BY <3>1, <3>2
  <2>5. 0..n \subseteq 0..(n + 1)
    OBVIOUS
  <2>6. QED
    BY <2>2, <2>3, <2>4, <2>5
<1>3. QED
  BY <1>1, <1>2

Collected ==
  /\ front' \in [app : Apps \cup {""}, since : 0..now] /\ inIdle' \in BOOLEAN /\ seen' \in BOOLEAN

LEMMA PollsCollect ==
  ASSUME DayType, Poll
  PROVE  Collected
<1>0. now \in Nat /\ Sample.app \in Apps /\ Sample.running \in BOOLEAN
  BY PresentTyped DEF Shown
<1>1. /\ front \in [app : Apps \cup {""}, since : 0..now]
      /\ [app |-> Sample.app, since |-> now] \in [app : Apps \cup {""}, since : 0..now]
  <2>1. front \in [app : Apps \cup {""}, since : 0..now]
    BY DEF DayType
  <2>2. now \in 0..now
    BY <1>0
  <2>3. QED
    BY <1>0, <2>1, <2>2
<1>2. inIdle \in BOOLEAN /\ seen \in BOOLEAN
  BY DEF DayType
<1>3. CASE LookupFails
  BY <1>1, <1>2, <1>3 DEF LookupFails, Collected
<1>4. CASE PollWindow
  BY <1>1, <1>2, <1>4 DEF PollWindow, Collected
<1>5. CASE PollIdle
  BY <1>1, <1>2, <1>5 DEF PollIdle, Collected
<1>6. CASE PollTerminal
  BY <1>0, <1>1, <1>2, <1>6 DEF PollTerminal, Collected
<1>7. QED
  BY <1>3, <1>4, <1>5, <1>6 DEF Poll

LEMMA PollTyped ==
  ASSUME DayType, TimesInOrder, Poll
  PROVE  DayType' /\ TimesInOrder'
<1>1. UNCHANGED <<day, paused, classified, windowEnd, batches, counters, recounts, hooks, base>>
  BY PollsSubmit DEF aggregator
<1>2. EventsStep /\ now' = now
  BY <1>1, PollsSubmit DEF EventsStep, now
<1>3. now \in Nat /\ WindowAt(now) \in Nat /\ faults \in Nat /\ troubled \subseteq Nat
  BY PresentTyped DEF DayType
<1>4. faults' \in Nat /\ troubled' \subseteq Nat
  <2>1. \/ faults' = faults /\ troubled' = troubled
        \/ faults' = faults + 1 /\ troubled' = troubled \cup {WindowAt(now)}
        \/ faults' = faults /\ troubled' = troubled \cup {WindowAt(now)}
    BY PollsSubmit
  <2>2. faults' \in Nat
    BY <1>3, <2>1
  <2>3. troubled' \subseteq Nat
    BY <1>3, <2>1
  <2>4. QED
    BY <2>2, <2>3
<1>5. Collected /\ due' \in {<<"idle", "terminal">>, <<"terminal">>, <<>>}
  BY PollsCollect, PollsSubmit
<1>6. DayType'
  BY <1>1, <1>2, <1>4, <1>5, EventsStepTyped DEF DayType, Collected
<1>7. TimesInOrder'
  BY <1>1, <1>2, EventsStepTyped DEF TimesInOrder
<1>8. QED
  BY <1>6, <1>7

LEMMA MinuteShows ==
  ASSUME DayType, Minute
  PROVE  /\ UNCHANGED <<front, inIdle, seen, paused, events, classified, aggregator, hooks, base, troubled, faults>>
         /\ due' = Pollers
         /\ \E x \in Shown :
              day' = Append(day, x) /\ x.idle \in {0, Sample.idle + 1}
<1>1. PICK app \in Apps, input \in BOOLEAN, running \in BOOLEAN :
        day' = Append(day, [app |-> app, running |-> running, idle |-> IF input THEN 0 ELSE Sample.idle + 1])
  BY DEF Minute
<1>2. Sample.idle \in Nat
  BY PresentTyped DEF Shown
<1>3. PICK i \in Nat : i = IF input THEN 0 ELSE Sample.idle + 1
  BY <1>2
<1>4. [app |-> app, running |-> running, idle |-> i] \in Shown
  BY DEF Shown
<1>5. i \in {0, Sample.idle + 1}
  BY <1>3
<1>6. QED
  BY <1>1, <1>3, <1>4, <1>5 DEF Minute

LEMMA MinuteTyped ==
  ASSUME DayType, TimesInOrder, Minute
  PROVE  DayType' /\ TimesInOrder' /\ now' = now + 1 /\ WindowAt(now) <= WindowAt(now')
<1>1. PICK x \in Shown : day' = Append(day, x) /\ x.idle \in {0, Sample.idle + 1}
  BY MinuteShows
<1>2. day \in Seq(Shown) /\ now \in Nat /\ Len(day) = now + 1 /\ Sample = day[now + 1]
  BY PresentTyped DEF DayType
<1>3. /\ day' \in Seq(Shown) /\ Len(day') = now + 2 /\ day'[now + 2] = x
      /\ \A k \in 1..(now + 1) : day'[k] = day[k]
  <2>1. day' \in Seq(Shown) /\ Len(day') = Len(day) + 1 /\ day'[Len(day) + 1] = x
        /\ \A k \in 1..Len(day) : day'[k] = day[k]
    BY <1>1, <1>2
  <2>2. Len(day) + 1 = now + 2
    BY <1>2
  <2>3. QED
    BY <1>2, <2>1, <2>2
<1>4. now' = now + 1 /\ day' # <<>>
  <2>1. now' = now + 1
    BY <1>2, <1>3 DEF now
  <2>2. day' # <<>>
    BY <1>2, <1>3
  <2>3. QED
    BY <2>1, <2>2
<1>5. WindowAt(now) <= WindowAt(now') /\ WindowAt(now) \in Nat /\ WindowAt(now') \in Nat
  <2>1. PICK n \in Nat : n = now' /\ now <= n
    BY <1>2, <1>4
  <2>2. QED
    BY <1>2, <2>1, WindowsFollow, MinutesInWindows
<1>6. UNCHANGED <<front, inIdle, seen, paused, events, classified, aggregator, hooks, base, troubled, faults>>
      /\ due' = Pollers
  BY MinuteShows
<1>7. front' \in [app : Apps \cup {""}, since : 0..now']
  <2>1. front \in [app : Apps \cup {""}, since : 0..now]
    BY DEF DayType
  <2>2. 0..now \subseteq 0..now'
    BY <1>2, <1>4
  <2>3. QED
    BY <1>6, <2>1, <2>2
<1>8. DayType'
  BY <1>3, <1>4, <1>6, <1>7 DEF DayType, aggregator
<1>9. windowEnd' <= WindowAt(now')
  <2>1. windowEnd <= WindowAt(now) /\ windowEnd \in Nat
    BY DEF TimesInOrder, DayType
  <2>2. QED
    BY <1>5, <1>6, <2>1 DEF aggregator
<1>10. \A i \in DOMAIN events' : events'[i].at <= now'
  <2>1. ASSUME NEW i \in DOMAIN events PROVE events[i].at <= now + 1
    <3>1. events[i].at \in Nat /\ events[i].at <= now
      BY MaskedTyped DEF TimesInOrder
    <3>2. QED
      BY <1>2, <3>1
  <2>2. QED
    BY <1>4, <1>6, <2>1
<1>11. ASSUME NEW t \in 1..now' PROVE day'[t + 1].idle \in {0, day'[t].idle + 1}
  <2>1. CASE t = now + 1
    <3>1. t + 1 = now + 2 /\ t \in 1..(now + 1)
      BY <1>2, <2>1
    <3>2. day'[t + 1] = x /\ day'[t] = Sample
      BY <1>2, <1>3, <2>1, <3>1
    <3>3. QED
      BY <1>1, <3>2
  <2>2. CASE t # now + 1
    <3>1. t \in 1..now /\ t \in 1..(now + 1) /\ t + 1 \in 1..(now + 1)
      BY <1>2, <1>4, <2>2
    <3>2. day'[t + 1] = day[t + 1] /\ day'[t] = day[t]
      BY <1>3, <3>1
    <3>3. day[t + 1].idle \in {0, day[t].idle + 1}
      BY <3>1 DEF TimesInOrder
    <3>4. QED
      BY <3>2, <3>3
  <2>3. QED
    BY <2>1, <2>2
<1>12. TimesInOrder'
  <2>1. \A b \in DOMAIN batches' : batches'[b].window < windowEnd'
    BY <1>6 DEF TimesInOrder, aggregator
  <2>2. windowEnd' <= (WindowAt(now))'
    BY <1>9 DEF WindowAt
  <2>3. QED
    BY <1>10, <1>11, <2>1, <2>2 DEF TimesInOrder
<1>13. QED
  BY <1>4, <1>5, <1>8, <1>12

LEMMA FocusIsNatural ==
  ASSUME DayType, NEW ids
  PROVE  FocusIn(ids) \in Nat /\ FocusIn({}) = 0
<1>1. FocusIn({}) \in Int /\ FocusIn(ids) \in Int
  BY MaskedTyped
<1>2. FocusIn({}) = FocusIn({}) + FocusIn({})
  <2>1. FocusIn({} \cup {}) = FocusIn({}) + FocusIn({})
    BY FocusSplits
  <2>2. {} \cup {} = {}
    OBVIOUS
  <2>3. QED
    BY <2>1, <2>2, Zenon
<1>3. FocusIn({}) = 0
  <2>1. ASSUME NEW n \in Int, n = n + n PROVE n = 0
    BY <2>1
  <2>2. QED
    BY <1>1, <1>2, <2>1
<1>4. FocusIn({}) <= FocusIn(ids)
  BY FocusMonotone
<1>5. QED
  BY <1>1, <1>3, <1>4

LEMMA BeforeGrows ==
  ASSUME DayType, NEW v \in Nat, NEW w \in Nat, v <= w
  PROVE  /\ FocusIn(Before(v)) <= FocusIn(Before(w))
         /\ \A type : Cardinality(OfType(type, Before(v))) <= Cardinality(OfType(type, Before(w)))
<1>1. \A i \in DOMAIN events : WindowAt(events[i].at) \in Nat
  BY MaskedTyped, MinutesInWindows
<1>2. Before(v) \subseteq Before(w)
  BY <1>1 DEF Before
<1>3. ASSUME NEW type
      PROVE  Cardinality(OfType(type, Before(v))) <= Cardinality(OfType(type, Before(w)))
  <2>1. OfType(type, Before(v)) \subseteq OfType(type, Before(w))
    BY <1>2 DEF OfType
  <2>2. OfType(type, Before(w)) \subseteq DOMAIN events
    BY DEF OfType, Before
  <2>3. QED
    BY <2>1, <2>2, EventsAreFinite, FS_Subset
<1>4. QED
  BY <1>2, <1>3, FocusMonotone

LEMMA BeforeNext ==
  ASSUME DayType, NEW w \in Nat, NEW ids, ids \subseteq EventsOf(w)
  PROVE  FocusIn(Before(w)) + FocusIn(ids) <= FocusIn(Before(w + 1))
<1>1. \A i \in DOMAIN events : WindowAt(events[i].at) \in Nat
  BY MaskedTyped, MinutesInWindows
<1>2. Before(w) \cap ids = {} /\ Before(w) \cup ids \subseteq Before(w + 1)
  BY <1>1 DEF Before, EventsOf
<1>3. FocusIn(Before(w) \cup ids) <= FocusIn(Before(w + 1))
  BY <1>2, FocusMonotone
<1>4. QED
  BY <1>2, <1>3, FocusSplits

(* The totals of the batches are numbers. *)
LEMMA TotalsTyped ==
  ASSUME DayType
  PROVE  /\ Sum("focus", 0) \in Int /\ Sum("commands", 0) \in Int /\ Sum("commits", 0) \in Int
         /\ \A type : Cardinality(OfType(type, Before(windowEnd))) \in Nat
         /\ \A type : Cardinality(OfType(type, DOMAIN events)) \in Nat
         /\ FocusIn(Before(windowEnd)) \in Nat /\ FocusIn(DOMAIN events) \in Nat
         /\ OpenFocus \in Nat
<1>1. 0 \in 0..Len(batches)
  BY BatchesTyped
<1>2. Sum("focus", 0) \in Int /\ Sum("commands", 0) \in Int /\ Sum("commits", 0) \in Int
  BY <1>1, ColumnTyped DEF Totalled
<1>3. ASSUME NEW type
      PROVE  /\ Cardinality(OfType(type, Before(windowEnd))) \in Nat
             /\ Cardinality(OfType(type, DOMAIN events)) \in Nat
  <2>1. OfType(type, Before(windowEnd)) \subseteq DOMAIN events /\ OfType(type, DOMAIN events) \subseteq DOMAIN events
    BY DEF OfType, Before
  <2>2. QED
    BY <2>1, EventsAreFinite
<1>4. OpenFocus \in Nat
  <2>1. front.since \in 0..now /\ now \in Nat
    BY PresentTyped DEF DayType
  <2>2. now - front.since \in Nat
    BY <2>1
  <2>3. CASE front.app = ""
    BY <2>3 DEF OpenFocus
  <2>4. CASE front.app # ""
    BY <2>2, <2>4 DEF OpenFocus
  <2>5. QED
    BY <2>3, <2>4
<1>5. QED
  BY <1>2, <1>3, <1>4, FocusIsNatural

(* The batches and the events that are there already.                      *)
LEMMA BatchesStayEvents ==
  ASSUME DayType, TimesInOrder, BatchesAreEvents, EventsStep, UNCHANGED <<batches, windowEnd>>
  PROVE  BatchesAreEvents'
<1>1. /\ (Sum("focus", 0))' = Sum("focus", 0) /\ (Sum("commands", 0))' = Sum("commands", 0)
      /\ (Sum("commits", 0))' = Sum("commits", 0)
  BY DEF Sum
<1>2. /\ FocusIn(Before(windowEnd))' = FocusIn(Before(windowEnd))
      /\ OfType("terminal_activity", Before(windowEnd))' = OfType("terminal_activity", Before(windowEnd))
      /\ OfType("git_commit", Before(windowEnd))' = OfType("git_commit", Before(windowEnd))
  <2>1. CASE events' = events
    BY <2>1 DEF FocusIn, Before, OfType, WindowAt
  <2>2. CASE events' # events
    <3>1. PICK e \in RawEvent : events' = Append(events, e) /\ e.at = now
      BY <2>2 DEF EventsStep
    <3>2. ~(WindowAt(now) < windowEnd)
      <4>1. WindowAt(now) \in Nat /\ windowEnd \in Nat
        BY PresentTyped DEF DayType
      <4>2. windowEnd <= WindowAt(now)
        BY DEF TimesInOrder
      <4>3. QED
        BY <4>1, <4>2
    <3>3. Before(windowEnd)' = Before(windowEnd)
      BY <3>1, <3>2, EventsGrow DEF Before, WindowAt
    <3>4. \A type : OfType(type, Before(windowEnd))' = OfType(type, Before(windowEnd))
      BY <3>1, <3>3, EventsGrow DEF OfType, Before
    <3>5. FocusIn(Before(windowEnd))' = FocusIn(Before(windowEnd))
      <4>1. PICK ids : ids = Before(windowEnd)
        OBVIOUS
      <4>2. Len(events) + 1 \notin ids
        BY <3>1, <4>1, EventsGrow DEF Before
      <4>3. SumOf([i \in DOMAIN events' |-> IF i \in ids THEN events'[i].focus ELSE 0]) = FocusIn(ids) + 0
        BY <3>1, <4>2, FocusAfterEvent
      <4>4. FocusIn(Before(windowEnd))' = SumOf([i \in DOMAIN events' |-> IF i \in ids THEN events'[i].focus ELSE 0])
        BY <3>3, <4>1 DEF FocusIn
      <4>5. QED
        BY <4>1, <4>3, <4>4, FocusIsNatural
    <3>6. QED
      BY <3>4, <3>5
  <2>3. QED
    BY <2>1, <2>2
<1>3. QED
  BY <1>1, <1>2 DEF BatchesAreEvents

LEMMA CountersStay ==
  ASSUME CountersCoverBatches, UNCHANGED <<batches, counters, recounts, base>>
  PROVE  CountersCoverBatches'
BY DEF CountersCoverBatches, Sum

(* What the step of the aggregator counts.                                 *)
LEMMA FetchedTyped ==
  ASSUME DayType
  PROVE  /\ FetchClassifiedSince(windowEnd) \subseteq EventsOf(windowEnd)
         /\ EventsOf(windowEnd) \subseteq DOMAIN events
         /\ \A type : OfType(type, FetchClassifiedSince(windowEnd)) \subseteq EventsOf(windowEnd)
         /\ windowEnd \in Nat
BY DEF FetchClassifiedSince, EventsOf, OfType, DayType

LEMMA BatchStored ==
  ASSUME DayType, BatchesAreEvents, UNCHANGED events, windowEnd' = windowEnd + 1,
         batches' = Append(batches, computeMetrics(windowEnd, FetchClassifiedSince(windowEnd)))
  PROVE  BatchesAreEvents'
<1> DEFINE ids == FetchClassifiedSince(windowEnd)
<1>1. PICK m \in Batch : m = computeMetrics(windowEnd, ids)
  BY FetchedTyped, MetricsAreTyped
<1>2. /\ m.focus = FocusIn(OfType("app_switched", ids))
      /\ m.commits = Cardinality(OfType("git_commit", ids))
      /\ m.commands = Cardinality(OfType("terminal_activity", ids))
  BY <1>1, FetchedTyped, MetricsAreTyped
<1>3. /\ (Sum("focus", 0))' = Sum("focus", 0) + m.focus
      /\ (Sum("commands", 0))' = Sum("commands", 0) + m.commands
      /\ (Sum("commits", 0))' = Sum("commits", 0) + m.commits
  <2>1. 0 \in 0..Len(batches)
    BY BatchesTyped
  <2>2. batches' = Append(batches, m)
    BY <1>1
  <2>3. \A field \in Totalled : (Sum(field, 0))' = Sum(field, 0) + m[field]
    BY <2>1, <2>2, SumAfterBatch DEF Sum
  <2>4. "focus" \in Totalled /\ "commands" \in Totalled /\ "commits" \in Totalled
    BY DEF Totalled
  <2>5. QED
    BY <2>3, <2>4
<1>4. /\ FocusIn(Before(windowEnd)) + m.focus <= FocusIn(Before(windowEnd + 1))
      /\ Cardinality(OfType("terminal_activity", Before(windowEnd))) + m.commands
           <= Cardinality(OfType("terminal_activity", Before(windowEnd + 1)))
      /\ Cardinality(OfType("git_commit", Before(windowEnd))) + m.commits
           <= Cardinality(OfType("git_commit", Before(windowEnd + 1)))
  BY <1>2, FetchedTyped, BeforeNext, CountSplits
<1>5. /\ FocusIn(Before(windowEnd))' = FocusIn(Before(windowEnd + 1))
      /\ \A type : OfType(type, Before(windowEnd))' = OfType(type, Before(windowEnd + 1))
  BY DEF FocusIn, Before, OfType, WindowAt
<1>6. m.focus \in Int /\ m.commands \in Nat /\ m.commits \in Nat
  BY MetricsTyped
<1>7. PICK v \in Nat : v = windowEnd + 1
  BY FetchedTyped
<1>8. FocusIn(Before(v)) \in Nat /\ \A type : Cardinality(OfType(type, Before(v))) \in Nat
  <2>1. \A type : OfType(type, Before(v)) \subseteq DOMAIN events
    BY DEF OfType, Before
  <2>2. QED
    BY <2>1, FocusIsNatural, EventsAreFinite
<1>9. ASSUME NEW a \in Int, NEW b \in Int, NEW c \in Int, NEW d \in Int, a <= b, b + d <= c
      PROVE  a + d <= c
  BY <1>9
<1>10. Sum("focus", 0) + m.focus <= FocusIn(Before(v))
  <2>1. Sum("focus", 0) <= FocusIn(Before(windowEnd)) /\ FocusIn(Before(windowEnd)) + m.focus <= FocusIn(Before(v))
    BY <1>4, <1>7 DEF BatchesAreEvents
  <2>2. QED
    BY <1>6, <1>8, <1>9, <2>1, TotalsTyped
<1>11. Sum("commands", 0) + m.commands <= Cardinality(OfType("terminal_activity", Before(v)))
  <2>1. /\ Sum("commands", 0) <= Cardinality(OfType("terminal_activity", Before(windowEnd)))
        /\ Cardinality(OfType("terminal_activity", Before(windowEnd))) + m.commands
             <= Cardinality(OfType("terminal_activity", Before(v)))
    BY <1>4, <1>7 DEF BatchesAreEvents
  <2>2. QED
    BY <1>6, <1>8, <1>9, <2>1, TotalsTyped
<1>12. Sum("commits", 0) + m.commits <= Cardinality(OfType("git_commit", Before(v)))
  <2>1. /\ Sum("commits", 0) <= Cardinality(OfType("git_commit", Before(windowEnd)))
        /\ Cardinality(OfType("git_commit", Before(windowEnd))) + m.commits
             <= Cardinality(OfType("git_commit", Before(v)))
    BY <1>4, <1>7 DEF BatchesAreEvents
  <2>2. QED
    BY <1>6, <1>8, <1>9, <2>1, TotalsTyped
<1>13. QED
  BY <1>3, <1>5, <1>7, <1>10, <1>11, <1>12 DEF BatchesAreEvents

LEMMA WindowPassed ==
  ASSUME DayType, BatchesAreEvents, UNCHANGED <<events, batches>>, windowEnd' \in Nat, windowEnd <= windowEnd'
  PROVE  BatchesAreEvents'
<1>1. PICK v \in Nat : v = windowEnd'
  OBVIOUS
<1>2. windowEnd \in Nat /\ windowEnd <= v
  BY <1>1 DEF DayType
<1>3. /\ FocusIn(Before(windowEnd)) <= FocusIn(Before(v))
      /\ \A type : Cardinality(OfType(type, Before(windowEnd))) <= Cardinality(OfType(type, Before(v)))
  BY <1>2, BeforeGrows
<1>4. /\ FocusIn(Before(windowEnd))' = FocusIn(Before(v))
      /\ \A type : OfType(type, Before(windowEnd))' = OfType(type, Before(v))
  BY <1>1 DEF FocusIn, Before, OfType, WindowAt
<1>5. /\ (Sum("focus", 0))' = Sum("focus", 0) /\ (Sum("commands", 0))' = Sum("commands", 0)
      /\ (Sum("commits", 0))' = Sum("commits", 0)
  BY DEF Sum
<1>6. FocusIn(Before(v)) \in Nat /\ \A type : Cardinality(OfType(type, Before(v))) \in Nat
  <2>1. \A type : OfType(type, Before(v)) \subseteq DOMAIN events
    BY DEF OfType, Before
  <2>2. QED
    BY <2>1, FocusIsNatural, EventsAreFinite
<1>7. QED
  BY <1>3, <1>4, <1>5, <1>6, TotalsTyped DEF BatchesAreEvents

Fields == {"focus", "distractions", "commits"}

(* The counters are raised by what the batch holds, whether it is stored   *)
(* or not.                                                                 *)
LEMMA CountersRaised ==
  ASSUME DayType, CountersCoverBatches, UNCHANGED base,
         NEW m \in Batch, m.focus \in Nat, counters' = Counted(m),
         \/ batches' = Append(batches, m) /\ UNCHANGED recounts
         \/ recounts' = recounts + 1 /\ UNCHANGED batches
  PROVE  CountersCoverBatches'
<1>1. /\ counters'.windows = counters.windows + 1
      /\ \A field \in Fields : counters'[field] = counters[field] + m[field]
  BY DEF Counted, Fields
<1>2. /\ counters.windows \in Nat /\ base \in 0..Len(batches) /\ recounts \in Nat /\ Len(batches) \in Nat
      /\ \A field \in Fields : counters[field] \in Int
  <2>1. counters \in [windows : Nat, focus : Int, distractions : Nat, commits : Nat]
    BY DEF DayType
  <2>2. counters.windows \in Nat /\ counters.focus \in Int /\ counters.distractions \in Nat /\ counters.commits \in Nat
    BY <2>1
  <2>3. \A field \in Fields : counters[field] \in Int
    BY <2>2 DEF Fields
  <2>4. QED
    BY <2>2, <2>3, BatchesTyped DEF DayType
<1>3. \A field \in Fields : m[field] \in Nat
  BY MetricsTyped DEF Fields
<1>4. \A field \in Fields : Sum(field, base) \in Int
  BY <1>2, ColumnTyped DEF Fields, Totalled
<1>5. /\ counters.windows = Len(batches) - base + recounts
      /\ \A field \in Fields :
           /\ counters[field] >= Sum(field, base)
           /\ recounts = 0 => counters[field] = Sum(field, base)
  BY DEF CountersCoverBatches, Fields
<1>6. CASE batches' = Append(batches, m) /\ UNCHANGED recounts
  <2>1. Len(batches') = Len(batches) + 1
    BY <1>6, BatchesTyped
  <2>2. ASSUME NEW field \in Fields
        PROVE  /\ counters'[field] >= (Sum(field, base))'
               /\ recounts' = 0 => counters'[field] = (Sum(field, base))'
    <3>1. (Sum(field, base))' = Sum(field, base) + m[field]
      <4>1. field \in Totalled
        BY DEF Fields, Totalled
      <4>2. SumOf([i \in 1..(Len(batches') - base) |-> batches'[base + i][field]]) = Sum(field, base) + m[field]
        BY <1>2, <1>6, <4>1, SumAfterBatch
      <4>3. QED
        BY <4>2 DEF Sum
    <3>2. PICK a \in Int : a = Sum(field, base)
      BY <1>4
    <3>3. PICK b \in Nat : b = m[field]
      BY <1>3
    <3>4. PICK c \in Int : c = counters[field]
      BY <1>2
    <3>5. c >= a /\ (recounts = 0 => c = a) /\ counters'[field] = c + b /\ (Sum(field, base))' = a + b
      BY <1>1, <1>5, <3>1, <3>2, <3>3, <3>4
    <3>6. QED
      BY <1>6, <3>5
  <2>3. counters'.windows = Len(batches') - base + recounts
    BY <1>1, <1>2, <1>5, <2>1
  <2>4. QED
    BY <1>6, <2>2, <2>3 DEF CountersCoverBatches, Fields
<1>7. CASE recounts' = recounts + 1 /\ UNCHANGED batches
  <2>1. ASSUME NEW field \in Fields
        PROVE  /\ counters'[field] >= (Sum(field, base))'
    <3>1. (Sum(field, base))' = Sum(field, base)
      BY <1>7 DEF Sum
    <3>2. PICK a \in Int : a = Sum(field, base)
      BY <1>4
    <3>3. PICK b \in Nat : b = m[field]
      BY <1>3
    <3>4. PICK c \in Int : c = counters[field]
      BY <1>2
    <3>5. c >= a /\ counters'[field] = c + b /\ (Sum(field, base))' = a
      BY <1>1, <1>5, <3>1, <3>2, <3>3, <3>4
    <3>6. QED
      BY <3>5
  <2>2. counters'.windows = Len(batches) - base + recounts' /\ recounts' # 0
    BY <1>1, <1>2, <1>5, <1>7
  <2>3. QED
    BY <1>7, <2>1, <2>2 DEF CountersCoverBatches, Fields
<1>8. QED
  BY <1>6, <1>7

LEMMA CountersBegin ==
  ASSUME DayType, counters' = NoCounters, recounts' = 0, base' = Len(batches), UNCHANGED batches
  PROVE  CountersCoverBatches'
<1>1. Len(batches) \in 0..Len(batches) /\ Len(batches) \in Nat
  BY BatchesTyped
<1>2. \A field \in Fields : (Sum(field, base))' = 0
  <2>1. \A field \in Fields : Sum(field, Len(batches)) = 0
    BY <1>1, ColumnTyped DEF Fields, Totalled
  <2>2. \A field \in Fields : (Sum(field, base))' = Sum(field, Len(batches))
    BY DEF Sum
  <2>3. QED
    BY <2>1, <2>2
<1>3. NoCounters.windows = 0 /\ \A field \in Fields : NoCounters[field] = 0
  BY DEF NoCounters, Fields
<1>4. \A field \in Fields : /\ counters'[field] >= (Sum(field, base))'
                            /\ recounts' = 0 => counters'[field] = (Sum(field, base))'
  BY <1>2, <1>3
<1>5. counters'.windows = Len(batches') - base' + recounts'
  BY <1>1, <1>3
<1>6. QED
  BY <1>4, <1>5 DEF CountersCoverBatches, Fields

LEMMA AggregateTells ==
  ASSUME DayType, AggregateWindow
  PROVE  \E m \in Batch :
           /\ m = computeMetrics(windowEnd, FetchClassifiedSince(windowEnd)) /\ m.focus \in Nat
           /\ counters' = Counted(m)
           /\ UNCHANGED <<day, collectors, paused, events, classified, hooks, base>>
           /\ \/ /\ batches' = Append(batches, m) /\ windowEnd' = windowEnd + 1 /\ NoteLate
                 /\ UNCHANGED <<recounts, faults>>
              \/ /\ faults' = faults + 1 /\ recounts' = recounts + 1
                 /\ UNCHANGED <<batches, windowEnd, troubled>>
<1>1. PICK m \in Batch : m = computeMetrics(windowEnd, FetchClassifiedSince(windowEnd))
  BY FetchedTyped, MetricsAreTyped
<1>2. m.focus \in Nat
  BY <1>1, FetchedTyped, MetricsAreTyped, FocusIsNatural
<1>3. QED
  BY <1>1, <1>2 DEF AggregateWindow

LEMMA CountersTyped ==
  ASSUME DayType, NEW m \in Batch
  PROVE  Counted(m) \in [windows : Nat, focus : Int, distractions : Nat, commits : Nat]
<1>1. counters \in [windows : Nat, focus : Int, distractions : Nat, commits : Nat]
  BY DEF DayType
<1>2. counters.windows \in Nat /\ counters.focus \in Int /\ counters.distractions \in Nat /\ counters.commits \in Nat
  BY <1>1
<1>3. m.focus \in Int /\ m.distractions \in Nat /\ m.commits \in Nat
  BY MetricsTyped
<1>4. /\ counters.windows + 1 \in Nat /\ counters.focus + m.focus \in Int
      /\ counters.distractions + m.distractions \in Nat /\ counters.commits + m.commits \in Nat
  BY <1>2, <1>3
<1>5. QED
  BY <1>4 DEF Counted

LEMMA AggregateTyped ==
  ASSUME DayType, TimesInOrder, AggregateWindow \/ SkipWindow
  PROVE  /\ DayType' /\ TimesInOrder' /\ windowEnd < WindowAt(now)
         /\ UNCHANGED <<day, due, front, inIdle, seen, paused, events, classified, hooks, base>>
<1>1. UNCHANGED <<day, due, front, inIdle, seen, paused, events, classified, hooks, base>>
  BY DEF AggregateWindow, SkipWindow, collectors
<1>2. windowEnd \in Nat /\ WindowAt(now) \in Nat /\ windowEnd < WindowAt(now) /\ faults \in Nat /\ recounts \in Nat
  <2>1. WindowAt(now) > windowEnd
    BY DEF AggregateWindow, SkipWindow
  <2>2. windowEnd \in Nat /\ WindowAt(now) \in Nat /\ faults \in Nat /\ recounts \in Nat
    BY PresentTyped DEF DayType
  <2>3. QED
    BY <2>1, <2>2
<1>3. troubled' \subseteq Nat
  <2>1. troubled' = troubled \/ NoteLate
    BY DEF AggregateWindow, SkipWindow
  <2>2. QED
    BY <1>2, <2>1 DEF NoteLate, DayType
<1>4. /\ windowEnd' \in {windowEnd, windowEnd + 1}
      /\ recounts' \in Nat /\ faults' \in Nat
      /\ counters' \in [windows : Nat, focus : Int, distractions : Nat, commits : Nat]
      /\ \/ batches' = batches
         \/ \E m \in Batch : batches' = Append(batches, m) /\ m.window = windowEnd /\ windowEnd' = windowEnd + 1
  <2>1. CASE AggregateWindow
    <3>1. PICK m \in Batch :
           /\ m = computeMetrics(windowEnd, FetchClassifiedSince(windowEnd)) /\ m.focus \in Nat
           /\ counters' = Counted(m)
           /\ UNCHANGED <<day, collectors, paused, events, classified, hooks, base>>
           /\ \/ /\ batches' = Append(batches, m) /\ windowEnd' = windowEnd + 1 /\ NoteLate
                 /\ UNCHANGED <<recounts, faults>>
              \/ /\ faults' = faults + 1 /\ recounts' = recounts + 1
                 /\ UNCHANGED <<batches, windowEnd, troubled>>
      BY <2>1, AggregateTells
    <3>2. m.window = windowEnd
      BY <3>1, FetchedTyped, MetricsAreTyped
    <3>3. Counted(m) \in [windows : Nat, focus : Int, distractions : Nat, commits : Nat]
      BY CountersTyped
    <3>4. recounts' \in Nat /\ faults' \in Nat /\ windowEnd' \in {windowEnd, windowEnd + 1}
      BY <1>2, <3>1
    <3>5. QED
      BY <3>1, <3>2, <3>3, <3>4
  <2>2. CASE SkipWindow
    <3>1. windowEnd' = windowEnd + 1 /\ UNCHANGED <<batches, counters, recounts, faults>>
      BY <2>2 DEF SkipWindow
    <3>2. QED
      BY <1>2, <3>1 DEF DayType
  <2>3. QED
    BY <2>1, <2>2
<1>5. windowEnd' \in Nat /\ windowEnd <= windowEnd' /\ windowEnd' <= WindowAt(now)
  BY <1>2, <1>4
<1>6. /\ batches' \in Seq(Batch) /\ base' \in 0..Len(batches')
      /\ \A b \in DOMAIN batches' : batches'[b].window < windowEnd'
  <2>1. /\ base \in 0..Len(batches) /\ batches \in Seq(Batch) /\ DOMAIN batches = 1..Len(batches)
        /\ \A b \in DOMAIN batches : batches[b].window < windowEnd /\ batches[b].window \in Nat
    BY BatchesTyped DEF DayType, TimesInOrder
  <2>2. \A b \in DOMAIN batches : batches[b].window < windowEnd'
    BY <1>2, <1>5, <2>1
  <2>3. CASE batches' = batches
    BY <1>1, <2>1, <2>2, <2>3
  <2>4. CASE batches' # batches
    <3>1. PICK m \in Batch : batches' = Append(batches, m) /\ m.window = windowEnd /\ windowEnd' = windowEnd + 1
      BY <1>4, <2>4
    <3>2. /\ batches' \in Seq(Batch) /\ Len(batches') = Len(batches) + 1 /\ batches'[Len(batches) + 1] = m
          /\ DOMAIN batches' = 1..(Len(batches) + 1)
          /\ \A b \in 1..Len(batches) : batches'[b] = batches[b]
      BY <2>1, <3>1
    <3>3. base' \in 0..Len(batches')
      BY <1>1, <2>1, <3>2
    <3>4. m.window < windowEnd'
      BY <1>2, <3>1
    <3>5. \A b \in DOMAIN batches' : b = Len(batches) + 1 \/ b \in DOMAIN batches
      BY <2>1, <3>2
    <3>6. \A b \in DOMAIN batches' : batches'[b].window < windowEnd'
      BY <2>1, <2>2, <3>2, <3>4, <3>5
    <3>7. QED
      BY <3>2, <3>3, <3>6
  <2>5. QED
    BY <2>3, <2>4
<1>7. now' = now
  BY <1>1 DEF now
<1>8. DayType'
  BY <1>1, <1>3, <1>4, <1>5, <1>6, <1>7 DEF DayType
<1>9. TimesInOrder'
  <2>1. windowEnd' <= (WindowAt(now))'
    BY <1>5, <1>7 DEF WindowAt
  <2>2. QED
    BY <1>1, <1>6, <1>7, <2>1 DEF TimesInOrder
<1>10. QED
  BY <1>1, <1>2, <1>8, <1>9

LEMMA GitTyped ==
  ASSUME DayType, TimesInOrder, GitEvent
  PROVE  /\ DayType' /\ TimesInOrder' /\ EventsStep /\ hooks' = hooks + 1
         /\ UNCHANGED <<day, due, front, inIdle, seen, windowEnd, batches, counters, recounts, base>>
         /\ \/ UNCHANGED faults /\ UNCHANGED troubled /\ events' = Append(events, Event("git_commit", "", 0))
            \/ /\ events' = events /\ troubled' = troubled \cup {WindowAt(now)}
               /\ faults' = faults \/ faults' = faults + 1
         /\ Event("git_commit", "", 0) \in RawEvent /\ Event("git_commit", "", 0).at = now
         /\ Event("git_commit", "", 0).type = "git_commit" /\ Event("git_commit", "", 0).focus = 0
<1>0. now \in Nat /\ WindowAt(now) \in Nat /\ faults \in Nat /\ troubled \subseteq Nat /\ hooks \in Nat
  BY PresentTyped DEF DayType
<1>1. /\ Event("git_commit", "", 0) \in RawEvent /\ Event("git_commit", "", 0).at = now
      /\ Event("git_commit", "", 0).type = "git_commit" /\ Event("git_commit", "", 0).focus = 0
  BY <1>0 DEF Event, RawEvent
<1>2. UNCHANGED <<day, due, front, inIdle, seen, paused, classified, windowEnd, batches, counters, recounts, base>>
      /\ hooks' = hooks + 1 /\ Submit(Event("git_commit", "", 0))
  BY DEF GitEvent, collectors, aggregator
<1>3. \/ UNCHANGED faults /\ UNCHANGED troubled /\ events' = Append(events, Event("git_commit", "", 0))
      \/ /\ events' = events /\ troubled' = troubled \cup {WindowAt(now)}
         /\ faults' = faults \/ faults' = faults + 1
  BY <1>2, SubmitCases
<1>4. EventsStep /\ now' = now
  BY <1>1, <1>2, <1>3 DEF EventsStep, now
<1>5. faults' \in Nat /\ hooks' \in Nat
  <2>1. faults' = faults \/ faults' = faults + 1
    BY <1>3
  <2>2. faults' \in Nat
    BY <1>0, <2>1
  <2>3. hooks' \in Nat
    <3>1. hooks \in Nat /\ hooks' = hooks + 1
      BY <1>0, <1>2
    <3>2. QED
      BY <3>1
  <2>4. QED
    BY <2>2, <2>3
<1>6. troubled' \subseteq Nat
  BY <1>0, <1>3
<1>7. DayType'
  BY <1>2, <1>4, <1>5, <1>6, EventsStepTyped DEF DayType
<1>8. TimesInOrder'
  BY <1>2, <1>4, EventsStepTyped DEF TimesInOrder
<1>9. QED
  BY <1>1, <1>2, <1>3, <1>4, <1>7, <1>8

LEMMA SwitchTyped ==
  ASSUME DayType, TimesInOrder, TogglePause \/ ClassifyPending
  PROVE  /\ DayType' /\ TimesInOrder' /\ faults' \in {faults, faults + 1}
         /\ UNCHANGED <<day, due, front, inIdle, seen, events, windowEnd, batches, counters, recounts, hooks, base, troubled>>
<1>1. /\ faults' \in {faults, faults + 1} /\ paused' \in BOOLEAN /\ classified' \in {classified, Len(events)}
      /\ UNCHANGED <<day, due, front, inIdle, seen, events, windowEnd, batches, counters, recounts, hooks, base, troubled>>
  BY DEF TogglePause, ClassifyPending, collectors, aggregator, DayType
<1>2. faults' \in Nat
  <2>1. faults \in Nat
    BY DEF DayType
  <2>2. QED
    BY <1>1, <2>1
<1>3. classified' \in 0..Len(events)
  <2>1. classified \in 0..Len(events) /\ Len(events) \in Nat
    BY MaskedTyped DEF DayType
  <2>2. QED
    BY <1>1, <2>1
<1>4. now' = now
  BY <1>1 DEF now
<1>5. QED
  BY <1>1, <1>2, <1>3, <1>4 DEF DayType, TimesInOrder, WindowAt

LEMMA RestartTyped ==
  ASSUME DayType, TimesInOrder, Restart
  PROVE  /\ DayType' /\ TimesInOrder'
         /\ faults' = faults + 1 /\ troubled' = troubled \cup {WindowAt(now)}
         /\ due' = Pollers /\ front' = NoFront /\ inIdle' = FALSE /\ seen' = FALSE
         /\ windowEnd' = WindowAt(now) /\ counters' = NoCounters /\ recounts' = 0 /\ base' = Len(batches)
         /\ UNCHANGED <<day, events, classified, batches, hooks>>
<1>1. /\ faults' = faults + 1 /\ troubled' = troubled \cup {WindowAt(now)}
      /\ due' = Pollers /\ front' = NoFront /\ inIdle' = FALSE /\ seen' = FALSE /\ paused' = FALSE
      /\ windowEnd' = WindowAt(now) /\ counters' = NoCounters /\ recounts' = 0 /\ base' = Len(batches)
      /\ UNCHANGED <<day, events, classified, batches, hooks>>
  BY DEF Restart, Strike, Trouble
<1>2. now \in Nat /\ WindowAt(now) \in Nat /\ faults \in Nat /\ troubled \subseteq Nat
  BY PresentTyped DEF DayType
<1>3. now' = now
  BY <1>1 DEF now
<1>4. NoFront \in [app : Apps \cup {""}, since : 0..now]
  <2>1. 0 \in 0..now
    BY <1>2
  <2>2. QED
    BY <2>1 DEF NoFront
<1>5. NoCounters \in [windows : Nat, focus : Int, distractions : Nat, commits : Nat]
  BY DEF NoCounters
<1>6. Len(batches) \in 0..Len(batches)
  BY BatchesTyped
<1>7. faults' \in Nat /\ troubled' \subseteq Nat
  <2>1. faults' \in Nat
    BY <1>1, <1>2
  <2>2. troubled' \subseteq Nat
    BY <1>1, <1>2
  <2>3. QED
    BY <2>1, <2>2
<1>8. DayType'
  BY <1>1, <1>2, <1>3, <1>4, <1>5, <1>6, <1>7 DEF DayType
<1>9. \A b \in DOMAIN batches : batches[b].window < WindowAt(now)
  <2>1. windowEnd \in Nat /\ windowEnd <= WindowAt(now)
    BY DEF DayType, TimesInOrder
  <2>2. ASSUME NEW b \in DOMAIN batches PROVE batches[b].window < WindowAt(now)
    <3>1. batches[b].window \in Nat /\ batches[b].window < windowEnd
      BY BatchesTyped DEF TimesInOrder
    <3>2. QED
      BY <1>2, <2>1, <3>1
  <2>3. QED
    BY <2>2
<1>10. TimesInOrder'
  <2>1. windowEnd' <= (WindowAt(now))'
    BY <1>1, <1>2, <1>3 DEF WindowAt
  <2>2. QED
    BY <1>1, <1>3, <1>9, <2>1 DEF TimesInOrder
<1>11. QED
  BY <1>1, <1>8, <1>10

(* The launches the terminal poller can know of. *)
Launched(n) == {t \in Launches : t < n}

LEMMA LaunchedTyped ==
  ASSUME DayType, NEW n
  PROVE  IsFiniteSet(Launched(n)) /\ Cardinality(Launched(n)) \in Nat
<1>1. Launched(n) \subseteq 0..now
  BY DEF Launched, Launches
<1>2. QED
  BY <1>1, MinutesAreFinite, FS_CardinalityType

(* Nothing of what the terminal poller knows changes. *)
LEMMA TerminalStays ==
  ASSUME DayType, EventsAreDay, UNCHANGED <<day, seen>>, SeenByTerminal' = SeenByTerminal,
         faults' = 0 => faults = 0,
         Cardinality(OfType("terminal_activity", DOMAIN events))' =
           Cardinality(OfType("terminal_activity", DOMAIN events))
  PROVE  faults' = 0 =>
           /\ Cardinality(OfType("terminal_activity", DOMAIN events))' <=
                Cardinality({t \in Launches : t < SeenByTerminal})'
           /\ seen' <=> (SeenByTerminal > 0 /\ day[SeenByTerminal].running)'
<1>1. {t \in Launches : t < SeenByTerminal}' = {t \in Launches : t < SeenByTerminal}
  BY DEF Launches, now
<1>2. QED
  BY <1>1 DEF EventsAreDay

(* One event of each kind more or less. *)
LEMMA TotalsAfterEvent ==
  ASSUME DayType, NEW e \in RawEvent, events' = Append(events, e)
  PROVE  /\ FocusIn(DOMAIN events)' = FocusIn(DOMAIN events) + e.focus
         /\ \A type : Cardinality(OfType(type, DOMAIN events))' =
              Cardinality(OfType(type, DOMAIN events)) + IF e.type = type THEN 1 ELSE 0
<1>1. \A type : Cardinality(OfType(type, DOMAIN events))' =
         Cardinality(OfType(type, DOMAIN events)) + IF e.type = type THEN 1 ELSE 0
  BY CountAfterEvent
<1>2. PICK ids : ids = DOMAIN events'
  OBVIOUS
<1>3. SumOf([i \in DOMAIN events' |-> IF i \in ids THEN events'[i].focus ELSE 0]) =
        FocusIn(DOMAIN events) + IF Len(events) + 1 \in ids THEN e.focus ELSE 0
  <2>1. \A i \in DOMAIN events : i \in DOMAIN events <=> i \in ids
    BY <1>2, EventsGrow
  <2>2. QED
    BY <2>1, FocusAfterEvent
<1>4. Len(events) + 1 \in ids
  BY <1>2, EventsGrow
<1>5. FocusIn(DOMAIN events)' = SumOf([i \in DOMAIN events' |-> IF i \in ids THEN events'[i].focus ELSE 0])
  BY <1>2 DEF FocusIn
<1>6. QED
  BY <1>1, <1>3, <1>4, <1>5

LEMMA TotalsStay ==
  ASSUME UNCHANGED events
  PROVE  /\ FocusIn(DOMAIN events)' = FocusIn(DOMAIN events)
         /\ \A type : Cardinality(OfType(type, DOMAIN events))' = Cardinality(OfType(type, DOMAIN events))
BY DEF FocusIn, OfType

LEMMA FaultsGrow ==
  ASSUME DayType, faults' = faults \/ faults' = faults + 1
  PROVE  faults' = 0 => faults = 0 /\ faults' = faults
<1>1. faults \in Nat
  BY DEF DayType
<1>2. QED
  BY <1>1

LEMMA WindowPollTells ==
  ASSUME DayType, EventsAreDay, PollWindow
  PROVE  EventsAreDay'
<1>0. now \in Nat /\ WindowAt(now) \in Nat /\ front.since \in 0..now
  BY PresentTyped DEF DayType
<1> DEFINE e == Event("app_switched", Sample.app, now - front.since)
<1>1. UNCHANGED <<day, seen, hooks>> /\ now' = now
  BY DEF PollWindow, Polled, now
<1>2. SeenByTerminal' = SeenByTerminal
  BY <1>1, PolledIs, DueDiffer DEF PollWindow, SeenByTerminal
<1>3. e \in RawEvent /\ e.type = "app_switched" /\ e.focus = now - front.since
  <2>1. now - front.since \in Nat
    BY <1>0
  <2>2. Sample.app \in Apps
    BY PresentTyped DEF Shown
  <2>3. QED
    BY <1>0, <2>1, <2>2 DEF Event, RawEvent
<1>4. PICK f \in Nat : f = FocusIn(DOMAIN events)
  BY TotalsTyped
<1>5. f + OpenFocus <= now /\ OpenFocus \in Nat
  BY <1>4, TotalsTyped DEF EventsAreDay
<1>6. CASE UNCHANGED <<events, faults>>
  <2>1. OpenFocus' <= OpenFocus \/ front'.since = now
    <3>1. front' = front \/ front' = [app |-> Sample.app, since |-> now]
      BY DEF PollWindow
    <3>2. front' = front => OpenFocus' = OpenFocus
      BY <1>1 DEF OpenFocus
    <3>3. QED
      BY <1>5, <3>1, <3>2
  <2>2. front'.since = now => OpenFocus' = 0
    BY <1>0, <1>1 DEF OpenFocus
  <2>3. OpenFocus' \in Int /\ OpenFocus' <= OpenFocus
    <3>1. front' = front \/ front' = [app |-> Sample.app, since |-> now]
      BY DEF PollWindow
    <3>2. front' = front => OpenFocus' = OpenFocus
      BY <1>1 DEF OpenFocus
    <3>3. QED
      BY <1>5, <2>2, <3>1, <3>2
  <2>4. f + OpenFocus' <= now
    <3>1. PICK o \in Nat : o = OpenFocus
      BY <1>5
    <3>2. PICK p \in Int : p = OpenFocus'
      BY <2>3
    <3>3. f + o <= now /\ p <= o
      BY <1>5, <2>3, <3>1, <3>2
    <3>4. f + p <= now
      BY <1>0, <3>3
    <3>5. QED
      BY <3>2, <3>4
  <2>5. FocusIn(DOMAIN events)' = f
    BY <1>4, <1>6, TotalsStay
  <2>6. \A type : Cardinality(OfType(type, DOMAIN events))' = Cardinality(OfType(type, DOMAIN events))
    BY <1>6, TotalsStay
  <2>7. faults' = 0 => faults = 0
    BY <1>6
  <2>8. Cardinality(OfType("git_commit", DOMAIN events))' <= hooks'
    BY <1>1, <2>6 DEF EventsAreDay
  <2>9. QED
    BY <1>1, <1>2, <2>4, <2>5, <2>6, <2>7, <2>8, TerminalStays DEF EventsAreDay
<1>7. CASE Submit(e) /\ front.app # "" /\ front' = [app |-> Sample.app, since |-> now]
  <2>1. OpenFocus' = 0 /\ OpenFocus = now - front.since
    <3>0. front'.since = now
      BY <1>7
    <3>1. front'.since = now /\ now - now = 0
      BY <1>0, <3>0
    <3>2. OpenFocus' = IF front'.app = "" THEN 0 ELSE now - now
      BY <1>1, <3>1 DEF OpenFocus
    <3>3. OpenFocus' = 0
      BY <3>1, <3>2
    <3>4. OpenFocus = now - front.since
      BY <1>7 DEF OpenFocus
    <3>5. QED
      BY <3>3, <3>4
  <2>2. CASE events' = Append(events, e) /\ UNCHANGED <<troubled, faults>>
    <3>1. FocusIn(DOMAIN events)' = f + e.focus
      BY <1>3, <1>4, <2>2, TotalsAfterEvent
    <3>2. FocusIn(DOMAIN events)' + OpenFocus' <= now
      BY <1>0, <1>3, <1>5, <2>1, <3>1
    <3>3. \A type : Cardinality(OfType(type, DOMAIN events))' =
             Cardinality(OfType(type, DOMAIN events)) + IF e.type = type THEN 1 ELSE 0
      BY <1>3, <2>2, TotalsAfterEvent
    <3>4. e.type # "git_commit" /\ e.type # "terminal_activity"
      BY <1>3
    <3>5. /\ Cardinality(OfType("git_commit", DOMAIN events))' = Cardinality(OfType("git_commit", DOMAIN events))
          /\ Cardinality(OfType("terminal_activity", DOMAIN events))' =
               Cardinality(OfType("terminal_activity", DOMAIN events))
      BY <3>3, <3>4, TotalsTyped
    <3>6. Cardinality(OfType("git_commit", DOMAIN events))' <= hooks'
      BY <1>1, <3>5 DEF EventsAreDay
    <3>7. faults' = 0 => faults = 0
      BY <2>2
    <3>8. QED
      BY <1>1, <1>2, <3>2, <3>5, <3>6, <3>7, TerminalStays DEF EventsAreDay
  <2>3. CASE events' = events /\ (faults' = faults \/ faults' = faults + 1)
    <3>1. FocusIn(DOMAIN events)' = f
      BY <1>4, <2>3, TotalsStay
    <3>2. FocusIn(DOMAIN events)' + OpenFocus' <= now
      BY <1>0, <1>5, <2>1, <3>1
    <3>3. \A type : Cardinality(OfType(type, DOMAIN events))' = Cardinality(OfType(type, DOMAIN events))
      BY <2>3, TotalsStay
    <3>4. Cardinality(OfType("git_commit", DOMAIN events))' <= hooks'
      BY <1>1, <3>3 DEF EventsAreDay
    <3>5. faults' = 0 => faults = 0
      BY <2>3, FaultsGrow
    <3>6. QED
      BY <1>1, <1>2, <3>2, <3>3, <3>4, <3>5, TerminalStays DEF EventsAreDay
  <2>4. QED
    BY <1>7, <2>2, <2>3, SubmitCases
<1> HIDE DEF e
<1>8. QED
  <2>1. \/ UNCHANGED <<events, faults>>
        \/ front.app \notin {"", Sample.app} /\ Submit(e)
    BY DEF PollWindow, NoSubmit, e
  <2>2. front' = IF front.app = Sample.app THEN front ELSE [app |-> Sample.app, since |-> now]
    BY DEF PollWindow
  <2>3. QED
    BY <1>6, <1>7, <2>1, <2>2

(* A step that leaves the day, the front application and what the terminal *)
(* poller knows as they are, and adds events of other kinds at most.       *)
LEMMA OthersTell ==
  ASSUME DayType, EventsAreDay, UNCHANGED <<day, front, seen>>, SeenByTerminal' = SeenByTerminal,
         hooks' \in Nat, faults' = faults \/ faults' = faults + 1,
         \/ events' = events /\ hooks <= hooks'
         \/ \E e \in RawEvent :
              /\ events' = Append(events, e) /\ e.focus = 0 /\ e.type # "terminal_activity"
              /\ hooks' = IF e.type = "git_commit" THEN hooks + 1 ELSE hooks
  PROVE  EventsAreDay'
<1>0. now \in Nat /\ hooks \in Nat /\ now' = now
  BY PresentTyped DEF DayType, now
<1>1. faults' = 0 => faults = 0
  BY FaultsGrow
<1>2. OpenFocus' = OpenFocus /\ OpenFocus \in Nat
  BY <1>0, TotalsTyped DEF OpenFocus
<1>3. PICK f \in Nat : f = FocusIn(DOMAIN events)
  BY TotalsTyped
<1>4. PICK c \in Nat : c = Cardinality(OfType("git_commit", DOMAIN events))
  BY TotalsTyped
<1>5. PICK t \in Nat : t = Cardinality(OfType("terminal_activity", DOMAIN events))
  BY TotalsTyped
<1>6. f + OpenFocus <= now /\ c <= hooks
  BY <1>3, <1>4 DEF EventsAreDay
<1>7. /\ FocusIn(DOMAIN events)' = f
      /\ Cardinality(OfType("git_commit", DOMAIN events))' <= hooks'
      /\ Cardinality(OfType("terminal_activity", DOMAIN events))' = t
  <2>1. CASE events' = events /\ hooks <= hooks'
    BY <1>0, <1>3, <1>4, <1>5, <1>6, <2>1, TotalsStay
  <2>2. CASE \E e \in RawEvent :
              /\ events' = Append(events, e) /\ e.focus = 0 /\ e.type # "terminal_activity"
              /\ hooks' = IF e.type = "git_commit" THEN hooks + 1 ELSE hooks
    <3>1. PICK e \in RawEvent :
              /\ events' = Append(events, e) /\ e.focus = 0 /\ e.type # "terminal_activity"
              /\ hooks' = IF e.type = "git_commit" THEN hooks + 1 ELSE hooks
      BY <2>2
    <3>2. /\ FocusIn(DOMAIN events)' = f + 0
          /\ Cardinality(OfType("git_commit", DOMAIN events))' = c + IF e.type = "git_commit" THEN 1 ELSE 0
          /\ Cardinality(OfType("terminal_activity", DOMAIN events))' = t + 0
      BY <1>3, <1>4, <1>5, <3>1, TotalsAfterEvent
    <3>3. QED
      BY <1>0, <1>6, <3>1, <3>2
  <2>3. QED
    BY <2>1, <2>2
<1>8. QED
  BY <1>0, <1>1, <1>2, <1>5, <1>6, <1>7, TerminalStays DEF EventsAreDay

LEMMA LaunchedGrows ==
  ASSUME DayType
  PROVE  /\ Cardinality(Launched(now)) <= Cardinality(Launched(now + 1))
         /\ now \in Launches => Cardinality(Launched(now + 1)) = Cardinality(Launched(now)) + 1
<1>0. now \in Nat
  BY PresentTyped
<1>1. \A t \in Launches : t \in 0..now
  BY DEF Launches
<1>2. PICK A : A = Launched(now)
  OBVIOUS
<1>3. PICK B : B = Launched(now + 1)
  OBVIOUS
<1>4. IsFiniteSet(A) /\ IsFiniteSet(B) /\ Cardinality(A) \in Nat /\ Cardinality(B) \in Nat
  BY <1>2, <1>3, LaunchedTyped
<1>5. A \subseteq B
  BY <1>0, <1>1, <1>2, <1>3 DEF Launched
<1>6. Cardinality(A) <= Cardinality(B)
  BY <1>4, <1>5, FS_Subset
<1>7. ASSUME now \in Launches PROVE Cardinality(B) = Cardinality(A) + 1
  <2>1. B = A \cup {now}
    <3>1. \A t \in Launches : t < now + 1 <=> t < now \/ t = now
      BY <1>0, <1>1
    <3>2. QED
      BY <1>2, <1>3, <1>7, <3>1 DEF Launched
  <2>2. now \notin A
    BY <1>0, <1>2 DEF Launched
  <2>3. Cardinality(A \cup {now}) = Cardinality(A) + 1
    BY <1>4, <2>2, FS_AddElement
  <2>4. QED
    BY <2>1, <2>3
<1>8. QED
  BY <1>2, <1>3, <1>6, <1>7

(* A step that changes neither the focus nor the commits. *)
LEMMA FocusTells ==
  ASSUME DayType, EventsAreDay, UNCHANGED <<day, front, hooks>>,
         \/ events' = events
         \/ \E e \in RawEvent :
              /\ events' = Append(events, e) /\ e.focus = 0 /\ e.type # "git_commit"
  PROVE  /\ FocusIn(DOMAIN events)' + OpenFocus' <= now'
         /\ Cardinality(OfType("git_commit", DOMAIN events))' <= hooks'
<1>0. now \in Nat /\ hooks \in Nat /\ now' = now
  BY PresentTyped DEF DayType, now
<1>2. OpenFocus' = OpenFocus /\ OpenFocus \in Nat
  BY <1>0, TotalsTyped DEF OpenFocus
<1>3. PICK f \in Nat : f = FocusIn(DOMAIN events)
  BY TotalsTyped
<1>4. PICK c \in Nat : c = Cardinality(OfType("git_commit", DOMAIN events))
  BY TotalsTyped
<1>6. f + OpenFocus <= now /\ c <= hooks
  BY <1>3, <1>4 DEF EventsAreDay
<1>7. /\ FocusIn(DOMAIN events)' = f
      /\ Cardinality(OfType("git_commit", DOMAIN events))' = c
  <2>1. CASE events' = events
    BY <1>3, <1>4, <2>1, TotalsStay
  <2>2. CASE \E e \in RawEvent :
              /\ events' = Append(events, e) /\ e.focus = 0 /\ e.type # "git_commit"
    <3>1. PICK e \in RawEvent :
              /\ events' = Append(events, e) /\ e.focus = 0 /\ e.type # "git_commit"
      BY <2>2
    <3>2. /\ FocusIn(DOMAIN events)' = f + 0
          /\ Cardinality(OfType("git_commit", DOMAIN events))' = c + 0
      BY <1>3, <1>4, <3>1, TotalsAfterEvent
    <3>3. QED
      BY <3>2
  <2>3. QED
    BY <2>1, <2>2
<1>8. QED
  BY <1>0, <1>2, <1>6, <1>7

LEMMA TerminalPollTells ==
  ASSUME DayType, EventsAreDay, PollTerminal
  PROVE  EventsAreDay'
<1>0. now \in Nat /\ Sample = day[now + 1] /\ now' = now
  BY PresentTyped DEF PollTerminal, Polled, now
<1>1. UNCHANGED <<day, front, hooks>> /\ seen' = Sample.running
  BY DEF PollTerminal, Polled
<1>2. SeenByTerminal = now /\ SeenByTerminal' = now + 1
  <2>1. due # <<>> /\ due' = <<>>
    BY PolledIs, DueDiffer DEF PollTerminal
  <2>2. SeenByTerminal = now + 0 /\ SeenByTerminal' = now + 1
    BY <1>0, <2>1 DEF SeenByTerminal
  <2>3. now \in Nat
    BY <1>0
  <2>4. QED
    BY <2>2, <2>3
<1>3a. \A type \in {"terminal_activity"} :
        /\ Event(type, "", 0) \in RawEvent /\ Event(type, "", 0).focus = 0
        /\ Event(type, "", 0).type = type
  <2>1. now \in Nat
    BY <1>0
  <2>2. QED
    BY <2>1 DEF Event, RawEvent
<1>3. PICK e \in RawEvent : e = Event("terminal_activity", "", 0) /\ e.type = "terminal_activity" /\ e.focus = 0
  BY <1>3a
<1>4. \/ events' = events /\ (faults' = faults \/ faults' = faults + 1)
      \/ /\ events' = Append(events, e) /\ faults' = faults
         /\ Sample.running /\ ~seen
  <2>1. CASE Sample.running /\ ~seen
    <3>1. Submit(e)
      BY <1>3, <2>1 DEF PollTerminal
    <3>2. QED
      BY <2>1, <3>1, SubmitCases
  <2>2. CASE ~(Sample.running /\ ~seen)
    BY <2>2 DEF PollTerminal, NoSubmit
  <2>3. QED
    BY <2>1, <2>2
<1>5. /\ FocusIn(DOMAIN events)' + OpenFocus' <= now'
      /\ Cardinality(OfType("git_commit", DOMAIN events))' <= hooks'
  <2>1. e.type # "git_commit"
    BY <1>3
  <2>2. QED
    BY <1>1, <1>3, <1>4, <2>1, FocusTells
<1>6. {t \in Launches : t < SeenByTerminal}' = Launched(now + 1)
  <2>1. Launches' = Launches
    BY <1>0, <1>1 DEF Launches
  <2>2. QED
    BY <1>2, <2>1 DEF Launched
<1>7. PICK n \in Nat : n = Cardinality(OfType("terminal_activity", DOMAIN events))
  BY TotalsTyped
<1>8. PICK l \in Nat : l = Cardinality(Launched(now))
  BY LaunchedTyped
<1>9. PICK m \in Nat : m = Cardinality(Launched(now + 1))
  BY LaunchedTyped
<1>10. l <= m /\ (now \in Launches => m = l + 1)
  BY <1>8, <1>9, LaunchedGrows
<1>11. ASSUME faults' = 0
       PROVE  /\ Cardinality(OfType("terminal_activity", DOMAIN events))' <= m
              /\ seen' <=> (SeenByTerminal > 0 /\ day[SeenByTerminal].running)'
  <2>1. faults = 0
    BY <1>4, <1>11, FaultsGrow
  <2>2. n <= l /\ (seen <=> now > 0 /\ day[now].running)
    BY <1>2, <1>7, <1>8, <2>1 DEF EventsAreDay, Launched
  <2>3. seen' <=> (SeenByTerminal > 0 /\ day[SeenByTerminal].running)'
    <3>1. now + 1 > 0
      BY <1>0
    <3>2. (SeenByTerminal > 0 /\ day[SeenByTerminal].running)' <=> day[now + 1].running
      BY <1>1, <1>2, <3>1
    <3>3. QED
      BY <1>0, <1>1, <3>2
  <2>4. CASE events' = events
    <3>1. Cardinality(OfType("terminal_activity", DOMAIN events))' = n
      BY <1>7, <2>4, TotalsStay
    <3>2. QED
      BY <1>10, <2>2, <2>3, <3>1
  <2>5. CASE events' = Append(events, e) /\ Sample.running /\ ~seen
    <3>1. Cardinality(OfType("terminal_activity", DOMAIN events))' = n + 1
      BY <1>3, <1>7, <2>5, TotalsAfterEvent
    <3>2. now > 0 => ~day[now].running
      BY <2>2, <2>5
    <3>3. now \in Launches
      BY <1>0, <2>5, <3>2 DEF Launches
    <3>4. QED
      BY <1>10, <2>2, <2>3, <3>1, <3>3
  <2>6. QED
    BY <1>4, <2>4, <2>5
<1>12. QED
  BY <1>5, <1>6, <1>9, <1>11 DEF EventsAreDay

LEMMA MinuteTells ==
  ASSUME DayType, TimesInOrder, EventsAreDay, Minute, due = <<>>
  PROVE  EventsAreDay'
<1>0. now \in Nat /\ day \in Seq(Shown) /\ Len(day) = now + 1 /\ front.since \in 0..now
  BY PresentTyped DEF DayType
<1>1. UNCHANGED <<front, seen, events, hooks, faults>> /\ due' = Pollers /\ now' = now + 1
  BY MinuteShows, MinuteTyped
<1>2. PICK x \in Shown : day' = Append(day, x)
  BY MinuteShows
<1>3. \A k \in 1..(now + 1) : day'[k] = day[k]
  BY <1>0, <1>2
<1>4. SeenByTerminal = now + 1 /\ SeenByTerminal' = now + 1
  <2>1. now' + 0 = now + 1
    <3>1. now \in Nat /\ now' = now + 1
      BY <1>0, <1>1
    <3>2. QED
      BY <3>1
  <2>2. SeenByTerminal' = now' + 0
    BY <1>1, DueDiffer DEF SeenByTerminal
  <2>3. QED
    BY <2>1, <2>2 DEF SeenByTerminal
<1>5. PICK f \in Nat : f = FocusIn(DOMAIN events)
  BY TotalsTyped
<1>6. f + OpenFocus <= now
  BY <1>5 DEF EventsAreDay
<1>7. f + OpenFocus' <= now + 1
  <2>1. CASE front.app = ""
    <3>1. OpenFocus = 0 /\ OpenFocus' = 0
      BY <1>1, <2>1 DEF OpenFocus
    <3>2. QED
      BY <1>0, <1>6, <3>1
  <2>2. CASE front.app # ""
    <3>1. OpenFocus = now - front.since
      BY <2>2 DEF OpenFocus
    <3>2. OpenFocus' = now' - front.since
      BY <1>1, <2>2 DEF OpenFocus
    <3>3. now \in Nat /\ front.since \in Nat /\ now' = now + 1
      BY <1>0, <1>1
    <3>4. QED
      BY <1>6, <3>1, <3>2, <3>3
  <2>3. QED
    BY <2>1, <2>2
<1>8. FocusIn(DOMAIN events)' = f
  BY <1>1, <1>5, TotalsStay
<1>9. \A type : Cardinality(OfType(type, DOMAIN events))' = Cardinality(OfType(type, DOMAIN events))
  BY <1>1, TotalsStay
<1>10. {t \in Launches : t < SeenByTerminal}' = {t \in Launches : t < SeenByTerminal}
  <2>1. \A t \in 0..now : t + 1 \in 1..(now + 1) /\ (t > 0 => t \in 1..(now + 1))
    BY <1>0
  <2>2. \A t \in 0..now : day'[t + 1].running /\ (t > 0 => ~day'[t].running) <=>
                          day[t + 1].running /\ (t > 0 => ~day[t].running)
    BY <1>3, <2>1
  <2>3. \A t : t \in 0..now' /\ t < now + 1 <=> t \in 0..now
    BY <1>0, <1>1
  <2>4. \A t \in 0..now : t < now + 1
    BY <1>0
  <2>5. Launches' = {t \in 0..now' : day'[t + 1].running /\ (t > 0 => ~day'[t].running)}
    BY DEF Launches
  <2>6. PICK L : L = {t \in 0..now : day[t + 1].running /\ (t > 0 => ~day[t].running)}
    OBVIOUS
  <2>7. {t \in Launches' : t < now + 1} = L
    BY <2>2, <2>3, <2>5, <2>6
  <2>8. {t \in Launches : t < now + 1} = L
    BY <2>4, <2>6 DEF Launches
  <2>9. {t \in Launches : t < SeenByTerminal}' = {t \in Launches' : t < SeenByTerminal'}
    OBVIOUS
  <2>10. QED
    BY <1>4, <2>7, <2>8, <2>9
<1>11. ASSUME faults' = 0 PROVE seen' <=> (SeenByTerminal > 0 /\ day[SeenByTerminal].running)'
  <2>1. seen <=> now + 1 > 0 /\ day[now + 1].running
    BY <1>1, <1>4, <1>11 DEF EventsAreDay
  <2>2. now + 1 \in 1..(now + 1)
    BY <1>0
  <2>3. day'[now + 1] = day[now + 1]
    BY <1>3, <2>2
  <2>4. QED
    BY <1>1, <1>4, <2>1, <2>3
<1>12. QED
  BY <1>1, <1>7, <1>8, <1>9, <1>10, <1>11 DEF EventsAreDay

(* After a failure nothing is said of the terminal poller. *)
LEMMA FaultTells ==
  ASSUME DayType, EventsAreDay, UNCHANGED <<day, events, hooks>>, faults' = faults + 1,
         front' = front \/ front' = NoFront
  PROVE  EventsAreDay'
<1>0. now \in Nat /\ now' = now /\ faults \in Nat
  BY PresentTyped DEF DayType, now
<1>1. faults' # 0
  BY <1>0
<1>2. PICK f \in Nat : f = FocusIn(DOMAIN events)
  BY TotalsTyped
<1>3. PICK o \in Nat : o = OpenFocus
  BY TotalsTyped
<1>4. f + o <= now
  BY <1>2, <1>3 DEF EventsAreDay
<1>5. OpenFocus' = o \/ OpenFocus' = 0
  <2>1. front' = front => OpenFocus' = OpenFocus
    BY <1>0 DEF OpenFocus
  <2>2. front' = NoFront => OpenFocus' = 0
    <3>1. NoFront.app = ""
      BY DEF NoFront
    <3>2. QED
      BY <3>1 DEF OpenFocus
  <2>3. QED
    BY <1>3, <2>1, <2>2
<1>6. f + OpenFocus' <= now
  BY <1>0, <1>4, <1>5
<1>7. FocusIn(DOMAIN events)' = f
  BY <1>2, TotalsStay
<1>8. Cardinality(OfType("git_commit", DOMAIN events))' <= hooks'
  BY TotalsStay DEF EventsAreDay
<1>9. QED
  BY <1>0, <1>1, <1>6, <1>7, <1>8 DEF EventsAreDay

LEMMA IdlePollTells ==
  ASSUME DayType, EventsAreDay, PollIdle
  PROVE  EventsAreDay'
<1>0. now \in Nat /\ UNCHANGED <<day, front, seen, hooks>> /\ now' = now /\ hooks \in Nat
  BY PresentTyped DEF PollIdle, Polled, now, DayType
<1>1. SeenByTerminal' = SeenByTerminal
  BY <1>0, PolledIs, DueDiffer DEF PollIdle, SeenByTerminal
<1>2. \A type \in {"idle_detected", "idle_ended"} :
        /\ Event(type, "", 0) \in RawEvent /\ Event(type, "", 0).focus = 0
        /\ Event(type, "", 0).type = type
  BY <1>0 DEF Event, RawEvent
<1>3. \/ NoSubmit
      \/ \E type \in {"idle_detected", "idle_ended"} : Submit(Event(type, "", 0))
  BY DEF PollIdle
<1>4. CASE NoSubmit
  <2>1. events' = events /\ faults' = faults /\ hooks <= hooks'
    BY <1>0, <1>4 DEF NoSubmit
  <2>2. QED
    BY <1>0, <1>1, <2>1, OthersTell
<1>5. ASSUME NEW type \in {"idle_detected", "idle_ended"}, Submit(Event(type, "", 0))
      PROVE  EventsAreDay'
  <2>1. PICK e \in RawEvent : e = Event(type, "", 0) /\ e.focus = 0 /\ e.type = type
    BY <1>2
  <2>2. e.type # "terminal_activity" /\ e.type # "git_commit"
    BY <2>1
  <2>3. \/ UNCHANGED faults /\ events' = Append(events, e)
        \/ events' = events /\ (faults' = faults \/ faults' = faults + 1)
    BY <1>5, <2>1, SubmitCases
  <2>4. hooks <= hooks' /\ hooks' \in Nat
    BY <1>0
  <2>5. hooks' = IF e.type = "git_commit" THEN hooks + 1 ELSE hooks
    BY <1>0, <2>2
  <2>6. QED
    BY <1>0, <1>1, <2>1, <2>2, <2>3, <2>4, <2>5, OthersTell
<1>6. QED
  BY <1>3, <1>4, <1>5

LEMMA PollsTell ==
  ASSUME DayType, EventsAreDay, Poll
  PROVE  EventsAreDay'
<1>1. ASSUME LookupFails PROVE EventsAreDay'
  <2>1. UNCHANGED <<day, events, hooks, front>> /\ faults' = faults + 1
    BY <1>1 DEF LookupFails, Polled, Strike
  <2>2. QED
    BY <2>1, FaultTells
<1>2. QED
  BY <1>1, WindowPollTells, IdlePollTells, TerminalPollTells DEF Poll

LEMMA GitTells ==
  ASSUME DayType, TimesInOrder, EventsAreDay, GitEvent
  PROVE  EventsAreDay'
<1>0. hooks \in Nat /\ hooks' \in Nat /\ hooks' = hooks + 1
  BY GitTyped DEF DayType
<1>1. UNCHANGED <<day, front, seen>> /\ SeenByTerminal' = SeenByTerminal
  BY GitTyped DEF SeenByTerminal, now
<1>2. PICK e \in RawEvent : e = Event("git_commit", "", 0) /\ e.focus = 0 /\ e.type = "git_commit"
  BY GitTyped
<1>3. \/ UNCHANGED faults /\ events' = Append(events, e)
      \/ events' = events /\ (faults' = faults \/ faults' = faults + 1)
  BY <1>2, GitTyped
<1>4. hooks <= hooks' /\ e.type # "terminal_activity"
  <2>1. hooks <= hooks'
    BY <1>0
  <2>2. QED
    BY <1>2, <2>1
<1>5. hooks' = IF e.type = "git_commit" THEN hooks + 1 ELSE hooks
  BY <1>0, <1>2
<1>6. QED
  BY <1>0, <1>1, <1>2, <1>3, <1>4, <1>5, OthersTell

(* Steps that add no event. *)
LEMMA QuietTells ==
  ASSUME DayType, EventsAreDay, UNCHANGED <<day, front, seen, due, events, hooks>>,
         faults' = faults \/ faults' = faults + 1
  PROVE  EventsAreDay'
<1>1. hooks \in Nat /\ hooks' = hooks
  BY DEF DayType
<1>1a. hooks <= hooks' /\ hooks' \in Nat
  BY <1>1
<1>2. SeenByTerminal' = SeenByTerminal
  BY DEF SeenByTerminal, now
<1>3. QED
  BY <1>1a, <1>2, OthersTell

(* IdleIsKnown of what the events say (acc) of the minutes of window w     *)
(* before until.                                                           *)
Noted(acc, until) == acc.sum + IF acc.in THEN until - acc.start ELSE 0
IdleUntil(w, until) == {t \in MinutesOf(w) : t < until /\ IdleAt(t)}
CountedUntil(w, until) == {t \in IdleWithin(w) : t < until}
FreeOfTrouble(w) == \A v \in troubled : v > w

KnownOpen(w, acc, until, present, idling) ==
  acc.in => /\ w * Window <= acc.start /\ acc.start < until
            /\ \A t \in acc.start..(until - 1) : IdleAt(t)
            /\ present => idling
KnownClean(w, acc, until, present, idling) ==
  /\ Noted(acc, until) = Cardinality(CountedUntil(w, until))
  /\ acc.in <=> until - 1 \in IdleWithin(w)
  /\ present => (idling <=> until > 0 /\ IdleAt(until - 1))
Known(w, acc, until, present, idling, clean) ==
  /\ KnownOpen(w, acc, until, present, idling)
  /\ Noted(acc, until) <= Cardinality(IdleUntil(w, until))
  /\ clean => KnownClean(w, acc, until, present, idling)

LEMMA IdleIsKnownAs ==
  ASSUME NEW w
  PROVE  IdleIsKnown(w) <=>
           Known(w, idlePass(w, EventsOf(w)), SeenByIdle(w), w = WindowAt(now), inIdle, FreeOfTrouble(w))
BY DEF IdleIsKnown, Known, KnownOpen, KnownClean, Noted, IdleUntil, CountedUntil, FreeOfTrouble

LEMMA IdleIsKnownNext ==
  ASSUME NEW w, NEW acc, NEW until, NEW present, NEW idling, NEW clean,
         acc = idlePass(w, EventsOf(w))', until = SeenByIdle(w)', present <=> w = WindowAt(now'),
         idling = inIdle', clean <=> \A v \in troubled' : v > w,
         Known(w, acc, until, present, idling, clean)'
  PROVE  IdleIsKnown(w)'
<1>1. (WindowAt(now))' = WindowAt(now')
  BY DEF WindowAt
<1>2. FreeOfTrouble(w)' <=> clean
  BY DEF FreeOfTrouble
<1>3. QED
  BY <1>1, <1>2 DEF IdleIsKnown, Known, KnownOpen, KnownClean, Noted, IdleUntil, CountedUntil, FreeOfTrouble

(* What is known of past minutes stays known. *)
LEMMA KnownKept ==
  ASSUME DayType, day' = day \/ \E x \in Shown : day' = Append(day, x),
         NEW w \in Nat, NEW acc \in Idling, NEW until \in Nat, until <= now + 1,
         NEW present, NEW idling, NEW clean,
         NEW present2, NEW idling2, NEW clean2,
         Known(w, acc, until, present, idling, clean),
         present2 => present /\ (idling2 <=> idling), clean2 => clean
  PROVE  Known(w, acc, until, present2, idling2, clean2)'
<1>0. now \in Nat /\ w * Window \in Nat
  BY PresentTyped, WindowLimits
<1>1. /\ \A t \in 0..now : IdleAt(t)' <=> IdleAt(t)
      /\ IdleUntil(w, until)' = IdleUntil(w, until)
      /\ \A t \in 0..now : t \in IdleWithin(w)' <=> t \in IdleWithin(w)
      /\ CountedUntil(w, until)' = CountedUntil(w, until)
  BY PastIsFixed DEF IdleUntil, CountedUntil
<1>2. KnownOpen(w, acc, until, present2, idling2)'
  <2> SUFFICES ASSUME acc.in
               PROVE  (/\ w * Window <= acc.start /\ acc.start < until
                       /\ \A t \in acc.start..(until - 1) : IdleAt(t)
                       /\ present2 => idling2)'
    BY DEF KnownOpen
  <2>1. /\ w * Window <= acc.start /\ acc.start < until
        /\ \A t \in acc.start..(until - 1) : IdleAt(t)
        /\ present => idling
    BY DEF Known, KnownOpen
  <2>2. acc.start \in Int
    BY DEF Idling
  <2>3. \A t \in acc.start..(until - 1) : t \in 0..now
    BY <1>0, <2>1, <2>2
  <2>4. QED
    BY <1>1, <2>1, <2>3
<1>3. (Noted(acc, until) <= Cardinality(IdleUntil(w, until)))'
  <2>1. Noted(acc, until)' = Noted(acc, until)
    BY DEF Noted
  <2>2. QED
    BY <1>1, <2>1 DEF Known
<1>4. ASSUME clean2 PROVE KnownClean(w, acc, until, present2, idling2)'
  <2>1. KnownClean(w, acc, until, present, idling)
    BY <1>4 DEF Known
  <2>2. until - 1 \in IdleWithin(w)' <=> until - 1 \in IdleWithin(w)
    <3>1. CASE until = 0
      <4>1. until - 1 \notin IdleWithin(w)
        <5>1. until - 1 \notin 0..now
          BY <1>0, <3>1
        <5>2. QED
          BY <5>1, MinutesOfWindow DEF IdleWithin
      <4>2. until - 1 \notin IdleWithin(w)'
        <5>1. until - 1 \notin w * Window..(w + 1) * Window - 1
          BY <1>0, <3>1
        <5>2. \A t \in IdleWithin(w)' : t \in w * Window..(w + 1) * Window - 1
          BY DEF IdleWithin, MinutesOf
        <5>3. QED
          BY <5>1, <5>2
      <4>3. QED
        BY <4>1, <4>2
    <3>2. CASE until # 0
      <4>1. until - 1 \in 0..now
        BY <1>0, <3>2
      <4>2. QED
        BY <1>1, <4>1
    <3>3. QED
      BY <3>1, <3>2
  <2>3. (until > 0 /\ IdleAt(until - 1))' <=> until > 0 /\ IdleAt(until - 1)
    <3>1. until > 0 => until - 1 \in 0..now
      BY <1>0
    <3>2. QED
      BY <1>1, <3>1
  <2>4. QED
    BY <1>1, <2>1, <2>2, <2>3 DEF KnownClean, Noted
<1>5. QED
  BY <1>2, <1>3, <1>4 DEF Known

(* One minute more. *)
LEMMA MinuteCounted ==
  ASSUME DayType, NEW w \in Nat, w = WindowAt(now)
  PROVE  /\ Cardinality(IdleUntil(w, now)) \in Nat /\ Cardinality(CountedUntil(w, now)) \in Nat
         /\ Cardinality(IdleUntil(w, now + 1)) = Cardinality(IdleUntil(w, now)) + IF IdleAt(now) THEN 1 ELSE 0
         /\ Cardinality(CountedUntil(w, now + 1)) =
              Cardinality(CountedUntil(w, now)) + IF now \in IdleWithin(w) THEN 1 ELSE 0
         /\ now \in IdleWithin(w) <=>
              IdleAt(now) /\ (now = 0 \/ ~IdleAt(now - 1) \/ now - 1 \in IdleWithin(w))
<1>0. now \in Nat
  BY PresentTyped
<1>1. \A t \in MinutesOf(w) : t \in 0..now
  BY MinutesOfWindow
<1>2. now \in MinutesOf(w)
  <2>1. now \in 0..now
    BY <1>0
  <2>2. QED
    BY <2>1, MinutesOfWindow
<1>3. \A t \in 0..now : t < now + 1 <=> t < now \/ t = now
  BY <1>0
<1>4. \A t \in IdleWithin(w) : t \in MinutesOf(w)
  BY DEF IdleWithin
<1>5. ~(now < now)
  BY <1>0
<1>6. PICK I : I = IdleUntil(w, now)
  OBVIOUS
<1>7. PICK C : C = CountedUntil(w, now)
  OBVIOUS
<1>8. now \notin I /\ now \notin C
  BY <1>5, <1>6, <1>7 DEF IdleUntil, CountedUntil
<1>9. IsFiniteSet(I) /\ IsFiniteSet(C) /\ Cardinality(I) \in Nat /\ Cardinality(C) \in Nat
  <2>1. I \subseteq 0..now /\ C \subseteq 0..now
    BY <1>1, <1>4, <1>6, <1>7 DEF IdleUntil, CountedUntil
  <2>2. QED
    BY <2>1, MinutesAreFinite, FS_CardinalityType
<1>10. PICK n \in Nat : n = now
  BY <1>0
<1>11. Cardinality(I \cup {n}) = Cardinality(I) + 1 /\ Cardinality(C \cup {n}) = Cardinality(C) + 1
  BY <1>8, <1>9, <1>10, FS_AddElement
<1>12. IdleUntil(w, now + 1) = IF IdleAt(now) THEN I \cup {n} ELSE I
  BY <1>1, <1>2, <1>3, <1>6, <1>10 DEF IdleUntil
<1>13. CountedUntil(w, now + 1) = IF now \in IdleWithin(w) THEN C \cup {n} ELSE C
  BY <1>1, <1>3, <1>4, <1>7, <1>10 DEF CountedUntil
<1>14. PICK i \in Nat : i = Cardinality(I)
  BY <1>9
<1>15. PICK c \in Nat : c = Cardinality(C)
  BY <1>9
<1>16. /\ Cardinality(IdleUntil(w, now + 1)) = i + IF IdleAt(now) THEN 1 ELSE 0
       /\ Cardinality(CountedUntil(w, now + 1)) = c + IF now \in IdleWithin(w) THEN 1 ELSE 0
  BY <1>11, <1>12, <1>13, <1>14, <1>15
<1>17. now \in IdleWithin(w) <=>
          IdleAt(now) /\ (now = 0 \/ ~IdleAt(now - 1) \/ now - 1 \in IdleWithin(w))
  BY <1>2, IdleWithinGrows
<1>18. QED
  BY <1>6, <1>7, <1>9, <1>14, <1>15, <1>16, <1>17

(* The idle poller begins a period, ends one, or leaves things as they are. *)
PeriodBegins(acc, acc2, idling, idling2) ==
  /\ ~idling /\ Sample.idle >= Threshold /\ idling2
  /\ ~acc.in => acc2 = [in |-> TRUE, start |-> now, sum |-> acc.sum]
PeriodEnds(acc, acc2, idling, idling2) ==
  /\ idling /\ Sample.idle = 0 /\ ~idling2
  /\ acc2 = IF acc.in THEN [in |-> FALSE, start |-> acc.start, sum |-> acc.sum + now - acc.start] ELSE acc
PeriodGoesOn(acc, acc2, idling, idling2) ==
  /\ IF idling THEN Sample.idle > 0 ELSE Sample.idle < Threshold
  /\ acc2 = acc /\ idling2 = idling

LEMMA PeriodBegun ==
  ASSUME DayType, NEW w \in Nat, w = WindowAt(now), NEW acc \in Idling, NEW acc2,
         NEW idling \in BOOLEAN, NEW idling2 \in BOOLEAN, NEW clean,
         Known(w, acc, now, TRUE, idling, clean), PeriodBegins(acc, acc2, idling, idling2)
  PROVE  Known(w, acc2, now + 1, TRUE, idling2, clean)
<1>0. now \in Nat /\ acc.sum \in Int /\ w * Window <= now /\ Sample = day[now + 1]
  BY PresentTyped, MinutesInWindows DEF Idling
<1>1. ~idling /\ idling2 /\ IdleAt(now)
  BY <1>0 DEF PeriodBegins, IdleAt
<1>2. ~acc.in
  BY <1>1 DEF Known, KnownOpen
<1>3. acc2 = [in |-> TRUE, start |-> now, sum |-> acc.sum]
  BY <1>2 DEF PeriodBegins
<1>4. Noted(acc, now) = acc.sum /\ Noted(acc2, now + 1) = acc.sum + 1
  <2>1. Noted(acc, now) = acc.sum + 0
    BY <1>2 DEF Noted
  <2>2. Noted(acc2, now + 1) = acc.sum + ((now + 1) - now)
    BY <1>3 DEF Noted
  <2>3. (now + 1) - now = 1
    BY <1>0
  <2>4. QED
    BY <1>0, <2>1, <2>2, <2>3
<1>5. PICK i \in Nat : i = Cardinality(IdleUntil(w, now))
  BY MinuteCounted
<1>6. PICK c \in Nat : c = Cardinality(CountedUntil(w, now))
  BY MinuteCounted
<1>7. acc.sum <= i
  BY <1>4, <1>5 DEF Known
<1>8. Noted(acc2, now + 1) <= Cardinality(IdleUntil(w, now + 1))
  <2>1. Cardinality(IdleUntil(w, now + 1)) = i + 1
    BY <1>1, <1>5, MinuteCounted
  <2>2. QED
    BY <1>0, <1>4, <1>7, <2>1
<1>9. KnownOpen(w, acc2, now + 1, TRUE, idling2)
  <2>1. acc2.start = now /\ now < now + 1
    BY <1>0, <1>3
  <2>2. \A t \in now..((now + 1) - 1) : t = now
    BY <1>0
  <2>3. QED
    BY <1>0, <1>1, <2>1, <2>2 DEF KnownOpen
<1>10. ASSUME clean PROVE KnownClean(w, acc2, now + 1, TRUE, idling2)
  <2>1. /\ acc.sum = c /\ now - 1 \notin IdleWithin(w)
        /\ ~(now > 0 /\ IdleAt(now - 1))
    BY <1>1, <1>2, <1>4, <1>6, <1>10 DEF Known, KnownClean
  <2>2. now \in IdleWithin(w)
    BY <1>0, <1>1, <2>1, MinuteCounted
  <2>3. Cardinality(CountedUntil(w, now + 1)) = c + 1
    BY <1>6, <2>2, MinuteCounted
  <2>4. Noted(acc2, now + 1) = Cardinality(CountedUntil(w, now + 1))
    BY <1>4, <2>1, <2>3
  <2>5. (now + 1) - 1 = now /\ now + 1 > 0
    BY <1>0
  <2>6. acc2.in
    BY <1>3
  <2>7. QED
    BY <1>1, <2>2, <2>4, <2>5, <2>6 DEF KnownClean
<1>11. QED
  BY <1>8, <1>9, <1>10 DEF Known

LEMMA PeriodEnded ==
  ASSUME DayType, NEW w \in Nat, w = WindowAt(now), NEW acc \in Idling, NEW acc2,
         NEW idling \in BOOLEAN, NEW idling2 \in BOOLEAN, NEW clean,
         Known(w, acc, now, TRUE, idling, clean), PeriodEnds(acc, acc2, idling, idling2)
  PROVE  Known(w, acc2, now + 1, TRUE, idling2, clean)
<1>0. now \in Nat /\ acc.sum \in Int /\ acc.start \in Int /\ Sample = day[now + 1]
  BY PresentTyped DEF Idling
<1>1. ~idling2 /\ ~IdleAt(now)
  <2>1. ~idling2 /\ Sample.idle = 0
    BY DEF PeriodEnds
  <2>2. ~(0 >= Threshold)
    BY DayAssumption
  <2>3. QED
    BY <1>0, <2>1, <2>2 DEF IdleAt
<1>2. ~acc2.in /\ Noted(acc2, now + 1) = Noted(acc, now)
  <2>1. CASE acc.in
    <3>1. acc2 = [in |-> FALSE, start |-> acc.start, sum |-> acc.sum + now - acc.start]
      BY <2>1 DEF PeriodEnds
    <3>2. ~acc2.in /\ acc2.sum = acc.sum + now - acc.start
      BY <3>1
    <3>3. Noted(acc2, now + 1) = acc2.sum + 0 /\ Noted(acc, now) = acc.sum + (now - acc.start)
      BY <2>1, <3>2 DEF Noted
    <3>4. QED
      BY <1>0, <3>2, <3>3
  <2>2. CASE ~acc.in
    <3>1. acc2 = acc
      BY <2>2 DEF PeriodEnds
    <3>2. QED
      BY <2>2, <3>1 DEF Noted
  <2>3. QED
    BY <2>1, <2>2
<1>3. PICK i \in Nat : i = Cardinality(IdleUntil(w, now))
  BY MinuteCounted
<1>4. PICK c \in Nat : c = Cardinality(CountedUntil(w, now))
  BY MinuteCounted
<1>5. now \notin IdleWithin(w)
  BY <1>1, MinuteCounted
<1>6. Cardinality(IdleUntil(w, now + 1)) = i /\ Cardinality(CountedUntil(w, now + 1)) = c
  <2>1. /\ Cardinality(IdleUntil(w, now + 1)) = i + 0
        /\ Cardinality(CountedUntil(w, now + 1)) = c + 0
    BY <1>1, <1>3, <1>4, <1>5, MinuteCounted
  <2>2. QED
    BY <2>1
<1>7. KnownOpen(w, acc2, now + 1, TRUE, idling2)
  BY <1>2 DEF KnownOpen
<1>8. Noted(acc2, now + 1) <= Cardinality(IdleUntil(w, now + 1))
  BY <1>2, <1>3, <1>6 DEF Known
<1>9. ASSUME clean PROVE KnownClean(w, acc2, now + 1, TRUE, idling2)
  <2>1. Noted(acc, now) = c
    BY <1>4, <1>9 DEF Known, KnownClean
  <2>2. (now + 1) - 1 = now
    BY <1>0
  <2>3. QED
    BY <1>1, <1>2, <1>5, <1>6, <2>1, <2>2 DEF KnownClean
<1>10. QED
  BY <1>7, <1>8, <1>9 DEF Known

LEMMA PeriodGone ==
  ASSUME DayType, TimesInOrder, NEW w \in Nat, w = WindowAt(now), NEW acc \in Idling, NEW acc2,
         NEW idling \in BOOLEAN, NEW idling2 \in BOOLEAN, NEW clean,
         Known(w, acc, now, TRUE, idling, clean), PeriodGoesOn(acc, acc2, idling, idling2)
  PROVE  Known(w, acc2, now + 1, TRUE, idling2, clean)
<1>0. /\ now \in Nat /\ acc.sum \in Int /\ acc.start \in Int /\ w * Window \in Nat
      /\ Sample = day[now + 1] /\ Sample.idle \in Nat
  <2>1. now \in Nat /\ Sample = day[now + 1]
    BY PresentTyped
  <2>2. now \in 0..now
    BY <2>1
  <2>3. Sample.idle \in Nat
    BY <2>1, <2>2, IdleAtTyped
  <2>4. QED
    BY <2>1, <2>3, WindowLimits DEF Idling
<1>1. acc2 = acc /\ idling2 = idling
  BY DEF PeriodGoesOn
<1>2. IdleAt(now) <=> Sample.idle >= Threshold
  BY <1>0 DEF IdleAt
<1>3. now > 0 /\ IdleAt(now - 1) /\ Sample.idle > 0 => IdleAt(now)
  <2> SUFFICES ASSUME now > 0, IdleAt(now - 1), Sample.idle > 0 PROVE IdleAt(now)
    OBVIOUS
  <2>1. now \in 1..now /\ now - 1 \in 0..now /\ (now - 1) + 1 = now
    BY <1>0
  <2>2. day[now].idle >= Threshold
    BY <2>1 DEF IdleAt
  <2>3. day[now].idle \in Nat
    BY <2>1, IdleAtTyped
  <2>4. Sample.idle \in {0, day[now].idle + 1}
    BY <1>0, <2>1 DEF TimesInOrder
  <2>5. PICK x \in Nat : x = day[now].idle
    BY <2>3
  <2>6. PICK y \in Nat : y = Sample.idle
    BY <1>0
  <2>7. y >= Threshold
    <3>1. y \in {0, x + 1} /\ x >= Threshold /\ y > 0
      BY <2>2, <2>4, <2>5, <2>6
    <3>2. y = x + 1
      BY <3>1
    <3>3. QED
      BY <3>1, <3>2, DayAssumption
  <2>8. QED
    BY <1>2, <2>6, <2>7
<1>4. PICK i \in Nat : i = Cardinality(IdleUntil(w, now))
  BY MinuteCounted
<1>5. PICK c \in Nat : c = Cardinality(CountedUntil(w, now))
  BY MinuteCounted
<1>6. /\ Cardinality(IdleUntil(w, now + 1)) = i + IF IdleAt(now) THEN 1 ELSE 0
      /\ Cardinality(CountedUntil(w, now + 1)) = c + IF now \in IdleWithin(w) THEN 1 ELSE 0
      /\ now \in IdleWithin(w) <=> IdleAt(now) /\ (now = 0 \/ ~IdleAt(now - 1) \/ now - 1 \in IdleWithin(w))
  BY <1>4, <1>5, MinuteCounted
<1>7. /\ Noted(acc, now) <= i
      /\ clean => /\ Noted(acc, now) = c /\ (acc.in <=> now - 1 \in IdleWithin(w))
                  /\ idling <=> now > 0 /\ IdleAt(now - 1)
  BY <1>4, <1>5 DEF Known, KnownClean
<1>8. (now + 1) - 1 = now /\ now + 1 > 0
  BY <1>0
<1>9. CASE acc.in
  <2>1. /\ w * Window <= acc.start /\ acc.start < now /\ idling
        /\ \A t \in acc.start..(now - 1) : IdleAt(t)
    BY <1>9 DEF Known, KnownOpen
  <2>2. now > 0 /\ now - 1 \in acc.start..(now - 1)
    BY <1>0, <2>1
  <2>3. IdleAt(now - 1) /\ Sample.idle > 0
    BY <2>1, <2>2 DEF PeriodGoesOn
  <2>4. IdleAt(now)
    BY <1>3, <2>2, <2>3
  <2>5. Noted(acc, now) = acc.sum + (now - acc.start) /\ Noted(acc, now + 1) = acc.sum + ((now + 1) - acc.start)
    BY <1>9 DEF Noted
  <2>6. Noted(acc, now + 1) = Noted(acc, now) + 1 /\ Noted(acc, now) \in Int
    BY <1>0, <2>5
  <2>7. Noted(acc, now + 1) <= Cardinality(IdleUntil(w, now + 1))
    BY <1>6, <1>7, <2>4, <2>6
  <2>8. KnownOpen(w, acc, now + 1, TRUE, idling)
    <3>1. acc.start < now + 1
      BY <1>0, <2>1
    <3>2. \A t \in acc.start..((now + 1) - 1) : t = now \/ t \in acc.start..(now - 1)
      BY <1>0, <2>1
    <3>3. QED
      BY <2>1, <2>4, <3>1, <3>2 DEF KnownOpen
  <2>9. ASSUME clean PROVE KnownClean(w, acc, now + 1, TRUE, idling)
    <3>1. now \in IdleWithin(w)
      BY <1>6, <1>7, <1>9, <2>4, <2>9
    <3>2. Noted(acc, now + 1) = Cardinality(CountedUntil(w, now + 1))
      BY <1>6, <1>7, <2>6, <2>9, <3>1
    <3>3. QED
      BY <1>8, <1>9, <2>1, <2>4, <3>1, <3>2 DEF KnownClean
  <2>10. QED
    BY <1>1, <2>7, <2>8, <2>9 DEF Known
<1>10. CASE ~acc.in
  <2>1. Noted(acc, now + 1) = Noted(acc, now) /\ Noted(acc, now) \in Int
    <3>1. Noted(acc, now + 1) = acc.sum + 0 /\ Noted(acc, now) = acc.sum + 0
      BY <1>10 DEF Noted
    <3>2. QED
      BY <1>0, <3>1
  <2>2. Noted(acc, now + 1) <= Cardinality(IdleUntil(w, now + 1))
    BY <1>6, <1>7, <2>1
  <2>3. KnownOpen(w, acc, now + 1, TRUE, idling)
    BY <1>10 DEF KnownOpen
  <2>4. ASSUME clean PROVE KnownClean(w, acc, now + 1, TRUE, idling)
    <3>1. now - 1 \notin IdleWithin(w) /\ (idling <=> now > 0 /\ IdleAt(now - 1)) /\ Noted(acc, now) = c
      BY <1>7, <1>10, <2>4
    <3>2. now \notin IdleWithin(w) /\ (idling <=> IdleAt(now))
      <4>1. CASE idling
        <5>1. Sample.idle > 0 /\ now > 0 /\ IdleAt(now - 1)
          BY <3>1, <4>1 DEF PeriodGoesOn
        <5>2. now # 0
          BY <1>0, <5>1
        <5>3. QED
          BY <1>3, <1>6, <3>1, <4>1, <5>1, <5>2
      <4>2. CASE ~idling
        <5>1. Sample.idle < Threshold
          BY <4>2 DEF PeriodGoesOn
        <5>2. ~IdleAt(now)
          <6>1. PICK y \in Nat : y = Sample.idle
            BY <1>0
          <6>2. ~(y >= Threshold)
            BY <5>1, <6>1, DayAssumption
          <6>3. QED
            BY <1>2, <6>1, <6>2
        <5>3. QED
          BY <1>6, <4>2, <5>2
      <4>3. QED
        BY <4>1, <4>2
    <3>3. Noted(acc, now + 1) = Cardinality(CountedUntil(w, now + 1))
      BY <1>6, <2>1, <3>1, <3>2
    <3>4. QED
      BY <1>8, <1>10, <3>2, <3>3 DEF KnownClean
  <2>5. QED
    BY <1>1, <2>2, <2>3, <2>4 DEF Known
<1>11. QED
  BY <1>9, <1>10

IdleKnown == \A w \in 0..WindowAt(now) : w \notin troubled => IdleIsKnown(w)
IdleToCome == due \in {Pollers, <<"idle", "terminal">>}

LEMMA IdleIsKnownNow ==
  ASSUME NEW w, NEW acc, NEW until, NEW present, NEW idling, NEW clean,
         acc = idlePass(w, EventsOf(w)), until = SeenByIdle(w), present <=> w = WindowAt(now),
         idling <=> inIdle, clean <=> \A v \in troubled : v > w,
         IdleIsKnown(w)
  PROVE  Known(w, acc, until, present, idling, clean)
BY DEF IdleIsKnown, Known, KnownOpen, KnownClean, Noted, IdleUntil, CountedUntil, FreeOfTrouble

LEMMA SeenByIdleTyped ==
  ASSUME DayType, NEW w \in 0..WindowAt(now)
  PROVE  /\ w \in Nat /\ SeenByIdle(w) \in Nat /\ SeenByIdle(w) <= now + 1
         /\ w < WindowAt(now) => SeenByIdle(w) = (w + 1) * Window /\ w # WindowAt(now)
         /\ w = WindowAt(now) => SeenByIdle(w) = IF IdleToCome THEN now ELSE now + 1
<1>0. now \in Nat /\ WindowAt(now) \in Nat
  BY PresentTyped
<1>1. w \in Nat
  BY <1>0
<1>2. PICK high \in Nat : high = (w + 1) * Window
  BY <1>1, WindowLimits
<1>3. w < WindowAt(now) => high <= now
  BY <1>0, <1>1, <1>2, PresentTyped
<1>4. w < WindowAt(now) => SeenByIdle(w) = high /\ w # WindowAt(now)
  BY <1>0, <1>1, <1>2 DEF SeenByIdle
<1>5. ~(w < WindowAt(now)) => SeenByIdle(w) = IF IdleToCome THEN now ELSE now + 1
  <2>1. ~(w < WindowAt(now)) => SeenByIdle(w) = now + IF IdleToCome THEN 0 ELSE 1
    BY DEF SeenByIdle, IdleToCome
  <2>2. QED
    BY <1>0, <2>1
<1>6. w = WindowAt(now) => ~(w < WindowAt(now))
  BY <1>0
<1>7. SeenByIdle(w) \in Nat /\ SeenByIdle(w) <= now + 1
  <2>1. CASE w < WindowAt(now)
    BY <1>0, <1>3, <1>4, <2>1
  <2>2. CASE ~(w < WindowAt(now))
    <3>1. SeenByIdle(w) \in {now, now + 1}
      BY <1>5, <2>2
    <3>2. QED
      BY <1>0, <3>1
  <2>3. QED
    BY <2>1, <2>2
<1>8. QED
  BY <1>1, <1>2, <1>4, <1>5, <1>6, <1>7

(* Window w, whose events tell what they did. *)
LEMMA WindowStaysKnown ==
  ASSUME DayType, day' = day \/ \E x \in Shown : day' = Append(day, x),
         NEW w \in 0..WindowAt(now), IdleIsKnown(w), troubled \subseteq troubled',
         idlePass(w, EventsOf(w))' = idlePass(w, EventsOf(w)), SeenByIdle(w)' = SeenByIdle(w),
         w = WindowAt(now') => w = WindowAt(now) /\ inIdle' = inIdle
  PROVE  IdleIsKnown(w)'
<1>1. w \in Nat
  BY SeenByIdleTyped
<1>2. PICK acc \in Idling : acc = idlePass(w, EventsOf(w))
  BY <1>1, PassTyped
<1>3. PICK until \in Nat : until = SeenByIdle(w) /\ until <= now + 1
  BY SeenByIdleTyped
<1>4. PICK present \in BOOLEAN : present <=> w = WindowAt(now)
  OBVIOUS
<1>5. PICK present2 \in BOOLEAN : present2 <=> w = WindowAt(now')
  OBVIOUS
<1>6. PICK clean \in BOOLEAN : clean <=> \A v \in troubled : v > w
  OBVIOUS
<1>7. PICK clean2 \in BOOLEAN : clean2 <=> \A v \in troubled' : v > w
  OBVIOUS
<1>8. PICK idling \in BOOLEAN : idling = inIdle
  BY DEF DayType
<1>9. PICK idling2 : idling2 = inIdle'
  OBVIOUS
<1>10. Known(w, acc, until, present, idling, clean)
  BY <1>2, <1>3, <1>4, <1>6, <1>8, IdleIsKnownNow
<1>11. present2 => present /\ (idling2 <=> idling)
  BY <1>4, <1>5, <1>8, <1>9
<1>12. clean2 => clean
  BY <1>6, <1>7
<1>13. Known(w, acc, until, present2, idling2, clean2)'
  BY <1>1, <1>3, <1>10, <1>11, <1>12, KnownKept
<1>14. acc = idlePass(w, EventsOf(w))' /\ until = SeenByIdle(w)'
  BY <1>2, <1>3
<1>15. QED
  BY <1>5, <1>7, <1>9, <1>13, <1>14, IdleIsKnownNext

(* Steps of others than the idle poller. *)
LEMMA OthersKnow ==
  ASSUME DayType, IdleKnown, UNCHANGED <<day, inIdle>>, troubled \subseteq troubled',
         IdleToCome' <=> IdleToCome,
         \/ events' = events
         \/ \E e \in RawEvent :
              events' = Append(events, e) /\ e.type \notin {"idle_detected", "idle_ended"}
  PROVE  IdleKnown'
<1>1. now' = now /\ WindowAt(now)' = WindowAt(now)
  BY DEF now, WindowAt
<1>2. ASSUME NEW w \in 0..WindowAt(now), w \notin troubled'
      PROVE  IdleIsKnown(w)'
  <2>1. IdleIsKnown(w) /\ w \in Nat
    BY <1>2, SeenByIdleTyped DEF IdleKnown
  <2>2. SeenByIdle(w)' = SeenByIdle(w)
    BY <1>1 DEF SeenByIdle, IdleToCome
  <2>3. idlePass(w, EventsOf(w))' = idlePass(w, EventsOf(w))
    <3>1. CASE events' = events
      BY <3>1 DEF idlePass, Picked, EventsOf
    <3>2. CASE \E e \in RawEvent :
              events' = Append(events, e) /\ e.type \notin {"idle_detected", "idle_ended"}
      <4>1. PICK e \in RawEvent :
              events' = Append(events, e) /\ e.type \notin {"idle_detected", "idle_ended"}
        BY <3>2
      <4>2. PICK acc \in Idling : acc = idlePass(w, EventsOf(w))
        BY <2>1, PassTyped
      <4>3. idleStep(acc, e) = acc
        BY <4>1, IdleStepTyped DEF EventKinds
      <4>4. QED
        BY <2>1, <4>1, <4>2, <4>3, PassAfterEvent
    <3>3. QED
      BY <3>1, <3>2
  <2>4. w = WindowAt(now') => w = WindowAt(now) /\ inIdle' = inIdle
    BY <1>1
  <2>5. QED
    BY <2>1, <2>2, <2>3, <2>4, WindowStaysKnown
<1>3. QED
  BY <1>1, <1>2 DEF IdleKnown

(* Steps that lose what the idle poller knew of the present window. *)
LEMMA TroubledKnow ==
  ASSUME DayType, IdleKnown, UNCHANGED <<day, events>>, troubled' = troubled \cup {WindowAt(now)}
  PROVE  IdleKnown'
<1>1. now' = now /\ WindowAt(now)' = WindowAt(now) /\ WindowAt(now) \in Nat /\ WindowAt(now') = WindowAt(now)
  BY PresentTyped DEF now, WindowAt
<1>2. ASSUME NEW w \in 0..WindowAt(now), w \notin troubled'
      PROVE  IdleIsKnown(w)'
  <2>1. IdleIsKnown(w) /\ w \in Nat /\ w # WindowAt(now)
    BY <1>2, SeenByIdleTyped DEF IdleKnown
  <2>2. w < WindowAt(now)
    BY <1>1, <2>1
  <2>3. SeenByIdle(w)' = SeenByIdle(w)
    BY <1>1, <2>2 DEF SeenByIdle
  <2>4. idlePass(w, EventsOf(w))' = idlePass(w, EventsOf(w))
    BY DEF idlePass, Picked, EventsOf
  <2>5. QED
    BY <1>1, <2>1, <2>3, <2>4, WindowStaysKnown
<1>3. QED
  BY <1>1, <1>2 DEF IdleKnown

LEMMA MinuteKnown ==
  ASSUME DayType, TimesInOrder, IdleKnown, Minute, due = <<>>
  PROVE  IdleKnown'
<1>0. now \in Nat /\ WindowAt(now) \in Nat
  BY PresentTyped
<1>1. UNCHANGED <<inIdle, events, troubled>> /\ due' = Pollers
  BY MinuteShows
<1>1a. now' = now + 1 /\ WindowAt(now)' = WindowAt(now') /\ WindowAt(now) <= WindowAt(now') /\ DayType'
  BY MinuteTyped DEF WindowAt
<1>2. \E x \in Shown : day' = Append(day, x)
  BY MinuteShows
<1>3. PICK m \in Nat : m = now'
  BY <1>0, <1>1a
<1>4. PICK p \in Nat : p = WindowAt(now')
  BY <1>3, MinutesInWindows
<1>5. p * Window <= m /\ m < (p + 1) * Window /\ p * Window \in Nat
  BY <1>3, <1>4, MinutesInWindows, WindowLimits
<1>6. ~IdleToCome /\ IdleToCome'
  BY <1>1, DueDiffer DEF IdleToCome
<1>7. ASSUME NEW w \in 0..WindowAt(now), w \notin troubled
      PROVE  IdleIsKnown(w)'
  <2>1. IdleIsKnown(w) /\ w \in Nat
    BY <1>7, SeenByIdleTyped DEF IdleKnown
  <2>2. SeenByIdle(w)' = SeenByIdle(w)
    <3>1. PICK high \in Nat : high = (w + 1) * Window
      BY <2>1, WindowLimits
    <3>2. w <= p
      BY <1>0, <1>1a, <1>4, <2>1
    <3>3. w < p => high <= m
      <4>1. w < p => high <= p * Window
        BY <2>1, <3>1, WindowLimits
      <4>2. QED
        BY <1>5, <4>1
    <3>4. SeenByIdle(w)' = IF w < p THEN high ELSE now' + 0
      BY <1>1a, <1>4, <1>6, <3>1 DEF SeenByIdle, IdleToCome
    <3>5. CASE w < WindowAt(now)
      <4>1. SeenByIdle(w) = high /\ w < p
        BY <1>0, <1>1a, <1>4, <2>1, <3>1, <3>5, SeenByIdleTyped
      <4>2. QED
        BY <3>4, <4>1
    <3>6. CASE w = WindowAt(now)
      <4>1. SeenByIdle(w) = now + 1
        BY <1>6, <3>6, SeenByIdleTyped
      <4>2. now < high
        BY <1>0, <2>1, <3>1, <3>6, MinutesInWindows
      <4>3. w < p => high = now + 1
        BY <1>0, <1>1a, <1>3, <3>3, <4>2
      <4>4. now' + 0 = now + 1
        BY <1>0, <1>1a
      <4>5. QED
        BY <3>4, <4>1, <4>3, <4>4
    <3>7. QED
      BY <1>0, <2>1, <3>5, <3>6
  <2>3. idlePass(w, EventsOf(w))' = idlePass(w, EventsOf(w))
    BY <1>1 DEF idlePass, Picked, EventsOf
  <2>4. w = WindowAt(now') => w = WindowAt(now) /\ inIdle' = inIdle
    BY <1>0, <1>1, <1>1a, <2>1
  <2>5. QED
    BY <1>1, <1>2, <2>1, <2>2, <2>3, <2>4, WindowStaysKnown
<1>8. ASSUME p > WindowAt(now), p \notin troubled
      PROVE  IdleIsKnown(p)'
  <2>1. p * Window = m
    <3>1. PICK v \in Nat : v = WindowAt(now)
      BY <1>0
    <3>2. now < (v + 1) * Window /\ (v + 1) * Window <= p * Window /\ (v + 1) * Window \in Nat
      BY <1>0, <1>8, <3>1, MinutesInWindows, WindowLimits
    <3>3. QED
      BY <1>0, <1>1a, <1>3, <1>5, <3>2
  <2>2. EventsOf(p)' = {}
    <3>1. ASSUME NEW i \in DOMAIN events PROVE WindowAt(events[i].at) # p
      <4>1. PICK a \in Nat : a = events[i].at /\ a <= now
        BY MaskedTyped DEF TimesInOrder
      <4>2. WindowAt(a) <= WindowAt(now) /\ WindowAt(a) \in Nat
        BY <1>0, <4>1, WindowsFollow, MinutesInWindows
      <4>3. QED
        BY <1>0, <1>8, <4>1, <4>2
    <3>2. QED
      BY <1>1, <3>1 DEF EventsOf, WindowAt
  <2>3. PICK acc \in Idling : acc = NotIdle(p)
    BY IdleFolding DEF Folding
  <2>4. acc = idlePass(p, EventsOf(p))'
    <3>1. idlePass(p, {}) = NotIdle(p)
      BY PassTyped
    <3>2. idlePass(p, {})' = idlePass(p, {})
      BY <1>1 DEF idlePass, Picked
    <3>3. QED
      BY <2>2, <2>3, <3>1, <3>2
  <2>5. SeenByIdle(p)' = m
    <3>1. ~(p < p)
      OBVIOUS
    <3>2. SeenByIdle(p)' = now' + 0
      BY <1>1a, <1>4, <1>6, <3>1 DEF SeenByIdle, IdleToCome
    <3>3. m + 0 = m
      OBVIOUS
    <3>4. QED
      BY <1>3, <3>2, <3>3
  <2>6. ~acc.in /\ acc.sum = 0 /\ Noted(acc, m) = 0
    BY <2>3 DEF NotIdle, Noted
  <2>7. \A t \in MinutesOf(p)' : ~(t < m) /\ t # m - 1
    <3>1. \A t \in MinutesOf(p)' : t \in p * Window..(p + 1) * Window - 1
      BY DEF MinutesOf
    <3>2. \A t \in p * Window..(p + 1) * Window - 1 : ~(t < m) /\ t # m - 1
      BY <2>1
    <3>3. QED
      BY <3>1, <3>2
  <2>8. \A t \in IdleWithin(p)' : t \in MinutesOf(p)'
    BY DEF IdleWithin
  <2>9. IdleUntil(p, m)' = {} /\ CountedUntil(p, m)' = {} /\ m - 1 \notin IdleWithin(p)'
    BY <2>7, <2>8 DEF IdleUntil, CountedUntil
  <2>10. Cardinality({}) = 0
    BY FS_EmptySet
  <2>11. PICK clean \in BOOLEAN : clean <=> \A v \in troubled' : v > p
    OBVIOUS
  <2>12. PICK idling : idling = inIdle'
    OBVIOUS
  <2>13. KnownOpen(p, acc, m, TRUE, idling)'
    BY <2>6 DEF KnownOpen
  <2>14. (Noted(acc, m) <= Cardinality(IdleUntil(p, m)))'
    <3>1. Noted(acc, m)' = 0
      BY <2>6 DEF Noted
    <3>2. QED
      BY <2>9, <2>10, <3>1
  <2>15. ASSUME clean PROVE KnownClean(p, acc, m, TRUE, idling)'
    <3>1. PICK v \in Nat : v = WindowAt(now)
      BY <1>0
    <3>2. \A u \in troubled : u > v
      <4>1. troubled \subseteq Nat
        BY DEF DayType
      <4>2. ASSUME NEW u \in troubled PROVE u > v
        <5>1. u \in Nat /\ u > p
          BY <1>1, <2>11, <2>15, <4>1
        <5>2. p > v
          BY <1>8, <3>1
        <5>3. QED
          BY <5>1, <5>2
      <4>3. QED
        BY <4>2
    <3>3. v \notin troubled /\ v \in 0..WindowAt(now)
      BY <3>1, <3>2
    <3>4. IdleIsKnown(v) /\ SeenByIdle(v) = now + 1
      BY <1>6, <3>1, <3>3, SeenByIdleTyped DEF IdleKnown
    <3>5. PICK n \in Nat : n = now + 1
      BY <1>0
    <3>6. inIdle <=> n > 0 /\ IdleAt(n - 1)
      BY <3>1, <3>2, <3>4, <3>5 DEF IdleIsKnown
    <3>7. n = m /\ n - 1 = now
      BY <1>0, <1>1a, <1>3, <3>5
    <3>8. IdleAt(now)' <=> IdleAt(now)'
      OBVIOUS
    <3>9. m - 1 \in 0..now /\ m > 0
      BY <1>0, <3>5, <3>7
    <3>10. IdleAt(m - 1)' <=> IdleAt(m - 1)
      <4>1. now <= now + 1
        BY <1>0
      <4>2. QED
        BY <1>0, <1>2, <3>9, <4>1, PastIsFixed
    <3>11. idling <=> m > 0 /\ IdleAt(m - 1)'
      BY <1>1, <2>12, <3>6, <3>7, <3>10
    <3>12. Noted(acc, m)' = 0
      BY <2>6 DEF Noted
    <3>13. QED
      BY <2>6, <2>9, <2>10, <3>11, <3>12 DEF KnownClean
  <2>16. Known(p, acc, m, TRUE, idling, clean)'
    BY <2>13, <2>14, <2>15 DEF Known
  <2>17. QED
    BY <1>4, <2>4, <2>5, <2>11, <2>12, <2>16, IdleIsKnownNext
<1>9. QED
  <2>1. \A w \in 0..WindowAt(now') : w \in 0..WindowAt(now) \/ (w = p /\ p > WindowAt(now))
    <3>1. p <= WindowAt(now) + 1
      <4>1. PICK n \in Nat : n = now
        BY <1>0
      <4>2. (n + 1) \div Window <= n \div Window + 1
        BY DayAssumption
      <4>3. QED
        BY <1>1a, <1>4, <4>1, <4>2 DEF WindowAt
    <3>2. QED
      BY <1>0, <1>4, <3>1
  <2>2. QED
    BY <1>1, <1>1a, <1>7, <1>8, <2>1 DEF IdleKnown

LEMMA IdleStarts ==
  ASSUME DayType, NEW acc \in Idling, NEW type \in {"idle_detected", "idle_ended"}
  PROVE  LET e == Event(type, "", 0)
         IN  /\ e \in RawEvent /\ e.at = now
             /\ type = "idle_detected" /\ ~acc.in => idleStep(acc, e) = [in |-> TRUE, start |-> now, sum |-> acc.sum]
             /\ type = "idle_ended" => idleStep(acc, e) =
                  IF acc.in THEN [in |-> FALSE, start |-> acc.start, sum |-> acc.sum + now - acc.start] ELSE acc
<1>0. now \in Nat
  BY PresentTyped
<1>1. \A t \in {"idle_detected", "idle_ended"} :
        /\ Event(t, "", 0) \in RawEvent /\ Event(t, "", 0).at = now /\ Event(t, "", 0).type = t
  BY <1>0 DEF Event, RawEvent
<1>2. PICK e \in RawEvent : e = Event(type, "", 0) /\ e.at = now /\ e.type = type
  BY <1>1
<1>3. /\ type = "idle_detected" /\ ~acc.in => idleStep(acc, e) = [in |-> TRUE, start |-> now, sum |-> acc.sum]
      /\ type = "idle_ended" => idleStep(acc, e) =
           IF acc.in THEN [in |-> FALSE, start |-> acc.start, sum |-> acc.sum + now - acc.start] ELSE acc
  <2>1. e \in EventKinds /\ e.type = type /\ e.at = now
    BY <1>2 DEF EventKinds
  <2>2. ASSUME type = "idle_detected", ~acc.in
        PROVE  idleStep(acc, e) = [in |-> TRUE, start |-> now, sum |-> acc.sum]
    BY <2>1, <2>2, IdleStepTyped
  <2>3. ASSUME type = "idle_ended", acc.in
        PROVE  idleStep(acc, e) = [in |-> FALSE, start |-> acc.start, sum |-> acc.sum + now - acc.start]
    BY <2>1, <2>3, IdleStepTyped
  <2>4. ASSUME type = "idle_ended", ~acc.in PROVE idleStep(acc, e) = acc
    <3>1. ~(e.type = "idle_detected" /\ ~acc.in) /\ ~(e.type = "idle_ended" /\ acc.in)
      BY <2>1, <2>4
    <3>2. QED
      BY <2>1, <3>1, IdleStepTyped
  <2>5. QED
    BY <2>2, <2>3, <2>4
<1>4. QED
  BY <1>2, <1>3

LEMMA IdlePollKnown ==
  ASSUME DayType, TimesInOrder, IdleKnown, PollIdle
  PROVE  IdleKnown'
<1>0. now \in Nat /\ WindowAt(now) \in Nat /\ inIdle \in BOOLEAN
  BY PresentTyped DEF DayType
<1>1. UNCHANGED day /\ now' = now /\ WindowAt(now)' = WindowAt(now) /\ WindowAt(now') = WindowAt(now)
  BY DEF PollIdle, Polled, now, WindowAt
<1>2. IdleToCome /\ ~IdleToCome'
  BY PolledIs, DueDiffer DEF PollIdle, IdleToCome
<1>3. \/ NoSubmit /\ inIdle' = inIdle /\ IF inIdle THEN Sample.idle > 0 ELSE Sample.idle < Threshold
      \/ ~inIdle /\ Sample.idle >= Threshold /\ inIdle' /\ Submit(Event("idle_detected", "", 0))
      \/ inIdle /\ Sample.idle = 0 /\ ~inIdle' /\ Submit(Event("idle_ended", "", 0))
  BY DEF PollIdle
<1>3a. inIdle' \in BOOLEAN
  BY PollsCollect DEF Poll, Collected
<1>4. \/ events' = events /\ UNCHANGED troubled
      \/ events' = events /\ troubled' = troubled \cup {WindowAt(now)}
      \/ \E type \in {"idle_detected", "idle_ended"} :
           events' = Append(events, Event(type, "", 0)) /\ UNCHANGED troubled
  BY <1>3, SubmitCases DEF NoSubmit
<1>5. \A type \in {"idle_detected", "idle_ended"} :
         Event(type, "", 0) \in RawEvent /\ Event(type, "", 0).at = now
  <2>1. now \in Nat
    BY <1>0
  <2>2. QED
    BY <2>1 DEF Event, RawEvent
<1>6. ASSUME NEW w \in 0..WindowAt(now), w # WindowAt(now), w \notin troubled'
      PROVE  IdleIsKnown(w)'
  <2>1. troubled \subseteq troubled'
    BY <1>4
  <2>2. IdleIsKnown(w) /\ w \in Nat
    BY <1>6, <2>1, SeenByIdleTyped DEF IdleKnown
  <2>3. idlePass(w, EventsOf(w))' = idlePass(w, EventsOf(w))
    <3>1. CASE events' = events
      BY <3>1 DEF idlePass, Picked, EventsOf
    <3>2. CASE \E e \in RawEvent : events' = Append(events, e) /\ e.at = now
      BY <1>6, <2>2, <3>2, PassAfterEvent
    <3>3. QED
      BY <1>4, <1>5, <3>1, <3>2
  <2>4. SeenByIdle(w)' = SeenByIdle(w)
    <3>1. w < WindowAt(now)
      BY <1>0, <1>6
    <3>2. QED
      BY <1>1, <3>1 DEF SeenByIdle
  <2>5. w # WindowAt(now')
    BY <1>1, <1>6
  <2>6. QED
    BY <1>1, <2>1, <2>2, <2>3, <2>4, <2>5, WindowStaysKnown
<1>7. ASSUME NEW w \in Nat, w = WindowAt(now), w \notin troubled'
      PROVE  IdleIsKnown(w)'
  <2>1. UNCHANGED troubled
    BY <1>4, <1>7
  <2>2. w \in 0..WindowAt(now)
    BY <1>7
  <2>3. IdleIsKnown(w) /\ SeenByIdle(w) = now
    BY <1>2, <1>7, <2>1, <2>2, SeenByIdleTyped DEF IdleKnown
  <2>4. SeenByIdle(w)' = now + 1
    <3>1. ~(w < w)
      OBVIOUS
    <3>2. SeenByIdle(w)' = now' + 1
      BY <1>1, <1>2, <1>7, <3>1 DEF SeenByIdle, IdleToCome
    <3>3. QED
      BY <1>1, <3>2
  <2>5. PICK acc \in Idling : acc = idlePass(w, EventsOf(w))
    BY PassTyped
  <2>6. PICK acc2 : acc2 = idlePass(w, EventsOf(w))'
    OBVIOUS
  <2>7. PICK idling \in BOOLEAN : idling = inIdle
    BY <1>0
  <2>8. PICK idling2 \in BOOLEAN : idling2 = inIdle'
    BY <1>3a
  <2>9. PICK clean \in BOOLEAN : clean <=> \A v \in troubled : v > w
    OBVIOUS
  <2>10. Known(w, acc, now, TRUE, idling, clean)
    BY <1>7, <2>3, <2>5, <2>7, <2>9, IdleIsKnownNow
  <2>11. Known(w, acc2, now + 1, TRUE, idling2, clean)
    <3>1. CASE events' = events
      <4>1. acc2 = acc
        <5>1. idlePass(w, EventsOf(w))' = idlePass(w, EventsOf(w))
          BY <3>1 DEF idlePass, Picked, EventsOf
        <5>2. QED
          BY <2>5, <2>6, <5>1
      <4>2. \/ NoSubmit /\ inIdle' = inIdle /\ IF inIdle THEN Sample.idle > 0 ELSE Sample.idle < Threshold
            \/ events' # events
        <5>1. WindowAt(now) \notin troubled'
          BY <1>7
        <5>2. \A type \in {"idle_detected", "idle_ended"} :
                 Submit(Event(type, "", 0)) => events' = Append(events, Event(type, "", 0))
          BY <5>1, SubmitCases
        <5>3. \A type \in {"idle_detected", "idle_ended"} :
                 events' = Append(events, Event(type, "", 0)) => events' # events
          BY <1>5, EventsGrow
        <5>4. QED
          BY <1>3, <5>2, <5>3
      <4>3. PeriodGoesOn(acc, acc2, idling, idling2)
        BY <2>7, <2>8, <3>1, <4>1, <4>2 DEF PeriodGoesOn
      <4>4. QED
        BY <1>7, <2>10, <4>3, PeriodGone
    <3>2. CASE ~inIdle /\ Sample.idle >= Threshold /\ inIdle' /\ events' = Append(events, Event("idle_detected", "", 0))
      <4>1. acc2 = idleStep(acc, Event("idle_detected", "", 0))
        BY <1>5, <1>7, <2>5, <2>6, <3>2, PassAfterEvent
      <4>2. ~acc.in => acc2 = [in |-> TRUE, start |-> now, sum |-> acc.sum]
        BY <4>1, IdleStarts
      <4>3. PeriodBegins(acc, acc2, idling, idling2)
        BY <2>7, <2>8, <3>2, <4>2 DEF PeriodBegins
      <4>4. QED
        BY <1>7, <2>10, <4>3, PeriodBegun
    <3>3. CASE inIdle /\ Sample.idle = 0 /\ ~inIdle' /\ events' = Append(events, Event("idle_ended", "", 0))
      <4>1. acc2 = idleStep(acc, Event("idle_ended", "", 0))
        BY <1>5, <1>7, <2>5, <2>6, <3>3, PassAfterEvent
      <4>2. acc2 = IF acc.in THEN [in |-> FALSE, start |-> acc.start, sum |-> acc.sum + now - acc.start] ELSE acc
        BY <4>1, IdleStarts
      <4>3. PeriodEnds(acc, acc2, idling, idling2)
        BY <2>7, <2>8, <3>3, <4>2 DEF PeriodEnds
      <4>4. QED
        BY <1>7, <2>10, <4>3, PeriodEnded
    <3>4. QED
      <4>1. WindowAt(now) \notin troubled'
        BY <1>7
      <4>2. \A type \in {"idle_detected", "idle_ended"} :
               Submit(Event(type, "", 0)) => events' = Append(events, Event(type, "", 0))
        BY <4>1, SubmitCases
      <4>3. NoSubmit => events' = events
        BY DEF NoSubmit
      <4>4. QED
        BY <1>3, <3>1, <3>2, <3>3, <4>2, <4>3
  <2>12. PICK n \in Nat : n = now + 1
    BY <1>0
  <2>13. Known(w, acc2, n, TRUE, idling2, clean)'
    <3>1. Known(w, acc2, n, TRUE, idling2, clean)
      BY <2>11, <2>12
    <3>2. \A t : IdleAt(t)' <=> IdleAt(t)
      BY <1>1 DEF IdleAt
    <3>3. MinutesOf(w)' = MinutesOf(w) /\ IdleWithin(w)' = IdleWithin(w)
      BY <1>1, <3>2 DEF MinutesOf, IdleWithin
    <3>4. IdleUntil(w, n)' = IdleUntil(w, n) /\ CountedUntil(w, n)' = CountedUntil(w, n)
      BY <3>2, <3>3 DEF IdleUntil, CountedUntil
    <3>5. QED
      BY <3>1, <3>2, <3>3, <3>4 DEF Known, KnownOpen, KnownClean, Noted
  <2>14. clean <=> \A v \in troubled' : v > w
    BY <2>1, <2>9
  <2>15. TRUE <=> w = WindowAt(now')
    BY <1>1, <1>7
  <2>16. n = SeenByIdle(w)'
    BY <2>4, <2>12
  <2>17. QED
    BY <2>6, <2>8, <2>13, <2>14, <2>15, <2>16, IdleIsKnownNext
<1>8. QED
  BY <1>0, <1>1, <1>6, <1>7 DEF IdleKnown

LEMMA PollsKnow ==
  ASSUME DayType, TimesInOrder, IdleKnown, Poll
  PROVE  IdleKnown'
<1>0. now \in Nat /\ front.since \in 0..now /\ Sample.app \in Apps
  <2>1. now \in Nat /\ front.since \in 0..now
    BY PresentTyped DEF DayType
  <2>2. Sample.app \in Apps
    <3>1. now \in 0..now
      BY <2>1
    <3>2. QED
      BY <3>1, PresentTyped DEF Shown
  <2>3. QED
    BY <2>1, <2>2
<1>1. CASE LookupFails
  <2>1. UNCHANGED <<day, events>> /\ troubled' = troubled \cup {WindowAt(now)}
    BY <1>1 DEF LookupFails, Polled, Strike, Trouble
  <2>2. QED
    BY <2>1, TroubledKnow
<1>2. CASE PollWindow
  <2>1. UNCHANGED <<day, inIdle>> /\ (IdleToCome' <=> IdleToCome)
    BY <1>2, PolledIs DEF PollWindow, Polled, IdleToCome
  <2>2. \/ NoSubmit
        \/ Submit(Event("app_switched", Sample.app, now - front.since))
    BY <1>2 DEF PollWindow
  <2>3. PICK f \in Nat : f = now - front.since
    BY <1>0
  <2>3a. PICK a \in Apps : a = Sample.app
    BY <1>0
  <2>3b. now \in Nat
    BY <1>0
  <2>3c. /\ Event("app_switched", a, f) \in RawEvent
         /\ Event("app_switched", a, f).type = "app_switched"
    BY <2>3b DEF Event, RawEvent
  <2>4. PICK e \in RawEvent : e = Event("app_switched", Sample.app, now - front.since) /\ e.type = "app_switched"
    BY <2>3, <2>3a, <2>3c
  <2>5. /\ troubled \subseteq troubled'
        /\ events' = events \/ events' = Append(events, e)
    BY <2>2, <2>4, SubmitCases DEF NoSubmit
  <2>6. e.type \notin {"idle_detected", "idle_ended"}
    BY <2>4
  <2>7. QED
    BY <2>1, <2>5, <2>6, OthersKnow
<1>3. CASE PollTerminal
  <2>1. UNCHANGED <<day, inIdle>>
    BY <1>3 DEF PollTerminal, Polled
  <2>2. IdleToCome' <=> IdleToCome
    BY <1>3, PolledIs, DueDiffer DEF PollTerminal, IdleToCome
  <2>3. \/ NoSubmit
        \/ Submit(Event("terminal_activity", "", 0))
    BY <1>3 DEF PollTerminal
  <2>3a. now \in Nat
    BY <1>0
  <2>3b. \A type \in {"terminal_activity"} :
            Event(type, "", 0) \in RawEvent /\ Event(type, "", 0).type = type
    BY <2>3a DEF Event, RawEvent
  <2>4. PICK e \in RawEvent : e = Event("terminal_activity", "", 0) /\ e.type = "terminal_activity"
    BY <2>3b
  <2>5. /\ troubled \subseteq troubled'
        /\ events' = events \/ events' = Append(events, e)
    BY <2>3, <2>4, SubmitCases DEF NoSubmit
  <2>6. e.type \notin {"idle_detected", "idle_ended"}
    BY <2>4
  <2>7. QED
    BY <2>1, <2>2, <2>5, <2>6, OthersKnow
<1>4. QED
  BY <1>1, <1>2, <1>3, IdlePollKnown DEF Poll

TimesTold == \A b \in DOMAIN batches : IdleIsTold(b)

(* The minutes of a window that is over are those before the next one. *)
LEMMA WindowOver ==
  ASSUME DayType, NEW w \in Nat, w < WindowAt(now)
  PROVE  /\ (w + 1) * Window \in Nat /\ (w + 1) * Window <= now
         /\ {t \in MinutesOf(w) : IdleAt(t)} = IdleUntil(w, (w + 1) * Window)
         /\ IdleWithin(w) = CountedUntil(w, (w + 1) * Window)
<1>0. now \in Nat
  BY PresentTyped
<1>1. PICK high \in Nat : high = (w + 1) * Window
  BY WindowLimits
<1>2. PICK low \in Nat : low = w * Window
  BY WindowLimits
<1>3. high <= now
  BY <1>1, PresentTyped
<1>4. \A t \in MinutesOf(w) : t < high
  <2>1. \A t \in low..high - 1 : t < high
    OBVIOUS
  <2>2. QED
    BY <1>1, <1>2, <2>1 DEF MinutesOf
<1>5. \A t \in IdleWithin(w) : t \in MinutesOf(w)
  BY DEF IdleWithin
<1>6. {t \in MinutesOf(w) : IdleAt(t)} = IdleUntil(w, high) /\ IdleWithin(w) = CountedUntil(w, high)
  BY <1>4, <1>5 DEF IdleUntil, CountedUntil
<1>7. QED
  BY <1>1, <1>3, <1>6

(* What a stored batch tells of its window stays true. *)
LEMMA ToldKept ==
  ASSUME DayType, DayType', TimesInOrder, NEW b \in DOMAIN batches, IdleIsTold(b), batches'[b] = batches[b],
         day' = day \/ \E x \in Shown : day' = Append(day, x), troubled \subseteq troubled'
  PROVE  IdleIsTold(b)'
<1>0. now \in Nat /\ WindowAt(now) \in Nat
  BY PresentTyped
<1>1. PICK w \in Nat : w = batches[b].window
  BY BatchesTyped
<1>2. w < WindowAt(now)
  <2>1. w < windowEnd /\ windowEnd <= WindowAt(now) /\ windowEnd \in Nat
    BY <1>1 DEF TimesInOrder, DayType
  <2>2. QED
    BY <1>0, <2>1
<1>3. PICK until \in Nat : until = (w + 1) * Window /\ until <= now
  BY <1>2, WindowOver
<1>4. until <= now + 1
  BY <1>0, <1>3
<1>5. /\ now' \in {now, now + 1}
      /\ {t \in MinutesOf(w) : t < until /\ IdleAt(t)}' = {t \in MinutesOf(w) : t < until /\ IdleAt(t)}
      /\ {t \in IdleWithin(w) : t < until}' = {t \in IdleWithin(w) : t < until}
  BY <1>4, PastIsFixed
<1>6. \A t \in MinutesOf(w) \cup MinutesOf(w)' : t < until
  <2>1. \A t \in w * Window..(w + 1) * Window - 1 : t < until
    BY <1>3, WindowLimits
  <2>2. QED
    BY <2>1 DEF MinutesOf
<1>7. IdleWithin(w) \subseteq MinutesOf(w) /\ IdleWithin(w)' \subseteq MinutesOf(w)'
  BY DEF IdleWithin
<1>8. /\ {t \in MinutesOf(w) : IdleAt(t)}' = {t \in MinutesOf(w) : IdleAt(t)}
      /\ IdleWithin(w)' = IdleWithin(w)
  <2>1. {t \in MinutesOf(w) : t < until /\ IdleAt(t)} = {t \in MinutesOf(w) : IdleAt(t)}
    BY <1>6
  <2>2. {t \in MinutesOf(w) : t < until /\ IdleAt(t)}' = {t \in MinutesOf(w) : IdleAt(t)}'
    BY <1>6
  <2>3. {t \in IdleWithin(w) : t < until} = IdleWithin(w)
    BY <1>6, <1>7
  <2>4. {t \in IdleWithin(w) : t < until}' = IdleWithin(w)'
    BY <1>6, <1>7
  <2>5. QED
    BY <1>5, <2>1, <2>2, <2>3, <2>4
<1>9. QED
  BY <1>1, <1>8 DEF IdleIsTold

(* A window that has all its events is told as they tell it. *)
LEMMA ToldFirst ==
  ASSUME DayType, TimesInOrder, IdleKnown, UNCHANGED day, troubled \subseteq troubled', NEW b,
         windowEnd < WindowAt(now), NEW ids,
         windowEnd \notin troubled' => ids = EventsOf(windowEnd),
         batches'[b].window = windowEnd, batches'[b].idle = idleTime(windowEnd, ids)
  PROVE  IdleIsTold(b)'
<1>0. now \in Nat /\ WindowAt(now) \in Nat
  BY PresentTyped
<1>1. PICK w \in Nat : w = windowEnd
  BY DEF DayType
<1>2. w \in 0..WindowAt(now) /\ w < WindowAt(now)
  BY <1>0, <1>1
<1>3. PICK until \in Nat : until = (w + 1) * Window
  BY <1>2, WindowOver
<1>4. /\ {t \in MinutesOf(w) : IdleAt(t)} = IdleUntil(w, until)
      /\ IdleWithin(w) = CountedUntil(w, until)
  BY <1>2, <1>3, WindowOver
<1>5. /\ {t \in MinutesOf(w) : IdleAt(t)}' = {t \in MinutesOf(w) : IdleAt(t)}
      /\ IdleWithin(w)' = IdleWithin(w)
  BY DEF MinutesOf, IdleAt, IdleWithin, now
<1>6. ASSUME w \notin troubled'
      PROVE  /\ batches'[b].idle <= Cardinality(IdleUntil(w, until))
             /\ (\A v \in troubled' : v > w) => batches'[b].idle = Cardinality(CountedUntil(w, until))
  <2>1. IdleIsKnown(w) /\ SeenByIdle(w) = until
    BY <1>2, <1>3, <1>6, SeenByIdleTyped DEF IdleKnown
  <2>2. PICK acc \in Idling : acc = idlePass(w, EventsOf(w))
    BY PassTyped
  <2>3. PICK clean \in BOOLEAN : clean <=> \A v \in troubled : v > w
    OBVIOUS
  <2>4. PICK present \in BOOLEAN : present <=> w = WindowAt(now)
    OBVIOUS
  <2>5. PICK idling : idling = inIdle
    OBVIOUS
  <2>6. Known(w, acc, until, present, idling, clean)
    BY <2>1, <2>2, <2>3, <2>4, <2>5, IdleIsKnownNow
  <2>7. ids = EventsOf(w)
    BY <1>1, <1>6
  <2>8. batches'[b].idle = Noted(acc, until)
    BY <1>1, <1>3, <2>2, <2>7 DEF idleTime, Noted
  <2>9. (\A v \in troubled' : v > w) => clean
    BY <2>3
  <2>10. QED
    BY <2>6, <2>8, <2>9 DEF Known, KnownClean
<1>7. QED
  BY <1>1, <1>4, <1>5, <1>6 DEF IdleIsTold

LEMMA BatchesStayTold ==
  ASSUME DayType, DayType', TimesInOrder, TimesTold, UNCHANGED batches, troubled \subseteq troubled',
         day' = day \/ \E x \in Shown : day' = Append(day, x)
  PROVE  TimesTold'
<1>1. ASSUME NEW b \in DOMAIN batches PROVE IdleIsTold(b)'
  BY ToldKept DEF TimesTold
<1>2. QED
  BY <1>1 DEF TimesTold

LEMMA AggregateKnows ==
  ASSUME DayType, TimesInOrder, IdleKnown, TimesTold, AggregateWindow \/ SkipWindow
  PROVE  IdleKnown' /\ TimesTold'
<1>0. /\ DayType' /\ windowEnd < WindowAt(now)
      /\ UNCHANGED <<day, due, inIdle, events>>
  BY AggregateTyped
<1>1. NoteLate => /\ troubled \subseteq troubled'
                  /\ windowEnd \notin troubled' => FetchClassifiedSince(windowEnd) = EventsOf(windowEnd)
  BY DEF NoteLate
<1>2. CASE UNCHANGED batches /\ (UNCHANGED troubled \/ NoteLate)
  <2>1. troubled \subseteq troubled'
    BY <1>1, <1>2
  <2>2. TimesTold'
    BY <1>0, <1>2, <2>1, BatchesStayTold
  <2>3. IdleKnown'
    BY <1>0, <2>1, OthersKnow DEF IdleToCome
  <2>4. QED
    BY <2>2, <2>3
<1>3. CASE \E m \in Batch : /\ m = computeMetrics(windowEnd, FetchClassifiedSince(windowEnd))
                            /\ batches' = Append(batches, m) /\ NoteLate
  <2>1. PICK m \in Batch : /\ m = computeMetrics(windowEnd, FetchClassifiedSince(windowEnd))
                           /\ batches' = Append(batches, m) /\ NoteLate
    BY <1>3
  <2>2. PICK n \in Nat : n = Len(batches)
    BY BatchesTyped
  <2>3. batches \in Seq(Batch) /\ DOMAIN batches = 1..n
    BY <2>2, BatchesTyped
  <2>4. /\ DOMAIN batches' = 1..(n + 1) /\ batches'[n + 1] = m
        /\ \A b \in 1..n : batches'[b] = batches[b]
    BY <2>1, <2>2, <2>3
  <2>5. troubled \subseteq troubled'
    BY <1>1, <2>1
  <2>6. IdleKnown'
    BY <1>0, <2>5, OthersKnow DEF IdleToCome
  <2>7. ASSUME NEW b \in 1..n PROVE IdleIsTold(b)'
    <3>1. b \in DOMAIN batches /\ batches'[b] = batches[b]
      BY <2>3, <2>4
    <3>2. IdleIsTold(b)
      BY <3>1 DEF TimesTold
    <3>3. QED
      BY <1>0, <2>5, <3>1, <3>2, ToldKept
  <2>8. IdleIsTold(n + 1)'
    <3>1. PICK ids : ids = FetchClassifiedSince(windowEnd)
      OBVIOUS
    <3>2. ids \subseteq DOMAIN events /\ windowEnd \in Nat
      BY <3>1, FetchedTyped
    <3>3. m.window = windowEnd /\ m.idle = idleTime(windowEnd, ids)
      BY <2>1, <3>1, <3>2, MetricsAreTyped
    <3>4. windowEnd \notin troubled' => ids = EventsOf(windowEnd)
      BY <1>1, <2>1, <3>1
    <3>5. PICK b : b = n + 1
      OBVIOUS
    <3>6. batches'[b].window = windowEnd /\ batches'[b].idle = idleTime(windowEnd, ids)
      BY <2>4, <3>3, <3>5
    <3>7. IdleIsTold(b)'
      BY <1>0, <2>5, <3>4, <3>6, ToldFirst
    <3>8. QED
      BY <3>5, <3>7
  <2>9. TimesTold'
    <3>1. \A b \in 1..(n + 1) : b \in 1..n \/ b = n + 1
      OBVIOUS
    <3>2. QED
      BY <2>4, <2>7, <2>8, <3>1 DEF TimesTold
  <2>10. QED
    BY <2>6, <2>9
<1>4. QED
  <2>1. SkipWindow => UNCHANGED batches /\ NoteLate
    BY DEF SkipWindow
  <2>2. AggregateWindow => \/ UNCHANGED batches /\ UNCHANGED troubled
                           \/ \E m \in Batch : /\ m = computeMetrics(windowEnd, FetchClassifiedSince(windowEnd))
                                               /\ batches' = Append(batches, m) /\ NoteLate
    BY AggregateTells
  <2>3. QED
    BY <1>2, <1>3, <2>1, <2>2

(* In the beginning. *)
LEMMA DayBegins ==
  ASSUME DayInit
  PROVE  DayInv
<1>1. PICK app \in Apps : day = <<[app |-> app, idle |-> 0, running |-> FALSE]>>
  BY DEF DayInit
<1>2. /\ due = Pollers /\ front = NoFront /\ inIdle = FALSE /\ seen = FALSE /\ paused = FALSE
      /\ events = <<>> /\ classified = 0 /\ windowEnd = 0 /\ batches = <<>> /\ counters = NoCounters
      /\ hooks = 0 /\ base = 0 /\ recounts = 0 /\ troubled = {} /\ faults = 0
  BY DEF DayInit
<1>3. day \in Seq(Shown) /\ Len(day) = 1 /\ now = 0 /\ day # <<>>
  <2>1. [app |-> app, idle |-> 0, running |-> FALSE] \in Shown
    BY DEF Shown
  <2>2. PICK x \in Shown : day = <<x>>
    BY <1>1, <2>1
  <2>3. QED
    BY <2>2 DEF now
<1>4. events \in Seq(RawEvent) /\ batches \in Seq(Batch) /\ Len(events) = 0 /\ Len(batches) = 0
      /\ DOMAIN events = {} /\ DOMAIN batches = {}
  BY <1>2
<1>5. DayType
  <2>1. front \in [app : Apps \cup {""}, since : 0..now]
    <3>1. 0 \in 0..now
      BY <1>3
    <3>2. QED
      BY <1>2, <3>1 DEF NoFront
  <2>2. counters \in [windows : Nat, focus : Int, distractions : Nat, commits : Nat]
    BY <1>2 DEF NoCounters
  <2>3. classified \in 0..Len(events) /\ base \in 0..Len(batches)
    BY <1>2, <1>4
  <2>4. windowEnd \in Nat /\ hooks \in Nat /\ recounts \in Nat /\ faults \in Nat
    BY <1>2
  <2>5. troubled \subseteq Nat
    BY <1>2
  <2>6. QED
    BY <1>2, <1>3, <1>4, <2>1, <2>2, <2>3, <2>4, <2>5 DEF DayType
<1>6. WindowAt(now) = 0
  BY <1>3, DayAssumption DEF WindowAt
<1>7. TimesInOrder
  <2>1. windowEnd <= WindowAt(now)
    BY <1>2, <1>6
  <2>2. \A t \in 1..now : day[t + 1].idle \in {0, day[t].idle + 1}
    BY <1>3
  <2>3. QED
    BY <1>4, <2>1, <2>2 DEF TimesInOrder
<1>8. \A field \in Totalled : Sum(field, 0) = 0
  <2>1. 0 \in 0..Len(batches) /\ 0 = Len(batches)
    BY <1>4
  <2>2. QED
    BY <1>5, <2>1, ColumnTyped
<1>9. \A type : Cardinality(OfType(type, DOMAIN events)) = 0 /\ OfType(type, Before(windowEnd)) = {}
  <2>1. \A type : OfType(type, DOMAIN events) = {} /\ OfType(type, Before(windowEnd)) = {}
    BY <1>4 DEF OfType, Before
  <2>2. QED
    BY <2>1, FS_EmptySet
<1>10. FocusIn(DOMAIN events) = 0 /\ FocusIn(Before(windowEnd)) = 0
  <2>1. Before(windowEnd) = {}
    BY <1>4 DEF Before
  <2>2. QED
    BY <1>4, <1>5, <2>1, FocusIsNatural
<1>11. BatchesAreEvents
  <2>1. Sum("focus", 0) = 0 /\ Sum("commands", 0) = 0 /\ Sum("commits", 0) = 0
    BY <1>8 DEF Totalled
  <2>2. \A type : Cardinality(OfType(type, Before(windowEnd))) = 0
    BY <1>9, FS_EmptySet
  <2>3. QED
    BY <1>10, <2>1, <2>2 DEF BatchesAreEvents
<1>12. EventsAreDay
  <2>1. OpenFocus = 0
    BY <1>2 DEF OpenFocus, NoFront
  <2>2. SeenByTerminal = 0
    <3>1. due # <<>>
      BY <1>2, DueDiffer
    <3>2. QED
      BY <1>3, <3>1 DEF SeenByTerminal
  <2>3. 0 <= Cardinality({t \in Launches : t < SeenByTerminal})
    <3>1. Cardinality(Launched(0)) \in Nat
      BY <1>5, LaunchedTyped
    <3>2. QED
      BY <2>2, <3>1 DEF Launched
  <2>4. QED
    BY <1>2, <1>3, <1>9, <1>10, <2>1, <2>2, <2>3 DEF EventsAreDay
<1>13. CountersCoverBatches
  <2>1. \A field \in {"focus", "distractions", "commits"} : Sum(field, base) = 0 /\ counters[field] = 0
    <3>1. \A field \in {"focus", "distractions", "commits"} : Sum(field, base) = 0
      BY <1>2, <1>8 DEF Totalled
    <3>2. \A field \in {"focus", "distractions", "commits"} : counters[field] = 0
      BY <1>2 DEF NoCounters
    <3>3. QED
      BY <3>1, <3>2
  <2>2. counters.windows = Len(batches) - base + recounts
    BY <1>2, <1>4 DEF NoCounters
  <2>3. QED
    BY <2>1, <2>2 DEF CountersCoverBatches
<1>14. IdleKnown
  <2>1. IdleIsKnown(0)
    <3>1. PICK w \in Nat : w = 0
      OBVIOUS
    <3>2. PICK acc \in Idling : acc = NotIdle(w)
      BY IdleFolding DEF Folding
    <3>3. EventsOf(w) = {}
      BY <1>4 DEF EventsOf
    <3>4. idlePass(w, EventsOf(w)) = acc
      BY <1>5, <3>2, <3>3, PassTyped
    <3>5. SeenByIdle(w) = 0
      <4>1. IdleToCome
        BY <1>2 DEF IdleToCome
      <4>2. w \in 0..WindowAt(now) /\ w = WindowAt(now)
        BY <1>6, <3>1
      <4>3. QED
        BY <1>3, <1>5, <4>1, <4>2, SeenByIdleTyped
    <3>6. ~acc.in /\ acc.sum = 0 /\ Noted(acc, 0) = 0
      BY <3>2 DEF NotIdle, Noted
    <3>7. \A t \in MinutesOf(w) : ~(t < 0) /\ t # 0 - 1
      <4>1. \A t \in MinutesOf(w) : t \in 0..now
        BY <1>5, MinutesOfWindow
      <4>2. QED
        BY <4>1
    <3>8. IdleUntil(w, 0) = {} /\ CountedUntil(w, 0) = {} /\ 0 - 1 \notin IdleWithin(w)
      BY <3>7 DEF IdleUntil, CountedUntil, IdleWithin
    <3>9. Known(w, acc, 0, w = WindowAt(now), inIdle, FreeOfTrouble(w))
      <4>1. ~inIdle /\ ~(0 > 0)
        BY <1>2
      <4>2. QED
        BY <3>6, <3>8, <4>1, FS_EmptySet DEF Known, KnownOpen, KnownClean
    <3>10. IdleIsKnown(w)
      BY <3>4, <3>5, <3>9, IdleIsKnownAs
    <3>11. QED
      BY <3>1, <3>10
  <2>2. QED
    BY <1>6, <2>1 DEF IdleKnown
<1>15. \A b \in DOMAIN batches : IdleIsTold(b)
  BY <1>4
<1>16. QED
  BY <1>5, <1>7, <1>11, <1>12, <1>13, <1>14, <1>15 DEF DayInv, IdleKnown

LEMMA DayInvIs == DayInv <=>
  /\ DayType /\ TimesInOrder /\ BatchesAreEvents /\ EventsAreDay /\ CountersCoverBatches
  /\ IdleKnown /\ TimesTold
BY DEF DayInv, IdleKnown, TimesTold

LEMMA PollKeeps ==
  ASSUME DayInv, Poll
  PROVE  DayInv'
<1>0. /\ DayType /\ TimesInOrder /\ BatchesAreEvents /\ EventsAreDay /\ CountersCoverBatches
      /\ IdleKnown /\ TimesTold
  BY DayInvIs
<1>1. DayType' /\ TimesInOrder'
  BY <1>0, PollTyped
<1>2. UNCHANGED <<day, windowEnd, batches, counters, recounts, base>>
  BY <1>0, PollsSubmit DEF aggregator
<1>3. EventsStep /\ troubled \subseteq troubled'
  BY <1>0, PollsSubmit DEF EventsStep
<1>4. BatchesAreEvents'
  BY <1>0, <1>2, <1>3, BatchesStayEvents
<1>5. EventsAreDay'
  BY <1>0, PollsTell
<1>6. CountersCoverBatches'
  BY <1>0, <1>2, CountersStay
<1>7. IdleKnown'
  BY <1>0, PollsKnow
<1>8. TimesTold'
  BY <1>0, <1>1, <1>2, <1>3, BatchesStayTold
<1>9. QED
  BY <1>1, <1>4, <1>5, <1>6, <1>7, <1>8 DEF DayInv, IdleKnown, TimesTold

LEMMA MinuteKeeps ==
  ASSUME DayInv, Minute, due = <<>>
  PROVE  DayInv'
<1>0. /\ DayType /\ TimesInOrder /\ BatchesAreEvents /\ EventsAreDay /\ CountersCoverBatches
      /\ IdleKnown /\ TimesTold
  BY DayInvIs
<1>1. DayType' /\ TimesInOrder'
  BY <1>0, MinuteTyped
<1>2. UNCHANGED <<events, troubled, windowEnd, batches, counters, recounts, base>>
  BY <1>0, MinuteShows DEF aggregator
<1>3. \E x \in Shown : day' = Append(day, x)
  BY <1>0, MinuteShows
<1>4. BatchesAreEvents'
  BY <1>0, <1>2, BatchesStayEvents DEF EventsStep
<1>5. EventsAreDay'
  BY <1>0, MinuteTells
<1>6. CountersCoverBatches'
  BY <1>0, <1>2, CountersStay
<1>7. IdleKnown'
  BY <1>0, MinuteKnown
<1>8. TimesTold'
  BY <1>0, <1>1, <1>2, <1>3, BatchesStayTold
<1>9. QED
  BY <1>1, <1>4, <1>5, <1>6, <1>7, <1>8 DEF DayInv, IdleKnown, TimesTold

LEMMA GitKeeps ==
  ASSUME DayInv, GitEvent
  PROVE  DayInv'
<1>0. /\ DayType /\ TimesInOrder /\ BatchesAreEvents /\ EventsAreDay /\ CountersCoverBatches
      /\ IdleKnown /\ TimesTold
  BY DayInvIs
<1>1. /\ DayType' /\ TimesInOrder' /\ EventsStep
      /\ UNCHANGED <<day, due, inIdle, windowEnd, batches, counters, recounts, base>>
  BY <1>0, GitTyped
<1>2. PICK e \in RawEvent : e = Event("git_commit", "", 0) /\ e.type = "git_commit"
  BY <1>0, GitTyped
<1>3. troubled \subseteq troubled' /\ (events' = events \/ events' = Append(events, e))
  BY <1>0, <1>2, GitTyped
<1>4. e.type \notin {"idle_detected", "idle_ended"}
  BY <1>2
<1>5. BatchesAreEvents'
  BY <1>0, <1>1, BatchesStayEvents
<1>6. EventsAreDay'
  BY <1>0, GitTells
<1>7. CountersCoverBatches'
  BY <1>0, <1>1, CountersStay
<1>8. IdleKnown'
  BY <1>0, <1>1, <1>3, <1>4, OthersKnow DEF IdleToCome
<1>9. TimesTold'
  BY <1>0, <1>1, <1>3, BatchesStayTold
<1>10. QED
  BY <1>1, <1>5, <1>6, <1>7, <1>8, <1>9 DEF DayInv, IdleKnown, TimesTold

LEMMA SwitchKeeps ==
  ASSUME DayInv, TogglePause \/ ClassifyPending
  PROVE  DayInv'
<1>0. /\ DayType /\ TimesInOrder /\ BatchesAreEvents /\ EventsAreDay /\ CountersCoverBatches
      /\ IdleKnown /\ TimesTold
  BY DayInvIs
<1>1. /\ DayType' /\ TimesInOrder' /\ faults' \in {faults, faults + 1}
      /\ UNCHANGED <<day, due, front, inIdle, seen, events, windowEnd, batches, counters, recounts, hooks, base, troubled>>
  BY <1>0, SwitchTyped
<1>2. BatchesAreEvents'
  BY <1>0, <1>1, BatchesStayEvents DEF EventsStep
<1>3. EventsAreDay'
  BY <1>0, <1>1, QuietTells
<1>4. CountersCoverBatches'
  BY <1>0, <1>1, CountersStay
<1>5. IdleKnown'
  BY <1>0, <1>1, OthersKnow DEF IdleToCome
<1>6. TimesTold'
  BY <1>0, <1>1, BatchesStayTold
<1>7. QED
  BY <1>1, <1>2, <1>3, <1>4, <1>5, <1>6 DEF DayInv, IdleKnown, TimesTold

LEMMA RestartKeeps ==
  ASSUME DayInv, Restart
  PROVE  DayInv'
<1>0. /\ DayType /\ TimesInOrder /\ BatchesAreEvents /\ EventsAreDay /\ CountersCoverBatches
      /\ IdleKnown /\ TimesTold
  BY DayInvIs
<1>1. /\ DayType' /\ TimesInOrder' /\ faults' = faults + 1 /\ troubled' = troubled \cup {WindowAt(now)}
      /\ front' = NoFront /\ windowEnd' = WindowAt(now)
      /\ counters' = NoCounters /\ recounts' = 0 /\ base' = Len(batches)
      /\ UNCHANGED <<day, events, batches, hooks>>
  BY <1>0, RestartTyped
<1>2. BatchesAreEvents'
  <2>1. windowEnd' \in Nat
    BY <1>0, <1>1, PresentTyped
  <2>2. windowEnd <= windowEnd'
    BY <1>0, <1>1 DEF TimesInOrder
  <2>3. QED
    BY <1>0, <1>1, <2>1, <2>2, WindowPassed
<1>3. EventsAreDay'
  BY <1>0, <1>1, FaultTells
<1>4. CountersCoverBatches'
  BY <1>0, <1>1, CountersBegin
<1>5. IdleKnown'
  BY <1>0, <1>1, TroubledKnow
<1>6. TimesTold'
  <2>1. troubled \subseteq troubled'
    BY <1>1
  <2>2. QED
    BY <1>0, <1>1, <2>1, BatchesStayTold
<1>7. QED
  BY <1>1, <1>2, <1>3, <1>4, <1>5, <1>6 DEF DayInv, IdleKnown, TimesTold

LEMMA AggregateKeeps ==
  ASSUME DayInv, AggregateWindow \/ SkipWindow
  PROVE  DayInv'
<1>0. /\ DayType /\ TimesInOrder /\ BatchesAreEvents /\ EventsAreDay /\ CountersCoverBatches
      /\ IdleKnown /\ TimesTold
  BY DayInvIs
<1>1. /\ DayType' /\ TimesInOrder' /\ windowEnd < WindowAt(now)
      /\ UNCHANGED <<day, due, front, inIdle, seen, paused, events, classified, hooks, base>>
  BY <1>0, AggregateTyped
<1>2. IdleKnown' /\ TimesTold'
  BY <1>0, AggregateKnows
<1>3. faults' = faults \/ faults' = faults + 1
  <2>1. AggregateWindow => faults' = faults \/ faults' = faults + 1
    BY <1>0, AggregateTells
  <2>2. SkipWindow => faults' = faults
    BY DEF SkipWindow
  <2>3. QED
    BY <2>1, <2>2
<1>4. EventsAreDay'
  BY <1>0, <1>1, <1>3, QuietTells
<1>5. windowEnd \in Nat /\ windowEnd + 1 \in Nat /\ windowEnd <= windowEnd + 1
  <2>1. windowEnd \in Nat
    BY <1>0 DEF DayType
  <2>2. QED
    BY <2>1
<1>6. BatchesAreEvents' /\ CountersCoverBatches'
  <2>1. CASE SkipWindow
    <3>1. UNCHANGED <<events, batches, counters, recounts, base>> /\ windowEnd' = windowEnd + 1
      BY <2>1 DEF SkipWindow
    <3>2. QED
      BY <1>0, <1>5, <3>1, WindowPassed, CountersStay
  <2>2. CASE AggregateWindow
    <3>1. PICK m \in Batch :
            /\ m = computeMetrics(windowEnd, FetchClassifiedSince(windowEnd)) /\ m.focus \in Nat
            /\ counters' = Counted(m)
            /\ UNCHANGED <<day, collectors, paused, events, classified, hooks, base>>
            /\ \/ /\ batches' = Append(batches, m) /\ windowEnd' = windowEnd + 1 /\ NoteLate
                  /\ UNCHANGED <<recounts, faults>>
               \/ /\ faults' = faults + 1 /\ recounts' = recounts + 1
                  /\ UNCHANGED <<batches, windowEnd, troubled>>
      BY <1>0, <2>2, AggregateTells
    <3>2. CountersCoverBatches'
      BY <1>0, <3>1, CountersRaised
    <3>3. BatchesAreEvents'
      <4>1. CASE batches' = Append(batches, m) /\ windowEnd' = windowEnd + 1
        BY <1>0, <3>1, <4>1, BatchStored
      <4>2. CASE UNCHANGED <<batches, windowEnd>>
        BY <1>0, <3>1, <4>2, BatchesStayEvents DEF EventsStep
      <4>3. QED
        BY <3>1, <4>1, <4>2
    <3>4. QED
      BY <3>2, <3>3
  <2>3. QED
    BY <2>1, <2>2
<1>7. QED
  BY <1>1, <1>2, <1>4, <1>6 DEF DayInv, IdleKnown, TimesTold

LEMMA DayStutters ==
  ASSUME DayInv, UNCHANGED dayVars
  PROVE  DayInv'
<1>0. UNCHANGED <<day, due, front, inIdle, seen, paused, events, classified, windowEnd, batches,
                  counters, recounts, hooks, base, troubled, faults>>
  BY DEF dayVars, collectors, aggregator
<1>1. now' = now
  BY <1>0 DEF now
<1>2. /\ DayType /\ TimesInOrder /\ BatchesAreEvents /\ EventsAreDay /\ CountersCoverBatches
      /\ IdleKnown /\ TimesTold
  BY DayInvIs
<1>3. DayType'
  BY <1>0, <1>1, <1>2 DEF DayType
<1>4. TimesInOrder'
  BY <1>0, <1>1, <1>2 DEF TimesInOrder, WindowAt
<1>5. BatchesAreEvents' /\ EventsAreDay' /\ CountersCoverBatches'
  BY <1>0, <1>2, BatchesStayEvents, QuietTells, CountersStay DEF EventsStep
<1>6. IdleKnown'
  BY <1>0, <1>2, OthersKnow DEF IdleToCome
<1>7. TimesTold'
  BY <1>0, <1>2, <1>3, BatchesStayTold
<1>8. QED
  BY <1>3, <1>4, <1>5, <1>6, <1>7 DEF DayInv, IdleKnown, TimesTold

(* However the pollers, the git hook, the classifier, the aggregator       *)
(* (aggregator.go) and restarts of the agent take turns: what the batches  *)
(* count is in the events of the windows before the next one, the work,    *)
(* commits and, without a fault, commands those events tell are in the     *)
(* day, and the events of an untroubled window tell no idle minute that    *)
(* was not one.                                                            *)
THEOREM DayInvariance == DaySpec => []DayInv
<1>1. DayInit => DayInv
  BY DayBegins
<1>2. DayInv /\ [DayNext]_dayVars => DayInv'
  BY PollKeeps, MinuteKeeps, GitKeeps, SwitchKeeps, RestartKeeps, AggregateKeeps, DayStutters DEF DayNext
<1>3. QED
  BY <1>1, <1>2, PTL DEF DaySpec

(* The tray's counters of today cover all that this process has queued,    *)
(* and more only for a window taken again, however often aggregation fails *)
(* and the agent restarts.                                                 *)
THEOREM CountersAlwaysCover == DaySpec => []CountersCoverBatches
<1>1. DayInv => CountersCoverBatches
  BY DEF DayInv
<1>2. QED
  BY <1>1, DayInvariance, PTL

LEMMA DayIsTold == DayInv => DayIsNotInflated
<1> SUFFICES ASSUME DayInv PROVE DayIsNotInflated
  OBVIOUS
<1>0. /\ DayType /\ TimesInOrder /\ BatchesAreEvents /\ EventsAreDay
      /\ \A b \in DOMAIN batches : IdleIsTold(b)
  BY DEF DayInv
<1>1. PICK f \in Nat : f = FocusIn(DOMAIN events)
  BY <1>0, TotalsTyped
<1>2. PICK g \in Nat : g = FocusIn(Before(windowEnd))
  BY <1>0, TotalsTyped
<1>3. g <= f
  <2>1. Before(windowEnd) \subseteq DOMAIN events
    BY DEF Before
  <2>2. QED
    BY <1>0, <1>1, <1>2, <2>1, FocusMonotone
<1>4. PICK o \in Nat : o = OpenFocus
  BY <1>0, TotalsTyped
<1>5. now \in Nat
  BY <1>0, PresentTyped
<1>6. Sum("focus", 0) + OpenFocus <= now
  <2>1. PICK s \in Int : s = Sum("focus", 0)
    BY <1>0, TotalsTyped
  <2>2. s <= g /\ f + o <= now
    BY <1>0, <1>1, <1>2, <1>4, <2>1 DEF BatchesAreEvents, EventsAreDay
  <2>3. s + o <= now
    BY <1>3, <1>5, <2>2
  <2>4. QED
    BY <1>4, <2>1, <2>3
<1>7. ASSUME NEW type
      PROVE  Cardinality(OfType(type, Before(windowEnd))) <= Cardinality(OfType(type, DOMAIN events))
  <2>1. OfType(type, Before(windowEnd)) \subseteq OfType(type, DOMAIN events)
    BY DEF OfType, Before
  <2>2. OfType(type, DOMAIN events) \subseteq DOMAIN events
    BY DEF OfType
  <2>3. IsFiniteSet(OfType(type, DOMAIN events))
    BY <1>0, <2>2, EventsAreFinite
  <2>4. QED
    BY <2>1, <2>3, FS_Subset
<1>8. Sum("commits", 0) <= hooks
  <2>1. PICK s \in Int : s = Sum("commits", 0)
    BY <1>0, TotalsTyped
  <2>2. PICK c \in Nat : c = Cardinality(OfType("git_commit", Before(windowEnd)))
    BY <1>0, TotalsTyped
  <2>3. PICK d \in Nat : d = Cardinality(OfType("git_commit", DOMAIN events))
    BY <1>0, TotalsTyped
  <2>4. s <= c /\ c <= d /\ d <= hooks /\ hooks \in Nat
    BY <1>0, <1>7, <2>1, <2>2, <2>3 DEF BatchesAreEvents, EventsAreDay, DayType
  <2>5. s <= hooks
    BY <2>4
  <2>6. QED
    BY <2>1, <2>5
<1>9. ASSUME faults = 0 PROVE Sum("commands", 0) <= Cardinality(Launches)
  <2>1. PICK s \in Int : s = Sum("commands", 0)
    BY <1>0, TotalsTyped
  <2>2. PICK c \in Nat : c = Cardinality(OfType("terminal_activity", Before(windowEnd)))
    BY <1>0, TotalsTyped
  <2>3. PICK d \in Nat : d = Cardinality(OfType("terminal_activity", DOMAIN events))
    BY <1>0, TotalsTyped
  <2>4. PICK l \in Nat : l = Cardinality({t \in Launches : t < SeenByTerminal})
    BY <1>0, LaunchedTyped DEF Launched
  <2>5. Launches \subseteq 0..now
    BY DEF Launches
  <2>6. IsFiniteSet(Launches) /\ {t \in Launches : t < SeenByTerminal} \subseteq Launches
    BY <1>0, <2>5, MinutesAreFinite
  <2>7. PICK a \in Nat : a = Cardinality(Launches)
    BY <2>6, FS_CardinalityType
  <2>8. l <= a
    BY <2>4, <2>6, <2>7, FS_Subset
  <2>9. s <= c /\ c <= d /\ d <= l
    BY <1>0, <1>7, <1>9, <2>1, <2>2, <2>3, <2>4 DEF BatchesAreEvents, EventsAreDay
  <2>10. s <= a
    BY <2>8, <2>9
  <2>11. QED
    BY <2>1, <2>7, <2>10
<1>10. QED
  BY <1>0, <1>6, <1>8, <1>9 DEF DayIsNotInflated

(* For every window size, threshold and number of faults: the batches of   *)
(* aggregator.go together count no more focus than time that has passed    *)
(* and no commit twice; one of an untroubled window tells no idle minute   *)
(* in which the user was not idle; without a fault, no launch counts twice.*)
THEOREM DayNeverInflated == DaySpec => []DayIsNotInflated
<1>1. QED
  BY DayInvariance, DayIsTold, PTL

-----------------------------------------------------------------------------
(* Quotients, scores and flags.                                            *)

LEMMA DivisionMonotone ==
  \A a, b \in Int, d \in Nat \ {0} : a <= b => a \div d <= b \div d
<1> SUFFICES ASSUME NEW a \in Int, NEW b \in Int, NEW d \in Nat \ {0}, a <= b
             PROVE  a \div d <= b \div d
  OBVIOUS
<1>1. PICK p \in Int, q \in Int : p = a \div d /\ q = b \div d
  OBVIOUS
<1>2. d * p <= a /\ b < d * q + d
  BY <1>1
<1>3. SUFFICES ASSUME p >= q + 1 PROVE FALSE
  BY <1>1
<1>4. d * p >= d * (q + 1)
  BY <1>3
<1>5. d * (q + 1) = d * q + d
  OBVIOUS
<1>6. PICK u \in Int, v \in Int : u = d * p /\ v = d * q
  OBVIOUS
<1>7. u <= a /\ b < v + d /\ u >= v + d
  BY <1>2, <1>4, <1>5, <1>6
<1>8. QED
  BY <1>7

LEMMA ClampBounded == \A n \in Int : clamp01(n) \in 0..Unit
BY DEF clamp01, Unit

LEMMA ClampMonotone == \A m, n \in Int : m <= n => clamp01(m) <= clamp01(n)
BY DEF clamp01, Unit

LEMMA RatioTyped == \A n \in Int, d \in Nat \ {0} : Ratio(n, d) \in Int
BY DEF Ratio, Unit

LEMMA RatioMonotone == \A m, n \in Int, d \in Nat \ {0} : m <= n => Ratio(m, d) <= Ratio(n, d)
<1> SUFFICES ASSUME NEW m \in Int, NEW n \in Int, NEW d \in Nat \ {0}, m <= n
             PROVE  Ratio(m, d) <= Ratio(n, d)
  OBVIOUS
<1>1. m * Unit \in Int /\ n * Unit \in Int /\ m * Unit <= n * Unit
  BY DEF Unit
<1>2. QED
  BY <1>1, DivisionMonotone DEF Ratio

LEMMA ShareBounded == \A n \in Int, d \in Nat \ {0} : clamp01(Ratio(n, d)) \in 0..Unit
BY RatioTyped, ClampBounded

LEMMA ShareMonotone ==
  \A m, n \in Int, d \in Nat \ {0} : m <= n => clamp01(Ratio(m, d)) <= clamp01(Ratio(n, d))
BY RatioTyped, RatioMonotone, ClampMonotone

LEMMA ToleranceTyped == \A t \in Int : Tolerance(t) \in Nat \ {0}
BY DEF Tolerance, AtLeast

LEMMA AbsenceBounded == \A d, t \in Int : DistractionAbsence(d, t) \in 0..Unit
<1> SUFFICES ASSUME NEW d \in Int, NEW t \in Int PROVE DistractionAbsence(d, t) \in 0..Unit
  OBVIOUS
<1>1. PICK q \in Int : q = Ratio(d, Tolerance(t))
  BY ToleranceTyped, RatioTyped
<1>2. Unit - q \in Int
  BY DEF Unit
<1>3. QED
  BY <1>1, <1>2, ClampBounded DEF DistractionAbsence

LEMMA AbsenceMonotone ==
  \A c, d, t \in Int : c <= d => DistractionAbsence(d, t) <= DistractionAbsence(c, t)
<1> SUFFICES ASSUME NEW c \in Int, NEW d \in Int, NEW t \in Int, c <= d
             PROVE  DistractionAbsence(d, t) <= DistractionAbsence(c, t)
  OBVIOUS
<1>1. PICK p \in Int, q \in Int : p = Ratio(c, Tolerance(t)) /\ q = Ratio(d, Tolerance(t))
  BY ToleranceTyped, RatioTyped
<1>2. p <= q
  BY <1>1, ToleranceTyped, RatioMonotone
<1>3. Unit - q \in Int /\ Unit - p \in Int /\ Unit - q <= Unit - p
  BY <1>2 DEF Unit
<1>4. QED
  BY <1>1, <1>3, ClampMonotone DEF DistractionAbsence

(* What a score is made of: sums and numbers of events.                    *)
Aggregates ==
  [focusMinutes : Int, idleMinutes : Int, ideMinutes : Int, appSwitches : Nat,
   productiveAppEvents : Nat, distractionEvents : Nat, gitCommits : Nat,
   terminalActivity : Nat, manualCheckins : Nat, zeroDiffCommits : Nat]

NoLess(a, b) ==
  /\ a.ideMinutes <= b.ideMinutes /\ a.gitCommits <= b.gitCommits
  /\ a.focusMinutes <= b.focusMinutes /\ b.distractionEvents <= a.distractionEvents
  /\ a.manualCheckins <= b.manualCheckins

LEMMA ScoreMonotone ==
  ASSUME NEW a \in Aggregates, NEW b \in Aggregates, NEW d \in Nat \ {0}, NEW t \in Int,
         NoLess(a, b)
  PROVE  /\ computeBreakdown(a, d, t).total \in 0..Unit
         /\ computeBreakdown(a, d, t).total <= computeBreakdown(b, d, t).total
<1>1. /\ a.ideMinutes \in Int /\ b.ideMinutes \in Int /\ a.gitCommits \in Int /\ b.gitCommits \in Int
      /\ a.focusMinutes \in Int /\ b.focusMinutes \in Int
      /\ a.distractionEvents \in Int /\ b.distractionEvents \in Int
      /\ a.manualCheckins \in Int /\ b.manualCheckins \in Int
  BY DEF Aggregates
<1>2. AtLeast(60, d) \in Nat \ {0} /\ 7 * d \in Nat \ {0}
  BY DEF AtLeast
<1> DEFINE Ide(x) == clamp01(Ratio(2 * x.ideMinutes, d))
           Git(x) == clamp01(Ratio(60 * x.gitCommits, AtLeast(60, d)))
           Focus(x) == clamp01(Ratio(10 * x.focusMinutes, 7 * d))
           Distract(x) == DistractionAbsence(x.distractionEvents, t)
           Checkin(x) == IF x.manualCheckins > 0 THEN Unit ELSE 0
           Weighed(x) == Weights.ide * Ide(x) + Weights.git * Git(x) + Weights.focus * Focus(x)
                         + Weights.distraction * Distract(x) + Weights.checkin * Checkin(x)
<1>3. /\ Ide(a) \in 0..Unit /\ Ide(b) \in 0..Unit /\ Ide(a) <= Ide(b)
  <2>1. 2 * a.ideMinutes \in Int /\ 2 * b.ideMinutes \in Int /\ 2 * a.ideMinutes <= 2 * b.ideMinutes
    BY <1>1 DEF NoLess
  <2>2. QED
    BY <2>1, ShareBounded, ShareMonotone
<1>4. /\ Git(a) \in 0..Unit /\ Git(b) \in 0..Unit /\ Git(a) <= Git(b)
  <2>1. 60 * a.gitCommits \in Int /\ 60 * b.gitCommits \in Int /\ 60 * a.gitCommits <= 60 * b.gitCommits
    BY <1>1 DEF NoLess
  <2>2. QED
    BY <1>2, <2>1, ShareBounded, ShareMonotone
<1>5. /\ Focus(a) \in 0..Unit /\ Focus(b) \in 0..Unit /\ Focus(a) <= Focus(b)
  <2>1. 10 * a.focusMinutes \in Int /\ 10 * b.focusMinutes \in Int /\ 10 * a.focusMinutes <= 10 * b.focusMinutes
    BY <1>1 DEF NoLess
  <2>2. QED
    BY <1>2, <2>1, ShareBounded, ShareMonotone
<1>6. /\ Distract(a) \in 0..Unit /\ Distract(b) \in 0..Unit /\ Distract(a) <= Distract(b)
  BY <1>1, AbsenceBounded, AbsenceMonotone DEF NoLess
<1>7. /\ Checkin(a) \in 0..Unit /\ Checkin(b) \in 0..Unit /\ Checkin(a) <= Checkin(b)
  BY <1>1 DEF NoLess, Unit
<1>8. /\ computeBreakdown(a, d, t).total = clamp01(Weighed(a) \div 10)
      /\ computeBreakdown(b, d, t).total = clamp01(Weighed(b) \div 10)
  BY DEF computeBreakdown
<1> HIDE DEF Ide, Git, Focus, Distract, Checkin
<1>9. Weighed(a) \in Int /\ Weighed(b) \in Int /\ Weighed(a) <= Weighed(b)
  <2>1. /\ Weights.ide = 3 /\ Weights.git = 3 /\ Weights.focus = 2
        /\ Weights.distraction = 1 /\ Weights.checkin = 1
    BY DEF Weights
  <2>2. /\ Weighed(a) = 3 * Ide(a) + 3 * Git(a) + 2 * Focus(a) + 1 * Distract(a) + 1 * Checkin(a)
        /\ Weighed(b) = 3 * Ide(b) + 3 * Git(b) + 2 * Focus(b) + 1 * Distract(b) + 1 * Checkin(b)
    BY <2>1
  <2>3. \A n \in 0..Unit : n \in Int
    BY DEF Unit
  <2> HIDE DEF Weighed
  <2>4. QED
    BY <2>2, <2>3, <1>3, <1>4, <1>5, <1>6, <1>7
<1> HIDE DEF Weighed
<1>10. Weighed(a) \div 10 \in Int /\ Weighed(b) \div 10 \in Int /\ Weighed(a) \div 10 <= Weighed(b) \div 10
  BY <1>9
<1>11. QED
  BY <1>8, <1>10, ClampBounded, ClampMonotone

LEMMA ScoreBounded ==
  ASSUME NEW a \in Aggregates, NEW d \in Nat \ {0}, NEW t \in Int
  PROVE  computeBreakdown(a, d, t).total \in 0..Unit
<1>1. NoLess(a, a)
  BY DEF NoLess, Aggregates
<1>2. QED
  BY <1>1, ScoreMonotone

(* A sequence mapped by a function, and how many of its members are in a   *)
(* set, when one more is appended.                                         *)
Maps(g, E, V) == g \in [E -> V]
Mapped(g, s) == [i \in DOMAIN s |-> g[s[i]]]

LEMMA MapAppend ==
  ASSUME NEW E, NEW V, NEW g, Maps(g, E, V), NEW s \in Seq(E), NEW e \in E
  PROVE  /\ Mapped(g, s) \in Seq(V)
         /\ Mapped(g, Append(s, e)) = Append(Mapped(g, s), g[e])
<1>0. g \in [E -> V]
  BY DEF Maps
<1>1. PICK n \in Nat : n = Len(s)
  OBVIOUS
<1>2. DOMAIN s = 1..n /\ \A i \in 1..n : s[i] \in E
  BY <1>1
<1>3. PICK r : r = Append(s, e)
  OBVIOUS
<1>4. r \in Seq(E) /\ DOMAIN r = 1..(n + 1) /\ r[n + 1] = e /\ \A i \in 1..n : r[i] = s[i]
  BY <1>1, <1>3
<1>5. PICK m : m = [i \in 1..n |-> g[s[i]]]
  OBVIOUS
<1>6. m \in [1..n -> V]
  BY <1>0, <1>2, <1>5
<1>7. m \in Seq(V) /\ Len(m) = n
  BY <1>6
<1>8. PICK k : k = [i \in 1..(n + 1) |-> g[r[i]]]
  OBVIOUS
<1>9. k \in [1..(n + 1) -> V]
  BY <1>0, <1>3, <1>4, <1>8
<1>10. k \in Seq(V) /\ Len(k) = n + 1
  BY <1>9
<1>11. g[e] \in V
  BY <1>0
<1>12. PICK a : a = Append(m, g[e])
  OBVIOUS
<1>13. a \in Seq(V) /\ Len(a) = n + 1 /\ a[n + 1] = g[e] /\ \A i \in 1..n : a[i] = m[i]
  BY <1>7, <1>11, <1>12
<1>14. \A i \in 1..(n + 1) : k[i] = a[i]
  <2> SUFFICES ASSUME NEW i \in 1..(n + 1) PROVE k[i] = a[i]
    OBVIOUS
  <2>1. CASE i = n + 1
    BY <2>1, <1>4, <1>8, <1>13
  <2>2. CASE i \in 1..n
    BY <2>2, <1>4, <1>5, <1>8, <1>13
  <2>3. QED
    BY <2>1, <2>2
<1>15. k = a
  BY <1>10, <1>13, <1>14
<1>16. QED
  BY <1>2, <1>3, <1>4, <1>5, <1>7, <1>8, <1>12, <1>15 DEF Mapped

Counts(P, s, e) ==
  /\ Cardinality({i \in DOMAIN s : s[i] \in P}) \in Nat
  /\ Cardinality({i \in DOMAIN Append(s, e) : Append(s, e)[i] \in P})
       = Cardinality({i \in DOMAIN s : s[i] \in P}) + (IF e \in P THEN 1 ELSE 0)

LEMMA CountAppend ==
  ASSUME NEW E, NEW P, NEW s \in Seq(E), NEW e \in E
  PROVE  Counts(P, s, e)
<1>1. PICK n \in Nat : n = Len(s)
  OBVIOUS
<1>2. PICK r : r = Append(s, e)
  OBVIOUS
<1>3. DOMAIN s = 1..n /\ DOMAIN r = 1..(n + 1) /\ r[n + 1] = e /\ \A i \in 1..n : r[i] = s[i]
  BY <1>1, <1>2
<1> DEFINE A == {i \in DOMAIN s : s[i] \in P}
           B == {i \in DOMAIN r : r[i] \in P}
<1>4. IsFiniteSet(A) /\ n + 1 \notin A
  <2>1. IsFiniteSet(1..n) /\ A \subseteq 1..n
    BY <1>3, FS_Interval
  <2>2. QED
    BY <2>1, FS_Subset
<1>5. B = IF e \in P THEN A \cup {n + 1} ELSE A
  BY <1>3
<1>6. Cardinality(A) \in Nat /\ Cardinality(A \cup {n + 1}) = Cardinality(A) + 1
  BY <1>4, FS_CardinalityType, FS_AddElement
<1> HIDE DEF A, B
<1>7. Cardinality(B) = Cardinality(A) + (IF e \in P THEN 1 ELSE 0)
  <2>1. CASE e \in P
    BY <2>1, <1>5, <1>6
  <2>2. CASE e \notin P
    BY <2>2, <1>5, <1>6
  <2>3. QED
    BY <2>1, <2>2
<1>8. QED
  BY <1>2, <1>6, <1>7 DEF A, B, Counts

(* The events a score can be made of, with any durations.                  *)
Measured == {"focus_session_ended", "idle_detected", "ide_activity"}
TEvent == [type : Simple \cup Measured, minutes : Int, productive : BOOLEAN, files : 0..1]

CountedMinutes(e, type, missing) ==
  IF e.type # type THEN 0 ELSE IF e.minutes = 0 THEN missing ELSE e.minutes

LEMMA MinutesAfter ==
  ASSUME NEW s \in Seq(TEvent), NEW e \in TEvent, NEW type, NEW missing \in Int
  PROVE  /\ Minutes(s, type, missing) \in Int /\ CountedMinutes(e, type, missing) \in Int
         /\ Minutes(Append(s, e), type, missing)
              = Minutes(s, type, missing) + CountedMinutes(e, type, missing)
<1>1. PICK g : g = [x \in TEvent |-> CountedMinutes(x, type, missing)]
  OBVIOUS
<1>2. g \in [TEvent -> Int]
  <2>1. \A x \in TEvent : CountedMinutes(x, type, missing) \in Int
    BY DEF CountedMinutes, TEvent
  <2>2. QED
    BY <1>1, <2>1
<1>20. Maps(g, TEvent, Int)
  BY <1>2 DEF Maps
<1>3. \A q \in Seq(TEvent) : Minutes(q, type, missing) = SumOf(Mapped(g, q))
  <2> SUFFICES ASSUME NEW q \in Seq(TEvent)
               PROVE  Minutes(q, type, missing) = SumOf(Mapped(g, q))
    OBVIOUS
  <2>1. \A i \in DOMAIN q : q[i] \in TEvent
    OBVIOUS
  <2>2. \A i \in DOMAIN q : g[q[i]] = CountedMinutes(q[i], type, missing)
    BY <1>1, <2>1
  <2>3. [i \in DOMAIN q |-> CountedMinutes(q[i], type, missing)] = Mapped(g, q)
    BY <2>2 DEF Mapped
  <2>4. Minutes(q, type, missing) = SumOf([i \in DOMAIN q |-> CountedMinutes(q[i], type, missing)])
    BY DEF Minutes, CountedMinutes
  <2>5. QED
    BY <2>3, <2>4
<1>4. PICK m : m = Mapped(g, s)
  OBVIOUS
<1>5. m \in Seq(Int) /\ Mapped(g, Append(s, e)) = Append(m, g[e])
  BY <1>20, <1>4, MapAppend
<1>6. Append(s, e) \in Seq(TEvent)
  OBVIOUS
<1>7. g[e] \in Int /\ g[e] = CountedMinutes(e, type, missing)
  BY <1>1, <1>2
<1>8. SumOf(m) \in Int /\ SumOf(Append(m, g[e])) = SumOf(m) + g[e]
  BY <1>5, <1>7, SumContinues
<1>9. QED
  BY <1>3, <1>4, <1>5, <1>6, <1>7, <1>8

Number(q, type) == Cardinality(PlacesOf(q, type))

LEMMA NumberAfter ==
  ASSUME NEW s \in Seq(TEvent), NEW e \in TEvent, NEW type
  PROVE  /\ Number(s, type) \in Nat
         /\ Number(Append(s, e), type) = Number(s, type) + (IF e.type = type THEN 1 ELSE 0)
<1> DEFINE P == {x \in TEvent : x.type = type}
<1>1. \A q \in Seq(TEvent) : PlacesOf(q, type) = {i \in DOMAIN q : q[i] \in P}
  BY DEF PlacesOf
<1>2. Append(s, e) \in Seq(TEvent)
  OBVIOUS
<1>3. e \in P <=> e.type = type
  OBVIOUS
<1> HIDE DEF P
<1>4. Counts(P, s, e)
  BY CountAppend
<1>5. QED
  BY <1>1, <1>2, <1>3, <1>4 DEF Number, Counts

Switched(q) == Cardinality({i \in PlacesOf(q, "app_switched") : q[i].productive})
Emptied(q) == Cardinality({i \in PlacesOf(q, "git_commit") : q[i].files = 0})

LEMMA PartsAfter ==
  ASSUME NEW s \in Seq(TEvent), NEW e \in TEvent
  PROVE  /\ Switched(s) \in Nat /\ Emptied(s) \in Nat
         /\ Emptied(Append(s, e)) >= Emptied(s)
<1> DEFINE P == {x \in TEvent : x.type = "app_switched" /\ x.productive}
           Q == {x \in TEvent : x.type = "git_commit" /\ x.files = 0}
<1>1. \A q \in Seq(TEvent) : {i \in PlacesOf(q, "app_switched") : q[i].productive} = {i \in DOMAIN q : q[i] \in P}
  BY DEF PlacesOf
<1>2. \A q \in Seq(TEvent) : {i \in PlacesOf(q, "git_commit") : q[i].files = 0} = {i \in DOMAIN q : q[i] \in Q}
  BY DEF PlacesOf
<1>3. Append(s, e) \in Seq(TEvent)
  OBVIOUS
<1> HIDE DEF P, Q
<1>31. Counts(P, s, e)
  BY CountAppend
<1>32. Counts(Q, s, e)
  BY CountAppend
<1>4. Switched(s) \in Nat /\ Emptied(s) \in Nat
  BY <1>1, <1>2, <1>31, <1>32 DEF Switched, Emptied, Counts
<1>5. Emptied(Append(s, e)) = Emptied(s) + (IF e \in Q THEN 1 ELSE 0)
  BY <1>2, <1>3, <1>32 DEF Emptied, Counts
<1>6. QED
  BY <1>4, <1>5

LEMMA AggregatesAre ==
  ASSUME NEW q \in Seq(TEvent)
  PROVE  LET a == aggregateEvents(q) IN
         /\ a \in Aggregates
         /\ a.focusMinutes = Minutes(q, "focus_session_ended", 0)
         /\ a.idleMinutes = Minutes(q, "idle_detected", 5)
         /\ a.ideMinutes = Minutes(q, "ide_activity", 1)
         /\ a.distractionEvents = Number(q, "distraction_detected")
         /\ a.gitCommits = Number(q, "git_commit")
         /\ a.manualCheckins = Number(q, "manual_checkin")
         /\ a.zeroDiffCommits = Emptied(q)
<1>0. PICK e : e = [type |-> "app_switched", minutes |-> 0, productive |-> FALSE, files |-> 0]
  OBVIOUS
<1>1. e \in TEvent
  <2>1. "app_switched" \in Simple \cup Measured
    BY DEF Simple
  <2>4. FALSE \in BOOLEAN
    BY Zenon
  <2>2. 0 \in Int /\ 0 \in 0..1
    OBVIOUS
  <2>3. QED
    BY <1>0, <2>1, <2>2, <2>4 DEF TEvent
<1>2. /\ Minutes(q, "focus_session_ended", 0) \in Int /\ Minutes(q, "idle_detected", 5) \in Int
      /\ Minutes(q, "ide_activity", 1) \in Int
  BY <1>1, MinutesAfter
<1>3. \A type : Number(q, type) \in Nat
  BY <1>1, NumberAfter
<1>4. Switched(q) \in Nat /\ Emptied(q) \in Nat
  BY <1>1, PartsAfter
<1>5. aggregateEvents(q) =
        [focusMinutes |-> Minutes(q, "focus_session_ended", 0),
         idleMinutes |-> Minutes(q, "idle_detected", 5),
         ideMinutes |-> Minutes(q, "ide_activity", 1),
         appSwitches |-> Number(q, "app_switched"),
         productiveAppEvents |-> Switched(q),
         distractionEvents |-> Number(q, "distraction_detected"),
         gitCommits |-> Number(q, "git_commit"),
         terminalActivity |-> Number(q, "terminal_activity"),
         manualCheckins |-> Number(q, "manual_checkin"),
         zeroDiffCommits |-> Emptied(q)]
  BY DEF aggregateEvents, Number, Switched, Emptied
<1>6. QED
  BY <1>2, <1>3, <1>4, <1>5 DEF Aggregates

(* What one more event adds. *)
LEMMA AggregatesAfter ==
  ASSUME NEW s \in Seq(TEvent), NEW e \in TEvent, NEW a, NEW b,
         a = aggregateEvents(s), b = aggregateEvents(Append(s, e))
  PROVE  /\ a \in Aggregates /\ b \in Aggregates
         /\ b.focusMinutes = a.focusMinutes + CountedMinutes(e, "focus_session_ended", 0)
         /\ b.idleMinutes = a.idleMinutes + CountedMinutes(e, "idle_detected", 5)
         /\ b.ideMinutes = a.ideMinutes + CountedMinutes(e, "ide_activity", 1)
         /\ b.distractionEvents = a.distractionEvents + (IF e.type = "distraction_detected" THEN 1 ELSE 0)
         /\ b.gitCommits = a.gitCommits + (IF e.type = "git_commit" THEN 1 ELSE 0)
         /\ b.manualCheckins = a.manualCheckins + (IF e.type = "manual_checkin" THEN 1 ELSE 0)
         /\ a.zeroDiffCommits <= b.zeroDiffCommits
<1>1. Append(s, e) \in Seq(TEvent)
  OBVIOUS
<1>2. /\ a \in Aggregates
      /\ a.focusMinutes = Minutes(s, "focus_session_ended", 0)
      /\ a.idleMinutes = Minutes(s, "idle_detected", 5)
      /\ a.ideMinutes = Minutes(s, "ide_activity", 1)
      /\ a.distractionEvents = Number(s, "distraction_detected")
      /\ a.gitCommits = Number(s, "git_commit")
      /\ a.manualCheckins = Number(s, "manual_checkin")
      /\ a.zeroDiffCommits = Emptied(s)
  BY AggregatesAre
<1>3. PICK r \in Seq(TEvent) : r = Append(s, e)
  BY <1>1
<1>4. /\ b \in Aggregates
      /\ b.focusMinutes = Minutes(r, "focus_session_ended", 0)
      /\ b.idleMinutes = Minutes(r, "idle_detected", 5)
      /\ b.ideMinutes = Minutes(r, "ide_activity", 1)
      /\ b.distractionEvents = Number(r, "distraction_detected")
      /\ b.gitCommits = Number(r, "git_commit")
      /\ b.manualCheckins = Number(r, "manual_checkin")
      /\ b.zeroDiffCommits = Emptied(r)
  BY <1>3, AggregatesAre
<1>5. /\ b.focusMinutes = a.focusMinutes + CountedMinutes(e, "focus_session_ended", 0)
      /\ b.idleMinutes = a.idleMinutes + CountedMinutes(e, "idle_detected", 5)
      /\ b.ideMinutes = a.ideMinutes + CountedMinutes(e, "ide_activity", 1)
  BY <1>2, <1>3, <1>4, MinutesAfter
<1>6. /\ b.distractionEvents = a.distractionEvents + (IF e.type = "distraction_detected" THEN 1 ELSE 0)
      /\ b.gitCommits = a.gitCommits + (IF e.type = "git_commit" THEN 1 ELSE 0)
      /\ b.manualCheckins = a.manualCheckins + (IF e.type = "manual_checkin" THEN 1 ELSE 0)
  BY <1>2, <1>3, <1>4, NumberAfter
<1>7. a.zeroDiffCommits <= b.zeroDiffCommits
  BY <1>2, <1>3, <1>4, PartsAfter
<1>8. QED
  BY <1>2, <1>4, <1>5, <1>6, <1>7

(* A list of flags that are raised or not. *)
LEMMA FlagsAre ==
  ASSUME NEW a \in Aggregates, NEW d
  PROVE  ToSet(detectAnomalies(a, d)) =
           {f \in {"git_commits_spike", "ide_no_commits", "round_mostly_idle", "zero_diff_commits"} :
              \/ f = "git_commits_spike" /\ 60 * a.gitCommits > 20 * d
              \/ f = "ide_no_commits" /\ a.ideMinutes >= 12 * 60 /\ a.gitCommits = 0
              \/ f = "round_mostly_idle" /\ 10 * a.idleMinutes >= 9 * d
              \/ f = "zero_diff_commits" /\ a.zeroDiffCommits > 0}
<1> DEFINE FlagNames == {"git_commits_spike", "ide_no_commits", "round_mostly_idle", "zero_diff_commits"}
           One(name, raised) == IF raised THEN <<name>> ELSE <<>>
           w == One("git_commits_spike", 60 * a.gitCommits > 20 * d)
           x == One("ide_no_commits", a.ideMinutes >= 12 * 60 /\ a.gitCommits = 0)
           y == One("round_mostly_idle", 10 * a.idleMinutes >= 9 * d)
           z == One("zero_diff_commits", a.zeroDiffCommits > 0)
<1>1. detectAnomalies(a, d) = w \o x \o y \o z
  BY DEF detectAnomalies
<1>2. \A s, t \in Seq(FlagNames) : s \o t \in Seq(FlagNames) /\ ToSet(s \o t) = ToSet(s) \cup ToSet(t)
  <2> SUFFICES ASSUME NEW s \in Seq(FlagNames), NEW t \in Seq(FlagNames)
               PROVE  s \o t \in Seq(FlagNames) /\ ToSet(s \o t) = ToSet(s) \cup ToSet(t)
    OBVIOUS
  <2> HIDE DEF FlagNames
  <2>1. PICK m \in Nat, n \in Nat : m = Len(s) /\ n = Len(t)
    OBVIOUS
  <2>2. PICK u : u = s \o t
    OBVIOUS
  <2>3. /\ u \in Seq(FlagNames) /\ DOMAIN u = 1..(m + n) /\ DOMAIN s = 1..m /\ DOMAIN t = 1..n
        /\ \A i \in 1..m : u[i] = s[i]
        /\ \A i \in (m + 1)..(m + n) : u[i] = t[i - m]
    BY <2>1, <2>2
  <2>4. ToSet(u) \subseteq ToSet(s) \cup ToSet(t)
    <3>1. ASSUME NEW i \in 1..(m + n) PROVE u[i] \in ToSet(s) \cup ToSet(t)
      <4>1. CASE i \in 1..m
        BY <4>1, <2>3 DEF ToSet
      <4>2. CASE i \in (m + 1)..(m + n)
        <5>1. i - m \in 1..n
          BY <4>2
        <5>2. QED
          BY <4>2, <5>1, <2>3 DEF ToSet
      <4>3. QED
        BY <4>1, <4>2
    <3>2. QED
      BY <3>1, <2>3 DEF ToSet
  <2>5. ToSet(s) \subseteq ToSet(u)
    <3>1. \A i \in 1..m : i \in 1..(m + n)
      OBVIOUS
    <3>2. QED
      BY <3>1, <2>3 DEF ToSet
  <2>6. ToSet(t) \subseteq ToSet(u)
    <3>1. ASSUME NEW i \in 1..n PROVE t[i] \in ToSet(u)
      <4>1. m + i \in (m + 1)..(m + n) /\ (m + i) - m = i /\ m + i \in 1..(m + n)
        OBVIOUS
      <4>2. u[m + i] = t[i]
        BY <4>1, <2>3
      <4>3. QED
        BY <4>1, <4>2, <2>3 DEF ToSet
    <3>2. QED
      BY <3>1, <2>3 DEF ToSet
  <2>7. QED
    BY <2>2, <2>3, <2>4, <2>5, <2>6
<1>3. \A name \in FlagNames : <<name>> \in Seq(FlagNames) /\ ToSet(<<name>>) = {name}
  BY DEF ToSet
<1>31. <<>> \in Seq(FlagNames) /\ ToSet(<<>>) = {}
  BY DEF ToSet
<1>4. /\ "git_commits_spike" \in FlagNames /\ "ide_no_commits" \in FlagNames
      /\ "round_mostly_idle" \in FlagNames /\ "zero_diff_commits" \in FlagNames
  OBVIOUS
<1> HIDE DEF FlagNames
<1>51. w \in Seq(FlagNames) /\ ToSet(w) = IF 60 * a.gitCommits > 20 * d THEN {"git_commits_spike"} ELSE {}
  BY <1>3, <1>31, <1>4
<1>52. x \in Seq(FlagNames) /\ ToSet(x) = IF a.ideMinutes >= 12 * 60 /\ a.gitCommits = 0 THEN {"ide_no_commits"} ELSE {}
  BY <1>3, <1>31, <1>4
<1>53. y \in Seq(FlagNames) /\ ToSet(y) = IF 10 * a.idleMinutes >= 9 * d THEN {"round_mostly_idle"} ELSE {}
  BY <1>3, <1>31, <1>4
<1>54. z \in Seq(FlagNames) /\ ToSet(z) = IF a.zeroDiffCommits > 0 THEN {"zero_diff_commits"} ELSE {}
  BY <1>3, <1>31, <1>4
<1> HIDE DEF w, x, y, z
<1>6. ToSet(w \o x \o y \o z) = ToSet(w) \cup ToSet(x) \cup ToSet(y) \cup ToSet(z)
  <2>1. w \o x \in Seq(FlagNames) /\ ToSet(w \o x) = ToSet(w) \cup ToSet(x)
    BY <1>2, <1>51, <1>52
  <2>2. w \o x \o y \in Seq(FlagNames) /\ ToSet(w \o x \o y) = ToSet(w \o x) \cup ToSet(y)
    BY <1>2, <1>53, <2>1
  <2>3. ToSet(w \o x \o y \o z) = ToSet(w \o x \o y) \cup ToSet(z)
    BY <1>2, <1>54, <2>2
  <2>4. QED
    BY <2>1, <2>2, <2>3
<1>7. QED
  BY <1>1, <1>51, <1>52, <1>53, <1>54, <1>6

LEMMA TelemetryTyped == Telemetry \subseteq TEvent
<1>1. EventMinutes \subseteq Int
  BY JudgementAssumption
<1>2. TelemetryEvent(Simple, {0}) \subseteq TEvent
  BY DEF TelemetryEvent, TEvent
<1>3. TelemetryEvent(Measured, EventMinutes) \subseteq TEvent
  BY <1>1 DEF TelemetryEvent, TEvent
<1>4. QED
  BY <1>2, <1>3 DEF Telemetry, Measured

(* One more event and the score. *)
LEMMA ScoreStep ==
  ASSUME NEW s \in Seq(TEvent), NEW e \in TEvent, NEW d \in Nat \ {0}, NEW t \in Int,
         NEW was, NEW is,
         was = computeBreakdown(aggregateEvents(s), d, t).total,
         is = computeBreakdown(aggregateEvents(Append(s, e)), d, t).total
  PROVE  /\ is \in 0..Unit
         /\ e.type = "distraction_detected" => is <= was
         /\ e.type \in {"git_commit", "manual_checkin"} => is >= was
         /\ e.type \in {"focus_session_ended", "ide_activity"} => (e.minutes >= 0 => is >= was)
         /\ e.type \in {"app_switched", "terminal_activity", "idle_detected"} => is = was
<1>1. PICK a, b : a = aggregateEvents(s) /\ b = aggregateEvents(Append(s, e))
  OBVIOUS
<1>2. /\ a \in Aggregates /\ b \in Aggregates
      /\ b.focusMinutes = a.focusMinutes + CountedMinutes(e, "focus_session_ended", 0)
      /\ b.ideMinutes = a.ideMinutes + CountedMinutes(e, "ide_activity", 1)
      /\ b.distractionEvents = a.distractionEvents + (IF e.type = "distraction_detected" THEN 1 ELSE 0)
      /\ b.gitCommits = a.gitCommits + (IF e.type = "git_commit" THEN 1 ELSE 0)
      /\ b.manualCheckins = a.manualCheckins + (IF e.type = "manual_checkin" THEN 1 ELSE 0)
  BY <1>1, AggregatesAfter
<1>3. /\ a.focusMinutes \in Int /\ a.ideMinutes \in Int /\ a.distractionEvents \in Nat
      /\ a.gitCommits \in Nat /\ a.manualCheckins \in Nat /\ e.minutes \in Int
  BY <1>2 DEF Aggregates, TEvent
<1>4. NoLess(a, b) => was <= is
  BY <1>1, <1>2, ScoreMonotone
<1>5. NoLess(b, a) => is <= was
  BY <1>1, <1>2, ScoreMonotone
<1>6. was \in 0..Unit /\ is \in 0..Unit
  BY <1>1, <1>2, ScoreBounded
<1>7. e.type = "distraction_detected" => NoLess(b, a)
  BY <1>2, <1>3 DEF NoLess, CountedMinutes
<1>8. e.type \in {"git_commit", "manual_checkin"} => NoLess(a, b)
  BY <1>2, <1>3 DEF NoLess, CountedMinutes
<1>9. e.type \in {"focus_session_ended", "ide_activity"} /\ e.minutes >= 0 => NoLess(a, b)
  BY <1>2, <1>3 DEF NoLess, CountedMinutes
<1>10. e.type \in {"app_switched", "terminal_activity", "idle_detected"} => NoLess(a, b) /\ NoLess(b, a)
  BY <1>2, <1>3 DEF NoLess, CountedMinutes
<1>11. \A n \in 0..Unit : n \in Int
  BY DEF Unit
<1>12. QED
  BY <1>4, <1>5, <1>6, <1>7, <1>8, <1>9, <1>10, <1>11

LEMMA FlagsStep ==
  ASSUME NEW s \in Seq(TEvent), NEW e \in TEvent, NEW d \in Nat \ {0},
         NEW f \in ToSet(detectAnomalies(aggregateEvents(s), d)),
         f \notin ToSet(detectAnomalies(aggregateEvents(Append(s, e)), d))
  PROVE  (f = "ide_no_commits" /\ e.type = "git_commit") \/ e.minutes < 0
<1>1. PICK a, b : a = aggregateEvents(s) /\ b = aggregateEvents(Append(s, e))
  OBVIOUS
<1>2. /\ a \in Aggregates /\ b \in Aggregates
      /\ b.idleMinutes = a.idleMinutes + CountedMinutes(e, "idle_detected", 5)
      /\ b.ideMinutes = a.ideMinutes + CountedMinutes(e, "ide_activity", 1)
      /\ b.gitCommits = a.gitCommits + (IF e.type = "git_commit" THEN 1 ELSE 0)
      /\ a.zeroDiffCommits <= b.zeroDiffCommits
  BY <1>1, AggregatesAfter
<1>3. /\ a.idleMinutes \in Int /\ a.ideMinutes \in Int /\ a.gitCommits \in Nat /\ e.minutes \in Int
      /\ a.zeroDiffCommits \in Nat /\ b.zeroDiffCommits \in Nat
  BY <1>2 DEF Aggregates, TEvent
<1>4. /\ f \in {"git_commits_spike", "ide_no_commits", "round_mostly_idle", "zero_diff_commits"}
      /\ \/ f = "git_commits_spike" /\ 60 * a.gitCommits > 20 * d
         \/ f = "ide_no_commits" /\ a.ideMinutes >= 12 * 60 /\ a.gitCommits = 0
         \/ f = "round_mostly_idle" /\ 10 * a.idleMinutes >= 9 * d
         \/ f = "zero_diff_commits" /\ a.zeroDiffCommits > 0
  BY <1>1, <1>2, FlagsAre
<1>5. ~ (\/ f = "git_commits_spike" /\ 60 * b.gitCommits > 20 * d
         \/ f = "ide_no_commits" /\ b.ideMinutes >= 12 * 60 /\ b.gitCommits = 0
         \/ f = "round_mostly_idle" /\ 10 * b.idleMinutes >= 9 * d
         \/ f = "zero_diff_commits" /\ b.zeroDiffCommits > 0)
  BY <1>1, <1>2, <1>4, FlagsAre
<1>6. SUFFICES ASSUME e.minutes >= 0, f # "ide_no_commits" \/ e.type # "git_commit" PROVE FALSE
  BY <1>3
<1>7. /\ CountedMinutes(e, "idle_detected", 5) \in Nat /\ CountedMinutes(e, "ide_activity", 1) \in Nat
  BY <1>3, <1>6 DEF CountedMinutes
<1>8. a.idleMinutes <= b.idleMinutes /\ a.ideMinutes <= b.ideMinutes /\ b.idleMinutes \in Int
  <2>1. PICK p \in Nat, o \in Nat :
             p = CountedMinutes(e, "idle_detected", 5) /\ o = CountedMinutes(e, "ide_activity", 1)
    BY <1>7
  <2>2. b.idleMinutes = a.idleMinutes + p /\ b.ideMinutes = a.ideMinutes + o
    BY <1>2, <2>1
  <2>3. PICK x \in Int, y \in Int : x = a.idleMinutes /\ y = a.ideMinutes
    BY <1>3
  <2>4. x <= x + p /\ y <= y + o /\ x + p \in Int
    OBVIOUS
  <2>5. QED
    BY <2>2, <2>3, <2>4
<1>9. a.gitCommits <= b.gitCommits /\ b.gitCommits \in Nat
  BY <1>2, <1>3
<1>10. CASE f = "git_commits_spike" /\ 60 * a.gitCommits > 20 * d
  BY <1>10, <1>3, <1>5, <1>9
<1>11. CASE f = "ide_no_commits" /\ a.ideMinutes >= 12 * 60 /\ a.gitCommits = 0
  <2>1. b.gitCommits = 0 /\ b.ideMinutes >= 12 * 60
    BY <1>11, <1>2, <1>3, <1>6, <1>7
  <2>2. QED
    BY <1>11, <1>5, <2>1
<1>12. CASE f = "round_mostly_idle" /\ 10 * a.idleMinutes >= 9 * d
  BY <1>12, <1>3, <1>5, <1>8
<1>13. CASE f = "zero_diff_commits" /\ a.zeroDiffCommits > 0
  BY <1>13, <1>2, <1>3, <1>5
<1>14. QED
  BY <1>4, <1>10, <1>11, <1>12, <1>13

LEMMA ObservedTyped ==
  ASSUME StreamTyped, Observe
  PROVE  \E e \in Telemetry : stream' = Append(stream, e)
BY DEF Observe

LEMMA ObserveScores ==
  ASSUME StreamTyped, Observe
  PROVE  LET e == stream'[Len(stream')]  was == Score(stream)  is == Score(stream') IN
         /\ is \in 0..Unit
         /\ CASE e.type = "distraction_detected" -> is <= was
              [] e.type \in {"git_commit", "manual_checkin"} -> is >= was
              [] e.type \in {"focus_session_ended", "ide_activity"} ->
                     e.minutes >= 0 => is >= was
              [] OTHER -> is = was
         /\ \A flag \in Flags(stream) \ Flags(stream') :
               \/ flag = "ide_no_commits" /\ e.type = "git_commit"
               \/ e.minutes < 0
<1>1. reader = "round" /\ UNCHANGED <<reader, duration, timePressure>>
  BY DEF Observe
<1>2. PICK e \in Telemetry : stream' = Append(stream, e)
  BY ObservedTyped
<1>3. stream \in Seq(TEvent) /\ e \in TEvent /\ duration \in Nat \ {0} /\ timePressure \in Int
  BY <1>1, TelemetryTyped DEF StreamTyped
<1>4. stream'[Len(stream')] = e
  BY <1>2, <1>3
<1>5. PICK was, is : was = Score(stream) /\ is = Score(stream')
  OBVIOUS
<1>6. /\ was = computeBreakdown(aggregateEvents(stream), duration, timePressure).total
      /\ is = computeBreakdown(aggregateEvents(Append(stream, e)), duration, timePressure).total
  BY <1>1, <1>2, <1>5 DEF Score
<1>7. /\ is \in 0..Unit
      /\ e.type = "distraction_detected" => is <= was
      /\ e.type \in {"git_commit", "manual_checkin"} => is >= was
      /\ e.type \in {"focus_session_ended", "ide_activity"} => (e.minutes >= 0 => is >= was)
      /\ e.type \in {"app_switched", "terminal_activity", "idle_detected"} => is = was
  BY <1>3, <1>6, ScoreStep
<1>8. ASSUME NEW f \in Flags(stream), f \notin Flags(stream')
      PROVE  (f = "ide_no_commits" /\ e.type = "git_commit") \/ e.minutes < 0
  <2>1. /\ Flags(stream) = ToSet(detectAnomalies(aggregateEvents(stream), duration))
        /\ Flags(stream') = ToSet(detectAnomalies(aggregateEvents(Append(stream, e)), duration))
    BY <1>1, <1>2 DEF Flags
  <2>2. QED
    BY <1>3, <1>8, <2>1, FlagsStep
<1>9. e.type \in {"distraction_detected", "git_commit", "manual_checkin", "focus_session_ended",
                  "ide_activity", "app_switched", "terminal_activity", "idle_detected"}
  BY <1>3 DEF TEvent, Simple, Measured
<1>10. (CASE e.type = "distraction_detected" -> is <= was
          [] e.type \in {"git_commit", "manual_checkin"} -> is >= was
          [] e.type \in {"focus_session_ended", "ide_activity"} ->
                 (e.minutes >= 0 => is >= was)
          [] OTHER -> is = was)
  BY <1>7, <1>9
<1>11. QED
  BY <1>4, <1>5, <1>7, <1>8, <1>10

-----------------------------------------------------------------------------
(* The pass of the analyzer over the events of a request.                  *)

BASteps == [p \in BA!Pass |-> [e \in BA!Event |-> BA!Step(p, e)]]

LEMMA PassTyped2 ==
  ASSUME NEW p \in BA!Pass
  PROVE  /\ p.started \in Int /\ p.failed \in Int /\ p.focus \in Seq(Int) /\ p.gaps \in Seq(Int)
         /\ p.succeeded \in Nat /\ p.failures \in Nat
BY DEF BA!Pass

(* What one event of a request does to each part of the pass. *)
LEMMA StepParts ==
  ASSUME NEW p \in BA!Pass, NEW e \in BA!Event, NEW q, q = BA!Step(p, e)
  PROVE  \/ /\ e.type = "focus_session_started"
            /\ q = [p EXCEPT !.started = e.ts]
         \/ /\ e.type = "focus_session_ended" /\ p.started # 0 /\ e.ts > p.started
            /\ q = [p EXCEPT !.focus = Append(@, e.ts - p.started), !.started = 0]
         \/ /\ e.type = "focus_session_ended" /\ ~ (p.started # 0 /\ e.ts > p.started) /\ e.claimed
            /\ q = [p EXCEPT !.focus = Append(@, e.minutes)]
         \/ /\ e.type = "round_failed"
            /\ q = [p EXCEPT !.failed = e.ts, !.failures = @ + 1]
         \/ /\ e.type = "round_succeeded" /\ p.failed = 0
            /\ q = [p EXCEPT !.succeeded = @ + 1]
         \/ /\ e.type = "round_succeeded" /\ p.failed # 0
            /\ q = [p EXCEPT !.succeeded = @ + 1, !.gaps = Append(@, e.ts - p.failed), !.failed = 0]
         \/ q = p
<1>1. CASE e.type = "focus_session_started"
  BY <1>1 DEF BA!Step
<1>2. CASE e.type = "focus_session_ended"
  BY <1>2 DEF BA!Step, BA!FocusEnded, BA!NoTime
<1>3. CASE e.type = "round_failed"
  BY <1>3 DEF BA!Step
<1>4. CASE e.type = "round_succeeded"
  BY <1>4 DEF BA!Step, BA!RoundSucceeded, BA!NoTime
<1>5. CASE e.type \notin {"focus_session_started", "focus_session_ended", "round_failed", "round_succeeded"}
  BY <1>5 DEF BA!Step
<1>6. QED
  BY <1>1, <1>2, <1>3, <1>4, <1>5

LEMMA StepTyped ==
  ASSUME NEW p \in BA!Pass, NEW e \in BA!Event
  PROVE  BA!Step(p, e) \in BA!Pass
<1>1. PICK q : q = BA!Step(p, e)
  OBVIOUS
<1>2. /\ p.started \in Int /\ p.failed \in Int /\ p.focus \in Seq(Int) /\ p.gaps \in Seq(Int)
      /\ p.succeeded \in Nat /\ p.failures \in Nat /\ e.ts \in Int /\ e.minutes \in Int
  BY PassTyped2 DEF BA!Event
<1>3. /\ Append(p.focus, e.ts - p.started) \in Seq(Int) /\ Append(p.focus, e.minutes) \in Seq(Int)
      /\ Append(p.gaps, e.ts - p.failed) \in Seq(Int)
  <2>1. e.ts - p.started \in Int /\ e.ts - p.failed \in Int
    BY <1>2
  <2>2. QED
    BY <1>2, <2>1
<1>4. 0 \in Int /\ p.succeeded + 1 \in Nat /\ p.failures + 1 \in Nat
  BY <1>2
<1>5. q \in BA!Pass
  <2>4. CASE q = [p EXCEPT !.started = e.ts]
    BY <2>4, <1>2 DEF BA!Pass
  <2>5. CASE q = [p EXCEPT !.focus = Append(@, e.ts - p.started), !.started = 0]
    BY <2>5, <1>2, <1>3, <1>4 DEF BA!Pass
  <2>6. CASE q = [p EXCEPT !.focus = Append(@, e.minutes)]
    BY <2>6, <1>2, <1>3 DEF BA!Pass
  <2>7. CASE q = [p EXCEPT !.failed = e.ts, !.failures = @ + 1]
    BY <2>7, <1>2, <1>4 DEF BA!Pass
  <2>8. CASE q = [p EXCEPT !.succeeded = @ + 1]
    BY <2>8, <1>2, <1>4 DEF BA!Pass
  <2>9. CASE q = [p EXCEPT !.succeeded = @ + 1, !.gaps = Append(@, e.ts - p.failed), !.failed = 0]
    BY <2>9, <1>2, <1>3, <1>4 DEF BA!Pass
  <2>10. QED
    BY <1>1, <2>4, <2>5, <2>6, <2>7, <2>8, <2>9, StepParts
<1>6. QED
  BY <1>1, <1>5

LEMMA PassedContinues ==
  /\ BA!Passed(<<>>) = BA!NewPass
  /\ \A s \in Seq(BA!Event), e \in BA!Event :
        BA!Passed(s) \in BA!Pass /\ BA!Passed(Append(s, e)) = BA!Step(BA!Passed(s), e)
<1>1. PICK step : step = BASteps
  OBVIOUS
<1>2. BA!NewPass \in BA!Pass
  <2>1. <<>> \in Seq(Int) /\ 0 \in Int /\ 0 \in Nat
    OBVIOUS
  <2>2. QED
    BY <2>1 DEF BA!NewPass, BA!Pass, BA!NoTime
<1>3. Folding(BA!Pass, BA!Event, step, BA!NewPass)
  BY <1>1, <1>2, StepTyped DEF Folding, BASteps
<1>4. Continues(BA!Pass, BA!Event, step, BA!NewPass)
  BY <1>3, FoldContinues
<1>5. \A s : BA!Passed(s) = Folded(step, BA!NewPass, s)
  BY <1>1 DEF BASteps, BA!Passed, BA!Folded, Folded
<1>6. \A p \in BA!Pass, e \in BA!Event : step[p][e] = BA!Step(p, e)
  BY <1>1 DEF BASteps
<1>7. QED
  BY <1>4, <1>5, <1>6 DEF Continues

(* The bounds, for numbers. *)
Bounded(first, last, claimed, st, fa, sf, sg) ==
  /\ st # 0 => st \in first..last
  /\ fa # 0 => fa \in first..last
  /\ sf <= claimed + (IF st = 0 THEN last ELSE st) - first
  /\ sg <= (IF fa = 0 THEN last ELSE fa) - first

LEMMA BoundsMove ==
  ASSUME NEW first \in Int, NEW last \in Int, NEW at \in Int, NEW claimed \in Int, NEW c \in Int,
         NEW m \in Int, NEW st \in Int, NEW fa \in Int, NEW sf \in Int, NEW sg \in Int,
         first <= last, last <= at, claimed <= c, claimed + m <= c,
         Bounded(first, last, claimed, st, fa, sf, sg)
  PROVE  /\ Bounded(first, at, c, st, fa, sf, sg)
         /\ Bounded(first, at, c, at, fa, sf, sg)
         /\ st # 0 => Bounded(first, at, c, 0, fa, sf + (at - st), sg)
         /\ Bounded(first, at, c, st, fa, sf + m, sg)
         /\ Bounded(first, at, c, st, at, sf, sg)
         /\ fa # 0 => Bounded(first, at, c, st, 0, sf, sg + (at - fa))
<1>1. /\ st # 0 => first <= st /\ st <= last
      /\ fa # 0 => first <= fa /\ fa <= last
      /\ st = 0 => sf <= claimed + last - first
      /\ st # 0 => sf <= claimed + st - first
      /\ fa = 0 => sg <= last - first
      /\ fa # 0 => sg <= fa - first
  BY DEF Bounded
<1>2. sf <= claimed + last - first /\ sg <= last - first
  BY <1>1
<1>3. QED
  BY <1>1, <1>2 DEF Bounded

LEMMA StepWithin ==
  ASSUME NEW p \in BA!Pass, NEW e \in BA!Event, NEW first \in Int, NEW last \in Int, NEW claimed \in Int,
         first <= last, last <= e.ts, PassWithin(first, last, claimed, p)
  PROVE  PassWithin(first, e.ts, claimed + AtLeast(0, e.minutes), BA!Step(p, e))
<1>1. PICK q : q = BA!Step(p, e)
  OBVIOUS
<1>2. /\ p.started \in Int /\ p.failed \in Int /\ p.focus \in Seq(Int) /\ p.gaps \in Seq(Int)
      /\ e.ts \in Int /\ e.minutes \in Int
  BY PassTyped2 DEF BA!Event
<1>3. PICK c \in Int : c = claimed + AtLeast(0, e.minutes)
  BY <1>2 DEF AtLeast
<1>4. claimed <= c /\ claimed + e.minutes <= c
  BY <1>2, <1>3 DEF AtLeast
<1>5. \A x, d, l, m :
        PassWithin(x, l, d, m) <=> /\ Bounded(x, l, d, m.started, m.failed, SumOf(m.focus), SumOf(m.gaps))
                                   /\ \A i \in DOMAIN m.gaps : m.gaps[i] >= 0
  BY DEF PassWithin, Bounded, BA!NoTime
<1>6. /\ SumOf(p.focus) \in Int /\ SumOf(p.gaps) \in Int
      /\ \A x \in Int : /\ SumOf(Append(p.focus, x)) = SumOf(p.focus) + x
                        /\ SumOf(Append(p.gaps, x)) = SumOf(p.gaps) + x
  BY <1>2, SumContinues
<1>60. PICK at \in Int, st \in Int, fa \in Int, sf \in Int, sg \in Int, m \in Int :
         /\ at = e.ts /\ st = p.started /\ fa = p.failed /\ m = e.minutes
         /\ sf = SumOf(p.focus) /\ sg = SumOf(p.gaps)
  BY <1>2, <1>6
<1>7. SUFFICES /\ Bounded(first, at, c, q.started, q.failed, SumOf(q.focus), SumOf(q.gaps))
               /\ \A i \in DOMAIN q.gaps : q.gaps[i] >= 0
  BY <1>1, <1>3, <1>5, <1>60
<1>71. /\ Bounded(first, last, claimed, st, fa, sf, sg)
       /\ \A i \in DOMAIN p.gaps : p.gaps[i] >= 0
  BY <1>5, <1>60
<1>8. /\ Bounded(first, at, c, st, fa, sf, sg)
      /\ Bounded(first, at, c, at, fa, sf, sg)
      /\ st # 0 => Bounded(first, at, c, 0, fa, sf + (at - st), sg)
      /\ Bounded(first, at, c, st, fa, sf + m, sg)
      /\ Bounded(first, at, c, st, at, sf, sg)
      /\ fa # 0 => Bounded(first, at, c, st, 0, sf, sg + (at - fa))
  BY <1>4, <1>60, <1>71, BoundsMove
<1>81. /\ at - st \in Int /\ at - fa \in Int
  OBVIOUS
<1>9. CASE q = [p EXCEPT !.started = e.ts]
  <2>1. q.started = e.ts /\ q.failed = p.failed /\ q.focus = p.focus /\ q.gaps = p.gaps
    BY <1>9 DEF BA!Pass
  <2>2. QED
    BY <2>1, <1>8, <1>60, <1>71
<1>10. CASE p.started # 0 /\ e.ts > p.started
            /\ q = [p EXCEPT !.focus = Append(@, e.ts - p.started), !.started = 0]
  <2>1. /\ q.started = 0 /\ q.failed = p.failed /\ q.gaps = p.gaps
        /\ q.focus = Append(p.focus, e.ts - p.started)
    BY <1>10 DEF BA!Pass
  <2>2. SumOf(q.focus) = sf + (at - st)
    BY <2>1, <1>6, <1>60, <1>81
  <2>3. QED
    BY <2>1, <2>2, <1>8, <1>10, <1>60, <1>71
<1>11. CASE q = [p EXCEPT !.focus = Append(@, e.minutes)]
  <2>1. /\ q.started = p.started /\ q.failed = p.failed /\ q.gaps = p.gaps
        /\ q.focus = Append(p.focus, e.minutes)
    BY <1>11 DEF BA!Pass
  <2>2. SumOf(q.focus) = sf + m
    BY <2>1, <1>6, <1>60
  <2>3. QED
    BY <2>1, <2>2, <1>8, <1>60, <1>71
<1>12. CASE q = [p EXCEPT !.failed = e.ts, !.failures = @ + 1]
  <2>1. q.started = p.started /\ q.failed = e.ts /\ q.focus = p.focus /\ q.gaps = p.gaps
    BY <1>12 DEF BA!Pass
  <2>2. QED
    BY <2>1, <1>8, <1>60, <1>71
<1>13. CASE q = [p EXCEPT !.succeeded = @ + 1] \/ q = p
  <2>1. q.started = p.started /\ q.failed = p.failed /\ q.focus = p.focus /\ q.gaps = p.gaps
    BY <1>13 DEF BA!Pass
  <2>2. QED
    BY <2>1, <1>8, <1>60, <1>71
<1>14. CASE p.failed # 0
            /\ q = [p EXCEPT !.succeeded = @ + 1, !.gaps = Append(@, e.ts - p.failed), !.failed = 0]
  <2>1. /\ q.started = p.started /\ q.failed = 0 /\ q.focus = p.focus
        /\ q.gaps = Append(p.gaps, e.ts - p.failed)
    BY <1>14 DEF BA!Pass
  <2>2. SumOf(q.gaps) = sg + (at - fa)
    BY <2>1, <1>6, <1>60, <1>81
  <2>3. at - fa >= 0
    BY <1>14, <1>60, <1>71 DEF Bounded
  <2>4. \A i \in DOMAIN q.gaps : q.gaps[i] >= 0
    <3>1. PICK n \in Nat : n = Len(p.gaps)
      BY <1>2
    <3>2. PICK g, h, x : g = p.gaps /\ h = q.gaps /\ x = at - fa
      OBVIOUS
    <3>21. g \in Seq(Int) /\ x \in Int
      BY <3>2, <1>2, <1>81
    <3>3. h = Append(g, x)
      BY <2>1, <3>2, <1>60
    <3>4. /\ DOMAIN g = 1..n /\ DOMAIN h = 1..(n + 1)
          /\ h[n + 1] = x /\ \A i \in 1..n : h[i] = g[i]
      BY <3>1, <3>2, <3>21, <3>3
    <3>5. /\ x >= 0 /\ \A i \in DOMAIN g : g[i] >= 0
      BY <2>3, <3>2, <1>71
    <3>6. ASSUME NEW i \in 1..(n + 1) PROVE h[i] >= 0
      <4>1. CASE i = n + 1
        BY <4>1, <3>4, <3>5
      <4>2. CASE i \in 1..n
        <5>1. g[i] >= 0 /\ h[i] = g[i]
          BY <4>2, <3>4, <3>5
        <5>2. QED
          BY <5>1
      <4>3. QED
        BY <4>1, <4>2
    <3>7. QED
      BY <3>2, <3>4, <3>6
  <2>5. QED
    BY <2>1, <2>2, <2>4, <1>8, <1>14, <1>60, <1>71
<1>15. QED
  BY <1>1, <1>9, <1>10, <1>11, <1>12, <1>13, <1>14, StepParts

LEMMA ClaimedContinues ==
  /\ Claimed(<<>>) = 0
  /\ \A s \in Seq(BA!Event), e \in BA!Event :
        Claimed(s) \in Int /\ Claimed(Append(s, e)) = Claimed(s) + AtLeast(0, e.minutes)
<1>1. PICK g : g = [x \in BA!Event |-> AtLeast(0, x.minutes)]
  OBVIOUS
<1>2. Maps(g, BA!Event, Int)
  <2>1. \A x \in BA!Event : AtLeast(0, x.minutes) \in Int
    BY DEF AtLeast, BA!Event
  <2>2. QED
    BY <1>1, <2>1 DEF Maps
<1>3. \A q \in Seq(BA!Event) : Claimed(q) = SumOf(Mapped(g, q))
  <2> SUFFICES ASSUME NEW q \in Seq(BA!Event) PROVE Claimed(q) = SumOf(Mapped(g, q))
    OBVIOUS
  <2>1. \A i \in DOMAIN q : q[i] \in BA!Event
    OBVIOUS
  <2>2. \A i \in DOMAIN q : g[q[i]] = AtLeast(0, q[i].minutes)
    BY <1>1, <2>1
  <2>3. [i \in DOMAIN q |-> AtLeast(0, q[i].minutes)] = Mapped(g, q)
    BY <2>2 DEF Mapped
  <2>4. QED
    BY <2>3 DEF Claimed
<1>4. ASSUME NEW s \in Seq(BA!Event), NEW e \in BA!Event
      PROVE  Claimed(s) \in Int /\ Claimed(Append(s, e)) = Claimed(s) + AtLeast(0, e.minutes)
  <2>1. Mapped(g, s) \in Seq(Int) /\ Mapped(g, Append(s, e)) = Append(Mapped(g, s), g[e])
    BY <1>2, MapAppend
  <2>2. Append(s, e) \in Seq(BA!Event)
    OBVIOUS
  <2>3. g[e] = AtLeast(0, e.minutes) /\ g[e] \in Int
    BY <1>1 DEF AtLeast, BA!Event
  <2>4. SumOf(Mapped(g, s)) \in Int /\ SumOf(Append(Mapped(g, s), g[e])) = SumOf(Mapped(g, s)) + g[e]
    BY <2>1, <2>3, SumContinues
  <2>5. QED
    BY <1>3, <2>1, <2>2, <2>3, <2>4
<1>5. Claimed(<<>>) = 0
  <2>1. <<>> \in Seq(BA!Event) /\ Mapped(g, <<>>) = <<>>
    BY DEF Mapped
  <2>2. QED
    BY <1>3, <2>1, SumContinues
<1>6. QED
  BY <1>4, <1>5

LEMMA ObserveKeeps ==
  ASSUME StreamInv, Observe
  PROVE  StreamInv'
<1>1. reader = "round" /\ UNCHANGED <<reader, duration, timePressure>>
  BY DEF Observe
<1>2. PICK e \in Telemetry : stream' = Append(stream, e)
  BY ObservedTyped DEF StreamInv
<1>3. StreamTyped'
  BY <1>1, <1>2 DEF StreamInv, StreamTyped
<1>4. QED
  BY <1>1, <1>3 DEF StreamInv, RecordsInOrder, PassMeasured

(* The records of past rounds.                                             *)
Scored == [day : Nat, hour : Nat, focus : Int, score : Int]

LEMMA ScoredHasDay == \A r \in Scored : r.day \in Nat
BY DEF Scored

LEMMA RecordKeeps ==
  ASSUME StreamInv, Record
  PROVE  StreamInv'
<1>0. reader = "pattern" /\ UNCHANGED <<reader, duration, timePressure>>
  BY DEF Record
<1> DEFINE last == IF stream = <<>> THEN 0 ELSE stream[Len(stream)].day
<1>1. stream \in Seq(Scored) /\ \A i, j \in DOMAIN stream : i <= j => stream[i].day <= stream[j].day
  BY <1>0 DEF StreamInv, StreamTyped, RecordsInOrder, Scored
<1>2. PICK n \in Nat : n = Len(stream)
  BY <1>1
<1>3. last \in Nat /\ \A i \in 1..n : stream[i].day \in Nat /\ stream[i].day <= last
  <2>1. \A i \in 1..n : stream[i] \in Scored /\ stream[i].day \in Nat
    BY <1>1, <1>2, ScoredHasDay
  <2>2. CASE stream = <<>>
    BY <2>2, <1>2
  <2>3. CASE stream # <<>>
    <3>1. n \in 1..n /\ last = stream[n].day /\ DOMAIN stream = 1..n
      BY <2>3, <1>1, <1>2
    <3>2. QED
      BY <3>1, <2>1, <1>1
  <2>4. QED
    BY <2>2, <2>3
<1>4. PICK r \in Records : stream' = Append(stream, [r EXCEPT !.day = last + @])
  BY DEF Record
<1>5. r \in Scored
  BY <1>4, JudgementAssumption DEF Scored
<1> HIDE DEF last
<1>6. PICK x : x = [r EXCEPT !.day = last + @]
  OBVIOUS
<1>7. x \in Scored /\ x.day \in Nat /\ last <= x.day
  BY <1>3, <1>5, <1>6 DEF Scored
<1>8. PICK s \in Seq(Scored) : s = stream'
  <2>1. stream' = Append(stream, x)
    BY <1>4, <1>6, Zenon
  <2>2. Append(stream, x) \in Seq(Scored)
    BY <1>1, <1>7, AppendProperties
  <2>3. QED
    BY <2>1, <2>2, Zenon
<1>9. DOMAIN s = 1..(n + 1) /\ s[n + 1] = x /\ \A i \in 1..n : s[i] = stream[i]
  BY <1>1, <1>2, <1>4, <1>6, <1>7, <1>8
<1>90. \A i \in 1..n : s[i].day = stream[i].day
  BY <1>9
<1>91. \A i, j \in 1..n : i <= j => stream[i].day <= stream[j].day
  BY <1>1, <1>2
<1>92. s[n + 1].day = x.day
  BY <1>9
<1>10. ASSUME NEW i \in 1..(n + 1), NEW j \in 1..(n + 1), i <= j PROVE s[i].day <= s[j].day
  <2>1. CASE j \in 1..n
    <3>1. i \in 1..n
      BY <1>10, <2>1
    <3>2. QED
      BY <3>1, <2>1, <1>90, <1>91, <1>10
  <2>2. CASE j = n + 1 /\ i \in 1..n
    BY <2>2, <1>3, <1>7, <1>90, <1>92
  <2>3. CASE i = n + 1 /\ j = n + 1
    BY <2>3, <1>7, <1>92
  <2>4. QED
    BY <2>1, <2>2, <2>3, <1>10
<1>11. StreamTyped'
  BY <1>0, <1>8 DEF StreamInv, StreamTyped, Scored
<1>12. RecordsInOrder'
  BY <1>8, <1>9, <1>10 DEF RecordsInOrder
<1>13. QED
  BY <1>0, <1>11, <1>12 DEF StreamInv, PassMeasured

LEMMA EventHasTime == \A e \in BA!Event : e.ts \in Int
BY DEF BA!Event

LEMMA InOrderAll ==
  ASSUME NEW s \in Seq(BA!Event), InOrder(s)
  PROVE  \A n \in 1..Len(s) : s[1].ts <= s[n].ts
<1>1. \A i \in 1..Len(s) : s[i].ts \in Int
  BY EventHasTime
<1> DEFINE S == {k \in Nat : k + 1 <= Len(s) => s[1].ts <= s[k + 1].ts}
<1>2. 0 \in S
  BY <1>1
<1>3. ASSUME NEW k \in Nat, k \in S PROVE k + 1 \in S
  <2> SUFFICES ASSUME (k + 1) + 1 <= Len(s) PROVE s[1].ts <= s[(k + 1) + 1].ts
    OBVIOUS
  <2>1. s[1].ts <= s[k + 1].ts
    BY <1>3
  <2>2. (k + 1) + 1 \in 2..Len(s) /\ ((k + 1) + 1) - 1 = k + 1
    OBVIOUS
  <2>3. s[k + 1].ts <= s[(k + 1) + 1].ts
    BY <2>2 DEF InOrder
  <2>4. 1 \in 1..Len(s) /\ k + 1 \in 1..Len(s) /\ (k + 1) + 1 \in 1..Len(s)
    OBVIOUS
  <2>5. QED
    BY <2>1, <2>3, <2>4, <1>1
<1> HIDE DEF S
<1>4. \A k \in Nat : k \in S
  BY <1>2, <1>3, Induction
<1>5. ASSUME NEW n \in 1..Len(s) PROVE s[1].ts <= s[n].ts
  <2>1. PICK k \in Nat : k = n - 1 /\ n = k + 1
    OBVIOUS
  <2>2. k \in S /\ k + 1 <= Len(s)
    BY <2>1, <1>4
  <2>3. QED
    BY <2>1, <2>2 DEF S
<1>6. QED
  BY <1>5

LEMMA AnalyzeKeeps ==
  ASSUME StreamInv, Analyze
  PROVE  StreamInv'
<1>0. reader = "analyzer" /\ UNCHANGED <<reader, duration, timePressure>>
  BY DEF Analyze
<1>1. stream \in Seq(BA!Event)
  BY <1>0 DEF StreamInv, StreamTyped
<1>2. PICK n \in Nat : n = Len(stream)
  BY <1>1
<1>20. \A i \in 1..n : stream[i] \in BA!Event /\ stream[i].ts \in Int
  BY <1>1, <1>2, EventHasTime
<1>3. Now \in Int
  <2>1. CASE stream = <<>>
    BY <2>1 DEF Now
  <2>2. CASE stream # <<>>
    <3>1. n \in 1..n
      BY <2>2, <1>1, <1>2
    <3>2. QED
      BY <3>1, <2>2, <1>2, <1>20 DEF Now
  <2>3. QED
    BY <2>1, <2>2
<1>4. PICK b \in BehaviorEvents : stream' = Append(stream, [b EXCEPT !.ts = Now + @])
  BY DEF Analyze
<1>5. b \in BA!Event
  <2>1. TimeSteps \subseteq Int /\ Claims \subseteq Int /\ 0 \in Int /\ "focus_session_ended" \in BA!EventType
    BY JudgementAssumption DEF BA!EventType
  <2>2. QED
    BY <2>1, <1>4 DEF BehaviorEvents, BA!Event
<1>6. PICK e : e = [b EXCEPT !.ts = Now + @]
  OBVIOUS
<1>7. e \in BA!Event /\ e.ts \in Int
  BY <1>3, <1>5, <1>6 DEF BA!Event
<1>8. PICK s \in Seq(BA!Event) : s = stream' /\ s = Append(stream, e)
  BY <1>1, <1>4, <1>6, <1>7
<1>9. /\ Len(s) = n + 1 /\ s[n + 1] = e /\ \A i \in 1..n : s[i] = stream[i]
  BY <1>1, <1>2, <1>7, <1>8
<1>10. BA!Passed(stream) \in BA!Pass /\ BA!Passed(s) = BA!Step(BA!Passed(stream), e)
  BY <1>1, <1>7, <1>8, PassedContinues
<1>11. Claimed(stream) \in Int /\ Claimed(s) = Claimed(stream) + AtLeast(0, e.minutes)
  BY <1>1, <1>7, <1>8, ClaimedContinues
<1>12. ASSUME InOrder(s) PROVE PassWithin(s[1].ts, s[Len(s)].ts, Claimed(s), BA!Passed(s))
  <2>1. CASE n = 0
    <3>1. stream = <<>>
      BY <2>1, <1>1, <1>2
    <3>2. BA!Passed(stream) = BA!NewPass /\ Claimed(stream) = 0
      BY <3>1, PassedContinues, ClaimedContinues
    <3>3. PassWithin(e.ts, e.ts, 0, BA!NewPass)
      BY <1>7, SumContinues DEF PassWithin, BA!NewPass, BA!NoTime
    <3>4. PassWithin(e.ts, e.ts, 0 + AtLeast(0, e.minutes), BA!Step(BA!NewPass, e))
      BY <3>2, <3>3, <1>7, <1>10, StepWithin
    <3>5. s[1] = e /\ s[Len(s)] = e
      BY <2>1, <1>9
    <3>6. QED
      BY <3>2, <3>4, <3>5, <1>10, <1>11
  <2>2. CASE n >= 1
    <3>1. \A i \in 2..(n + 1) : s[i - 1].ts <= s[i].ts
      BY <1>9, <1>12 DEF InOrder
    <3>2. stream[n].ts <= e.ts
      <4>1. n + 1 \in 2..(n + 1) /\ (n + 1) - 1 = n /\ n \in 1..n
        BY <2>2
      <4>2. QED
        BY <4>1, <3>1, <1>9
    <3>3. InOrder(stream)
      <4>1. ASSUME NEW i \in 2..n PROVE stream[i - 1].ts <= stream[i].ts
        <5>1. i \in 2..(n + 1) /\ i - 1 \in 1..n /\ i \in 1..n
          OBVIOUS
        <5>2. QED
          BY <5>1, <3>1, <1>9
      <4>2. QED
        BY <4>1, <1>2 DEF InOrder
    <3>4. stream # <<>>
      BY <2>2, <1>2
    <3>5. PassWithin(stream[1].ts, stream[n].ts, Claimed(stream), BA!Passed(stream))
      BY <1>0, <1>2, <3>3, <3>4 DEF StreamInv, PassMeasured
    <3>6. stream[1].ts <= stream[n].ts
      BY <1>1, <1>2, <2>2, <3>3, InOrderAll
    <3>7. stream[1].ts \in Int /\ stream[n].ts \in Int /\ s[1] = stream[1] /\ s[Len(s)] = e
      BY <2>2, <1>9, <1>20
    <3>8. PassWithin(stream[1].ts, e.ts, Claimed(stream) + AtLeast(0, e.minutes), BA!Step(BA!Passed(stream), e))
      BY <3>2, <3>5, <3>6, <3>7, <1>7, <1>10, <1>11, StepWithin
    <3>9. QED
      BY <3>7, <3>8, <1>10, <1>11
  <2>3. QED
    BY <2>1, <2>2
<1>13. StreamTyped'
  BY <1>0, <1>8 DEF StreamInv, StreamTyped
<1>14. PassMeasured'
  BY <1>8, <1>12 DEF PassMeasured
<1>15. QED
  BY <1>0, <1>13, <1>14 DEF StreamInv, RecordsInOrder

LEMMA StreamBegins == StreamInit => StreamInv
<1> SUFFICES ASSUME StreamInit PROVE StreamInv
  OBVIOUS
<1>1. stream = <<>> /\ reader \in {"round", "pattern", "analyzer"}
  BY DEF StreamInit
<1>2. duration \in Nat \ {0} /\ timePressure \in Int
  <2>1. CASE reader = "round"
    <3>1. RoundMinutes \subseteq Int /\ Pressures \subseteq Int
      BY JudgementAssumption
    <3>2. PICK m \in RoundMinutes : duration = Duration(0, m)
      BY <2>1 DEF StreamInit
    <3>3. m \in Int /\ duration \in Nat \ {0}
      BY <3>1, <3>2 DEF Duration, AtLeast
    <3>4. timePressure \in Int
      BY <2>1, <3>1 DEF StreamInit
    <3>5. QED
      BY <3>3, <3>4
  <2>2. CASE reader # "round"
    BY <2>2 DEF StreamInit
  <2>3. QED
    BY <2>1, <2>2
<1>3. StreamTyped
  BY <1>1, <1>2 DEF StreamTyped
<1>4. QED
  BY <1>1, <1>3 DEF StreamInv, RecordsInOrder, PassMeasured

(* After any stream of telemetry events, scored rounds or events of a      *)
(* request: the records stay in the order of their start, and all that the *)
(* pass of analyzer.service.ts has measured ends before the start and the  *)
(* failure it still has to use up.                                         *)
THEOREM StreamInvariance == StreamSpec => []StreamInv
<1>1. StreamInv /\ [StreamNext]_streamVars => StreamInv'
  <2> SUFFICES ASSUME StreamInv, [StreamNext]_streamVars PROVE StreamInv'
    OBVIOUS
  <2>1. CASE Observe
    BY <2>1, ObserveKeeps
  <2>2. CASE Record
    BY <2>2, RecordKeeps
  <2>3. CASE Analyze
    BY <2>3, AnalyzeKeeps
  <2>4. CASE UNCHANGED streamVars
    BY <2>4 DEF streamVars, StreamInv, StreamTyped, RecordsInOrder, PassMeasured
  <2>5. QED
    BY <2>1, <2>2, <2>3, <2>4 DEF StreamNext
<1>2. QED
  BY <1>1, StreamBegins, PTL DEF StreamSpec

(* scoring.service.ts, for rounds of any length, any time pressure and     *)
(* events with any durations, negative ones too: an event moves the score  *)
(* and the flags of its round only in the direction it should.             *)
THEOREM ScoreAlwaysMovesRightly == StreamSpec => ScoreMovesRightly
<1> DEFINE A == LET e == stream'[Len(stream')]  was == Score(stream)  is == Score(stream') IN
         /\ is \in 0..Unit
         /\ CASE e.type = "distraction_detected" -> is <= was
              [] e.type \in {"git_commit", "manual_checkin"} -> is >= was
              [] e.type \in {"focus_session_ended", "ide_activity"} ->
                     e.minutes >= 0 => is >= was
              [] OTHER -> is = was
         /\ \A flag \in Flags(stream) \ Flags(stream') :
               \/ flag = "ide_no_commits" /\ e.type = "git_commit"
               \/ e.minutes < 0
<1>1. StreamInv /\ [StreamNext]_streamVars => [reader = "round" => A]_streamVars
  <2> SUFFICES ASSUME StreamInv, StreamNext, reader = "round" PROVE A
    OBVIOUS
  <2>1. Observe
    BY DEF StreamNext, Record, Analyze
  <2>2. QED
    BY <2>1, ObserveScores DEF StreamInv
<1>2. QED
  BY <1>1, StreamInvariance, PTL DEF StreamSpec, ScoreMovesRightly

LEMMA Least ==
  ASSUME NEW S \in SUBSET Nat, S # {}
  PROVE  \E m \in S : \A k \in S : m <= k
<1>1. IsWellFoundedOn(Below, Nat)
  BY NatLessThanWellFounded DEF OpToRel, Below
<1>2. PICK m \in S : \A y \in S : ~ (<<y, m>> \in Below)
  BY <1>1, WFMin
<1>3. ASSUME NEW k \in S PROVE m <= k
  <2>1. m \in Nat /\ k \in Nat /\ ~ (<<k, m>> \in Below)
    BY <1>2
  <2>2. ~ (k < m)
    BY <2>1 DEF Below
  <2>3. QED
    BY <2>1, <2>2
<1>4. QED
  BY <1>3

LEMMA DivisionExact == \A a \in Nat, d \in Nat \ {0} : 0 \div d = 0 /\ (a * d) \div d = a
OBVIOUS

(* A mean of numbers up to D is no more than D. *)
LEMMA MeanWithin ==
  ASSUME NEW s \in Seq(Int), NEW places \in SUBSET DOMAIN s, NEW D \in Nat,
         \A i \in places : s[i] \in 0..D
  PROVE  MeanOf(s, places) \in 0..D
<1>1. PICK n \in Nat : n = Len(s)
  OBVIOUS
<1>2. DOMAIN s = 1..n
  BY <1>1
<1>3. PICK t : t = [i \in 1..n |-> IF i \in places THEN s[i] ELSE 0]
  OBVIOUS
<1>4. t \in [1..n -> Int]
  <2>1. \A i \in 1..n : (IF i \in places THEN s[i] ELSE 0) \in Int
    BY <1>1
  <2>2. QED
    BY <1>3, <2>1
<1>5. t \in Seq(Int) /\ Len(t) = n
  BY <1>4
<1>6. IsFiniteSet(places) /\ \A k \in Nat : IsFiniteSet(places \cap 1..k)
  <2>1. IsFiniteSet(1..n)
    BY FS_Interval
  <2>2. IsFiniteSet(places)
    BY <1>2, <2>1, FS_Subset
  <2>3. \A k \in Nat : places \cap 1..k \subseteq places
    OBVIOUS
  <2>4. QED
    BY <2>2, <2>3, FS_Subset
<1> DEFINE Num(k) == Cardinality(places \cap 1..k)
           Part(k) == SumOf(SubSeq(t, 1, k))
           S == {k \in Nat : k <= n => 0 <= Part(k) /\ Part(k) <= D * Num(k)}
<1>7. /\ Part(0) = 0
      /\ \A k \in Nat : k < n => t[k + 1] \in Int /\ Part(k) \in Int /\ Part(k + 1) = Part(k) + t[k + 1]
      /\ SubSeq(t, 1, n) = t
  BY <1>5, SumParts
<1>8. \A k \in Nat : Num(k) \in Nat
  BY <1>6, FS_CardinalityType
<1>9. 0 \in S
  <2>1. places \cap 1..0 = {}
    OBVIOUS
  <2>2. Num(0) = 0
    BY <2>1, FS_EmptySet
  <2> HIDE DEF Num, Part
  <2>3. QED
    BY <2>2, <1>7
<1>10. ASSUME NEW k \in Nat, k \in S PROVE k + 1 \in S
  <2> SUFFICES ASSUME k < n PROVE 0 <= Part(k + 1) /\ Part(k + 1) <= D * Num(k + 1)
    OBVIOUS
  <2>1. k + 1 \in 1..n /\ 0 <= Part(k) /\ Part(k) <= D * Num(k)
    BY <1>10
  <2>2. CASE k + 1 \in places
    <3>1. t[k + 1] \in 0..D
      BY <2>1, <2>2, <1>3
    <3>2. places \cap 1..(k + 1) = (places \cap 1..k) \cup {k + 1} /\ k + 1 \notin places \cap 1..k
      BY <2>2
    <3>3. Num(k + 1) = Num(k) + 1
      BY <3>2, <1>6, FS_AddElement
    <3> HIDE DEF Num, Part
    <3>4. PICK c \in Nat, p \in Int, x \in Int : c = Num(k) /\ p = Part(k) /\ x = t[k + 1]
      BY <1>7, <1>8
    <3>5. PICK z \in Int : z = D * c /\ D * (c + 1) = z + D
      OBVIOUS
    <3>6. 0 <= p /\ p <= z /\ 0 <= x /\ x <= D
      <4>1. 0 <= p /\ p <= D * c
        BY <2>1, <3>4, Zenon
      <4>2. 0 <= x /\ x <= D
        BY <3>1, <3>4
      <4>3. QED
        BY <3>5, <4>1, <4>2, Zenon
    <3>7. Part(k + 1) = p + x /\ D * Num(k + 1) = z + D
      BY <3>3, <3>4, <3>5, <1>7
    <3>8. QED
      BY <3>6, <3>7
  <2>3. CASE k + 1 \notin places
    <3>1. t[k + 1] = 0
      BY <2>1, <2>3, <1>3
    <3>2. places \cap 1..(k + 1) = places \cap 1..k
      BY <2>3
    <3>3. Num(k + 1) = Num(k)
      BY <3>2
    <3> HIDE DEF Num, Part
    <3>4. QED
      BY <2>1, <3>1, <3>3, <1>7
  <2>4. QED
    BY <2>2, <2>3
<1>11. places \cap 1..n = places
  BY <1>2
<1> HIDE DEF S
<1>12. n \in S
  BY <1>9, <1>10, Induction
<1>13. 0 <= SumOf(t) /\ SumOf(t) <= D * Cardinality(places)
  <2>1. 0 <= Part(n) /\ Part(n) <= D * Num(n)
    BY <1>12 DEF S
  <2>2. Part(n) = SumOf(t) /\ Num(n) = Cardinality(places)
    BY <1>7, <1>11
  <2> HIDE DEF Part, Num
  <2>3. QED
    BY <2>1, <2>2
<1>14. CASE places = {}
  BY <1>14 DEF MeanOf
<1>15. CASE places # {}
  <2>1. MeanOf(s, places) = SumOf(t) \div Cardinality(places)
    BY <1>2, <1>3, <1>15 DEF MeanOf
  <2>2. PICK c \in Nat \ {0}, u \in Int : c = Cardinality(places) /\ u = SumOf(t)
    <3>1. Cardinality(places) \in Nat /\ Cardinality(places) # 0
      BY <1>6, <1>15, FS_CardinalityType, FS_EmptySet
    <3>2. SumOf(t) \in Int
      BY <1>5, SumTyped
    <3>3. QED
      BY <3>1, <3>2
  <2>3. 0 <= u /\ u <= D * c
    BY <1>13, <2>2
  <2>4. 0 \div c <= u \div c /\ u \div c <= (D * c) \div c
    <3>1. D * c \in Int
      OBVIOUS
    <3>2. QED
      BY <2>3, <3>1, DivisionMonotone
  <2>5. 0 \div c = 0 /\ (D * c) \div c = D
    BY DivisionExact
  <2>6. QED
    BY <2>1, <2>2, <2>4, <2>5
<1>16. QED
  BY <1>14, <1>15

LEMMA RecoveryWithin ==
  ASSUME StreamInv, reader = "pattern", stream # <<>>
  PROVE  getPlayerPattern(stream, <<>>).recoverySpeedDays \in 0..(stream[Len(stream)].day - stream[1].day)
<1>1. stream \in Seq(Scored) /\ \A i, j \in DOMAIN stream : i <= j => stream[i].day <= stream[j].day
  BY DEF StreamInv, StreamTyped, RecordsInOrder, Scored
<1>2. PICK n \in Nat : n = Len(stream)
  BY <1>1
<1>3. /\ DOMAIN stream = 1..n /\ n \in 1..n /\ 1 \in 1..n
  BY <1>1, <1>2
<1>4. \A i \in 1..n : stream[i].day \in Nat
  BY <1>1, <1>2, ScoredHasDay
<1>5. PICK D \in Nat : D = stream[n].day - stream[1].day
  <2>1. stream[1].day <= stream[n].day
    BY <1>1, <1>3
  <2>2. QED
    BY <2>1, <1>3, <1>4
<1>6. ASSUME NEW i \in Lows(stream)
      PROVE  /\ i \in 1..n /\ FirstGood(stream, i) \in 1..n
             /\ stream[FirstGood(stream, i)].day - stream[i].day \in 0..D
  <2>1. i \in 1..n /\ Good(stream, i) # {} /\ Good(stream, i) \subseteq (i + 1)..n
    BY <1>2, <1>3 DEF Lows, Good
  <2>2. Good(stream, i) \in SUBSET Nat
    BY <2>1
  <2>3. \E j \in Good(stream, i) : \A k \in Good(stream, i) : j <= k
    BY <2>1, <2>2, Least
  <2>4. FirstGood(stream, i) \in Good(stream, i)
    BY <2>3 DEF FirstGood
  <2>5. PICK j \in 1..n : j = FirstGood(stream, i) /\ i <= j
    BY <2>1, <2>4
  <2>6. stream[i].day <= stream[j].day /\ stream[1].day <= stream[i].day /\ stream[j].day <= stream[n].day
    BY <2>1, <2>5, <1>1, <1>3
  <2>7. QED
    BY <2>1, <2>5, <2>6, <1>3, <1>4, <1>5
<1>7. PICK days : days = RecoveryDays(stream)
  OBVIOUS
<1>8. days = [i \in 1..n |-> IF i \in Lows(stream)
                            THEN stream[FirstGood(stream, i)].day - stream[i].day ELSE 0]
  BY <1>3, <1>7 DEF RecoveryDays
<1>9. days \in Seq(Int) /\ DOMAIN days = 1..n
  <2>1. \A i \in 1..n : (IF i \in Lows(stream)
                         THEN stream[FirstGood(stream, i)].day - stream[i].day ELSE 0) \in Int
    BY <1>6
  <2>2. days \in [1..n -> Int]
    BY <1>8, <2>1
  <2>3. QED
    BY <2>2
<1>10. Lows(stream) \in SUBSET DOMAIN days /\ \A i \in Lows(stream) : days[i] \in 0..D
  BY <1>6, <1>8, <1>9
<1>11. MeanOf(days, Lows(stream)) \in 0..D
  BY <1>9, <1>10, MeanWithin
<1>12. getPlayerPattern(stream, <<>>).recoverySpeedDays = MeanOf(days, Lows(stream))
  BY <1>7 DEF getPlayerPattern
<1>13. QED
  BY <1>2, <1>5, <1>11, <1>12

LEMMA MeasuredWithin ==
  ASSUME StreamInv, reader = "analyzer", stream # <<>>, InOrder(stream)
  PROVE  LET pass == BA!Passed(stream)  span == stream[Len(stream)].ts - stream[1].ts IN
         /\ SumOf(pass.focus) <= span + Claimed(stream)
         /\ SumOf(pass.gaps) <= span
         /\ \A i \in DOMAIN pass.gaps : pass.gaps[i] >= 0
<1>1. stream \in Seq(BA!Event)
  BY DEF StreamInv, StreamTyped
<1>2. 1 \in 1..Len(stream) /\ Len(stream) \in 1..Len(stream)
  BY <1>1
<1>3. PICK first \in Int, last \in Int, c \in Int :
        first = stream[1].ts /\ last = stream[Len(stream)].ts /\ c = Claimed(stream)
  <2>1. Claimed(stream) \in Int
    BY <1>1, <1>2, ClaimedContinues
  <2>2. stream[1] \in BA!Event /\ stream[Len(stream)] \in BA!Event
    BY <1>1, <1>2
  <2>3. QED
    BY <2>1, <2>2, EventHasTime
<1>4. PICK p : p = BA!Passed(stream)
  OBVIOUS
<1>5. p \in BA!Pass
  BY <1>1, <1>2, <1>4, PassedContinues
<1>6. PICK st \in Int, fa \in Int, sf \in Int, sg \in Int :
        st = p.started /\ fa = p.failed /\ sf = SumOf(p.focus) /\ sg = SumOf(p.gaps)
  BY <1>5, PassTyped2, SumTyped
<1>7. PassWithin(first, last, c, p)
  BY <1>3, <1>4 DEF StreamInv, PassMeasured
<1>8. /\ st # 0 => first <= st /\ st <= last
      /\ fa # 0 => first <= fa /\ fa <= last
      /\ sf <= c + (IF st = 0 THEN last ELSE st) - first
      /\ sg <= (IF fa = 0 THEN last ELSE fa) - first
      /\ \A i \in DOMAIN p.gaps : p.gaps[i] >= 0
  BY <1>6, <1>7 DEF PassWithin, BA!NoTime
<1>9. sf <= (last - first) + c /\ sg <= last - first
  BY <1>8
<1>10. QED
  BY <1>3, <1>4, <1>6, <1>8, <1>9

(* getPlayerPattern of scoring.service.ts and computeStats of              *)
(* analyzer.service.ts, for histories and requests of any length: the      *)
(* recovery is within the history, and in a request whose events are in    *)
(* order the focus and recovery times that are measured do not overlap.    *)
THEOREM TimesAlwaysWithinHistory == StreamSpec => []TimesWithinHistory
<1>1. StreamInv => TimesWithinHistory
  BY RecoveryWithin, MeasuredWithin DEF TimesWithinHistory
<1>2. QED
  BY <1>1, StreamInvariance, PTL

-----------------------------------------------------------------------------
(* What a sort by a strict order is.                                       *)
StrictOrder(K, order) ==
  /\ \A j, k \in K : <<j, k>> \in order => <<k, j>> \notin order
  /\ \A i, j, k \in K : <<i, j>> \in order /\ <<j, k>> \in order => <<i, k>> \in order
  /\ \A j, k \in K : j # k => <<j, k>> \in order \/ <<k, j>> \in order

Arranges(s, K, order) ==
  /\ s \in Seq(K) /\ Len(s) = Cardinality(K)
  /\ \A k \in K : \E i \in 1..Len(s) : s[i] = k
  /\ \A i, j \in 1..Len(s) : i < j => <<s[i], s[j]>> \in order

LEMMA RanksGrow ==
  ASSUME NEW K, IsFiniteSet(K), NEW order, StrictOrder(K, order)
  PROVE  /\ \A k \in K : Rank(k, K, order) \in 1..Cardinality(K)
         /\ \A j, k \in K : <<j, k>> \in order => Rank(j, K, order) < Rank(k, K, order)
<1> DEFINE Ahead(k) == {j \in K : <<j, k>> \in order}
<1>1. ASSUME NEW k \in K
      PROVE  /\ IsFiniteSet(Ahead(k)) /\ Cardinality(Ahead(k)) \in Nat
             /\ Rank(k, K, order) = Cardinality(Ahead(k)) + 1
             /\ Cardinality(Ahead(k) \cup {k}) = Cardinality(Ahead(k)) + 1
  <2>1. IsFiniteSet(Ahead(k))
    BY FS_Subset
  <2>2. Cardinality(Ahead(k)) \in Nat
    BY <2>1, FS_CardinalityType
  <2>3. k \notin Ahead(k)
    BY DEF StrictOrder
  <2>4. Cardinality(Ahead(k) \cup {k}) = Cardinality(Ahead(k)) + 1
    BY <2>1, <2>3, FS_AddElement
  <2>5. QED
    BY <2>1, <2>2, <2>4 DEF Rank
<1>2. ASSUME NEW k \in K PROVE Rank(k, K, order) \in 1..Cardinality(K)
  <2>1. Ahead(k) \cup {k} \in SUBSET K
    OBVIOUS
  <2>2. Cardinality(Ahead(k) \cup {k}) <= Cardinality(K) /\ Cardinality(K) \in Nat
    BY <2>1, FS_Subset, FS_CardinalityType
  <2> HIDE DEF Ahead
  <2>3. QED
    BY <2>2, <1>1
<1>3. ASSUME NEW j \in K, NEW k \in K, <<j, k>> \in order
      PROVE  Rank(j, K, order) < Rank(k, K, order)
  <2>1. Ahead(j) \cup {j} \in SUBSET Ahead(k)
    BY <1>3 DEF StrictOrder
  <2>2. Cardinality(Ahead(j) \cup {j}) <= Cardinality(Ahead(k))
    BY <2>1, <1>1, FS_Subset
  <2>3. PICK a \in Nat, b \in Nat : a = Cardinality(Ahead(j)) /\ b = Cardinality(Ahead(k))
    BY <1>1
  <2>4. Rank(j, K, order) = a + 1 /\ Rank(k, K, order) = b + 1 /\ a + 1 <= b
    BY <1>1, <2>2, <2>3
  <2>5. QED
    BY <2>4
<1>4. QED
  BY <1>2, <1>3

LEMMA RankedArranges ==
  ASSUME NEW K, IsFiniteSet(K), NEW order, StrictOrder(K, order)
  PROVE  Arranges(Ranked(K, order), K, order)
<1>1. PICK n \in Nat : n = Cardinality(K)
  BY FS_CardinalityType
<1>2. \A k \in K : Rank(k, K, order) \in 1..n
  BY <1>1, RanksGrow
<1>3. \A j, k \in K : <<j, k>> \in order => Rank(j, K, order) < Rank(k, K, order)
  BY RanksGrow
<1>4. \A j, k \in K : j # k => Rank(j, K, order) # Rank(k, K, order)
  <2> SUFFICES ASSUME NEW j \in K, NEW k \in K, j # k PROVE Rank(j, K, order) # Rank(k, K, order)
    OBVIOUS
  <2>1. <<j, k>> \in order \/ <<k, j>> \in order
    BY DEF StrictOrder
  <2>2. Rank(j, K, order) \in Int /\ Rank(k, K, order) \in Int
    BY <1>2
  <2>3. QED
    BY <2>1, <2>2, <1>3
<1>5. ASSUME NEW i \in 1..n PROVE \E k \in K : Rank(k, K, order) = i
  <2> SUFFICES ASSUME \A k \in K : Rank(k, K, order) # i PROVE FALSE
    OBVIOUS
  <2>1. PICK f : f = [k \in K |-> Rank(k, K, order)]
    OBVIOUS
  <2>2. f \in [K -> (1..n) \ {i}]
    BY <2>1, <1>2
  <2>3. IsFiniteSet(1..n) /\ Cardinality(1..n) = n
    BY FS_Interval
  <2>4. IsFiniteSet((1..n) \ {i}) /\ Cardinality((1..n) \ {i}) = n - 1
    BY <2>3, FS_RemoveElement
  <2>5. Cardinality((1..n) \ {i}) < Cardinality(K)
    BY <2>4, <1>1
  <2>6. \E x, y \in K : x # y /\ f[x] = f[y]
    BY <2>2, <2>4, <2>5, FS_PigeonHole
  <2>7. QED
    BY <2>1, <2>6, <1>4
<1>6. PICK s : s = Ranked(K, order)
  OBVIOUS
<1>7. s = [i \in 1..n |-> CHOOSE k \in K : Rank(k, K, order) = i]
  BY <1>1, <1>6 DEF Ranked
<1>8. \A i \in 1..n : s[i] \in K /\ Rank(s[i], K, order) = i
  BY <1>5, <1>7
<1>9. s \in Seq(K) /\ Len(s) = n
  <2>1. s \in [1..n -> K]
    BY <1>7, <1>8
  <2>2. QED
    BY <2>1
<1>10. ASSUME NEW k \in K PROVE \E i \in 1..n : s[i] = k
  <2>1. PICK i \in 1..n : i = Rank(k, K, order)
    BY <1>2
  <2>2. s[i] = k
    BY <2>1, <1>4, <1>8
  <2>3. QED
    BY <2>2
<1>11. ASSUME NEW i \in 1..n, NEW j \in 1..n, i < j PROVE <<s[i], s[j]>> \in order
  <2>1. s[i] \in K /\ s[j] \in K /\ Rank(s[i], K, order) = i /\ Rank(s[j], K, order) = j
    BY <1>8
  <2>2. s[i] # s[j]
    BY <2>1, <1>11
  <2>3. <<s[i], s[j]>> \in order \/ <<s[j], s[i]>> \in order
    BY <2>1, <2>2 DEF StrictOrder
  <2>4. QED
    BY <2>1, <2>3, <1>3, <1>11
<1>12. QED
  BY <1>1, <1>6, <1>9, <1>10, <1>11 DEF Arranges

LEMMA UpToKeeps ==
  ASSUME NEW S, NEW s \in Seq(S), NEW n \in Nat
  PROVE  /\ UpTo(s, n) \in Seq(S)
         /\ Len(UpTo(s, n)) <= n /\ Len(UpTo(s, n)) <= Len(s)
         /\ Len(s) > 0 /\ n > 0 => Len(UpTo(s, n)) > 0
         /\ \A i \in 1..Len(UpTo(s, n)) : UpTo(s, n)[i] = s[i]
         /\ \A i \in 1..Len(s) : i \in 1..Len(UpTo(s, n)) \/ (Len(UpTo(s, n)) = n /\ n < i)
<1>1. PICK m \in Nat : m = IF Len(s) < n THEN Len(s) ELSE n
  OBVIOUS
<1>2. m <= Len(s) /\ m <= n /\ (m = n \/ m = Len(s)) /\ Len(s) \in Nat
  BY <1>1
<1>3. PICK u : u = UpTo(s, n)
  OBVIOUS
<1>4. u = SubSeq(s, 1, m)
  BY <1>1, <1>3 DEF UpTo
<1>5. u \in Seq(S) /\ Len(u) = m /\ \A i \in 1..m : u[i] = s[i]
  BY <1>2, <1>4
<1>6. \A i \in 1..Len(s) : i \in 1..m \/ (m = n /\ n < i)
  BY <1>2
<1>7. QED
  BY <1>2, <1>3, <1>5, <1>6

(* How often something comes. *)
LEMMA OccurrencesTyped ==
  ASSUME NEW S, NEW s \in Seq(S)
  PROVE  /\ \A k : Occurrences(s, k) \in Nat
         /\ IsFiniteSet(Keys(s))
<1>1. IsFiniteSet(DOMAIN s)
  <2>1. PICK n \in Nat : DOMAIN s = 1..n
    OBVIOUS
  <2>2. QED
    BY <2>1, FS_Interval
<1>2. ASSUME NEW k PROVE Occurrences(s, k) \in Nat
  <2>1. {i \in DOMAIN s : s[i] = k} \in SUBSET (DOMAIN s)
    OBVIOUS
  <2>2. IsFiniteSet({i \in DOMAIN s : s[i] = k})
    BY <1>1, <2>1, FS_Subset
  <2>3. QED
    BY <2>2, FS_CardinalityType DEF Occurrences
<1>3. IsFiniteSet(Keys(s))
  <2>1. PICK f : f = [i \in DOMAIN s |-> s[i]]
    OBVIOUS
  <2>2. f \in Surjection(DOMAIN s, Keys(s))
    BY <2>1 DEF Surjection, Keys
  <2>3. QED
    BY <1>1, <2>2, FS_Surjection
<1>4. QED
  BY <1>2, <1>3

LEMMA FirstFound ==
  ASSUME NEW S, NEW s \in Seq(S), NEW k \in Keys(s)
  PROVE  FirstAt(s, k) \in DOMAIN s /\ FirstAt(s, k) \in Nat /\ s[FirstAt(s, k)] = k
<1>1. DOMAIN s \in SUBSET Nat /\ DOMAIN s = 1..Len(s)
  OBVIOUS
<1> DEFINE Places == {i \in DOMAIN s : s[i] = k}
<1>2. Places # {} /\ Places \in SUBSET Nat
  BY <1>1 DEF Keys
<1>3. PICK m \in Places : \A i \in Places : m <= i
  BY <1>2, Least
<1>4. m \in DOMAIN s /\ s[m] = k /\ \A j \in 1..(m - 1) : s[j] # k
  <2>1. m \in 1..Len(s) /\ s[m] = k
    BY <1>1
  <2>2. ASSUME NEW j \in 1..(m - 1), s[j] = k PROVE FALSE
    <3>1. j \in 1..Len(s) /\ j < m
      BY <2>1
    <3>2. j \in Places
      BY <3>1, <2>2, <1>1
    <3>3. m <= j
      BY <3>2, <1>3
    <3>4. QED
      BY <3>1, <3>3, <2>1
  <2>3. QED
    BY <2>1, <2>2, <1>1
<1>5. \E i \in DOMAIN s : s[i] = k /\ \A j \in 1..(i - 1) : s[j] # k
  BY <1>4
<1>6. FirstAt(s, k) \in DOMAIN s /\ s[FirstAt(s, k)] = k
  BY <1>5 DEF FirstAt
<1>7. QED
  BY <1>1, <1>6

(* An order by a count, and by a number where counts are equal.            *)
LEMMA CountOrder ==
  ASSUME NEW K, NEW count \in [K -> Int], NEW place \in [K -> Int], NEW order,
         \A j, k \in K : place[j] = place[k] => j = k,
         \A j, k \in K : <<j, k>> \in order <=>
                           (count[j] > count[k] \/ (count[j] = count[k] /\ place[j] < place[k]))
  PROVE  StrictOrder(K, order)
<1>1. \A k \in K : count[k] \in Int /\ place[k] \in Int
  OBVIOUS
<1>2. ASSUME NEW j \in K, NEW k \in K, <<j, k>> \in order PROVE <<k, j>> \notin order
  BY <1>1, <1>2
<1>3. ASSUME NEW i \in K, NEW j \in K, NEW k \in K, <<i, j>> \in order, <<j, k>> \in order
      PROVE  <<i, k>> \in order
  BY <1>1, <1>3
<1>4. ASSUME NEW j \in K, NEW k \in K, j # k PROVE <<j, k>> \in order \/ <<k, j>> \in order
  <2>1. place[j] # place[k]
    BY <1>4
  <2>2. QED
    BY <1>1, <2>1
<1>5. QED
  BY <1>2, <1>3, <1>4 DEF StrictOrder

LEMMA CommonerOrders ==
  ASSUME NEW S, NEW s \in Seq(S)
  PROVE  StrictOrder(Keys(s), Commoner(s))
<1>1. PICK count : count = [k \in Keys(s) |-> Occurrences(s, k)]
  OBVIOUS
<1>2. PICK place : place = [k \in Keys(s) |-> FirstAt(s, k)]
  OBVIOUS
<1>3. count \in [Keys(s) -> Int] /\ place \in [Keys(s) -> Int]
  <2>1. \A k \in Keys(s) : Occurrences(s, k) \in Int /\ FirstAt(s, k) \in Int
    BY OccurrencesTyped, FirstFound
  <2>2. QED
    BY <1>1, <1>2, <2>1
<1>4. \A j, k \in Keys(s) : place[j] = place[k] => j = k
  BY <1>2, FirstFound
<1>5. ASSUME NEW j \in Keys(s), NEW k \in Keys(s)
      PROVE  <<j, k>> \in Commoner(s) <=>
                (count[j] > count[k] \/ (count[j] = count[k] /\ place[j] < place[k]))
  BY <1>1, <1>2 DEF Commoner
<1>6. QED
  BY <1>3, <1>4, <1>5, CountOrder

(* The most common ones: no more than n, each once, and none left out that *)
(* comes more often.                                                       *)
LEMMA MostCommonAre ==
  ASSUME NEW S, NEW s \in Seq(S), NEW n \in Nat
  PROVE  LET m == MostCommon(s, n) IN
         /\ m \in Seq(Keys(s)) /\ Len(m) <= n
         /\ \A i, j \in DOMAIN m : m[i] = m[j] => i = j
         /\ \A k \in Keys(s) : k \in Keys(m) \/
               \A i \in DOMAIN m : Occurrences(s, k) <= Occurrences(s, m[i])
<1>1. PICK all : all = Ranked(Keys(s), Commoner(s))
  OBVIOUS
<1>2. Arranges(all, Keys(s), Commoner(s))
  BY <1>1, OccurrencesTyped, CommonerOrders, RankedArranges
<1>3. /\ all \in Seq(Keys(s))
      /\ \A k \in Keys(s) : \E i \in 1..Len(all) : all[i] = k
      /\ \A i, j \in 1..Len(all) : i < j => <<all[i], all[j]>> \in Commoner(s)
  BY <1>2 DEF Arranges
<1>4. PICK m : m = MostCommon(s, n)
  OBVIOUS
<1>5. m = UpTo(all, n)
  BY <1>1, <1>4 DEF MostCommon
<1>6. /\ m \in Seq(Keys(s)) /\ Len(m) <= n /\ Len(m) <= Len(all)
      /\ \A i \in 1..Len(m) : m[i] = all[i]
      /\ \A i \in 1..Len(all) : i \in 1..Len(m) \/ (Len(m) = n /\ n < i)
  BY <1>3, <1>5, UpToKeeps
<1>7. DOMAIN m = 1..Len(m) /\ Len(m) \in Nat /\ Len(all) \in Nat
  BY <1>3, <1>6
<1>8. ASSUME NEW i \in 1..Len(m), NEW j \in 1..Len(m), i # j PROVE m[i] # m[j]
  <2>1. i \in 1..Len(all) /\ j \in 1..Len(all) /\ m[i] = all[i] /\ m[j] = all[j]
    <3>1. \A x \in 1..Len(m) : x \in 1..Len(all)
      <4>1. PICK l \in Nat, a \in Nat : l = Len(m) /\ a = Len(all) /\ l <= a
        BY <1>6, <1>7
      <4>2. \A x \in 1..l : x \in 1..a
        BY <4>1
      <4>3. QED
        BY <4>1, <4>2
    <3>2. QED
      BY <3>1, <1>6
  <2>2. all[i] \in Keys(s) /\ all[j] \in Keys(s)
    <3>1. \A x \in 1..Len(all) : all[x] \in Keys(s)
      BY <1>3, ElementOfSeq
    <3>2. QED
      BY <2>1, <3>1, Zenon
  <2>3. <<all[i], all[j]>> \in Commoner(s) \/ <<all[j], all[i]>> \in Commoner(s)
    <3>1. i < j \/ j < i
      BY <1>8
    <3>2. QED
      BY <1>3, <2>1, <3>1, Zenon
  <2>4. QED
    BY <2>1, <2>2, <2>3, CommonerOrders DEF StrictOrder
<1>9. ASSUME NEW k \in Keys(s), k \notin Keys(m), NEW i \in 1..Len(m)
      PROVE  Occurrences(s, k) <= Occurrences(s, m[i])
  <2>1. PICK j \in 1..Len(all) : all[j] = k
    BY <1>3
  <2>2. j \notin 1..Len(m)
    BY <2>1, <1>6, <1>7, <1>9 DEF Keys
  <2>3. i < j /\ i \in 1..Len(all) /\ m[i] = all[i]
    <3>1. PICK l \in Nat, a \in Nat : l = Len(m) /\ a = Len(all) /\ l <= a
      BY <1>6, <1>7
    <3>2. i \in 1..l /\ j \in 1..a /\ j \notin 1..l
      BY <2>1, <2>2, <3>1
    <3>3. i < j /\ i \in 1..a
      BY <3>1, <3>2
    <3>4. QED
      BY <3>1, <3>3, <1>6
  <2>4. <<all[i], all[j]>> \in Commoner(s)
    BY <2>3, <1>3
  <2>5. Occurrences(s, all[i]) > Occurrences(s, all[j]) \/ Occurrences(s, all[i]) = Occurrences(s, all[j])
    BY <2>4 DEF Commoner
  <2>6. Occurrences(s, all[i]) \in Nat /\ Occurrences(s, all[j]) \in Nat
    BY OccurrencesTyped
  <2>7. QED
    BY <2>1, <2>3, <2>5, <2>6
<1>10. QED
  BY <1>4, <1>6, <1>7, <1>8, <1>9

LEMMA EachOnce ==
  ASSUME NEW S, NEW s \in Seq(S), \A i, j \in DOMAIN s : s[i] = s[j] => i = j
  PROVE  Cardinality(Keys(s)) = Len(s)
<1>1. PICK n \in Nat : n = Len(s) /\ DOMAIN s = 1..n
  OBVIOUS
<1>2. IsFiniteSet(1..n) /\ Cardinality(1..n) = n
  BY FS_Interval
<1>3. PICK f : f = [i \in 1..n |-> s[i]]
  OBVIOUS
<1>4. f \in Bijection(1..n, Keys(s))
  BY <1>1, <1>3 DEF Bijection, Injection, IsInjective, Surjection, Keys
<1>5. ExistsBijection(1..n, Keys(s))
  BY <1>4 DEF ExistsBijection
<1>6. QED
  BY <1>1, <1>2, <1>5, FS_Bijection

LEMMA SameFolds ==
  /\ \A step, first, s : BA!Folded(step, first, s) = Folded(step, first, s)
  /\ \A K, order : BA!Ranked(K, order) = Ranked(K, order)
  /\ \A s, n : BA!UpTo(s, n) = UpTo(s, n)
  /\ \A s, k : BA!Occurrences(s, k) = Occurrences(s, k)
  /\ \A S : BA!Cardinality(S) = Cardinality(S)
<1>1. \A step, first, s : BA!Folded(step, first, s) = Folded(step, first, s)
  BY DEF BA!Folded, Folded
<1>0. \A S : BA!Cardinality(S) = Cardinality(S)
  BY DEF BA!Cardinality, Cardinality
<1>2. \A k, K, order : BA!Rank(k, K, order) = Rank(k, K, order)
  BY <1>0 DEF BA!Rank, Rank
<1>3. \A K, order : BA!Ranked(K, order) = Ranked(K, order)
  BY <1>0, <1>2 DEF BA!Ranked, Ranked
<1>4. \A s, n : BA!UpTo(s, n) = UpTo(s, n)
  BY DEF BA!UpTo, UpTo
<1>5. \A s, k : BA!Occurrences(s, k) = Occurrences(s, k)
  BY <1>0 DEF BA!Occurrences, Occurrences
<1>6. QED
  BY <1>0, <1>1, <1>3, <1>4, <1>5

LEMMA CeilingWithin ==
  ASSUME NEW succeeded \in Nat, NEW failed \in Nat
  PROVE  BA!ceilingOf(succeeded, failed) \in 1..10
<1>1. CASE succeeded + failed = 0
  BY <1>1 DEF BA!ceilingOf
<1>2. CASE succeeded + failed # 0
  <2>1. PICK all \in Nat \ {0} : all = succeeded + failed
    BY <1>2
  <2>2. PICK d \in Nat \ {0}, a \in Nat : d = 2 * all /\ a = 20 * succeeded + all
    OBVIOUS
  <2>3. PICK q \in Int : q = a \div d
    OBVIOUS
  <2>4. a < 11 * d
    BY <2>1, <2>2
  <2>5. q <= 10
    <3> SUFFICES ASSUME 11 <= q PROVE FALSE
      OBVIOUS
    <3>1. d * q <= a
      BY <2>3
    <3>2. 11 * d <= d * q
      <4>1. PICK r \in Nat : q = 11 + r
        <5>1. q - 11 \in Nat /\ q = 11 + (q - 11)
          OBVIOUS
        <5>2. QED
          BY <5>1
      <4>2. d * r \in Nat /\ d * (11 + r) = 11 * d + d * r
        OBVIOUS
      <4>3. QED
        BY <4>1, <4>2
    <3>3. d * q \in Int
      OBVIOUS
    <3>4. QED
      BY <3>1, <3>2, <3>3, <2>4
  <2>6. BA!ceilingOf(succeeded, failed) = IF q < 1 THEN 1 ELSE q
    BY <2>1, <2>2, <2>3 DEF BA!ceilingOf
  <2>7. QED
    BY <2>5, <2>6
<1>3. QED
  BY <1>1, <1>2

(* What is usable of an answer: up to four texts, each of a length that an *)
(* insight may have.                                                       *)
LEMMA UsableFolds ==
  ASSUME NEW lines \in Seq(Nat)
  PROVE  /\ BA!parseInsightArray(lines) \in Seq(1..200)
         /\ Len(BA!parseInsightArray(lines)) <= 4
<1>1. PICK step : step = BA!Usable
  OBVIOUS
<1>2. PICK V : V = Seq(1..200)
  OBVIOUS
<1>3. Folding(V, Nat, step, <<>>)
  <2>1. \A kept \in V, n \in Nat : (IF n \in BA!Insight THEN Append(kept, n) ELSE kept) \in V
    <3>1. \A kept \in Seq(1..200), n \in 1..200 : Append(kept, n) \in Seq(1..200)
      BY AppendProperties
    <3>2. QED
      BY <1>2, <3>1 DEF BA!Insight
  <2>2. step \in [V -> [Nat -> V]]
    <3> DEFINE next(kept, n) == IF n \in BA!Insight THEN Append(kept, n) ELSE kept
    <3>1. step = [kept \in V |-> [n \in Nat |-> next(kept, n)]]
      <4>1. V = Seq(BA!Insight)
        BY <1>2 DEF BA!Insight
      <4>2. QED
        BY <1>1, <4>1 DEF BA!Usable
    <3>2. \A kept \in V, n \in Nat : next(kept, n) \in V
      BY <2>1
    <3> HIDE DEF next
    <3>3. QED
      BY <3>1, <3>2
  <2>3. <<>> \in V
    BY <1>2
  <2>4. QED
    BY <2>2, <2>3 DEF Folding
<1>4. Continues(V, Nat, step, <<>>)
  BY <1>3, FoldContinues
<1>5. PICK kept : kept = Folded(step, <<>>, lines)
  OBVIOUS
<1>6. 0 \in Nat
  OBVIOUS
<1>7. kept \in Seq(1..200)
  BY <1>2, <1>4, <1>5, <1>6 DEF Continues
<1>8. BA!parseInsightArray(lines) = UpTo(kept, 4)
  BY <1>1, <1>5, SameFolds DEF BA!parseInsightArray
<1>9. QED
  BY <1>7, <1>8, UpToKeeps

LEMMA DeterministicInsights ==
  ASSUME NEW stats
  PROVE  Len(BA!deterministicInsights(stats)) \in 1..4
<1>1. PICK four : four = {"peak", "distraction", "focus", "recovery"}
  OBVIOUS
<1>2. IsFiniteSet(four) /\ Cardinality(four) = 4
  <2>1. IsFiniteSet({"peak"}) /\ Cardinality({"peak"}) = 1
    BY FS_Singleton
  <2>2. IsFiniteSet({"peak"} \cup {"distraction"}) /\ Cardinality({"peak"} \cup {"distraction"}) = 2
    BY <2>1, FS_AddElement
  <2>3. PICK three : three = ({"peak"} \cup {"distraction"}) \cup {"focus"}
    OBVIOUS
  <2>4. "focus" \notin {"peak"} \cup {"distraction"}
    OBVIOUS
  <2>5. IsFiniteSet(three) /\ Cardinality(three) = 3
    BY <2>2, <2>3, <2>4, FS_AddElement
  <2>6. "recovery" \notin three
    BY <2>3
  <2>7. IsFiniteSet(three \cup {"recovery"}) /\ Cardinality(three \cup {"recovery"}) = 4
    BY <2>5, <2>6, FS_AddElement
  <2>8. four = three \cup {"recovery"}
    BY <1>1, <2>3
  <2>9. QED
    BY <2>7, <2>8
<1>3. PICK known :
        known = {f \in four :
                    CASE f = "peak"        -> stats.peakProductivityHours # <<>>
                      [] f = "distraction" -> stats.distracted
                      [] f = "focus"       -> stats.avgFocusSessionMinutes > 0
                      [] f = "recovery"    -> stats.recoveryDays # <<>>}
  OBVIOUS
<1>4. known \in SUBSET four
  BY <1>3
<1>5. PICK c \in Nat : c = Cardinality(known) /\ c <= 4 /\ (c = 0 <=> known = {})
  <2>1. IsFiniteSet(known) /\ Cardinality(known) <= 4
    BY <1>2, <1>4, FS_Subset
  <2>2. QED
    BY <2>1, FS_CardinalityType, FS_EmptySet
<1>6. PICK n \in 1..4 : n = IF known = {} THEN 1 ELSE c
  BY <1>5
<1>7. BA!deterministicInsights(stats) = [i \in 1..n |-> 60]
  BY <1>1, <1>3, <1>5, <1>6, SameFolds DEF BA!deterministicInsights
<1>8. Len([i \in 1..n |-> 60]) = n
  OBVIOUS
<1>9. QED
  BY <1>6, <1>7, <1>8

LEMMA InsightsBounded ==
  ASSUME NEW asked, NEW minForAi, NEW answer \in Seq(Nat)
  PROVE  LET said == BA!aiInsights(asked, minForAi, answer) IN
         /\ Len(BA!analyze(asked, minForAi, answer)) \in 1..4
         /\ \A i \in DOMAIN said : said[i] \in 1..200
<1>1. PICK ai : ai = BA!aiInsights(asked, minForAi, answer)
  OBVIOUS
<1>2. ai \in Seq(1..200) /\ Len(ai) <= 4
  BY <1>1, UsableFolds DEF BA!aiInsights
<1>3. \A i \in DOMAIN ai : ai[i] \in 1..200
  BY <1>2, ElementOfSeq, LenProperties
<1>4. CASE ai = <<>>
  BY <1>1, <1>3, <1>4, DeterministicInsights DEF BA!analyze
<1>5. CASE ai # <<>>
  <2>1. BA!analyze(asked, minForAi, answer) = ai
    BY <1>1, <1>5 DEF BA!analyze
  <2>2. Len(ai) # 0 /\ Len(ai) \in Nat
    BY <1>2, <1>5, EmptySeq
  <2>3. Len(ai) \in 1..4
    <3>1. PICK l \in Nat : l = Len(ai) /\ l <= 4 /\ l # 0
      BY <1>2, <2>2
    <3>2. ASSUME NEW k \in Nat, k <= 4, k # 0 PROVE k \in 1..4
      BY <3>2
    <3>3. QED
      BY <3>1, <3>2, Zenon
  <2>4. QED
    BY <1>1, <1>3, <2>1, <2>3
<1>6. QED
  BY <1>4, <1>5

LEMMA BusierOrders ==
  ASSUME NEW s \in Seq(Int)
  PROVE  /\ IsFiniteSet(BA!Hours(s)) /\ BA!Hours(s) = Keys(s) /\ BA!Hours(s) \subseteq Int
         /\ StrictOrder(BA!Hours(s), BA!Busier(s))
<1>1. PICK H : H = BA!Hours(s)
  OBVIOUS
<1>2. H = Keys(s) /\ H \subseteq Int
  BY <1>1 DEF BA!Hours, Keys
<1>3. IsFiniteSet(H)
  BY <1>2, OccurrencesTyped
<1>4. PICK count : count = [k \in H |-> Occurrences(s, k)]
  OBVIOUS
<1>5. PICK place : place = [k \in H |-> k]
  OBVIOUS
<1>6. count \in [H -> Int] /\ place \in [H -> Int]
  <2>1. \A k \in H : Occurrences(s, k) \in Int
    BY OccurrencesTyped
  <2>2. QED
    BY <1>2, <1>4, <1>5, <2>1
<1>7. \A j, k \in H : place[j] = place[k] => j = k
  BY <1>5
<1>8. ASSUME NEW j \in H, NEW k \in H
      PROVE  <<j, k>> \in BA!Busier(s) <=>
                (count[j] > count[k] \/ (count[j] = count[k] /\ place[j] < place[k]))
  BY <1>1, <1>4, <1>5, SameFolds DEF BA!Busier
<1>9. StrictOrder(H, BA!Busier(s))
  <2>1. PICK order : order = BA!Busier(s)
    OBVIOUS
  <2>2. \A j, k \in H : <<j, k>> \in order <=>
                           (count[j] > count[k] \/ (count[j] = count[k] /\ place[j] < place[k]))
    BY <1>8, <2>1, Zenon
  <2>3. StrictOrder(H, order)
    BY <1>6, <1>7, <2>2, CountOrder
  <2>4. QED
    BY <2>1, <2>3, Zenon
<1>10. QED
  BY <1>1, <1>2, <1>3, <1>9

LEMMA TopHoursTyped ==
  ASSUME NEW s \in Seq(Int), NEW n \in Nat
  PROVE  BA!topHours(s, n) \in Seq(Int)
<1>1. PICK all : all = Ranked(BA!Hours(s), BA!Busier(s))
  OBVIOUS
<1>2. Arranges(all, BA!Hours(s), BA!Busier(s))
  BY <1>1, BusierOrders, RankedArranges
<1>3. all \in Seq(BA!Hours(s)) /\ BA!Hours(s) \subseteq Int
  BY <1>2, BusierOrders DEF Arranges
<1>4. all \in Seq(Int)
  BY <1>3, SeqMonotonic
<1>5. BA!topHours(s, n) = UpTo(all, n)
  BY <1>1, SameFolds DEF BA!topHours
<1>6. QED
  BY <1>4, <1>5, UpToKeeps

-----------------------------------------------------------------------------
(* Ranges of hours: what they hold, and that no two could be joined.       *)

Ranges == Seq(Int \X Int)

Covers(R) == UNION {R[i][1]..R[i][2] : i \in DOMAIN R}

Apart(R) ==
  /\ \A i \in DOMAIN R : R[i][1] <= R[i][2]
  /\ \A i \in 2..Len(R) : R[i-1][2] + 1 < R[i][1]

(* What one more hour makes of the ranges. *)
LEMMA ExtendTyped ==
  ASSUME NEW R \in Ranges, NEW h \in Int
  PROVE  /\ BA!Extend(R, h) \in Ranges
         /\ R # <<>> => Len(R) \in 1..Len(R)
<1>1. <<h, h>> \in Int \X Int
  OBVIOUS
<1>2. Append(R, <<h, h>>) \in Ranges
  BY <1>1, AppendProperties DEF Ranges
<1>3. ASSUME R # <<>> PROVE Len(R) \in 1..Len(R) /\ [R EXCEPT ![Len(R)] = <<R[Len(R)][1], h>>] \in Ranges
  <2>1. PICK n \in Nat : n = Len(R) /\ n # 0
    BY <1>3, EmptySeq DEF Ranges
  <2>2. n \in 1..Len(R) /\ R[n] \in Int \X Int
    BY <2>1 DEF Ranges
  <2>3. <<R[n][1], h>> \in Int \X Int
    BY <2>2
  <2>4. [R EXCEPT ![n] = <<R[n][1], h>>] \in Seq(Int \X Int)
    BY <2>2, <2>3, ExceptSeq DEF Ranges
  <2>5. QED
    BY <2>1, <2>2, <2>4 DEF Ranges
<1>4. QED
  BY <1>2, <1>3 DEF BA!Extend

LEMMA PairTyped == \A p \in Int \X Int : p[1] \in Int /\ p[2] \in Int
OBVIOUS

LEMMA ExtendKeeps ==
  ASSUME NEW R \in Ranges, NEW h \in Int, Apart(R),
         R # <<>> => R[Len(R)][2] < h
  PROVE  LET Q == BA!Extend(R, h) IN
         /\ Q # <<>> /\ Apart(Q) /\ Q[Len(Q)][2] = h
         /\ Covers(Q) = Covers(R) \cup {h}
<1>1. PICK n \in Nat : n = Len(R) /\ DOMAIN R = 1..n
  BY DEF Ranges
<1>2. \A i \in 1..n : R[i] \in Int \X Int /\ R[i][1] \in Int /\ R[i][2] \in Int
  <2>1. \A i \in 1..n : R[i] \in Int \X Int
    BY <1>1 DEF Ranges
  <2>2. QED
    BY <2>1, PairTyped
<1>3. /\ \A i \in 1..n : R[i][1] <= R[i][2]
      /\ \A i \in 2..n : R[i-1][2] + 1 < R[i][1]
  BY <1>1 DEF Apart
<1>4. PICK Q : Q = BA!Extend(R, h)
  OBVIOUS
<1>5. CASE R # <<>> /\ h = R[n][2] + 1
  <2>1. n \in 1..n
    BY <1>1, <1>5, ExtendTyped
  <2>2. Q = [R EXCEPT ![n] = <<R[n][1], h>>]
    BY <1>1, <1>4, <1>5 DEF BA!Extend
  <2>3. DOMAIN Q = 1..n /\ Q \in Ranges /\ Len(Q) = n
    <3>1. Q \in Ranges
      BY <1>4, ExtendTyped
    <3>2. DOMAIN Q = 1..n
      BY <1>1, <2>2
    <3>3. QED
      BY <3>1, <3>2 DEF Ranges
  <2>4. Q[n] = <<R[n][1], h>> /\ \A i \in 1..n : i # n => Q[i] = R[i]
    BY <1>1, <2>1, <2>2
  <2>5. Q[n][1] = R[n][1] /\ Q[n][2] = h
    BY <2>4
  <2>6. \A i \in 1..n : Q[i][1] = R[i][1]
    BY <2>4, <2>5
  <2>7. Apart(Q)
    <3>1. ASSUME NEW i \in 1..n PROVE Q[i][1] <= Q[i][2]
      <4>1. CASE i = n
        BY <4>1, <1>2, <1>3, <1>5, <2>1, <2>5
      <4>2. CASE i # n
        BY <4>2, <1>3, <2>4
      <4>3. QED
        BY <4>1, <4>2
    <3>2. ASSUME NEW i \in 2..n PROVE Q[i-1][2] + 1 < Q[i][1]
      <4>1. i - 1 \in 1..n /\ i - 1 # n /\ i \in 1..n
        OBVIOUS
      <4>2. Q[i-1] = R[i-1] /\ Q[i][1] = R[i][1]
        BY <4>1, <2>4, <2>6
      <4>3. QED
        BY <4>2, <1>3
    <3>3. QED
      BY <2>3, <3>1, <3>2 DEF Apart
  <2>8. Covers(Q) = Covers(R) \cup {h}
    <3>1. Q[n][1]..Q[n][2] = (R[n][1]..R[n][2]) \cup {h}
      <4>1. PICK a \in Int, b \in Int : a = R[n][1] /\ b = R[n][2] /\ a <= b
        BY <1>2, <1>3, <2>1
      <4>2. a..(b + 1) = (a..b) \cup {b + 1}
        BY <4>1
      <4>3. QED
        BY <4>1, <4>2, <1>5, <2>5
    <3>2. \A i \in 1..n : i # n => Q[i][1]..Q[i][2] = R[i][1]..R[i][2]
      BY <2>4
    <3>3. ASSUME NEW x \in Covers(Q) PROVE x \in Covers(R) \cup {h}
      <4>1. PICK i \in 1..n : x \in Q[i][1]..Q[i][2]
        BY <2>3 DEF Covers
      <4>2. x \in R[i][1]..R[i][2] \/ x = h
        BY <4>1, <3>1, <3>2
      <4>3. QED
        BY <4>2, <1>1 DEF Covers
    <3>4. ASSUME NEW x \in Covers(R) PROVE x \in Covers(Q)
      <4>1. PICK i \in 1..n : x \in R[i][1]..R[i][2]
        BY <1>1 DEF Covers
      <4>2. x \in Q[i][1]..Q[i][2]
        BY <4>1, <3>1, <3>2
      <4>3. QED
        BY <4>2, <2>3 DEF Covers
    <3>5. h \in Covers(Q)
      BY <3>1, <2>1, <2>3 DEF Covers
    <3>6. QED
      BY <3>3, <3>4, <3>5
  <2>9. Q # <<>>
    BY <2>1, <2>3
  <2>10. QED
    BY <1>4, <2>3, <2>5, <2>7, <2>8, <2>9
<1>6. CASE ~ (R # <<>> /\ h = R[n][2] + 1)
  <2>1. Q = Append(R, <<h, h>>)
    BY <1>1, <1>4, <1>6 DEF BA!Extend
  <2>2. DOMAIN Q = 1..(n + 1) /\ Q \in Ranges /\ Len(Q) = n + 1
    <3>1. Q \in Ranges
      BY <1>4, ExtendTyped
    <3>2. Len(Q) = n + 1
      BY <1>1, <2>1 DEF Ranges
    <3>3. QED
      BY <3>1, <3>2 DEF Ranges
  <2>3. Q[n + 1] = <<h, h>> /\ \A i \in 1..n : Q[i] = R[i]
    BY <1>1, <2>1 DEF Ranges
  <2>4. Q[n + 1][1] = h /\ Q[n + 1][2] = h
    BY <2>3
  <2>5. \A i \in 1..(n + 1) : i \in 1..n \/ i = n + 1
    OBVIOUS
  <2>6. n + 1 \in 1..(n + 1) /\ \A i \in 1..n : i \in 1..(n + 1)
    OBVIOUS
  <2>7. Apart(Q)
    <3>1. \A i \in 1..(n + 1) : Q[i][1] <= Q[i][2]
      BY <1>3, <2>3, <2>4, <2>5
    <3>2. ASSUME NEW i \in 2..(n + 1) PROVE Q[i-1][2] + 1 < Q[i][1]
      <4>1. CASE i = n + 1
        <5>1. n \in 1..n /\ i - 1 = n
          BY <4>1
        <5>2. R # <<>>
          BY <5>1, <1>1
        <5>3. R[n][2] < h /\ h # R[n][2] + 1 /\ R[n][2] \in Int
          BY <5>1, <5>2, <1>1, <1>2, <1>6
        <5>4. Q[i-1] = R[n] /\ Q[i][1] = h
          BY <4>1, <5>1, <2>3, <2>4
        <5>5. QED
          BY <5>3, <5>4
      <4>2. CASE i # n + 1
        <5>1. i \in 2..n /\ i - 1 \in 1..n /\ i \in 1..n
          BY <4>2
        <5>2. QED
          BY <5>1, <1>3, <2>3
      <4>3. QED
        BY <4>1, <4>2
    <3>3. QED
      BY <2>2, <3>1, <3>2 DEF Apart
  <2>8. Covers(Q) = Covers(R) \cup {h}
    <3>1. Q[n + 1][1]..Q[n + 1][2] = {h}
      BY <2>4
    <3>2. ASSUME NEW x \in Covers(Q) PROVE x \in Covers(R) \cup {h}
      <4>1. PICK i \in 1..(n + 1) : x \in Q[i][1]..Q[i][2]
        BY <2>2 DEF Covers
      <4>2. CASE i \in 1..n
        BY <4>1, <4>2, <1>1, <2>3 DEF Covers
      <4>3. CASE i = n + 1
        BY <4>1, <4>3, <3>1
      <4>4. QED
        BY <4>2, <4>3, <2>5
    <3>3. ASSUME NEW x \in Covers(R) PROVE x \in Covers(Q)
      <4>1. PICK i \in 1..n : x \in R[i][1]..R[i][2]
        BY <1>1 DEF Covers
      <4>2. i \in DOMAIN Q /\ x \in Q[i][1]..Q[i][2]
        BY <4>1, <2>2, <2>3, <2>6
      <4>3. QED
        BY <4>2 DEF Covers
    <3>4. h \in Covers(Q)
      BY <3>1, <2>2, <2>6 DEF Covers
    <3>5. QED
      BY <3>2, <3>3, <3>4
  <2>9. Q # <<>>
    BY <2>2
  <2>10. QED
    BY <1>4, <2>2, <2>4, <2>7, <2>8, <2>9
<1>7. QED
  BY <1>5, <1>6

(* The same hours in the order of the day. *)
LEMMA SortedHours ==
  ASSUME NEW hours \in Seq(Int)
  PROVE  LET s == BA!Sorted(hours) IN
         /\ s \in Seq(Int) /\ Keys(s) = BA!Hours(hours)
         /\ \A i, j \in DOMAIN s : i < j => s[i] < s[j]
<1>1. PICK H : H = BA!Hours(hours)
  OBVIOUS
<1>2. IsFiniteSet(H) /\ H \subseteq Int
  BY <1>1, BusierOrders
<1>3. PICK order : order = {p \in H \X H : p[1] < p[2]}
  OBVIOUS
<1>4. \A i, j \in H : <<i, j>> \in order <=> i < j
  BY <1>3
<1>5. StrictOrder(H, order)
  BY <1>2, <1>4 DEF StrictOrder
<1>6. PICK s : s = Ranked(H, order)
  OBVIOUS
<1>7. Arranges(s, H, order)
  BY <1>2, <1>5, <1>6, RankedArranges
<1>8. /\ s \in Seq(H) /\ DOMAIN s = 1..Len(s)
      /\ \A k \in H : \E i \in 1..Len(s) : s[i] = k
      /\ \A i, j \in 1..Len(s) : i < j => <<s[i], s[j]>> \in order
  BY <1>7 DEF Arranges
<1>9. s \in Seq(Int)
  BY <1>2, <1>8, SeqMonotonic
<1>10. \A i \in DOMAIN s : s[i] \in H
  BY <1>8
<1>11. Keys(s) = H
  BY <1>8, <1>10 DEF Keys
<1>12. \A i, j \in DOMAIN s : i < j => s[i] < s[j]
  BY <1>4, <1>8, <1>10
<1>13. BA!Sorted(hours) = s
  BY <1>1, <1>3, <1>6, SameFolds DEF BA!Sorted
<1>14. QED
  BY <1>1, <1>9, <1>11, <1>12, <1>13

LEMMA PrefixGrows ==
  ASSUME NEW s \in Seq(Int), NEW k \in Nat, k < Len(s)
  PROVE  /\ SubSeq(s, 1, k) \in Seq(Int) /\ s[k + 1] \in Int /\ k + 1 \in DOMAIN s
         /\ SubSeq(s, 1, k + 1) = Append(SubSeq(s, 1, k), s[k + 1])
<1>1. s[k + 1] \in Int /\ SubSeq(s, 1, k) \in Seq(Int) /\ k + 1 \in DOMAIN s
  OBVIOUS
<1>2. SubSeq(s, 1, k + 1) = Append(SubSeq(s, 1, k), s[k + 1])
  BY <1>1
<1>3. QED
  BY <1>1, <1>2

(* The ranges hold the hours, and no two of them could be joined. *)
LEMMA JoinedCovers ==
  ASSUME NEW hours \in Seq(Int)
  PROVE  LET R == BA!formatHourRange(hours) IN
         R \in Ranges /\ Apart(R) /\ Covers(R) = BA!Hours(hours)
<1>1. PICK s : s = BA!Sorted(hours)
  OBVIOUS
<1>2. /\ s \in Seq(Int) /\ Keys(s) = BA!Hours(hours)
      /\ \A i, j \in DOMAIN s : i < j => s[i] < s[j]
  BY <1>1, SortedHours
<1>3. PICK n \in Nat : n = Len(s) /\ DOMAIN s = 1..n
  BY <1>2
<1>4. PICK step : step = [ranges \in Ranges |-> [h \in Int |-> BA!Extend(ranges, h)]]
  OBVIOUS
<1>5. <<>> \in Ranges
  BY DEF Ranges
<1>6. Folding(Ranges, Int, step, <<>>)
  BY <1>4, <1>5, ExtendTyped DEF Folding
<1>7. Continues(Ranges, Int, step, <<>>)
  BY <1>6, FoldContinues
<1> DEFINE J(k) == Folded(step, <<>>, SubSeq(s, 1, k))
           FirstOnes(k) == {s[i] : i \in 1..k}
           Held(k) == /\ J(k) \in Ranges /\ Apart(J(k)) /\ Covers(J(k)) = FirstOnes(k)
                      /\ k = 0 => J(k) = <<>>
                      /\ k > 0 => J(k)[Len(J(k))][2] = s[k]
           S == {k \in Nat : k <= n => Held(k)}
<1>8. 0 \in S
  <2>1. SubSeq(s, 1, 0) = <<>>
    BY <1>2
  <2>2. J(0) = <<>>
    BY <2>1, <1>7 DEF Continues
  <2>3. Apart(<<>>) /\ Covers(<<>>) = {}
    BY DEF Apart, Covers
  <2>4. FirstOnes(0) = {}
    OBVIOUS
  <2>5. J(0) \in Ranges /\ Apart(J(0)) /\ Covers(J(0)) = FirstOnes(0)
    <3> HIDE DEF J, FirstOnes
    <3>1. QED
      BY <2>2, <2>3, <2>4, <1>5
  <2>6. Held(0)
    <3> HIDE DEF J, FirstOnes
    <3>1. QED
      BY <2>2, <2>5
  <2> HIDE DEF Held
  <2>7. QED
    BY <2>6
<1>9. ASSUME NEW k \in Nat, k \in S PROVE k + 1 \in S
  <2> SUFFICES ASSUME k < n PROVE Held(k + 1)
    OBVIOUS
  <2>1. Held(k)
    BY <1>9
  <2>2. PICK h \in Int : h = s[k + 1] /\ SubSeq(s, 1, k) \in Seq(Int)
                         /\ SubSeq(s, 1, k + 1) = Append(SubSeq(s, 1, k), h)
    BY <1>2, <1>3, PrefixGrows
  <2>3. PICK R \in Ranges : R = J(k)
    BY <2>1
  <2>4. J(k + 1) = step[R][h]
    <3>1. PICK t \in Seq(Int) : t = SubSeq(s, 1, k)
      BY <2>2
    <3>2. Folded(step, <<>>, Append(t, h)) = step[Folded(step, <<>>, t)][h]
      BY <1>7 DEF Continues
    <3>3. QED
      BY <2>2, <2>3, <3>1, <3>2
  <2>5. J(k + 1) = BA!Extend(R, h)
    BY <2>4, <1>4
  <2>6. J(k + 1) \in Ranges
    BY <2>5, ExtendTyped
  <2> HIDE DEF J
  <2>7. R # <<>> => R[Len(R)][2] < h
    <3> SUFFICES ASSUME R # <<>> PROVE R[Len(R)][2] < h
      OBVIOUS
    <3>1. k # 0
      BY <2>1, <2>3
    <3>2. k \in DOMAIN s /\ k + 1 \in DOMAIN s /\ k < k + 1
      BY <1>3, <3>1
    <3>3. R[Len(R)][2] = s[k]
      BY <2>1, <2>3, <3>1
    <3>4. QED
      BY <3>2, <3>3, <2>2, <1>2
  <2>8. PICK Q : Q = BA!Extend(R, h) /\ Q # <<>> /\ Apart(Q) /\ Q[Len(Q)][2] = h
                 /\ Covers(Q) = Covers(R) \cup {h}
    <3>1. Apart(R)
      BY <2>1, <2>3
    <3>2. QED
      BY <3>1, <2>7, ExtendKeeps
  <2>9. FirstOnes(k + 1) = FirstOnes(k) \cup {h}
    <3>1. 1..(k + 1) = (1..k) \cup {k + 1}
      OBVIOUS
    <3>2. QED
      BY <3>1, <2>2
  <2>10. Covers(Q) = FirstOnes(k + 1)
    BY <2>1, <2>3, <2>8, <2>9
  <2>11. k + 1 # 0 /\ Q = J(k + 1)
    BY <2>5, <2>8
  <2> HIDE DEF FirstOnes
  <2>12. QED
    BY <2>2, <2>6, <2>8, <2>10, <2>11
<1>10. Held(n)
  <2> HIDE DEF S
  <2>1. \A k \in Nat : k \in S
    BY <1>8, <1>9, Induction
  <2>2. n \in S
    BY <2>1
  <2> USE DEF S
  <2> HIDE DEF Held
  <2>3. QED
    BY <2>2
<1>11. SubSeq(s, 1, n) = s
  BY <1>2, <1>3
<1>12. FirstOnes(n) = Keys(s)
  BY <1>3 DEF Keys
<1>13. BA!formatHourRange(hours) = Folded(step, <<>>, s)
  BY <1>1, <1>4, SameFolds DEF BA!formatHourRange, BA!Joined, Ranges
<1>14. QED
  BY <1>2, <1>10, <1>11, <1>12, <1>13

LEMMA AnalyzerFaithful ==
  ASSUME StreamInv, reader = "analyzer"
  PROVE  LET stats  == BA!computeStats(stream)
             hours  == stats.peakProductivityHours
             ranges == BA!formatHourRange(hours)
         IN  /\ stats.sustainableCeiling \in 1..10
             /\ ToSet(hours) = UNION {ranges[i][1]..ranges[i][2] : i \in DOMAIN ranges}
             /\ \A i \in DOMAIN ranges : ranges[i][1] <= ranges[i][2]
             /\ \A i \in 2..Len(ranges) : ranges[i-1][2] + 1 < ranges[i][1]
<1>1. stream \in Seq(BA!Event)
  BY DEF StreamInv, StreamTyped
<1>2. PICK p : p = BA!Passed(stream)
  OBVIOUS
<1>3. p \in BA!Pass
  <2>1. CASE stream = <<>>
    <3>1. BA!NewPass \in BA!Pass
      <4>1. <<>> \in Seq(Int) /\ 0 \in Int /\ 0 \in Nat
        OBVIOUS
      <4>2. QED
        BY <4>1 DEF BA!NewPass, BA!Pass, BA!NoTime
    <3>2. QED
      BY <1>2, <2>1, <3>1, PassedContinues
  <2>2. CASE stream # <<>>
    <3>1. 1 \in 1..Len(stream)
      BY <1>1, <2>2
    <3>2. stream[1] \in BA!Event
      BY <1>1, <3>1
    <3>3. QED
      BY <1>1, <1>2, <3>2, PassedContinues
  <2>3. QED
    BY <2>1, <2>2
<1>4. PICK all : all = [i \in DOMAIN stream |-> BA!hourOf(stream[i].ts)]
  OBVIOUS
<1>5. all \in Seq(Int)
  <2>1. PICK n \in Nat : n = Len(stream) /\ DOMAIN stream = 1..n
    BY <1>1
  <2>2. \A i \in 1..n : stream[i].ts \in Int
    BY <1>1, <2>1, EventHasTime
  <2>3. \A t \in Int : BA!hourOf(t) \in Int
    BY DEF BA!hourOf, BA!Hour, BA!Minute
  <2>4. all \in [1..n -> Int]
    BY <1>4, <2>1, <2>2, <2>3
  <2>5. QED
    BY <2>4
<1>6. PICK hours : hours = BA!topHours(all, 3)
  OBVIOUS
<1>7. hours \in Seq(Int)
  BY <1>5, <1>6, TopHoursTyped
<1>8. PICK stats : stats = BA!computeStats(stream)
  OBVIOUS
<1>9. /\ stats.peakProductivityHours = hours
      /\ stats.sustainableCeiling = BA!ceilingOf(p.succeeded, p.failures)
  BY <1>2, <1>4, <1>6, <1>8 DEF BA!computeStats
<1>10. BA!ceilingOf(p.succeeded, p.failures) \in 1..10
  BY <1>3, PassTyped2, CeilingWithin
<1>11. PICK R : R = BA!formatHourRange(hours)
  OBVIOUS
<1>12. Apart(R) /\ Covers(R) = BA!Hours(hours)
  BY <1>7, <1>11, JoinedCovers
<1>13. BA!Hours(hours) = ToSet(hours)
  BY DEF BA!Hours, ToSet
<1>14. QED
  BY <1>8, <1>9, <1>10, <1>11, <1>12, <1>13 DEF Apart, Covers

LEMMA AnswersFaithful ==
  ASSUME NEW answer \in Answers
  PROVE  LET said == BA!aiInsights(stream, MinForAi, answer) IN
         /\ Len(BA!analyze(stream, MinForAi, answer)) \in 1..4
         /\ \A i \in DOMAIN said : said[i] \in 1..200
<1>1. answer \in Seq(Nat)
  BY JudgementAssumption
<1>2. QED
  BY <1>1, InsightsBounded

LEMMA PatternFaithful ==
  ASSUME StreamInv, reader = "pattern"
  PROVE  LET hours == [i \in DOMAIN stream |-> stream[i].hour]
             peaks == getPlayerPattern(stream, <<>>).peakProductivityHours
         IN  /\ Len(peaks) <= 3 /\ Cardinality(ToSet(peaks)) = Len(peaks)
             /\ \A h \in ToSet(hours) \ ToSet(peaks) : \A p \in ToSet(peaks) :
                   Occurrences(hours, h) <= Occurrences(hours, p)
<1>1. PICK n \in Nat : DOMAIN stream = 1..n
  BY DEF StreamInv, StreamTyped
<1>2. PICK hours : hours = [i \in DOMAIN stream |-> stream[i].hour]
  OBVIOUS
<1>3. PICK V : V = {stream[i].hour : i \in 1..n}
  OBVIOUS
<1>4. hours \in Seq(V)
  <2>1. hours \in [1..n -> V]
    BY <1>1, <1>2, <1>3
  <2>2. QED
    BY <2>1
<1>5. PICK peaks : peaks = MostCommon(hours, 3)
  OBVIOUS
<1>6. /\ peaks \in Seq(Keys(hours)) /\ Len(peaks) <= 3
      /\ \A i, j \in DOMAIN peaks : peaks[i] = peaks[j] => i = j
      /\ \A k \in Keys(hours) : k \in Keys(peaks) \/
            \A i \in DOMAIN peaks : Occurrences(hours, k) <= Occurrences(hours, peaks[i])
  BY <1>4, <1>5, MostCommonAre
<1>7. Cardinality(Keys(peaks)) = Len(peaks)
  BY <1>6, EachOnce
<1>8. \A s : ToSet(s) = Keys(s)
  BY DEF ToSet, Keys
<1>9. getPlayerPattern(stream, <<>>).peakProductivityHours = peaks
  BY <1>2, <1>5 DEF getPlayerPattern
<1>10. ASSUME NEW h \in ToSet(hours) \ ToSet(peaks), NEW p \in ToSet(peaks)
       PROVE  Occurrences(hours, h) <= Occurrences(hours, p)
  <2>1. h \in Keys(hours) /\ h \notin Keys(peaks)
    BY <1>8
  <2>2. PICK i \in DOMAIN peaks : p = peaks[i]
    BY DEF ToSet
  <2>3. QED
    BY <2>1, <2>2, <1>6
<1>11. QED
  BY <1>2, <1>6, <1>7, <1>8, <1>9, <1>10

(* For any request, any answer of the text model and any history: the      *)
(* insights of analyzer.service.ts keep their number and their lengths,    *)
(* the ranges of compact-summary.ts hold exactly the peak hours, and the   *)
(* peak hours of scoring.service.ts are the commonest.                     *)
THEOREM AnalysisAlwaysFaithful == StreamSpec => []AnalysisFaithful
<1>1. StreamInv => AnalysisFaithful
  <2> SUFFICES ASSUME StreamInv PROVE AnalysisFaithful
    OBVIOUS
  <2>1. CASE reader = "analyzer"
    BY <2>1, AnalyzerFaithful, AnswersFaithful DEF AnalysisFaithful
  <2>2. CASE reader = "pattern"
    BY <2>2, PatternFaithful DEF AnalysisFaithful
  <2>3. CASE reader \notin {"analyzer", "pattern"}
    BY <2>3 DEF AnalysisFaithful
  <2>4. QED
    BY <2>1, <2>2, <2>3
<1>2. QED
  BY <1>1, StreamInvariance, PTL
=============================================================================
