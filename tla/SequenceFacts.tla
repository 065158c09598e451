---------------------------- MODULE SequenceFacts ----------------------------
(* Facts about positions, sequences and folds that the proofs of several   *)
(* components use.  What is folded is given as a function, not as an       *)
(* operator, so that the facts can be cited.                               *)
EXTENDS Integers, Sequences, SequencesExt, SequenceTheorems, WellFoundedInduction, TLAPS

(* A set of positions has a last one. *)
LEMMA LastOf ==
    ASSUME NEW L \in Nat, NEW S, S \subseteq 1 .. L, S # {}
    PROVE  \E m \in S : \A k \in S : k <= m
<1> DEFINE T == {L - k : k \in S}
<1>1. T \subseteq Nat /\ T # {}
  <2>1. \A k \in S : L - k \in Nat
    OBVIOUS
  <2>2. PICK k : k \in S
    OBVIOUS
  <2>3. L - k \in T
    BY <2>2
  <2> QED BY <2>1, <2>3
<1> DEFINE R == OpToRel(<, Nat)
<1>2. IsWellFoundedOn(R, Nat)
  BY NatLessThanWellFounded
<1> HIDE DEF R
<1>3. \E x \in T : \A y \in T : ~ (<<y, x>> \in R)
  BY <1>1, <1>2, WFMin
<1>4. \A y \in Nat, x \in Nat : <<y, x>> \in R <=> y < x
  BY DEF R, OpToRel
<1>5. \E x \in T : \A y \in T : ~ (y < x)
  BY <1>1, <1>3, <1>4
<1>6. PICK m \in S : \A y \in T : ~ (y < L - m)
  BY <1>5
<1>7. \A k \in S : ~ (L - k < L - m)
  BY <1>6
<1> QED BY <1>7

(* t is s with e at place j. *)
Between(s, t, e, j) ==
    \A i \in 1 .. Len(s) + 1 :
        \/ i < j /\ i \in 1 .. Len(s) /\ t[i] = s[i]
        \/ i = j /\ t[i] = e
        \/ i > j /\ i - 1 \in 1 .. Len(s) /\ t[i] = s[i - 1]

LEMMA Inserted ==
    ASSUME NEW S, NEW s \in Seq(S), NEW e \in S, NEW j \in 1 .. Len(s) + 1,
           NEW t, t = InsertAt(s, j, e)
    PROVE  t \in Seq(S) /\ Len(t) = Len(s) + 1 /\ Between(s, t, e, j)
<1> DEFINE before == SubSeq(s, 1, j - 1)
           after == SubSeq(s, j, Len(s))
           front == before \o <<e>>
<1>0. /\ Len(s) \in Nat /\ j \in Nat \ {0} /\ j <= Len(s) + 1
      /\ \A i \in 1 .. Len(s) : s[i] \in S
  OBVIOUS
<1>1. /\ before \in Seq(S) /\ Len(before) = j - 1
      /\ \A i \in 1 .. j - 1 : before[i] = s[i]
  <2>1. \A i \in 1 .. j - 1 : s[i] \in S
    BY <1>0
  <2> QED BY <1>0, <2>1, SubSeqProperties
<1>2. /\ after \in Seq(S) /\ Len(after) = Len(s) + 1 - j
      /\ \A i \in 1 .. Len(s) + 1 - j : after[i] = s[j + i - 1]
  <2>1. \A i \in j .. Len(s) : s[i] \in S
    BY <1>0
  <2> QED BY <1>0, <2>1, SubSeqProperties
<1>3. t = front \o after
  BY DEF InsertAt
<1> HIDE DEF before, after
<1>4. /\ front \in Seq(S) /\ Len(front) = j
      /\ \A i \in 1 .. j : front[i] = IF i <= j - 1 THEN before[i] ELSE <<e>>[i - (j - 1)]
  <2>1. <<e>> \in Seq(S) /\ Len(<<e>>) = 1 /\ (j - 1) + 1 = j
    BY <1>0
  <2> QED BY <2>1, <1>1, ConcatProperties
<1> HIDE DEF front
<1>5. /\ t \in Seq(S) /\ Len(t) = j + (Len(s) + 1 - j)
      /\ \A i \in 1 .. j + (Len(s) + 1 - j) :
            t[i] = IF i <= j THEN front[i] ELSE after[i - j]
  BY <1>2, <1>3, <1>4, ConcatProperties
<1>6. j + (Len(s) + 1 - j) = Len(s) + 1
  BY <1>0
<1>7. ASSUME NEW i \in 1 .. Len(s) + 1
      PROVE  \/ i < j /\ i \in 1 .. Len(s) /\ t[i] = s[i]
             \/ i = j /\ t[i] = e
             \/ i > j /\ i - 1 \in 1 .. Len(s) /\ t[i] = s[i - 1]
  <2>0. i \in 1 .. j + (Len(s) + 1 - j)
    BY <1>6
  <2>1. CASE i < j
    <3>1. i \in 1 .. j /\ i <= j - 1 /\ i \in 1 .. j - 1 /\ i \in 1 .. Len(s)
      BY <2>1, <1>0
    <3>2. t[i] = front[i]
      BY <2>0, <3>1, <1>0, <1>5
    <3> QED BY <2>1, <3>1, <3>2, <1>1, <1>4
  <2>2. CASE i = j
    <3>1. t[j] = front[j]
      BY <2>0, <2>2, <1>0, <1>5
    <3>2. j \in 1 .. j /\ ~ (j <= j - 1) /\ j - (j - 1) = 1
      BY <1>0
    <3>3. front[j] = <<e>>[1]
      BY <3>2, <1>4
    <3> QED BY <2>2, <3>1, <3>3
  <2>3. CASE i > j
    <3>1. /\ i - j \in 1 .. Len(s) + 1 - j /\ j + (i - j) - 1 = i - 1
          /\ ~ (i <= j) /\ i - 1 \in 1 .. Len(s)
      BY <2>3, <1>0
    <3>2. t[i] = after[i - j]
      BY <2>0, <3>1, <1>5
    <3>3. after[i - j] = s[i - 1]
      BY <3>1, <1>2
    <3> QED BY <2>3, <3>1, <3>2, <3>3
  <2> QED BY <2>1, <2>2, <2>3, <1>0
<1> QED BY <1>5, <1>6, <1>7 DEF Between

(* The last of a set of positions, as FoldLeft chooses it. *)
Latest(s) == CHOOSE x \in s : \A y \in s : x >= y

LEMMA LatestOf ==
    ASSUME NEW n \in Nat, NEW s, s \subseteq 1 .. n, s # {}
    PROVE  Latest(s) \in s /\ \A y \in s : Latest(s) >= y
<1>1. \E x \in s : \A y \in s : x >= y
  <2>1. PICK m \in s : \A k \in s : k <= m
    BY LastOf
  <2> QED BY <2>1
<1> QED BY <1>1 DEF Latest

LEMMA LatestOfPrefix ==
    ASSUME NEW k \in Nat
    PROVE  Latest(1 .. k + 1) = k + 1 /\ (1 .. k + 1) \ {k + 1} = 1 .. k /\ 1 .. k + 1 # {}
<1>1. Latest(1 .. k + 1) \in 1 .. k + 1 /\ \A y \in 1 .. k + 1 : Latest(1 .. k + 1) >= y
  BY LatestOf
<1>2. k + 1 \in 1 .. k + 1
  OBVIOUS
<1> QED BY <1>1, <1>2

(* What holds of 0 and of every successor holds up to n. *)
LEMMA Counting ==
    ASSUME NEW n \in Nat, NEW S, S \subseteq 0 .. n, 0 \in S,
           \A k \in S : k < n => k + 1 \in S
    PROVE  S = 0 .. n
<1> SUFFICES ASSUME NEW k \in 0 .. n, k \notin S
             PROVE  FALSE
  OBVIOUS
<1> DEFINE T == (0 .. n) \ S
           R == OpToRel(<, Nat)
<1>1. T \subseteq Nat /\ T # {}
  OBVIOUS
<1>2. IsWellFoundedOn(R, Nat)
  BY NatLessThanWellFounded
<1> HIDE DEF R
<1>3. \E x \in T : \A y \in T : ~ (<<y, x>> \in R)
  BY <1>1, <1>2, WFMin
<1>4. \A y \in Nat, x \in Nat : <<y, x>> \in R <=> y < x
  BY DEF R, OpToRel
<1>5. PICK x \in T : \A y \in T : ~ (y < x)
  BY <1>1, <1>3, <1>4
<1>6. x \in 0 .. n /\ x \notin S /\ x # 0
  OBVIOUS
<1>7. x - 1 \in S
  BY <1>5, <1>6
<1> QED BY <1>6, <1>7

(* The recursion behind FoldLeft has a solution. *)
Solves(iter, n, base, op) ==
    iter = [s \in SUBSET (1 .. n) |->
               IF s = {} THEN base ELSE op[<<iter[s \ {Latest(s)}], Latest(s)>>]]

LEMMA FoldExists ==
    ASSUME NEW n \in Nat, NEW A, NEW base \in A, NEW op \in [A \X (1 .. n) -> A]
    PROVE  \E iter \in [SUBSET (1 .. n) -> A] : Solves(iter, n, base, op)
<1> DEFINE S == {k \in 0 .. n : \E iter \in [SUBSET (1 .. k) -> A] : Solves(iter, k, base, op)}
<1>1. 0 \in S
  <2> DEFINE iter == [s \in SUBSET (1 .. 0) |-> base]
  <2>1. SUBSET (1 .. 0) = {{}}
    OBVIOUS
  <2>2. iter \in [SUBSET (1 .. 0) -> A]
    OBVIOUS
  <2>3. Solves(iter, 0, base, op)
    BY <2>1 DEF Solves
  <2> QED BY <2>2, <2>3
<1>2. ASSUME NEW k \in S, k < n
      PROVE  k + 1 \in S
  <2>1. PICK g \in [SUBSET (1 .. k) -> A] : Solves(g, k, base, op)
    OBVIOUS
  <2>2. k \in Nat /\ k + 1 \in 1 .. n /\ k + 1 \in 0 .. n
    BY <1>2
  <2> DEFINE iter == [s \in SUBSET (1 .. k + 1) |->
                        IF k + 1 \in s THEN op[<<g[s \ {k + 1}], k + 1>>] ELSE g[s]]
  <2>3. ASSUME NEW s \in SUBSET (1 .. k + 1)
        PROVE  /\ iter[s] \in A
               /\ iter[s] = IF s = {} THEN base ELSE op[<<iter[s \ {Latest(s)}], Latest(s)>>]
    <3>1. CASE k + 1 \in s
      <4>1. Latest(s) = k + 1
        <5>1. Latest(s) \in s /\ \A y \in s : Latest(s) >= y
          <6>1. k + 1 \in Nat /\ s \subseteq 1 .. k + 1 /\ s # {}
            BY <2>2, <3>1
          <6> QED BY <6>1, LatestOf
        <5>2. Latest(s) \in 1 .. k + 1 /\ Latest(s) >= k + 1
          BY <5>1, <3>1
        <5> QED BY <5>2, <2>2
      <4>2. s \ {k + 1} \in SUBSET (1 .. k) /\ s \ {k + 1} \in SUBSET (1 .. k + 1)
        BY <2>2
      <4>3. iter[s \ {k + 1}] = g[s \ {k + 1}] /\ g[s \ {k + 1}] \in A
        BY <4>2
      <4>4. iter[s] = op[<<g[s \ {k + 1}], k + 1>>] /\ s # {}
        BY <3>1
      <4>5. op[<<g[s \ {k + 1}], k + 1>>] \in A
        BY <4>3, <2>2
      <4> HIDE DEF iter
      <4> QED BY <4>1, <4>3, <4>4, <4>5
    <3>2. CASE k + 1 \notin s
      <4>1. s \in SUBSET (1 .. k) /\ iter[s] = g[s]
        BY <2>2, <3>2
      <4>2. g[s] = IF s = {} THEN base ELSE op[<<g[s \ {Latest(s)}], Latest(s)>>]
        BY <2>1, <4>1 DEF Solves
      <4>3. g[s] \in A
        BY <4>1
      <4>4. s \ {Latest(s)} \in SUBSET (1 .. k + 1) /\ k + 1 \notin s \ {Latest(s)}
        BY <3>2
      <4>5. iter[s \ {Latest(s)}] = g[s \ {Latest(s)}]
        BY <4>4
      <4> HIDE DEF iter
      <4> QED BY <4>1, <4>2, <4>3, <4>5
    <3> QED BY <3>1, <3>2
  <2>4. iter \in [SUBSET (1 .. k + 1) -> A]
    <3> DEFINE value(s) == IF k + 1 \in s THEN op[<<g[s \ {k + 1}], k + 1>>] ELSE g[s]
    <3>1. \A s \in SUBSET (1 .. k + 1) : iter[s] = value(s)
      OBVIOUS
    <3>2. \A s \in SUBSET (1 .. k + 1) : value(s) \in A
      BY <2>3, <3>1
    <3> HIDE DEF value
    <3> QED BY <2>3
  <2>5. Solves(iter, k + 1, base, op)
    <3>1. DOMAIN iter = SUBSET (1 .. k + 1)
      OBVIOUS
    <3> HIDE DEF iter
    <3> QED BY <2>3, <2>4, <3>1 DEF Solves
  <2> HIDE DEF iter
  <2> QED BY <2>2, <2>4, <2>5
<1>3. S = 0 .. n
  <2>1. S \subseteq 0 .. n
    OBVIOUS
  <2> HIDE DEF S
  <2> QED BY <1>1, <1>2, <2>1, Counting
<1>4. n \in S
  <2>1. n \in 0 .. n
    OBVIOUS
  <2> HIDE DEF S
  <2> QED BY <1>3, <2>1
<1> QED BY <1>4
=============================================================================
