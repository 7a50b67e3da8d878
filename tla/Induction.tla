------------------------------ MODULE Induction ------------------------------
(***************************************************************************)
(* Induction over the positions of a sequence, by sets instead of by       *)
(* predicates: what the proofs of the other modules need of the natural    *)
(* numbers.  What holds for a set of numbers is proved for an operator by  *)
(* naming the set of numbers it is true of.                                *)
(***************************************************************************)
EXTENDS TLAPS, NaturalsInduction, WellFoundedInduction, Sequences

(* What fails for a number fails for a least one.                          *)
LEMMA LeastExists ==
  ASSUME NEW S \in SUBSET Nat, S # {}
  PROVE  \E n \in S : \A k \in S : n <= k
  <1>1. PICK R : /\ IsWellFoundedOn(R, Nat)
                 /\ R = {ss \in Nat \X Nat : ss[1] < ss[2]}
    <2>1. OpToRel(<, Nat) = {ss \in Nat \X Nat : ss[1] < ss[2]}
      BY DEF OpToRel
    <2> QED BY <2>1, NatLessThanWellFounded, Zenon
  <1>2. PICK x \in S : \A y \in S : ~(<<y, x>> \in R)
    BY <1>1, WFMin, Zenon
  <1>3. ASSUME NEW y \in S PROVE x <= y
    <2>1. y < x => <<y, x>> \in {ss \in Nat \X Nat : ss[1] < ss[2]}
      OBVIOUS
    <2> QED BY <1>1, <1>2, <2>1
  <1> QED BY <1>3

(* A set that has 0, and the successor of each of its numbers below L,     *)
(* has all numbers up to L.                                                *)
LEMMA CountingUp ==
  ASSUME NEW L \in Nat, NEW S, 0 \in S, \A n \in 1 .. L : n - 1 \in S => n \in S
  PROVE  \A n \in 0 .. L : n \in S
  <1> DEFINE Left == {n \in 0 .. L : n \notin S}
  <1> SUFFICES ASSUME Left # {} PROVE FALSE
    OBVIOUS
  <1>1. Left \in SUBSET Nat
    OBVIOUS
  <1>2. PICK n \in Left : \A k \in Left : n <= k
    BY <1>1, LeastExists
  <1>3. n \in 1 .. L /\ n - 1 \in 0 .. L /\ ~(n <= n - 1) /\ n \notin S
    OBVIOUS
  <1>4. n - 1 \in S
    BY <1>2, <1>3
  <1> QED BY <1>3, <1>4

(* What is computed position by position has a value: there is a function  *)
(* that starts with z and goes from n - 1 to n by the n-th of the steps.   *)
Computes(f, L, X, z, step) ==
  /\ f \in [0 .. L -> X] /\ f[0] = z
  /\ \A n \in 1 .. L : f[n] = step[n][f[n - 1]]

LEMMA RecursionExists ==
  ASSUME NEW L \in Nat, NEW X, NEW z \in X, NEW step \in [1 .. L -> [X -> X]]
  PROVE  \E f : Computes(f, L, X, z, step)
  <1> DEFINE Goes(f, k) == /\ f \in [0 .. k -> X] /\ f[0] = z
                           /\ \A n \in 1 .. k : f[n] = step[n][f[n - 1]]
             S == {k \in 0 .. L : \E f : Goes(f, k)}
  <1>1. Goes([n \in 0 .. 0 |-> z], 0)
    OBVIOUS
  <1>2. ASSUME NEW k \in 1 .. L, NEW f, Goes(f, k - 1)
        PROVE  \E g : Goes(g, k)
    <2> DEFINE g == [n \in 0 .. k |-> IF n = k THEN step[k][f[k - 1]] ELSE f[n]]
    <2>1. k - 1 \in 0 .. k - 1 /\ f[k - 1] \in X
      BY <1>2
    <2>2. step[k][f[k - 1]] \in X
      BY <2>1
    <2>3. g \in [0 .. k -> X]
      BY <1>2, <2>2
    <2>4. g[0] = z
      BY <1>2
    <2>5. ASSUME NEW n \in 1 .. k PROVE g[n] = step[n][g[n - 1]]
      <3>1. n - 1 \in 0 .. k /\ n \in 0 .. k /\ n - 1 # k
        OBVIOUS
      <3>2. CASE n = k
        BY <3>1, <3>2
      <3>3. CASE n # k
        <4>1. n \in 1 .. k - 1
          BY <3>3
        <4> QED BY <1>2, <3>1, <3>3, <4>1
      <3> QED BY <3>2, <3>3
    <2> HIDE DEF g
    <2> QED BY <2>3, <2>4, <2>5
  <1>3. 0 \in S
    <2> HIDE DEF Goes
    <2> QED BY <1>1
  <1>4. \A k \in 1 .. L : k - 1 \in S => k \in S
    <2> HIDE DEF Goes
    <2> SUFFICES ASSUME NEW k \in 1 .. L, k - 1 \in S PROVE k \in S
      OBVIOUS
    <2>1. PICK f : Goes(f, k - 1)
      OBVIOUS
    <2> QED BY <1>2, <2>1
  <1>5. L \in S
    <2> HIDE DEF S
    <2>1. \A k \in 0 .. L : k \in S
      BY <1>3, <1>4, CountingUp
    <2> QED BY <2>1
  <1>6. PICK f : Goes(f, L)
    <2> HIDE DEF Goes
    <2> QED BY <1>5
  <1> QED BY <1>6 DEF Computes

-----------------------------------------------------------------------------
(* A recursive concatenation exists, and is a sequence.                    *)
LEMMA FlatExists ==
  ASSUME NEW X, NEW L \in Nat, NEW F \in [1 .. L -> Seq(X)]
  PROVE  \E f : f = [n \in 0 .. L |-> IF n = 0 THEN << >> ELSE f[n - 1] \o F[n]]
  <1> DEFINE Texts == Seq(X)
             step == [n \in 1 .. L |-> [s \in Texts |-> s \o F[n]]]
  <1>1. step \in [1 .. L -> [Texts -> Texts]] /\ << >> \in Texts
    OBVIOUS
  <1>2. PICK f : Computes(f, L, Texts, << >>, step)
    <2> HIDE DEF step, Texts
    <2> QED BY <1>1, RecursionExists, Zenon
  <1>3. \A n \in 1 .. L : f[n] = f[n - 1] \o F[n]
    <2> SUFFICES ASSUME NEW n \in 1 .. L PROVE f[n] = f[n - 1] \o F[n]
      OBVIOUS
    <2>1. n - 1 \in 0 .. L /\ f[n - 1] \in Seq(X)
      BY <1>2 DEF Computes
    <2> QED BY <1>2, <2>1 DEF Computes
  <1>4. \A n \in 0 .. L : n # 0 => n \in 1 .. L
    OBVIOUS
  <1>5. f = [n \in 0 .. L |-> IF n = 0 THEN << >> ELSE f[n - 1] \o F[n]]
    BY <1>2, <1>3, <1>4 DEF Computes
  <1> QED BY <1>5

LEMMA FlatIsSeq ==
  ASSUME NEW X, NEW L \in Nat, NEW F \in [1 .. L -> Seq(X)], NEW up,
         up[0] = << >>, \A n \in 1 .. L : up[n] = up[n - 1] \o F[n]
  PROVE  up[L] \in Seq(X)
  <1> DEFINE S == {n \in 0 .. L : up[n] \in Seq(X)}
  <1>1. 0 \in S
    <2>1. 0 \in 0 .. L
      OBVIOUS
    <2>2. up[0] \in Seq(X)
      OBVIOUS
    <2> QED BY <2>1, <2>2
  <1>2. ASSUME NEW n \in 1 .. L, n - 1 \in S PROVE n \in S
    <2>1. up[n - 1] \in Seq(X) /\ F[n] \in Seq(X) /\ n \in 0 .. L
      BY <1>2
    <2>2. up[n - 1] \o F[n] \in Seq(X)
      BY <2>1
    <2> QED BY <2>1, <2>2
  <1>3. \A n \in 0 .. L : n \in S
    <2> HIDE DEF S
    <2> QED BY <1>1, <1>2, CountingUp
  <1>4. L \in 0 .. L
    OBVIOUS
  <1> QED BY <1>3, <1>4
=============================================================================
