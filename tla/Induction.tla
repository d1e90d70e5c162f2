----------------------------- MODULE Induction ------------------------------
(***************************************************************************)
(* Induction over positions, and the functions that a recursion over them  *)
(* defines.  Both follow from the well-foundedness of the order of the     *)
(* natural numbers, stated for sets of numbers.                            *)
(***************************************************************************)
EXTENDS Integers, TLAPS, WellFoundedInduction

-----------------------------------------------------------------------------
(* The order of the natural numbers. *)
Less == {p \in Nat \X Nat : p[1] < p[2]}

LEMMA LessIsWellFounded == IsWellFoundedOn(Less, Nat)
<1>1. IsWellFoundedOn(OpToRel(<, Nat), Nat)
    BY NatLessThanWellFounded
<1>2. OpToRel(<, Nat) = Less
    BY DEF OpToRel, Less
<1> QED BY <1>1, <1>2

\* A set of natural numbers has a least element.
LEMMA LeastNumber ==
    ASSUME NEW S \in SUBSET Nat, S # {}
    PROVE  \E x \in S : \A y \in S : x <= y
<1>1. PICK x \in S : \A y \in S : ~ (<<y, x>> \in Less)
    BY LessIsWellFounded, WFMin
<1>2. \A y \in S : x \in Nat /\ y \in Nat /\ ~(y < x)
    BY <1>1 DEF Less
<1> QED BY <1>2

\* Induction over the positions 0..N, for a set.
LEMMA NatSetInduction ==
    ASSUME NEW S, NEW N \in Nat, 0 \in S,
           \A n \in 0..(N - 1) : n \in S => n + 1 \in S
    PROVE  0..N \subseteq S
<1> SUFFICES ASSUME 0..N \ S # {} PROVE FALSE
    OBVIOUS
<1>1. PICK n \in 0..N \ S : \A m \in 0..N \ S : n <= m
    <2>1. 0..N \ S \in SUBSET Nat
        OBVIOUS
    <2> QED BY <2>1, LeastNumber
<1>2. n # 0 /\ n - 1 \in 0..(N - 1)
    BY <1>1
<1>3. n - 1 \in S
    BY <1>1, <1>2
<1> QED BY <1>1, <1>2, <1>3

\* A recursion from each position to the next defines a function.
LEMMA RecursionExists ==
    ASSUME NEW S, NEW base \in S, NEW N \in Nat, NEW step \in [1..N -> [S -> S]]
    PROVE  \E w \in [0..N -> S] : w[0] = base /\ \A n \in 1..N : w[n] = step[n][w[n - 1]]
<1> DEFINE Fits(w, k) == w[0] = base /\ \A n \in 1..k : w[n] = step[n][w[n - 1]]
           Good == {k \in 0..N : \E w \in [0..k -> S] : Fits(w, k)}
<1>1. 0 \in Good
    <2>1. [n \in 0..0 |-> base] \in [0..0 -> S] /\ Fits([n \in 0..0 |-> base], 0)
        OBVIOUS
    <2> HIDE DEF Fits
    <2> QED BY <2>1
<1>2. ASSUME NEW k \in 0..(N - 1), k \in Good
      PROVE  k + 1 \in Good
    <2>1. PICK w \in [0..k -> S] : Fits(w, k)
        BY <1>2
    <2> DEFINE v == [n \in 0..(k + 1) |-> IF n = k + 1 THEN step[k + 1][w[k]] ELSE w[n]]
    <2>2. step[k + 1][w[k]] \in S
        OBVIOUS
    <2>3. v \in [0..(k + 1) -> S] /\ v[0] = base
        BY <2>1, <2>2
    <2>4. ASSUME NEW n \in 1..(k + 1)
          PROVE  v[n] = step[n][v[n - 1]]
        <3>1. v[n - 1] = w[n - 1]
            OBVIOUS
        <3>2. CASE n = k + 1
            <4>1. v[k + 1] = step[k + 1][w[k]] /\ n - 1 = k
                BY <3>2
            <4> HIDE DEF v
            <4> QED BY <3>1, <3>2, <4>1
        <3>3. CASE n # k + 1
            BY <2>1, <3>1, <3>3
        <3> QED BY <3>2, <3>3
    <2> HIDE DEF v
    <2>5. Fits(v, k + 1)
        BY <2>3, <2>4
    <2> HIDE DEF Fits
    <2> QED BY <2>3, <2>5
<1>3. N \in Good
    <2> HIDE DEF Good
    <2>1. 0..N \subseteq Good
        BY <1>1, <1>2, NatSetInduction
    <2> QED BY <2>1
<1> QED BY <1>3

-----------------------------------------------------------------------------
(* Loops. *)

\* The same, of a run of steps over a set.
Steps(S, N) == [1..N -> [S -> S]]
IsRun(f, S, N, base, step) ==
    f \in [0..N -> S] /\ f[0] = base /\ \A n \in 1..N : f[n] = step[n][f[n - 1]]

LEMMA RunExists ==
    ASSUME NEW S, NEW base \in S, NEW N \in Nat, NEW step \in Steps(S, N)
    PROVE  \E f : IsRun(f, S, N, base, step)
BY RecursionExists DEF Steps, IsRun

\* What each step of a loop keeps, the loop keeps.
LEMMA LoopKeeps ==
    ASSUME NEW S, NEW N \in Nat, NEW f, f[0] \in S,
           \A n \in 1..N : f[n - 1] \in S => f[n] \in S
    PROVE  f[N] \in S
<1> DEFINE Kept == {n \in 0..N : f[n] \in S}
<1>1. 0 \in Kept
    OBVIOUS
<1>2. ASSUME NEW n \in 0..(N - 1), n \in Kept
      PROVE  n + 1 \in Kept
    <2>1. n + 1 \in 1..N /\ n + 1 \in 0..N /\ (n + 1) - 1 = n
        OBVIOUS
    <2> QED BY <1>2, <2>1
<1>3. 0..N \subseteq Kept
    <2> HIDE DEF Kept
    <2> QED BY <1>1, <1>2, NatSetInduction
<1> QED BY <1>3
=============================================================================
