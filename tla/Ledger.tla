------------------------------- MODULE Ledger -------------------------------
(***************************************************************************)
(* The pure rules of the ledger (protocol/src/ledger.rs, spec section 19)  *)
(* and of the proof-of-work target (protocol/src/spark.rs): which wishes   *)
(* are ready, which of them become the miracles of an epoch, the next      *)
(* price and the next target.  The server and every watcher apply the same *)
(* functions.                                                              *)
(*                                                                         *)
(* A candidate is a record [id, action, work, share].  The hash            *)
(* BLAKE3(tag, beacon, id) that breaks ties is a function tie from ids to  *)
(* distinct numbers.  An action is a record with its kind and the fields   *)
(* the conflict rule reads; a cell is a pair <<x, y>>.                     *)
(***************************************************************************)
EXTENDS Integers, Sequences, FiniteSets, SequencesExt

CONSTANTS
    PER_EPOCH,      \* miracles per epoch at most (3)
    TARGET_SPARKS,  \* the number of sparks per epoch the target aims at (20000)
    HashSpace       \* a target is below it, and a spark weighs HashSpace \div target (2^64)

ASSUME PerEpochAssumption == PER_EPOCH \in Nat \ {0}
ASSUME TargetSparksAssumption == TARGET_SPARKS \in Nat \ {0}
ASSUME HashSpaceAssumption == HashSpace \in Nat \ {0, 1}

(***************************************************************************)
(* Prices.                                                                 *)
(***************************************************************************)
Kinds == {"weather", "migrate", "revive", "shelter", "forage", "cure", "gift",
          "hybrid", "blight", "expose", "sickness"}

\* The price multiplier of an action, in percent.
PRICE_MULT ==
    [k \in Kinds |->
        CASE k = "revive" -> 200
          [] k = "gift"   -> 150
          [] k = "hybrid" -> 250
          [] k \in {"migrate", "blight", "expose", "sickness"} -> 120
          [] OTHER        -> 100]

mult(a) == PRICE_MULT[a.kind]

\* The weight a candidate's work is divided by when it is ranked.
weight(c) == mult(c.action) * c.share

price_of(price, c) == (price * weight(c)) \div 10000

(***************************************************************************)
(* Conflicts: two miracles that cannot go in one epoch.                    *)
(***************************************************************************)
Abs(n) == IF n < 0 THEN -n ELSE n
Larger(a, b) == IF a > b THEN a ELSE b
Smaller(a, b) == IF a < b THEN a ELSE b

far(p, q) == Larger(Abs(p[1] - q[1]), Abs(p[2] - q[2]))

CladeKinds == {"shelter", "forage", "cure", "gift", "blight", "expose", "sickness"}
Targeted == {"migrate", "revive", "hybrid"}

\* The same clade given the same relief or harm twice, or two gifts.
SameCladeTwice(a, b) ==
    a.kind \in CladeKinds /\ a.kind = b.kind /\ a.clade = b.clade

\* For a hybrid, the field pair holds the two clades as a set.
conflicts(a, b) ==
    \/ a.kind = "weather" /\ b.kind = "weather" /\ far(a.at, b.at) <= 6
    \/ a.kind = "migrate" /\ b.kind = "migrate" /\ a.clade = b.clade
    \/ SameCladeTwice(a, b)
    \/ a.kind = "hybrid" /\ b.kind = "hybrid" /\ a.pair = b.pair
    \/ a.kind \in Targeted /\ b.kind \in Targeted /\ far(a.at, b.at) <= 2

\* The fields of an action that the conflict rule reads.
IsAction(a) ==
    /\ a.kind \in Kinds
    /\ a.kind = "weather" \/ a.kind \in Targeted => a.at \in Int \X Int

(***************************************************************************)
(* The selection.                                                          *)
(***************************************************************************)
IsCandidate(c) == IsAction(c.action) /\ c.work \in Nat /\ c.share \in Nat \ {0}

\* The larger share of the price first, compared without division.
Outranks(a, b, tie) ==
    LET mine == a.work * weight(b)
        theirs == b.work * weight(a)
    IN mine > theirs \/ (mine = theirs /\ tie[a.id] < tie[b.id])

Ready(candidates, price) == {c \in candidates : c.work >= price_of(price, c)}

\* How many candidates come before c, and the candidates in this order.
Rank(c, candidates, tie) == Cardinality({d \in candidates : Outranks(d, c, tie)})
Ranked(candidates, tie) ==
    [n \in 1..Cardinality(candidates) |->
        CHOOSE c \in candidates : Rank(c, candidates, tie) = n - 1]

\* One step of the walk down the ranking: c is taken unless the epoch is full
\* or c conflicts with a miracle already taken.
TakeOneMore(taken, c) ==
    IF \/ Len(taken) > PER_EPOCH
       \/ \E i \in DOMAIN taken : conflicts(taken[i].action, c.action)
    THEN taken
    ELSE Append(taken, c)
Take(taken, c) ==
    IF \/ Len(taken) = PER_EPOCH
       \/ \E i \in DOMAIN taken : conflicts(taken[i].action, c.action)
    THEN taken
    ELSE Append(taken, c)

\* The walk down the whole ranking.
Walked(ready) ==
    LET walk[n \in 0..Len(ready)] ==
            IF n = 0 THEN <<>> ELSE Take(walk[n - 1], ready[n])
    IN walk[Len(ready)]

\* The price after a selection of taken out of ready candidates.
price_never_falls(ready, taken, price, price_min) ==
    IF ready > taken THEN price + (price \div 8) ELSE price
next_price(ready, taken, price, price_min) ==
    IF ready > taken THEN price + (price \div 8)
    ELSE IF taken < PER_EPOCH THEN Larger(price - (price \div 8), price_min)
    ELSE price

select(candidates, price, price_min, tie) ==
    LET ready == Ranked(Ready(candidates, price), tie)
        taken == Walked(ready)
    IN [ready |-> [i \in DOMAIN ready |-> ready[i].id],
        selected |-> [i \in DOMAIN taken |-> taken[i].id],
        next_price |-> next_price(Len(ready), Len(taken), price, price_min)]

(* What the selection has to be. *)

\* A set of candidates is the right choice when it holds at most PER_EPOCH
\* ready candidates, no two of them conflicting, and every ready candidate
\* left out either conflicts with a chosen one that outranks it, or finds the
\* epoch full of candidates that outrank it.
IsFairChoice(S, ready, tie) ==
    /\ S \subseteq ready
    /\ Cardinality(S) <= PER_EPOCH
    /\ \A a, b \in S : a # b => ~conflicts(a.action, b.action)
    /\ \A c \in ready \ S :
          \/ \E s \in S : conflicts(s.action, c.action) /\ Outranks(s, c, tie)
          \/ Cardinality(S) = PER_EPOCH /\ \A s \in S : Outranks(s, c, tie)

(***************************************************************************)
(* The target of the next window: toward TARGET_SPARKS accepted sparks, by *)
(* at most a quarter either way, rounding down, never below 1 nor as large *)
(* as HashSpace (it is a u64); a window with no sparks leaves it.          *)
(***************************************************************************)
Clamp(x, low, high) == Smaller(Larger(x, low), high)

next_target(target, accepted) ==
    IF accepted = 0 THEN target
    ELSE LET want == (target * TARGET_SPARKS) \div accepted
         IN Clamp(Clamp(want, (target * 3) \div 4, (target * 5) \div 4), 1, HashSpace - 1)
=============================================================================
