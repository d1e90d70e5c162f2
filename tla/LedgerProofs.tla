---------------------------- MODULE LedgerProofs ----------------------------
(***************************************************************************)
(* What select returns, for every set of candidates, price and beacon: the *)
(* candidates that cover their price, in one strict order, and of these    *)
(* the one fair choice.                                                    *)
(*                                                                         *)
(* The walk over the ranking is a recursion over positions; that it exists *)
(* and what it keeps follow by induction on sets of numbers (Induction).   *)
(***************************************************************************)
EXTENDS Ledger, Induction, FiniteSetTheorems, FunctionTheorems, SequenceTheorems

-----------------------------------------------------------------------------
(* The ranking. *)

\* Candidates, and a beacon that orders them.
Rankable(candidates, tie) ==
    /\ IsFiniteSet(candidates)
    /\ \A c \in candidates : IsCandidate(c) /\ tie[c.id] \in Int
    /\ \A c, d \in candidates : c # d => tie[c.id] # tie[d.id]

LEMMA WeightType ==
    ASSUME NEW c, IsCandidate(c)
    PROVE  weight(c) \in Nat \ {0}
<1>1. c.action.kind \in Kinds /\ c.share \in Nat \ {0}
    BY DEF IsCandidate, IsAction
<1>2. PRICE_MULT[c.action.kind] \in {100, 120, 150, 200, 250}
    BY <1>1 DEF PRICE_MULT
<1>3. mult(c.action) \in Nat \ {0}
    BY <1>2 DEF mult
<1> QED BY <1>1, <1>3 DEF weight

\* Comparing two fractions by their cross products.
LEMMA Scaled ==
    ASSUME NEW x \in Nat, NEW y \in Nat, NEW n \in Nat \ {0}
    PROVE  /\ x * n >= y * n <=> x >= y
           /\ x * n = y * n <=> x = y
OBVIOUS

LEMMA CrossTransitive ==
    ASSUME NEW x \in Nat, NEW y \in Nat, NEW z \in Nat,
           NEW p \in Nat \ {0}, NEW q \in Nat \ {0}, NEW r \in Nat \ {0},
           x * q >= y * p, y * r >= z * q
    PROVE  x * r >= z * p /\ (x * r = z * p => x * q = y * p /\ y * r = z * q)
<1>1. /\ x * q \in Nat /\ y * p \in Nat /\ y * r \in Nat /\ z * q \in Nat
      /\ x * r \in Nat /\ z * p \in Nat
    OBVIOUS
<1>2. (x * q) * r >= (y * p) * r
    BY <1>1, Scaled
<1>3. (y * r) * p >= (z * q) * p
    BY <1>1, Scaled
<1>4. (x * q) * r = (x * r) * q /\ (y * p) * r = (y * r) * p /\ (z * q) * p = (z * p) * q
    OBVIOUS
<1>5. /\ (x * q) * r \in Nat /\ (y * p) * r \in Nat /\ (y * r) * p \in Nat /\ (z * q) * p \in Nat
      /\ (x * r) * q \in Nat /\ (z * p) * q \in Nat
    BY <1>1
<1>6. (x * r) * q >= (z * p) * q
    BY <1>2, <1>3, <1>4, <1>5
<1>7. x * r >= z * p
    BY <1>1, <1>6, Scaled
<1>8. ASSUME x * r = z * p
      PROVE  x * q = y * p /\ y * r = z * q
    <2>1. (x * r) * q = (z * p) * q
        BY <1>8
    <2>2. (x * q) * r = (y * p) * r /\ (y * r) * p = (z * q) * p
        BY <2>1, <1>2, <1>3, <1>4, <1>5
    <2> QED BY <1>1, <2>2, Scaled
<1> QED BY <1>7, <1>8

\* The larger share of the price first, and the beacon between equals, is a
\* strict total order.
LEMMA OutranksIsStrict ==
    ASSUME NEW candidates, NEW tie, Rankable(candidates, tie),
           NEW a \in candidates, NEW b \in candidates, NEW c \in candidates
    PROVE  /\ ~Outranks(a, a, tie)
           /\ a # b => Outranks(a, b, tie) \/ Outranks(b, a, tie)
           /\ Outranks(a, b, tie) /\ Outranks(b, c, tie) => Outranks(a, c, tie)
<1> DEFINE Work(x) == x.work
<1>1. \A x \in {a, b, c} : Work(x) \in Nat /\ weight(x) \in Nat \ {0} /\ tie[x.id] \in Int
    BY WeightType DEF Rankable, IsCandidate
<1>2. a # b => tie[a.id] # tie[b.id]
    BY DEF Rankable
<1>3. \A x, y \in {a, b, c} : Work(x) * weight(y) \in Nat
    BY <1>1
<1>4. \A x, y \in {a, b, c} :
          Outranks(x, y, tie) <=> \/ Work(x) * weight(y) > Work(y) * weight(x)
                                  \/ /\ Work(x) * weight(y) = Work(y) * weight(x)
                                     /\ tie[x.id] < tie[y.id]
    BY DEF Outranks
<1> HIDE DEF Work
<1>5. ~Outranks(a, a, tie)
    BY <1>1, <1>3, <1>4
<1>6. a # b => Outranks(a, b, tie) \/ Outranks(b, a, tie)
    BY <1>1, <1>2, <1>3, <1>4
<1>7. ASSUME Outranks(a, b, tie), Outranks(b, c, tie)
      PROVE  Outranks(a, c, tie)
    <2>1. /\ Work(a) * weight(b) >= Work(b) * weight(a)
          /\ Work(b) * weight(c) >= Work(c) * weight(b)
        BY <1>7, <1>3, <1>4
    <2>2. /\ Work(a) * weight(c) >= Work(c) * weight(a)
          /\ Work(a) * weight(c) = Work(c) * weight(a)
                 => /\ Work(a) * weight(b) = Work(b) * weight(a)
                    /\ Work(b) * weight(c) = Work(c) * weight(b)
        BY <1>1, <2>1, CrossTransitive
    <2> QED BY <1>7, <1>1, <1>3, <1>4, <2>2
<1> QED BY <1>5, <1>6, <1>7

LEMMA RankType ==
    ASSUME NEW C, NEW tie, Rankable(C, tie), NEW c \in C
    PROVE  Cardinality(C) \in Nat /\ Rank(c, C, tie) \in 0..(Cardinality(C) - 1)
<1> DEFINE before == {d \in C : Outranks(d, c, tie)}
<1>1. IsFiniteSet(C)
    BY DEF Rankable
<1>2. before \in SUBSET C /\ before # C
    BY OutranksIsStrict
<1>3. /\ Cardinality(before) \in Nat /\ Cardinality(C) \in Nat
      /\ Cardinality(before) <= Cardinality(C) /\ Cardinality(before) # Cardinality(C)
    BY <1>1, <1>2, FS_Subset, FS_CardinalityType
<1> QED BY <1>3 DEF Rank

LEMMA RankRises ==
    ASSUME NEW C, NEW tie, Rankable(C, tie), NEW a \in C, NEW b \in C, Outranks(a, b, tie)
    PROVE  Rank(a, C, tie) < Rank(b, C, tie)
<1> DEFINE before(c) == {d \in C : Outranks(d, c, tie)}
<1>1. IsFiniteSet(C)
    BY DEF Rankable
<1>2. before(a) \subseteq before(b) /\ a \in before(b) /\ a \notin before(a)
    BY OutranksIsStrict
<1>3. before(a) \in SUBSET C /\ before(b) \in SUBSET C
    OBVIOUS
<1>4. IsFiniteSet(before(a)) /\ IsFiniteSet(before(b))
    BY <1>1, <1>3, FS_Subset
<1>5. before(a) \in SUBSET before(b) /\ before(a) # before(b)
    BY <1>2
<1>6. /\ Cardinality(before(a)) \in Nat /\ Cardinality(before(b)) \in Nat
      /\ Cardinality(before(a)) <= Cardinality(before(b))
      /\ Cardinality(before(a)) # Cardinality(before(b))
    <2> HIDE DEF before
    <2> QED BY <1>4, <1>5, FS_Subset, FS_CardinalityType
<1> QED BY <1>6 DEF Rank

\* Every rank below the number of candidates is taken.
LEMMA RankTaken ==
    ASSUME NEW C, NEW tie, Rankable(C, tie), NEW k \in 0..(Cardinality(C) - 1)
    PROVE  \E c \in C : Rank(c, C, tie) = k
<1> DEFINE ranks == 0..(Cardinality(C) - 1)
           f == [c \in C |-> Rank(c, C, tie)]
<1>1. IsFiniteSet(C) /\ Cardinality(C) \in Nat
    BY FS_CardinalityType DEF Rankable
<1>2. IsFiniteSet(ranks) /\ Cardinality(ranks) = Cardinality(C)
    BY <1>1, FS_Interval
<1>3. f \in [C -> ranks]
    BY RankType
<1>4. \A a, b \in C : f[a] = f[b] => a = b
    <2> SUFFICES ASSUME NEW a \in C, NEW b \in C, a # b PROVE f[a] # f[b]
        OBVIOUS
    <2>1. Outranks(a, b, tie) \/ Outranks(b, a, tie)
        BY OutranksIsStrict
    <2>2. Rank(a, C, tie) \in Int /\ Rank(b, C, tie) \in Int
        BY RankType, <1>1
    <2> QED BY <2>1, <2>2, RankRises
<1> HIDE DEF f, ranks
<1>5. f \in Injection(C, ranks)
    BY <1>3, <1>4, Fun_IsInj
<1>6. f \in Surjection(C, ranks)
    BY <1>2, <1>5, FS_Injection
<1>7. \E c \in C : f[c] = k
    BY <1>6 DEF Surjection, ranks
<1> QED BY <1>7 DEF f

\* The ranking lists every candidate once, and each outranks those after it.
LEMMA RankedSorts ==
    ASSUME NEW C, NEW tie, Rankable(C, tie)
    PROVE  /\ Cardinality(C) \in Nat
           /\ Ranked(C, tie) \in Seq(C) /\ Len(Ranked(C, tie)) = Cardinality(C)
           /\ \A c \in C : \E i \in 1..Cardinality(C) : Ranked(C, tie)[i] = c
           /\ \A i, j \in 1..Cardinality(C) :
                  i < j => Outranks(Ranked(C, tie)[i], Ranked(C, tie)[j], tie)
<1> DEFINE n == Cardinality(C)
           r == Ranked(C, tie)
<1>1. n \in Nat
    BY FS_CardinalityType DEF Rankable
<1>2. ASSUME NEW i \in 1..n
      PROVE  r[i] \in C /\ Rank(r[i], C, tie) = i - 1
    <2>1. \E c \in C : Rank(c, C, tie) = i - 1
        BY <1>1, RankTaken
    <2>2. r[i] = CHOOSE c \in C : Rank(c, C, tie) = i - 1
        BY DEF Ranked
    <2> QED BY <2>1, <2>2
<1>3. r \in Seq(C) /\ Len(r) = n
    <2>1. r \in [1..n -> C]
        BY <1>2 DEF Ranked
    <2> QED BY <1>1, <2>1, LenProperties, SeqDef
<1>4. ASSUME NEW c \in C
      PROVE  \E i \in 1..n : r[i] = c
    <2> DEFINE i == Rank(c, C, tie) + 1
    <2>1. i \in 1..n /\ Rank(c, C, tie) = i - 1 /\ i - 1 \in Int
        BY <1>1, RankType
    <2>2. r[i] \in C /\ Rank(r[i], C, tie) = Rank(c, C, tie)
        BY <1>2, <2>1
    <2>3. r[i] = c
        <3> SUFFICES ASSUME r[i] # c PROVE FALSE
            OBVIOUS
        <3>1. Outranks(r[i], c, tie) \/ Outranks(c, r[i], tie)
            BY <2>2, OutranksIsStrict
        <3> QED BY <2>1, <2>2, <3>1, RankRises
    <2> QED BY <2>1, <2>3
<1>5. ASSUME NEW i \in 1..n, NEW j \in 1..n, i < j
      PROVE  Outranks(r[i], r[j], tie)
    <2>1. r[i] \in C /\ r[j] \in C /\ Rank(r[i], C, tie) = i - 1 /\ Rank(r[j], C, tie) = j - 1
        BY <1>2
    <2>2. r[i] # r[j] /\ ~Outranks(r[j], r[i], tie)
        BY <1>1, <1>5, <2>1, RankRises
    <2> QED BY <2>1, <2>2, OutranksIsStrict
<1> QED BY <1>1, <1>3, <1>4, <1>5

-----------------------------------------------------------------------------
(* The walk. *)

LEMMA FarIsSymmetric ==
    ASSUME NEW p \in Int \X Int, NEW q \in Int \X Int
    PROVE  far(p, q) = far(q, p)
<1>1. /\ Abs(p[1] - q[1]) = Abs(q[1] - p[1]) /\ Abs(p[2] - q[2]) = Abs(q[2] - p[2])
    BY DEF Abs
<1> QED BY <1>1 DEF far

\* It does not matter which of two miracles is asked about the other.
LEMMA ConflictsAreMutual ==
    ASSUME NEW a, NEW b, IsAction(a), IsAction(b), conflicts(a, b)
    PROVE  conflicts(b, a)
<1>1. CASE a.kind = "weather" /\ b.kind = "weather" /\ far(a.at, b.at) <= 6
    <2>1. far(a.at, b.at) = far(b.at, a.at)
        BY <1>1, FarIsSymmetric DEF IsAction
    <2> QED BY <1>1, <2>1 DEF conflicts
<1>2. CASE a.kind \in Targeted /\ b.kind \in Targeted /\ far(a.at, b.at) <= 2
    <2>1. far(a.at, b.at) = far(b.at, a.at)
        BY <1>2, FarIsSymmetric DEF IsAction
    <2> QED BY <1>2, <2>1 DEF conflicts
<1>3. CASE \/ a.kind = "migrate" /\ b.kind = "migrate" /\ a.clade = b.clade
           \/ SameCladeTwice(a, b)
           \/ a.kind = "hybrid" /\ b.kind = "hybrid" /\ a.pair = b.pair
    BY <1>3 DEF conflicts, SameCladeTwice
<1> QED BY <1>1, <1>2, <1>3 DEF conflicts

LEMMA TakeType ==
    ASSUME NEW C, NEW taken \in Seq(C), NEW c \in C
    PROVE  Take(taken, c) \in Seq(C)
BY DEF Take

\* The recursion of Walked has a solution: what is taken after each candidate.
LEMMA WalkedIsAWalk ==
    ASSUME NEW C, NEW r \in Seq(C)
    PROVE  \E w \in [0..Len(r) -> Seq(C)] :
               /\ w[0] = <<>>
               /\ \A n \in 1..Len(r) : w[n] = Take(w[n - 1], r[n])
               /\ Walked(r) = w[Len(r)]
<1> DEFINE step == [n \in 1..Len(r) |-> [x \in Seq(C) |-> Take(x, r[n])]]
           IsWalk(w) == w = [n \in 0..Len(r) |-> IF n = 0 THEN <<>> ELSE Take(w[n - 1], r[n])]
<1>1. Len(r) \in Nat /\ <<>> \in Seq(C) /\ \A n \in 1..Len(r) : r[n] \in C
    OBVIOUS
<1>2. step \in [1..Len(r) -> [Seq(C) -> Seq(C)]]
    BY <1>1, TakeType
<1>3. PICK v \in [0..Len(r) -> Seq(C)] :
          v[0] = <<>> /\ \A n \in 1..Len(r) : v[n] = step[n][v[n - 1]]
    <2> DEFINE S == Seq(C)
               N == Len(r)
               base == <<>>
    <2>1. N \in Nat /\ base \in S /\ step \in [1..N -> [S -> S]]
        BY <1>1, <1>2
    <2> HIDE DEF step, S, N, base
    <2>2. \E v \in [0..N -> S] : v[0] = base /\ \A n \in 1..N : v[n] = step[n][v[n - 1]]
        BY <2>1, RecursionExists
    <2> QED BY <2>2 DEF S, N, base
<1>4. IsWalk(v)
    <2>1. \A n \in 1..Len(r) : step[n][v[n - 1]] = Take(v[n - 1], r[n])
        BY <1>1
    <2> HIDE DEF step
    <2>2. \A n \in 0..Len(r) : n # 0 => n \in 1..Len(r)
        BY <1>1
    <2> QED BY <1>3, <2>1, <2>2
<1> DEFINE w == CHOOSE u : IsWalk(u)
<1>5. IsWalk(w)
    BY <1>4
<1>6. Walked(r) = w[Len(r)]
    BY DEF Walked
<1> HIDE DEF w
<1>7. w[0] = <<>> /\ \A n \in 1..Len(r) : w[n] = Take(w[n - 1], r[n])
    BY <1>1, <1>5
<1>8. \A n \in 0..Len(r) : w[n] \in Seq(C)
    <2> DEFINE S == {n \in 0..Len(r) : w[n] \in Seq(C)}
    <2> HIDE DEF IsWalk
    <2>1. 0 \in S
        <3>1. 0 \in 0..Len(r)
            BY <1>1
        <3> QED BY <1>1, <1>7, <3>1
    <2>2. ASSUME NEW n \in 0..(Len(r) - 1), n \in S
          PROVE  n + 1 \in S
        <3>1. n + 1 \in 1..Len(r) /\ (n + 1) - 1 = n
            BY <1>1
        <3>2. w[n + 1] = Take(w[n], r[n + 1])
            BY <1>7, <3>1
        <3>3. w[n] \in Seq(C) /\ r[n + 1] \in C /\ n + 1 \in 0..Len(r)
            BY <1>1, <2>2, <3>1
        <3>4. w[n + 1] \in Seq(C)
            BY <3>2, <3>3, TakeType
        <3> QED BY <3>3, <3>4
    <2>3. 0..Len(r) \subseteq S
        <3> HIDE DEF S
        <3> QED BY <1>1, <2>1, <2>2, NatSetInduction
    <2> QED BY <2>3
<1>9. w \in [0..Len(r) -> Seq(C)]
    BY <1>5, <1>8
<1> QED BY <1>6, <1>7, <1>9

-----------------------------------------------------------------------------
(* The choice. *)

\* After n candidates: what is taken is no more than fits, from these, without
\* conflicts, and what is left out lost to something taken before it.
Decided(t, n, r, tie) ==
    /\ Len(t) <= PER_EPOCH
    /\ \A i \in 1..Len(t) : \E k \in 1..n : r[k] = t[i]
    /\ \A i, j \in 1..Len(t) :
          i # j => t[i] # t[j] /\ ~conflicts(t[i].action, t[j].action)
    /\ \A k \in 1..n :
          \/ \E i \in 1..Len(t) : t[i] = r[k]
          \/ \E i \in 1..Len(t) : conflicts(t[i].action, r[k].action) /\ Outranks(t[i], r[k], tie)
          \/ Len(t) = PER_EPOCH /\ \A i \in 1..Len(t) : Outranks(t[i], r[k], tie)

LEMMA TakeSettles ==
    ASSUME NEW C, NEW tie, Rankable(C, tie), NEW r \in Seq(C),
           \A i, j \in 1..Len(r) : i < j => Outranks(r[i], r[j], tie),
           NEW n \in 0..(Len(r) - 1), NEW t \in Seq(C), Decided(t, n, r, tie)
    PROVE  Decided(Take(t, r[n + 1]), n + 1, r, tie)
<1> DEFINE c == r[n + 1]
           m == Len(t)
<1>1. n + 1 \in 1..Len(r) /\ c \in C /\ m \in Nat /\ m <= PER_EPOCH /\ PER_EPOCH \in Nat \ {0}
    BY PerEpochAssumption DEF Decided
<1>2. \A i \in 1..m : t[i] \in C /\ Outranks(t[i], c, tie) /\ t[i] # c
    <2> SUFFICES ASSUME NEW i \in 1..m
                 PROVE  t[i] \in C /\ Outranks(t[i], c, tie) /\ t[i] # c
        OBVIOUS
    <2>1. PICK k \in 1..n : r[k] = t[i]
        BY DEF Decided
    <2>2. Outranks(r[k], c, tie)
        BY <1>1, <2>1
    <2>3. t[i] \in C
        OBVIOUS
    <2>4. ~Outranks(c, c, tie)
        BY <1>1, OutranksIsStrict
    <2> QED BY <2>1, <2>2, <2>3, <2>4
<1>3. CASE Len(t) = PER_EPOCH \/ \E i \in DOMAIN t : conflicts(t[i].action, c.action)
    <2>1. Take(t, c) = t
        BY <1>3 DEF Take
    <2>2. DOMAIN t = 1..m
        OBVIOUS
    <2>3. ASSUME NEW k \in 1..(n + 1)
          PROVE  \/ \E i \in 1..m : t[i] = r[k]
                 \/ \E i \in 1..m : conflicts(t[i].action, r[k].action) /\ Outranks(t[i], r[k], tie)
                 \/ m = PER_EPOCH /\ \A i \in 1..m : Outranks(t[i], r[k], tie)
        <3>1. CASE k \in 1..n
            BY <3>1 DEF Decided
        <3>2. CASE k = n + 1
            BY <1>2, <1>3, <2>2, <3>2
        <3> QED BY <3>1, <3>2
    <2>4. \A i \in 1..m : \E k \in 1..(n + 1) : r[k] = t[i]
        BY DEF Decided
    <2> QED BY <2>1, <2>3, <2>4 DEF Decided
<1>4. CASE ~(Len(t) = PER_EPOCH \/ \E i \in DOMAIN t : conflicts(t[i].action, c.action))
    <2> DEFINE u == Append(t, c)
    <2>1. Take(t, c) = u
        BY <1>4 DEF Take
    <2>2. Len(u) = m + 1 /\ u[m + 1] = c /\ \A i \in 1..m : u[i] = t[i]
        BY <1>1
    <2>3. DOMAIN t = 1..m
        OBVIOUS
    <2> HIDE DEF u
    <2>4. m + 1 <= PER_EPOCH
        BY <1>1, <1>4
    <2>5. \A i \in 1..(m + 1) : \E k \in 1..(n + 1) : r[k] = u[i]
        <3>1. \A i \in 1..m : \E k \in 1..n : r[k] = t[i]
            BY DEF Decided
        <3> SUFFICES ASSUME NEW i \in 1..(m + 1)
                     PROVE  \E k \in 1..(n + 1) : r[k] = u[i]
            OBVIOUS
        <3>2. CASE i = m + 1
            BY <1>1, <2>2, <3>2
        <3>3. CASE i \in 1..m
            <4>1. PICK k \in 1..n : r[k] = t[i]
                BY <3>1, <3>3
            <4> QED BY <2>2, <3>3, <4>1
        <3> QED BY <1>1, <3>2, <3>3
    <2>6. \A i \in 1..m : ~conflicts(t[i].action, c.action) /\ ~conflicts(c.action, t[i].action)
        <3>1. \A x \in C : IsAction(x.action)
            BY DEF Rankable, IsCandidate
        <3> QED BY <1>1, <1>2, <1>4, <2>3, <3>1, ConflictsAreMutual
    <2>7. ASSUME NEW i \in 1..(m + 1), NEW j \in 1..(m + 1), i # j
          PROVE  u[i] # u[j] /\ ~conflicts(u[i].action, u[j].action)
        <3>1. CASE i = m + 1
            <4>1. j \in 1..m
                BY <1>1, <2>7, <3>1
            <4> QED BY <1>2, <2>2, <2>6, <3>1, <4>1
        <3>2. CASE j = m + 1
            <4>1. i \in 1..m
                BY <1>1, <2>7, <3>2
            <4> QED BY <1>2, <2>2, <2>6, <3>2, <4>1
        <3>3. CASE i \in 1..m /\ j \in 1..m
            BY <2>2, <2>7, <3>3 DEF Decided
        <3> QED BY <1>1, <3>1, <3>2, <3>3
    <2>8. ASSUME NEW k \in 1..(n + 1)
          PROVE  \/ \E i \in 1..(m + 1) : u[i] = r[k]
                 \/ \E i \in 1..(m + 1) :
                       conflicts(u[i].action, r[k].action) /\ Outranks(u[i], r[k], tie)
        <3>1. CASE k = n + 1
            BY <1>1, <2>2, <3>1
        <3>2. CASE k \in 1..n
            <4>1. \/ \E i \in 1..m : t[i] = r[k]
                  \/ \E i \in 1..m :
                        conflicts(t[i].action, r[k].action) /\ Outranks(t[i], r[k], tie)
                <5>1. \A q \in 1..n :
                         \/ \E i \in 1..Len(t) : t[i] = r[q]
                         \/ \E i \in 1..Len(t) :
                               conflicts(t[i].action, r[q].action) /\ Outranks(t[i], r[q], tie)
                         \/ Len(t) = PER_EPOCH /\ \A i \in 1..Len(t) : Outranks(t[i], r[q], tie)
                    BY DEF Decided
                <5> QED BY <1>4, <3>2, <5>1
            <4> QED BY <1>1, <2>2, <4>1
        <3> QED BY <3>1, <3>2
    <2> QED BY <2>1, <2>2, <2>4, <2>5, <2>7, <2>8 DEF Decided
<1> QED BY <1>3, <1>4

LEMMA WalkedSettles ==
    ASSUME NEW C, NEW tie, Rankable(C, tie), NEW r \in Seq(C),
           \A i, j \in 1..Len(r) : i < j => Outranks(r[i], r[j], tie)
    PROVE  Walked(r) \in Seq(C) /\ Decided(Walked(r), Len(r), r, tie)
<1>1. PICK w \in [0..Len(r) -> Seq(C)] :
          /\ w[0] = <<>>
          /\ \A n \in 1..Len(r) : w[n] = Take(w[n - 1], r[n])
          /\ Walked(r) = w[Len(r)]
    BY WalkedIsAWalk
<1> DEFINE S == {n \in 0..Len(r) : Decided(w[n], n, r, tie)}
<1>2. 0 \in S
    <2>1. Len(<<>>) = 0 /\ 0 \in 0..Len(r) /\ PER_EPOCH \in Nat
        BY PerEpochAssumption
    <2> QED BY <1>1, <2>1 DEF Decided
<1>3. ASSUME NEW n \in 0..(Len(r) - 1), n \in S
      PROVE  n + 1 \in S
    <2>1. n + 1 \in 1..Len(r) /\ (n + 1) - 1 = n /\ n \in 0..Len(r) /\ n + 1 \in 0..Len(r)
        OBVIOUS
    <2>2. w[n + 1] = Take(w[n], r[n + 1])
        BY <1>1, <2>1
    <2>3. w[n] \in Seq(C)
        BY <2>1
    <2>4. Decided(Take(w[n], r[n + 1]), n + 1, r, tie)
        BY <1>3, <2>3, TakeSettles
    <2> QED BY <2>1, <2>2, <2>4
<1>4. 0..Len(r) \subseteq S /\ Len(r) \in 0..Len(r)
    <2> HIDE DEF S
    <2>1. Len(r) \in Nat
        OBVIOUS
    <2>2. 0..Len(r) \subseteq S
        BY <1>2, <1>3, <2>1, NatSetInduction
    <2> QED BY <2>1, <2>2
<1> QED BY <1>1, <1>4

\* A sequence without repetition has as many members as elements.
LEMMA MembersOfASequence ==
    ASSUME NEW C, NEW t \in Seq(C), \A i, j \in 1..Len(t) : i # j => t[i] # t[j]
    PROVE  Cardinality(ToSet(t)) = Len(t) /\ IsFiniteSet(ToSet(t))
<1>1. Len(t) \in Nat /\ DOMAIN t = 1..Len(t) /\ t \in [1..Len(t) -> C]
    OBVIOUS
<1>2. ToSet(t) = {t[i] : i \in 1..Len(t)}
    BY <1>1 DEF ToSet
<1>3. t \in Bijection(1..Len(t), ToSet(t))
    <2>1. t \in [1..Len(t) -> ToSet(t)] /\ \A x \in ToSet(t) : \E i \in 1..Len(t) : t[i] = x
        BY <1>1, <1>2
    <2>2. IsInjective(t)
        BY <1>1 DEF IsInjective
    <2> QED BY <2>1, <2>2 DEF Bijection, Injection, Surjection
<1>4. IsFiniteSet(1..Len(t)) /\ Cardinality(1..Len(t)) = Len(t)
    BY <1>1, FS_Interval
<1> QED BY <1>3, <1>4, FS_Bijection DEF ExistsBijection

\* The members of the walk down the ranking of C are a fair choice from C.
LEMMA WalkedIsFair ==
    ASSUME NEW C, NEW tie, Rankable(C, tie)
    PROVE  /\ Walked(Ranked(C, tie)) \in Seq(C)
           /\ \A i, j \in 1..Len(Walked(Ranked(C, tie))) :
                  i # j => Walked(Ranked(C, tie))[i] # Walked(Ranked(C, tie))[j]
           /\ IsFairChoice(ToSet(Walked(Ranked(C, tie))), C, tie)
<1> DEFINE r == Ranked(C, tie)
           t == Walked(r)
           T == ToSet(t)
<1>1. /\ r \in Seq(C)
      /\ \A c \in C : \E i \in 1..Len(r) : r[i] = c
      /\ \A i, j \in 1..Len(r) : i < j => Outranks(r[i], r[j], tie)
    BY RankedSorts
<1>2. t \in Seq(C) /\ Decided(t, Len(r), r, tie)
    <2> HIDE DEF r
    <2> QED BY <1>1, WalkedSettles
<1> HIDE DEF r, t
<1>3. \A i, j \in 1..Len(t) : i # j => t[i] # t[j] /\ ~conflicts(t[i].action, t[j].action)
    BY <1>2 DEF Decided
<1>4. Cardinality(T) = Len(t) /\ Len(t) <= PER_EPOCH
    BY <1>2, <1>3, MembersOfASequence DEF Decided
<1>5. T = {t[i] : i \in 1..Len(t)} /\ T \subseteq C
    BY <1>2 DEF ToSet
<1> HIDE DEF T
<1>6. \A a, b \in T : a # b => ~conflicts(a.action, b.action)
    BY <1>3, <1>5
<1>7. ASSUME NEW c \in C \ T
      PROVE  \/ \E s \in T : conflicts(s.action, c.action) /\ Outranks(s, c, tie)
             \/ Cardinality(T) = PER_EPOCH /\ \A s \in T : Outranks(s, c, tie)
    <2>1. PICK k \in 1..Len(r) : r[k] = c
        BY <1>1
    <2>2. \/ \E i \in 1..Len(t) : t[i] = c
          \/ \E i \in 1..Len(t) : conflicts(t[i].action, c.action) /\ Outranks(t[i], c, tie)
          \/ Len(t) = PER_EPOCH /\ \A i \in 1..Len(t) : Outranks(t[i], c, tie)
        BY <1>2, <2>1 DEF Decided
    <2> QED BY <1>4, <1>5, <1>7, <2>2
<1>8. IsFairChoice(T, C, tie)
    BY <1>4, <1>5, <1>6, <1>7 DEF IsFairChoice
<1> QED BY <1>2, <1>3, <1>8 DEF r, t, T

\* Where all who outrank c are in both of two fair choices or in neither, c is in
\* the second if it is in the first.
LEMMA FairChoicesAgreeOn ==
    ASSUME NEW C, NEW tie, Rankable(C, tie), NEW S, NEW T,
           IsFairChoice(S, C, tie), IsFairChoice(T, C, tie), NEW c \in S,
           \A s \in C : Outranks(s, c, tie) => (s \in S <=> s \in T)
    PROVE  c \in T
<1> SUFFICES ASSUME c \notin T PROVE FALSE
    OBVIOUS
<1>1. /\ S \subseteq C /\ T \subseteq C /\ c \in C \ T
      /\ Cardinality(S) <= PER_EPOCH
      /\ \A a, b \in S : a # b => ~conflicts(a.action, b.action)
    BY DEF IsFairChoice
<1>2. CASE \E s \in T : conflicts(s.action, c.action) /\ Outranks(s, c, tie)
    <2>1. PICK s \in T : conflicts(s.action, c.action) /\ Outranks(s, c, tie)
        BY <1>2
    <2>2. s \in S /\ s # c
        BY <1>1, <2>1
    <2> QED BY <1>1, <2>1, <2>2
<1>3. CASE Cardinality(T) = PER_EPOCH /\ \A s \in T : Outranks(s, c, tie)
    <2>1. T \subseteq S /\ T # S
        BY <1>1, <1>3
    <2>2. IsFiniteSet(S)
        BY <1>1, FS_Subset DEF Rankable
    <2>3. Cardinality(T) < Cardinality(S)
        <3>1. T \in SUBSET S
            BY <2>1
        <3> QED BY <2>1, <2>2, <3>1, FS_Subset, FS_CardinalityType
    <2>4. Cardinality(T) \in Nat /\ Cardinality(S) \in Nat
        <3>1. T \in SUBSET S
            BY <2>1
        <3> QED BY <2>2, <3>1, FS_Subset, FS_CardinalityType
    <2> QED BY <1>1, <1>3, <2>3, <2>4
<1> QED BY <1>1, <1>2, <1>3 DEF IsFairChoice

\* There is only one fair choice: of two, the first candidate down the ranking
\* that is in one and not in the other would be in both.
LEMMA FairChoiceIsOne ==
    ASSUME NEW C, NEW tie, Rankable(C, tie), NEW S, NEW T,
           IsFairChoice(S, C, tie), IsFairChoice(T, C, tie)
    PROVE  S = T
<1> SUFFICES ASSUME S # T PROVE FALSE
    OBVIOUS
<1> DEFINE D == (S \ T) \cup (T \ S)
           ranks == {Rank(c, C, tie) : c \in D}
<1>1. S \subseteq C /\ T \subseteq C /\ D # {}
    BY DEF IsFairChoice
<1>2. \A c \in C : Rank(c, C, tie) \in Nat
    BY RankType
<1>3. ranks \in SUBSET Nat /\ ranks # {}
    BY <1>1, <1>2
<1>4. PICK c \in D : \A d \in D : Rank(c, C, tie) <= Rank(d, C, tie)
    <2> HIDE DEF D
    <2>1. PICK k \in ranks : \A l \in ranks : k <= l
        <3> HIDE DEF ranks
        <3> QED BY <1>3, LeastNumber
    <2> QED BY <2>1
<1>5. \A s \in C : Outranks(s, c, tie) => (s \in S <=> s \in T)
    <2> SUFFICES ASSUME NEW s \in C, Outranks(s, c, tie), s \in D PROVE FALSE
        OBVIOUS
    <2>1. c \in C
        BY <1>1
    <2>2. Rank(s, C, tie) < Rank(c, C, tie)
        BY <2>1, RankRises
    <2>3. Rank(s, C, tie) \in Nat /\ Rank(c, C, tie) \in Nat /\ Rank(c, C, tie) <= Rank(s, C, tie)
        BY <1>2, <1>4, <2>1
    <2> QED BY <2>2, <2>3
<1>6. c \in S => c \in T
    BY <1>5, FairChoicesAgreeOn
<1>7. c \in T => c \in S
    BY <1>5, FairChoicesAgreeOn
<1> QED BY <1>4, <1>6, <1>7

-----------------------------------------------------------------------------
(* select. *)

\* Every set of candidates ready at a price can be ranked.
LEMMA ReadyIsRankable ==
    ASSUME NEW candidates, NEW price, NEW tie, Rankable(candidates, tie)
    PROVE  Ready(candidates, price) \subseteq candidates /\ Rankable(Ready(candidates, price), tie)
<1>1. Ready(candidates, price) \in SUBSET candidates
    BY DEF Ready
<1>2. IsFiniteSet(Ready(candidates, price))
    BY <1>1, FS_Subset DEF Rankable
<1> QED BY <1>1, <1>2 DEF Rankable

\* select takes candidates that cover their price, each at most once, and they
\* are the one fair choice of those that do: no other set of them holds at most
\* PER_EPOCH without conflicts and leaves out only what lost to a better one.
THEOREM SelectIsTheFairChoice ==
    ASSUME NEW candidates, NEW price, NEW price_min, NEW tie, Rankable(candidates, tie)
    PROVE  LET ready == Ready(candidates, price)
               chosen == {c \in candidates :
                              Contains(select(candidates, price, price_min, tie).selected, c.id)}
           IN {S \in SUBSET ready : IsFairChoice(S, ready, tie)} = {chosen}
<1> DEFINE ready == Ready(candidates, price)
           t == Walked(Ranked(ready, tie))
           ids == select(candidates, price, price_min, tie).selected
           chosen == {c \in candidates : Contains(ids, c.id)}
<1>1. ready \subseteq candidates /\ Rankable(ready, tie)
    BY ReadyIsRankable
<1> HIDE DEF ready
<1>2. t \in Seq(ready) /\ IsFairChoice(ToSet(t), ready, tie)
    BY <1>1, WalkedIsFair
<1>3. ids = [i \in DOMAIN t |-> t[i].id]
    BY DEF select, ready
<1> HIDE DEF t, ids
<1>4. DOMAIN ids = DOMAIN t /\ DOMAIN t = 1..Len(t) /\ Len(t) \in Nat /\ DOMAIN ids = 1..Len(ids)
    <2>1. DOMAIN t = 1..Len(t) /\ Len(t) \in Nat
        BY <1>2
    <2>2. Len(ids) = Len(t)
        BY <1>3, <2>1
    <2> QED BY <1>3, <2>1, <2>2
<1>5. chosen = ToSet(t)
    <2>1. \A c \in candidates : Contains(ids, c.id) <=> \E i \in 1..Len(t) : t[i].id = c.id
        BY <1>3, <1>4 DEF Contains
    <2>2. \A i \in 1..Len(t) : t[i] \in candidates
        BY <1>1, <1>2
    <2>3. \A c, d \in candidates : c.id = d.id => c = d
        BY DEF Rankable
    <2>4. ToSet(t) = {t[i] : i \in 1..Len(t)}
        BY <1>4 DEF ToSet
    <2> QED BY <2>1, <2>2, <2>3, <2>4
<1>6. ASSUME NEW S, IsFairChoice(S, ready, tie)
      PROVE  S = ToSet(t)
    BY <1>1, <1>2, <1>6, FairChoiceIsOne
<1>7. ToSet(t) \subseteq ready
    BY <1>2 DEF IsFairChoice
<1> QED BY <1>2, <1>5, <1>6, <1>7 DEF ready, ids, chosen
=============================================================================
