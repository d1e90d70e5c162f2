--------------------------- MODULE WatcherProofs ---------------------------
(***************************************************************************)
(* That the proofs a watcher and a client check prove what they should,    *)
(* for trees of any size: an audit path verifies for its own leaf, place   *)
(* and tree only, and a consistency proof only for a tree that extends the *)
(* earlier one; that beside a server that follows its code, whatever       *)
(* restarts and crashes there are, the watcher has nothing to say against  *)
(* the log; that it accuses such a server of anything else only for a      *)
(* cause; and that its books are the ledger of the server.                 *)
(*                                                                         *)
(* The argument for the proofs goes up the tree.  The place that the loops *)
(* of log.rs hold in f_n and s_n is that of a node of some power of two of *)
(* leaves; each element of a path leads from the node of a part of a span  *)
(* to that of the whole span, and the root computed so far is the root of  *)
(* that span exactly if the leaf and the elements so far are those of the  *)
(* tree.                                                                   *)
(*                                                                         *)
(* The argument for the watcher: every head it keeps is one over a part of *)
(* the log, the log only grows, and a head that it reads next, signed or   *)
(* in a header, is one over the whole log.  Every header it reads names    *)
(* the challenge of its epoch, and no challenge and no spark in the log is *)
(* ever changed (WatchInv).                                                *)
(*                                                                         *)
(* The argument for its books: while the server goes on and no wish is     *)
(* stored that the logs do not have, there is one sequence of books, from  *)
(* new ones, each the one before with an epoch added by the watcher's      *)
(* rules, such that the header of every epoch sealed has the root of its   *)
(* books and the miracles they select (FollowsServer), and the ledger in   *)
(* the database is, at each stage of the loop, what the last of them       *)
(* becomes up to that stage (StageAt).  What the watcher has read of a     *)
(* page stays true while the server goes on (PageKept), so an epoch that   *)
(* it replays takes it from one of these books to the next (AccusedInv).   *)
(***************************************************************************)
EXTENDS Watcher, ServerProofs

-----------------------------------------------------------------------------
(* Recursion. *)

\* What w is where each element but those at which it stops is made of another
\* one by a step.
IsDescent(w, D, S, stop, base, prev, step) ==
    /\ w \in [D -> S]
    /\ \A x \in D : w[x] = IF x \in stop THEN base[x] ELSE step[x][w[prev[x]]]

\* A recursion from each element to a smaller one defines a function.
LEMMA DescentExists ==
    ASSUME NEW D, NEW S, NEW size \in [D -> Nat], NEW stop,
           NEW base \in [D -> S], NEW prev \in [D -> D], NEW step \in [D -> [S -> S]],
           \A x \in D \ stop : size[prev[x]] < size[x],
           NEW N \in Nat, \A x \in D : size[x] <= N
    PROVE  \E w : IsDescent(w, D, S, stop, base, prev, step)
<1> DEFINE Fits(w, x) == w[x] = IF x \in stop THEN base[x] ELSE step[x][w[prev[x]]]
           Good == {k \in 0..N : \E w \in [D -> S] : \A x \in D : size[x] <= k => Fits(w, x)}
           next(w) == [x \in D |-> IF x \in stop THEN base[x] ELSE step[x][w[prev[x]]]]
<1>0. ASSUME NEW w \in [D -> S]
      PROVE  /\ next(w) \in [D -> S]
             /\ \A x \in D : next(w)[x] = IF x \in stop THEN base[x] ELSE step[x][w[prev[x]]]
    <2>1. ASSUME NEW x \in D PROVE step[x][w[prev[x]]] \in S
        <3>1. w[prev[x]] \in S
            OBVIOUS
        <3> QED BY <3>1
    <2> QED BY <2>1
<1> HIDE DEF next
<1>1. 0 \in Good
    <2>1. next(base) \in [D -> S]
        BY <1>0
    <2>2. \A x \in D : size[x] <= 0 => Fits(next(base), x)
        BY <1>0
    <2> QED BY <2>1, <2>2
<1>2. ASSUME NEW k \in 0..(N - 1), k \in Good
      PROVE  k + 1 \in Good
    <2>1. PICK w \in [D -> S] : \A x \in D : size[x] <= k => Fits(w, x)
        BY <1>2
    <2>2. next(w) \in [D -> S]
        BY <1>0
    <2>3. ASSUME NEW x \in D, size[x] <= k + 1
          PROVE  Fits(next(w), x)
        <3>1. CASE x \in stop
            BY <1>0, <3>1
        <3>2. CASE x \notin stop
            <4>1. prev[x] \in D /\ size[prev[x]] <= k
                BY <2>3, <3>2
            <4>2. Fits(w, prev[x])
                BY <2>1, <4>1
            <4>3. next(w)[prev[x]] = w[prev[x]]
                BY <1>0, <4>1, <4>2
            <4> QED BY <1>0, <3>2, <4>3
        <3> QED BY <3>1, <3>2
    <2>4. \A x \in D : size[x] <= k + 1 => Fits(next(w), x)
        BY <2>3
    <2>5. k + 1 \in 0..N
        OBVIOUS
    <2> QED BY <2>2, <2>4, <2>5
<1>3. N \in Good
    <2> HIDE DEF Good
    <2>1. 0..N \subseteq Good
        BY <1>1, <1>2, NatSetInduction
    <2> QED BY <2>1
<1>4. PICK w \in [D -> S] : \A x \in D : size[x] <= N => Fits(w, x)
    BY <1>3
<1>5. \A x \in D : Fits(w, x)
    BY <1>4
<1> QED BY <1>4, <1>5 DEF IsDescent

-----------------------------------------------------------------------------
(* Powers of two. *)

\* What the recursion of HighBit defines, up to n.
IsHigh(w, n) == w = [i \in 1..n |-> IF i = 1 THEN 1 ELSE 2 * w[i \div 2]]

\* A half is smaller, and twice it is the number or the one below.
LEMMA Half ==
    ASSUME NEW i \in Nat
    PROVE  /\ i \div 2 \in Nat
           /\ i = 2 * (i \div 2) \/ i = 2 * (i \div 2) + 1
           /\ (2 * i) \div 2 = i /\ (2 * i + 1) \div 2 = i
           /\ i % 2 \in {0, 1}
           /\ (i % 2 = 0) <=> (i = 2 * (i \div 2))
OBVIOUS

\* There is such a function.
LEMMA HighExists ==
    ASSUME NEW n \in Nat \ {0}
    PROVE  \E w : IsHigh(w, n) /\ w \in [1..n -> Nat]
<1> DEFINE D == 1..n
           size == [i \in D |-> i]
           base == [i \in D |-> 1]
           prev == [i \in D |-> IF i = 1 THEN 1 ELSE i \div 2]
           step == [i \in D |-> [v \in Nat |-> 2 * v]]
<1>1. size \in [D -> Nat] /\ base \in [D -> Nat] /\ step \in [D -> [Nat -> Nat]]
    OBVIOUS
<1>2. prev \in [D -> D]
    <2>1. ASSUME NEW i \in D, i # 1 PROVE i \div 2 \in D
        BY <2>1
    <2> QED BY <2>1
<1>3. \A i \in D \ {1} : size[prev[i]] < size[i]
    <2>1. ASSUME NEW i \in D, i # 1 PROVE i \div 2 \in D /\ i \div 2 < i
        BY <2>1
    <2> QED BY <2>1
<1>4. \A i \in D : size[i] <= n
    OBVIOUS
<1>5. PICK w : IsDescent(w, D, Nat, {1}, base, prev, step)
    <2> HIDE DEF D, size, base, prev, step
    <2> QED BY <1>1, <1>2, <1>3, <1>4, DescentExists
<1>6. w \in [D -> Nat]
    BY <1>5 DEF IsDescent
<1>7. ASSUME NEW i \in D
      PROVE  w[i] = IF i = 1 THEN 1 ELSE 2 * w[i \div 2]
    <2>1. w[i] = IF i \in {1} THEN base[i] ELSE step[i][w[prev[i]]]
        BY <1>5 DEF IsDescent
    <2>2. CASE i = 1
        BY <2>1, <2>2
    <2>3. CASE i # 1
        <3>1. prev[i] = i \div 2 /\ w[prev[i]] \in Nat
            BY <1>2, <1>6, <2>3
        <3> QED BY <2>1, <2>3, <3>1
    <2> QED BY <2>2, <2>3
<1>8. IsHigh(w, n)
    BY <1>6, <1>7 DEF IsHigh
<1> QED BY <1>6, <1>8

\* How far the recursion goes does not matter.
LEMMA HighUnique ==
    ASSUME NEW n \in Nat, NEW v, NEW w, NEW a \in Nat, NEW b \in Nat, n <= a, n <= b,
           IsHigh(v, a), IsHigh(w, b)
    PROVE  \A i \in 1..n : v[i] = w[i]
<1> DEFINE Same == {k \in 0..n : \A i \in 1..k : v[i] = w[i]}
<1>1. 0 \in Same
    OBVIOUS
<1>2. ASSUME NEW k \in 0..(n - 1), k \in Same
      PROVE  k + 1 \in Same
    <2>1. \A i \in 1..k : v[i] = w[i]
        BY <1>2
    <2>2. v[k + 1] = IF k + 1 = 1 THEN 1 ELSE 2 * v[(k + 1) \div 2]
        BY DEF IsHigh
    <2>3. w[k + 1] = IF k + 1 = 1 THEN 1 ELSE 2 * w[(k + 1) \div 2]
        BY DEF IsHigh
    <2>4. k + 1 # 1 => (k + 1) \div 2 \in 1..k
        OBVIOUS
    <2>5. v[k + 1] = w[k + 1]
        BY <2>1, <2>2, <2>3, <2>4
    <2> QED BY <2>1, <2>5
<1>3. 0..n \subseteq Same
    <2> HIDE DEF Same
    <2> QED BY <1>1, <1>2, NatSetInduction
<1> QED BY <1>3

\* The highest bit of a number is twice that of its half.
LEMMA HighBitIs ==
    ASSUME NEW n \in Nat \ {0}
    PROVE  /\ HighBit(n) \in Nat
           /\ HighBit(n) = IF n = 1 THEN 1 ELSE 2 * HighBit(n \div 2)
<1> DEFINE high(k) == CHOOSE w : IsHigh(w, k)
<1>1. \A k \in Nat \ {0} : IsHigh(high(k), k) /\ HighBit(k) = high(k)[k]
    BY HighExists DEF IsHigh, HighBit
<1>2. \A k \in Nat \ {0} : high(k)[k] \in Nat
    <2> SUFFICES ASSUME NEW k \in Nat \ {0} PROVE high(k)[k] \in Nat
        OBVIOUS
    <2>1. PICK w : IsHigh(w, k) /\ w \in [1..k -> Nat]
        BY HighExists
    <2>2. high(k)[k] = w[k]
        <3> HIDE DEF high
        <3>1. IsHigh(high(k), k) /\ k <= k
            BY <1>1
        <3>2. \A i \in 1..k : high(k)[i] = w[i]
            BY <2>1, <3>1, HighUnique
        <3> QED BY <3>2
    <2> HIDE DEF high
    <2> QED BY <2>1, <2>2
<1>3. CASE n = 1
    <2>1. high(n)[n] = IF n = 1 THEN 1 ELSE 2 * high(n)[n \div 2]
        <3> HIDE DEF high
        <3> QED BY <1>1 DEF IsHigh
    <2> HIDE DEF high
    <2> QED BY <1>1, <1>3, <2>1
<1>4. CASE n # 1
    <2>1. high(n)[n] = IF n = 1 THEN 1 ELSE 2 * high(n)[n \div 2]
        <3> HIDE DEF high
        <3> QED BY <1>1 DEF IsHigh
    <2>2. n \div 2 \in Nat \ {0} /\ n \div 2 <= n
        BY <1>4
    <2> HIDE DEF high
    <2>3. high(n)[n \div 2] = high(n \div 2)[n \div 2]
        BY <1>1, <2>2, HighUnique
    <2> QED BY <1>1, <1>2, <1>4, <2>1, <2>2, <2>3
<1> QED BY <1>3, <1>4

\* The powers of two.
Powers == {p \in Nat \ {0} : IsPowerOfTwo(p)}

\* A half is a number that is smaller.
LEMMA HalfBelow ==
    ASSUME NEW n \in Nat \ {0, 1}
    PROVE  n \div 2 \in Nat \ {0} /\ n \div 2 < n
OBVIOUS

\* The highest bit is a power of two, and twice it is larger than the number.
LEMMA HighBitBounds ==
    ASSUME NEW n \in Nat \ {0}
    PROVE  HighBit(n) \in Powers /\ HighBit(n) <= n /\ n < 2 * HighBit(n)
<1> DEFINE Bounded(i) == HighBit(i) \in Powers /\ HighBit(i) <= i /\ i < 2 * HighBit(i)
           Good == {k \in 0..n : \A i \in 1..k : Bounded(i)}
<1>1. 0 \in Good
    OBVIOUS
<1>2. ASSUME NEW k \in 0..(n - 1), k \in Good
      PROVE  k + 1 \in Good
    <2>1. Bounded(k + 1)
        <3>1. HighBit(k + 1) = IF k + 1 = 1 THEN 1 ELSE 2 * HighBit((k + 1) \div 2)
            BY HighBitIs
        <3>2. CASE k = 0
            BY <3>1, <3>2 DEF Powers, IsPowerOfTwo
        <3>3. CASE k # 0
            <4> DEFINE i == (k + 1) \div 2
            <4>1. i \in 1..k /\ (k + 1 = 2 * i \/ k + 1 = 2 * i + 1)
                BY <3>3
            <4>2. Bounded(i)
                BY <1>2, <4>1
            <4>3. HighBit(k + 1) = 2 * HighBit(i) /\ HighBit(i) \in Nat \ {0}
                         /\ HighBit(HighBit(i)) = HighBit(i)
                BY <3>1, <3>3, <4>2 DEF Powers, IsPowerOfTwo
            <4> DEFINE h == HighBit(i)
            <4>4. HighBit(2 * h) = 2 * h
                <5>1. 2 * h \in Nat \ {0, 1} /\ (2 * h) \div 2 = h
                    BY <4>3
                <5>2. HighBit(2 * h) = 2 * HighBit(h)
                    BY <5>1, HighBitIs
                <5> QED BY <4>3, <5>2
            <4>5. 2 * h \in Powers
                BY <4>3, <4>4 DEF Powers, IsPowerOfTwo
            <4>6. h <= i /\ i < 2 * h
                BY <4>2
            <4> HIDE DEF i, h
            <4>7. i \in Nat /\ h \in Nat
                BY <4>1, <4>3 DEF h
            <4>8. 2 * h <= k + 1 /\ k + 1 < 2 * (2 * h)
                BY <4>1, <4>6, <4>7
            <4>9. HighBit(k + 1) = 2 * h
                BY <4>3 DEF h
            <4> QED BY <4>5, <4>8, <4>9
        <3> QED BY <3>2, <3>3
    <2>2. \A i \in 1..(k + 1) : i \in 1..k \/ i = k + 1
        OBVIOUS
    <2> HIDE DEF Bounded
    <2> QED BY <1>2, <2>1, <2>2
<1>3. 0..n \subseteq Good
    <2> HIDE DEF Good
    <2> QED BY <1>1, <1>2, NatSetInduction
<1> QED BY <1>3

\* Twice a power of two is one, and each but 1 is twice another one.
LEMMA PowerDoubles ==
    ASSUME NEW p \in Powers
    PROVE  2 * p \in Powers /\ p \in Nat \ {0}
<1>1. p \in Nat \ {0} /\ HighBit(p) = p
    BY DEF Powers, IsPowerOfTwo
<1>2. 2 * p \in Nat \ {0, 1} /\ (2 * p) \div 2 = p
    BY <1>1
<1>3. HighBit(2 * p) = 2 * HighBit(p)
    BY <1>2, HighBitIs
<1> QED BY <1>1, <1>2, <1>3 DEF Powers, IsPowerOfTwo

LEMMA OneIsPower == 1 \in Powers
BY HighBitIs DEF Powers, IsPowerOfTwo

\* A power of two above 1 is twice another one.
LEMMA PowerIsDouble ==
    ASSUME NEW p \in Powers, p # 1
    PROVE  \E q \in Powers : p = 2 * q
<1>1. p \in Nat \ {0, 1} /\ HighBit(p) = p
    BY DEF Powers, IsPowerOfTwo
<1>2. HighBit(p) = 2 * HighBit(p \div 2)
    BY <1>1, HighBitIs
<1>3. p \div 2 \in Nat \ {0}
    BY <1>1
<1>4. HighBit(p \div 2) \in Powers
    BY <1>3, HighBitBounds
<1> QED BY <1>1, <1>2, <1>4

\* A smaller power of two divides a larger one.
LEMMA PowersDivide ==
    ASSUME NEW p \in Powers, NEW q \in Powers, p <= q
    PROVE  \E k \in Powers : q = p * k
<1> DEFINE Divides(a) == \A b \in Powers : a <= b => \E k \in Powers : b = a * k
           Good == {n \in 0..p : \A a \in Powers : a <= n => Divides(a)}
<1>0. p \in Nat /\ \A a \in Powers : a \in Nat \ {0}
    BY DEF Powers
<1>1. 0 \in Good
    BY <1>0
<1>2. ASSUME NEW n \in 0..(p - 1), n \in Good
      PROVE  n + 1 \in Good
    <2> SUFFICES ASSUME NEW a \in Powers, a <= n + 1, NEW b \in Powers, a <= b
                 PROVE  \E k \in Powers : b = a * k
        BY <1>0
    <2>1. CASE a = 1
        BY <1>0, <2>1
    <2>2. CASE a # 1
        <3>1. PICK c \in Powers : a = 2 * c
            BY <2>2, PowerIsDouble
        <3>2. b # 1
            BY <1>0, <2>2
        <3>3. PICK e \in Powers : b = 2 * e
            BY <3>2, PowerIsDouble
        <3>4. c <= e /\ c <= n
            BY <1>0, <3>1, <3>3
        <3>5. PICK k \in Powers : e = c * k
            BY <1>2, <3>4
        <3>6. 2 * (c * k) = (2 * c) * k
            BY <1>0
        <3> QED BY <3>1, <3>3, <3>5, <3>6
    <2> QED BY <2>1, <2>2
<1>3. 0..p \subseteq Good
    <2> HIDE DEF Good
    <2> QED BY <1>0, <1>1, <1>2, NatSetInduction
<1>4. p \in Good
    BY <1>0, <1>3
<1> QED BY <1>0, <1>4

\* ... and is at most its half.
LEMMA PowersApart ==
    ASSUME NEW p \in Powers, NEW q \in Powers, p < q
    PROVE  2 * p <= q /\ \E k \in Powers : q = (2 * p) * k
<1>0. \A a \in Powers : a \in Nat \ {0}
    BY DEF Powers
<1>1. PICK k \in Powers : q = p * k
    BY <1>0, PowersDivide
<1>2. k # 1
    BY <1>0, <1>1
<1>3. PICK j \in Powers : k = 2 * j
    BY <1>2, PowerIsDouble
<1>4. p * (2 * j) = (2 * p) * j
    BY <1>0
<1>5. q = (2 * p) * j
    BY <1>1, <1>3, <1>4
<1>6. (2 * p) * j >= 2 * p
    BY <1>0
<1> QED BY <1>3, <1>5, <1>6

\* The highest bit is the only power of two that is within a number and more than
\* half of it.
LEMMA HighBitUnique ==
    ASSUME NEW n \in Nat \ {0}, NEW p \in Powers, p <= n, n < 2 * p
    PROVE  HighBit(n) = p
<1>1. HighBit(n) \in Powers /\ HighBit(n) <= n /\ n < 2 * HighBit(n)
    BY HighBitBounds
<1>2. p \in Nat /\ HighBit(n) \in Nat
    BY <1>1 DEF Powers
<1>3. ~ (HighBit(n) < p)
    BY <1>1, <1>2, PowersApart
<1>4. ~ (p < HighBit(n))
    BY <1>1, <1>2, PowersApart
<1> QED BY <1>2, <1>3, <1>4

\* A tree of two leaves or more is split at the largest power of two below.
LEMMA SplitIs ==
    ASSUME NEW n \in Nat \ {0, 1}
    PROVE  /\ split(n) \in Powers /\ split(n) \in Nat \ {0}
           /\ split(n) < n /\ n <= 2 * split(n)
<1>1. n - 1 \in Nat \ {0}
    OBVIOUS
<1>2. split(n) \in Powers /\ split(n) <= n - 1 /\ n - 1 < 2 * split(n)
    BY <1>1, HighBitBounds DEF split
<1>3. split(n) \in Nat \ {0}
    BY <1>2 DEF Powers
<1> QED BY <1>2, <1>3

\* The split is the only power of two that is smaller and at least half.
LEMMA SplitUnique ==
    ASSUME NEW n \in Nat \ {0, 1}, NEW p \in Powers, p < n, n <= 2 * p
    PROVE  split(n) = p
<1>1. n - 1 \in Nat \ {0} /\ p \in Nat
    BY DEF Powers
<1>2. p <= n - 1 /\ n - 1 < 2 * p
    BY <1>1
<1> QED BY <1>1, <1>2, HighBitUnique DEF split

-----------------------------------------------------------------------------
(* The tree. *)

\* Where a span is split.
Mid(lo, hi) == lo + split(hi - lo)

\* A span of two leaves or more is split into two smaller ones.
LEMMA MidIs ==
    ASSUME NEW lo \in Nat, NEW hi \in Nat, lo + 1 < hi
    PROVE  /\ Mid(lo, hi) \in Nat /\ lo < Mid(lo, hi) /\ Mid(lo, hi) < hi
           /\ split(hi - lo) \in Powers /\ split(hi - lo) \in Nat \ {0}
           /\ split(hi - lo) < hi - lo /\ hi - lo <= 2 * split(hi - lo)
<1>1. hi - lo \in Nat \ {0, 1}
    OBVIOUS
<1> QED BY <1>1, SplitIs DEF Mid

\* What the recursion of Subtree defines.
IsTree(w, d) ==
    w = [s \in Spans(d) |->
            IF s[2] <= s[1] + 1 THEN d[s[2]]
            ELSE node(w[<<s[1], s[1] + split(s[2] - s[1])>>],
                      w[<<s[1] + split(s[2] - s[1]), s[2]>>])]

\* The node of a span, where those of its two parts are given.
OneNode(w, d, s) ==
    IF s[2] <= s[1] + 1 THEN d[s[2]]
    ELSE node(w[<<s[1], Mid(s[1], s[2])>>], w[<<Mid(s[1], s[2]), s[2]>>])

\* There is such a function.
LEMMA TreeExists ==
    ASSUME NEW d, Len(d) \in Nat
    PROVE  \E w : IsTree(w, d)
<1> DEFINE next(w) == [s \in Spans(d) |-> OneNode(w, d, s)]
           Fits(w, n) == \A s \in Spans(d) : s[2] - s[1] <= n => w[s] = OneNode(w, d, s)
           Good == {n \in 0..Len(d) : \E w : Fits(w, n)}
<1>0. \A s \in Spans(d) : /\ s[1] \in Nat /\ s[2] \in Nat /\ s[2] <= Len(d) /\ s[1] <= Len(d)
                          /\ s = <<s[1], s[2]>>
    BY DEF Spans
<1>1. 0 \in Good
    <2>1. Fits(next(<<>>), 0)
        <3>1. \A s \in Spans(d) : s[2] - s[1] <= 0 => s[2] <= s[1] + 1
            BY <1>0
        <3> QED BY <3>1 DEF OneNode
    <2> HIDE DEF next, Fits
    <2> QED BY <2>1
<1>2. ASSUME NEW n \in 0..(Len(d) - 1), n \in Good
      PROVE  n + 1 \in Good
    <2>1. PICK w : Fits(w, n)
        BY <1>2
    <2>2. ASSUME NEW s \in Spans(d), s[2] - s[1] <= n + 1
          PROVE  next(w)[s] = OneNode(next(w), d, s)
        <3>1. CASE s[2] <= s[1] + 1
            BY <3>1 DEF OneNode
        <3>2. CASE ~(s[2] <= s[1] + 1)
            <4> DEFINE a == <<s[1], Mid(s[1], s[2])>>
                       b == <<Mid(s[1], s[2]), s[2]>>
            <4>1. Mid(s[1], s[2]) \in Nat /\ s[1] < Mid(s[1], s[2]) /\ Mid(s[1], s[2]) < s[2]
                BY <1>0, <3>2, MidIs
            <4>2. a \in Spans(d) /\ b \in Spans(d) /\ a[2] - a[1] <= n /\ b[2] - b[1] <= n
                BY <1>0, <2>2, <4>1 DEF Spans
            <4>3. next(w)[a] = w[a] /\ next(w)[b] = w[b]
                <5>1. w[a] = OneNode(w, d, a) /\ w[b] = OneNode(w, d, b)
                    BY <2>1, <4>2
                <5> HIDE DEF a, b
                <5> QED BY <4>2, <5>1
            <4>4. next(w)[s] = node(w[a], w[b])
                BY <3>2 DEF OneNode
            <4>5. OneNode(next(w), d, s) = node(next(w)[a], next(w)[b])
                <5> HIDE DEF next
                <5> QED BY <3>2 DEF OneNode
            <4> HIDE DEF next, a, b
            <4> QED BY <4>3, <4>4, <4>5
        <3> QED BY <3>1, <3>2
    <2>3. Fits(next(w), n + 1)
        <3> HIDE DEF next
        <3> QED BY <2>2
    <2>4. n + 1 \in 0..Len(d)
        OBVIOUS
    <2> HIDE DEF Fits, next
    <2> QED BY <2>3, <2>4
<1>3. 0..Len(d) \subseteq Good
    <2> HIDE DEF Good
    <2> QED BY <1>1, <1>2, NatSetInduction
<1>4. PICK w : Fits(w, Len(d))
    BY <1>3
<1>5. \A s \in Spans(d) : w[s] = OneNode(w, d, s)
    BY <1>0, <1>4
<1> DEFINE v == next(w)
<1>6. \A s \in Spans(d) : v[s] = w[s]
    BY <1>5
<1>7. ASSUME NEW s \in Spans(d)
      PROVE  OneNode(w, d, s) = OneNode(v, d, s)
    <2>1. CASE s[2] <= s[1] + 1
        BY <2>1 DEF OneNode
    <2>2. CASE ~(s[2] <= s[1] + 1)
        <3>1. Mid(s[1], s[2]) \in Nat /\ Mid(s[1], s[2]) < s[2]
            BY <1>0, <2>2, MidIs
        <3>2. <<s[1], Mid(s[1], s[2])>> \in Spans(d) /\ <<Mid(s[1], s[2]), s[2]>> \in Spans(d)
            BY <1>0, <3>1 DEF Spans
        <3> HIDE DEF v
        <3> QED BY <1>6, <3>2 DEF OneNode
    <2> QED BY <2>1, <2>2
<1>8. v = [s \in Spans(d) |-> OneNode(v, d, s)]
    <2>1. v = [s \in Spans(d) |-> OneNode(w, d, s)]
        OBVIOUS
    <2> HIDE DEF v
    <2> QED BY <1>7, <2>1
<1>9. IsTree(v, d)
    <2> HIDE DEF v
    <2> QED BY <1>8 DEF IsTree, OneNode, Mid
<1> QED BY <1>9

\* The node of a span.
Sub(d, lo, hi) == Subtree(d)[<<lo, hi>>]

\* The node of a span is made of those of its two parts.
LEMMA SubIs ==
    ASSUME NEW d, Len(d) \in Nat, NEW lo \in Nat, NEW hi \in Nat, lo < hi, hi <= Len(d)
    PROVE  Sub(d, lo, hi) = IF hi = lo + 1 THEN d[hi]
                            ELSE node(Sub(d, lo, Mid(lo, hi)), Sub(d, Mid(lo, hi), hi))
<1> DEFINE w == CHOOSE w : IsTree(w, d)
<1>1. IsTree(w, d)
    BY TreeExists
<1>2. Subtree(d) = w
    BY DEF Subtree, IsTree
<1> HIDE DEF w
<1>3. <<lo, hi>> \in Spans(d)
    BY DEF Spans
<1>4. hi <= lo + 1 <=> hi = lo + 1
    OBVIOUS
<1>5. w[<<lo, hi>>] = IF hi <= lo + 1 THEN d[hi]
                      ELSE node(w[<<lo, lo + split(hi - lo)>>], w[<<lo + split(hi - lo), hi>>])
    BY <1>1, <1>3 DEF IsTree
<1> QED BY <1>2, <1>4, <1>5 DEF Sub, Mid

\* A node determines its two children.
LEMMA NodeIsInjective ==
    ASSUME NEW a, NEW b, NEW c, NEW e, node(a, b) = node(c, e)
    PROVE  a = c /\ b = e
<1>1. node(a, b).left = a /\ node(a, b).right = b /\ node(c, e).left = c /\ node(c, e).right = e
    BY DEF node
<1> QED BY <1>1

\* Two trees have the same node over a span exactly if they have its leaves.
SameLeaves(d, t, lo, hi) == \A i \in (lo + 1)..hi : d[i] = t[i]
LEMMA SameNode ==
    ASSUME NEW d, NEW t, Len(d) \in Nat, Len(t) \in Nat,
           NEW lo \in Nat, NEW hi \in Nat, lo < hi, hi <= Len(d), hi <= Len(t)
    PROVE  Sub(d, lo, hi) = Sub(t, lo, hi) <=> SameLeaves(d, t, lo, hi)
<1> DEFINE Right(a, b) == Sub(d, a, b) = Sub(t, a, b) <=> SameLeaves(d, t, a, b)
           Good == {n \in 0..hi : \A a \in 0..hi, b \in 0..hi : a < b /\ b - a <= n => Right(a, b)}
<1>1. 0 \in Good
    OBVIOUS
<1>2. ASSUME NEW n \in 0..(hi - 1), n \in Good
      PROVE  n + 1 \in Good
    <2> SUFFICES ASSUME NEW a \in 0..hi, NEW b \in 0..hi, a < b, b - a <= n + 1
                 PROVE  Right(a, b)
        OBVIOUS
    <2>1. Sub(d, a, b) = IF b = a + 1 THEN d[b] ELSE node(Sub(d, a, Mid(a, b)), Sub(d, Mid(a, b), b))
        BY SubIs
    <2>2. Sub(t, a, b) = IF b = a + 1 THEN t[b] ELSE node(Sub(t, a, Mid(a, b)), Sub(t, Mid(a, b), b))
        BY SubIs
    <2>3. CASE b = a + 1
        BY <2>1, <2>2, <2>3 DEF SameLeaves
    <2>4. CASE b # a + 1
        <3> DEFINE m == Mid(a, b)
        <3>1. m \in Nat /\ a < m /\ m < b
            <4>1. a \in Nat /\ b \in Nat /\ a + 1 < b
                BY <2>4
            <4> QED BY <4>1, MidIs
        <3> HIDE DEF m
        <3>2. Right(a, m) /\ Right(m, b)
            BY <1>2, <3>1
        <3>3. SameLeaves(d, t, a, b) <=> SameLeaves(d, t, a, m) /\ SameLeaves(d, t, m, b)
            <4>1. \A i : i \in (a + 1)..b <=> i \in (a + 1)..m \/ i \in (m + 1)..b
                BY <3>1
            <4> QED BY <4>1 DEF SameLeaves
        <3>4. Sub(d, a, b) = Sub(t, a, b)
                <=> Sub(d, a, m) = Sub(t, a, m) /\ Sub(d, m, b) = Sub(t, m, b)
            <4>1. /\ Sub(d, a, b) = node(Sub(d, a, m), Sub(d, m, b))
                  /\ Sub(t, a, b) = node(Sub(t, a, m), Sub(t, m, b))
                BY <2>1, <2>2, <2>4 DEF m
            <4> QED BY <4>1, NodeIsInjective
        <3> QED BY <3>2, <3>3, <3>4
    <2> QED BY <2>3, <2>4
<1>3. 0..hi \subseteq Good
    <2> HIDE DEF Good
    <2> QED BY <1>1, <1>2, NatSetInduction
<1>4. hi \in Good /\ hi - lo <= hi
    BY <1>3
<1> HIDE DEF Right
<1>5. Right(lo, hi)
    BY <1>4
<1> QED BY <1>5 DEF Right

-----------------------------------------------------------------------------
(* Positions. *)

\* A place s among nodes that span c leaves each is that of leaf i.
Covers(s, c, i) == s * c <= i /\ i < (s + 1) * c

\* A node of twice the leaves is at half the place.
LEMMA CoversDouble ==
    ASSUME NEW s \in Nat, NEW c \in Nat \ {0}, NEW i \in Nat
    PROVE  /\ Covers(s, c, i) => Covers(s \div 2, 2 * c, i)
           /\ Covers(s, 2 * c, i) => Covers(s, c, i \div 2)
<1> DEFINE h == s \div 2
           x == h * c
           y == s * c
<1>1. h \in Nat /\ (s = 2 * h \/ s = 2 * h + 1)
    OBVIOUS
<1>2. x \in Nat /\ y \in Nat
    BY <1>1
<1>3. /\ h * (2 * c) = 2 * x /\ (h + 1) * (2 * c) = 2 * x + 2 * c
      /\ (s + 1) * c = y + c
      /\ s * (2 * c) = 2 * y /\ (s + 1) * (2 * c) = 2 * y + 2 * c
    BY <1>1
<1>4. y = 2 * x \/ y = 2 * x + c
    <2>1. (2 * h) * c = 2 * x /\ (2 * h + 1) * c = 2 * x + c
        BY <1>1
    <2> HIDE DEF h, x
    <2> QED BY <1>1, <2>1
<1> HIDE DEF h, x, y
<1>5. ASSUME Covers(s, c, i) PROVE Covers(h, 2 * c, i)
    <2>1. y <= i /\ i < y + c
        BY <1>3, <1>5 DEF Covers, y
    <2>2. 2 * x <= i /\ i < 2 * x + 2 * c
        BY <1>2, <1>4, <2>1
    <2> QED BY <1>3, <2>2 DEF Covers
<1>6. ASSUME Covers(s, 2 * c, i) PROVE Covers(s, c, i \div 2)
    <2>1. 2 * y <= i /\ i < 2 * y + 2 * c
        BY <1>3, <1>6 DEF Covers
    <2>2. y <= i \div 2 /\ i \div 2 < y + c
        BY <1>2, <2>1
    <2> QED BY <1>3, <2>2 DEF Covers, y
<1> QED BY <1>5, <1>6 DEF h

\* A place among the leaves themselves covers one leaf.
LEMMA CoversOne ==
    ASSUME NEW s \in Nat, NEW i \in Nat
    PROVE  Covers(s, 1, i) <=> s = i
BY DEF Covers

\* A leaf is under one node of each size only.
LEMMA CoversUnique ==
    ASSUME NEW s \in Nat, NEW t \in Nat, NEW c \in Nat \ {0}, NEW i \in Nat,
           Covers(s, c, i), Covers(t, c, i)
    PROVE  s = t
<1>1. ASSUME NEW a \in Nat, NEW b \in Nat, a < b, Covers(a, c, i), Covers(b, c, i) PROVE FALSE
    <2>1. PICK k \in Nat : b = a + 1 + k
        <3>1. b - a - 1 \in Nat /\ b = a + 1 + (b - a - 1)
            BY <1>1
        <3> QED BY <3>1
    <2>2. b * c = (a + 1) * c + k * c /\ k * c \in Nat /\ (a + 1) * c \in Nat
        BY <2>1
    <2>3. i < (a + 1) * c /\ b * c <= i
        BY <1>1 DEF Covers
    <2> QED BY <2>2, <2>3
<1>2. ~ (s < t) /\ ~ (t < s)
    BY <1>1
<1> QED BY <1>2

-----------------------------------------------------------------------------
(* The loops over levels. *)

\* The pairs of places that the two loops over levels go through,
Pairs(f, s) == (0..f) \X (0..s)

\* what the loop over levels without a sibling gives for each,
IsSkip(w, f, s) ==
    w = [p \in Pairs(f, s) |->
            IF p[1] % 2 = 0 /\ p[1] # 0 THEN w[<<p[1] \div 2, p[2] \div 2>>] ELSE p]

\* and the one to the last complete subtree.
IsUp(w, f, s) ==
    w = [p \in Pairs(f, s) |->
            IF p[1] % 2 = 1 THEN w[<<p[1] \div 2, p[2] \div 2>>] ELSE p]

\* The halves of a pair are a pair of these.
LEMMA PairHalf ==
    ASSUME NEW f \in Nat, NEW s \in Nat, NEW p \in Pairs(f, s)
    PROVE  /\ p[1] \in Nat /\ p[2] \in Nat /\ p[1] <= f
           /\ <<p[1] \div 2, p[2] \div 2>> \in Pairs(f, s)
           /\ p[1] # 0 => p[1] \div 2 < p[1]
<1>1. p[1] \in 0..f /\ p[2] \in 0..s
    BY DEF Pairs
<1>2. p[1] \div 2 \in 0..f /\ p[2] \div 2 \in 0..s
    BY <1>1
<1> QED BY <1>1, <1>2 DEF Pairs

\* There are such functions.
LEMMA LevelsExist ==
    ASSUME NEW f \in Nat, NEW s \in Nat
    PROVE  (\E w : IsSkip(w, f, s)) /\ (\E w : IsUp(w, f, s))
<1> DEFINE D == Pairs(f, s)
           size == [p \in D |-> p[1]]
           base == [p \in D |-> p]
           prev == [p \in D |-> <<p[1] \div 2, p[2] \div 2>>]
           step == [p \in D |-> [v \in D |-> v]]
           skips == {p \in D : ~(p[1] % 2 = 0 /\ p[1] # 0)}
           ups == {p \in D : ~(p[1] % 2 = 1)}
<1>1. size \in [D -> Nat] /\ base \in [D -> D] /\ step \in [D -> [D -> D]]
    BY PairHalf
<1>2. prev \in [D -> D]
    BY PairHalf
<1>3. ASSUME NEW stop, \A p \in D \ stop : p[1] # 0
      PROVE  \E w : IsDescent(w, D, D, stop, base, prev, step)
    <2>1. \A p \in D \ stop : size[prev[p]] < size[p]
        <3>1. ASSUME NEW p \in D \ stop PROVE size[prev[p]] < size[p]
            <4>1. prev[p] \in D /\ prev[p][1] = p[1] \div 2 /\ p[1] \div 2 < p[1]
                BY <1>3, PairHalf
            <4> HIDE DEF prev, D
            <4> QED BY <4>1
        <3> QED BY <3>1
    <2>2. \A p \in D : size[p] <= f
        BY PairHalf
    <2> HIDE DEF D, size, base, prev, step
    <2> QED BY <1>1, <1>2, <2>1, <2>2, DescentExists
<1>4. ASSUME NEW w, NEW stop, IsDescent(w, D, D, stop, base, prev, step)
      PROVE  w = [p \in D |-> IF p \notin stop THEN w[<<p[1] \div 2, p[2] \div 2>>] ELSE p]
    <2>1. w \in [D -> D]
        BY <1>4 DEF IsDescent
    <2>2. ASSUME NEW p \in D
          PROVE  w[p] = IF p \notin stop THEN w[<<p[1] \div 2, p[2] \div 2>>] ELSE p
        <3>1. w[p] = IF p \in stop THEN base[p] ELSE step[p][w[prev[p]]]
            BY <1>4 DEF IsDescent
        <3>2. base[p] = p
            OBVIOUS
        <3>3. prev[p] = <<p[1] \div 2, p[2] \div 2>> /\ prev[p] \in D
            BY <1>2
        <3>4. step[p][w[prev[p]]] = w[prev[p]]
            <4>1. w[prev[p]] \in D
                BY <2>1, <3>3
            <4> QED BY <4>1
        <3> HIDE DEF base, step, prev, D
        <3> QED BY <3>1, <3>2, <3>3, <3>4
    <2> HIDE DEF D
    <2> QED BY <2>1, <2>2
<1>5. \E w : IsSkip(w, f, s)
    <2>1. \A p \in D \ skips : p[1] # 0
        OBVIOUS
    <2>2. PICK w : IsDescent(w, D, D, skips, base, prev, step)
        BY <1>3, <2>1
    <2>3. w = [p \in D |-> IF p \notin skips THEN w[<<p[1] \div 2, p[2] \div 2>>] ELSE p]
        BY <1>4, <2>2
    <2>4. \A p \in D : p \notin skips <=> p[1] % 2 = 0 /\ p[1] # 0
        OBVIOUS
    <2>5. w = [p \in D |-> IF p[1] % 2 = 0 /\ p[1] # 0
                           THEN w[<<p[1] \div 2, p[2] \div 2>>] ELSE p]
        <3> HIDE DEF skips, D
        <3> QED BY <2>3, <2>4
    <2> QED BY <2>5 DEF IsSkip
<1>6. \E w : IsUp(w, f, s)
    <2>1. \A p \in D \ ups : p[1] # 0
        <3>1. 0 % 2 # 1
            OBVIOUS
        <3> QED BY <3>1
    <2>2. PICK w : IsDescent(w, D, D, ups, base, prev, step)
        BY <1>3, <2>1
    <2>3. w = [p \in D |-> IF p \notin ups THEN w[<<p[1] \div 2, p[2] \div 2>>] ELSE p]
        BY <1>4, <2>2
    <2>4. \A p \in D : p \notin ups <=> p[1] % 2 = 1
        OBVIOUS
    <2>5. w = [p \in D |-> IF p[1] % 2 = 1 THEN w[<<p[1] \div 2, p[2] \div 2>>] ELSE p]
        <3> HIDE DEF ups, D
        <3> QED BY <2>3, <2>4
    <2> QED BY <2>5 DEF IsUp
<1> QED BY <1>5, <1>6

\* An odd number doubled is even, and its half is it.
LEMMA OddDoubled ==
    ASSUME NEW o \in Nat, o % 2 = 1, NEW p \in Nat \ {0}
    PROVE  /\ o * (2 * p) = 2 * (o * p) /\ o * p \in Nat \ {0}
           /\ (o * (2 * p)) % 2 = 0 /\ (o * (2 * p)) \div 2 = o * p
           /\ (o * (2 * p) - 1) % 2 = 1 /\ (o * (2 * p) - 1) \div 2 = o * p - 1
           /\ o * (2 * p) # 0
<1>1. o # 0
    OBVIOUS
<1>2. o * (2 * p) = 2 * (o * p) /\ o * p \in Nat \ {0}
    BY <1>1
<1> DEFINE x == o * p
<1>3. (2 * x) % 2 = 0 /\ (2 * x) \div 2 = x /\ (2 * x - 1) % 2 = 1 /\ (2 * x - 1) \div 2 = x - 1
        /\ 2 * x # 0
    <2>1. x \in Nat \ {0}
        BY <1>2
    <2> HIDE DEF x
    <2> QED BY <2>1
<1> QED BY <1>2, <1>3

\* From an odd number times a power of two the loop skips that many levels; the pair
\* then loses one more.
LEMMA SkipIs ==
    ASSUME NEW o \in Nat, o % 2 = 1, NEW q \in Powers, NEW s \in Nat, NEW t \in Nat,
           Covers(t, q, s)
    PROVE  SkipLevels(o * q, s) = Halve(o, t)
<1> DEFINE f == o * q
           w == CHOOSE w : IsSkip(w, f, s)
           Ends(p) == \A a \in 0..s, b \in Nat :
                         o * p <= f /\ Covers(b, p, a) => w[<<o * p, a>>] = <<o, b>>
           Good == {n \in 0..q : \A p \in Powers : p <= n => Ends(p)}
<1>0. \A p \in Powers : p \in Nat \ {0}
    BY DEF Powers
<1>f. f \in Nat
    <2>1. q \in Nat
        BY <1>0
    <2> QED BY <2>1
<1>w. IsSkip(w, f, s)
    <2> HIDE DEF f
    <2> QED BY <1>f, LevelsExist
<1>s. SkipLevels(f, s) = Halve(w[<<f, s>>][1], w[<<f, s>>][2])
    BY DEF SkipLevels, IsSkip, Pairs
<1> HIDE DEF w, f
<1>1. 0 \in Good
    BY <1>0
<1>2. ASSUME NEW n \in 0..(q - 1), n \in Good
      PROVE  n + 1 \in Good
    <2> SUFFICES ASSUME NEW p \in Powers, p <= n + 1, NEW a \in 0..s, NEW b \in Nat,
                        o * p <= f, Covers(b, p, a)
                 PROVE  w[<<o * p, a>>] = <<o, b>>
        BY <1>0
    <2>1. CASE p = 1
        <3>1. o * p = o /\ b = a /\ o \in 0..f
            BY <1>f, <2>1, CoversOne
        <3>2. <<o, a>> \in Pairs(f, s)
            BY <3>1 DEF Pairs
        <3>3. w[<<o, a>>] = <<o, a>>
            BY <1>w, <3>2 DEF IsSkip
        <3> QED BY <3>1, <3>3
    <2>2. CASE p # 1
        <3>1. PICK r \in Powers : p = 2 * r
            BY <2>2, PowerIsDouble
        <3>2. r \in Nat \ {0} /\ r <= n
            BY <1>0, <3>1
        <3>3. o * r \in Nat \ {0} /\ o * p = 2 * (o * r) /\ (o * p) % 2 = 0
                /\ (o * p) \div 2 = o * r /\ o * p # 0
            BY <3>1, <3>2, OddDoubled
        <3>4. o * r <= f /\ o * p \in 0..f
            BY <1>f, <3>3
        <3>5. Covers(b, r, a \div 2)
            BY <3>1, <3>2, CoversDouble
        <3>6. a \div 2 \in 0..s
            OBVIOUS
        <3>7. w[<<o * r, a \div 2>>] = <<o, b>>
            BY <1>2, <3>2, <3>4, <3>5, <3>6
        <3>8. <<o * p, a>> \in Pairs(f, s)
            BY <3>4 DEF Pairs
        <3>9. w[<<o * p, a>>] = w[<<o * r, a \div 2>>]
            BY <1>w, <3>3, <3>8 DEF IsSkip
        <3> QED BY <3>7, <3>9
    <2> QED BY <2>1, <2>2
<1>3. 0..q \subseteq Good
    <2> HIDE DEF Good
    <2>1. q \in Nat
        BY <1>0
    <2> QED BY <1>1, <1>2, <2>1, NatSetInduction
<1>4. q \in Good
    BY <1>0, <1>3
<1>5. Ends(q)
    BY <1>0, <1>4
<1>6. w[<<f, s>>] = <<o, t>>
    <2>1. s \in 0..s /\ o * q <= f
        BY <1>f DEF f
    <2> QED BY <1>5, <2>1 DEF f
<1> QED BY <1>s, <1>6 DEF f

\* From one below an odd number times a power of two the loop goes up that many levels.
LEMMA UpIs ==
    ASSUME NEW o \in Nat, o % 2 = 1, NEW q \in Powers, NEW s \in Nat, NEW t \in Nat,
           Covers(t, q, s)
    PROVE  FirstLevel(o * q - 1, s) = <<o - 1, t>>
<1> DEFINE f == o * q - 1
           w == CHOOSE w : IsUp(w, f, s)
           Ends(p) == \A a \in 0..s, b \in Nat :
                         o * p - 1 <= f /\ Covers(b, p, a) => w[<<o * p - 1, a>>] = <<o - 1, b>>
           Good == {n \in 0..q : \A p \in Powers : p <= n => Ends(p)}
<1>0. \A p \in Powers : p \in Nat \ {0}
    BY DEF Powers
<1>f. f \in Nat
    <2>1. o # 0 /\ q \in Nat \ {0}
        BY <1>0
    <2>2. o * q \in Nat \ {0}
        BY <2>1
    <2> QED BY <2>2
<1>w. IsUp(w, f, s)
    <2> HIDE DEF f
    <2> QED BY <1>f, LevelsExist
<1>s. FirstLevel(f, s) = w[<<f, s>>]
    BY DEF FirstLevel, IsUp, Pairs
<1> HIDE DEF w, f
<1>1. 0 \in Good
    BY <1>0
<1>2. ASSUME NEW n \in 0..(q - 1), n \in Good
      PROVE  n + 1 \in Good
    <2> SUFFICES ASSUME NEW p \in Powers, p <= n + 1, NEW a \in 0..s, NEW b \in Nat,
                        o * p - 1 <= f, Covers(b, p, a)
                 PROVE  w[<<o * p - 1, a>>] = <<o - 1, b>>
        BY <1>0
    <2>1. CASE p = 1
        <3>1. o * p - 1 = o - 1 /\ b = a /\ o - 1 \in 0..f /\ (o - 1) % 2 # 1
            BY <1>f, <2>1, CoversOne
        <3>2. <<o - 1, a>> \in Pairs(f, s)
            BY <3>1 DEF Pairs
        <3>3. w[<<o - 1, a>>] = <<o - 1, a>>
            BY <1>w, <3>1, <3>2 DEF IsUp
        <3> QED BY <3>1, <3>3
    <2>2. CASE p # 1
        <3>1. PICK r \in Powers : p = 2 * r
            BY <2>2, PowerIsDouble
        <3>2. r \in Nat \ {0} /\ r <= n
            BY <1>0, <3>1
        <3>3. o * r \in Nat \ {0} /\ o * p = 2 * (o * r) /\ (o * p - 1) % 2 = 1
                /\ (o * p - 1) \div 2 = o * r - 1
            BY <3>1, <3>2, OddDoubled
        <3>4. o * r - 1 <= f /\ o * p - 1 \in 0..f
            BY <1>f, <3>3
        <3>5. Covers(b, r, a \div 2)
            BY <3>1, <3>2, CoversDouble
        <3>6. a \div 2 \in 0..s
            OBVIOUS
        <3>7. w[<<o * r - 1, a \div 2>>] = <<o - 1, b>>
            BY <1>2, <3>2, <3>4, <3>5, <3>6
        <3>8. <<o * p - 1, a>> \in Pairs(f, s)
            BY <3>4 DEF Pairs
        <3>9. w[<<o * p - 1, a>>] = w[<<o * r - 1, a \div 2>>]
            BY <1>w, <3>3, <3>8 DEF IsUp
        <3> QED BY <3>7, <3>9
    <2> QED BY <2>1, <2>2
<1>3. 0..q \subseteq Good
    <2> HIDE DEF Good
    <2>1. q \in Nat
        BY <1>0
    <2> QED BY <1>1, <1>2, <2>1, NatSetInduction
<1>4. q \in Good
    BY <1>0, <1>3
<1>5. Ends(q)
    BY <1>0, <1>4
<1>6. w[<<f, s>>] = <<o - 1, t>>
    <2>1. s \in 0..s /\ o * q - 1 <= f
        BY <1>f DEF f
    <2> QED BY <1>5, <2>1 DEF f
<1> QED BY <1>s, <1>6 DEF f

\* The state at a node: it begins with leaf f * c, and is the last one if it is
\* not full.
AtSpan(f, s, c, lo, hi, n) ==
    /\ f \in Nat /\ s \in Nat /\ c \in Powers
    /\ lo = f * c
    /\ Covers(s, c, n - 1)
    /\ hi = lo + c \/ (hi = n /\ n <= lo + c)

\* ... for nodes of some size.
InSpan(f, s, lo, hi, n) == \E c \in Powers : AtSpan(f, s, c, lo, hi, n)

\* The spans of a tree of n leaves.
TreeSpan(lo, hi, n) ==
    /\ lo \in Nat /\ hi \in Nat /\ lo < hi /\ hi <= n
    /\ \E c \in Powers, g \in Nat : lo = g * c /\ (hi = lo + c \/ (hi = n /\ n <= lo + c))

\* The part of a span that leaf m is in, and the other one.
Part(m, lo, hi) == IF m < Mid(lo, hi) THEN <<lo, Mid(lo, hi)>> ELSE <<Mid(lo, hi), hi>>
Other(m, lo, hi) == IF m < Mid(lo, hi) THEN <<Mid(lo, hi), hi>> ELSE <<lo, Mid(lo, hi)>>

\* One level up, or more where there is no sibling.
Up(f, s) == IF IsRightmost(f, s) THEN SkipLevels(f, s) ELSE Halve(f, s)

\* A span of two leaves or more begins at a multiple of twice its left part, and
\* is as long or ends the tree.
LEMMA ParentIs ==
    ASSUME NEW n \in Nat, NEW lo, NEW hi, TreeSpan(lo, hi, n), lo + 1 < hi,
           NEW k, k = split(hi - lo)
    PROVE  /\ lo \in Nat /\ hi \in Nat /\ hi <= n
           /\ k \in Powers /\ k \in Nat \ {0} /\ Mid(lo, hi) = lo + k
           /\ lo + k < hi /\ hi <= lo + 2 * k
           /\ hi = lo + 2 * k \/ hi = n
           /\ \E g \in Nat : lo = g * (2 * k)
<1>0. lo \in Nat /\ hi \in Nat /\ hi <= n
    BY DEF TreeSpan
<1>1. k \in Powers /\ k \in Nat \ {0} /\ k < hi - lo /\ hi - lo <= 2 * k
    BY <1>0, MidIs
<1>2. PICK c \in Powers, g \in Nat : lo = g * c /\ (hi = lo + c \/ (hi = n /\ n <= lo + c))
    BY DEF TreeSpan
<1>3. c \in Nat \ {0} /\ k < c
    BY <1>0, <1>1, <1>2 DEF Powers
<1>4. 2 * k <= c /\ \E j \in Powers : c = (2 * k) * j
    BY <1>1, <1>3, PowersApart
<1>5. PICK j \in Powers : c = (2 * k) * j
    BY <1>4
<1>6. j \in Nat
    BY DEF Powers
<1>7. g * ((2 * k) * j) = (g * j) * (2 * k) /\ g * j \in Nat
    BY <1>1, <1>6
<1>8. lo = (g * j) * (2 * k)
    BY <1>2, <1>5, <1>7
<1>9. hi = lo + 2 * k \/ hi = n
    <2>1. hi = lo + c \/ hi = n
        BY <1>2
    <2>2. 2 * k <= c
        BY <1>4
    <2> QED BY <1>0, <1>1, <1>3, <2>1, <2>2
<1>10. Mid(lo, hi) = lo + k
    BY DEF Mid
<1>11. lo + k < hi /\ hi <= lo + 2 * k
    BY <1>0, <1>1
<1>12. \E a \in Nat : lo = a * (2 * k)
    BY <1>7, <1>8
<1> QED BY <1>0, <1>1, <1>9, <1>10, <1>11, <1>12

\* Numbers of times k.
LEMMA Times ==
    ASSUME NEW g \in Nat, NEW k \in Nat \ {0}
    PROVE  /\ g * (2 * k) = (2 * g) * k
           /\ g * (2 * k) + k = (2 * g + 1) * k
           /\ g * (2 * k) + 2 * k = (g + 1) * (2 * k)
           /\ g * (2 * k) \in Nat /\ 2 * g \in Nat /\ 2 * g + 1 \in Nat
           /\ (2 * g) % 2 = 0 /\ (2 * g + 1) % 2 = 1
           /\ (2 * g) \div 2 = g /\ (2 * g + 1) \div 2 = g
OBVIOUS

\* Equal numbers of times k are equal.
LEMMA CancelTimes ==
    ASSUME NEW a \in Nat, NEW b \in Nat, NEW k \in Nat \ {0}, a * k = b * k
    PROVE  a = b
<1>1. (a + 1) * k = a * k + k /\ (b + 1) * k = b * k + k /\ a * k \in Nat
    OBVIOUS
<1>2. Covers(a, k, a * k) /\ Covers(b, k, a * k)
    BY <1>1 DEF Covers
<1> QED BY <1>1, <1>2, CoversUnique

\* The two parts of a span of a tree are spans of it.
LEMMA PartsAreSpans ==
    ASSUME NEW n \in Nat, NEW lo, NEW hi, TreeSpan(lo, hi, n), lo + 1 < hi
    PROVE  TreeSpan(lo, Mid(lo, hi), n) /\ TreeSpan(Mid(lo, hi), hi, n)
<1> DEFINE k == split(hi - lo)
<1>1. /\ lo \in Nat /\ hi \in Nat /\ hi <= n
      /\ k \in Powers /\ k \in Nat \ {0} /\ Mid(lo, hi) = lo + k
      /\ lo + k < hi /\ hi <= lo + 2 * k
      /\ hi = lo + 2 * k \/ hi = n
      /\ \E g \in Nat : lo = g * (2 * k)
    BY ParentIs
<1> HIDE DEF k
<1>2. PICK g \in Nat : lo = g * (2 * k)
    BY <1>1
<1>3. lo = (2 * g) * k /\ lo + k = (2 * g + 1) * k /\ 2 * g \in Nat /\ 2 * g + 1 \in Nat
    BY <1>1, <1>2, Times
<1>4. lo + k \in Nat /\ lo < lo + k /\ lo + k <= n
    BY <1>1
<1>5. TreeSpan(lo, lo + k, n)
    BY <1>1, <1>3, <1>4 DEF TreeSpan
<1>6. hi = (lo + k) + k \/ (hi = n /\ n <= (lo + k) + k)
    BY <1>1
<1>7. TreeSpan(lo + k, hi, n)
    BY <1>1, <1>3, <1>4, <1>6 DEF TreeSpan
<1> QED BY <1>1, <1>5, <1>7

\* So is the whole tree.
LEMMA WholeIsSpan ==
    ASSUME NEW n \in Nat \ {0}
    PROVE  TreeSpan(0, n, n)
<1>1. HighBit(n) \in Powers /\ n < 2 * HighBit(n)
    BY HighBitBounds
<1>2. 2 * HighBit(n) \in Powers /\ HighBit(n) \in Nat
    BY <1>1, PowerDoubles
<1>3. 0 = 0 * (2 * HighBit(n)) /\ n <= 0 + 2 * HighBit(n)
    BY <1>1, <1>2
<1> QED BY <1>2, <1>3 DEF TreeSpan

\* From the left part of a span the next element is to the right.
LEMMA StepFromLeft ==
    ASSUME NEW n \in Nat, NEW lo, NEW hi, TreeSpan(lo, hi, n), lo + 1 < hi,
           NEW f, NEW s, InSpan(f, s, lo, Mid(lo, hi), n)
    PROVE  s # 0 /\ ~IsRightmost(f, s) /\ InSpan(f \div 2, s \div 2, lo, hi, n)
<1> DEFINE k == split(hi - lo)
<1>1. /\ lo \in Nat /\ hi \in Nat /\ hi <= n
      /\ k \in Powers /\ k \in Nat \ {0} /\ Mid(lo, hi) = lo + k
      /\ lo + k < hi /\ hi <= lo + 2 * k
      /\ hi = lo + 2 * k \/ hi = n
      /\ \E g \in Nat : lo = g * (2 * k)
    BY ParentIs
<1> HIDE DEF k
<1>2. PICK g \in Nat : lo = g * (2 * k)
    BY <1>1
<1>3. PICK c \in Powers : AtSpan(f, s, c, lo, lo + k, n)
    BY <1>1 DEF InSpan
<1>4. c \in Nat \ {0} /\ f \in Nat /\ s \in Nat
    BY <1>3 DEF AtSpan, Powers
<1>5. c = k
    <2>1. lo + k = lo + c \/ lo + k = n
        BY <1>3 DEF AtSpan
    <2> QED BY <1>1, <1>4, <2>1
<1>6. lo = f * k /\ Covers(s, k, n - 1)
    BY <1>3, <1>5 DEF AtSpan
<1>7. f = 2 * g
    <2>1. lo = (2 * g) * k /\ 2 * g \in Nat
        BY <1>1, <1>2, Times
    <2> QED BY <1>1, <1>4, <1>6, <2>1, CancelTimes
<1>8. f % 2 = 0 /\ f \div 2 = g
    BY <1>1, <1>7, Times
<1>9. lo + k <= n - 1 /\ n - 1 \in Nat
    BY <1>1
<1>10. s # f
    <2>1. (f + 1) * k = f * k + k
        BY <1>1, <1>4
    <2>2. ~ (n - 1 < (f + 1) * k)
        BY <1>1, <1>6, <1>9, <2>1
    <2> QED BY <1>6, <2>2 DEF Covers
<1>11. s # 0
    <2>1. (0 + 1) * k = k
        BY <1>1
    <2>2. ~ (n - 1 < (0 + 1) * k)
        BY <1>1, <1>9, <2>1
    <2> QED BY <1>6, <2>2 DEF Covers
<1>12. ~IsRightmost(f, s)
    BY <1>8, <1>10 DEF IsRightmost
<1>13. Covers(s \div 2, 2 * k, n - 1) /\ s \div 2 \in Nat
    BY <1>1, <1>4, <1>6, <1>9, CoversDouble
<1>14. 2 * k \in Powers
    BY <1>1, PowerDoubles
<1>15. hi = lo + 2 * k \/ (hi = n /\ n <= lo + 2 * k)
    BY <1>1
<1>16. AtSpan(f \div 2, s \div 2, 2 * k, lo, hi, n)
    BY <1>2, <1>8, <1>13, <1>14, <1>15 DEF AtSpan
<1> QED BY <1>11, <1>12, <1>14, <1>16 DEF InSpan

\* From the right part it is to the left, and levels without a sibling are skipped.
LEMMA StepFromRight ==
    ASSUME NEW n \in Nat, NEW lo, NEW hi, TreeSpan(lo, hi, n), lo + 1 < hi,
           NEW f, NEW s, InSpan(f, s, Mid(lo, hi), hi, n)
    PROVE  /\ s # 0 /\ IsRightmost(f, s)
           /\ InSpan(SkipLevels(f, s).f, SkipLevels(f, s).s, lo, hi, n)
<1> DEFINE k == split(hi - lo)
<1>1. /\ lo \in Nat /\ hi \in Nat /\ hi <= n
      /\ k \in Powers /\ k \in Nat \ {0} /\ Mid(lo, hi) = lo + k
      /\ lo + k < hi /\ hi <= lo + 2 * k
      /\ hi = lo + 2 * k \/ hi = n
      /\ \E g \in Nat : lo = g * (2 * k)
    BY ParentIs
<1> HIDE DEF k
<1>2. PICK g \in Nat : lo = g * (2 * k)
    BY <1>1
<1> DEFINE o == 2 * g + 1
<1>3. lo + k = o * k /\ o \in Nat /\ o % 2 = 1 /\ o \div 2 = g /\ o # 0
    <2>1. g * (2 * k) + k = (2 * g + 1) * k /\ (2 * g + 1) % 2 = 1 /\ (2 * g + 1) \div 2 = g
        BY <1>1, Times
    <2> QED BY <1>2, <2>1
<1> HIDE DEF o
<1>4. PICK c \in Powers : AtSpan(f, s, c, lo + k, hi, n)
    BY <1>1 DEF InSpan
<1>5. c \in Nat \ {0} /\ f \in Nat /\ s \in Nat /\ lo + k = f * c /\ Covers(s, c, n - 1)
        /\ (hi = lo + k + c \/ (hi = n /\ n <= lo + k + c))
    BY <1>4 DEF AtSpan, Powers
<1>6. c <= k
    <2> SUFFICES ASSUME k < c PROVE FALSE
        BY <1>1, <1>5
    <2>1. PICK j \in Powers : c = (2 * k) * j
        BY <1>1, PowersApart
    <2>2. j \in Nat
        BY DEF Powers
    <2>3. f * ((2 * k) * j) = (2 * (f * j)) * k /\ 2 * (f * j) \in Nat
        BY <1>1, <1>5, <2>2
    <2>4. o = 2 * (f * j)
        BY <1>1, <1>3, <1>5, <2>1, <2>3, CancelTimes
    <2>5. f * j \in Nat
        BY <1>5, <2>2
    <2>6. (2 * (f * j)) % 2 = 0
        <3> DEFINE x == f * j
        <3>1. x \in Nat
            BY <2>5
        <3> HIDE DEF x
        <3>2. (2 * x) % 2 = 0
            BY <3>1
        <3> QED BY <3>2 DEF x
    <2> QED BY <1>3, <2>4, <2>6
<1>7. PICK j \in Powers : k = c * j
    BY <1>1, <1>5, <1>6, PowersDivide
<1>8. j \in Nat \ {0}
    BY DEF Powers
<1>9. f = o * j
    <2>1. o * (c * j) = (o * j) * c /\ o * j \in Nat
        BY <1>3, <1>5, <1>8
    <2> QED BY <1>3, <1>5, <1>7, <2>1, CancelTimes
<1>10. n - 1 \in Nat /\ lo + k <= n - 1
    BY <1>1
<1>11. 2 * k \in Powers /\ (hi = lo + 2 * k \/ (hi = n /\ n <= lo + 2 * k))
    BY <1>1, PowerDoubles
<1>12. CASE j = 1
    <2>1. c = k /\ f = o
        BY <1>3, <1>5, <1>7, <1>9, <1>12
    <2>2. s # 0
        <3>1. (0 + 1) * k = k
            BY <1>1
        <3>2. ~ (n - 1 < (0 + 1) * k)
            BY <1>1, <1>10, <3>1
        <3> QED BY <1>5, <2>1, <3>2 DEF Covers
    <2>3. SkipLevels(f, s) = Halve(o, s)
        <3>1. Covers(s, 1, s)
            BY <1>5, CoversOne
        <3>2. SkipLevels(o * 1, s) = Halve(o, s)
            BY <1>3, <1>5, <3>1, OneIsPower, SkipIs
        <3>3. o * 1 = f
            BY <1>3, <2>1
        <3> QED BY <3>2, <3>3
    <2>4. Covers(s \div 2, 2 * k, n - 1) /\ s \div 2 \in Nat
        BY <1>1, <1>5, <1>10, <2>1, CoversDouble
    <2>5. AtSpan(g, s \div 2, 2 * k, lo, hi, n)
        BY <1>2, <1>11, <2>4 DEF AtSpan
    <2>6. IsRightmost(f, s)
        BY <1>3, <2>1 DEF IsRightmost
    <2> QED BY <1>3, <1>11, <2>2, <2>3, <2>5, <2>6 DEF InSpan, Halve
<1>13. CASE j # 1
    <2>1. c < k
        <3>1. PICK i \in Powers : j = 2 * i
            BY <1>13, PowerIsDouble
        <3>2. i \in Nat \ {0}
            BY DEF Powers
        <3>3. c * (2 * i) = 2 * (c * i) /\ c * i >= c /\ c * i \in Nat
            BY <1>5, <3>2
        <3> QED BY <1>5, <1>7, <3>1, <3>3
    <2>2. hi = n /\ n <= lo + k + c
        BY <1>1, <1>5, <2>1
    <2>3. s = f
        <3>1. (f + 1) * c = f * c + c
            BY <1>5
        <3>2. f * c <= n - 1 /\ n - 1 < (f + 1) * c
            BY <1>1, <1>5, <1>10, <2>2, <3>1
        <3>3. Covers(f, c, n - 1)
            BY <3>2 DEF Covers
        <3> QED BY <1>5, <1>10, <3>3, CoversUnique
    <2>4. f # 0
        BY <1>3, <1>8, <1>9
    <2>5. SkipLevels(f, s) = Halve(o, o)
        <3>1. (o + 1) * j = o * j + j /\ o * j \in Nat
            BY <1>3, <1>8
        <3>2. Covers(o, j, s)
            BY <1>8, <1>9, <2>3, <3>1 DEF Covers
        <3> QED BY <1>3, <1>5, <1>9, <3>2, SkipIs
    <2>6. Covers(g, 2 * k, n - 1)
        <3>1. g * (2 * k) + 2 * k = (g + 1) * (2 * k)
            BY <1>1, Times
        <3>2. lo <= n - 1 /\ n - 1 < lo + 2 * k
            BY <1>1, <1>5, <1>10, <2>1, <2>2
        <3> QED BY <1>2, <3>1, <3>2 DEF Covers
    <2>7. AtSpan(g, g, 2 * k, lo, hi, n)
        BY <1>2, <1>11, <2>6 DEF AtSpan
    <2>8. IsRightmost(f, s)
        BY <2>3 DEF IsRightmost
    <2> QED BY <1>3, <1>11, <2>3, <2>4, <2>5, <2>7, <2>8 DEF InSpan, Halve
<1> QED BY <1>12, <1>13

-----------------------------------------------------------------------------
(* The paths. *)

\* All the nodes of a tree.
Nodes(d) == {Subtree(d)[s] : s \in Spans(d)}

\* The node of a span is one of them.
LEMMA NodeIs ==
    ASSUME NEW d, Len(d) \in Nat, NEW lo \in 0..Len(d), NEW hi \in 0..Len(d)
    PROVE  Sub(d, lo, hi) \in Nodes(d) /\ <<lo, hi>> \in Spans(d)
BY DEF Sub, Nodes, Spans

\* What the recursion of inclusion_proof defines.
IsPath(w, d, m) ==
    w = [s \in Spans(d) |->
            IF s[2] <= s[1] + 1 THEN <<>>
            ELSE IF m < s[1] + split(s[2] - s[1])
                 THEN Append(w[<<s[1], s[1] + split(s[2] - s[1])>>],
                             Subtree(d)[<<s[1] + split(s[2] - s[1]), s[2]>>])
            ELSE Append(w[<<s[1] + split(s[2] - s[1]), s[2]>>],
                        Subtree(d)[<<s[1], s[1] + split(s[2] - s[1])>>])]

\* The size of a span, where one that ends before it begins has none.
SpanSize(s) == IF s[1] <= s[2] THEN s[2] - s[1] ELSE 0

\* The part of a span is smaller than the span.
LEMMA PartIsSmaller ==
    ASSUME NEW d, Len(d) \in Nat, NEW m \in Nat, NEW s \in Spans(d), s[1] + 1 < s[2]
    PROVE  /\ Part(m, s[1], s[2]) \in Spans(d) /\ Other(m, s[1], s[2]) \in Spans(d)
           /\ SpanSize(Part(m, s[1], s[2])) < SpanSize(s)
<1>1. s[1] \in Nat /\ s[2] \in Nat /\ s[2] <= Len(d)
    BY DEF Spans
<1>2. Mid(s[1], s[2]) \in Nat /\ s[1] < Mid(s[1], s[2]) /\ Mid(s[1], s[2]) < s[2]
    BY <1>1, MidIs
<1> QED BY <1>1, <1>2 DEF Spans, Part, Other, SpanSize

\* There is such a function.
LEMMA PathExists ==
    ASSUME NEW d, Len(d) \in Nat, NEW m \in Nat
    PROVE  \E w : IsPath(w, d, m) /\ w \in [Spans(d) -> Seq(Nodes(d))]
<1> DEFINE D == Spans(d)
           S == Seq(Nodes(d))
           stop == {s \in D : s[2] <= s[1] + 1}
           size == [s \in D |-> SpanSize(s)]
           base == [s \in D |-> <<>>]
           prev == [s \in D |-> IF s \in stop THEN s ELSE Part(m, s[1], s[2])]
           step == [s \in D |-> [p \in S |-> IF s \in stop THEN p
                                             ELSE Append(p, Subtree(d)[Other(m, s[1], s[2])])]]
<1>0. \A s \in D : /\ s[1] \in Nat /\ s[2] \in Nat /\ s[1] <= Len(d) /\ s[2] <= Len(d)
                   /\ s \notin stop => s[1] + 1 < s[2]
    BY DEF Spans
<1>1. size \in [D -> Nat] /\ (\A s \in D : size[s] <= Len(d)) /\ base \in [D -> S]
    BY <1>0 DEF SpanSize
<1>2. prev \in [D -> D]
    BY <1>0, PartIsSmaller
<1>3. step \in [D -> [S -> S]]
    <2>1. ASSUME NEW s \in D, s \notin stop, NEW p \in S
          PROVE  Append(p, Subtree(d)[Other(m, s[1], s[2])]) \in S
        <3>1. Other(m, s[1], s[2]) \in D
            BY <1>0, <2>1, PartIsSmaller
        <3>2. Subtree(d)[Other(m, s[1], s[2])] \in Nodes(d)
            BY <3>1 DEF Nodes
        <3> QED BY <3>2
    <2> HIDE DEF S
    <2> QED BY <2>1
<1>4. \A s \in D \ stop : size[prev[s]] < size[s]
    <2>1. ASSUME NEW s \in D, s \notin stop
          PROVE  size[prev[s]] < size[s]
        <3>1. /\ Part(m, s[1], s[2]) \in D
              /\ SpanSize(Part(m, s[1], s[2])) < SpanSize(s)
            BY <1>0, <2>1, PartIsSmaller
        <3>2. prev[s] = Part(m, s[1], s[2])
            BY <2>1
        <3> QED BY <3>1, <3>2
    <2> QED BY <2>1
<1>5. PICK w : IsDescent(w, D, S, stop, base, prev, step)
    <2> HIDE DEF D, S, size, base, prev, step, stop
    <2> QED BY <1>1, <1>2, <1>3, <1>4, DescentExists
<1>6. w \in [D -> S]
    BY <1>5 DEF IsDescent
<1>7. ASSUME NEW s \in D
      PROVE  w[s] = IF s[2] <= s[1] + 1 THEN <<>>
                    ELSE Append(w[Part(m, s[1], s[2])], Subtree(d)[Other(m, s[1], s[2])])
    <2>1. w[s] = IF s \in stop THEN base[s] ELSE step[s][w[prev[s]]]
        BY <1>5 DEF IsDescent
    <2>2. CASE s \in stop
        BY <2>1, <2>2
    <2>3. CASE s \notin stop
        <3>1. prev[s] = Part(m, s[1], s[2]) /\ prev[s] \in D
            BY <1>2, <2>3
        <3>2. w[prev[s]] \in S
            BY <1>6, <3>1
        <3>3. step[s][w[prev[s]]] = Append(w[prev[s]], Subtree(d)[Other(m, s[1], s[2])])
            BY <2>3, <3>2
        <3>4. ~ (s[2] <= s[1] + 1)
            BY <2>3
        <3> QED BY <2>1, <2>3, <3>1, <3>3, <3>4
    <2> QED BY <2>2, <2>3
<1>8. IsPath(w, d, m)
    <2>1. w = [s \in D |-> w[s]]
        BY <1>6
    <2> HIDE DEF stop, size, base, prev, step, S
    <2> QED BY <1>7, <2>1 DEF IsPath, Part, Other, Mid
<1> QED BY <1>6, <1>8

\* The path of leaf m within a span.
Path(d, m, lo, hi) == (CHOOSE w : IsPath(w, d, m))[<<lo, hi>>]

\* The path is a function of the span.
LEMMA PathFunction ==
    ASSUME NEW d, Len(d) \in Nat, NEW m \in Nat
    PROVE  /\ IsPath(CHOOSE w : IsPath(w, d, m), d, m)
           /\ inclusion_proof(d, m) = Path(d, m, 0, Len(d))
<1>1. \E w : IsPath(w, d, m)
    BY PathExists
<1>2. IsPath(CHOOSE w : IsPath(w, d, m), d, m)
    BY <1>1
<1> QED BY <1>2 DEF inclusion_proof, Path, IsPath

\* A sequence with one more element.
LEMMA Appended ==
    ASSUME NEW S, NEW p \in Seq(S), NEW x \in S
    PROVE  /\ Append(p, x) \in Seq(S) /\ Len(p) \in Nat /\ Len(Append(p, x)) = Len(p) + 1
           /\ \A j \in 1..Len(p) : Append(p, x)[j] = p[j]
           /\ Append(p, x)[Len(p) + 1] = x
OBVIOUS

\* The path within a span is that within its part, and the root of the other one.
PathStep(d, m, lo, hi, a, b) ==
    /\ hi = lo + 1 => Path(d, m, lo, hi) = <<>>
    /\ hi # lo + 1 => Path(d, m, lo, hi) = Append(Path(d, m, a[1], a[2]), Sub(d, b[1], b[2]))

\* One leaf has the empty path, and a longer span that of its part and one more.
LEMMA PathIs ==
    ASSUME NEW d, Len(d) \in Nat, NEW m \in Nat, NEW lo \in Nat, NEW hi \in Nat,
           lo < hi, hi <= Len(d)
    PROVE  PathStep(d, m, lo, hi, Part(m, lo, hi), Other(m, lo, hi))
<1> DEFINE w == CHOOSE w : IsPath(w, d, m)
<1>1. IsPath(w, d, m)
    BY PathFunction
<1>2. \A x, y : Path(d, m, x, y) = w[<<x, y>>]
    BY DEF Path
<1> HIDE DEF w
<1>3. <<lo, hi>> \in Spans(d)
    BY DEF Spans
<1>4. w[<<lo, hi>>] =
            IF hi <= lo + 1 THEN <<>>
            ELSE IF m < lo + split(hi - lo)
                 THEN Append(w[<<lo, lo + split(hi - lo)>>],
                             Subtree(d)[<<lo + split(hi - lo), hi>>])
            ELSE Append(w[<<lo + split(hi - lo), hi>>], Subtree(d)[<<lo, lo + split(hi - lo)>>])
    BY <1>1, <1>3 DEF IsPath
<1>5. hi <= lo + 1 <=> hi = lo + 1
    OBVIOUS
<1> QED BY <1>2, <1>4, <1>5 DEF PathStep, Part, Other, Mid, Sub

\* A path is a sequence of nodes of the tree.
LEMMA PathInSeq ==
    ASSUME NEW d, Len(d) \in Nat, NEW m \in Nat, NEW lo \in Nat, NEW hi \in Nat,
           lo < hi, hi <= Len(d)
    PROVE  Path(d, m, lo, hi) \in Seq(Nodes(d))
<1> DEFINE Good == {n \in 0..hi : \A a \in 0..hi, b \in 0..hi :
                        a < b /\ b - a <= n => Path(d, m, a, b) \in Seq(Nodes(d))}
<1>1. 0 \in Good
    OBVIOUS
<1>2. ASSUME NEW n \in 0..(hi - 1), n \in Good
      PROVE  n + 1 \in Good
    <2> SUFFICES ASSUME NEW a \in 0..hi, NEW b \in 0..hi, a < b, b - a <= n + 1
                 PROVE  Path(d, m, a, b) \in Seq(Nodes(d))
        OBVIOUS
    <2>1. CASE b = a + 1
        <3>1. Path(d, m, a, b) = <<>>
            BY <2>1, PathIs DEF PathStep
        <3> QED BY <3>1
    <2>2. CASE b # a + 1
        <3> DEFINE c == Part(m, a, b)
                   e == Other(m, a, b)
        <3>1. a \in Nat /\ b \in Nat /\ a + 1 < b /\ b <= Len(d)
            BY <2>2
        <3>2. Mid(a, b) \in Nat /\ a < Mid(a, b) /\ Mid(a, b) < b
            BY <3>1, MidIs
        <3>3. c[1] \in 0..hi /\ c[2] \in 0..hi /\ c[1] < c[2] /\ c[2] - c[1] <= n
            BY <3>2 DEF Part
        <3>4. Path(d, m, c[1], c[2]) \in Seq(Nodes(d))
            BY <1>2, <3>3
        <3>5. e[1] \in 0..Len(d) /\ e[2] \in 0..Len(d)
            BY <3>1, <3>2 DEF Other
        <3>6. Sub(d, e[1], e[2]) \in Nodes(d)
            BY <3>5, NodeIs
        <3>7. Path(d, m, a, b) = Append(Path(d, m, c[1], c[2]), Sub(d, e[1], e[2]))
            <4>1. PathStep(d, m, a, b, c, e)
                BY <3>1, PathIs
            <4> HIDE DEF c, e
            <4> QED BY <2>2, <4>1 DEF PathStep
        <3> HIDE DEF c, e
        <3> QED BY <3>4, <3>6, <3>7
    <2> QED BY <2>1, <2>2
<1>3. 0..hi \subseteq Good
    <2> HIDE DEF Good
    <2> QED BY <1>1, <1>2, NatSetInduction
<1>4. hi \in Good /\ hi - lo <= hi
    BY <1>3
<1> QED BY <1>4

-----------------------------------------------------------------------------
(* The audit path of a leaf. *)

\* The state of verify_inclusion, and the one after an element too many.
State(f, s, r) == [f |-> f, s |-> s, ok |-> TRUE, r |-> r]
Failed(f, s, r) == [f |-> f, s |-> s, ok |-> FALSE, r |-> r]

\* An element takes the state one level up.
LEMMA ClimbIs ==
    ASSUME NEW f, NEW s, NEW r, NEW p
    PROVE  /\ s # 0 /\ IsRightmost(f, s) => Climb(State(f, s, r), p)
                 = State(SkipLevels(f, s).f, SkipLevels(f, s).s, node(p, r))
           /\ s # 0 /\ ~IsRightmost(f, s) => Climb(State(f, s, r), p)
                 = State(f \div 2, s \div 2, node(r, p))
<1>1. State(f, s, r).s = s /\ State(f, s, r).f = f /\ State(f, s, r).ok = TRUE
        /\ State(f, s, r).r = r
    BY DEF State
<1>2. ASSUME s # 0, IsRightmost(f, s)
      PROVE  Climb(State(f, s, r), p)
                = State(SkipLevels(f, s).f, SkipLevels(f, s).s, node(p, r))
    BY <1>1, <1>2 DEF Climb, State
<1>3. ASSUME s # 0, ~IsRightmost(f, s)
      PROVE  Climb(State(f, s, r), p) = State(f \div 2, s \div 2, node(r, p))
    BY <1>1, <1>3 DEF Climb, State, Halve
<1> QED BY <1>2, <1>3

\* At the top, and after a failure, no element is accepted.
LEMMA ClimbFails ==
    ASSUME NEW f, NEW r, NEW p, NEW x, x \in {State(f, 0, r), Failed(f, 0, r)}
    PROVE  Climb(x, p) = Failed(f, 0, r)
<1>1. DOMAIN x = {"f", "s", "ok", "r"} /\ x.f = f /\ x.s = 0 /\ x.r = r
    BY DEF State, Failed
<1> DEFINE z == [x EXCEPT !.ok = FALSE]
<1>2. Climb(x, p) = z
    BY <1>1 DEF Climb
<1>3. DOMAIN z = {"f", "s", "ok", "r"}
    BY <1>1
<1>4. z.f = f /\ z.s = 0 /\ z.r = r /\ z.ok = FALSE
    BY <1>1
<1>5. z = [i \in {"f", "s", "ok", "r"} |-> z[i]]
    BY <1>1
<1> HIDE DEF z
<1>6. z = Failed(f, 0, r)
    BY <1>4, <1>5 DEF Failed
<1> QED BY <1>2, <1>6

\* The states of verify_inclusion, element by element.
IsClimb(w, start, path) ==
    w = [i \in 0..Len(path) |-> IF i = 0 THEN start ELSE Climb(w[i - 1], path[i])]

\* There are such states.
LEMMA ClimbExists ==
    ASSUME NEW start, NEW path, Len(path) \in Nat
    PROVE  \E w : IsClimb(w, start, path)
<1> DEFINE Of(w, k) == w = [i \in 0..k |-> IF i = 0 THEN start ELSE Climb(w[i - 1], path[i])]
           Good == {k \in 0..Len(path) : \E w : Of(w, k)}
<1>1. 0 \in Good
    <2> DEFINE w == [i \in 0..0 |-> start]
    <2>1. w = [i \in 0..0 |-> IF i = 0 THEN start ELSE Climb(w[i - 1], path[i])]
        OBVIOUS
    <2> HIDE DEF w
    <2>2. Of(w, 0)
        BY <2>1
    <2> QED BY <2>2
<1>2. ASSUME NEW k \in 0..(Len(path) - 1), k \in Good
      PROVE  k + 1 \in Good
    <2>1. PICK w : Of(w, k)
        BY <1>2
    <2> DEFINE v == [i \in 0..(k + 1) |-> IF i = k + 1 THEN Climb(w[k], path[k + 1]) ELSE w[i]]
    <2>2. \A i \in 0..k : v[i] = w[i]
        OBVIOUS
    <2>3. \A i \in 0..(k + 1) : v[i] = IF i = 0 THEN start ELSE Climb(v[i - 1], path[i])
        <3> SUFFICES ASSUME NEW i \in 0..(k + 1)
                     PROVE  v[i] = IF i = 0 THEN start ELSE Climb(v[i - 1], path[i])
            OBVIOUS
        <3>1. CASE i = k + 1
            <4>1. v[i] = Climb(w[k], path[k + 1]) /\ i - 1 = k /\ i # 0
                BY <3>1
            <4> HIDE DEF v
            <4> QED BY <2>2, <3>1, <4>1
        <3>2. CASE i # k + 1
            <4>1. i \in 0..k /\ (i # 0 => i - 1 \in 0..k)
                BY <3>2
            <4>2. w[i] = IF i = 0 THEN start ELSE Climb(w[i - 1], path[i])
                BY <2>1, <4>1
            <4> HIDE DEF v
            <4> QED BY <2>2, <4>1, <4>2
        <3> QED BY <3>1, <3>2
    <2>4. v = [i \in 0..(k + 1) |-> v[i]]
        OBVIOUS
    <2> HIDE DEF v
    <2>5. Of(v, k + 1)
        BY <2>3, <2>4
    <2> HIDE DEF Of
    <2> QED BY <2>5
<1>3. 0..Len(path) \subseteq Good
    <2> HIDE DEF Good
    <2> QED BY <1>1, <1>2, NatSetInduction
<1>4. Len(path) \in Good
    BY <1>3
<1> QED BY <1>4 DEF IsClimb

\* The loop ends with the last one.
LEMMA ClimbAllIs ==
    ASSUME NEW start, NEW path, Len(path) \in Nat
    PROVE  \E w : IsClimb(w, start, path) /\ ClimbAll(start, path) = w[Len(path)]
<1> DEFINE w == CHOOSE w : IsClimb(w, start, path)
<1>1. IsClimb(w, start, path)
    BY ClimbExists
<1>2. ClimbAll(start, path) = w[Len(path)]
    BY DEF ClimbAll, IsClimb
<1> QED BY <1>1, <1>2

\* What an element less or more than the path of a span gives.
Unfinished(st) == \E f, s, r : st = State(f, s, r) /\ s # 0
Before(w, k, path) == \A i \in 0..(k - 1) : i <= Len(path) => Unfinished(w[i])

\* The state at a span: the root is that of the span exactly if the leaf and the
\* path are those of the tree.
Reaches(w, k, own, d, m, leaf, path, lo, hi) ==
    \E f, s, r :
        /\ w[k] = State(f, s, r)
        /\ InSpan(f, s, lo, hi, Len(d))
        /\ r = Sub(d, lo, hi) <=> (leaf = d[m + 1] /\ \A j \in 1..k : path[j] = own[j])

\* The state at a span, after as many elements as the path of the leaf has there.
Climbed(w, d, m, leaf, path, lo, hi) ==
    LET own == Path(d, m, lo, hi)
        k == Len(own)
    IN Before(w, k, path) /\ (k <= Len(path) => Reaches(w, k, own, d, m, leaf, path, lo, hi))

\* The loop begins at the leaf.
LEMMA ClimbedLeaf ==
    ASSUME NEW d, Len(d) \in Nat, NEW m \in Nat, m < Len(d), NEW leaf, NEW path,
           Len(path) \in Nat, NEW w, IsClimb(w, State(m, Len(d) - 1, leaf), path)
    PROVE  Climbed(w, d, m, leaf, path, m, m + 1)
<1> DEFINE own == Path(d, m, m, m + 1)
<1>1. own = <<>> /\ Sub(d, m, m + 1) = d[m + 1]
    BY PathIs, SubIs DEF PathStep
<1>2. Len(own) = 0
    BY <1>1
<1>3. w[0] = State(m, Len(d) - 1, leaf)
    BY DEF IsClimb
<1>4. AtSpan(m, Len(d) - 1, 1, m, m + 1, Len(d))
    BY OneIsPower DEF AtSpan, Covers
<1>5. InSpan(m, Len(d) - 1, m, m + 1, Len(d))
    BY <1>4, OneIsPower DEF InSpan
<1>6. leaf = Sub(d, m, m + 1) <=> (leaf = d[m + 1] /\ \A j \in 1..0 : path[j] = own[j])
    BY <1>1
<1> HIDE DEF own
<1>7. Reaches(w, 0, own, d, m, leaf, path, m, m + 1)
    BY <1>3, <1>5, <1>6 DEF Reaches
<1>8. Before(w, 0, path)
    BY DEF Before
<1> QED BY <1>2, <1>7, <1>8 DEF Climbed, own

\* The next element gives the state at the span that the part is of.
LEMMA ClimbedStep ==
    ASSUME NEW d, Len(d) \in Nat, NEW m \in Nat, NEW leaf, NEW path, Len(path) \in Nat,
           NEW start, NEW w, IsClimb(w, start, path),
           NEW lo, NEW hi, TreeSpan(lo, hi, Len(d)), lo + 1 < hi,
           NEW a, NEW b, a = Part(m, lo, hi), b = Other(m, lo, hi),
           NEW k \in Nat, k + 1 <= Len(path), NEW S, NEW own \in Seq(S), Len(own) = k,
           NEW x \in S, x = Sub(d, b[1], b[2]),
           Reaches(w, k, own, d, m, leaf, path, a[1], a[2])
    PROVE  Reaches(w, k + 1, Append(own, x), d, m, leaf, path, lo, hi)
<1>1. PICK f, s, r : /\ w[k] = State(f, s, r)
                     /\ InSpan(f, s, a[1], a[2], Len(d))
                     /\ r = Sub(d, a[1], a[2])
                          <=> (leaf = d[m + 1] /\ \A j \in 1..k : path[j] = own[j])
    BY DEF Reaches
<1>2. w[k + 1] = Climb(State(f, s, r), path[k + 1])
    <2>1. k + 1 \in 0..Len(path) /\ k + 1 # 0 /\ (k + 1) - 1 = k
        OBVIOUS
    <2>2. w[k + 1] = Climb(w[(k + 1) - 1], path[k + 1])
        BY <2>1 DEF IsClimb
    <2> QED BY <1>1, <2>1, <2>2
<1>3. lo \in Nat /\ hi \in Nat /\ lo < hi /\ hi <= Len(d) /\ hi # lo + 1
    BY DEF TreeSpan
<1>4. Sub(d, lo, hi) = node(Sub(d, lo, Mid(lo, hi)), Sub(d, Mid(lo, hi), hi))
    BY <1>3, SubIs
<1>5. (\A j \in 1..(k + 1) : path[j] = Append(own, x)[j])
        <=> (\A j \in 1..k : path[j] = own[j]) /\ path[k + 1] = x
    <2>1. /\ \A j \in 1..k : Append(own, x)[j] = own[j]
          /\ Append(own, x)[k + 1] = x
        BY Appended
    <2>2. \A j : j \in 1..(k + 1) <=> j \in 1..k \/ j = k + 1
        OBVIOUS
    <2> QED BY <2>1, <2>2
<1>6. CASE m < Mid(lo, hi)
    <2>1. a = <<lo, Mid(lo, hi)>> /\ b = <<Mid(lo, hi), hi>>
        BY <1>6 DEF Part, Other
    <2>2. s # 0 /\ ~IsRightmost(f, s) /\ InSpan(f \div 2, s \div 2, lo, hi, Len(d))
        BY <1>1, <2>1, StepFromLeft
    <2>3. w[k + 1] = State(f \div 2, s \div 2, node(r, path[k + 1]))
        BY <1>2, <2>2, ClimbIs
    <2>4. node(r, path[k + 1]) = Sub(d, lo, hi)
            <=> r = Sub(d, a[1], a[2]) /\ path[k + 1] = x
        BY <1>4, <2>1, NodeIsInjective
    <2>5. node(r, path[k + 1]) = Sub(d, lo, hi)
            <=> (leaf = d[m + 1] /\ \A j \in 1..(k + 1) : path[j] = Append(own, x)[j])
        BY <1>1, <1>5, <2>4
    <2> QED BY <2>2, <2>3, <2>5 DEF Reaches
<1>7. CASE ~(m < Mid(lo, hi))
    <2>1. a = <<Mid(lo, hi), hi>> /\ b = <<lo, Mid(lo, hi)>>
        BY <1>7 DEF Part, Other
    <2> DEFINE up == SkipLevels(f, s)
    <2>2. s # 0 /\ IsRightmost(f, s) /\ InSpan(up.f, up.s, lo, hi, Len(d))
        BY <1>1, <2>1, StepFromRight
    <2>3. w[k + 1] = State(up.f, up.s, node(path[k + 1], r))
        BY <1>2, <2>2, ClimbIs
    <2> HIDE DEF up
    <2>4. node(path[k + 1], r) = Sub(d, lo, hi)
            <=> r = Sub(d, a[1], a[2]) /\ path[k + 1] = x
        BY <1>4, <2>1, NodeIsInjective
    <2>5. node(path[k + 1], r) = Sub(d, lo, hi)
            <=> (leaf = d[m + 1] /\ \A j \in 1..(k + 1) : path[j] = Append(own, x)[j])
        BY <1>1, <1>5, <2>4
    <2> QED BY <2>2, <2>3, <2>5 DEF Reaches
<1> QED BY <1>6, <1>7

\* What holds at the part that leaf m is in holds at the span.
LEMMA ClimbedParent ==
    ASSUME NEW d, Len(d) \in Nat, NEW m \in Nat, NEW leaf, NEW path, Len(path) \in Nat,
           NEW start, NEW w, IsClimb(w, start, path),
           NEW lo, NEW hi, TreeSpan(lo, hi, Len(d)), lo + 1 < hi,
           NEW a, a = Part(m, lo, hi), Climbed(w, d, m, leaf, path, a[1], a[2])
    PROVE  Climbed(w, d, m, leaf, path, lo, hi)
<1> DEFINE b == Other(m, lo, hi)
           x == Sub(d, b[1], b[2])
           part == Path(d, m, a[1], a[2])
           k == Len(part)
<1>1. lo \in Nat /\ hi \in Nat /\ lo < hi /\ hi <= Len(d) /\ hi # lo + 1
    BY DEF TreeSpan
<1>2. Mid(lo, hi) \in Nat /\ lo < Mid(lo, hi) /\ Mid(lo, hi) < hi
    BY <1>1, MidIs
<1>3. part \in Seq(Nodes(d)) /\ k \in Nat
    <2>1. a[1] \in Nat /\ a[2] \in Nat /\ a[1] < a[2] /\ a[2] <= Len(d)
        BY <1>1, <1>2 DEF Part
    <2>2. part \in Seq(Nodes(d))
        BY <2>1, PathInSeq
    <2> QED BY <2>2
<1>4. x \in Nodes(d)
    <2>1. b[1] \in 0..Len(d) /\ b[2] \in 0..Len(d)
        BY <1>1, <1>2 DEF Other
    <2> HIDE DEF b
    <2> QED BY <2>1, NodeIs
<1>5. Path(d, m, lo, hi) = Append(part, x)
    <2>1. PathStep(d, m, lo, hi, a, b)
        BY <1>1, PathIs
    <2> QED BY <1>1, <2>1 DEF PathStep
<1>6. Before(w, k, path) /\ (k <= Len(path) => Reaches(w, k, part, d, m, leaf, path, a[1], a[2]))
    BY DEF Climbed
<1>7. b = Other(m, lo, hi) /\ x = Sub(d, b[1], b[2]) /\ k = Len(part)
    OBVIOUS
<1> HIDE DEF b, x, part, k
<1>8. Len(Append(part, x)) = k + 1
    BY <1>3, <1>4, <1>7, Appended
<1>9. Before(w, k + 1, path)
    <2>1. ASSUME NEW i \in 0..k, i <= Len(path), i # k
          PROVE  Unfinished(w[i])
        <3>1. i \in 0..(k - 1)
            BY <1>3, <2>1
        <3> QED BY <1>6, <2>1, <3>1 DEF Before
    <2>2. ASSUME k <= Len(path)
          PROVE  Unfinished(w[k])
        <3>1. PICK f, s, r : w[k] = State(f, s, r) /\ InSpan(f, s, a[1], a[2], Len(d))
            BY <1>6, <2>2 DEF Reaches
        <3>2. s # 0
            <4>1. CASE m < Mid(lo, hi)
                BY <3>1, <4>1, StepFromLeft DEF Part
            <4>2. CASE ~(m < Mid(lo, hi))
                BY <3>1, <4>2, StepFromRight DEF Part
            <4> QED BY <4>1, <4>2
        <3> QED BY <3>1, <3>2 DEF Unfinished
    <2>3. (k + 1) - 1 = k
        BY <1>3
    <2> QED BY <2>1, <2>2, <2>3 DEF Before
<1>10. ASSUME k + 1 <= Len(path)
       PROVE  Reaches(w, k + 1, Append(part, x), d, m, leaf, path, lo, hi)
    <2>1. Reaches(w, k, part, d, m, leaf, path, a[1], a[2])
        BY <1>3, <1>6, <1>10
    <2> QED BY <1>3, <1>4, <1>7, <1>10, <2>1, ClimbedStep
<1> QED BY <1>5, <1>8, <1>9, <1>10 DEF Climbed

\* Up to every span of the tree that the leaf is in.
LEMMA ClimbedSpan ==
    ASSUME NEW d, Len(d) \in Nat, NEW m \in Nat, NEW leaf, NEW path, Len(path) \in Nat,
           NEW w, IsClimb(w, State(m, Len(d) - 1, leaf), path),
           NEW lo, NEW hi, TreeSpan(lo, hi, Len(d)), lo <= m, m < hi
    PROVE  Climbed(w, d, m, leaf, path, lo, hi)
<1> DEFINE N == Len(d)
           Good == {n \in 0..N : \A a \in 0..N, b \in 0..N :
                       TreeSpan(a, b, N) /\ a <= m /\ m < b /\ b - a <= n
                          => Climbed(w, d, m, leaf, path, a, b)}
<1>1. 0 \in Good
    OBVIOUS
<1>2. ASSUME NEW n \in 0..(N - 1), n \in Good
      PROVE  n + 1 \in Good
    <2> SUFFICES ASSUME NEW a \in 0..N, NEW b \in 0..N, TreeSpan(a, b, N), a <= m, m < b,
                        b - a <= n + 1
                 PROVE  Climbed(w, d, m, leaf, path, a, b)
        OBVIOUS
    <2>1. CASE b = a + 1
        <3>1. m = a /\ b = m + 1 /\ m < Len(d)
            BY <2>1
        <3> QED BY <3>1, ClimbedLeaf
    <2>2. CASE b # a + 1
        <3> DEFINE c == Part(m, a, b)
        <3>1. a \in Nat /\ b \in Nat /\ a + 1 < b /\ b <= N
            BY <2>2 DEF TreeSpan
        <3>2. Mid(a, b) \in Nat /\ a < Mid(a, b) /\ Mid(a, b) < b
            BY <3>1, MidIs
        <3>3. TreeSpan(a, Mid(a, b), N) /\ TreeSpan(Mid(a, b), b, N)
            BY <3>1, PartsAreSpans
        <3>4. /\ c[1] \in 0..N /\ c[2] \in 0..N /\ TreeSpan(c[1], c[2], N)
              /\ c[1] <= m /\ m < c[2] /\ c[2] - c[1] <= n
            BY <3>1, <3>2, <3>3 DEF Part
        <3>5. c = Part(m, a, b)
            OBVIOUS
        <3> HIDE DEF c
        <3>6. Climbed(w, d, m, leaf, path, c[1], c[2])
            BY <1>2, <3>4
        <3> QED BY <3>1, <3>5, <3>6, ClimbedParent
    <2> QED BY <2>1, <2>2
<1>3. 0..N \subseteq Good
    <2> HIDE DEF Good
    <2> QED BY <1>1, <1>2, NatSetInduction
<1>4. lo \in 0..N /\ hi \in 0..N /\ hi - lo <= N
    <2>1. lo \in Nat /\ hi \in Nat /\ lo < hi /\ hi <= Len(d)
        BY DEF TreeSpan
    <2> QED BY <2>1
<1>5. N \in Good
    <2> HIDE DEF Good
    <2>1. N \in 0..N
        OBVIOUS
    <2> QED BY <1>3, <2>1
<1>6. \A a \in 0..N, b \in 0..N :
         TreeSpan(a, b, N) /\ a <= m /\ m < b /\ b - a <= N => Climbed(w, d, m, leaf, path, a, b)
    BY <1>5
<1> QED BY <1>4, <1>6

\* A state at the top takes no more elements.
LEMMA PastTheTop ==
    ASSUME NEW start, NEW path, Len(path) \in Nat, NEW w, IsClimb(w, start, path),
           NEW k \in Nat, k < Len(path), NEW f, NEW r, w[k] = State(f, 0, r)
    PROVE  ~w[Len(path)].ok
<1> DEFINE N == Len(path) - k - 1
           Good == {i \in 0..N : \E q : w[k + 1 + i] = Failed(f, 0, q)}
<1>0. \A i \in 1..Len(path) : w[i] = Climb(w[i - 1], path[i])
    BY DEF IsClimb
<1>n. N \in Nat /\ k + 1 + N = Len(path)
    OBVIOUS
<1>1. 0 \in Good
    <2>1. k + 1 \in 1..Len(path) /\ (k + 1) - 1 = k /\ k + 1 + 0 = k + 1
        OBVIOUS
    <2>2. w[k + 1] = Climb(State(f, 0, r), path[k + 1])
        BY <1>0, <2>1
    <2>3. w[k + 1] = Failed(f, 0, r)
        BY <2>2, ClimbFails
    <2> QED BY <1>n, <2>1, <2>3
<1>2. ASSUME NEW i \in 0..(N - 1), i \in Good
      PROVE  i + 1 \in Good
    <2>1. PICK q : w[k + 1 + i] = Failed(f, 0, q)
        BY <1>2
    <2> DEFINE j == k + 1 + (i + 1)
    <2>2. j \in 1..Len(path) /\ j - 1 = k + 1 + i
        OBVIOUS
    <2> HIDE DEF j
    <2>3. w[j] = Climb(Failed(f, 0, q), path[j])
        BY <1>0, <2>1, <2>2
    <2>4. w[j] = Failed(f, 0, q)
        BY <2>3, ClimbFails
    <2>5. i + 1 \in 0..N
        OBVIOUS
    <2> QED BY <2>4, <2>5 DEF j
<1>3. 0..N \subseteq Good
    <2> HIDE DEF Good, N
    <2> QED BY <1>n, <1>1, <1>2, NatSetInduction
<1>4. PICK q : w[k + 1 + N] = Failed(f, 0, q)
    <2>1. N \in Good
        <3> HIDE DEF Good, N
        <3> QED BY <1>n, <1>3
    <2> QED BY <2>1
<1>5. w[Len(path)] = Failed(f, 0, q)
    BY <1>n, <1>4
<1> QED BY <1>5 DEF Failed

\* The root of a tree is the node of all its leaves.
LEMMA RootIs ==
    ASSUME NEW T, NEW d \in Seq(T), d # <<>>
    PROVE  root(d) = Sub(d, 0, Len(d)) /\ Len(d) \in Nat \ {0}
BY DEF root, Sub

\* At the top the place is the first one, and the last.
LEMMA TopIs ==
    ASSUME NEW n \in Nat \ {0}, NEW f, NEW s, InSpan(f, s, 0, n, n)
    PROVE  f = 0 /\ s = 0
<1>1. PICK c \in Powers : AtSpan(f, s, c, 0, n, n)
    BY DEF InSpan
<1>2. c \in Nat \ {0} /\ f \in Nat /\ s \in Nat /\ 0 = f * c /\ Covers(s, c, n - 1) /\ n <= c
    BY <1>1 DEF AtSpan, Powers
<1>3. 0 * c = 0 /\ (0 + 1) * c = c
    BY <1>2
<1>4. Covers(0, c, n - 1) /\ n - 1 \in Nat
    BY <1>2, <1>3 DEF Covers
<1> QED BY <1>2, <1>3, <1>4, CoversUnique, CancelTimes

\* Sequences with the same elements.
LEMMA SameSeq ==
    ASSUME NEW S, NEW T, NEW p \in Seq(S), NEW q \in Seq(T),
           Len(p) = Len(q), \A j \in 1..Len(q) : p[j] = q[j]
    PROVE  p = q
OBVIOUS

\* An audit path verifies, against the root of a tree and a place in it, for the
\* leaf that is there and for no other; and no other path does, whatever its
\* length (log.rs, inclusion_proof, verify_inclusion).
THEOREM AuditPathsBindTheLeaf ==
    ASSUME NEW T, NEW d \in Seq(T), NEW m \in Nat, m < Len(d), NEW leaf,
           NEW S, NEW path \in Seq(S)
    PROVE  verify_inclusion(leaf, m, Len(d), path, root(d))
              <=> leaf = d[m + 1] /\ path = inclusion_proof(d, m)
<1> DEFINE n == Len(d)
           own == Path(d, m, 0, n)
           start == State(m, n - 1, leaf)
<1>0. Len(d) \in Nat \ {0} /\ Len(path) \in Nat /\ d # <<>>
    OBVIOUS
<1>1. root(d) = Sub(d, 0, n) /\ n \in Nat \ {0}
    BY <1>0, RootIs
<1>2. PICK w : IsClimb(w, start, path) /\ ClimbAll(start, path) = w[Len(path)]
    <2> HIDE DEF start
    <2> QED BY <1>0, ClimbAllIs
<1>3. inclusion_proof(d, m) = own /\ own \in Seq(Nodes(d))
    <2>1. inclusion_proof(d, m) = own
        BY <1>0, PathFunction
    <2>2. own \in Seq(Nodes(d))
        BY <1>0, PathInSeq
    <2> QED BY <2>1, <2>2
<1>4. Climbed(w, d, m, leaf, path, 0, n)
    BY <1>0, <1>1, <1>2, WholeIsSpan, ClimbedSpan
<1>5. Before(w, Len(own), path)
        /\ (Len(own) <= Len(path) => Reaches(w, Len(own), own, d, m, leaf, path, 0, n))
    BY <1>4 DEF Climbed
<1>6. verify_inclusion(leaf, m, n, path, root(d))
        <=> w[Len(path)].ok /\ w[Len(path)].s = 0 /\ w[Len(path)].r = Sub(d, 0, n)
    BY <1>1, <1>2 DEF verify_inclusion, ReachesTheTop, State
<1> HIDE DEF start, own, n
<1>7. Len(own) \in Nat
    BY <1>3
<1>8. CASE Len(path) < Len(own)
    <2>1. Len(path) \in 0..(Len(own) - 1)
        BY <1>0, <1>7, <1>8
    <2>2. Unfinished(w[Len(path)])
        BY <1>0, <1>5, <2>1 DEF Before
    <2>3. w[Len(path)].s # 0
        BY <2>2 DEF Unfinished, State
    <2>4. path # own
        BY <1>8
    <2> QED BY <1>3, <1>6, <2>3, <2>4 DEF n
<1>9. CASE Len(own) <= Len(path)
    <2>1. PICK f, s, r : /\ w[Len(own)] = State(f, s, r)
                         /\ InSpan(f, s, 0, n, n)
                         /\ r = Sub(d, 0, n)
                              <=> (leaf = d[m + 1] /\ \A j \in 1..Len(own) : path[j] = own[j])
        BY <1>5, <1>9 DEF Reaches, n
    <2>2. f = 0 /\ s = 0
        BY <1>1, <2>1, TopIs
    <2>3. CASE Len(own) < Len(path)
        <3>1. ~w[Len(path)].ok
            BY <1>0, <1>2, <1>7, <2>1, <2>2, <2>3, PastTheTop
        <3>2. path # own
            BY <1>0, <1>7, <2>3
        <3> QED BY <1>3, <1>6, <3>1, <3>2 DEF n
    <2>4. CASE Len(own) = Len(path)
        <3>1. w[Len(path)].ok /\ w[Len(path)].s = 0 /\ w[Len(path)].r = r
            BY <2>1, <2>2, <2>4 DEF State
        <3>2. path = own <=> \A j \in 1..Len(own) : path[j] = own[j]
            BY <1>3, <2>4, SameSeq
        <3> QED BY <1>3, <1>6, <2>1, <3>1, <3>2 DEF n
    <2> QED BY <1>0, <1>7, <1>9, <2>3, <2>4
<1> QED BY <1>0, <1>7, <1>8, <1>9

-----------------------------------------------------------------------------
(* The proof that a tree extends an earlier one. *)

\* The first leaf of the earlier tree's last complete subtree.
LEMMA OddPart ==
    ASSUME NEW m \in Nat \ {0}
    PROVE  \E o \in Nat, q \in Powers : o % 2 = 1 /\ m = o * q
<1> DEFINE Odd(i) == \E o \in Nat, q \in Powers : o % 2 = 1 /\ i = o * q
           Good == {n \in 0..m : \A i \in 1..n : Odd(i)}
<1>1. 0 \in Good
    OBVIOUS
<1>2. ASSUME NEW n \in 0..(m - 1), n \in Good
      PROVE  n + 1 \in Good
    <2>1. Odd(n + 1)
        <3>1. CASE (n + 1) % 2 = 1
            <4>1. n + 1 = (n + 1) * 1 /\ n + 1 \in Nat
                OBVIOUS
            <4> QED BY <3>1, <4>1, OneIsPower
        <3>2. CASE (n + 1) % 2 # 1
            <4> DEFINE h == (n + 1) \div 2
            <4>1. h \in 1..n /\ n + 1 = 2 * h
                BY <3>2
            <4> HIDE DEF h
            <4>2. PICK o \in Nat, q \in Powers : o % 2 = 1 /\ h = o * q
                BY <1>2, <4>1
            <4>3. 2 * q \in Powers /\ q \in Nat
                BY PowerDoubles
            <4>4. n + 1 = o * (2 * q)
                <5>1. o * (2 * q) = 2 * (o * q)
                    BY <4>3
                <5> QED BY <4>1, <4>2, <5>1
            <4> QED BY <4>2, <4>3, <4>4
        <3> QED BY <3>1, <3>2
    <2>2. \A i \in 1..(n + 1) : i \in 1..n \/ i = n + 1
        OBVIOUS
    <2>3. \A i \in 1..(n + 1) : Odd(i)
        <3> HIDE DEF Odd
        <3> QED BY <1>2, <2>1, <2>2
    <2>4. n + 1 \in 0..m
        OBVIOUS
    <2> HIDE DEF Odd
    <2> QED BY <2>3, <2>4
<1>3. 0..m \subseteq Good
    <2> HIDE DEF Good
    <2> QED BY <1>1, <1>2, NatSetInduction
<1>4. m \in Good /\ m \in 1..m
    BY <1>3
<1> HIDE DEF Odd
<1>5. Odd(m)
    BY <1>4
<1> QED BY <1>5 DEF Odd

\* Twice a number of times something is not an odd number of times it.
LEMMA OddNotEven ==
    ASSUME NEW o \in Nat, o % 2 = 1, NEW a \in Nat, NEW j \in Nat, NEW q \in Nat \ {0}
    PROVE  o * q # a * ((2 * q) * j)
<1> SUFFICES ASSUME o * q = a * ((2 * q) * j) PROVE FALSE
    OBVIOUS
<1> DEFINE x == a * j
<1>1. x \in Nat /\ a * ((2 * q) * j) = (2 * x) * q
    OBVIOUS
<1> HIDE DEF x
<1>2. o = 2 * x
    BY <1>1, CancelTimes
<1>3. (2 * x) % 2 = 0
    BY <1>1
<1> QED BY <1>2, <1>3

\* A number is an odd number times a power of two in one way.
LEMMA OddPartUnique ==
    ASSUME NEW o \in Nat, NEW q \in Powers, o % 2 = 1,
           NEW a \in Nat, NEW b \in Powers, a % 2 = 1, o * q = a * b
    PROVE  q = b
<1>0. q \in Nat \ {0} /\ b \in Nat \ {0}
    BY DEF Powers
<1>1. ~ (q < b)
    <2> SUFFICES ASSUME q < b PROVE FALSE
        OBVIOUS
    <2>1. PICK j \in Powers : b = (2 * q) * j
        BY PowersApart
    <2>2. j \in Nat
        BY DEF Powers
    <2> QED BY <1>0, <2>1, <2>2, OddNotEven
<1>2. ~ (b < q)
    <2> SUFFICES ASSUME b < q PROVE FALSE
        OBVIOUS
    <2>1. PICK j \in Powers : q = (2 * b) * j
        BY PowersApart
    <2>2. j \in Nat
        BY DEF Powers
    <2>3. a * b = o * ((2 * b) * j)
        BY <2>1
    <2> QED BY <1>0, <2>2, <2>3, OddNotEven
<1> QED BY <1>0, <1>1, <1>2

\* A power of two is once itself.
LEMMA OddPartOfPower ==
    ASSUME NEW m \in Nat \ {0}, NEW o \in Nat, NEW q \in Powers, o % 2 = 1, m = o * q
    PROVE  /\ q \in Nat \ {0} /\ q <= m /\ o # 0 /\ m - q = (o - 1) * q
           /\ IsPowerOfTwo(m) <=> q = m
<1>1. q \in Nat \ {0} /\ o # 0
    BY DEF Powers
<1>2. o - 1 \in Nat /\ m = (o - 1) * q + q /\ (o - 1) * q \in Nat
    BY <1>1
<1>3. q <= m /\ m - q = (o - 1) * q
    BY <1>1, <1>2
<1>4. IsPowerOfTwo(m) => q = m
    <2>1. ASSUME IsPowerOfTwo(m) PROVE q = m
        <3>1. m \in Powers
            BY <2>1 DEF Powers
        <3>2. 1 % 2 = 1 /\ 1 * m = m
            OBVIOUS
        <3>3. q = m
            BY <3>1, <3>2, OddPartUnique
        <3> QED BY <3>3
    <2> QED BY <2>1
<1>5. q = m => IsPowerOfTwo(m)
    BY DEF Powers
<1> QED BY <1>1, <1>3, <1>4, <1>5

\* Each leaf is under a node of every size.
LEMMA CoversExists ==
    ASSUME NEW c \in Nat \ {0}, NEW i \in Nat
    PROVE  \E s \in Nat : Covers(s, c, i)
<1> DEFINE U == {u \in Nat : i < (u + 1) * c}
<1>1. i \in U
    <2>1. (i + 1) * c >= i + 1
        OBVIOUS
    <2> QED BY <2>1
<1>2. PICK u \in U : \A v \in U : u <= v
    <2> HIDE DEF U
    <2>1. U \in SUBSET Nat
        BY DEF U
    <2> QED BY <1>1, <2>1, LeastNumber
<1>3. u \in Nat /\ i < (u + 1) * c
    OBVIOUS
<1>4. u * c <= i
    <2>1. CASE u = 0
        BY <2>1
    <2>2. CASE u # 0
        <3>1. u - 1 \in Nat /\ (u - 1) + 1 = u /\ ~ (u <= u - 1)
            BY <1>3, <2>2
        <3>2. u - 1 \notin U
            <4> HIDE DEF U
            <4> QED BY <1>2, <3>1
        <3>3. ~ (i < u * c)
            BY <3>1, <3>2
        <3>4. u * c \in Nat
            BY <1>3
        <3> QED BY <3>3, <3>4
    <2> QED BY <2>1, <2>2
<1> QED BY <1>3, <1>4 DEF Covers

\* The spans that begin before leaf m.
OldSpans(d, m) == (0..(m - 1)) \X (0..Len(d))

\* What the recursion of consistency_proof defines.
IsProof(w, d, m) ==
    w = [s \in OldSpans(d, m) |->
            IF s[2] <= m THEN IF s[1] = 0 THEN <<>> ELSE <<Subtree(d)[s]>>
            ELSE IF m <= s[1] + split(s[2] - s[1])
                 THEN Append(w[<<s[1], s[1] + split(s[2] - s[1])>>],
                             Subtree(d)[<<s[1] + split(s[2] - s[1]), s[2]>>])
            ELSE Append(w[<<s[1] + split(s[2] - s[1]), s[2]>>],
                        Subtree(d)[<<s[1], s[1] + split(s[2] - s[1])>>])]

\* In a span that has leaves before leaf m and after it, m - 1 is in a part of them.
LEMMA OldPart ==
    ASSUME NEW d, Len(d) \in Nat, NEW m \in 1..Len(d), NEW s \in OldSpans(d, m), m < s[2]
    PROVE  /\ Part(m - 1, s[1], s[2]) \in OldSpans(d, m)
           /\ Other(m - 1, s[1], s[2]) \in Spans(d)
           /\ SpanSize(Part(m - 1, s[1], s[2])) < SpanSize(s)
           /\ m - 1 < Mid(s[1], s[2]) <=> m <= Mid(s[1], s[2])
<1>1. s[1] \in Nat /\ s[2] \in Nat /\ s[2] <= Len(d) /\ s[1] <= m - 1 /\ s[1] + 1 < s[2]
    BY DEF OldSpans
<1>2. Mid(s[1], s[2]) \in Nat /\ s[1] < Mid(s[1], s[2]) /\ Mid(s[1], s[2]) < s[2]
    BY <1>1, MidIs
<1>3. m - 1 < Mid(s[1], s[2]) <=> m <= Mid(s[1], s[2])
    BY <1>2
<1> QED BY <1>1, <1>2, <1>3 DEF Spans, OldSpans, Part, Other, SpanSize

\* There is such a function.
LEMMA ProofExists ==
    ASSUME NEW d, Len(d) \in Nat, NEW m \in 1..Len(d)
    PROVE  \E w : IsProof(w, d, m)
<1> DEFINE D == OldSpans(d, m)
           S == Seq(Nodes(d))
           stop == {s \in D : s[2] <= m}
           size == [s \in D |-> SpanSize(s)]
           base == [s \in D |-> IF s[1] = 0 THEN <<>> ELSE <<Subtree(d)[s]>>]
           prev == [s \in D |-> IF s \in stop THEN s ELSE Part(m - 1, s[1], s[2])]
           step == [s \in D |-> [p \in S |-> IF s \in stop THEN p
                                     ELSE Append(p, Subtree(d)[Other(m - 1, s[1], s[2])])]]
<1>0. \A s \in D : /\ s[1] \in Nat /\ s[2] \in Nat /\ s[1] <= Len(d) /\ s[2] <= Len(d)
                   /\ s \in Spans(d)
                   /\ s \notin stop => m < s[2]
    BY DEF Spans, OldSpans
<1>1. size \in [D -> Nat] /\ \A s \in D : size[s] <= Len(d)
    BY <1>0 DEF SpanSize
<1>b. base \in [D -> S]
    <2>1. ASSUME NEW s \in D PROVE base[s] \in S
        <3>1. Subtree(d)[s] \in Nodes(d)
            BY <1>0 DEF Nodes
        <3>2. <<>> \in S /\ <<Subtree(d)[s]>> \in S
            BY <3>1
        <3> HIDE DEF S
        <3> QED BY <3>2
    <2> HIDE DEF S
    <2> QED BY <2>1
<1>2. prev \in [D -> D]
    BY <1>0, OldPart
<1>3. step \in [D -> [S -> S]]
    <2>1. ASSUME NEW s \in D, s \notin stop, NEW p \in S
          PROVE  Append(p, Subtree(d)[Other(m - 1, s[1], s[2])]) \in S
        <3>1. Other(m - 1, s[1], s[2]) \in Spans(d)
            BY <1>0, <2>1, OldPart
        <3>2. Subtree(d)[Other(m - 1, s[1], s[2])] \in Nodes(d)
            BY <3>1 DEF Nodes
        <3> QED BY <3>2
    <2> HIDE DEF S
    <2> QED BY <2>1
<1>4. \A s \in D \ stop : size[prev[s]] < size[s]
    <2>1. ASSUME NEW s \in D, s \notin stop
          PROVE  size[prev[s]] < size[s]
        <3>1. /\ Part(m - 1, s[1], s[2]) \in D
              /\ SpanSize(Part(m - 1, s[1], s[2])) < SpanSize(s)
            BY <1>0, <2>1, OldPart
        <3>2. prev[s] = Part(m - 1, s[1], s[2])
            BY <2>1
        <3> QED BY <3>1, <3>2
    <2> QED BY <2>1
<1>5. PICK w : IsDescent(w, D, S, stop, base, prev, step)
    <2> HIDE DEF D, S, size, base, prev, step, stop
    <2> QED BY <1>1, <1>b, <1>2, <1>3, <1>4, DescentExists
<1>6. w \in [D -> S]
    BY <1>5 DEF IsDescent
<1>7. ASSUME NEW s \in D
      PROVE  w[s] = IF s[2] <= m THEN IF s[1] = 0 THEN <<>> ELSE <<Subtree(d)[s]>>
                    ELSE IF m <= Mid(s[1], s[2])
                    THEN Append(w[<<s[1], Mid(s[1], s[2])>>], Subtree(d)[<<Mid(s[1], s[2]), s[2]>>])
                    ELSE Append(w[<<Mid(s[1], s[2]), s[2]>>], Subtree(d)[<<s[1], Mid(s[1], s[2])>>])
    <2>1. w[s] = IF s \in stop THEN base[s] ELSE step[s][w[prev[s]]]
        BY <1>5 DEF IsDescent
    <2>2. CASE s \in stop
        BY <2>1, <2>2
    <2>3. CASE s \notin stop
        <3>1. prev[s] = Part(m - 1, s[1], s[2]) /\ prev[s] \in D
            BY <1>2, <2>3
        <3>2. w[prev[s]] \in S
            BY <1>6, <3>1
        <3>3. step[s][w[prev[s]]] = Append(w[prev[s]], Subtree(d)[Other(m - 1, s[1], s[2])])
            BY <2>3, <3>2
        <3>4. ~ (s[2] <= m) /\ m < s[2]
            BY <1>0, <2>3
        <3>5. m - 1 < Mid(s[1], s[2]) <=> m <= Mid(s[1], s[2])
            BY <3>4, OldPart
        <3>6. w[s] = Append(w[Part(m - 1, s[1], s[2])], Subtree(d)[Other(m - 1, s[1], s[2])])
            BY <2>1, <2>3, <3>1, <3>3
        <3> QED BY <3>4, <3>5, <3>6 DEF Part, Other
    <2> QED BY <2>2, <2>3
<1>8. IsProof(w, d, m)
    <2>1. w = [s \in D |-> w[s]]
        BY <1>6
    <2> HIDE DEF stop, size, base, prev, step, S
    <2> QED BY <1>7, <2>1 DEF IsProof, Mid
<1> QED BY <1>8

\* The proof within a span.
Proof(d, m, lo, hi) == (CHOOSE w : IsProof(w, d, m))[<<lo, hi>>]

\* The proof is a function of the span.
LEMMA ProofFunction ==
    ASSUME NEW d, Len(d) \in Nat, NEW m \in 1..Len(d)
    PROVE  /\ IsProof(CHOOSE w : IsProof(w, d, m), d, m)
           /\ consistency_proof(d, m) = Proof(d, m, 0, Len(d))
<1>1. \E w : IsProof(w, d, m)
    BY ProofExists
<1>2. IsProof(CHOOSE w : IsProof(w, d, m), d, m)
    BY <1>1
<1> QED BY <1>2 DEF consistency_proof, Proof, IsProof, OldSpans

\* The proof within a span is that within its part, and the root of the other one.
ProofStep(d, m, lo, hi, a, b) ==
    /\ hi = m => Proof(d, m, lo, hi) = IF lo = 0 THEN <<>> ELSE <<Sub(d, lo, hi)>>
    /\ hi # m => Proof(d, m, lo, hi) = Append(Proof(d, m, a[1], a[2]), Sub(d, b[1], b[2]))

\* A span of old leaves only is its own proof, unless the verifier knows its root; a
\* longer one has that of its part and one more.
LEMMA ProofIs ==
    ASSUME NEW d, Len(d) \in Nat, NEW m \in 1..Len(d), NEW lo \in Nat, NEW hi \in Nat,
           lo < m, m <= hi, hi <= Len(d)
    PROVE  ProofStep(d, m, lo, hi, Part(m - 1, lo, hi), Other(m - 1, lo, hi))
<1> DEFINE w == CHOOSE w : IsProof(w, d, m)
<1>1. IsProof(w, d, m)
    BY ProofFunction
<1>2. \A x, y : Proof(d, m, x, y) = w[<<x, y>>]
    BY DEF Proof
<1> HIDE DEF w
<1>3. <<lo, hi>> \in OldSpans(d, m)
    BY DEF OldSpans
<1>4. w[<<lo, hi>>] =
            IF hi <= m THEN IF lo = 0 THEN <<>> ELSE <<Subtree(d)[<<lo, hi>>]>>
            ELSE IF m <= lo + split(hi - lo)
                 THEN Append(w[<<lo, lo + split(hi - lo)>>],
                             Subtree(d)[<<lo + split(hi - lo), hi>>])
            ELSE Append(w[<<lo + split(hi - lo), hi>>], Subtree(d)[<<lo, lo + split(hi - lo)>>])
    BY <1>1, <1>3 DEF IsProof
<1>5. CASE hi = m
    BY <1>2, <1>4, <1>5 DEF ProofStep, Sub
<1>6. CASE hi # m
    <2>1. ~ (hi <= m) /\ m < <<lo, hi>>[2]
        BY <1>6
    <2>2. m - 1 < Mid(lo, hi) <=> m <= Mid(lo, hi)
        BY <1>3, <2>1, OldPart
    <2>3. CASE m <= Mid(lo, hi)
        BY <1>2, <1>4, <1>6, <2>1, <2>2, <2>3 DEF ProofStep, Part, Other, Mid, Sub
    <2>4. CASE ~(m <= Mid(lo, hi))
        BY <1>2, <1>4, <1>6, <2>1, <2>2, <2>4 DEF ProofStep, Part, Other, Mid, Sub
    <2> QED BY <2>3, <2>4
<1> QED BY <1>5, <1>6

\* A proof is a sequence of nodes of the tree.
LEMMA ProofInSeq ==
    ASSUME NEW d, Len(d) \in Nat, NEW m \in 1..Len(d), NEW lo \in Nat, NEW hi \in Nat,
           lo < m, m <= hi, hi <= Len(d)
    PROVE  Proof(d, m, lo, hi) \in Seq(Nodes(d))
<1> DEFINE Good == {n \in 0..hi : \A a \in 0..hi, b \in 0..hi :
                        a < m /\ m <= b /\ b - a <= n => Proof(d, m, a, b) \in Seq(Nodes(d))}
<1>1. 0 \in Good
    OBVIOUS
<1>2. ASSUME NEW n \in 0..(hi - 1), n \in Good
      PROVE  n + 1 \in Good
    <2> SUFFICES ASSUME NEW a \in 0..hi, NEW b \in 0..hi, a < m, m <= b, b - a <= n + 1
                 PROVE  Proof(d, m, a, b) \in Seq(Nodes(d))
        OBVIOUS
    <2> DEFINE c == Part(m - 1, a, b)
               e == Other(m - 1, a, b)
    <2>0. ProofStep(d, m, a, b, c, e)
        BY ProofIs
    <2>1. CASE b = m
        <3>1. Sub(d, a, b) \in Nodes(d)
            <4>1. a \in 0..Len(d) /\ b \in 0..Len(d)
                OBVIOUS
            <4> QED BY <4>1, NodeIs
        <3>2. <<>> \in Seq(Nodes(d)) /\ <<Sub(d, a, b)>> \in Seq(Nodes(d))
            BY <3>1
        <3> HIDE DEF c, e
        <3> QED BY <2>0, <2>1, <3>2 DEF ProofStep
    <2>2. CASE b # m
        <3>1. a \in Nat /\ b \in Nat /\ a + 1 < b /\ b <= Len(d)
            BY <2>2
        <3>2. Mid(a, b) \in Nat /\ a < Mid(a, b) /\ Mid(a, b) < b
            BY <3>1, MidIs
        <3>3. c[1] \in 0..hi /\ c[2] \in 0..hi /\ c[1] < m /\ m <= c[2] /\ c[2] - c[1] <= n
            BY <2>2, <3>2 DEF Part
        <3>4. Proof(d, m, c[1], c[2]) \in Seq(Nodes(d))
            BY <1>2, <3>3
        <3>5. e[1] \in 0..Len(d) /\ e[2] \in 0..Len(d)
            BY <3>1, <3>2 DEF Other
        <3>6. Sub(d, e[1], e[2]) \in Nodes(d)
            BY <3>5, NodeIs
        <3> HIDE DEF c, e
        <3> QED BY <2>0, <2>2, <3>4, <3>6 DEF ProofStep
    <2> QED BY <2>1, <2>2
<1>3. 0..hi \subseteq Good
    <2> HIDE DEF Good
    <2> QED BY <1>1, <1>2, NatSetInduction
<1>4. hi \in Good /\ hi - lo <= hi
    BY <1>3
<1> QED BY <1>4

\* The state of verify_consistency, and the one after an element too many.
Both(f, s, fr, sr) == [f |-> f, s |-> s, ok |-> TRUE, fr |-> fr, sr |-> sr]
BothFailed(f, s, fr, sr) == [f |-> f, s |-> s, ok |-> FALSE, fr |-> fr, sr |-> sr]

\* An element takes the state one level up.
LEMMA ClimbBothIs ==
    ASSUME NEW f, NEW s, NEW fr, NEW sr, NEW p
    PROVE  /\ s # 0 /\ IsRightmost(f, s) => ClimbBoth(Both(f, s, fr, sr), p)
                 = Both(SkipLevels(f, s).f, SkipLevels(f, s).s, node(p, fr), node(p, sr))
           /\ s # 0 /\ ~IsRightmost(f, s) => ClimbBoth(Both(f, s, fr, sr), p)
                 = Both(f \div 2, s \div 2, fr, node(sr, p))
<1>1. Both(f, s, fr, sr).s = s /\ Both(f, s, fr, sr).f = f /\ Both(f, s, fr, sr).ok = TRUE
        /\ Both(f, s, fr, sr).fr = fr /\ Both(f, s, fr, sr).sr = sr
    BY DEF Both
<1>2. ASSUME s # 0, IsRightmost(f, s)
      PROVE  ClimbBoth(Both(f, s, fr, sr), p)
                = Both(SkipLevels(f, s).f, SkipLevels(f, s).s, node(p, fr), node(p, sr))
    BY <1>1, <1>2 DEF ClimbBoth, Both
<1>3. ASSUME s # 0, ~IsRightmost(f, s)
      PROVE  ClimbBoth(Both(f, s, fr, sr), p) = Both(f \div 2, s \div 2, fr, node(sr, p))
    BY <1>1, <1>3 DEF ClimbBoth, Both, Halve
<1> QED BY <1>2, <1>3

\* At the top, and after a failure, no element is accepted.
LEMMA ClimbBothFails ==
    ASSUME NEW f, NEW fr, NEW sr, NEW p, NEW x, x \in {Both(f, 0, fr, sr), BothFailed(f, 0, fr, sr)}
    PROVE  ClimbBoth(x, p) = BothFailed(f, 0, fr, sr)
<1>1. DOMAIN x = {"f", "s", "ok", "fr", "sr"} /\ x.f = f /\ x.s = 0 /\ x.fr = fr /\ x.sr = sr
    BY DEF Both, BothFailed
<1> DEFINE z == [x EXCEPT !.ok = FALSE]
<1>2. ClimbBoth(x, p) = z
    BY <1>1 DEF ClimbBoth
<1>3. DOMAIN z = {"f", "s", "ok", "fr", "sr"}
    BY <1>1
<1>4. z.f = f /\ z.s = 0 /\ z.fr = fr /\ z.sr = sr /\ z.ok = FALSE
    BY <1>1
<1>5. z = [i \in {"f", "s", "ok", "fr", "sr"} |-> z[i]]
    BY <1>1
<1> HIDE DEF z
<1>6. z = BothFailed(f, 0, fr, sr)
    BY <1>4, <1>5 DEF BothFailed
<1> QED BY <1>2, <1>6

\* The states of verify_consistency, element by element.
IsClimbBoth(w, start, path) ==
    w = [i \in 0..Len(path) |-> IF i = 0 THEN start ELSE ClimbBoth(w[i - 1], path[i])]

\* There are such states.
LEMMA ClimbBothExists ==
    ASSUME NEW start, NEW path, Len(path) \in Nat
    PROVE  \E w : IsClimbBoth(w, start, path)
<1> DEFINE Of(w, k) == w = [i \in 0..k |-> IF i = 0 THEN start ELSE ClimbBoth(w[i - 1], path[i])]
           Good == {k \in 0..Len(path) : \E w : Of(w, k)}
<1>1. 0 \in Good
    <2> DEFINE w == [i \in 0..0 |-> start]
    <2>1. w = [i \in 0..0 |-> IF i = 0 THEN start ELSE ClimbBoth(w[i - 1], path[i])]
        OBVIOUS
    <2> HIDE DEF w
    <2>2. Of(w, 0)
        BY <2>1
    <2> QED BY <2>2
<1>2. ASSUME NEW k \in 0..(Len(path) - 1), k \in Good
      PROVE  k + 1 \in Good
    <2>1. PICK w : Of(w, k)
        BY <1>2
    <2> DEFINE v == [i \in 0..(k + 1) |-> IF i = k + 1 THEN ClimbBoth(w[k], path[k + 1]) ELSE w[i]]
    <2>2. \A i \in 0..k : v[i] = w[i]
        OBVIOUS
    <2>3. \A i \in 0..(k + 1) : v[i] = IF i = 0 THEN start ELSE ClimbBoth(v[i - 1], path[i])
        <3> SUFFICES ASSUME NEW i \in 0..(k + 1)
                     PROVE  v[i] = IF i = 0 THEN start ELSE ClimbBoth(v[i - 1], path[i])
            OBVIOUS
        <3>1. CASE i = k + 1
            <4>1. v[i] = ClimbBoth(w[k], path[k + 1]) /\ i - 1 = k /\ i # 0
                BY <3>1
            <4> HIDE DEF v
            <4> QED BY <2>2, <3>1, <4>1
        <3>2. CASE i # k + 1
            <4>1. i \in 0..k /\ (i # 0 => i - 1 \in 0..k)
                BY <3>2
            <4>2. w[i] = IF i = 0 THEN start ELSE ClimbBoth(w[i - 1], path[i])
                BY <2>1, <4>1
            <4> HIDE DEF v
            <4> QED BY <2>2, <4>1, <4>2
        <3> QED BY <3>1, <3>2
    <2>4. v = [i \in 0..(k + 1) |-> v[i]]
        OBVIOUS
    <2> HIDE DEF v
    <2>5. Of(v, k + 1)
        BY <2>3, <2>4
    <2> HIDE DEF Of
    <2> QED BY <2>5
<1>3. 0..Len(path) \subseteq Good
    <2> HIDE DEF Good
    <2> QED BY <1>1, <1>2, NatSetInduction
<1>4. Len(path) \in Good
    BY <1>3
<1> QED BY <1>4 DEF IsClimbBoth

\* The loop ends with the last one.
LEMMA ClimbBothAllIs ==
    ASSUME NEW start, NEW path, Len(path) \in Nat
    PROVE  \E w : IsClimbBoth(w, start, path) /\ ClimbBothAll(start, path) = w[Len(path)]
<1> DEFINE w == CHOOSE w : IsClimbBoth(w, start, path)
<1>1. IsClimbBoth(w, start, path)
    BY ClimbBothExists
<1>2. ClimbBothAll(start, path) = w[Len(path)]
    BY DEF ClimbBothAll, IsClimbBoth
<1> QED BY <1>1, <1>2

\* A state at the top takes no more elements.
LEMMA BothPastTheTop ==
    ASSUME NEW start, NEW path, Len(path) \in Nat, NEW w, IsClimbBoth(w, start, path),
           NEW k \in Nat, k < Len(path), NEW f, NEW fr, NEW sr, w[k] = Both(f, 0, fr, sr)
    PROVE  ~w[Len(path)].ok
<1> DEFINE N == Len(path) - k - 1
           Good == {i \in 0..N : \E q, p : w[k + 1 + i] = BothFailed(f, 0, q, p)}
<1>0. \A i \in 1..Len(path) : w[i] = ClimbBoth(w[i - 1], path[i])
    BY DEF IsClimbBoth
<1>n. N \in Nat /\ k + 1 + N = Len(path)
    OBVIOUS
<1>1. 0 \in Good
    <2>1. k + 1 \in 1..Len(path) /\ (k + 1) - 1 = k /\ k + 1 + 0 = k + 1
        OBVIOUS
    <2>2. w[k + 1] = ClimbBoth(Both(f, 0, fr, sr), path[k + 1])
        BY <1>0, <2>1
    <2>3. w[k + 1] = BothFailed(f, 0, fr, sr)
        BY <2>2, ClimbBothFails
    <2> QED BY <1>n, <2>1, <2>3
<1>2. ASSUME NEW i \in 0..(N - 1), i \in Good
      PROVE  i + 1 \in Good
    <2>1. PICK q, p : w[k + 1 + i] = BothFailed(f, 0, q, p)
        BY <1>2
    <2> DEFINE j == k + 1 + (i + 1)
    <2>2. j \in 1..Len(path) /\ j - 1 = k + 1 + i
        OBVIOUS
    <2> HIDE DEF j
    <2>3. w[j] = ClimbBoth(BothFailed(f, 0, q, p), path[j])
        BY <1>0, <2>1, <2>2
    <2>4. w[j] = BothFailed(f, 0, q, p)
        BY <2>3, ClimbBothFails
    <2>5. i + 1 \in 0..N
        OBVIOUS
    <2> QED BY <2>4, <2>5 DEF j
<1>3. 0..N \subseteq Good
    <2> HIDE DEF Good, N
    <2> QED BY <1>n, <1>1, <1>2, NatSetInduction
<1>4. PICK q, p : w[k + 1 + N] = BothFailed(f, 0, q, p)
    <2>1. N \in Good
        <3> HIDE DEF Good, N
        <3> QED BY <1>n, <1>3
    <2> QED BY <2>1
<1>5. w[Len(path)] = BothFailed(f, 0, q, p)
    BY <1>n, <1>4
<1> QED BY <1>5 DEF BothFailed

\* What an element less or more than the proof of a span gives.
BothUnfinished(st) == \E f, s, fr, sr : st = Both(f, s, fr, sr) /\ s # 0
BothBefore(w, k, rest) == \A i \in 0..(k - 1) : i <= Len(rest) => BothUnfinished(w[i])

\* The state at a span, from first, the root of the old tree's last complete
\* subtree: the new root is that of the span exactly if first and the elements are
\* those of the proof, and then the old one is that of its old leaves.
BothReaches(w, k, own, skip, d, m, q, first, rest, lo, hi) ==
    \E f, s, fr, sr :
        /\ w[k] = Both(f, s, fr, sr)
        /\ InSpan(f, s, lo, hi, Len(d))
        /\ sr = Sub(d, lo, hi)
             <=> (first = Sub(d, m - q, m) /\ \A j \in 1..k : rest[j] = own[skip + j])
        /\ sr = Sub(d, lo, hi) => fr = Sub(d, lo, m)

\* The state at a span, after as many elements as the proof has there.
BothClimbed(w, skip, d, m, q, first, rest, lo, hi) ==
    LET own == Proof(d, m, lo, hi)
        k == Len(own) - skip
    IN /\ k \in Nat
       /\ skip = 1 => own[1] = Sub(d, m - q, m)
       /\ BothBefore(w, k, rest)
       /\ k <= Len(rest) => BothReaches(w, k, own, skip, d, m, q, first, rest, lo, hi)

\* The loop begins at the old tree's last complete subtree.
LEMMA BothClimbedFirst ==
    ASSUME NEW d, Len(d) \in Nat, NEW m \in 1..Len(d), NEW o \in Nat, NEW q \in Powers,
           o % 2 = 1, m = o * q, NEW t \in Nat, Covers(t, q, Len(d) - 1),
           NEW first, NEW rest, Len(rest) \in Nat,
           NEW skip, skip = IF IsPowerOfTwo(m) THEN 0 ELSE 1,
           NEW w, IsClimbBoth(w, Both(o - 1, t, first, first), rest)
    PROVE  BothClimbed(w, skip, d, m, q, first, rest, m - q, m)
<1> DEFINE own == Proof(d, m, m - q, m)
<1>1. q \in Nat \ {0} /\ q <= m /\ o # 0 /\ m - q = (o - 1) * q /\ (IsPowerOfTwo(m) <=> q = m)
    BY OddPartOfPower
<1>2. m - q \in Nat /\ m - q < m /\ m <= Len(d) /\ (m - q) + q = m /\ o - 1 \in Nat
    BY <1>1
<1>3. own = IF m - q = 0 THEN <<>> ELSE <<Sub(d, m - q, m)>>
    <2>1. ProofStep(d, m, m - q, m, Part(m - 1, m - q, m), Other(m - 1, m - q, m))
        BY <1>2, ProofIs
    <2> QED BY <2>1 DEF ProofStep
<1>4. Len(own) - skip = 0 /\ (skip = 1 => own[1] = Sub(d, m - q, m))
    <2>1. CASE q = m
        BY <1>1, <1>3, <2>1
    <2>2. CASE q # m
        <3>1. m - q # 0
            BY <1>1, <2>2
        <3>2. own = <<Sub(d, m - q, m)>> /\ skip = 1
            BY <1>1, <1>3, <2>2, <3>1
        <3> HIDE DEF own
        <3>3. Len(own) = 1 /\ own[1] = Sub(d, m - q, m)
            BY <3>2
        <3> QED BY <3>2, <3>3
    <2> QED BY <2>1, <2>2
<1>5. w[0] = Both(o - 1, t, first, first)
    BY DEF IsClimbBoth
<1>6. AtSpan(o - 1, t, q, m - q, m, Len(d))
    BY <1>1, <1>2 DEF AtSpan
<1>7. InSpan(o - 1, t, m - q, m, Len(d))
    BY <1>6 DEF InSpan
<1>8. first = Sub(d, m - q, m)
        <=> (first = Sub(d, m - q, m) /\ \A j \in 1..0 : rest[j] = own[skip + j])
    OBVIOUS
<1> HIDE DEF own
<1>9. BothReaches(w, 0, own, skip, d, m, q, first, rest, m - q, m)
    BY <1>5, <1>7, <1>8 DEF BothReaches
<1>10. BothBefore(w, 0, rest)
    BY DEF BothBefore
<1> QED BY <1>4, <1>9, <1>10 DEF BothClimbed, own

\* The next element gives the state at the span that the part is of.
LEMMA BothClimbedStep ==
    ASSUME NEW d, Len(d) \in Nat, NEW m \in 1..Len(d), NEW q, NEW first,
           NEW rest, Len(rest) \in Nat, NEW start, NEW w, IsClimbBoth(w, start, rest),
           NEW lo, NEW hi, TreeSpan(lo, hi, Len(d)), lo < m, m < hi,
           NEW a, NEW b, a = Part(m - 1, lo, hi), b = Other(m - 1, lo, hi),
           NEW k \in Nat, k + 1 <= Len(rest), NEW S, NEW own \in Seq(S),
           NEW skip \in Nat, Len(own) = k + skip,
           NEW x \in S, x = Sub(d, b[1], b[2]),
           BothReaches(w, k, own, skip, d, m, q, first, rest, a[1], a[2])
    PROVE  BothReaches(w, k + 1, Append(own, x), skip, d, m, q, first, rest, lo, hi)
<1>1. PICK f, s, fr, sr : /\ w[k] = Both(f, s, fr, sr)
                          /\ InSpan(f, s, a[1], a[2], Len(d))
                          /\ sr = Sub(d, a[1], a[2])
                               <=> (first = Sub(d, m - q, m)
                                      /\ \A j \in 1..k : rest[j] = own[skip + j])
                          /\ sr = Sub(d, a[1], a[2]) => fr = Sub(d, a[1], m)
    BY DEF BothReaches
<1>2. w[k + 1] = ClimbBoth(Both(f, s, fr, sr), rest[k + 1])
    <2>1. k + 1 \in 0..Len(rest) /\ k + 1 # 0 /\ (k + 1) - 1 = k
        OBVIOUS
    <2>2. w[k + 1] = ClimbBoth(w[(k + 1) - 1], rest[k + 1])
        BY <2>1 DEF IsClimbBoth
    <2> QED BY <1>1, <2>1, <2>2
<1>3. lo \in Nat /\ hi \in Nat /\ lo < hi /\ hi <= Len(d) /\ lo + 1 < hi /\ hi # lo + 1
    BY DEF TreeSpan
<1>m. Mid(lo, hi) \in Nat /\ lo < Mid(lo, hi) /\ Mid(lo, hi) < hi
    BY <1>3, MidIs
<1>4. Sub(d, lo, hi) = node(Sub(d, lo, Mid(lo, hi)), Sub(d, Mid(lo, hi), hi))
    BY <1>3, SubIs
<1>5. (\A j \in 1..(k + 1) : rest[j] = Append(own, x)[skip + j])
        <=> (\A j \in 1..k : rest[j] = own[skip + j]) /\ rest[k + 1] = x
    <2>1. /\ \A j \in 1..k : Append(own, x)[skip + j] = own[skip + j]
          /\ Append(own, x)[skip + (k + 1)] = x
        <3>1. \A j \in 1..k : skip + j \in 1..Len(own)
            OBVIOUS
        <3>2. skip + (k + 1) = Len(own) + 1
            OBVIOUS
        <3> QED BY <3>1, <3>2, Appended
    <2>2. \A j : j \in 1..(k + 1) <=> j \in 1..k \/ j = k + 1
        OBVIOUS
    <2> QED BY <2>1, <2>2
<1>6. CASE m - 1 < Mid(lo, hi)
    <2>1. a = <<lo, Mid(lo, hi)>> /\ b = <<Mid(lo, hi), hi>>
        BY <1>6 DEF Part, Other
    <2>2. s # 0 /\ ~IsRightmost(f, s) /\ InSpan(f \div 2, s \div 2, lo, hi, Len(d))
        BY <1>1, <1>3, <2>1, StepFromLeft
    <2>3. w[k + 1] = Both(f \div 2, s \div 2, fr, node(sr, rest[k + 1]))
        BY <1>2, <2>2, ClimbBothIs
    <2>4. node(sr, rest[k + 1]) = Sub(d, lo, hi)
            <=> sr = Sub(d, a[1], a[2]) /\ rest[k + 1] = x
        BY <1>4, <2>1, NodeIsInjective
    <2>5. node(sr, rest[k + 1]) = Sub(d, lo, hi)
            <=> (first = Sub(d, m - q, m)
                   /\ \A j \in 1..(k + 1) : rest[j] = Append(own, x)[skip + j])
        BY <1>1, <1>5, <2>4
    <2>6. node(sr, rest[k + 1]) = Sub(d, lo, hi) => fr = Sub(d, lo, m)
        BY <1>1, <2>1, <2>4
    <2> QED BY <2>2, <2>3, <2>5, <2>6 DEF BothReaches
<1>7. CASE ~(m - 1 < Mid(lo, hi))
    <2>1. a = <<Mid(lo, hi), hi>> /\ b = <<lo, Mid(lo, hi)>>
        BY <1>7 DEF Part, Other
    <2> DEFINE up == SkipLevels(f, s)
    <2>2. s # 0 /\ IsRightmost(f, s) /\ InSpan(up.f, up.s, lo, hi, Len(d))
        BY <1>1, <1>3, <2>1, StepFromRight
    <2>3. w[k + 1] = Both(up.f, up.s, node(rest[k + 1], fr), node(rest[k + 1], sr))
        BY <1>2, <2>2, ClimbBothIs
    <2> HIDE DEF up
    <2>4. node(rest[k + 1], sr) = Sub(d, lo, hi)
            <=> sr = Sub(d, a[1], a[2]) /\ rest[k + 1] = x
        BY <1>4, <2>1, NodeIsInjective
    <2>5. node(rest[k + 1], sr) = Sub(d, lo, hi)
            <=> (first = Sub(d, m - q, m)
                   /\ \A j \in 1..(k + 1) : rest[j] = Append(own, x)[skip + j])
        BY <1>1, <1>5, <2>4
    <2>6. Sub(d, lo, m) = node(Sub(d, lo, Mid(lo, hi)), Sub(d, Mid(lo, hi), m))
        <3>1. m \in Nat /\ lo + 1 < m /\ m <= Len(d) /\ Mid(lo, hi) < m
            BY <1>3, <1>m, <1>7
        <3>2. /\ split(hi - lo) \in Powers /\ split(hi - lo) \in Nat
              /\ hi - lo <= 2 * split(hi - lo) /\ Mid(lo, hi) = lo + split(hi - lo)
            BY <1>3, MidIs DEF Mid
        <3>3. m - lo \in Nat \ {0, 1} /\ split(hi - lo) < m - lo /\ m - lo <= 2 * split(hi - lo)
            BY <1>3, <3>1, <3>2
        <3>4. split(m - lo) = split(hi - lo)
            BY <3>2, <3>3, SplitUnique
        <3>5. Mid(lo, m) = Mid(lo, hi)
            BY <3>4 DEF Mid
        <3>6. Sub(d, lo, m) = node(Sub(d, lo, Mid(lo, m)), Sub(d, Mid(lo, m), m))
            <4>1. lo < m /\ m # lo + 1
                BY <1>3, <3>1
            <4> QED BY <1>3, <3>1, <4>1, SubIs
        <3> QED BY <3>5, <3>6
    <2>7. node(rest[k + 1], sr) = Sub(d, lo, hi) => node(rest[k + 1], fr) = Sub(d, lo, m)
        BY <1>1, <2>1, <2>4, <2>6
    <2> QED BY <2>2, <2>3, <2>5, <2>7 DEF BothReaches
<1> QED BY <1>6, <1>7

\* What holds at the part that the last old leaf is in holds at the span.
LEMMA BothClimbedParent ==
    ASSUME NEW d, Len(d) \in Nat, NEW m \in 1..Len(d), NEW q, NEW first,
           NEW rest, Len(rest) \in Nat, NEW start, NEW w, IsClimbBoth(w, start, rest),
           NEW lo, NEW hi, TreeSpan(lo, hi, Len(d)), lo < m, m < hi,
           NEW skip \in Nat, NEW a, a = Part(m - 1, lo, hi),
           BothClimbed(w, skip, d, m, q, first, rest, a[1], a[2])
    PROVE  BothClimbed(w, skip, d, m, q, first, rest, lo, hi)
<1> DEFINE b == Other(m - 1, lo, hi)
           x == Sub(d, b[1], b[2])
           part == Proof(d, m, a[1], a[2])
           k == Len(part) - skip
<1>1. lo \in Nat /\ hi \in Nat /\ lo < hi /\ hi <= Len(d) /\ lo + 1 < hi /\ hi # m
    BY DEF TreeSpan
<1>2. Mid(lo, hi) \in Nat /\ lo < Mid(lo, hi) /\ Mid(lo, hi) < hi
    BY <1>1, MidIs
<1>3. part \in Seq(Nodes(d))
    <2>1. a[1] \in Nat /\ a[2] \in Nat /\ a[1] < m /\ m <= a[2] /\ a[2] <= Len(d)
        BY <1>1, <1>2 DEF Part
    <2> QED BY <2>1, ProofInSeq
<1>4. x \in Nodes(d)
    <2>1. b[1] \in 0..Len(d) /\ b[2] \in 0..Len(d)
        BY <1>1, <1>2 DEF Other
    <2> HIDE DEF b
    <2> QED BY <2>1, NodeIs
<1>5. Proof(d, m, lo, hi) = Append(part, x)
    <2>1. ProofStep(d, m, lo, hi, a, b)
        BY <1>1, ProofIs
    <2> QED BY <1>1, <2>1 DEF ProofStep
<1>6. /\ k \in Nat /\ BothBefore(w, k, rest)
      /\ skip = 1 => part[1] = Sub(d, m - q, m)
      /\ k <= Len(rest) => BothReaches(w, k, part, skip, d, m, q, first, rest, a[1], a[2])
    BY DEF BothClimbed
<1>7. b = Other(m - 1, lo, hi) /\ x = Sub(d, b[1], b[2]) /\ k = Len(part) - skip
    OBVIOUS
<1> HIDE DEF b, x, part, k
<1>8. Len(part) = k + skip /\ Len(Append(part, x)) - skip = k + 1
    <2>1. Len(part) \in Nat /\ Len(Append(part, x)) = Len(part) + 1
        BY <1>3, <1>4, Appended
    <2> QED BY <1>6, <1>7, <2>1
<1>9. BothBefore(w, k + 1, rest)
    <2>1. ASSUME NEW i \in 0..k, i <= Len(rest), i # k
          PROVE  BothUnfinished(w[i])
        <3>1. i \in 0..(k - 1)
            BY <1>6, <2>1
        <3> QED BY <1>6, <2>1, <3>1 DEF BothBefore
    <2>2. ASSUME k <= Len(rest)
          PROVE  BothUnfinished(w[k])
        <3>1. PICK f, s, fr, sr : /\ w[k] = Both(f, s, fr, sr)
                                  /\ InSpan(f, s, a[1], a[2], Len(d))
            BY <1>6, <2>2 DEF BothReaches
        <3>2. s # 0
            <4>1. CASE m - 1 < Mid(lo, hi)
                BY <1>1, <3>1, <4>1, StepFromLeft DEF Part
            <4>2. CASE ~(m - 1 < Mid(lo, hi))
                BY <1>1, <3>1, <4>2, StepFromRight DEF Part
            <4> QED BY <4>1, <4>2
        <3> QED BY <3>1, <3>2 DEF BothUnfinished
    <2>3. (k + 1) - 1 = k
        BY <1>6
    <2> QED BY <2>1, <2>2, <2>3 DEF BothBefore
<1>10. ASSUME k + 1 <= Len(rest)
       PROVE  BothReaches(w, k + 1, Append(part, x), skip, d, m, q, first, rest, lo, hi)
    <2>1. BothReaches(w, k, part, skip, d, m, q, first, rest, a[1], a[2])
        BY <1>6, <1>10
    <2> QED BY <1>3, <1>4, <1>6, <1>7, <1>8, <1>10, <2>1, BothClimbedStep
<1>11. skip = 1 => Append(part, x)[1] = Sub(d, m - q, m)
    <2>1. ASSUME skip = 1 PROVE 1 \in 1..Len(part)
        BY <1>6, <1>8, <2>1
    <2> QED BY <1>3, <1>4, <1>6, <2>1, Appended
<1> DEFINE n == Len(Proof(d, m, lo, hi)) - skip
<1>12. n = k + 1 /\ n \in Nat
    BY <1>5, <1>6, <1>8
<1>13. BothBefore(w, n, rest) /\ (skip = 1 => Proof(d, m, lo, hi)[1] = Sub(d, m - q, m))
    BY <1>5, <1>9, <1>11, <1>12
<1>14. n <= Len(rest) => BothReaches(w, n, Proof(d, m, lo, hi), skip, d, m, q, first, rest, lo, hi)
    BY <1>5, <1>10, <1>12
<1> QED BY <1>12, <1>13, <1>14 DEF BothClimbed

\* The spans that have leaves after leaf m, and the one whose root is the first.
BothSpan(d, m, q, lo, hi) ==
    TreeSpan(lo, hi, Len(d)) /\ lo < m /\ m <= hi /\ (hi = m => lo = m - q)

\* Up to every span of the tree that has the last old leaf and a later one.
LEMMA BothClimbedSpan ==
    ASSUME NEW d, Len(d) \in Nat, NEW m \in 1..Len(d), NEW o \in Nat, NEW q \in Powers,
           o % 2 = 1, m = o * q, NEW t \in Nat, Covers(t, q, Len(d) - 1),
           NEW first, NEW rest, Len(rest) \in Nat,
           NEW skip, skip = IF IsPowerOfTwo(m) THEN 0 ELSE 1,
           NEW w, IsClimbBoth(w, Both(o - 1, t, first, first), rest),
           NEW lo, NEW hi, BothSpan(d, m, q, lo, hi)
    PROVE  BothClimbed(w, skip, d, m, q, first, rest, lo, hi)
<1> DEFINE N == Len(d)
           Good == {n \in 0..N : \A a \in 0..N, b \in 0..N :
                       BothSpan(d, m, q, a, b) /\ b - a <= n
                          => BothClimbed(w, skip, d, m, q, first, rest, a, b)}
<1>0. skip \in Nat
    OBVIOUS
<1>1. 0 \in Good
    <2>1. ASSUME NEW a \in 0..N, NEW b \in 0..N, BothSpan(d, m, q, a, b), b - a <= 0 PROVE FALSE
        BY <2>1 DEF BothSpan
    <2> QED BY <2>1
<1>2. ASSUME NEW n \in 0..(N - 1), n \in Good
      PROVE  n + 1 \in Good
    <2> SUFFICES ASSUME NEW a \in 0..N, NEW b \in 0..N, BothSpan(d, m, q, a, b), b - a <= n + 1
                 PROVE  BothClimbed(w, skip, d, m, q, first, rest, a, b)
        OBVIOUS
    <2>0. TreeSpan(a, b, N) /\ a < m /\ m <= b /\ (b = m => a = m - q)
        BY DEF BothSpan
    <2>1. CASE b = m
        BY <2>0, <2>1, BothClimbedFirst
    <2>2. CASE b # m
        <3> DEFINE c == Part(m - 1, a, b)
        <3>1. a \in Nat /\ b \in Nat /\ a + 1 < b /\ b <= N /\ m < b
            BY <2>0, <2>2
        <3>2. Mid(a, b) \in Nat /\ a < Mid(a, b) /\ Mid(a, b) < b
            BY <3>1, MidIs
        <3>3. TreeSpan(a, Mid(a, b), N) /\ TreeSpan(Mid(a, b), b, N)
            BY <2>0, <3>1, PartsAreSpans
        <3>4. /\ c[1] \in 0..N /\ c[2] \in 0..N /\ TreeSpan(c[1], c[2], N)
              /\ c[1] < m /\ m <= c[2] /\ c[2] - c[1] <= n
            BY <2>0, <3>1, <3>2, <3>3 DEF Part
        <3>5. ASSUME c[2] = m PROVE c[1] = m - q
            <4>1. c = <<a, Mid(a, b)>> /\ Mid(a, b) = m
                BY <3>1, <3>5 DEF Part
            <4> DEFINE k == split(b - a)
            <4>k. k = split(b - a)
                OBVIOUS
            <4> HIDE DEF k
            <4>2. /\ a \in Nat /\ b \in Nat /\ k \in Powers /\ k \in Nat \ {0}
                  /\ Mid(a, b) = a + k /\ \E g \in Nat : a = g * (2 * k)
                <5>1. N \in Nat /\ a + 1 < b /\ TreeSpan(a, b, N)
                    BY <2>0, <3>1
                <5> HIDE DEF N, Good, c
                <5> QED BY <4>k, <5>1, ParentIs, SMTT(30)
            <4>3. PICK g \in Nat : a = g * (2 * k)
                BY <4>2
            <4>4. a + k = (2 * g + 1) * k /\ 2 * g + 1 \in Nat /\ (2 * g + 1) % 2 = 1
                BY <4>2, <4>3, Times
            <4>5. o * q = (2 * g + 1) * k
                BY <4>1, <4>2, <4>4
            <4>6. q = k
                <5> DEFINE r == 2 * g + 1
                <5>1. r \in Nat /\ r % 2 = 1 /\ o * q = r * k
                    BY <4>4, <4>5
                <5> HIDE DEF r, Good, N
                <5> QED BY <4>2, <5>1, OddPartUnique
            <4> QED BY <4>1, <4>2, <4>6
        <3>6. c = Part(m - 1, a, b)
            OBVIOUS
        <3> HIDE DEF c
        <3>7. BothSpan(d, m, q, c[1], c[2])
            BY <3>4, <3>5 DEF BothSpan
        <3>8. BothClimbed(w, skip, d, m, q, first, rest, c[1], c[2])
            BY <1>2, <3>4, <3>7
        <3> QED BY <1>0, <2>0, <3>1, <3>6, <3>8, BothClimbedParent
    <2> QED BY <2>1, <2>2
<1>3. 0..N \subseteq Good
    <2> HIDE DEF Good
    <2> QED BY <1>1, <1>2, NatSetInduction
<1>4. lo \in 0..N /\ hi \in 0..N /\ hi - lo <= N
    BY DEF BothSpan, TreeSpan
<1>5. N \in Good
    <2> HIDE DEF Good
    <2> QED BY <1>3
<1> QED BY <1>4, <1>5

\* What the loop of verify_consistency ends with, from the root of the old tree's
\* last complete subtree.
Accepted(first, rest, d, m, first_root) ==
    LET level == FirstLevel(m - 1, Len(d) - 1)
        end == ClimbBothAll([f |-> level[1], s |-> level[2], ok |-> TRUE, fr |-> first, sr |-> first],
                            rest)
    IN end.ok /\ end.fr = first_root /\ end.sr = root(d) /\ end.s = 0

\* It accepts exactly the nodes of the proof, for the root of the old leaves.
AcceptsOnly(own, first, rest, skip, d, m, q, first_root) ==
    /\ own \in Seq(Nodes(d)) /\ Len(own) - skip \in Nat
    /\ skip = 1 => own[1] = Sub(d, m - q, m)
    /\ Accepted(first, rest, d, m, first_root)
         <=> /\ first_root = Sub(d, 0, m)
             /\ first = Sub(d, m - q, m)
             /\ Len(rest) = Len(own) - skip
             /\ \A j \in 1..Len(rest) : rest[j] = own[skip + j]

\* The loop accepts exactly the elements of the proof.
LEMMA AcceptedIs ==
    ASSUME NEW T, NEW d \in Seq(T), NEW m \in 1..Len(d), m < Len(d),
           NEW o \in Nat, NEW q \in Powers, o % 2 = 1, m = o * q,
           NEW first, NEW S, NEW rest \in Seq(S), NEW first_root,
           NEW skip, skip = IF IsPowerOfTwo(m) THEN 0 ELSE 1,
           NEW own, own = consistency_proof(d, m)
    PROVE  AcceptsOnly(own, first, rest, skip, d, m, q, first_root)
<1> DEFINE n == Len(d)
           k == Len(own) - skip
<1>0. Len(d) \in Nat \ {0} /\ Len(rest) \in Nat /\ d # <<>> /\ n - 1 \in Nat /\ m \in Nat \ {0}
    OBVIOUS
<1>1. root(d) = Sub(d, 0, n)
    BY <1>0, RootIs
<1>2. own = Proof(d, m, 0, n)
    BY <1>0, ProofFunction
<1>3. own \in Seq(Nodes(d))
    BY <1>0, <1>2, ProofInSeq
<1>4. q \in Nat \ {0} /\ q <= m /\ o # 0
    BY <1>0, OddPartOfPower
<1>5. PICK t \in Nat : Covers(t, q, n - 1)
    BY <1>0, <1>4, CoversExists
<1>6. FirstLevel(m - 1, n - 1) = <<o - 1, t>>
    <2> DEFINE e == n - 1
    <2>1. e \in Nat /\ Covers(t, q, e)
        BY <1>0, <1>5
    <2>2. m - 1 = o * q - 1
        OBVIOUS
    <2> HIDE DEF e, n
    <2>3. FirstLevel(o * q - 1, e) = <<o - 1, t>>
        BY <2>1, UpIs
    <2> QED BY <2>2, <2>3 DEF e
<1> DEFINE start == Both(o - 1, t, first, first)
<1>7. PICK w : IsClimbBoth(w, start, rest) /\ ClimbBothAll(start, rest) = w[Len(rest)]
    <2> HIDE DEF start
    <2> QED BY <1>0, ClimbBothAllIs
<1>8. BothSpan(d, m, q, 0, n)
    <2>1. TreeSpan(0, n, n)
        BY <1>0, WholeIsSpan
    <2> QED BY <1>0, <2>1 DEF BothSpan
<1>9. BothClimbed(w, skip, d, m, q, first, rest, 0, n)
    BY <1>0, <1>5, <1>7, <1>8, BothClimbedSpan
<1>10. /\ k \in Nat /\ BothBefore(w, k, rest)
       /\ skip = 1 => own[1] = Sub(d, m - q, m)
       /\ k <= Len(rest) => BothReaches(w, k, own, skip, d, m, q, first, rest, 0, n)
    BY <1>2, <1>9 DEF BothClimbed
<1> DEFINE end == w[Len(rest)]
<1>11. Accepted(first, rest, d, m, first_root)
         <=> end.ok /\ end.fr = first_root /\ end.sr = Sub(d, 0, n) /\ end.s = 0
    <2>1. [f |-> <<o - 1, t>>[1], s |-> <<o - 1, t>>[2], ok |-> TRUE, fr |-> first, sr |-> first]
             = start
        BY DEF Both
    <2> HIDE DEF start
    <2> QED BY <1>1, <1>6, <1>7, <2>1 DEF Accepted
<1> HIDE DEF start, n, k
<1>14.  Accepted(first, rest, d, m, first_root)
          <=> /\ first_root = Sub(d, 0, m)
              /\ first = Sub(d, m - q, m)
              /\ Len(rest) = Len(own) - skip
              /\ \A j \in 1..Len(rest) : rest[j] = own[skip + j]
    <2>1. CASE Len(rest) < k
        <3>1. Len(rest) \in 0..(k - 1)
            BY <1>0, <1>10, <2>1
        <3>2. BothUnfinished(w[Len(rest)])
            BY <1>0, <1>10, <3>1 DEF BothBefore
        <3>3. end.s # 0
            BY <3>2 DEF BothUnfinished, Both
        <3>4. Len(rest) # k
            BY <1>0, <1>10, <2>1
        <3> QED BY <1>3, <1>10, <1>11, <3>3, <3>4 DEF k
    <2>2. CASE k <= Len(rest)
        <3>1. PICK f, s, fr, sr :
                 /\ w[k] = Both(f, s, fr, sr)
                 /\ InSpan(f, s, 0, n, n)
                 /\ sr = Sub(d, 0, n)
                      <=> (first = Sub(d, m - q, m) /\ \A j \in 1..k : rest[j] = own[skip + j])
                 /\ sr = Sub(d, 0, n) => fr = Sub(d, 0, m)
            BY <1>10, <2>2 DEF BothReaches, n
        <3>2. f = 0 /\ s = 0
            BY <1>0, <3>1, TopIs DEF n
        <3>3. CASE k < Len(rest)
            <4>1. ~end.ok
                BY <1>0, <1>7, <1>10, <3>1, <3>2, <3>3, BothPastTheTop
            <4>2. Len(rest) # k
                BY <1>0, <1>10, <3>3
            <4> QED BY <1>3, <1>10, <1>11, <4>1, <4>2 DEF k
        <3>4. CASE k = Len(rest)
            <4>1. end.ok /\ end.s = 0 /\ end.fr = fr /\ end.sr = sr
                BY <3>1, <3>2, <3>4 DEF Both
            <4>2. Accepted(first, rest, d, m, first_root)
                    <=> fr = first_root /\ sr = Sub(d, 0, n)
                <5> HIDE DEF end
                <5> QED BY <1>11, <4>1
            <4>3. Accepted(first, rest, d, m, first_root)
                    <=> /\ first_root = Sub(d, 0, m)
                        /\ first = Sub(d, m - q, m)
                        /\ \A j \in 1..k : rest[j] = own[skip + j]
                BY <3>1, <4>2
            <4> QED BY <1>3, <1>10, <3>4, <4>3 DEF k
        <3> QED BY <1>0, <1>10, <2>2, <3>3, <3>4
    <2> QED BY <1>0, <1>10, <2>1, <2>2
<1> QED BY <1>3, <1>10, <1>14 DEF AcceptsOnly, k

\* A sequence with one more element in front.
LEMMA Prepended ==
    ASSUME NEW S, NEW p \in Seq(S), NEW x
    PROVE  <<x>> \o p # <<>> /\ Head(<<x>> \o p) = x /\ Tail(<<x>> \o p) = p
<1>1. p \in Seq(S \cup {x}) /\ <<x>> \in Seq(S \cup {x})
    OBVIOUS
<1> DEFINE e == <<x>> \o p
<1>2. e \in Seq(S \cup {x}) /\ Len(e) = 1 + Len(p) /\ e[1] = x
    BY <1>1
<1>3. \A j \in 1..Len(p) : e[1 + j] = p[j]
    BY <1>1
<1> HIDE DEF e
<1>4. e # <<>> /\ Head(e) = x
    BY <1>2
<1>5. Tail(e) \in Seq(S \cup {x}) /\ Len(Tail(e)) = Len(p)
    BY <1>2, <1>4
<1>6. \A j \in 1..Len(p) : Tail(e)[j] = p[j]
    <2> SUFFICES ASSUME NEW j \in 1..Len(p) PROVE Tail(e)[j] = p[j]
        OBVIOUS
    <2>1. j \in 1..Len(Tail(e)) /\ j + 1 = 1 + j
        BY <1>5
    <2>2. Tail(e)[j] = e[j + 1]
        BY <1>2, <1>4, <2>1
    <2> QED BY <1>3, <2>1, <2>2
<1>7. Tail(e) = p
    BY <1>5, <1>6, SameSeq
<1> QED BY <1>4, <1>7 DEF e

\* A sequence is its first element and the others.
LEMMA HeadAndTail ==
    ASSUME NEW S, NEW p \in Seq(S), p # <<>>, NEW T, NEW q \in Seq(T), q # <<>>
    PROVE  /\ Tail(p) \in Seq(S)
           /\ p = q <=> /\ Head(p) = q[1] /\ Len(Tail(p)) = Len(q) - 1
                        /\ \A j \in 1..Len(Tail(p)) : Tail(p)[j] = q[1 + j]
<1>1. Len(p) \in Nat \ {0} /\ Len(q) \in Nat \ {0} /\ Head(p) = p[1]
    OBVIOUS
<1>2. Tail(p) \in Seq(S) /\ Len(Tail(p)) = Len(p) - 1
    BY <1>1
<1>3. \A j \in 1..Len(Tail(p)) : Tail(p)[j] = p[1 + j]
    BY <1>1, <1>2
<1>4. ASSUME Head(p) = q[1], Len(Tail(p)) = Len(q) - 1,
             \A j \in 1..Len(Tail(p)) : Tail(p)[j] = q[1 + j]
      PROVE  p = q
    <2>1. Len(p) = Len(q)
        BY <1>1, <1>2, <1>4
    <2>2. ASSUME NEW j \in 1..Len(q) PROVE p[j] = q[j]
        <3>1. CASE j = 1
            BY <1>1, <1>4, <3>1
        <3>2. CASE j # 1
            <4>1. j - 1 \in 1..Len(Tail(p)) /\ 1 + (j - 1) = j
                BY <1>1, <1>2, <2>1, <3>2
            <4> QED BY <1>3, <1>4, <4>1
        <3> QED BY <3>1, <3>2
    <2> QED BY <2>1, <2>2, SameSeq
<1> QED BY <1>1, <1>2, <1>3, <1>4

\* What verify_consistency does with two trees of different sizes.
LEMMA VerifyIs ==
    ASSUME NEW d, NEW m, NEW first_root, NEW path, 0 < m, m <= Len(d), m # Len(d),
           NEW e, e = IF IsPowerOfTwo(m) THEN <<first_root>> \o path ELSE path
    PROVE  verify_consistency(m, Len(d), first_root, root(d), path)
             <=> e # <<>> /\ Accepted(Head(e), Tail(e), d, m, first_root)
BY DEF verify_consistency, Accepted, GivesTheOldRoot

\* A consistency proof verifies, against the root of a tree and a number of its
\* leaves, for the root of the tree of those leaves and for no other; and no other
\* proof does, whatever its length (log.rs, consistency_proof, verify_consistency).
THEOREM ConsistencyProofsBindTheTree ==
    ASSUME NEW T, NEW d \in Seq(T), NEW m \in 1..Len(d), NEW first_root,
           NEW S, NEW path \in Seq(S)
    PROVE  verify_consistency(m, Len(d), first_root, root(d), path)
              <=> first_root = Sub(d, 0, m) /\ path = consistency_proof(d, m)
<1> DEFINE own == consistency_proof(d, m)
<1>0. Len(d) \in Nat /\ Len(path) \in Nat /\ d # <<>> /\ m \in Nat \ {0}
    OBVIOUS
<1>1. root(d) = Sub(d, 0, Len(d))
    BY <1>0, RootIs
<1>2. CASE m = Len(d)
    <2>1. ProofStep(d, m, 0, m, Part(m - 1, 0, m), Other(m - 1, 0, m))
        BY <1>0, <1>2, ProofIs
    <2>2. own = <<>>
        BY <1>0, <1>2, <2>1, ProofFunction DEF ProofStep
    <2> HIDE DEF own
    <2>3. verify_consistency(m, Len(d), first_root, root(d), path)
            <=> path = <<>> /\ first_root = root(d)
        BY <1>0, <1>2 DEF verify_consistency
    <2> QED BY <1>1, <1>2, <2>2, <2>3 DEF own
<1>3. CASE m # Len(d)
    <2>0. m < Len(d)
        BY <1>0, <1>3
    <2>1. PICK o \in Nat, q \in Powers : o % 2 = 1 /\ m = o * q
        BY <1>0, OddPart
    <2>2. /\ q \in Nat \ {0} /\ q <= m
          /\ IsPowerOfTwo(m) <=> q = m
        BY <1>0, <2>1, OddPartOfPower
    <2>o. own = consistency_proof(d, m)
        OBVIOUS
    <2> HIDE DEF own
    <2>3. CASE IsPowerOfTwo(m)
        <3>1. /\ own \in Seq(Nodes(d)) /\ Len(own) - 0 \in Nat
              /\ Accepted(first_root, path, d, m, first_root)
                   <=> /\ first_root = Sub(d, 0, m)
                       /\ first_root = Sub(d, m - q, m)
                       /\ Len(path) = Len(own) - 0
                       /\ \A j \in 1..Len(path) : path[j] = own[0 + j]
            <4>1. 0 = IF IsPowerOfTwo(m) THEN 0 ELSE 1
                BY <2>3
            <4>2. AcceptsOnly(own, first_root, path, 0, d, m, q, first_root)
                BY <2>0, <2>1, <2>o, <4>1, AcceptedIs
            <4> QED BY <4>2 DEF AcceptsOnly
        <3>2. /\ <<first_root>> \o path # <<>>
              /\ Head(<<first_root>> \o path) = first_root
              /\ Tail(<<first_root>> \o path) = path
            BY Prepended
        <3>3. verify_consistency(m, Len(d), first_root, root(d), path)
                <=> Accepted(first_root, path, d, m, first_root)
            <4> DEFINE e == <<first_root>> \o path
            <4>1. e = IF IsPowerOfTwo(m) THEN <<first_root>> \o path ELSE path
                BY <2>3
            <4>2. e # <<>> /\ Head(e) = first_root /\ Tail(e) = path
                BY <3>2
            <4>3. 0 < m /\ m <= Len(d) /\ m # Len(d)
                BY <1>0, <2>0
            <4> HIDE DEF e
            <4>4. verify_consistency(m, Len(d), first_root, root(d), path)
                    <=> e # <<>> /\ Accepted(Head(e), Tail(e), d, m, first_root)
                BY <4>1, <4>3, VerifyIs
            <4> QED BY <4>2, <4>4
        <3>4. m - q = 0
            BY <1>0, <2>2, <2>3
        <3>5. path = own <=> Len(path) = Len(own) /\ \A j \in 1..Len(path) : path[j] = own[j]
            BY <3>1, SameSeq
        <3>6. \A j \in 1..Len(path) : 0 + j = j
            OBVIOUS
        <3>7. Len(own) - 0 = Len(own)
            BY <3>1
        <3> QED BY <2>o, <3>1, <3>3, <3>4, <3>5, <3>6, <3>7
    <2>4. CASE ~IsPowerOfTwo(m)
        <3>0. 1 = IF IsPowerOfTwo(m) THEN 0 ELSE 1
            BY <2>4
        <3>1. CASE path = <<>>
            <4>1. ~verify_consistency(m, Len(d), first_root, root(d), path)
                BY <1>0, <2>0, <2>4, <3>1 DEF verify_consistency
            <4>2. own \in Seq(Nodes(d)) /\ Len(own) - 1 \in Nat
                BY <2>0, <2>1, <2>o, <3>0, AcceptedIs DEF AcceptsOnly
            <4>3. own # <<>>
                BY <4>2
            <4> QED BY <2>o, <3>1, <4>1, <4>3
        <3>2. CASE path # <<>>
            <4>0. Tail(path) \in Seq(S)
                BY <3>2
            <4> DEFINE head == Head(path)
                       rest == Tail(path)
                       skip == 1
            <4>s. skip = IF IsPowerOfTwo(m) THEN 0 ELSE 1
                BY <3>0
            <4>d. skip = 1 /\ rest \in Seq(S)
                BY <4>0
            <4> HIDE DEF head, rest, skip
            <4>r. /\ own \in Seq(Nodes(d)) /\ Len(own) - skip \in Nat
                  /\ skip = 1 => own[1] = Sub(d, m - q, m)
                  /\ Accepted(head, rest, d, m, first_root)
                       <=> /\ first_root = Sub(d, 0, m)
                           /\ head = Sub(d, m - q, m)
                           /\ Len(rest) = Len(own) - skip
                           /\ \A j \in 1..Len(rest) : rest[j] = own[skip + j]
                <5>1. o % 2 = 1 /\ m = o * q /\ rest \in Seq(S)
                    BY <2>1, <4>d
                <5>2. AcceptsOnly(own, head, rest, skip, d, m, q, first_root)
                    BY <2>0, <2>o, <4>s, <5>1, AcceptedIs
                <5> QED BY <5>2 DEF AcceptsOnly
            <4>1. /\ own \in Seq(Nodes(d)) /\ Len(own) - 1 \in Nat
                  /\ own[1] = Sub(d, m - q, m)
                  /\ Accepted(Head(path), Tail(path), d, m, first_root)
                       <=> /\ first_root = Sub(d, 0, m)
                           /\ Head(path) = Sub(d, m - q, m)
                           /\ Len(Tail(path)) = Len(own) - 1
                           /\ \A j \in 1..Len(Tail(path)) : Tail(path)[j] = own[1 + j]
                BY <4>d, <4>r DEF head, rest
            <4>2. own # <<>>
                BY <4>1
            <4>3. path = own
                    <=> /\ Head(path) = own[1] /\ Len(Tail(path)) = Len(own) - 1
                        /\ \A j \in 1..Len(Tail(path)) : Tail(path)[j] = own[1 + j]
                BY <3>2, <4>1, <4>2, HeadAndTail
            <4>4. verify_consistency(m, Len(d), first_root, root(d), path)
                    <=> Accepted(Head(path), Tail(path), d, m, first_root)
                <5>1. path = IF IsPowerOfTwo(m) THEN <<first_root>> \o path ELSE path
                    BY <2>4
                <5>2. 0 < m /\ m <= Len(d) /\ m # Len(d)
                    BY <1>0, <2>0
                <5> QED BY <3>2, <5>1, <5>2, VerifyIs
            <4> QED BY <2>o, <4>1, <4>3, <4>4
        <3> QED BY <3>1, <3>2
    <2> QED BY <2>3, <2>4
<1> QED BY <1>2, <1>3

\* ... so the tree that a root with a proof stands for is a prefix of the later one:
\* a log that has rewritten a leaf it once signed has no proof for its new head.
THEOREM OnlyPrefixesVerify ==
    ASSUME NEW T, NEW old \in Seq(T), NEW new \in Seq(T), old # <<>>, Len(old) <= Len(new),
           NEW S, NEW path \in Seq(S)
    PROVE  verify_consistency(Len(old), Len(new), root(old), root(new), path)
              <=> IsPrefix(old, new) /\ path = consistency_proof(new, Len(old))
<1> DEFINE m == Len(old)
<1>1. m \in Nat \ {0} /\ m \in 1..Len(new) /\ Len(new) \in Nat
    OBVIOUS
<1>2. root(old) = Sub(old, 0, m)
    BY RootIs
<1>3. Sub(old, 0, m) = Sub(new, 0, m) <=> SameLeaves(old, new, 0, m)
    BY <1>1, SameNode
<1>4. SameLeaves(old, new, 0, m) <=> IsPrefix(old, new)
    <2>1. SubSeq(old, 1, Len(old)) = old
        OBVIOUS
    <2>2. SubSeq(new, 1, m) \in Seq(T) /\ Len(SubSeq(new, 1, m)) = m
        BY <1>1
    <2>3. \A i \in 1..m : SubSeq(new, 1, m)[i] = new[i]
        BY <1>1
    <2>4. old = SubSeq(new, 1, m) <=> \A i \in 1..m : old[i] = SubSeq(new, 1, m)[i]
        BY <1>1, <2>2, SameSeq
    <2>5. 0 + 1 = 1
        OBVIOUS
    <2> QED BY <1>1, <2>1, <2>3, <2>4, <2>5 DEF SameLeaves, IsPrefix
<1> HIDE DEF m
<1>5. verify_consistency(m, Len(new), root(old), root(new), path)
        <=> root(old) = Sub(new, 0, m) /\ path = consistency_proof(new, m)
    BY <1>1, ConsistencyProofsBindTheTree
<1> QED BY <1>2, <1>3, <1>4, <1>5 DEF m

-----------------------------------------------------------------------------
(* The trees that the statements are about. *)

\* The leaves of these trees.
Hashes == {leaf_hash(i) : i \in Nat}

\* A tree of n leaves that are each genuine or replaced.
IsTreeOf(t, n) ==
    /\ t \in Seq(Hashes) /\ Len(t) = n
    /\ \A i \in 1..n : t[i] \in {leaf_hash(i), leaf_hash(0)}

\* The genuine tree is one.
LEMMA GenuineIs ==
    ASSUME NEW n \in Nat
    PROVE  IsTreeOf(Genuine(n), n) /\ \A i \in 1..n : Genuine(n)[i] = leaf_hash(i)
<1>1. \A i \in 1..n : leaf_hash(i) \in Hashes
    BY DEF Hashes
<1>2. Genuine(n) \in [1..n -> Hashes]
    BY <1>1 DEF Genuine
<1>3. Genuine(n) \in Seq(Hashes) /\ Len(Genuine(n)) = n
    BY <1>2
<1>4. \A i \in 1..n : Genuine(n)[i] = leaf_hash(i)
    BY DEF Genuine
<1> QED BY <1>3, <1>4 DEF IsTreeOf

\* The trees of the statements are such trees.
LEMMA TreesAre ==
    ASSUME NEW n \in Nat, NEW t \in Trees(n)
    PROVE  IsTreeOf(t, n)
<1>0. IsTreeOf(Genuine(n), n)
    BY GenuineIs
<1>1. CASE t = Genuine(n)
    BY <1>0, <1>1
<1>2. CASE t # Genuine(n)
    <2>1. PICK j \in 1..n : t = [Genuine(n) EXCEPT ![j] = leaf_hash(0)]
        BY <1>2 DEF Trees, Tampered
    <2> DEFINE g == Genuine(n)
    <2>2. g \in Seq(Hashes) /\ Len(g) = n /\ \A i \in 1..n : g[i] \in {leaf_hash(i), leaf_hash(0)}
        BY <1>0 DEF IsTreeOf
    <2>3. leaf_hash(0) \in Hashes
        BY DEF Hashes
    <2>4. t = [g EXCEPT ![j] = leaf_hash(0)]
        BY <2>1
    <2> HIDE DEF g
    <2>5. t \in Seq(Hashes) /\ Len(t) = n
        BY <2>2, <2>3, <2>4
    <2>6. \A i \in 1..n : t[i] = IF i = j THEN leaf_hash(0) ELSE g[i]
        BY <2>2, <2>4
    <2> QED BY <2>2, <2>5, <2>6 DEF IsTreeOf
<1> QED BY <1>1, <1>2

\* The paths that the log hands out verify, at every size (log.rs).
THEOREM EveryGenuinePathVerifies ==
    ASSUME NEW bound \in Nat
    PROVE  GenuinePathsVerify(bound)
<1> SUFFICES ASSUME NEW n \in 1..bound, NEW m \in 0..(n - 1)
             PROVE  verify_inclusion(Genuine(n)[m + 1], m, n, inclusion_proof(Genuine(n), m),
                                     root(Genuine(n)))
    BY DEF GenuinePathsVerify
<1> DEFINE d == Genuine(n)
<1>1. d \in Seq(Hashes) /\ Len(d) = n
    BY GenuineIs DEF IsTreeOf
<1> HIDE DEF d
<1>2. m \in Nat /\ m < Len(d) /\ Len(d) \in Nat /\ 0 < Len(d) /\ n \in Nat
    BY <1>1
<1>3. inclusion_proof(d, m) \in Seq(Nodes(d))
    <2>1. inclusion_proof(d, m) = Path(d, m, 0, Len(d))
        BY <1>2, PathFunction
    <2>2. Path(d, m, 0, Len(d)) \in Seq(Nodes(d))
        BY <1>2, PathInSeq
    <2> QED BY <2>1, <2>2
<1>4. verify_inclusion(d[m + 1], m, Len(d), inclusion_proof(d, m), root(d))
    BY <1>1, <1>2, <1>3, AuditPathsBindTheLeaf
<1> QED BY <1>1, <1>4 DEF d

\* A consistency proof of a tree verifies against the root of an earlier tree exactly
\* if that is a prefix of it, at every two sizes (log.rs).
THEOREM ConsistencyMeansPrefix ==
    ASSUME NEW bound \in Nat
    PROVE  ConsistencyIsPrefix(bound)
<1> SUFFICES ASSUME NEW n \in 1..bound, NEW m \in 1..n, NEW old \in Trees(m), NEW new \in Trees(n)
             PROVE  verify_consistency(m, n, root(old), root(new), consistency_proof(new, m))
                        <=> IsPrefix(old, new)
    BY DEF ConsistencyIsPrefix
<1>1. m \in Nat \ {0} /\ n \in Nat \ {0} /\ m <= n
    OBVIOUS
<1>2. IsTreeOf(old, m) /\ IsTreeOf(new, n)
    BY <1>1, TreesAre
<1>3. old \in Seq(Hashes) /\ new \in Seq(Hashes) /\ Len(old) = m /\ Len(new) = n /\ old # <<>>
    BY <1>1, <1>2 DEF IsTreeOf
<1>4. consistency_proof(new, m) \in Seq(Nodes(new))
    <2>1. m \in 1..Len(new) /\ Len(new) \in Nat /\ 0 \in Nat /\ 0 < m /\ m <= Len(new)
        BY <1>1, <1>3
    <2>2. consistency_proof(new, m) = Proof(new, m, 0, Len(new))
        BY <2>1, ProofFunction
    <2>3. Proof(new, m, 0, Len(new)) \in Seq(Nodes(new))
        BY <2>1, ProofInSeq
    <2> QED BY <2>2, <2>3
<1>5. verify_consistency(Len(old), Len(new), root(old), root(new), consistency_proof(new, m))
        <=> IsPrefix(old, new) /\ consistency_proof(new, m) = consistency_proof(new, Len(old))
    BY <1>1, <1>3, <1>4, OnlyPrefixesVerify
<1> QED BY <1>3, <1>5

\* A node says which leaves it spans, as one of the trees has each leaf only once.
SaysItsSpan(d, t, x, y) ==
    \A a \in 0..Len(t), b \in 0..Len(t) :
        a < b /\ Sub(d, x, y) = Sub(t, a, b) => x = a /\ y = b

\* So it is at every size.
LEMMA NodesSayTheirSpan ==
    ASSUME NEW n \in Nat, NEW size \in Nat, NEW d, d = Genuine(n), NEW t, IsTreeOf(t, size),
           NEW lo \in 0..n, NEW hi \in 0..n, lo < hi
    PROVE  SaysItsSpan(d, t, lo, hi)
<1> DEFINE Good == {k \in 0..n : \A x \in 0..n, y \in 0..n :
                        x < y /\ y - x <= k => SaysItsSpan(d, t, x, y)}
<1>0. Len(d) = n /\ Len(t) = size
    BY GenuineIs DEF IsTreeOf
<1>l. ASSUME NEW i, NEW a, NEW b PROVE leaf_hash(i) # node(a, b)
    <2>1. "leaf" \in DOMAIN leaf_hash(i) /\ "leaf" \notin DOMAIN node(a, b)
        BY DEF leaf_hash, node
    <2> QED BY <2>1
<1>i. ASSUME NEW i, NEW j, leaf_hash(i) = leaf_hash(j) PROVE i = j
    <2>1. leaf_hash(i).leaf = i /\ leaf_hash(j).leaf = j
        BY DEF leaf_hash
    <2> QED BY <1>i, <2>1
<1>1. 0 \in Good
    OBVIOUS
<1>2. ASSUME NEW k \in 0..(n - 1), k \in Good
      PROVE  k + 1 \in Good
    <2> SUFFICES ASSUME NEW x \in 0..n, NEW y \in 0..n, x < y, y - x <= k + 1,
                        NEW a \in 0..size, NEW b \in 0..size, a < b,
                        Sub(d, x, y) = Sub(t, a, b)
                 PROVE  x = a /\ y = b
        BY <1>0 DEF SaysItsSpan
    <2>1. Sub(d, x, y) = IF y = x + 1 THEN d[y]
                         ELSE node(Sub(d, x, Mid(x, y)), Sub(d, Mid(x, y), y))
        BY <1>0, SubIs
    <2>2. Sub(t, a, b) = IF b = a + 1 THEN t[b]
                         ELSE node(Sub(t, a, Mid(a, b)), Sub(t, Mid(a, b), b))
        BY <1>0, SubIs
    <2>3. d[y] = leaf_hash(y) /\ t[b] \in {leaf_hash(b), leaf_hash(0)}
        <3>1. y \in 1..n /\ b \in 1..size
            OBVIOUS
        <3> QED BY <3>1, GenuineIs DEF IsTreeOf
    <2>4. CASE y = x + 1 /\ b = a + 1
        <3>1. y = b \/ y = 0
            BY <1>i, <2>1, <2>2, <2>3, <2>4
        <3> QED BY <2>4, <3>1
    <2>5. CASE y = x + 1 /\ b # a + 1
        BY <1>l, <2>1, <2>2, <2>3, <2>5
    <2>6. CASE y # x + 1 /\ b = a + 1
        BY <1>l, <2>1, <2>2, <2>3, <2>6
    <2>7. CASE y # x + 1 /\ b # a + 1
        <3> DEFINE v == Mid(x, y)
                   c == Mid(a, b)
        <3>1. v \in 0..n /\ x < v /\ v < y
            <4>1. x + 1 < y
                BY <2>7
            <4> QED BY <4>1, MidIs
        <3>2. c \in 0..size /\ a < c /\ c < b
            <4>1. a + 1 < b
                BY <2>7
            <4> QED BY <4>1, MidIs
        <3>3. Sub(d, x, v) = Sub(t, a, c) /\ Sub(d, v, y) = Sub(t, c, b)
            <4>1. node(Sub(d, x, v), Sub(d, v, y)) = node(Sub(t, a, c), Sub(t, c, b))
                BY <2>1, <2>2, <2>7
            <4> HIDE DEF v, c
            <4> QED BY <4>1, NodeIsInjective
        <3> HIDE DEF v, c
        <3>4. SaysItsSpan(d, t, x, v) /\ SaysItsSpan(d, t, v, y)
            <4>1. v - x <= k /\ y - v <= k
                BY <3>1
            <4> QED BY <1>2, <3>1, <4>1
        <3> QED BY <1>0, <3>2, <3>3, <3>4 DEF SaysItsSpan
    <2> QED BY <2>4, <2>5, <2>6, <2>7
<1>3. 0..n \subseteq Good
    <2> HIDE DEF Good
    <2> QED BY <1>1, <1>2, NatSetInduction
<1>4. n \in Good
    <2> HIDE DEF Good
    <2> QED BY <1>3
<1>5. hi - lo <= n
    OBVIOUS
<1> QED BY <1>4, <1>5

\* Sequences with one more element are equal only if they were and the elements are.
LEMMA SameAppended ==
    ASSUME NEW S, NEW p \in Seq(S), NEW x \in S, NEW T, NEW q \in Seq(T), NEW y \in T,
           Append(p, x) = Append(q, y)
    PROVE  p = q /\ x = y
<1>1. /\ Len(p) \in Nat /\ Len(Append(p, x)) = Len(p) + 1
      /\ \A j \in 1..Len(p) : Append(p, x)[j] = p[j]
      /\ Append(p, x)[Len(p) + 1] = x
    BY Appended
<1>2. /\ Len(q) \in Nat /\ Len(Append(q, y)) = Len(q) + 1
      /\ \A j \in 1..Len(q) : Append(q, y)[j] = q[j]
      /\ Append(q, y)[Len(q) + 1] = y
    BY Appended
<1>3. Len(p) = Len(q)
    BY <1>1, <1>2
<1>4. x = y /\ \A j \in 1..Len(q) : p[j] = q[j]
    BY <1>1, <1>2, <1>3
<1> QED BY <1>3, <1>4, SameSeq

\* The paths of two leaves of such trees differ, unless the leaves have the same place.
TellsThePlace(d, t, m, p, lo, hi) ==
    \A b \in 0..Len(t) :
        p < b /\ Path(d, m, lo, hi) = Path(t, p, lo, b) => m = p

\* So it is for every two leaves.
LEMMA PathsTellThePlace ==
    ASSUME NEW n \in Nat, NEW size \in Nat, NEW d, d = Genuine(n), NEW t, IsTreeOf(t, size),
           NEW m \in Nat, NEW p \in Nat,
           NEW lo \in 0..n, NEW hi \in 0..n, lo <= m, m < hi, lo <= p
    PROVE  TellsThePlace(d, t, m, p, lo, hi)
<1> DEFINE Good == {k \in 0..n : \A x \in 0..n, y \in 0..n :
                        x <= m /\ m < y /\ x <= p /\ y - x <= k => TellsThePlace(d, t, m, p, x, y)}
<1>0. Len(d) = n /\ Len(t) = size
    BY GenuineIs DEF IsTreeOf
<1>1. 0 \in Good
    OBVIOUS
<1>2. ASSUME NEW k \in 0..(n - 1), k \in Good
      PROVE  k + 1 \in Good
    <2> SUFFICES ASSUME NEW x \in 0..n, NEW y \in 0..n, x <= m, m < y, x <= p, y - x <= k + 1,
                        NEW b \in 0..size, p < b,
                        Path(d, m, x, y) = Path(t, p, x, b)
                 PROVE  m = p
        BY <1>0 DEF TellsThePlace
    <2> DEFINE c == Part(m, x, y)
               e == Other(m, x, y)
               g == Part(p, x, b)
               h == Other(p, x, b)
    <2>0. x \in Nat /\ y \in Nat /\ b \in Nat /\ x < y /\ x < b
        OBVIOUS
    <2>1. PathStep(d, m, x, y, c, e)
        BY <1>0, <2>0, PathIs
    <2>2. PathStep(t, p, x, b, g, h)
        BY <1>0, <2>0, PathIs
    <2>3. CASE y = x + 1 /\ b = x + 1
        BY <2>0, <2>3
    <2>4. CASE y # x + 1
        <3>1. x + 1 < y
            BY <2>0, <2>4
        <3>2. Mid(x, y) \in Nat /\ x < Mid(x, y) /\ Mid(x, y) < y
            BY <3>1, MidIs
        <3>3. /\ c[1] \in 0..n /\ c[2] \in 0..n /\ c[1] <= m /\ m < c[2] /\ c[2] - c[1] <= k
              /\ e[1] \in 0..n /\ e[2] \in 0..n /\ e[1] < e[2]
              /\ c[1] < c[2]
            BY <3>2 DEF Part, Other
        <3>4. /\ Path(d, m, x, y) = Append(Path(d, m, c[1], c[2]), Sub(d, e[1], e[2]))
              /\ Path(d, m, c[1], c[2]) \in Seq(Nodes(d)) /\ Sub(d, e[1], e[2]) \in Nodes(d)
            <4> HIDE DEF c, e
            <4>1. Path(d, m, x, y) = Append(Path(d, m, c[1], c[2]), Sub(d, e[1], e[2]))
                BY <2>1, <2>4 DEF PathStep
            <4>2. Path(d, m, c[1], c[2]) \in Seq(Nodes(d))
                <5>1. /\ Len(d) \in Nat /\ c[1] \in Nat /\ c[2] \in Nat
                      /\ c[1] < c[2] /\ c[2] <= Len(d)
                    BY <1>0, <3>3
                <5> QED BY <5>1, PathInSeq
            <4>3. Sub(d, e[1], e[2]) \in Nodes(d)
                BY <1>0, <3>3, NodeIs
            <4> QED BY <4>1, <4>2, <4>3
        <3>5. Len(Path(d, m, x, y)) # 0
            <4> HIDE DEF c, e
            <4> QED BY <3>4, Appended
        <3>6. b # x + 1
            <4>1. ASSUME b = x + 1 PROVE FALSE
                <5> HIDE DEF g, h
                <5>1. Path(t, p, x, b) = <<>>
                    BY <2>2, <4>1 DEF PathStep
                <5> QED BY <3>5, <5>1
            <4> QED BY <4>1
        <3>7. x + 1 < b
            BY <2>0, <3>6
        <3>8. Mid(x, b) \in Nat /\ x < Mid(x, b) /\ Mid(x, b) < b
            BY <3>7, MidIs
        <3>9. /\ g[1] \in 0..size /\ g[2] \in 0..size /\ g[1] <= p /\ p < g[2]
              /\ h[1] \in 0..size /\ h[2] \in 0..size /\ h[1] < h[2]
              /\ g[1] < g[2]
            BY <3>8 DEF Part, Other
        <3>10. /\ Path(t, p, x, b) = Append(Path(t, p, g[1], g[2]), Sub(t, h[1], h[2]))
               /\ Path(t, p, g[1], g[2]) \in Seq(Nodes(t)) /\ Sub(t, h[1], h[2]) \in Nodes(t)
            <4> HIDE DEF g, h
            <4>1. Path(t, p, x, b) = Append(Path(t, p, g[1], g[2]), Sub(t, h[1], h[2]))
                BY <2>2, <3>6 DEF PathStep
            <4>2. Path(t, p, g[1], g[2]) \in Seq(Nodes(t))
                <5>1. /\ Len(t) \in Nat /\ g[1] \in Nat /\ g[2] \in Nat
                      /\ g[1] < g[2] /\ g[2] <= Len(t)
                    BY <1>0, <3>9
                <5> QED BY <5>1, PathInSeq
            <4>3. Sub(t, h[1], h[2]) \in Nodes(t)
                BY <1>0, <3>9, NodeIs
            <4> QED BY <4>1, <4>2, <4>3
        <3>11. Path(d, m, c[1], c[2]) = Path(t, p, g[1], g[2])
                 /\ Sub(d, e[1], e[2]) = Sub(t, h[1], h[2])
            <4> DEFINE u == Path(d, m, c[1], c[2])
                       v == Path(t, p, g[1], g[2])
                       i == Sub(d, e[1], e[2])
                       j == Sub(t, h[1], h[2])
            <4>1. u \in Seq(Nodes(d)) /\ i \in Nodes(d) /\ v \in Seq(Nodes(t)) /\ j \in Nodes(t)
                BY <3>4, <3>10
            <4>2. Append(u, i) = Append(v, j)
                BY <3>4, <3>10
            <4> HIDE DEF c, e, g, h, u, v, i, j
            <4>3. u = v /\ i = j
                BY <4>1, <4>2, SameAppended
            <4> QED BY <4>3 DEF u, v, i, j
        <3>12. e[1] = h[1] /\ e[2] = h[2]
            <4> HIDE DEF c, e, g, h
            <4>1. SaysItsSpan(d, t, e[1], e[2])
                BY <3>3, NodesSayTheirSpan
            <4> QED BY <1>0, <3>9, <3>11, <4>1 DEF SaysItsSpan
        <3>13. c[1] = g[1]
            BY <3>2, <3>8, <3>12 DEF Part, Other
        <3>14. TellsThePlace(d, t, m, p, c[1], c[2])
            <4>1. c[1] <= p
                BY <3>9, <3>13
            <4> HIDE DEF c, e, g, h
            <4> QED BY <1>2, <3>3, <4>1
        <3> HIDE DEF c, e, g, h
        <3> QED BY <1>0, <3>9, <3>11, <3>13, <3>14 DEF TellsThePlace
    <2>5. CASE y = x + 1 /\ b # x + 1
        <3>1. Path(d, m, x, y) = <<>>
            <4> HIDE DEF c, e
            <4> QED BY <2>1, <2>5 DEF PathStep
        <3>2. x + 1 < b
            BY <2>0, <2>5
        <3>3. Mid(x, b) \in Nat /\ x < Mid(x, b) /\ Mid(x, b) < b
            BY <3>2, MidIs
        <3>4. /\ g[1] \in 0..size /\ g[2] \in 0..size /\ g[1] < g[2]
              /\ h[1] \in 0..size /\ h[2] \in 0..size
            BY <3>3 DEF Part, Other
        <3> HIDE DEF g, h
        <3>5. Path(t, p, x, b) = Append(Path(t, p, g[1], g[2]), Sub(t, h[1], h[2]))
            BY <2>2, <2>5 DEF PathStep
        <3>6. Path(t, p, g[1], g[2]) \in Seq(Nodes(t))
            <4>1. /\ Len(t) \in Nat /\ g[1] \in Nat /\ g[2] \in Nat
                  /\ g[1] < g[2] /\ g[2] <= Len(t)
                BY <1>0, <3>4
            <4> QED BY <4>1, PathInSeq
        <3>7. Sub(t, h[1], h[2]) \in Nodes(t)
            BY <1>0, <3>4, NodeIs
        <3>8. Len(Path(t, p, x, b)) # 0
            BY <3>5, <3>6, <3>7, Appended
        <3> QED BY <3>1, <3>8
    <2> QED BY <2>3, <2>4, <2>5
<1>3. 0..n \subseteq Good
    <2> HIDE DEF Good
    <2> QED BY <1>1, <1>2, NatSetInduction
<1>4. n \in Good
    <2> HIDE DEF Good
    <2> QED BY <1>3
<1>5. hi - lo <= n
    OBVIOUS
<1> QED BY <1>4, <1>5

\* An audit path verifies for its own leaf, place and tree, and for no other: the
\* place is the one it was made for, and the tree has the same leaf there, with the
\* same path to it (log.rs).
THEOREM AuditPathsAreTheirOwn ==
    ASSUME NEW bound \in Nat
    PROVE  AuditPathsAreExact(bound)
<1> SUFFICES ASSUME NEW n \in 1..bound, NEW m \in 0..(n - 1), NEW size \in 1..bound,
                    NEW place \in 0..(size - 1), NEW leaf \in 0..n, NEW t \in Trees(size),
                    verify_inclusion(leaf_hash(leaf), place, size,
                                     inclusion_proof(Genuine(n), m), root(t))
             PROVE  /\ place = m /\ t[place + 1] = leaf_hash(leaf)
                    /\ inclusion_proof(Genuine(n), m) = inclusion_proof(t, place)
    BY DEF AuditPathsAreExact
<1> DEFINE d == Genuine(n)
           path == inclusion_proof(d, m)
<1>1. n \in Nat /\ size \in Nat /\ m \in Nat /\ place \in Nat /\ m < n /\ place < size
    OBVIOUS
<1>2. IsTreeOf(t, size) /\ IsTreeOf(d, n)
    BY <1>1, TreesAre, GenuineIs
<1>3. d = Genuine(n) /\ verify_inclusion(leaf_hash(leaf), place, size, path, root(t))
    OBVIOUS
<1> HIDE DEF d
<1>4. t \in Seq(Hashes) /\ Len(t) = size /\ Len(d) = n
    BY <1>2 DEF IsTreeOf
<1>5. path = Path(d, m, 0, n) /\ inclusion_proof(t, place) = Path(t, place, 0, size)
    BY <1>1, <1>4, PathFunction
<1>6. path \in Seq(Nodes(d))
    <2>1. Path(d, m, 0, n) \in Seq(Nodes(d))
        BY <1>1, <1>4, PathInSeq
    <2> QED BY <1>5, <2>1
<1> HIDE DEF path
<1>7. leaf_hash(leaf) = t[place + 1] /\ path = inclusion_proof(t, place)
    <2>1. verify_inclusion(leaf_hash(leaf), place, Len(t), path, root(t))
        BY <1>3, <1>4
    <2> QED BY <1>1, <1>4, <1>6, <2>1, AuditPathsBindTheLeaf
<1>8. m = place
    <2>1. TellsThePlace(d, t, m, place, 0, n)
        BY <1>1, <1>2, <1>3, PathsTellThePlace
    <2>2. size \in 0..Len(t) /\ place < size
        BY <1>1, <1>4
    <2>3. Path(d, m, 0, n) = Path(t, place, 0, size)
        BY <1>5, <1>7
    <2> QED BY <2>1, <2>2, <2>3 DEF TellsThePlace
<1> QED BY <1>3, <1>7, <1>8 DEF path, d

-----------------------------------------------------------------------------
(* The tree of the state. *)

\* What the recursion of StateSplit defines.
IsDoubling(w, n) == w = [i \in 1..n |-> IF i * 2 < n THEN w[i * 2] ELSE i]

\* There is such a function.
LEMMA DoublingExists ==
    ASSUME NEW n \in Nat \ {0}
    PROVE  \E w : IsDoubling(w, n)
<1> DEFINE D == 1..n
           size == [i \in D |-> n - i]
           stop == {i \in D : ~(i * 2 < n)}
           base == [i \in D |-> i]
           prev == [i \in D |-> IF i * 2 < n THEN i * 2 ELSE i]
           step == [i \in D |-> [k \in D |-> k]]
<1>1. size \in [D -> Nat] /\ base \in [D -> D] /\ prev \in [D -> D] /\ step \in [D -> [D -> D]]
    OBVIOUS
<1>2. \A i \in D \ stop : size[prev[i]] < size[i]
    OBVIOUS
<1>3. n \in Nat /\ \A i \in D : size[i] <= n
    OBVIOUS
<1>4. \A i \in D, k \in D : step[i][k] = k
    OBVIOUS
<1>5. \A i \in D : /\ i \in stop <=> ~(i * 2 < n)
                   /\ base[i] = i
                   /\ i * 2 < n => prev[i] = i * 2
    OBVIOUS
<1> HIDE DEF size, stop, base, prev, step
<1>6. PICK w : IsDescent(w, D, D, stop, base, prev, step)
    <2> HIDE DEF D
    <2> QED BY <1>1, <1>2, <1>3, DescentExists
<1>7. w \in [D -> D]
    BY <1>6 DEF IsDescent
<1>8. ASSUME NEW i \in D PROVE w[i] = IF i * 2 < n THEN w[i * 2] ELSE i
    <2>1. w[i] = IF i \in stop THEN base[i] ELSE step[i][w[prev[i]]]
        BY <1>6 DEF IsDescent
    <2>2. CASE i * 2 < n
        <3>1. prev[i] = i * 2 /\ i \notin stop /\ i * 2 \in D
            BY <1>5, <2>2
        <3>2. w[i * 2] \in D
            BY <1>7, <3>1
        <3>3. step[i][w[i * 2]] = w[i * 2]
            BY <1>4, <3>2
        <3> QED BY <2>1, <2>2, <3>1, <3>3
    <2>3. CASE ~(i * 2 < n)
        BY <1>5, <2>1, <2>3
    <2> QED BY <2>2, <2>3
<1>9. w = [i \in D |-> w[i]]
    BY <1>7
<1> QED BY <1>8, <1>9 DEF IsDoubling

\* From a power of two below n the doubling ends at the largest one.
LEMMA DoublingIs ==
    ASSUME NEW n \in Nat \ {0}, NEW w, IsDoubling(w, n),
           NEW p \in Powers, p < n
    PROVE  w[p] \in Powers /\ w[p] < n /\ n <= 2 * w[p]
<1> DEFINE Ends(i) == w[i] \in Powers /\ w[i] < n /\ n <= 2 * w[i]
           Good == {k \in 0..n : \A i \in Powers : i < n /\ n - i <= k => Ends(i)}
<1>0. \A i \in Powers : i \in Nat \ {0}
    BY DEF Powers
<1>1. 0 \in Good
    BY <1>0
<1>2. ASSUME NEW k \in 0..(n - 1), k \in Good
      PROVE  k + 1 \in Good
    <2> SUFFICES ASSUME NEW i \in Powers, i < n, n - i <= k + 1 PROVE Ends(i)
        OBVIOUS
    <2>1. i \in Nat \ {0} /\ i \in 1..n
        BY <1>0
    <2>2. w[i] = IF i * 2 < n THEN w[i * 2] ELSE i
        BY <2>1 DEF IsDoubling
    <2>3. CASE i * 2 < n
        <3>1. i * 2 \in Powers
            <4>1. 2 * i \in Powers /\ 2 * i = i * 2
                BY <2>1, PowerDoubles
            <4> QED BY <4>1
        <3>2. n - i * 2 <= k
            BY <2>1
        <3>3. Ends(i * 2)
            BY <1>2, <2>3, <3>1, <3>2
        <3> QED BY <2>2, <2>3, <3>3
    <2>4. CASE ~(i * 2 < n)
        BY <2>1, <2>2, <2>4
    <2> QED BY <2>3, <2>4
<1>3. 0..n \subseteq Good
    <2> HIDE DEF Good
    <2> QED BY <1>1, <1>2, NatSetInduction
<1>4. n \in Good
    <2> HIDE DEF Good
    <2> QED BY <1>3
<1>5. n - p <= n
    BY <1>0
<1> HIDE DEF Ends
<1>6. Ends(p)
    BY <1>4, <1>5
<1> QED BY <1>6 DEF Ends

\* The tree of the state is split where the log is, at every size (log.rs, split;
\* core/src/merkle.rs, root).
THEOREM TreesHaveOneShape ==
    ASSUME NEW bound \in Nat
    PROVE  OneShape(bound)
<1> SUFFICES ASSUME NEW n \in 2..bound PROVE split(n) = StateSplit(n)
    BY DEF OneShape
<1> DEFINE w == CHOOSE w : IsDoubling(w, n)
<1>1. n \in Nat \ {0} /\ n \in Nat \ {0, 1}
    OBVIOUS
<1>2. IsDoubling(w, n)
    BY <1>1, DoublingExists
<1>3. StateSplit(n) = w[1]
    BY DEF StateSplit, IsDoubling
<1> HIDE DEF w
<1>4. w[1] \in Powers /\ w[1] < n /\ n <= 2 * w[1]
    BY <1>1, <1>2, OneIsPower, DoublingIs
<1>5. split(n) = w[1]
    BY <1>1, <1>4, SplitUnique
<1> QED BY <1>3, <1>5

-----------------------------------------------------------------------------
(* The property of the runs. *)

\* The proofs verify exactly if they should, beside any server and watcher (log.rs;
\* core/src/merkle.rs); what the runs try up to their bounds holds up to any.
THEOREM ProofsHold == WatchSafe => []ProofsAreExact
<1>1. ProofsAreExact
    <2>1. GenuinePathsVerify(9)
        BY EveryGenuinePathVerifies
    <2>2. AuditPathsAreExact(5)
        BY AuditPathsAreTheirOwn
    <2>3. OneShape(64)
        BY TreesHaveOneShape
    <2>4. ConsistencyIsPrefix(7)
        BY ConsistencyMeansPrefix
    <2> QED BY <2>1, <2>2, <2>3, <2>4 DEF ProofsAreExact, Once
<1> QED BY <1>1, PTL

-----------------------------------------------------------------------------
(* The server beside the watcher, and the heads that it has shown. *)

\* Every step of the system is one of the server or leaves the server alone.
LEMMA WatchStepIsServerStep ==
    ASSUME nature \in Natures, IInv, [WatchNext]_all
    PROVE  [Next]_vars /\ nature' = nature
<1>1. Len(run) \in 0..MaxEpoch /\ live \in 0..MaxEpoch
    BY LenProperties DEF IInv, TypeOK, WorldTypes, LoopInStep
<1>2. \A e \in 0..MaxEpoch : nature[e].hopeless \in Doomed /\ nature[e].closed \in ShareClosed
    BY WatcherAssumption
<1>3. CASE ServerRuns
    <2>1. Start \/ LoopStep
        BY <1>1, <1>2, <1>3 DEF ServerRuns, Here, Start, LoopStep
    <2> QED BY <1>3, <2>1 DEF Next, ServerRuns
<1>4. CASE ServerDies
    <2>1. Crashes
        BY <1>1, <1>2, <1>4 DEF ServerDies, Here, Crashes
    <2> QED BY <1>4, <2>1 DEF Next, ServerDies
<1>5. ASSUME NEW h \in Handlers, ServerAnswers(h) \/ ServerAddsWish(h)
      PROVE  Next /\ nature' = nature
    <2>1. Request(h) \/ Respond(h)
        BY <1>5 DEF ServerAnswers, ServerAddsWish, Request, Respond
    <2> QED BY <1>5, <2>1 DEF Next, ServerAnswers, ServerAddsWish
<1>6. CASE Watches
    BY <1>6 DEF Watches, Begin, NoAnswer, check_head, check_headers, ReadLatest, ReadHeaders,
                ReadMiracles, Replay
<1>7. CASE UNCHANGED all
    BY <1>7 DEF all
<1> QED BY <1>3, <1>4, <1>5, <1>6, <1>7 DEF WatchNext

\* A head that the server may have shown of an epoch: one over a part of its log, from
\* the first spark on.
SeenHead(e, head) ==
    \E ls \in Seq(Sparks) : IsPrefix(ls, EpochSparks(e)) /\ head = TreeHead(e, ls)

\* All heads kept are such ones.
Faithful(hs) == DOMAIN hs \subseteq Windows /\ \A e \in DOMAIN hs : SeenHead(e, hs[e])

\* The log only grows, so a head that was shown stays one.
LEMMA FaithfulStays ==
    ASSUME IInv, WindowInv, [Next]_vars, NEW hs, Faithful(hs)
    PROVE  Faithful(hs)'
<1> SUFFICES ASSUME NEW e \in DOMAIN hs
             PROVE  SeenHead(e, hs[e])'
    BY DEF Faithful
<1>1. e \in Windows
    BY DEF Faithful
<1>2. PICK ls \in Seq(Sparks) : IsPrefix(ls, EpochSparks(e)) /\ hs[e] = TreeHead(e, ls)
    BY DEF Faithful, SeenHead
<1>3. IsPrefix(ls, EpochSparks(e)')
    BY <1>1, <1>2, LogsGrow, PrefixTransitive
<1> QED BY <1>2, <1>3 DEF SeenHead

\* Leaf hashes are a sequence, and equal where the leaves are.
LEMMA HashedIs ==
    ASSUME NEW ls \in Seq(Sparks)
    PROVE  /\ LeavesHashed(ls) \in Seq({leaf_hash(s) : s \in Sparks})
           /\ Len(LeavesHashed(ls)) = Len(ls)
           /\ \A i \in 1..Len(ls) : LeavesHashed(ls)[i] = leaf_hash(ls[i])
<1>1. Len(ls) \in Nat /\ DOMAIN ls = 1..Len(ls) /\ \A i \in 1..Len(ls) : ls[i] \in Sparks
    BY LenProperties, ElementOfSeq
<1>2. LeavesHashed(ls) \in [1..Len(ls) -> {leaf_hash(s) : s \in Sparks}]
    BY <1>1 DEF LeavesHashed
<1>3. LeavesHashed(ls) \in Seq({leaf_hash(s) : s \in Sparks}) /\ Len(LeavesHashed(ls)) = Len(ls)
    BY <1>1, <1>2
<1> QED BY <1>1, <1>3 DEF LeavesHashed

\* The head of the whole log gives no alarm beside one shown before: it is no smaller,
\* the same at the same size, and the proof that the server makes for it verifies.
LEMMA WholeHeadIsQuiet ==
    ASSUME IInv, LeavesInv, NEW e \in Windows, NEW old, SeenHead(e, old)
    PROVE  HeadAlarms(old, TreeHead(e, EpochSparks(e))) = {}
<1> DEFINE log == EpochSparks(e)
           sth == TreeHead(e, log)
           H == {leaf_hash(s) : s \in Sparks}
<1>1. log \in Seq(Sparks) /\ epoch_leaves(e) = log
    BY EpochSparksType DEF IInv, TypeOK, LeavesInv, epoch_leaves
<1> HIDE DEF log
<1>2. PICK ls \in Seq(Sparks) : IsPrefix(ls, log) /\ old = TreeHead(e, ls)
    BY DEF SeenHead, log
<1>3. /\ Len(ls) \in Nat /\ Len(log) \in Nat /\ Len(ls) <= Len(log)
      /\ \A i \in 1..Len(ls) : ls[i] = log[i]
    BY <1>1, <1>2, PrefixMeans, LenProperties
<1>4. /\ old.size = Len(ls) /\ old.root = root(LeavesHashed(ls))
      /\ sth.size = Len(log) /\ sth.root = root(LeavesHashed(log)) /\ sth.epoch = e
    BY <1>2 DEF TreeHead
<1>5. Len(ls) = Len(log) => ls = log
    BY <1>1, <1>3, SeqEqual
<1> DEFINE older == LeavesHashed(ls)
           newer == LeavesHashed(log)
<1>6. /\ older \in Seq(H) /\ Len(older) = Len(ls)
      /\ \A i \in 1..Len(ls) : older[i] = leaf_hash(ls[i])
      /\ newer \in Seq(H) /\ Len(newer) = Len(log)
      /\ \A i \in 1..Len(log) : newer[i] = leaf_hash(log[i])
    BY <1>1, HashedIs
<1>7. ASSUME Len(log) > Len(ls), Len(ls) > 0
      PROVE  verify_consistency(Len(ls), Len(log), root(older), root(newer),
                                consistency(e, Len(ls), Len(log)))
    <2> HIDE DEF older, newer, H
    <2>1. SubSeq(newer, 1, Len(newer)) = newer
        BY <1>6, SubSeqFull
    <2>2. consistency(e, Len(ls), Len(log)) = consistency_proof(newer, Len(ls))
        <3>1. LeavesHashed(epoch_leaves(e)) = newer /\ Len(newer) = Len(log)
            BY <1>1, <1>6 DEF newer
        <3>2. ~(Len(ls) = 0 \/ Len(ls) > Len(log) \/ Len(log) > Len(newer))
            BY <1>3, <1>7, <3>1
        <3>3. SubSeq(newer, 1, Len(log)) = newer
            BY <2>1, <3>1
        <3> QED BY <3>1, <3>2, <3>3 DEF consistency
    <2>3. IsPrefix(older, newer)
        BY <1>3, <1>6, PrefixMeans
    <2>4. consistency_proof(newer, Len(ls)) \in Seq(Nodes(newer))
        <3>1. Len(ls) \in 1..Len(newer) /\ Len(newer) \in Nat /\ 0 \in Nat /\ 0 < Len(ls)
            BY <1>3, <1>6, <1>7
        <3>2. consistency_proof(newer, Len(ls)) = Proof(newer, Len(ls), 0, Len(newer))
            BY <3>1, ProofFunction
        <3>3. Proof(newer, Len(ls), 0, Len(newer)) \in Seq(Nodes(newer))
            BY <3>1, ProofInSeq
        <3> QED BY <3>2, <3>3
    <2>5. older # <<>> /\ Len(older) <= Len(newer)
        BY <1>3, <1>6, <1>7
    <2>6. verify_consistency(Len(older), Len(newer), root(older), root(newer),
                             consistency_proof(newer, Len(older)))
        BY <1>6, <2>3, <2>4, <2>5, OnlyPrefixesVerify
    <2> QED BY <1>6, <2>2, <2>6
<1> HIDE DEF older, newer, H
<1>8. HeadAlarms(old, sth) = {}
    <2> HIDE DEF sth
    <2>1. ~(sth.size < old.size)
        BY <1>3, <1>4
    <2>2. ~(sth.size = old.size /\ sth.root # old.root)
        BY <1>4, <1>5
    <2>3. ~(/\ sth.size > old.size /\ old.size > 0
            /\ ~verify_consistency(old.size, sth.size, old.root, sth.root,
                                   consistency(sth.epoch, old.size, sth.size)))
        BY <1>4, <1>7 DEF older, newer
    <2> QED BY <2>1, <2>2, <2>3 DEF HeadAlarms
<1> QED BY <1>8 DEF log

-----------------------------------------------------------------------------
(* The heads and the headers that are checked. *)

\* What the watcher holds against the log.
LogAlarms ==
    {"the log shrank", "the log was rewritten", "a head does not extend the one before",
     "a header drops the epoch's sparks", "challenge", "sparks below their target"}

\* A head that gives no alarm joins those kept.
LEMMA ExtendsQuietly ==
    ASSUME NEW st, "heads" \in DOMAIN st, "alarms" \in DOMAIN st, NEW sth,
           sth.epoch \in DOMAIN st.heads => HeadAlarms(st.heads[sth.epoch], sth) = {}
    PROVE  /\ extends(st, sth).heads = Put(st.heads, sth.epoch, sth)
           /\ extends(st, sth).alarms = st.alarms
           /\ extends(st, sth).last = st.last
           /\ DOMAIN extends(st, sth) = DOMAIN st
<1> DEFINE found == IF sth.epoch \in DOMAIN st.heads
                    THEN HeadAlarms(st.heads[sth.epoch], sth) ELSE {}
<1>1. found = {}
    OBVIOUS
<1>2. st.alarms \cup found = st.alarms
    BY <1>1
<1>3. PICK x : x = [st EXCEPT !.alarms = st.alarms \cup found,
                              !.heads = IF found = {} THEN Put(st.heads, sth.epoch, sth)
                                        ELSE st.heads]
    OBVIOUS
<1>4. extends(st, sth) = x
    BY <1>3 DEF extends
<1> HIDE DEF found
<1>5. /\ x.heads = Put(st.heads, sth.epoch, sth) /\ x.alarms = st.alarms /\ x.last = st.last
      /\ DOMAIN x = DOMAIN st
    BY <1>1, <1>2, <1>3
<1> QED BY <1>4, <1>5

\* So does the head of the whole log.
LEMMA WholeHeadJoins ==
    ASSUME IInv, LeavesInv, NEW e \in Windows, NEW hs, Faithful(hs)
    PROVE  /\ Faithful(Put(hs, e, TreeHead(e, EpochSparks(e))))
           /\ e \in DOMAIN hs => HeadAlarms(hs[e], TreeHead(e, EpochSparks(e))) = {}
<1>1. EpochSparks(e) \in Seq(Sparks) /\ IsPrefix(EpochSparks(e), EpochSparks(e))
    BY EpochSparksType, PrefixOfItself DEF IInv, TypeOK
<1>2. SeenHead(e, TreeHead(e, EpochSparks(e)))
    BY <1>1 DEF SeenHead
<1>3. Faithful(Put(hs, e, TreeHead(e, EpochSparks(e))))
    BY <1>2 DEF Faithful, Put
<1>4. e \in DOMAIN hs => HeadAlarms(hs[e], TreeHead(e, EpochSparks(e))) = {}
    BY WholeHeadIsQuiet DEF Faithful
<1> QED BY <1>3, <1>4

\* The state of check_headers.
Quiet(st) ==
    /\ "heads" \in DOMAIN st /\ "last" \in DOMAIN st /\ "alarms" \in DOMAIN st
    /\ Faithful(st.heads) /\ st.last.epoch \in NULL..MaxEpoch /\ st.alarms \cap LogAlarms = {}

\* What is left to do when the heads are those of before, or more of this epoch.
LEMMA HeaderDone ==
    ASSUME NEW e \in 0..MaxEpoch, NEW h, h.epoch = e, NEW st, Quiet(st), NEW checked,
           DOMAIN checked = DOMAIN st, checked.alarms = st.alarms \cup ChainAlarms(st.last, h),
           checked.heads = st.heads \/ \E x : checked.heads = Put(st.heads, e, x)
    PROVE  Quiet([checked EXCEPT !.heads = Forget(@, h.epoch),
                                 !.last = [epoch |-> h.epoch, hash |-> HeaderHash(h)]])
<1>1. ASSUME NEW x
      PROVE  Forget(Put(st.heads, e, x), e) = Forget(st.heads, e)
    BY DEF Forget, Put, Quiet, Faithful, Windows
<1>2. Forget(checked.heads, e) = Forget(st.heads, e)
    BY <1>1
<1>3. PICK last : last = [epoch |-> h.epoch, hash |-> HeaderHash(h)]
    OBVIOUS
<1>4. last.epoch \in NULL..MaxEpoch
    BY <1>3, ConstantTypes DEF NULL
<1>5. PICK y : y = [checked EXCEPT !.heads = Forget(checked.heads, h.epoch), !.last = last]
    OBVIOUS
<1>6. /\ y.heads = Forget(st.heads, e) /\ y.last = last
      /\ y.alarms = st.alarms \cup ChainAlarms(st.last, h) /\ DOMAIN y = DOMAIN st
    BY <1>2, <1>5 DEF Quiet
<1>7. Faithful(Forget(st.heads, e))
    BY DEF Quiet, Faithful, Forget
<1>8. y.alarms \cap LogAlarms = {}
    BY <1>6 DEF Quiet, ChainAlarms, LogAlarms
<1>9. Quiet(y)
    BY <1>4, <1>6, <1>7, <1>8 DEF Quiet
<1> QED BY <1>3, <1>5, <1>9

\* A header that is checked gives no alarm about the log (check_headers).
LEMMA CheckHeaderQuietly ==
    ASSUME ReplayInv, pc # "down", NEW e \in DOMAIN headers, NEW st, Quiet(st)
    PROVE  Quiet(check_header(st, headers[e]))
<1> DEFINE h == headers[e]
<1>1. e \in 0..MaxEpoch /\ h.epoch = e
    BY DEF ReplayInv, IInv, TypeOK, ChainTypes
<1>2. e # 0 => e \in Windows /\ h.log = EpochSparks(e)
    BY <1>1, ConstantTypes DEF ReplayInv, HeadersCommit
<1>3. 0 \notin DOMAIN st.heads
    BY ConstantTypes DEF Quiet, Faithful, Windows
<1> HIDE DEF h
<1>4. PICK chained : chained = [st EXCEPT !.alarms = @ \cup ChainAlarms(st.last, h)]
    OBVIOUS
<1>5. /\ DOMAIN chained = DOMAIN st /\ chained.alarms = st.alarms \cup ChainAlarms(st.last, h)
      /\ chained.heads = st.heads
    BY <1>4 DEF Quiet
<1>6. CASE h.log # <<>>
    <2>1. PICK sth : sth = TreeHead(e, h.log)
        OBVIOUS
    <2>2. sth.epoch = e
        BY <2>1 DEF TreeHead
    <2>3. e \in DOMAIN st.heads => HeadAlarms(st.heads[e], sth) = {}
        BY <1>2, <1>3, <2>1, WholeHeadJoins DEF Quiet, ReplayInv
    <2>4. /\ extends(chained, sth).heads = Put(st.heads, e, sth)
          /\ extends(chained, sth).alarms = chained.alarms
          /\ DOMAIN extends(chained, sth) = DOMAIN chained
        <3>1. "heads" \in DOMAIN chained /\ "alarms" \in DOMAIN chained
            BY <1>5 DEF Quiet
        <3>2. sth.epoch \in DOMAIN chained.heads => HeadAlarms(chained.heads[sth.epoch], sth) = {}
            BY <1>5, <2>2, <2>3
        <3> QED BY <1>5, <2>2, <3>1, <3>2, ExtendsQuietly
    <2>5. Quiet([extends(chained, sth) EXCEPT
                    !.heads = Forget(@, h.epoch),
                    !.last = [epoch |-> h.epoch, hash |-> HeaderHash(h)]])
        BY <1>1, <1>5, <2>4, HeaderDone
    <2> QED BY <1>1, <1>4, <1>6, <2>1, <2>5 DEF check_header, h
<1>7. CASE h.log = <<>>
    <2>1. ~(e \in DOMAIN st.heads /\ st.heads[e].size > 0)
        <3> SUFFICES ASSUME e \in DOMAIN st.heads
                     PROVE  st.heads[e].size = 0
            OBVIOUS
        <3>1. e \in Windows /\ EpochSparks(e) = <<>>
            BY <1>2, <1>3, <1>7
        <3>2. PICK ls \in Seq(Sparks) : /\ IsPrefix(ls, EpochSparks(e))
                                        /\ st.heads[e] = TreeHead(e, ls)
            BY DEF Quiet, Faithful, SeenHead
        <3>3. EpochSparks(e) \in Seq(Sparks)
            BY <3>1, EpochSparksType DEF ReplayInv, IInv, TypeOK
        <3>4. Len(ls) <= Len(EpochSparks(e)) /\ Len(ls) \in Nat
            BY <3>2, <3>3, PrefixMeans, LenProperties
        <3> QED BY <3>1, <3>2, <3>4 DEF TreeHead
    <2>2. Quiet([chained EXCEPT !.heads = Forget(@, h.epoch),
                                !.last = [epoch |-> h.epoch, hash |-> HeaderHash(h)]])
        BY <1>1, <1>5, HeaderDone
    <2> QED BY <1>1, <1>4, <1>7, <2>1, <2>2 DEF check_header, h
<1> QED BY <1>6, <1>7

\* The states of the loop over the headers of a range.
Checked(w, st, from, to) ==
    w = [e \in (from - 1)..to |->
            IF e < from THEN st
            ELSE IF e \in DOMAIN headers THEN check_header(w[e - 1], headers[e])
            ELSE w[e - 1]]

\* There are such states.
LEMMA CheckedExists ==
    ASSUME NEW st, NEW from \in Nat, NEW n \in Nat
    PROVE  \E w : Checked(w, st, from, from - 1 + n)
<1> DEFINE Good == {k \in 0..n : \E w : Checked(w, st, from, from - 1 + k)}
<1>1. 0 \in Good
    <2> DEFINE w == [e \in (from - 1)..(from - 1 + 0) |-> st]
    <2>1. w = [e \in (from - 1)..(from - 1 + 0) |->
                  IF e < from THEN st
                  ELSE IF e \in DOMAIN headers THEN check_header(w[e - 1], headers[e])
                  ELSE w[e - 1]]
        <3>1. \A e \in (from - 1)..(from - 1 + 0) : e < from
            OBVIOUS
        <3> QED BY <3>1
    <2> HIDE DEF w
    <2>2. Checked(w, st, from, from - 1 + 0)
        BY <2>1 DEF Checked
    <2> QED BY <2>2
<1>2. ASSUME NEW k \in 0..(n - 1), k \in Good
      PROVE  k + 1 \in Good
    <2>1. PICK w : Checked(w, st, from, from - 1 + k)
        BY <1>2
    <2> DEFINE last == from + k
               v == [e \in (from - 1)..last |->
                        IF e = last
                        THEN IF e \in DOMAIN headers THEN check_header(w[e - 1], headers[e])
                             ELSE w[e - 1]
                        ELSE w[e]]
    <2>2. last \in Nat /\ last = from - 1 + (k + 1) /\ last - 1 = from - 1 + k /\ ~(last < from)
        OBVIOUS
    <2>3. \A e \in (from - 1)..(last - 1) : v[e] = w[e]
        OBVIOUS
    <2>4. ASSUME NEW e \in (from - 1)..last
          PROVE  v[e] = IF e < from THEN st
                        ELSE IF e \in DOMAIN headers THEN check_header(v[e - 1], headers[e])
                        ELSE v[e - 1]
        <3>1. CASE e = last
            <4>1. v[e] = IF e \in DOMAIN headers THEN check_header(w[e - 1], headers[e])
                         ELSE w[e - 1]
                BY <3>1
            <4>2. ~(e < from) /\ e - 1 \in (from - 1)..(last - 1)
                BY <2>2, <3>1
            <4> HIDE DEF v
            <4> QED BY <2>3, <4>1, <4>2
        <3>2. CASE e # last
            <4>1. e \in (from - 1)..(from - 1 + k) /\ v[e] = w[e]
                BY <2>2, <3>2
            <4>2. ~(e < from) => e - 1 \in (from - 1)..(last - 1)
                BY <2>2
            <4>3. w[e] = IF e < from THEN st
                         ELSE IF e \in DOMAIN headers THEN check_header(w[e - 1], headers[e])
                         ELSE w[e - 1]
                BY <2>1, <4>1 DEF Checked
            <4> HIDE DEF v
            <4> QED BY <2>3, <4>1, <4>2, <4>3
        <3> QED BY <3>1, <3>2
    <2>5. v = [e \in (from - 1)..last |-> v[e]]
        OBVIOUS
    <2> HIDE DEF v
    <2>6. Checked(v, st, from, last)
        BY <2>4, <2>5 DEF Checked
    <2> HIDE DEF last
    <2> QED BY <2>2, <2>6
<1>3. 0..n \subseteq Good
    <2> HIDE DEF Good
    <2> QED BY <1>1, <1>2, NatSetInduction
<1>4. n \in Good
    BY <1>3
<1> QED BY <1>4

\* Checking all headers from one epoch on gives no alarm about the log.
LEMMA CheckAllQuietly ==
    ASSUME ReplayInv, pc # "down", NEW st, Quiet(st), NEW from \in 0..(MaxEpoch + 1)
    PROVE  Quiet(CheckAll(st, from, MaxEpoch))
<1> DEFINE n == MaxEpoch + 1 - from
           w == CHOOSE w : Checked(w, st, from, MaxEpoch)
           Good == {k \in 0..n : Quiet(w[from - 1 + k])}
<1>1. /\ from \in Nat /\ n \in Nat /\ MaxEpoch = from - 1 + n /\ MaxEpoch \in Nat
    BY ConstantTypes
<1> HIDE DEF n
<1>2. \E v : Checked(v, st, from, MaxEpoch)
    BY <1>1, CheckedExists
<1>3. Checked(w, st, from, MaxEpoch)
    BY <1>2
<1>4. CheckAll(st, from, MaxEpoch) = w[MaxEpoch]
    BY DEF CheckAll, Checked
<1> HIDE DEF w
<1>5. \A e \in (from - 1)..MaxEpoch :
          w[e] = IF e < from THEN st
                 ELSE IF e \in DOMAIN headers THEN check_header(w[e - 1], headers[e])
                 ELSE w[e - 1]
    BY <1>3 DEF Checked
<1>6. 0 \in Good
    <2>1. from - 1 + 0 \in (from - 1)..MaxEpoch /\ from - 1 + 0 < from
        BY <1>1
    <2>2. w[from - 1 + 0] = st
        BY <1>5, <2>1
    <2> QED BY <1>1, <2>2
<1>7. ASSUME NEW k \in 0..(n - 1), k \in Good
      PROVE  k + 1 \in Good
    <2> DEFINE e == from - 1 + (k + 1)
    <2>1. e \in (from - 1)..MaxEpoch /\ ~(e < from) /\ e - 1 = from - 1 + k
        BY <1>1
    <2>2. Quiet(w[e - 1])
        BY <1>7, <2>1
    <2>3. w[e] = IF e \in DOMAIN headers THEN check_header(w[e - 1], headers[e]) ELSE w[e - 1]
        BY <1>5, <2>1
    <2> HIDE DEF e
    <2>4. Quiet(w[e])
        BY <2>2, <2>3, CheckHeaderQuietly
    <2>5. k + 1 \in 0..n
        BY <1>1
    <2> QED BY <2>4, <2>5 DEF e
<1>8. n \in Good
    <2> HIDE DEF Good
    <2>1. 0..n \subseteq Good
        BY <1>1, <1>6, <1>7, NatSetInduction
    <2> QED BY <1>1, <2>1
<1> QED BY <1>1, <1>4, <1>8

-----------------------------------------------------------------------------
(* The rounds of the watcher. *)

\* The headers of the page are those that the server showed; the sequence of epochs
\* replayed, the books and the heads are what the steps of the watcher made of them.
PageHolds ==
    /\ "headers" \in DOMAIN page
    /\ \A e \in DOMAIN page.headers \ {0} : PrevIsChallenge(e, page.headers[e].prev)

\* A new world has no header to start the ledger from.
BooksHold == "active" \in DOMAIN books /\ (OldEpochs = 0 => books.active = FALSE)

\* What is inductive of the server and the watcher together, with the property.
WatchInv ==
    /\ ServedInv /\ nature \in Natures
    /\ Faithful(heads) /\ last_header.epoch \in NULL..MaxEpoch
    /\ \E S : replayed \in Seq(S)
    /\ PageHolds /\ BooksHold
    /\ LogNeverAccused

\* The property says it of a set of alarms.
LEMMA QuietAlarms == LogNeverAccused <=> alarms \cap LogAlarms = {}
BY DEF LogNeverAccused, LogAlarms

\* The empty function maps nothing.
LEMMA EmptyDomain == DOMAIN <<>> = {}
OBVIOUS

\* An empty page shows no header.
LEMMA NoPageHolds ==
    ASSUME NEW x, x = NoPage \/ \E latest, to : x = [NoPage EXCEPT !.latest = latest, !.to = to]
    PROVE  "headers" \in DOMAIN x /\ DOMAIN x.headers = {}
<1>0. DOMAIN <<>> = {}
    BY EmptyDomain
<1>1. "headers" \in DOMAIN NoPage /\ NoPage.headers = <<>>
    BY DEF NoPage
<1>2. ASSUME NEW latest, NEW to, x = [NoPage EXCEPT !.latest = latest, !.to = to]
      PROVE  "headers" \in DOMAIN x /\ x.headers = NoPage.headers
    BY <1>1, <1>2
<1>3. "headers" \in DOMAIN x /\ x.headers = <<>>
    BY <1>1, <1>2
<1> QED BY <1>0, <1>1, <1>3

\* Closing the books on an epoch finds neither a wrong challenge nor a spark below its
\* target (books.rs close).
LEMMA CloseQuietly ==
    ASSUME ServedInv, OldEpochs # 0, NEW b, NEW e, NEW h, NEW known, PrevIsChallenge(e, h.prev)
    PROVE  CloseAlarms(b, e, h, log_of(e), known) \cap LogAlarms = {}
<1>1. e \in Windows
    BY DEF PrevIsChallenge, ServedInv, ReplayInv, IInv, TypeOK, LogTypes
<1>2. ~(h.prev # ZeroHash /\ log_of(e).window.challenge # h.prev)
    BY DEF PrevIsChallenge, log_of
<1>3. ~(\E s \in ToSet(log_of(e).sparks) : s.mined # e)
    BY <1>1 DEF ServedInv, SparksInTheirWindow, ToSet, log_of
<1>4. CloseAlarms(b, e, h, log_of(e), known)
         \subseteq {"target", "count", "the log is not the header's",
                     "a spark for a wish nobody knows"}
    BY <1>2, <1>3 DEF CloseAlarms
<1> QED BY <1>4 DEF LogAlarms

\* Replaying an epoch raises no alarm about the log: its books start only in a world
\* whose first header has no header before it, and close quietly (main.rs replay).
LEMMA ReplayHolds ==
    ASSUME WatchInv, Replay
    PROVE  /\ \E S : replayed' \in Seq(S)
           /\ BooksHold' /\ alarms' \cap LogAlarms = {}
<1> DEFINE e == Len(replayed) + 1
           h == page.headers[e]
           active == e \in DOMAIN page.headers /\ (books.active \/ Activates(h))
<1>1. PICK S : replayed \in Seq(S)
    BY DEF WatchInv
<1>2. e \in Nat \ {0}
    BY <1>1
<1>3. active => OldEpochs # 0 /\ PrevIsChallenge(e, h.prev)
    BY <1>2 DEF WatchInv, PageHolds, BooksHold, PrevIsChallenge, Activates
<1>4. \E x : replayed' = Append(replayed, x)
    BY DEF Replay, replay
<1>5. \E T : replayed' \in Seq(T)
    <2>1. PICK x : replayed' = Append(replayed, x)
        BY <1>4
    <2>2. replayed' \in Seq(S \cup {x})
        BY <1>1, <2>1
    <2> QED BY <2>2
<1>6. BooksHold'
    <2>1. CASE ~active
        <3>1. books' = [books EXCEPT !.active = FALSE]
            BY <2>1 DEF Replay, replay
        <3> QED BY <3>1 DEF WatchInv, BooksHold
    <2>2. CASE active
        <3>1. \E b : DOMAIN b = DOMAIN books /\ books' = [b EXCEPT !.active = TRUE]
            BY <2>2 DEF Replay, replay, WithoutHopeless, Settled, AfterChoice, AddWindow
        <3> QED BY <1>3, <2>2, <3>1 DEF WatchInv, BooksHold
    <2> QED BY <2>1, <2>2
<1>7. alarms' \cap LogAlarms = {}
    <2> DEFINE b == AddWindow(books, e, log_of(e), page.known)
               chosen == BooksChoice(b, h.beacon)
               miraclesDiffer == IF chosen.selected # page.given[e]
                                 THEN {"the miracles are not the ones selected"} ELSE {}
               after == Settled(AfterChoice(b, chosen), e, chosen.selected)
               rootsDiffer == IF h.ledger # BooksRoot(after)
                              THEN {"the ledger does not replay"} ELSE {}
               closing == CloseAlarms(books, e, h, log_of(e), page.known)
               found == IF ~active THEN {} ELSE closing \cup miraclesDiffer \cup rootsDiffer
               next == [seed |-> IF e \in DOMAIN page.headers
                                 THEN [beacon |-> h.beacon, prev |-> h.prev] ELSE NoSeed,
                        given |-> [i \in DOMAIN page.given[e] |->
                                      [wish |-> page.given[e][i],
                                       outcome |-> nature[e].outcome[page.given[e][i]]]]]
               same == e > Len(page.worlds) \/ Append(replayed, next) = SubSeq(page.worlds, 1, e)
    <2>1. \E drand \in {{}, {"the beacon round came too soon"}} :
             alarms' = alarms \cup drand \cup found
                              \cup IF same THEN {} ELSE {"the world does not replay"}
        BY DEF Replay, replay
    <2>o. /\ miraclesDiffer \subseteq {"the miracles are not the ones selected"}
          /\ rootsDiffer \subseteq {"the ledger does not replay"}
        OBVIOUS
    <2>2. active => CloseAlarms(books, e, h, log_of(e), page.known) \cap LogAlarms = {}
        BY <1>3, CloseQuietly DEF WatchInv
    <2>3. alarms \cap LogAlarms = {}
        BY QuietAlarms DEF WatchInv
    <2> HIDE DEF active, e, h, b, chosen, miraclesDiffer, rootsDiffer, same
    <2>4. found \cap LogAlarms = {}
        BY <2>o, <2>2 DEF LogAlarms
    <2> HIDE DEF found
    <2> QED BY <2>1, <2>3, <2>4 DEF LogAlarms
<1> QED BY <1>5, <1>6, <1>7

\* A round of the watcher raises no alarm about the log.
LEMMA WatchesHold ==
    ASSUME WatchInv, Watches
    PROVE  /\ Faithful(heads') /\ last_header'.epoch \in NULL..MaxEpoch
           /\ \E S : replayed' \in Seq(S)
           /\ "headers" \in DOMAIN page'
           /\ \A e \in DOMAIN page'.headers \ {0} : PrevIsChallenge(e, page'.headers[e].prev)
           /\ BooksHold' /\ alarms' \cap LogAlarms = {}
<1>0. /\ Faithful(heads) /\ last_header.epoch \in NULL..MaxEpoch
      /\ \E S : replayed \in Seq(S)
      /\ "headers" \in DOMAIN page
      /\ \A e \in DOMAIN page.headers \ {0} : PrevIsChallenge(e, page.headers[e].prev)
      /\ BooksHold /\ alarms \cap LogAlarms = {}
    BY QuietAlarms DEF WatchInv, PageHolds
<1>e. DOMAIN <<>> = {} /\ DOMAIN NoPage.headers = {} /\ "headers" \in DOMAIN NoPage
    BY EmptyDomain, NoPageHolds
<1>1. CASE Begin
    <2>1. Faithful(<<>>)
        BY <1>e DEF Faithful
    <2>2. NoHeader.epoch \in NULL..MaxEpoch
        BY ConstantTypes DEF NoHeader, NULL
    <2>3. <<>> \in Seq(Nat)
        OBVIOUS
    <2>4. "active" \in DOMAIN NewBooks /\ NewBooks.active = FALSE
        BY DEF NewBooks
    <2> QED BY <1>1, <1>e, <2>1, <2>2, <2>3, <2>4 DEF Begin, BooksHold
<1>2. CASE NoAnswer
    BY <1>2, <1>0, <1>e DEF NoAnswer, BooksHold
<1>3. CASE check_head
    <2> DEFINE head == TreeHead(epoch, LatestHead(epoch).leaves)
    <2>1. epoch \in Windows
        BY <1>3, ServingWindow DEF check_head, WatchInv, ServedInv, ReplayInv
    <2>2. head = TreeHead(epoch, EpochSparks(epoch))
        BY <2>1, ServedHeadIsWhole DEF WatchInv, ServedInv, ReplayInv
    <2>3. /\ Faithful(Put(heads, epoch, head))
          /\ epoch \in DOMAIN heads => HeadAlarms(heads[epoch], head) = {}
        BY <1>0, <2>1, <2>2, WholeHeadJoins DEF WatchInv, ServedInv, ReplayInv
    <2>4. head.epoch = epoch
        BY DEF TreeHead
    <2> HIDE DEF head
    <2>5. PICK st : st = [heads |-> heads, alarms |-> alarms]
        OBVIOUS
    <2>6. "heads" \in DOMAIN st /\ "alarms" \in DOMAIN st /\ st.heads = heads /\ st.alarms = alarms
        BY <2>5
    <2>7. extends(st, head).heads = Put(heads, epoch, head) /\ extends(st, head).alarms = alarms
        BY <2>3, <2>4, <2>6, ExtendsQuietly
    <2>8. heads' = Put(heads, epoch, head) /\ alarms' = alarms
        BY <1>3, <2>5, <2>7 DEF check_head, head
    <2> QED BY <1>3, <1>0, <2>3, <2>8 DEF check_head, BooksHold
<1>4. CASE check_headers
    <2> DEFINE from == IF last_header = NoHeader THEN 0 ELSE last_header.epoch + 1
    <2>1. from \in 0..(MaxEpoch + 1)
        BY <1>0, ConstantTypes DEF NULL
    <2> HIDE DEF from
    <2>2. PICK st : st = [heads |-> heads, last |-> last_header, alarms |-> alarms]
        OBVIOUS
    <2>3. /\ "heads" \in DOMAIN st /\ "last" \in DOMAIN st /\ "alarms" \in DOMAIN st
          /\ st.heads = heads /\ st.last = last_header /\ st.alarms = alarms
        BY <2>2
    <2>4. Quiet(st)
        BY <1>0, <2>3 DEF Quiet
    <2>5. pc # "down"
        BY <1>4 DEF check_headers, Serving
    <2>6. Quiet(CheckAll(st, from, MaxEpoch))
        BY <2>1, <2>4, <2>5, CheckAllQuietly DEF WatchInv, ServedInv
    <2>7. /\ heads' = CheckAll(st, from, MaxEpoch).heads
          /\ last_header' = CheckAll(st, from, MaxEpoch).last
          /\ alarms' = CheckAll(st, from, MaxEpoch).alarms
        BY <1>4, <2>2 DEF check_headers, from
    <2> QED BY <1>4, <1>0, <2>6, <2>7 DEF check_headers, Quiet, BooksHold
<1>5. CASE ReadLatest
    <2>1. page' = NoPage \/ \E latest, to : page' = [NoPage EXCEPT !.latest = latest, !.to = to]
        BY <1>5 DEF ReadLatest
    <2>2. "headers" \in DOMAIN page' /\ DOMAIN page'.headers = {}
        BY <2>1, NoPageHolds
    <2> QED BY <1>5, <1>0, <2>2 DEF ReadLatest, BooksHold
<1>6. CASE ReadHeaders
    <2> DEFINE shown == [e \in {d \in DOMAIN headers : d <= page.to} |-> headers[e]]
    <2>1. \E worlds : page' = [page EXCEPT !.headers = shown, !.worlds = worlds]
        BY <1>6 DEF ReadHeaders
    <2>2. "headers" \in DOMAIN page' /\ page'.headers = shown
        <3> HIDE DEF shown
        <3> QED BY <1>0, <2>1
    <2>3. \A e \in DOMAIN shown \ {0} : PrevIsChallenge(e, shown[e].prev)
        BY HeaderPrevIs DEF WatchInv
    <2> HIDE DEF shown
    <2> QED BY <1>6, <1>0, <2>2, <2>3 DEF ReadHeaders, BooksHold
<1>7. CASE ReadMiracles
    <2>1. \E g, known : page' = [page EXCEPT !.given = g, !.known = known]
        BY <1>7 DEF ReadMiracles
    <2>2. "headers" \in DOMAIN page' /\ page'.headers = page.headers
        BY <1>0, <2>1
    <2> QED BY <1>7, <1>0, <2>2 DEF ReadMiracles, BooksHold
<1>8. CASE Replay
    <2>1. /\ \E S : replayed' \in Seq(S)
          /\ BooksHold' /\ alarms' \cap LogAlarms = {}
        BY <1>8, ReplayHolds
    <2>2. \/ page' = NoPage \/ page' = page
          \/ \E latest, to : page' = [NoPage EXCEPT !.latest = latest, !.to = to]
        BY <1>8 DEF Replay
    <2>3. \/ page' = page
          \/ "headers" \in DOMAIN page' /\ DOMAIN page'.headers = {}
        BY <2>2, NoPageHolds
    <2> QED BY <1>8, <1>0, <2>1, <2>3 DEF Replay
<1> QED BY <1>1, <1>2, <1>3, <1>4, <1>5, <1>6, <1>7, <1>8 DEF Watches

\* Every step of the server and of the watcher keeps it.
LEMMA NextWatchInv ==
    ASSUME DiskFaults = FALSE, WatchInv, [WatchNext]_all
    PROVE  WatchInv'
<1>1. ServedInv /\ ReplayInv /\ IInv /\ WindowInv /\ nature \in Natures
    BY DEF WatchInv, ServedInv, ReplayInv
<1>2. [Next]_vars /\ nature' = nature
    BY <1>1, WatchStepIsServerStep
<1>3. ServedInv'
    BY <1>1, <1>2, NextServedInv
<1>4. CASE Watches
    <2>1. /\ Faithful(heads') /\ last_header'.epoch \in NULL..MaxEpoch
          /\ \E S : replayed' \in Seq(S)
          /\ "headers" \in DOMAIN page'
          /\ \A e \in DOMAIN page'.headers \ {0} : PrevIsChallenge(e, page'.headers[e].prev)
          /\ BooksHold' /\ alarms' \cap LogAlarms = {}
        BY <1>4, WatchesHold
    <2>2. UNCHANGED <<windows, rows, logs>>
        BY <1>4 DEF Watches, Begin, NoAnswer, check_head, check_headers, ReadLatest, ReadHeaders,
                    ReadMiracles, Replay, vars, disk
    <2>3. Faithful(heads)'
        BY <2>1, <2>2 DEF Faithful, SeenHead, EpochSparks
    <2>4. PageHolds'
        BY <2>1, <2>2 DEF PageHolds, PrevIsChallenge
    <2>5. LogNeverAccused'
        BY <2>1 DEF LogNeverAccused, LogAlarms
    <2> QED BY <1>1, <1>2, <1>3, <2>1, <2>3, <2>4, <2>5 DEF WatchInv
<1>5. CASE ~Watches
    <2>1. UNCHANGED watcher
        BY <1>5 DEF WatchNext, ServerRuns, ServerDies, ServerAnswers, ServerAddsWish, all
    <2>2. UNCHANGED <<heads, last_header, replayed, books, page, alarms>>
        BY <2>1 DEF watcher
    <2>3. Faithful(heads)'
        <3>1. PICK hs : hs = heads
            OBVIOUS
        <3>2. Faithful(hs)'
            BY <1>1, <1>2, <3>1, FaithfulStays DEF WatchInv
        <3> QED BY <2>2, <3>1, <3>2 DEF Faithful
    <2>4. PageHolds'
        BY <1>1, <1>2, <2>2, PrevStaysChallenge DEF WatchInv, PageHolds
    <2>5. BooksHold' /\ LogNeverAccused'
        BY <2>2 DEF WatchInv, BooksHold, LogNeverAccused
    <2> QED BY <1>1, <1>2, <1>3, <2>2, <2>3, <2>4, <2>5 DEF WatchInv
<1> QED BY <1>4, <1>5

\* It holds before the server and the watcher have started.
LEMMA InitWatchInv == WatchInit => WatchInv
<1> SUFFICES ASSUME WatchInit PROVE WatchInv
    OBVIOUS
<1>1. ServedInv /\ nature \in Natures
    BY InitServedInv DEF WatchInit
<1>2. Faithful(heads)
    BY EmptyDomain DEF WatchInit, Faithful
<1>3. last_header.epoch \in NULL..MaxEpoch
    BY ConstantTypes DEF WatchInit, NoHeader, NULL
<1>4. replayed \in Seq(Nat)
    BY DEF WatchInit
<1>5. PageHolds
    BY NoPageHolds DEF WatchInit, PageHolds
<1>6. BooksHold
    BY DEF WatchInit, BooksHold, NewBooks
<1>7. LogNeverAccused
    BY DEF WatchInit, LogNeverAccused
<1> QED BY <1>1, <1>2, <1>3, <1>4, <1>5, <1>6, <1>7 DEF WatchInv

\* What the watcher says of the log itself is never wrong, in a world with or without
\* epochs from before the headers, whatever crashes and restarts there are between two
\* of its requests, unless a transaction of append fails.
THEOREM LogIsNeverAccused ==
    ASSUME DiskFaults = FALSE
    PROVE  WatchSafe => []LogNeverAccused
<1>1. WatchInv /\ [WatchNext]_all => WatchInv'
    BY NextWatchInv
<1>2. WatchInv => LogNeverAccused
    BY DEF WatchInv
<1> QED BY <1>1, <1>2, InitWatchInv, PTL DEF WatchSafe

-----------------------------------------------------------------------------
(* More of what holds of the server, whatever crashes and restarts there are. *)

\* The API shows the world in memory, except that an epoch is not shown before it is
\* published.
LiveIsShown ==
    Serving => live = IF pc \in {"record", "publish"} THEN Len(run) - 1 ELSE Len(run)

\* What is shown moves with the world when an epoch is published.
LEMMA NextLiveIsShown ==
    ASSUME IInv, LiveIsShown, [Next]_vars
    PROVE  LiveIsShown'
<1> USE DEF LiveIsShown, Serving
<1>1. CASE Start
    BY <1>1 DEF Start, Rollback, Resume, world
<1>2. CASE Step
    <2>1. \E x : run' = Append(run, x)
        BY <1>2 DEF Step
    <2>2. run \in Seq(Epochs) /\ Len(run) \in Nat
        BY LenProperties DEF IInv, TypeOK, WorldTypes
    <2>3. Len(run') = Len(run) + 1
        BY <2>1, <2>2
    <2> QED BY <1>2, <2>2, <2>3 DEF Step
<1>3. CASE LoopStep /\ ~Step
    BY <1>3 DEF LoopStep, Close, Select, RecordMiracles, Publish, SealEpoch, Save, OpenNext,
                CheckWishes, world
<1>4. ASSUME NEW h \in Handlers, Request(h) \/ Respond(h) \/ Faults(h)
      PROVE  UNCHANGED <<pc, run, live>>
    BY <1>4 DEF Request, Respond, Faults, BeginPropose, BeginSparks, Dismiss, FinishPropose,
                FinishSparks, AppendFails, ProposeFails, world
<1>5. CASE Crashes
    BY <1>5 DEF Crashes, Crash, CrashInRollback, CrashInOpen, CrashInClose, CrashInSelect,
                CrashInAppend, CrashInPropose, Die, world
<1>6. CASE UNCHANGED vars
    BY <1>6 DEF vars, world
<1> QED BY <1>1, <1>2, <1>3, <1>4, <1>5, <1>6 DEF Next

\* Every target follows from the count of the window before, which has closed.
Follows(e) ==
    /\ windows[e - 1].accepted # NULL
    /\ windows[e].target = next_target(windows[e - 1].target, windows[e - 1].accepted)
TargetsFollow == \A e \in DOMAIN windows : e - 1 \in DOMAIN windows => Follows(e)

\* A window that opens follows the one before: its header is signed, so its count is
\* known.
LEMMA OpeningFollows ==
    ASSUME IInv, HeadersCommit, TargetsFollow, pc \in {"starting", "open"},
           NEW hash, WindowRow(Len(run) + 1, hash)
    PROVE  TargetsFollow'
<1> DEFINE e == Len(run) + 1
<1>1. /\ Len(run) \in Nat /\ run = snapshot /\ Len(run) >= OldEpochs /\ Len(run) <= MaxEpoch
      /\ OldEpochs \in Nat /\ FirstWindow = OldEpochs + 1
      /\ DOMAIN windows \subseteq Windows
    BY LenProperties, ConstantTypes DEF IInv, TypeOK, WorldTypes, LoopInStep, LogTypes
<1>2. WindowsTo(Len(run)) \/ WindowsTo(Len(run) + 1)
    BY <1>1 DEF IInv, LoopInStep, WindowsSaved
<1>3. CASE e \in DOMAIN windows
    <2>1. windows' = windows
        BY <1>3 DEF WindowRow
    <2> QED BY <2>1 DEF TargetsFollow, Follows
<1>4. CASE e \notin DOMAIN windows
    <2>1. /\ DOMAIN windows' = DOMAIN windows \cup {e}
          /\ \A d \in DOMAIN windows : windows'[d] = windows[d]
          /\ windows'[e].target = TargetFor(e)
        BY <1>4 DEF WindowRow, Put
    <2>2. DOMAIN windows = FirstWindow..Len(run)
        <3>1. ~WindowsTo(Len(run) + 1)
            BY <1>1, <1>4 DEF WindowsTo
        <3> QED BY <1>2, <3>1 DEF WindowsTo
    <2>3. ASSUME e - 1 \in DOMAIN windows
          PROVE  windows[e - 1].accepted # NULL /\ TargetFor(e) = next_target(windows[e - 1].target, windows[e - 1].accepted)
        <3> DEFINE below == {d \in DOMAIN windows : d < e}
                   last == CHOOSE d \in below : \A c \in below : c <= d
        <3>1. below = FirstWindow..Len(run) /\ Len(run) \in below
            BY <1>1, <2>2, <2>3
        <3>2. last \in below /\ \A c \in below : c <= last
            <4>1. \A c \in below : c <= Len(run)
                BY <1>1, <3>1
            <4> QED BY <3>1, <4>1
        <3>3. last = Len(run)
            BY <1>1, <3>1, <3>2
        <3>4. Len(run) >= FirstWindow
            BY <1>1, <3>1
        <3>5. HeadersTo(Len(run))
            <4>1. snapshot # <<>>
                BY <1>1, <3>4, EmptySeq
            <4> QED BY <1>1, <4>1 DEF IInv, LoopInStep, HeadersSaved
        <3>6. Len(run) \in DOMAIN headers \ {0}
            <4>1. FirstHeader \in Nat /\ FirstHeader <= FirstWindow
                BY <1>1 DEF FirstHeader
            <4> QED BY <1>1, <3>4, <3>5, <4>1 DEF HeadersTo
        <3>7. windows[Len(run)].accepted = Len(headers[Len(run)].log) /\ headers[Len(run)].log = EpochSparks(Len(run))
            BY <1>1, <3>6 DEF HeadersCommit
        <3>8. EpochSparks(Len(run)) \in Seq(Sparks)
            <4>1. Len(run) \in Windows
                BY <1>1, <2>2, <3>1
            <4> QED BY <4>1, EpochSparksType DEF IInv, TypeOK
        <3>9. windows[Len(run)].accepted # NULL
            BY <3>7, <3>8, LenProperties DEF NULL
        <3>10. TargetFor(e) = next_target(windows[last].target, windows[last].accepted)
            BY <3>1, <3>3, <3>9 DEF TargetFor
        <3>11. e - 1 = Len(run)
            BY <1>1
        <3> HIDE DEF e, last, below
        <3> QED BY <3>3, <3>9, <3>10, <3>11
    <2>4. ASSUME NEW d \in DOMAIN windows', d - 1 \in DOMAIN windows'
          PROVE  Follows(d)'
        <3>1. CASE d = e
            <4>1. e - 1 \in DOMAIN windows
                BY <1>1, <2>1, <2>4, <3>1
            <4> QED BY <2>1, <2>3, <3>1, <4>1 DEF Follows
        <3>2. CASE d # e
            <4>1. d \in DOMAIN windows /\ d - 1 # e
                BY <1>1, <2>1, <2>2, <3>2
            <4>2. d - 1 \in DOMAIN windows
                BY <2>1, <2>4, <4>1
            <4> QED BY <2>1, <4>1, <4>2 DEF Follows, TargetsFollow
        <3> QED BY <3>1, <3>2
    <2> QED BY <2>4 DEF TargetsFollow
<1> QED BY <1>3, <1>4

\* A window that opens keeps it, and no other step gives a target.
LEMMA NextTargetsFollow ==
    ASSUME IInv, HeadersCommit, TargetsFollow, [Next]_vars
    PROVE  TargetsFollow'
<1>1. ASSUME UNCHANGED windows
      PROVE  TargetsFollow'
    BY <1>1 DEF TargetsFollow, Follows
<1>2. CASE Start
    BY <1>1, <1>2, OpeningFollows DEF Start, Rollback, Resume, OpenWindow
<1>3. CASE OpenNext
    BY <1>3, OpeningFollows DEF OpenNext, OpenWindow
<1>4. CASE CrashInOpen
    BY <1>4, OpeningFollows DEF CrashInOpen
<1>5. CASE Close
    <2>1. windows' = [windows EXCEPT ![epoch].accepted = Len(leaves)] /\ open
        BY <1>5 DEF Close, CloseWindow
    <2>2. epoch \in Nat /\ WindowsTo(epoch)
        <3>1. epoch = Len(run) + 1 /\ WindowsTo(epoch)
            BY <1>5 DEF Close, IInv, LoopInStep
        <3> QED BY <3>1, LenProperties DEF IInv, TypeOK, WorldTypes
    <2>3. \A d \in DOMAIN windows : windows[d] \in WindowRecords /\ d \in Nat
        BY ConstantTypes DEF IInv, TypeOK, LogTypes, Windows
    <2>4. /\ DOMAIN windows' = DOMAIN windows
          /\ \A d \in DOMAIN windows :
                windows'[d].target = windows[d].target
                /\ (d # epoch => windows'[d] = windows[d])
        BY <2>1, <2>3 DEF WindowRecords
    <2>5. \A d \in DOMAIN windows : d - 1 # epoch
        BY <2>2, <2>3, ConstantTypes DEF WindowsTo
    <2> QED BY <2>3, <2>4, <2>5 DEF TargetsFollow, Follows
<1>6. CASE LoopStep /\ ~Close /\ ~OpenNext
    BY <1>1, <1>6 DEF LoopStep, Step, RecordMiracles, Publish, SealEpoch, Save, Select,
                CheckWishes, disk
<1>7. ASSUME NEW h \in Handlers, Request(h) \/ Respond(h) \/ Faults(h)
      PROVE  windows' = windows
    BY <1>7 DEF Request, Respond, Faults, BeginPropose, BeginSparks, Dismiss, FinishPropose,
                FinishSparks, AppendFails, ProposeFails, disk
<1>8. CASE Crashes /\ ~CrashInOpen
    BY <1>1, <1>8 DEF Crashes, Crash, CrashInRollback, CrashInClose, CrashInSelect, CrashInAppend,
                CrashInPropose, disk
<1>9. CASE UNCHANGED vars
    BY <1>1, <1>9 DEF vars, disk
<1> QED BY <1>1, <1>2, <1>3, <1>4, <1>5, <1>6, <1>7, <1>8, <1>9 DEF Next

\* A row of a window keeps its target.
LEMMA TargetsStay ==
    ASSUME IInv, [Next]_vars, NEW d \in DOMAIN windows
    PROVE  windows'[d] = windows[d]
           \/ (Close /\ d = epoch /\ windows'[d].target = windows[d].target)
<1>1. ASSUME NEW e, NEW hash, WindowRow(e, hash)
      PROVE  windows'[d] = windows[d]
    BY <1>1 DEF WindowRow, Put
<1>2. CASE Close
    <2>1. windows[d] \in WindowRecords
        BY DEF IInv, TypeOK, LogTypes
    <2> QED BY <1>2, <2>1 DEF Close, CloseWindow, WindowRecords
<1>3. CASE Start \/ OpenNext \/ CrashInOpen
    BY <1>1, <1>3 DEF Start, Rollback, Resume, OpenNext, OpenWindow, CrashInOpen
<1>4. CASE LoopStep /\ ~Close /\ ~OpenNext
    BY <1>4 DEF LoopStep, Step, RecordMiracles, Publish, SealEpoch, Save, Select, CheckWishes, disk
<1>5. ASSUME NEW h \in Handlers, Request(h) \/ Respond(h) \/ Faults(h)
      PROVE  windows' = windows
    BY <1>5 DEF Request, Respond, Faults, BeginPropose, BeginSparks, Dismiss, FinishPropose,
                FinishSparks, AppendFails, ProposeFails, disk
<1>6. CASE Crashes /\ ~CrashInOpen
    BY <1>6 DEF Crashes, Crash, CrashInRollback, CrashInClose, CrashInSelect, CrashInAppend,
                CrashInPropose, disk
<1>7. CASE UNCHANGED vars
    BY <1>7 DEF vars, disk
<1> QED BY <1>2, <1>3, <1>4, <1>5, <1>6, <1>7 DEF Next

\* A spark weighs something: every target is below the whole space of hashes.
TargetsBelow == \A d \in DOMAIN windows : windows[d].target < HashSpace

\* So is the target of a window that opens.
LEMMA TargetForBelow ==
    ASSUME LogTypes, TargetsBelow, NEW e \in Windows, WindowsTo(e - 1) \/ WindowsTo(e)
    PROVE  TargetFor(e) < HashSpace
<1> DEFINE below == {d \in DOMAIN windows : d < e}
           last == CHOOSE d \in below : \A c \in below : c <= d
<1>1. e \in Nat \ {0} /\ below = FirstWindow..(e - 1)
    BY ConstantTypes DEF Windows, WindowsTo
<1>2. CASE below = {}
    BY <1>2, ConstantTypes, IntakeAssumption DEF TargetFor
<1>3. CASE below # {}
    <2>1. e - 1 \in below /\ \A c \in below : c <= e - 1
        BY <1>1, <1>3, ConstantTypes
    <2>2. last \in below
        BY <2>1
    <2>3. windows[last] \in WindowRecords /\ windows[last].target < HashSpace
        BY <2>2 DEF LogTypes, TargetsBelow
    <2>4. windows[last].accepted # NULL
              => next_target(windows[last].target, windows[last].accepted) < HashSpace
        BY <2>3, NextTargetType DEF WindowRecords
    <2>5. TargetFor(e) = IF windows[last].accepted = NULL THEN windows[last].target
                         ELSE next_target(windows[last].target, windows[last].accepted)
        BY <1>3 DEF TargetFor
    <2> QED BY <2>3, <2>4, <2>5
<1> QED BY <1>2, <1>3

\* Every step keeps the targets below.
LEMMA NextTargetsBelow ==
    ASSUME IInv, TargetsBelow, [Next]_vars
    PROVE  TargetsBelow'
<1>1. \A d \in DOMAIN windows : windows'[d].target < HashSpace
    BY TargetsStay DEF TargetsBelow
<1>2. ASSUME NEW hash, WindowRow(Len(run) + 1, hash), pc \in {"starting", "open"}
      PROVE  TargetsBelow'
    <2>1. /\ Len(run) \in Nat /\ Len(run) + 1 \in Windows
          /\ WindowsTo(Len(run)) \/ WindowsTo(Len(run) + 1)
        BY <1>2, LenProperties, ConstantTypes DEF IInv, TypeOK, WorldTypes, LoopInStep,
                                                  WindowsSaved, Windows
    <2>2. TargetFor(Len(run) + 1) < HashSpace
        BY <2>1, TargetForBelow DEF IInv, TypeOK
    <2>3. \A d \in DOMAIN windows' : d \in DOMAIN windows
              \/ windows'[d].target = TargetFor(Len(run) + 1)
        BY <1>2 DEF WindowRow, Put
    <2> QED BY <1>1, <2>2, <2>3 DEF TargetsBelow
<1>3. ASSUME DOMAIN windows' = DOMAIN windows
      PROVE  TargetsBelow'
    BY <1>1, <1>3 DEF TargetsBelow
<1>4. CASE Start \/ OpenNext \/ CrashInOpen
    BY <1>2, <1>3, <1>4 DEF Start, Rollback, Resume, OpenNext, OpenWindow, CrashInOpen
<1>5. CASE LoopStep /\ ~OpenNext
    BY <1>3, <1>5 DEF LoopStep, Close, CloseWindow, Step, RecordMiracles, Publish, SealEpoch,
                      Save, Select, CheckWishes, disk
<1>6. ASSUME NEW h \in Handlers, Request(h) \/ Respond(h) \/ Faults(h)
      PROVE  windows' = windows
    BY <1>6 DEF Request, Respond, Faults, BeginPropose, BeginSparks, Dismiss, FinishPropose,
                FinishSparks, AppendFails, ProposeFails, disk
<1>7. CASE Crashes /\ ~CrashInOpen
    BY <1>3, <1>7 DEF Crashes, Crash, CrashInRollback, CrashInClose, CrashInSelect, CrashInAppend,
                CrashInPropose, disk
<1>8. CASE UNCHANGED vars
    BY <1>3, <1>8 DEF vars, disk
<1> QED BY <1>3, <1>4, <1>5, <1>6, <1>7, <1>8 DEF Next

\* The spark ids that a window has seen are of wishes with a row.
SeenKnown == \A x \in seen : status[x[1]] # "none"

\* Ids of sparks that are paid for are.
LEMMA PaidIds ==
    ASSUME NEW st, NEW sq \in Seq(Sparks), Paid(st, sq)
    PROVE  \A x \in Ids(sq) : st[x[1]] # "none"
BY DEF Ids, SparkId, Paid

\* A spark is seen only once its wish has a row, and rows stay.
LEMMA NextSeenKnown ==
    ASSUME DiskFaults = FALSE, IInv, SeenKnown, LogsPaid, RequestsPaid, WindowInv, [Next]_vars
    PROVE  SeenKnown'
<1>0. \A x \in seen : status'[x[1]] # "none"
    <2>1. \A x \in seen : x[1] \in Wishes
        BY DEF IInv, TypeOK, MemoryTypes
    <2> QED BY <2>1, RowsStay DEF SeenKnown
<1>1. CASE UNCHANGED seen
    BY <1>0, <1>1 DEF SeenKnown
<1>2. ASSUME NEW hash, OpenWindow(Len(run) + 1, hash)
      PROVE  SeenKnown'
    <2>1. Len(run) + 1 \in Windows
        BY LenProperties, ConstantTypes DEF IInv, TypeOK, WorldTypes, LoopInStep, Windows
    <2>2. seen' = Ids(EpochSparks(Len(run) + 1))
        BY <1>2 DEF OpenWindow, SeenOf
    <2>3. /\ EpochSparks(Len(run) + 1) \in Seq(Sparks)
          /\ Paid(status, EpochSparks(Len(run) + 1))
        BY <2>1, EpochSparksType DEF IInv, TypeOK, LogsPaid
    <2>4. Paid(status', EpochSparks(Len(run) + 1))
        BY <2>3, StillPaid
    <2> QED BY <2>2, <2>3, <2>4, PaidIds DEF SeenKnown
<1>3. CASE Start \/ OpenNext
    BY <1>1, <1>2, <1>3 DEF Start, Rollback, Resume, OpenNext, memory
<1>4. CASE LoopStep /\ ~OpenNext
    BY <1>1, <1>4 DEF LoopStep, Close, CloseWindow, Step, RecordMiracles, Publish, SealEpoch, Save,
                Select, CheckWishes, memory
<1>5. ASSUME NEW h \in Handlers, FinishPropose(h) \/ FinishSparks(h)
      PROVE  SeenKnown'
    <2> DEFINE r == req[h]
    <2>1. r \in Requests /\ r.batch \in Seq(Sparks)
        BY DEF IInv, TypeOK, RequestTypes, Requests
    <2>2. PICK batch \in Seq(Sparks) : Paid(status', batch) /\ AppendSparks(r.ticket, batch)
        <3>1. CASE FinishSparks(h)
            <4>1. PICK passed \in Passed(r) : AppendSparks(r.ticket, passed)
                BY <3>1 DEF FinishSparks
            <4>2. Paid(status', r.batch)
                BY <2>1, <3>1, StillPaid DEF FinishSparks, RequestsPaid
            <4> HIDE DEF r
            <4>3. passed \in Seq(Sparks) /\ Paid(status', passed)
                BY <2>1, <4>1, <4>2, PassedArePaid
            <4> QED BY <4>1, <4>3
        <3>2. CASE FinishPropose(h)
            <4>1. Len(r.batch) = 1
                BY <3>2 DEF FinishPropose, IInv, TypeOK, RequestTypes
            <4>2. DOMAIN r.batch = {1}
                BY <2>1, <4>1, LenProperties
            <4>3. status'[r.batch[1].wish] = "open"
                BY <3>2, ProposedWish DEF FinishPropose, AddWish, IInv, TypeOK, WishTypes
            <4>4. AppendSparks(r.ticket, r.batch)
                BY <3>2 DEF FinishPropose
            <4> HIDE DEF r
            <4>5. Paid(status', r.batch)
                BY <4>2, <4>3 DEF Paid
            <4> QED BY <2>1, <4>4, <4>5
        <3> QED BY <1>5, <3>1, <3>2
    <2> HIDE DEF r
    <2>3. PICK new \in Placed(r.ticket, batch) : seen' = seen \cup Ids(new)
        BY <2>2 DEF AppendSparks, Remember
    <2>4. new \in Seq(Sparks) /\ Paid(status', new)
        BY <2>2, <2>3, PlacedArePaid
    <2>5. \A x \in Ids(new) : status'[x[1]] # "none"
        BY <2>4, PaidIds
    <2> QED BY <1>0, <2>3, <2>5 DEF SeenKnown
<1>6. ASSUME NEW h \in Handlers, Request(h) \/ Dismiss(h)
      PROVE  UNCHANGED seen
    BY <1>6 DEF Request, Dismiss, BeginPropose, BeginSparks, memory
<1>7. \A h \in Handlers : ~Faults(h)
    BY DEF Faults, AppendFails, ProposeFails
<1>8. CASE Crashes
    <2>1. UNCHANGED seen \/ seen' = {}
        BY <1>8 DEF Crashes, Crash, CrashInRollback, CrashInOpen, CrashInClose, CrashInSelect,
                    CrashInAppend, CrashInPropose, Die, MemoryLost, memory
    <2> QED BY <1>1, <2>1 DEF SeenKnown
<1>9. CASE UNCHANGED vars
    BY <1>1, <1>9 DEF vars, memory
<1> QED BY <1>1, <1>3, <1>4, <1>5, <1>6, <1>7, <1>8, <1>9 DEF Next, Respond

\* A wish that has no row has no work.
NoneIdle == \A w \in Wishes : status[w] = "none" => work[w] = 0

\* Only a wish with a spark in a log is given work, and such a wish has a row.
LEMMA NextNoneIdle ==
    ASSUME IInv, WindowInv, LogsPaid, WindowsKnown, NoneIdle, [Next]_vars
    PROVE  NoneIdle'
<1>1. CASE Close
    <2>1. \A w \in Wishes : status[w] = "none" => work'[w] = work[w]
        BY <1>1 DEF Close, CloseWindow, WorkWith
    <2> QED BY <2>1, RowsStay DEF NoneIdle
<1>2. CASE ~Close
    BY <1>2, OtherWork, RowsStay DEF NoneIdle, WorkStays
<1> QED BY <1>1, <1>2

\* The epochs from before the headers are given no miracles.
OldUntouched == \A d \in 1..OldEpochs : miracles[d] = <<>>

\* Miracles are recorded for the epoch in hand only.
LEMMA NextOldUntouched ==
    ASSUME IInv, OldUntouched, [Next]_vars
    PROVE  OldUntouched'
<1>1. ASSUME NEW d \in 1..OldEpochs
      PROVE  miracles'[d] = <<>>
    <2>1. d \in 1..MaxEpoch
        BY ConstantTypes
    <2>2. RecordMiracles => d # Len(run)
        BY ConstantTypes DEF RecordMiracles, IInv, LoopInStep
    <2> QED BY <2>1, <2>2, MiraclesStay DEF OldUntouched
<1> QED BY <1>1 DEF OldUntouched

-----------------------------------------------------------------------------
(* The server and the watcher, until the server is started again. *)

\* What holds whatever happens to the server, unless a transaction of append fails.
SteadyInv ==
    /\ WatchInv /\ ChosenInHand
    /\ LogsPaid /\ RequestsPaid /\ WindowsKnown
    /\ LiveIsShown /\ TargetsFollow /\ TargetsBelow /\ SeenKnown /\ NoneIdle /\ OldUntouched

\* Every step of the server and of the watcher keeps all of it.
LEMMA NextSteadyInv ==
    ASSUME DiskFaults = FALSE, SteadyInv, [WatchNext]_all
    PROVE  SteadyInv' /\ [Next]_vars /\ nature' = nature
<1>1. WatchInv /\ ServedInv /\ ReplayInv /\ IInv /\ WindowInv /\ HeadersCommit /\ nature \in Natures
    BY DEF SteadyInv, WatchInv, ServedInv, ReplayInv
<1>2. [Next]_vars /\ nature' = nature
    BY <1>1, WatchStepIsServerStep
<1>3. WatchInv'
    BY <1>1, NextWatchInv
<1>4. ChosenInHand' /\ LogsPaid' /\ RequestsPaid' /\ WindowsKnown'
    BY <1>1, <1>2, NextChosenInHand, NextPaid, NextRequestsPaid, NextWindowsKnown DEF SteadyInv
<1>5. LiveIsShown' /\ TargetsFollow' /\ TargetsBelow'
    BY <1>1, <1>2, NextLiveIsShown, NextTargetsFollow, NextTargetsBelow DEF SteadyInv
<1>6. SeenKnown' /\ NoneIdle' /\ OldUntouched'
    BY <1>1, <1>2, NextSeenKnown, NextNoneIdle, NextOldUntouched DEF SteadyInv
<1> QED BY <1>2, <1>3, <1>4, <1>5, <1>6 DEF SteadyInv

\* Nothing has died since the first start.
Unbroken == "restart" \notin excuses

\* The last epoch that has been sealed: the world is stepped before.
Done == IF pc \in {"record", "publish", "seal"} THEN Len(run) - 1 ELSE Len(run)

\* A header is signed for every epoch up to it, and the one in hand is the next.
LEMMA DoneIs ==
    ASSUME IInv, Serving
    PROVE  /\ Done \in Nat /\ OldEpochs <= Done /\ Done <= Len(run) /\ Len(run) <= Done + 1
           /\ Len(run) \in Nat /\ Len(run) <= MaxEpoch /\ HeadersTo(Done)
           /\ open => epoch = Len(run) + 1 /\ Done = Len(run)
           /\ pc \in {"wait", "beacon", "step"} => epoch = Done + 1 /\ Done = Len(run)
           /\ pc \in {"record", "publish", "seal"} => Len(run) = Done + 1
           /\ pc \in {"save", "open", "soft"} => Done = Len(run)
           /\ pc \in {"save", "open"} => Len(run) > OldEpochs
           /\ WindowsTo(epoch) /\ (epoch = Len(run) + 1 \/ epoch = Len(run))
<1>1. /\ Len(run) \in Nat /\ Len(snapshot) \in Nat /\ OldEpochs \in Nat
      /\ FirstWindow = OldEpochs + 1 /\ pc \in Stages
    BY LenProperties, ConstantTypes DEF IInv, TypeOK, WorldTypes
<1> QED BY <1>1 DEF Done, IInv, LoopInStep, Serving, Stages

\* A step of a server that goes on is none of these.
LEMMA NothingDies ==
    ASSUME SteadyInv, Unbroken', [WatchNext]_all
    PROVE  /\ Unbroken /\ excuses \subseteq excuses'
           /\ ~ServerDies
           /\ Serving => ~Rollback /\ ~CrashInRollback /\ \A failing : ~Resume(failing)
<1>1. ~ServerDies
    BY DEF ServerDies, Unbroken
<1>2. excuses \subseteq excuses'
    BY <1>1 DEF WatchNext, ServerRuns, ServerAnswers, ServerAddsWish, HeadIsLate, HeadInTime,
                Watches, Begin, NoAnswer, check_head, check_headers, ReadLatest, ReadHeaders,
                ReadMiracles, Replay, all
<1>3. Serving => ~Rollback /\ ~CrashInRollback /\ \A failing : ~Resume(failing)
    BY DEF Serving, Rollback, CrashInRollback, Resume
<1> QED BY <1>1, <1>2, <1>3 DEF Unbroken

\* Once the server serves, it goes on to, and what it has sealed and shown stays.
LEMMA SealedStays ==
    ASSUME SteadyInv, Serving, Unbroken', [WatchNext]_all
    PROVE  /\ Serving' /\ live <= live'
           /\ SealEpoch => Done' = Done + 1
           /\ ~SealEpoch => Done' = Done
           /\ Step => Len(run') = Len(run) + 1 /\ \E x : run' = Append(run, x)
           /\ ~Step => run' = run
           /\ \A e \in DOMAIN headers : e \in DOMAIN headers' /\ headers'[e] = headers[e]
           /\ \A e \in 1..live : miracles'[e] = miracles[e]
           /\ \A e \in 1..Done : miracles'[e] = miracles[e]
           /\ \A e \in FirstWindow..Len(run) :
                 /\ e \in Windows /\ e \in DOMAIN windows
                 /\ windows'[e] = windows[e] /\ EpochSparks(e)' = EpochSparks(e)
<1>0. /\ IInv /\ WindowInv /\ ReplayInv /\ nature \in Natures
      /\ LiveIsShown /\ [Next]_vars /\ nature' = nature
    BY WatchStepIsServerStep DEF SteadyInv, WatchInv, ServedInv, ReplayInv
<1>1. /\ ~ServerDies /\ ~Rollback /\ ~CrashInRollback /\ \A failing : ~Resume(failing)
    BY NothingDies
<1>2. /\ Done \in Nat /\ OldEpochs <= Done /\ Done <= Len(run) /\ Len(run) <= Done + 1
      /\ Len(run) \in Nat /\ Len(run) <= MaxEpoch /\ HeadersTo(Done) /\ OldEpochs \in Nat
      /\ (open => epoch = Len(run) + 1 /\ Done = Len(run))
      /\ WindowsTo(epoch) /\ (epoch = Len(run) + 1 \/ epoch = Len(run))
      /\ FirstWindow = OldEpochs + 1 /\ MaxEpoch \in Nat /\ FirstHeader <= FirstWindow
    BY <1>0, DoneIs, ConstantTypes DEF FirstHeader
<1>3. live = IF pc \in {"record", "publish"} THEN Len(run) - 1 ELSE Len(run)
    BY <1>0 DEF LiveIsShown
<1>4. Step => Len(run') = Len(run) + 1 /\ \E x : run' = Append(run, x)
    <2>1. run \in Seq(Epochs)
        BY <1>0 DEF IInv, TypeOK, WorldTypes
    <2>2. Step => \E x : run' = Append(run, x)
        BY DEF Step
    <2> QED BY <2>1, <2>2
<1>7. /\ Serving' /\ live <= live'
      /\ SealEpoch => Done' = Done + 1
      /\ ~SealEpoch => Done' = Done
      /\ ~Step => run' = run
    <2>1. CASE Step
        BY <2>1, <1>2, <1>3, <1>4 DEF Step, SealEpoch, Serving, Done
    <2>2. ASSUME ServerRuns, ~Step
          PROVE  \/ Close \/ (\E tie \in Ties : Select(tie, Here.closed))
                 \/ RecordMiracles \/ Publish \/ SealEpoch \/ Save \/ OpenNext
                 \/ CheckWishes(Here.hopeless)
        BY <2>2, <1>1 DEF ServerRuns
    <2>3. CASE ServerRuns /\ ~Step
        <3>1. run' = run /\ pc # pc'
            BY <2>2, <2>3 DEF Close, Select, RecordMiracles, Publish, SealEpoch, Save, OpenNext,
                              CheckWishes, world
        <3>2. Serving' /\ (live' = live \/ (Publish /\ live' = Len(run)))
            BY <2>2, <2>3 DEF Close, Select, RecordMiracles, Publish, SealEpoch, Save, OpenNext,
                              CheckWishes, Serving
        <3>3. /\ SealEpoch => pc = "seal" /\ pc' = "save"
              /\ ~SealEpoch => (pc \in {"record", "publish", "seal"}
                                   <=> pc' \in {"record", "publish", "seal"})
            BY <2>2, <2>3 DEF Close, Select, RecordMiracles, Publish, SealEpoch, Save, OpenNext,
                              CheckWishes
        <3> QED BY <1>2, <1>3, <2>3, <3>1, <3>2, <3>3 DEF Done, Publish
    <2>4. CASE ~ServerRuns
        <3>1. UNCHANGED <<pc, run, live>>
            BY <1>1, <2>4 DEF WatchNext, ServerAnswers, ServerAddsWish, BeginPropose, BeginSparks, Dismiss,
                    FinishSparks, FinishPropose, Watches, Begin, NoAnswer, check_head,
                    check_headers, ReadLatest, ReadHeaders, ReadMiracles, Replay, vars, all, world
        <3>2. ~SealEpoch /\ ~Step
            BY <3>1 DEF SealEpoch, Step
        <3> QED BY <1>2, <1>3, <3>1, <3>2 DEF Serving, Done
    <2> QED BY <2>1, <2>3, <2>4
<1>8. \A e \in DOMAIN headers : e \in DOMAIN headers' /\ headers'[e] = headers[e]
    <2>1. \A e \in DOMAIN headers : e <= Done /\ e \in Int
        BY <1>0, <1>2 DEF HeadersTo, IInv, TypeOK, ChainTypes
    <2>2. SealEpoch => Done = Len(run) - 1
        BY DEF SealEpoch, Done
    <2>3. \A e \in DOMAIN headers : e \in DOMAIN headers'
        BY <1>0, <1>1, HeadersStay
    <2>4. pc # "starting"
        BY DEF Serving
    <2> QED BY <1>0, <1>2, <2>1, <2>2, <2>3, <2>4, HeadersStay
<1>9. ASSUME NEW e \in 1..Len(run), ~(RecordMiracles /\ e = Len(run))
      PROVE  miracles'[e] = miracles[e]
    <2>1. e \in 1..MaxEpoch
        BY <1>2
    <2> QED BY <1>0, <1>1, <1>9, <2>1, MiraclesStay
<1>10. \A e \in 1..live : miracles'[e] = miracles[e]
    <2>1. RecordMiracles => live = Len(run) - 1
        BY <1>3 DEF RecordMiracles
    <2>2. \A e \in 1..live : e \in 1..Len(run) /\ ~(RecordMiracles /\ e = Len(run))
        BY <1>2, <1>3, <2>1
    <2> QED BY <1>9, <2>2
<1>11. \A e \in 1..Done : miracles'[e] = miracles[e]
    <2>1. RecordMiracles => Done = Len(run) - 1
        BY DEF RecordMiracles, Done
    <2>2. \A e \in 1..Done : e \in 1..Len(run) /\ ~(RecordMiracles /\ e = Len(run))
        BY <1>2, <2>1
    <2> QED BY <1>9, <2>2
<1>12. ASSUME NEW e \in FirstWindow..Len(run)
       PROVE  /\ e \in Windows /\ e \in DOMAIN windows
              /\ windows'[e] = windows[e] /\ EpochSparks(e)' = EpochSparks(e)
    <2>1. e \in Windows /\ e \in DOMAIN windows
        BY <1>2 DEF Windows, WindowsTo
    <2>2. Close => e # epoch
        BY <1>2 DEF Close, CloseWindow
    <2>3. windows'[e] = windows[e]
        BY <1>0, <2>1, <2>2, TargetsStay
    <2>4. open => e # epoch
        BY <1>2
    <2>5. EpochSparks(e)' = EpochSparks(e)
        BY <1>0, <2>1, <2>4, LogStep DEF SameLogs, Gains
    <2> QED BY <2>1, <2>3, <2>5
<1> QED BY <1>4, <1>7, <1>8, <1>10, <1>11, <1>12

-----------------------------------------------------------------------------
(* The books that follow the server from the first window on. *)

\* The books of the epoch before, with the log of an epoch and all wishes known.
Opened(b, e) == AddWindow(b, e, log_of(e), Wishes)

\* The choice made from books in an epoch, and what follows from it in them.
ChoiceIn(b, e, tie) ==
    select({[id |-> w, action |-> ActionOf[w], work |-> b.work[w], share |-> 100] :
               w \in Waiting(b) \ nature[e - 1].closed}, b.price, PriceMin, tie)
Chosen(b, e, tie) == ChoiceIn(Opened(b, e), e, tie)
Picked(b, e, tie) == AfterChoice(Opened(b, e), Chosen(b, e, tie))
Executed(b, e, tie) == Settled(Picked(b, e, tie), e, Chosen(b, e, tie).selected)
Softened(b, e) == [WithoutHopeless(b, e) EXCEPT !.active = TRUE]
Followed(b, e, tie) == Softened(Executed(b, e, tie), e)

\* The fields that books have.
Shaped(b) == DOMAIN b = {"active", "price", "last", "status", "work"}

\* Books that are new.
LEMMA NewBooksAre ==
    /\ Shaped(NewBooks) /\ NewBooks.active = FALSE /\ NewBooks.price = PriceMin
    /\ NewBooks.last.epoch = NULL
    /\ \A w \in Wishes : NewBooks.status[w] = "none" /\ NewBooks.work[w] = 0
BY DEF NewBooks, NoWindow, Shaped

\* What a log adds to books, wish by wish.
Enters(b, log, e, w) == b.status[w] = "none" /\ Credit(log, e)[w] > 0
StandsAs(b, log, e, w) == IF Enters(b, log, e, w) THEN "open" ELSE b.status[w]
Added(b, a, e, log) ==
    /\ a.price = b.price
    /\ a.last = [epoch |-> e, target |-> log.window.target, accepted |-> Len(log.sparks)]
    /\ \A w \in Wishes :
          /\ a.work[w] = b.work[w] + Credit(log, e)[w]
          /\ a.status[w] = IF StandsAs(b, log, e, w) = "open" /\ ExpiresOf[w] <= e
                           THEN "expired" ELSE StandsAs(b, log, e, w)

\* A log is added to books as that says.
LEMMA AddWindowAdds ==
    ASSUME NEW b, Shaped(b), NEW e, NEW log
    PROVE  Shaped(AddWindow(b, e, log, Wishes)) /\ Added(b, AddWindow(b, e, log, Wishes), e, log)
<1> DEFINE a == AddWindow(b, e, log, Wishes)
<1>1. {w \in Wishes : b.status[w] # "none" \/ w \in Wishes} = Wishes
    OBVIOUS
<1>2. /\ a.work = [w \in Wishes |-> b.work[w] + Credit(log, e)[w]]
      /\ a.price = b.price
      /\ a.last = [epoch |-> e, target |-> log.window.target, accepted |-> Len(log.sparks)]
      /\ a.status = [w \in Wishes |->
                        IF StandsAs(b, log, e, w) = "open" /\ ExpiresOf[w] <= e
                        THEN "expired" ELSE StandsAs(b, log, e, w)]
      /\ Shaped(a)
    BY <1>1 DEF AddWindow, StandsAs, Enters, Shaped
<1> QED BY <1>2 DEF Added

\* A wish that the log has no spark for gets no credit.
LEMMA NoCredit ==
    ASSUME NEW log, NEW e, NEW w \in Wishes, SparksFor(w, log.sparks) = {}
    PROVE  Credit(log, e)[w] = 0 * SparkWeight(log.window.target)
<1>1. {i \in SparksFor(w, log.sparks) : log.sparks[i].mined = e} = {}
    OBVIOUS
<1> QED BY <1>1, FS_EmptySet DEF Credit

\* It is enough to know the wishes that the log has sparks for.
LEMMA KnowingEnough ==
    ASSUME NEW b, NEW e, NEW log, NEW known, SparkWeight(log.window.target) \in Nat,
           \A w \in Wishes : SparksFor(w, log.sparks) # {} => w \in known
    PROVE  AddWindow(b, e, log, known) = AddWindow(b, e, log, Wishes)
<1> DEFINE listed(k) == {w \in Wishes : b.status[w] # "none" \/ w \in k}
<1>1. \A w \in Wishes : w \notin listed(known) => Credit(log, e)[w] = 0
    <2>1. \A w \in Wishes : w \notin listed(known) => SparksFor(w, log.sparks) = {}
        OBVIOUS
    <2> QED BY <2>1, NoCredit
<1>2. listed(Wishes) = Wishes
    OBVIOUS
<1> DEFINE credit == Credit(log, e)
           wk(k) == [w \in Wishes |-> b.work[w] + IF w \in listed(k) THEN credit[w] ELSE 0]
           stands(k, w) == IF b.status[w] = "none" /\ w \in listed(k) /\ credit[w] > 0 THEN "open"
                           ELSE b.status[w]
           st(k) == [w \in Wishes |-> IF stands(k, w) = "open" /\ ExpiresOf[w] <= e
                                      THEN "expired" ELSE stands(k, w)]
<1>3. wk(known) = wk(Wishes)
    BY <1>1, <1>2
<1>4. st(known) = st(Wishes)
    <2>1. \A w \in Wishes : stands(known, w) = stands(Wishes, w)
        <3> HIDE DEF credit
        <3>1. \A w \in Wishes : w \notin listed(known) => ~(credit[w] > 0)
            BY <1>1 DEF credit
        <3> QED BY <1>2, <3>1
    <2> QED BY <2>1
<1>5. \A k : AddWindow(b, e, log, k) =
                [b EXCEPT !.work = wk(k), !.status = st(k),
                          !.last = [epoch |-> e, target |-> log.window.target,
                                    accepted |-> Len(log.sparks)]]
    BY DEF AddWindow
<1> HIDE DEF wk, st
<1> QED BY <1>3, <1>4, <1>5

\* The choice and the outcomes in books, wish by wish.
LEMMA ChoiceFields ==
    ASSUME NEW b, Shaped(b), NEW chosen
    PROVE  /\ Shaped(AfterChoice(b, chosen))
           /\ AfterChoice(b, chosen).price = chosen.next_price
           /\ AfterChoice(b, chosen).last = b.last
           /\ AfterChoice(b, chosen).work = b.work
           /\ \A w \in Wishes : AfterChoice(b, chosen).status[w] =
                 IF w \in ToSet(chosen.selected) THEN "selected"
                 ELSE IF w \in ToSet(chosen.ready) THEN "ready" ELSE b.status[w]
BY DEF AfterChoice, Shaped

\* What the world did changes the statuses only.
LEMMA SettledFields ==
    ASSUME NEW b, Shaped(b), NEW e, NEW sel
    PROVE  /\ Shaped(Settled(b, e, sel))
           /\ Settled(b, e, sel).price = b.price
           /\ Settled(b, e, sel).last = b.last
           /\ Settled(b, e, sel).work = b.work
           /\ \A w \in Wishes : Settled(b, e, sel).status[w] =
                 IF w \in ToSet(sel) THEN StatusOfOutcome(nature[e].outcome[w]) ELSE b.status[w]
BY DEF Settled, Shaped

\* Neither does the soft check change more, but that the books now follow.
LEMMA FollowedFields ==
    ASSUME NEW b, Shaped(b), NEW e
    PROVE  /\ Shaped(Softened(b, e)) /\ Softened(b, e).active = TRUE
           /\ Softened(b, e).price = b.price /\ Softened(b, e).last = b.last
           /\ Softened(b, e).work = b.work
           /\ \A w \in Wishes : Softened(b, e).status[w] =
                 IF w \in Waiting(b) /\ w \in nature[e].hopeless THEN "invalidated" ELSE b.status[w]
BY DEF Softened, WithoutHopeless, Shaped

\* Books that follow an epoch keep their shape.
LEMMA FollowingIsShaped ==
    ASSUME NEW b, Shaped(b), NEW e, NEW tie
    PROVE  /\ Shaped(Opened(b, e)) /\ Shaped(Picked(b, e, tie)) /\ Shaped(Executed(b, e, tie))
           /\ Shaped(Followed(b, e, tie)) /\ Followed(b, e, tie).active = TRUE
           /\ Followed(b, e, tie).last = [epoch |-> e, target |-> windows[e].target,
                                          accepted |-> Len(EpochSparks(e))]
<1>1. Shaped(Opened(b, e)) /\ Added(b, Opened(b, e), e, log_of(e))
    BY AddWindowAdds DEF Opened
<1>2. Shaped(Picked(b, e, tie)) /\ Picked(b, e, tie).last = Opened(b, e).last
    BY <1>1, ChoiceFields DEF Picked
<1>3. Shaped(Executed(b, e, tie)) /\ Executed(b, e, tie).last = Opened(b, e).last
    BY <1>2, SettledFields DEF Executed
<1>4. /\ Shaped(Followed(b, e, tie)) /\ Followed(b, e, tie).active = TRUE
      /\ Followed(b, e, tie).last = Opened(b, e).last
    BY <1>3, FollowedFields DEF Followed
<1> QED BY <1>1, <1>2, <1>3, <1>4 DEF Added, log_of

\* What the books become depends on the log of the epoch and on what the world may do.
LEMMA SameRules ==
    ASSUME nature' = nature, NEW e, log_of(e)' = log_of(e), NEW b, NEW tie
    PROVE  /\ Opened(b, e)' = Opened(b, e) /\ Chosen(b, e, tie)' = Chosen(b, e, tie)
           /\ Picked(b, e, tie)' = Picked(b, e, tie) /\ Executed(b, e, tie)' = Executed(b, e, tie)
           /\ Followed(b, e, tie)' = Followed(b, e, tie)
<1>1. Opened(b, e)' = Opened(b, e)
    BY DEF Opened
<1>2. Chosen(b, e, tie)' = Chosen(b, e, tie)
    BY <1>1 DEF Chosen, ChoiceIn
<1>3. Picked(b, e, tie)' = Picked(b, e, tie)
    BY <1>1, <1>2 DEF Picked
<1>4. Executed(b, e, tie)' = Executed(b, e, tie)
    BY <1>2, <1>3 DEF Executed, Settled
<1>5. Followed(b, e, tie)' = Followed(b, e, tie)
    BY <1>4 DEF Followed, Softened, WithoutHopeless
<1> QED BY <1>1, <1>2, <1>3, <1>4, <1>5

\* A wish that books miss because its first spark is in the open window: it is in no
\* log yet that they have seen.
JustCame(b, w) ==
    /\ b.status[w] = "none" /\ b.work[w] = 0
    /\ status[w] = "open" /\ work[w] = 0
    /\ open /\ SparksFor(w, rows[epoch]) # {}
    /\ w \notin nature[Len(run)].hopeless

\* Books and the ledger of the server are the same, but for such wishes.
Same(b, w) == b.status[w] = status[w] /\ b.work[w] = work[w]
Exactly(b) == b.price = CurrentPrice /\ \A w \in Wishes : Same(b, w)
Agrees(b) == b.price = CurrentPrice /\ \A w \in Wishes : JustCame(b, w) \/ Same(b, w)

\* The open window weighs its sparks alike, and its log is the rows.
LEMMA OpenLog ==
    ASSUME SteadyInv, open
    PROVE  /\ epoch \in Windows /\ epoch \in DOMAIN windows
           /\ EpochSparks(epoch) = rows[epoch] /\ rows[epoch] \in Seq(Sparks)
           /\ \A i \in DOMAIN rows[epoch] : rows[epoch][i].mined = epoch
           /\ \A w \in Wishes : status[w] = "none" => SparksFor(w, rows[epoch]) = {}
           /\ SparkWeight(windows[epoch].target) \in Nat \ {0}
<1>1. IInv /\ WindowInv /\ SparksInTheirWindow /\ LogsPaid /\ TargetsBelow
    BY DEF SteadyInv, WatchInv, ServedInv, ReplayInv
<1>2. epoch \in Windows
    BY <1>1, OpenWindowIsOne
<1>3. epoch \in DOMAIN windows
    <2>1. epoch = Len(run) + 1 /\ WindowsTo(epoch) /\ OldEpochs <= Len(snapshot) /\ run = snapshot
        BY <1>1 DEF IInv, LoopInStep
    <2>2. Len(run) \in Nat
        BY <1>1, LenProperties DEF IInv, TypeOK, WorldTypes
    <2> QED BY <2>1, <2>2, ConstantTypes DEF WindowsTo
<1>4. EpochSparks(epoch) = rows[epoch]
    BY <1>1 DEF WindowInv, EpochSparks
<1>5. rows[epoch] \in Seq(Sparks)
    BY <1>1, <1>2 DEF IInv, TypeOK, LogTypes
<1>6. \A i \in DOMAIN rows[epoch] : rows[epoch][i].mined = epoch
    BY <1>1, <1>2, <1>4 DEF SparksInTheirWindow
<1>7. \A w \in Wishes : status[w] = "none" => SparksFor(w, rows[epoch]) = {}
    BY <1>1, <1>2, <1>4 DEF LogsPaid, Paid, SparksFor
<1>8. SparkWeight(windows[epoch].target) \in Nat \ {0}
    <2>1. windows[epoch].target \in Nat \ {0} /\ windows[epoch].target < HashSpace
        BY <1>1, <1>3 DEF IInv, TypeOK, LogTypes, WindowRecords, TargetsBelow
    <2> DEFINE t == windows[epoch].target
    <2>2. \A x \in Nat \ {0} : x < HashSpace => HashSpace \div x \in Nat \ {0}
        BY ConstantTypes
    <2> QED BY <2>1, <2>2 DEF SparkWeight
<1> QED BY <1>2, <1>3, <1>4, <1>5, <1>6, <1>7, <1>8

\* As many sparks as there are for a wish.
LEMMA SparksCounted ==
    ASSUME NEW sq \in Seq(Sparks), NEW w
    PROVE  /\ Cardinality(SparksFor(w, sq)) \in Nat
           /\ Cardinality(SparksFor(w, sq)) = 0 <=> SparksFor(w, sq) = {}
<1>1. IsFiniteSet(SparksFor(w, sq))
    <2>1. DOMAIN sq = 1..Len(sq) /\ Len(sq) \in Nat
        BY LenProperties
    <2>2. IsFiniteSet(DOMAIN sq) /\ SparksFor(w, sq) \subseteq DOMAIN sq
        BY <2>1, FS_Interval DEF SparksFor
    <2> QED BY <2>2, FS_Subset
<1> QED BY <1>1, FS_CardinalityType, FS_EmptySet

\* Where the server closes a window, the books with its log are its ledger.
LEMMA CloseAgrees ==
    ASSUME SteadyInv, Close, NEW b, Shaped(b), Agrees(b), NEW e, e = epoch
    PROVE  Exactly(Opened(b, e))'
<1> DEFINE sq == rows[epoch]
           each == SparkWeight(windows[epoch].target)
           count(w) == Cardinality(SparksFor(w, sq))
           a == Opened(b, e)'
<1>1. /\ open /\ epoch' = epoch /\ windows' = [windows EXCEPT ![epoch].accepted = Len(leaves)]
      /\ logs' = Put(logs, epoch, sq) /\ work' = WorkWith(sq, each)
      /\ status' = WithStatus(Expiring(epoch), "expired") /\ price' = price
    BY DEF Close, CloseWindow
<1>2. /\ epoch \in DOMAIN windows /\ sq \in Seq(Sparks)
      /\ \A i \in DOMAIN sq : sq[i].mined = epoch
      /\ \A w \in Wishes : status[w] = "none" => SparksFor(w, sq) = {}
      /\ each \in Nat \ {0}
    BY <1>1, OpenLog
<1>3. log_of(e)'.window.target = windows[epoch].target /\ log_of(e)'.sparks = sq
    <2>1. windows[epoch] \in WindowRecords
        BY <1>2 DEF SteadyInv, WatchInv, ServedInv, ReplayInv, IInv, TypeOK, LogTypes
    <2> QED BY <1>1, <1>2, <2>1 DEF log_of, EpochSparks, Put, WindowRecords
<1>4. \A w \in Wishes : /\ count(w) \in Nat /\ (count(w) = 0 <=> SparksFor(w, sq) = {})
                        /\ count(w) * each \in Nat
                        /\ count(w) = 0 => count(w) * each = 0
                        /\ count(w) # 0 => count(w) * each > 0
    <2>1. \A w \in Wishes : count(w) \in Nat /\ (count(w) = 0 <=> SparksFor(w, sq) = {})
        BY <1>2, SparksCounted
    <2>2. \A c \in Nat, f \in Nat \ {0} : /\ c * f \in Nat
                                          /\ c = 0 => c * f = 0
                                          /\ c # 0 => c * f > 0
        OBVIOUS
    <2> HIDE DEF count, each
    <2> QED BY <1>2, <2>1, <2>2
<1>5. \A w \in Wishes : Credit(log_of(e)', e)[w] = count(w) * each
    <2>1. \A w \in Wishes :
              {i \in SparksFor(w, sq) : sq[i].mined = e} = SparksFor(w, sq)
        BY <1>2 DEF SparksFor
    <2> QED BY <1>3, <2>1 DEF Credit
<1>6. Added(b, a, e, log_of(e)')
    <2>1. a = AddWindow(b, e, log_of(e)', Wishes)
        BY <1>1 DEF Opened
    <2> HIDE DEF a
    <2> QED BY <2>1, AddWindowAdds
<1> HIDE DEF a
<1>7. a.price = CurrentPrice'
    BY <1>1, <1>6 DEF Added, Agrees, CurrentPrice
<1>8. ASSUME NEW w \in Wishes
      PROVE  a.status[w] = status'[w] /\ a.work[w] = work'[w]
    <2> DEFINE d == count(w) * each
    <2>1. /\ a.work[w] = b.work[w] + d
          /\ StandsAs(b, log_of(e)', e, w)
                = IF b.status[w] = "none" /\ d > 0 THEN "open" ELSE b.status[w]
          /\ a.status[w] = IF StandsAs(b, log_of(e)', e, w) = "open" /\ ExpiresOf[w] <= e
                           THEN "expired" ELSE StandsAs(b, log_of(e)', e, w)
        BY <1>5, <1>6 DEF Added, StandsAs, Enters
    <2>2. /\ work'[w] = IF status[w] = "none" THEN work[w] ELSE work[w] + d
          /\ status'[w] = IF status[w] = "open" /\ ExpiresOf[w] <= epoch THEN "expired"
                          ELSE status[w]
        BY <1>1 DEF WorkWith, WithStatus, Expiring
    <2>3. d \in Nat /\ (SparksFor(w, sq) = {} <=> d = 0) /\ work[w] \in Nat
        BY <1>4 DEF SteadyInv, WatchInv, ServedInv, ReplayInv, IInv, TypeOK, WishTypes
    <2>4. CASE JustCame(b, w)
        <3>1. d > 0
            BY <2>3, <2>4 DEF JustCame
        <3> HIDE DEF d
        <3> QED BY <2>1, <2>2, <2>3, <2>4, <3>1 DEF JustCame
    <2>5. CASE Same(b, w)
        <3>1. status[w] = "none" => d = 0
            BY <1>2, <2>3
        <3> HIDE DEF d
        <3> QED BY <2>1, <2>2, <2>3, <2>5, <3>1 DEF Same
    <2> QED BY <2>4, <2>5 DEF Agrees
<1> QED BY <1>7, <1>8 DEF Exactly, Same, a

\* A price never falls below the floor.
LEMMA PriceAboveFloor ==
    ASSUME NEW ready, NEW taken, NEW p \in Nat, p >= PriceMin
    PROVE  next_price(ready, taken, p, PriceMin) >= PriceMin
<1>1. p \div 8 \in Nat /\ PriceMin \in Nat
    BY ConstantTypes
<1> QED BY <1>1 DEF next_price, Larger

\* The members of a sequence, written out.
LEMMA WrittenWhole ==
    ASSUME NEW S, NEW sq \in Seq(S), NEW m \in Nat, m >= Len(sq)
    PROVE  {sq[i] : i \in {j \in DOMAIN sq : j <= m}} = ToSet(sq)
<1>1. DOMAIN sq = 1..Len(sq) /\ Len(sq) \in Nat
    BY LenProperties
<1>2. {j \in DOMAIN sq : j <= m} = DOMAIN sq
    BY <1>1
<1> QED BY <1>2 DEF ToSet

\* Where the server selects, the books choose the same.
LEMMA SelectAgrees ==
    ASSUME SteadyInv, NEW tie \in Ties, Select(tie, nature[Len(run)].closed), nature' = nature,
           NEW b0, Shaped(b0), NEW e, e = Len(run) + 1, Exactly(Opened(b0, e))
    PROVE  selected' = Chosen(b0, e, tie).selected /\ Exactly(Picked(b0, e, tie))'
<1> DEFINE b == Opened(b0, e)
           closed == nature[Len(run)].closed
           c == Chosen(b0, e, tie)
           n == Len(c.ready) + Len(c.selected)
<1>1. IInv /\ Len(run) \in Nat /\ work \in [Wishes -> Nat] /\ price \in Nat
    BY LenProperties DEF SteadyInv, WatchInv, ServedInv, ReplayInv, IInv, TypeOK, WorldTypes, WishTypes
<1>2. c = Choice(tie, closed)
    <2>1. e - 1 = Len(run)
        BY <1>1
    <2>2. Waiting(b) = Queue
        BY DEF Waiting, Queue, Exactly, Same
    <2>3. \A w \in Queue \ closed :
              [id |-> w, action |-> ActionOf[w], work |-> b.work[w], share |-> 100] = Candidate(w)
        BY DEF Candidate, Queue, Exactly, Same
    <2>4. {[id |-> w, action |-> ActionOf[w], work |-> b.work[w], share |-> 100] :
               w \in Waiting(b) \ nature[e - 1].closed} = {Candidate(w) : w \in Queue \ closed}
        BY <2>1, <2>2, <2>3
    <2>5. b.price = CurrentPrice
        BY DEF Exactly
    <2> HIDE DEF b, closed
    <2> QED BY <2>4, <2>5 DEF Chosen, ChoiceIn, Choice, b
<1>3. /\ status' = StatusWrites(c, n) /\ price' = c.next_price /\ selected' = c.selected
      /\ work' = work /\ windows' = windows /\ logs' = logs /\ rows' = rows
    <2>1. /\ SelectMiracles(Choice(tie, closed)) /\ selected' = Choice(tie, closed).selected
          /\ work' = work /\ windows' = windows /\ logs' = logs /\ rows' = rows
        BY DEF Select
    <2> HIDE DEF c
    <2> QED BY <1>2, <2>1 DEF SelectMiracles
<1>4. c.selected \in Seq(Queue) /\ c.ready \in Seq(Queue)
    BY <1>1, <1>2, ChosenAreQueued
<1>5. Picked(b0, e, tie)' = Picked(b0, e, tie)
    <2>1. log_of(e)' = log_of(e)
        BY <1>3 DEF log_of, EpochSparks
    <2> QED BY <2>1, SameRules
<1>6. Shaped(b)
    BY FollowingIsShaped
<1> DEFINE p == Picked(b0, e, tie)
<1>7. /\ p.price = c.next_price /\ p.work = b.work
      /\ \A w \in Wishes : p.status[w] = IF w \in ToSet(c.selected) THEN "selected"
                                         ELSE IF w \in ToSet(c.ready) THEN "ready" ELSE b.status[w]
    BY <1>6, ChoiceFields DEF Picked
<1> HIDE DEF c
<1>8. Len(c.ready) \in Nat /\ Len(c.selected) \in Nat
    BY <1>4, LenProperties
<1>9. \A w \in Wishes : status'[w] = IF w \in ToSet(c.selected) THEN "selected"
                                     ELSE IF w \in ToSet(c.ready) THEN "ready" ELSE status[w]
    <2>0. n \in Nat /\ n >= Len(c.ready)
        <3>1. \A k \in Nat, m \in Nat : k + m \in Nat /\ k + m >= k
            OBVIOUS
        <3> QED BY <1>8, <3>1
    <2>1. {c.ready[i] : i \in {j \in DOMAIN c.ready : j <= n}} = ToSet(c.ready)
        <3> HIDE DEF n
        <3> QED BY <1>4, <2>0, WrittenWhole
    <2>2. n - Len(c.ready) \in Nat /\ n - Len(c.ready) >= Len(c.selected)
        BY <1>8
    <2>3. {c.selected[i] : i \in {j \in DOMAIN c.selected : j <= n - Len(c.ready)}} = ToSet(c.selected)
        BY <1>4, <2>2, WrittenWhole
    <2>4. StatusWrites(c, n) =
              [w \in Wishes |-> CASE w \in ToSet(c.selected) -> "selected"
                                  [] w \in ToSet(c.ready) \ ToSet(c.selected) -> "ready"
                                  [] OTHER -> status[w]]
        BY <2>1, <2>3 DEF StatusWrites
    <2> QED BY <1>3, <2>4
<1>10. c.next_price >= PriceMin /\ c.next_price \in Nat
    <2>1. CurrentPrice \in Nat /\ CurrentPrice >= PriceMin
        BY <1>1, ConstantTypes DEF CurrentPrice, Larger
    <2>2. \E x, y : c.next_price = next_price(x, y, CurrentPrice, PriceMin)
        BY <1>2 DEF Choice, select
    <2> QED BY <2>1, <2>2, PriceAboveFloor, NextPriceType, ConstantTypes
<1>11. CurrentPrice' = p.price
    BY <1>3, <1>7, <1>10, ConstantTypes DEF CurrentPrice, Larger
<1>12. \A w \in Wishes : p.status[w] = status'[w] /\ p.work[w] = work'[w]
    <2>1. \A w \in Wishes : b.status[w] = status[w] /\ b.work[w] = work[w]
        BY DEF Exactly, Same
    <2> HIDE DEF b, p
    <2> QED BY <1>3, <1>7, <1>9, <2>1
<1> HIDE DEF p
<1>13. Picked(b0, e, tie)' = p
    BY <1>5 DEF p
<1> QED BY <1>3, <1>11, <1>12, <1>13 DEF Exactly, Same, c

\* The wishes of miracles.
Wished(ms) == [i \in DOMAIN ms |-> ms[i].wish]

\* The wishes that miracles are given to.
LEMMA WishedAre ==
    ASSUME NEW ms
    PROVE  ToSet(Wished(ms)) = {ms[i].wish : i \in DOMAIN ms}
BY DEF ToSet, Wished

\* Where the server records what its world did, the books say the same.
LEMMA RecordAgrees ==
    ASSUME SteadyInv, RecordMiracles, nature' = nature,
           NEW b0, Shaped(b0), NEW e, e = Len(run), NEW tie, Exactly(Picked(b0, e, tie)),
           Wished(given) = Chosen(b0, e, tie).selected,
           \A i \in DOMAIN given : given[i].outcome = nature[e].outcome[given[i].wish]
    PROVE  /\ Exactly(Executed(b0, e, tie))'
           /\ Wished(miracles'[e]) = Chosen(b0, e, tie).selected
<1> DEFINE p == Picked(b0, e, tie)
           x == Executed(b0, e, tie)
           sel == Chosen(b0, e, tie).selected
<1>1. miracles'[e] = given
    <2>1. IInv /\ NothingAhead /\ ChosenInHand
        BY DEF SteadyInv, WatchInv, ServedInv, ReplayInv
    <2>2. e \in 1..MaxEpoch /\ \A d \in 1..MaxEpoch : miracles'[d] = IF d = e THEN given ELSE miracles[d]
        BY <2>1, WhatIsRecorded
    <2> QED BY <2>2
<1>2. x' = x
    <2>1. log_of(e)' = log_of(e)
        BY DEF RecordMiracles, log_of, EpochSparks
    <2> QED BY <2>1, SameRules
<1>3. /\ x.price = p.price /\ x.work = p.work
      /\ \A w \in Wishes : x.status[w] =
            IF w \in ToSet(sel) THEN StatusOfOutcome(nature[e].outcome[w]) ELSE p.status[w]
    <2>1. Shaped(p) /\ x = Settled(p, e, sel)
        BY FollowingIsShaped DEF Executed
    <2> HIDE DEF p, x, sel
    <2> QED BY <2>1, SettledFields
<1>4. \A w \in Wishes : status'[w] =
          IF w \in ToSet(sel) THEN StatusOfOutcome(nature[e].outcome[w]) ELSE status[w]
    <2> DEFINE named == {given[i].wish : i \in DOMAIN given}
               Outcome(w) == given[CHOOSE i \in DOMAIN given : given[i].wish = w].outcome
    <2>1. status' = [w \in Wishes |-> IF w \in named THEN StatusOfOutcome(Outcome(w)) ELSE status[w]]
        BY DEF RecordMiracles, Record
    <2>2. \A w \in named : Outcome(w) = nature[e].outcome[w]
        OBVIOUS
    <2>3. named = ToSet(sel)
        BY WishedAre
    <2> HIDE DEF named, Outcome, sel
    <2> QED BY <2>1, <2>2, <2>3
<1>5. work' = work /\ price' = price
    BY DEF RecordMiracles
<1>6. p.price = CurrentPrice /\ \A w \in Wishes : p.status[w] = status[w] /\ p.work[w] = work[w]
    BY DEF Exactly, Same
<1> HIDE DEF p, x, sel
<1>7. x.price = CurrentPrice' /\ \A w \in Wishes : x.status[w] = status'[w] /\ x.work[w] = work'[w]
    BY <1>3, <1>4, <1>5, <1>6 DEF CurrentPrice
<1>8. Exactly(x)'
    BY <1>2, <1>7 DEF Exactly, Same
<1> QED BY <1>1, <1>8 DEF x

\* Where the soft check of the server gives wishes up, so do the books.
LEMMA SoftAgrees ==
    ASSUME CheckWishes(nature[Len(run)].hopeless), nature' = nature,
           NEW x, Shaped(x), Agrees(x), NEW s, s = Softened(x, Len(run))
    PROVE  Agrees(s)'
<1> DEFINE hopeless == nature[Len(run)].hopeless
<1>1. /\ status' = WithStatus(hopeless \cap Queue, "invalidated")
      /\ UNCHANGED <<work, price, rows, run, epoch, open>>
    BY DEF CheckWishes, SoftCheck, Hopeless, memory, world
<1>3. /\ s.price = x.price /\ s.work = x.work
      /\ \A w \in Wishes : s.status[w] =
            IF w \in Waiting(x) /\ w \in hopeless THEN "invalidated" ELSE x.status[w]
    BY FollowedFields
<1>4. s.price = CurrentPrice'
    BY <1>1, <1>3 DEF Agrees, CurrentPrice
<1>5. ASSUME NEW w \in Wishes
      PROVE  JustCame(s, w)' \/ Same(s, w)'
    <2>1. CASE JustCame(x, w)
        <3>1. w \notin hopeless /\ status'[w] = status[w]
            BY <1>1, <2>1 DEF JustCame, WithStatus
        <3> QED BY <1>1, <1>3, <2>1, <3>1 DEF JustCame
    <2>2. CASE Same(x, w)
        <3>1. w \in Waiting(x) <=> w \in Queue
            BY <2>2 DEF Same, Waiting, Queue
        <3> QED BY <1>1, <1>3, <2>2, <3>1 DEF Same, WithStatus
    <2> QED BY <2>1, <2>2 DEF Agrees
<1> QED BY <1>4, <1>5 DEF Agrees

\* A request holds a ticket of a window that has opened, and a wish that is proposed in
\* the open one is not hopeless in the world shown.
AsksFairly ==
    \A h \in Handlers :
        /\ req[h].ticket <= epoch
        /\ req[h].kind = "propose" /\ req[h].ticket = epoch
              => req[h].batch[1].wish \notin nature[epoch - 1].hopeless

\* A batch of one spark that is new is placed whole.
LEMMA OnePlaced ==
    ASSUME NEW batch \in Seq(Sparks), Len(batch) = 1, NEW ticket, Accepts(ticket),
           SparkId(batch[1]) \notin seen, NEW new \in Placed(ticket, batch)
    PROVE  \E i \in DOMAIN new : new[i] = batch[1]
<1>1. DOMAIN batch = {1}
    BY LenProperties
<1>2. 1 \in Fresh(ticket, batch)
    BY <1>1 DEF Fresh
<1>3. PICK f \in Orders(batch) : ToSet(f) = Fresh(ticket, batch) /\ new = [i \in DOMAIN f |-> batch[f[i]]]
    BY DEF Placed
<1>4. PICK i \in DOMAIN f : f[i] = 1
    BY <1>2, <1>3 DEF ToSet
<1> QED BY <1>3, <1>4

\* Where the server takes in a wish with its first spark, the books miss it.
LEMMA ProposeAgrees ==
    ASSUME SteadyInv, AsksFairly, NEW h \in Handlers, FinishPropose(h), req[h].ticket = epoch,
           nature' = nature, NEW x, Agrees(x)
    PROVE  Agrees(x)'
<1> DEFINE r == req[h]
           s == r.batch[1]
<1>1. IInv /\ SeenKnown /\ NoneIdle /\ open /\ rows[epoch] \in Seq(Sparks) /\ epoch \in Windows
    <2>1. open
        BY DEF FinishPropose, StillAdmitted, PrecheckWish
    <2> QED BY <2>1, OpenLog DEF SteadyInv, WatchInv, ServedInv, ReplayInv
<1>2. /\ r.kind = "propose" /\ status[s.wish] = "none"
      /\ status' = [status EXCEPT ![s.wish] = "open"] /\ work' = [work EXCEPT ![s.wish] = 0]
      /\ AppendSparks(r.ticket, r.batch) /\ UNCHANGED <<price, epoch, open, run>>
    BY DEF FinishPropose, StillAdmitted, PrecheckWish, AddWish, world
<1>3. r \in Requests /\ r.batch \in Seq(Sparks) /\ Len(r.batch) = 1 /\ s \in Sparks /\ s.wish \in Wishes
    BY <1>1, <1>2, ProposedWish DEF IInv, TypeOK, RequestTypes, Requests
<1>4. PICK new \in Placed(r.ticket, r.batch) : rows' = [rows EXCEPT ![epoch] = @ \o new]
    BY <1>2 DEF AppendSparks
<1>5. new \in Seq(Sparks)
    BY <1>3, <1>4, PlacedType
<1>6. \E i \in DOMAIN new : new[i] = s
    <2>1. SparkId(s) \notin seen
        <3>1. SparkId(s)[1] = s.wish
            BY DEF SparkId
        <3> QED BY <1>1, <1>2, <3>1 DEF SeenKnown
    <2>2. Accepts(r.ticket)
        BY <1>1 DEF Accepts
    <2> HIDE DEF r
    <2> QED BY <1>3, <1>4, <2>1, <2>2, OnePlaced
<1>7. rows'[epoch] = rows[epoch] \o new
    BY <1>1, <1>4 DEF IInv, TypeOK, LogTypes
<1>8. \A w \in Wishes : SparksFor(w, rows[epoch]) # {} => SparksFor(w, rows'[epoch]) # {}
    <2>1. \A i \in DOMAIN rows[epoch] : i \in DOMAIN rows'[epoch] /\ rows'[epoch][i] = rows[epoch][i]
        BY <1>1, <1>5, <1>7
    <2> QED BY <2>1 DEF SparksFor
<1>9. SparksFor(s.wish, rows'[epoch]) # {}
    <2>1. PICK i \in DOMAIN new : new[i] = s
        BY <1>6
    <2>2. /\ Len(rows[epoch]) + i \in DOMAIN rows'[epoch]
          /\ rows'[epoch][Len(rows[epoch]) + i] = new[i]
        BY <1>1, <1>5, <1>7, <2>1
    <2> QED BY <2>1, <2>2 DEF SparksFor
<1>10. s.wish \notin nature[Len(run)].hopeless
    <2>1. epoch = Len(run) + 1 /\ Len(run) \in Nat
        BY <1>1, LenProperties DEF IInv, LoopInStep, TypeOK, WorldTypes
    <2>2. epoch - 1 = Len(run)
        BY <2>1
    <2> QED BY <1>2, <2>2 DEF AsksFairly
<1>11. ASSUME NEW w \in Wishes
       PROVE  JustCame(x, w)' \/ Same(x, w)'
    <2>1. status \in [Wishes -> Statuses] /\ work \in [Wishes -> Nat]
        BY <1>1 DEF IInv, TypeOK, WishTypes
    <2> HIDE DEF s
    <2>2. CASE w = s.wish
        <3>1. Same(x, w) /\ work[w] = 0
            BY <1>1, <1>2, <2>2 DEF Agrees, JustCame, NoneIdle
        <3> QED BY <1>1, <1>2, <1>3, <1>9, <1>10, <2>1, <2>2, <3>1 DEF JustCame, Same
    <2>3. CASE w # s.wish
        <3>1. status'[w] = status[w] /\ work'[w] = work[w]
            BY <1>2, <2>1, <2>3
        <3> QED BY <1>2, <1>8, <3>1 DEF Agrees, JustCame, Same
    <2> QED BY <2>2, <2>3
<1> QED BY <1>2, <1>11 DEF Agrees, CurrentPrice

\* Sparks that come in change nothing that the books have.
LEMMA SparksAgree ==
    ASSUME SteadyInv, NEW h \in Handlers, FinishSparks(h), nature' = nature, NEW x, Agrees(x)
    PROVE  Agrees(x)'
<1>1. IInv
    BY DEF SteadyInv, WatchInv, ServedInv, ReplayInv
<1>2. UNCHANGED <<status, work, price, epoch, open, run>>
    BY DEF FinishSparks, wishTable, world
<1>3. PICK passed \in Passed(req[h]) : \E new \in Placed(req[h].ticket, passed) :
          rows' = [rows EXCEPT ![epoch] = @ \o new]
    BY DEF FinishSparks, AppendSparks
<1>4. PICK new \in Placed(req[h].ticket, passed) : rows' = [rows EXCEPT ![epoch] = @ \o new]
    BY <1>3
<1>5. new \in Seq(Sparks)
    <2>1. passed \in Seq(Sparks)
        BY <1>1, <1>3, PassedType DEF IInv, TypeOK, RequestTypes
    <2> QED BY <1>4, <2>1, PlacedType
<1>6. ASSUME open, NEW w \in Wishes, SparksFor(w, rows[epoch]) # {}
      PROVE  SparksFor(w, rows'[epoch]) # {}
    <2>1. rows[epoch] \in Seq(Sparks) /\ epoch \in Windows
        BY <1>6, OpenLog
    <2>2. rows'[epoch] = rows[epoch] \o new
        BY <1>1, <1>4, <2>1 DEF IInv, TypeOK, LogTypes
    <2>3. \A i \in DOMAIN rows[epoch] : i \in DOMAIN rows'[epoch] /\ rows'[epoch][i] = rows[epoch][i]
        BY <1>5, <2>1, <2>2
    <2> QED BY <1>6, <2>3 DEF SparksFor
<1> QED BY <1>2, <1>6 DEF Agrees, JustCame, Same, CurrentPrice

\* The entries and the price that a header signs are those of the books.
LEMMA RootAgrees ==
    ASSUME NEW x, Exactly(x)
    PROVE  BooksRoot(x) = LedgerRoot
<1>1. Waiting(x) = Queue
    BY DEF Waiting, Queue, Exactly, Same
<1> DEFINE mine(w) == [wish |-> w, work |-> x.work[w], queued |-> x.status[w] = "ready"]
           its(w) == [wish |-> w, work |-> work[w], queued |-> status[w] = "ready"]
<1>2. \A w \in Queue : mine(w) = its(w)
    BY DEF Exactly, Same, Queue
<1>3. BooksRoot(x) = [price |-> x.price, entries |-> {mine(w) : w \in Queue}]
    BY <1>1 DEF BooksRoot
<1>4. LedgerRoot = [price |-> CurrentPrice, entries |-> {its(w) : w \in Queue}]
    BY DEF LedgerRoot
<1>5. x.price = CurrentPrice
    BY DEF Exactly
<1> HIDE DEF mine, its
<1>6. {mine(w) : w \in Queue} = {its(w) : w \in Queue}
    BY <1>2
<1> QED BY <1>3, <1>4, <1>5, <1>6

\* The books of the sealed epochs: what a watcher that has replayed as far as an epoch has.
\* The header of the epoch has their root, and its miracles are the ones they select.
Recorded(B, e) ==
    \A t : t = headers[e].beacon =>
        /\ B[e] = Followed(B[e - 1], e, t)
        /\ headers[e].ledger = BooksRoot(Executed(B[e - 1], e, t))
        /\ Wished(miracles[e]) = Chosen(B[e - 1], e, t).selected
FollowsServer(B, d) ==
    /\ DOMAIN B = OldEpochs..d
    /\ B[OldEpochs] = NewBooks
    /\ \A e \in OldEpochs..d : Shaped(B[e])
    /\ \A e \in FirstWindow..d : Recorded(B, e)

\* Where the loop of the server is, its ledger is what the books become in the epoch
\* after the last one sealed; after that until the soft check, in that one.
StageAt(B, d) ==
    /\ pc = "wait" => Agrees(B[d])
    /\ pc = "beacon" => Exactly(Opened(B[d], d + 1))
    /\ \A t : t = seed.beacon =>
          /\ pc \in {"step", "record"} => Exactly(Picked(B[d], d + 1, t))
          /\ pc = "step" => selected = Chosen(B[d], d + 1, t).selected
          /\ pc = "record" => Wished(given) = Chosen(B[d], d + 1, t).selected
          /\ pc \in {"publish", "seal"} =>
                /\ Exactly(Executed(B[d], d + 1, t))
                /\ Wished(miracles[d + 1]) = Chosen(B[d], d + 1, t).selected
    /\ pc \in {"save", "open", "soft"} =>
          /\ d >= FirstWindow
          /\ \A t : t = headers[d].beacon =>
                IF pc = "soft" THEN Agrees(Executed(B[d - 1], d, t))
                ELSE Exactly(Executed(B[d - 1], d, t))

\* The world does with miracles what nature says.
GivenByNature ==
    \A e \in 1..Len(run) : \A i \in DOMAIN run[e].given :
        run[e].given[i].outcome = nature[e].outcome[run[e].given[i].wish]

\* A log does not change but while its window is open.
LEMMA LogSettled ==
    ASSUME IInv, WindowInv, [Next]_vars, NEW e \in Windows, e \in DOMAIN windows,
           open => e # epoch
    PROVE  log_of(e)' = log_of(e)
<1>1. windows'[e] = windows[e]
    <2>1. Close => open
        BY DEF Close, CloseWindow
    <2> QED BY <2>1, TargetsStay
<1>2. EpochSparks(e)' = EpochSparks(e)
    BY LogStep DEF SameLogs, Gains
<1> QED BY <1>1, <1>2 DEF log_of

\* What holds of the epochs that are sealed stays.
LEMMA RecordsKept ==
    ASSUME SteadyInv, Serving, Unbroken', [WatchNext]_all,
           NEW B, NEW d, d = Done, FollowsServer(B, d),
           NEW C, \A e \in OldEpochs..d : C[e] = B[e]
    PROVE  /\ C[OldEpochs] = NewBooks
           /\ \A e \in OldEpochs..d : Shaped(C[e])
           /\ \A e \in FirstWindow..d : Recorded(C, e)'
<1>1. /\ IInv /\ nature' = nature
      /\ \A e \in DOMAIN headers : headers'[e] = headers[e]
      /\ \A e \in 1..Done : miracles'[e] = miracles[e]
      /\ \A e \in FirstWindow..Len(run) : windows'[e] = windows[e] /\ EpochSparks(e)' = EpochSparks(e)
    BY SealedStays, WatchStepIsServerStep DEF SteadyInv, WatchInv, ServedInv, ReplayInv
<1>2. /\ d \in Nat /\ OldEpochs \in Nat /\ OldEpochs <= d /\ d <= Len(run) /\ Len(run) \in Nat
      /\ FirstWindow = OldEpochs + 1 /\ DOMAIN headers = FirstHeader..d
      /\ FirstHeader \in Nat /\ FirstHeader <= FirstWindow
    BY <1>1, DoneIs, FirstHeaderType, ConstantTypes DEF HeadersTo
<1>3. ASSUME NEW e \in FirstWindow..d
      PROVE  Recorded(C, e)'
    <2>1. /\ e \in OldEpochs..d /\ e - 1 \in OldEpochs..d /\ e \in DOMAIN headers /\ e \in 1..Done
          /\ e \in FirstWindow..Len(run)
        BY <1>2
    <2>2. C[e] = B[e] /\ C[e - 1] = B[e - 1]
        BY <2>1
    <2>3. headers'[e] = headers[e] /\ miracles'[e] = miracles[e] /\ log_of(e)' = log_of(e)
        BY <1>1, <2>1 DEF log_of
    <2>4. Recorded(B, e)
        BY DEF FollowsServer
    <2>5. ASSUME NEW t, t = headers'[e].beacon
          PROVE  /\ C[e] = Followed(C[e - 1], e, t)'
                 /\ headers'[e].ledger = BooksRoot(Executed(C[e - 1], e, t)')
                 /\ Wished(miracles'[e]) = Chosen(C[e - 1], e, t)'.selected
        <3>1. /\ Followed(C[e - 1], e, t)' = Followed(B[e - 1], e, t)
              /\ Executed(C[e - 1], e, t)' = Executed(B[e - 1], e, t)
              /\ Chosen(C[e - 1], e, t)' = Chosen(B[e - 1], e, t)
            BY <1>1, <2>2, <2>3, SameRules
        <3> QED BY <2>2, <2>3, <2>4, <2>5, <3>1 DEF Recorded
    <2> QED BY <2>5 DEF Recorded
<1>4. OldEpochs \in OldEpochs..d
    BY <1>2
<1> QED BY <1>3, <1>4 DEF FollowsServer

\* A step that seals no epoch keeps the books and the server together.
LEMMA StageKept ==
    ASSUME SteadyInv, Serving, AsksFairly, GivenByNature, "sparkless" \notin excuses', Unbroken',
           [WatchNext]_all, ~SealEpoch,
           NEW B, NEW d, d = Done, FollowsServer(B, d), StageAt(B, d)
    PROVE  StageAt(B, d)'
<1> DEFINE b == B[d]
           e == d + 1
<1>1. /\ IInv /\ WindowInv /\ NothingAhead /\ EpochInHand /\ LogsPaid /\ nature' = nature
      /\ [Next]_vars /\ ~ServerDies /\ ~Rollback /\ \A failing : ~Resume(failing)
    BY NothingDies, WatchStepIsServerStep DEF SteadyInv, WatchInv, ServedInv, ReplayInv
<1>2. /\ d \in Nat /\ OldEpochs \in Nat /\ OldEpochs <= d /\ d <= Len(run) /\ Len(run) <= d + 1
      /\ Len(run) \in Nat /\ Len(run) <= MaxEpoch /\ FirstWindow = OldEpochs + 1
      /\ (pc \in {"wait", "beacon", "step"} => epoch = e /\ Len(run) = d)
      /\ (pc \in {"record", "publish", "seal"} => Len(run) = e)
      /\ (pc \in {"save", "open", "soft"} => Len(run) = d)
      /\ Shaped(b)
    BY <1>1, DoneIs, ConstantTypes DEF FollowsServer
<1>3. CASE Close
    <2>1. pc = "wait" /\ pc' = "beacon"
        BY <1>3 DEF Close
    <2>2. Exactly(Opened(b, e))'
        BY <1>2, <1>3, <2>1, CloseAgrees DEF StageAt
    <2> QED BY <2>1, <2>2 DEF StageAt
<1>4. ASSUME NEW tie \in Ties, Select(tie, Here.closed)
      PROVE  StageAt(B, d)'
    <2>1. pc = "beacon" /\ pc' = "step" /\ seed'.beacon = tie
        BY <1>4 DEF Select
    <2>2. selected' = Chosen(b, e, tie).selected /\ Exactly(Picked(b, e, tie))'
        BY <1>1, <1>2, <1>4, <2>1, SelectAgrees DEF StageAt, Here
    <2>3. Chosen(b, e, tie)' = Chosen(b, e, tie)
        <3>1. log_of(e)' = log_of(e)
            BY <1>4 DEF Select, log_of, EpochSparks
        <3> QED BY <1>1, <3>1, SameRules
    <2> QED BY <2>1, <2>2, <2>3 DEF StageAt
<1>5. CASE Step
    <2>1. /\ pc = "step" /\ pc' = "record" /\ seed' = seed /\ Wished(given') = selected
          /\ UNCHANGED <<status, work, price, windows, rows, logs>>
        BY <1>5 DEF Step, Verdicts, Wished, disk
    <2>2. \A t : Chosen(b, e, t)' = Chosen(b, e, t) /\ Picked(b, e, t)' = Picked(b, e, t)
        <3>1. log_of(e)' = log_of(e)
            BY <2>1 DEF log_of, EpochSparks
        <3> QED BY <1>1, <3>1, SameRules
    <2> DEFINE t == seed.beacon
    <2>3. Exactly(Picked(b, e, t)) /\ Wished(given') = Chosen(b, e, t).selected
        BY <2>1 DEF StageAt
    <2>4. ASSUME NEW x, Exactly(x)
          PROVE  Exactly(x)'
        BY <2>1, <2>4 DEF Exactly, Same, CurrentPrice
    <2> QED BY <2>1, <2>2, <2>3, <2>4 DEF StageAt
<1>6. CASE RecordMiracles
    <2>1. /\ pc = "record" /\ pc' = "publish" /\ seed' = seed
          /\ UNCHANGED <<windows, rows, logs>>
        BY <1>6 DEF RecordMiracles, loop
    <2> DEFINE t == seed.beacon
    <2>2. Exactly(Picked(b, e, t)) /\ Wished(given) = Chosen(b, e, t).selected
        BY <2>1 DEF StageAt
    <2>3. \A i \in DOMAIN given : given[i].outcome = nature[e].outcome[given[i].wish]
        <3>1. run[e].given = given /\ e \in 1..Len(run)
            BY <1>1, <1>2, <2>1 DEF EpochInHand
        <3> QED BY <3>1 DEF GivenByNature
    <2>4. Exactly(Executed(b, e, t))' /\ Wished(miracles'[e]) = Chosen(b, e, t).selected
        <3>1. \A x : x = t => Exactly(Executed(b, e, x))' /\ Wished(miracles'[e]) = Chosen(b, e, x).selected
            BY <1>1, <1>2, <1>6, <2>1, <2>2, <2>3, RecordAgrees
        <3> QED BY <2>1, <3>1
    <2>5. \A x : Chosen(b, e, x)' = Chosen(b, e, x)
        <3>1. log_of(e)' = log_of(e)
            BY <2>1 DEF log_of, EpochSparks
        <3> QED BY <1>1, <3>1, SameRules
    <2> QED BY <2>1, <2>4, <2>5 DEF StageAt
<1>7. CASE Publish \/ Save
    <2>1. /\ \/ pc = "publish" /\ pc' = "seal"
             \/ pc = "save" /\ pc' = "open"
          /\ seed' = seed /\ UNCHANGED <<status, work, price, windows, rows, logs, headers, miracles>>
        BY <1>7 DEF Publish, Save, disk, loop
    <2>2. \A x, n, t : /\ Chosen(x, n, t)' = Chosen(x, n, t)
                       /\ Executed(x, n, t)' = Executed(x, n, t)
        <3>1. \A n : log_of(n)' = log_of(n)
            BY <2>1 DEF log_of, EpochSparks
        <3> QED BY <1>1, <3>1, SameRules
    <2>3. \A x : Exactly(x) => Exactly(x)'
        BY <2>1 DEF Exactly, Same, CurrentPrice
    <2> QED BY <2>1, <2>2, <2>3 DEF StageAt
<1>8. CASE OpenNext
    <2>1. /\ pc = "open" /\ pc' = "soft" /\ UNCHANGED <<status, work, price, headers>>
          /\ ~open /\ d >= FirstWindow
        BY <1>1, <1>8 DEF OpenNext, IInv, LoopInStep, StageAt
    <2>2. \A t : Executed(B[d - 1], d, t)' = Executed(B[d - 1], d, t)
        <3>1. d \in Windows /\ d \in DOMAIN windows
            <4>1. epoch = Len(run) /\ WindowsTo(epoch)
                BY <1>1, <2>1 DEF IInv, LoopInStep
            <4> QED BY <1>2, <2>1, <4>1, ConstantTypes DEF Windows, WindowsTo
        <3>2. log_of(d)' = log_of(d)
            BY <1>1, <2>1, <3>1, LogSettled
        <3> QED BY <1>1, <3>2, SameRules
    <2>3. \A x : Exactly(x) => Agrees(x)'
        BY <2>1 DEF Exactly, Agrees, Same, CurrentPrice
    <2> QED BY <2>1, <2>2, <2>3 DEF StageAt
<1>9. CASE CheckWishes(Here.hopeless)
    <2>1. pc = "soft" /\ pc' = "wait" /\ d >= FirstWindow
        BY <1>9 DEF CheckWishes, StageAt
    <2> DEFINE t == headers[d].beacon
               x == Executed(B[d - 1], d, t)
    <2>2. Agrees(x)
        BY <2>1 DEF StageAt
    <2>3. b = Softened(x, Len(run))
        <3>1. d \in FirstWindow..d /\ Len(run) = d
            BY <1>2, <2>1
        <3> QED BY <3>1 DEF FollowsServer, Recorded, Followed
    <2>4. Shaped(x)
        <3>1. d - 1 \in OldEpochs..d
            BY <1>2, <2>1
        <3> QED BY <3>1, FollowingIsShaped DEF FollowsServer
    <2>5. Agrees(b)'
        <3> HIDE DEF x
        <3> QED BY <1>1, <1>9, <2>2, <2>3, <2>4, SoftAgrees DEF Here
    <2> QED BY <2>1, <2>5 DEF StageAt
<1>10. ASSUME UNCHANGED <<pc, headers, miracles, selected, seed, given>>,
              \A x : Agrees(x) => Agrees(x)', \A x : ~open /\ Exactly(x) => Exactly(x)'
       PROVE  StageAt(B, d)'
    <2>1. ~(pc \in {"wait", "soft"}) => ~open
        BY <1>1 DEF IInv, LoopInStep
    <2>2. CASE pc = "wait"
        BY <1>10, <2>2 DEF StageAt
    <2>3. ASSUME pc \in {"save", "open", "soft"}
          PROVE  d >= FirstWindow /\ \A t : Executed(B[d - 1], d, t)' = Executed(B[d - 1], d, t)
        <3>1. d >= FirstWindow
            BY <2>3 DEF StageAt
        <3>2. d \in Windows /\ d \in DOMAIN windows /\ (open => d # epoch)
            <4>1. (epoch = Len(run) \/ epoch = Len(run) + 1) /\ WindowsTo(epoch)
                  /\ (open => epoch = Len(run) + 1)
                BY <1>1, <2>3 DEF IInv, LoopInStep
            <4> QED BY <1>2, <2>3, <3>1, <4>1, ConstantTypes DEF Windows, WindowsTo
        <3>3. log_of(d)' = log_of(d)
            BY <1>1, <3>2, LogSettled
        <3> QED BY <1>1, <3>1, <3>3, SameRules
    <2>4. CASE pc \in {"save", "open", "soft"}
        BY <1>10, <2>1, <2>3, <2>4 DEF StageAt
    <2>5. CASE pc \in {"beacon", "step", "record", "publish", "seal"}
        <3>1. e \in Windows /\ e \in DOMAIN windows
            <4>1. epoch = e /\ WindowsTo(epoch)
                BY <1>1, <1>2, <2>5 DEF IInv, LoopInStep
            <4> QED BY <1>1, <1>2, <4>1, ConstantTypes DEF Windows, WindowsTo, IInv, TypeOK, MemoryTypes
        <3>2. log_of(e)' = log_of(e)
            BY <1>1, <2>1, <2>5, <3>1, LogSettled
        <3>3. \A t : /\ Opened(b, e)' = Opened(b, e) /\ Chosen(b, e, t)' = Chosen(b, e, t)
                     /\ Picked(b, e, t)' = Picked(b, e, t) /\ Executed(b, e, t)' = Executed(b, e, t)
            BY <1>1, <3>2, SameRules
        <3> QED BY <1>10, <2>1, <2>5, <3>3 DEF StageAt
    <2>6. pc \in Stages
        BY <1>1 DEF IInv, TypeOK, WorldTypes
    <2> QED BY <2>2, <2>4, <2>5, <2>6 DEF Stages, Serving
<1>11. ASSUME NEW h \in Handlers, FinishSparks(h)
       PROVE  StageAt(B, d)'
    <2>1. UNCHANGED <<pc, headers, miracles, selected, seed, given, status, work, price>>
        BY <1>11 DEF FinishSparks, loop, wishTable
    <2>2. \A x : Agrees(x) => Agrees(x)'
        BY <1>1, <1>11, SparksAgree
    <2>3. \A x : Exactly(x) => Exactly(x)'
        BY <2>1 DEF Exactly, Same, CurrentPrice
    <2> QED BY <1>10, <2>1, <2>2, <2>3
<1>12. ASSUME NEW h \in Handlers, ServerAddsWish(h)
       PROVE  StageAt(B, d)'
    <2>1. FinishPropose(h) /\ req[h].ticket = epoch
        BY <1>12 DEF ServerAddsWish
    <2>2. UNCHANGED <<pc, headers, miracles, selected, seed, given>> /\ open
        BY <2>1 DEF FinishPropose, loop, StillAdmitted, PrecheckWish
    <2>3. \A x : Agrees(x) => Agrees(x)'
        BY <1>1, <2>1, ProposeAgrees
    <2> QED BY <1>10, <2>2, <2>3
<1>13. ASSUME UNCHANGED <<pc, disk, memory, loop, run>>
       PROVE  StageAt(B, d)'
    <2>1. UNCHANGED <<pc, headers, miracles, selected, seed, given>>
        BY <1>13 DEF disk, loop
    <2>2. \A x : (Agrees(x) => Agrees(x)') /\ (Exactly(x) => Exactly(x)')
        BY <1>1, <1>13 DEF Agrees, Exactly, JustCame, Same, CurrentPrice, disk, memory
    <2> QED BY <1>10, <2>1, <2>2
<1>14. ASSUME NEW h \in Handlers, ServerAnswers(h), ~FinishSparks(h)
       PROVE  StageAt(B, d)'
    BY <1>13, <1>14 DEF ServerAnswers, BeginPropose, BeginSparks, Dismiss, world
<1>15. CASE Watches \/ UNCHANGED all
    <2>1. UNCHANGED vars
        BY <1>15 DEF Watches, Begin, NoAnswer, check_head, check_headers, ReadLatest, ReadHeaders,
                     ReadMiracles, Replay, all
    <2> QED BY <1>13, <2>1 DEF vars, world
<1>16. CASE ServerRuns
    BY <1>1, <1>3, <1>4, <1>5, <1>6, <1>7, <1>8, <1>9, <1>16 DEF ServerRuns
<1> QED BY <1>1, <1>11, <1>12, <1>14, <1>15, <1>16 DEF WatchNext

\* Sealing an epoch adds its books to those of the epochs before: the header signs what
\* they say.
LEMMA SealKept ==
    ASSUME SteadyInv, Serving, Unbroken', [WatchNext]_all, SealEpoch,
           NEW B, NEW d, d = Done, FollowsServer(B, d), StageAt(B, d)
    PROVE  \E C : /\ FollowsServer(C, d + 1)' /\ StageAt(C, d + 1)'
                  /\ \A n \in OldEpochs..d : C[n] = B[n]
<1> DEFINE e == d + 1
<1>1. /\ IInv /\ nature' = nature
      /\ d \in Nat /\ OldEpochs \in Nat /\ OldEpochs <= d /\ FirstWindow = OldEpochs + 1
    BY DoneIs, ConstantTypes, WatchStepIsServerStep DEF SteadyInv, WatchInv, ServedInv, ReplayInv
<1>2. /\ pc = "seal" /\ pc' = "save" /\ Len(run) = e
      /\ headers' = Put(headers, e, NewHeader(e, boots, seed.beacon))
      /\ UNCHANGED <<miracles, status, work, price, windows, rows, logs>>
    <2>1. pc = "seal" /\ Len(run) = e
        BY <1>1 DEF SealEpoch, Done
    <2> QED BY <2>1 DEF SealEpoch, Seal
<1>3. PICK t : t = seed.beacon
    OBVIOUS
<1>4. /\ Exactly(Executed(B[d], e, t))
      /\ Wished(miracles[e]) = Chosen(B[d], e, t).selected
    BY <1>2, <1>3 DEF StageAt
<1>5. headers'[e].beacon = t /\ headers'[e].ledger = LedgerRoot
    BY <1>2, <1>3 DEF Put, NewHeader
<1>6. PICK C : C = [n \in OldEpochs..e |-> IF n <= d THEN B[n] ELSE Followed(B[d], e, t)]
    OBVIOUS
<1>7. /\ DOMAIN C = OldEpochs..e
      /\ \A n \in OldEpochs..d : C[n] = B[n]
      /\ C[e] = Followed(B[d], e, t) /\ C[d] = B[d] /\ e - 1 = d
    BY <1>1, <1>6
<1>8. /\ C[OldEpochs] = NewBooks
      /\ \A n \in OldEpochs..d : Shaped(C[n])
      /\ \A n \in FirstWindow..d : Recorded(C, n)'
    BY <1>7, RecordsKept
<1>9. \A u : /\ Followed(B[d], e, u)' = Followed(B[d], e, u)
             /\ Chosen(B[d], e, u)' = Chosen(B[d], e, u)
             /\ Executed(B[d], e, u)' = Executed(B[d], e, u)
    <2>1. log_of(e)' = log_of(e)
        BY <1>2 DEF log_of, EpochSparks
    <2> QED BY <1>1, <2>1, SameRules
<1>10. Recorded(C, e)'
    <2>1. LedgerRoot = BooksRoot(Executed(B[d], e, t))
        BY <1>4, RootAgrees
    <2>2. ASSUME NEW u, u = headers'[e].beacon
          PROVE  /\ C[e] = Followed(C[e - 1], e, u)'
                 /\ headers'[e].ledger = BooksRoot(Executed(C[e - 1], e, u)')
                 /\ Wished(miracles'[e]) = Chosen(C[e - 1], e, u)'.selected
        <3>1. u = t
            BY <1>5, <2>2
        <3>2. miracles'[e] = miracles[e]
            BY <1>2
        <3> QED BY <1>4, <1>5, <1>7, <1>9, <2>1, <3>1, <3>2
    <2> QED BY <2>2 DEF Recorded
<1>11. Shaped(C[e])
    <2>1. Shaped(B[d])
        BY <1>1 DEF FollowsServer
    <2>2. Shaped(Followed(B[d], e, t))
        BY <2>1, FollowingIsShaped
    <2> QED BY <1>7, <2>2
<1>12. FollowsServer(C, e)'
    <2>1. \A n \in OldEpochs..e : n \in OldEpochs..d \/ n = e
        BY <1>1
    <2>2. \A n \in FirstWindow..e : n \in FirstWindow..d \/ n = e
        BY <1>1
    <2> QED BY <1>7, <1>8, <1>10, <1>11, <2>1, <2>2 DEF FollowsServer
<1>13. StageAt(C, e)'
    <2>1. Exactly(Executed(C[e - 1], e, t))'
        BY <1>2, <1>4, <1>7, <1>9 DEF Exactly, Same, CurrentPrice
    <2>2. \A u : u = headers'[e].beacon => Exactly(Executed(C[e - 1], e, u))'
        BY <1>5, <2>1
    <2>3. e >= FirstWindow
        BY <1>1
    <2> HIDE DEF e
    <2> QED BY <1>2, <2>2, <2>3 DEF StageAt
<1> QED BY <1>7, <1>12, <1>13

\* Each step adds to the books of the sealed epochs what the step seals.
LEMMA LedgerStep ==
    ASSUME SteadyInv, Serving, AsksFairly, GivenByNature, "sparkless" \notin excuses', Unbroken',
           [WatchNext]_all,
           NEW B, NEW d, d = Done, FollowsServer(B, d), StageAt(B, d)
    PROVE  \E C, k : /\ k = Done' /\ FollowsServer(C, k)' /\ StageAt(C, k)'
                     /\ \A n \in OldEpochs..d : C[n] = B[n]
<1>1. CASE SealEpoch
    <2>1. d + 1 = Done'
        BY <1>1, SealedStays
    <2> QED BY <1>1, <2>1, SealKept
<1>2. CASE ~SealEpoch
    <2>1. d = Done'
        BY <1>2, SealedStays
    <2>2. /\ B[OldEpochs] = NewBooks
          /\ \A e \in OldEpochs..d : Shaped(B[e])
          /\ \A e \in FirstWindow..d : Recorded(B, e)'
        BY RecordsKept
    <2>3. FollowsServer(B, d)'
        BY <2>2 DEF FollowsServer
    <2>4. StageAt(B, d)'
        BY <1>2, StageKept
    <2> QED BY <2>1, <2>3, <2>4
<1> QED BY <1>1, <1>2

-----------------------------------------------------------------------------
(* Before the server serves. *)

\* The first server finds an empty ledger, and nobody watches before it answers.
Unstarted ==
    Unbroken /\ ~Serving =>
        /\ at = "off" /\ last_header = NoHeader /\ replayed = <<>> /\ diverged = FALSE
        /\ books = NewBooks /\ page = NoPage /\ alarms = {} /\ excuses = {}
        /\ snapshot = OldWorld /\ price = PriceMin
        /\ \A w \in Wishes : status[w] = "none" /\ work[w] = 0 /\ executedIn[w] = NULL
        /\ \A h \in Handlers : req[h] = Idle

\* No request is begun or goes on while no handler has one and nobody answers.
LEMMA NobodyAsks ==
    ASSUME ~Serving, \A h \in Handlers : req[h] = Idle
    PROVE  \A h \in Handlers : ~ServerAnswers(h) /\ ~ServerAddsWish(h)
<1> SUFFICES ASSUME NEW h \in Handlers
             PROVE  ~ServerAnswers(h) /\ ~ServerAddsWish(h)
    OBVIOUS
<1>1. ~FinishSparks(h) /\ ~FinishPropose(h)
    BY DEF FinishSparks, FinishPropose
<1>2. ~Dismiss(h)
    BY DEF Dismiss, Idle
<1>3. \A s, batch, late : ~BeginPropose(h, s, late) /\ ~BeginSparks(h, batch, late)
    BY DEF BeginPropose, BeginSparks
<1> QED BY <1>1, <1>2, <1>3 DEF ServerAnswers, ServerAddsWish

\* Only a rollback that finds nothing comes before the first start.
LEMMA NextUnstarted ==
    ASSUME SteadyInv, Unstarted, [WatchNext]_all
    PROVE  Unstarted'
<1> SUFFICES ASSUME Unbroken', ~Serving'
             PROVE  Unstarted'
    BY DEF Unstarted
<1>1. Unbroken /\ ~ServerDies /\ ~Serving
    BY NothingDies, SealedStays
<1>2. /\ at = "off" /\ last_header = NoHeader /\ replayed = <<>> /\ diverged = FALSE
      /\ books = NewBooks /\ page = NoPage /\ alarms = {} /\ excuses = {}
      /\ snapshot = OldWorld /\ price = PriceMin
      /\ \A w \in Wishes : status[w] = "none" /\ work[w] = 0 /\ executedIn[w] = NULL
      /\ \A h \in Handlers : req[h] = Idle
    BY <1>1 DEF Unstarted
<1>3. pc \in {"down", "starting"} /\ pc' \in {"down", "starting"}
    BY <1>1 DEF Serving
<1>4. CASE Rollback
    <2>1. \A w \in Wishes : w \notin Undone(Len(snapshot))
        <3>1. Len(snapshot) \in Nat
            BY <1>2, OldWorldIs, ConstantTypes
        <3> QED BY <1>2, <3>1 DEF Undone, NULL
    <2>2. \A w \in Wishes : status'[w] = status[w] /\ executedIn'[w] = executedIn[w]
        BY <1>4, <2>1 DEF Rollback, RollbackAfter, WithStatus
    <2>3. UNCHANGED <<at, last_header, replayed, diverged, books, page, alarms, excuses, snapshot,
                      price, work, req>>
        <3>1. ServerRuns
            <4>1. \A h \in Handlers : ~ServerAnswers(h) /\ ~ServerAddsWish(h)
                BY <1>1, <1>2, NobodyAsks
            <4>2. ~Watches
                BY <1>1, <1>2 DEF Watches, Begin, NoAnswer, check_head, check_headers, ReadLatest,
                                  ReadHeaders, ReadMiracles, Replay
            <4>3. ~UNCHANGED all
                BY <1>4 DEF Rollback, all, vars
            <4> QED BY <1>1, <4>1, <4>2, <4>3 DEF WatchNext
        <3> QED BY <1>3, <1>4, <3>1 DEF ServerRuns, Close, Rollback, watcher
    <2> QED BY <1>2, <2>2, <2>3 DEF Unstarted
<1>5. CASE ~Rollback
    <2>1. UNCHANGED all
        <3>1. ~ServerRuns
            BY <1>3, <1>5 DEF ServerRuns, Resume, Close, Select, Step, RecordMiracles, Publish,
                              SealEpoch, Save, OpenNext, CheckWishes
        <3>2. \A h \in Handlers : ~ServerAnswers(h) /\ ~ServerAddsWish(h)
            BY <1>1, <1>2, NobodyAsks
        <3>3. ~Watches
            BY <1>1, <1>2 DEF Watches, Begin, NoAnswer, check_head, check_headers, ReadLatest,
                              ReadHeaders, ReadMiracles, Replay
        <3> QED BY <1>1, <3>1, <3>2, <3>3 DEF WatchNext
    <2>2. UNCHANGED <<at, last_header, replayed, diverged, books, page, alarms, excuses, snapshot,
                      price, status, work, executedIn, req>>
        BY <2>1 DEF all, watcher, vars, disk, world, wishTable
    <2> QED BY <1>2, <2>2 DEF Unstarted
<1> QED BY <1>4, <1>5

\* When the first server starts to serve, the ledger is that of new books.
LEMMA FirstServes ==
    ASSUME SteadyInv, Unstarted, ~Serving, Serving', Unbroken', [WatchNext]_all
    PROVE  /\ \E B, d : d = Done' /\ FollowsServer(B, d)' /\ StageAt(B, d)'
           /\ AsksFairly' /\ GivenByNature'
           /\ UNCHANGED watcher /\ excuses' = {}
           /\ at = "off" /\ last_header = NoHeader /\ replayed = <<>> /\ diverged = FALSE
           /\ books = NewBooks /\ page = NoPage /\ alarms = {}
<1>0. Unbroken /\ ~ServerDies
    BY NothingDies
<1>1. /\ at = "off" /\ last_header = NoHeader /\ replayed = <<>> /\ diverged = FALSE
      /\ books = NewBooks /\ page = NoPage /\ alarms = {} /\ excuses = {}
      /\ snapshot = OldWorld /\ price = PriceMin
      /\ \A w \in Wishes : status[w] = "none" /\ work[w] = 0 /\ executedIn[w] = NULL
      /\ \A h \in Handlers : req[h] = Idle
    BY <1>0 DEF Unstarted
<1>2. pc \in {"down", "starting"} /\ pc' \notin {"down", "starting"}
    BY DEF Serving
<1>3. ServerRuns
    <2>1. \A h \in Handlers : ~ServerAnswers(h) /\ ~ServerAddsWish(h)
        BY <1>1, NobodyAsks
    <2>2. ~Watches
        BY <1>1, <1>2 DEF Watches, Begin, NoAnswer, check_head, check_headers, ReadLatest,
                    ReadHeaders, ReadMiracles, Replay
    <2>3. ~UNCHANGED all
        BY <1>2 DEF all, vars
    <2> QED BY <1>0, <2>1, <2>2, <2>3 DEF WatchNext
<1>4. Resume(Here.hopeless)
    BY <1>2, <1>3 DEF ServerRuns, Rollback, Close, Select, Step, RecordMiracles, Publish,
                      SealEpoch, Save, OpenNext, CheckWishes
<1>5. UNCHANGED watcher /\ excuses' = {} /\ nature' = nature
    BY <1>1, <1>2, <1>3 DEF ServerRuns, Close
<1>6. /\ pc' = "wait" /\ run' = OldWorld /\ UNCHANGED <<work, price, req>>
      /\ \A w \in Wishes : status'[w] = "none"
    <2>1. run = snapshot
        BY <1>4 DEF Resume, SteadyInv, WatchInv, ServedInv, ReplayInv, IInv, LoopInStep
    <2>2. \A w \in Wishes : status'[w] = "none"
        BY <1>1, <1>4 DEF Resume, SoftCheck, WithStatus, Hopeless, Queue
    <2> QED BY <1>1, <1>4, <2>1, <2>2 DEF Resume, world
<1>7. PICK d : d = OldEpochs
    OBVIOUS
<1>8. Done' = d
    BY <1>6, <1>7, OldWorldIs DEF Done
<1>9. PICK B : B = [e \in OldEpochs..d |-> NewBooks]
    OBVIOUS
<1>10. FollowsServer(B, d)'
    BY <1>7, <1>9, NewBooksAre, ConstantTypes DEF FollowsServer
<1>11. Agrees(B[d])'
    <2>1. B[d] = NewBooks
        BY <1>7, <1>9, ConstantTypes
    <2>2. Agrees(NewBooks)'
        BY <1>1, <1>6, NewBooksAre, ConstantTypes DEF Agrees, Same, CurrentPrice, Larger
    <2> QED BY <2>1, <2>2
<1>12. StageAt(B, d)'
    BY <1>6, <1>11 DEF StageAt
<1>13. AsksFairly'
    <2>1. epoch' \in Nat
        BY <1>4, ConstantTypes, OldWorldIs, <1>6 DEF Resume, OpenWindow, world
    <2> QED BY <1>1, <1>6, <2>1 DEF AsksFairly, Idle
<1>14. GivenByNature'
    <2>1. \A e \in 1..Len(OldWorld) : DOMAIN OldWorld[e].given = {}
        BY OldWorldIs, EmptyDomain
    <2> QED BY <1>6, <2>1 DEF GivenByNature
<1> QED BY <1>1, <1>5, <1>8, <1>10, <1>12, <1>13, <1>14

\* What the world did with the miracles of an epoch stays.
LEMMA GivenKept ==
    ASSUME SteadyInv, Serving, Unbroken', [WatchNext]_all, GivenByNature
    PROVE  GivenByNature'
<1>1. nature' = nature /\ run \in Seq(Epochs) /\ Len(run) \in Nat
    BY WatchStepIsServerStep, LenProperties
       DEF SteadyInv, WatchInv, ServedInv, ReplayInv, IInv, TypeOK, WorldTypes
<1>2. CASE ~Step
    <2>1. run' = run
        BY <1>2, SealedStays
    <2> QED BY <1>1, <2>1 DEF GivenByNature
<1>3. CASE Step
    <2>1. pc = "step" /\ pc' = "record"
        BY <1>3 DEF Step
    <2>2. \A i \in DOMAIN given' : given'[i].outcome = nature[Len(run) + 1].outcome[given'[i].wish]
        <3>1. ~UNCHANGED all /\ ~Watches
            BY <2>1 DEF all, vars, Watches, Begin, NoAnswer, check_head, check_headers, ReadLatest,
                        ReadHeaders, ReadMiracles, Replay
        <3>2. \A h \in Handlers : ~ServerAnswers(h) /\ ~ServerAddsWish(h)
            BY <2>1 DEF ServerAnswers, ServerAddsWish, BeginPropose, BeginSparks, Dismiss,
                        FinishSparks, FinishPropose
        <3>3. ServerRuns
            BY <3>1, <3>2, NothingDies DEF WatchNext
        <3> QED BY <2>1, <3>3 DEF ServerRuns, Rollback, Resume, Close, Select, RecordMiracles,
                                  Publish, SealEpoch, Save, OpenNext, CheckWishes
    <2>3. PICK x : run' = Append(run, x) /\ x.given = given'
        BY <1>3 DEF Step
    <2>4. /\ Len(run') = Len(run) + 1 /\ run'[Len(run) + 1] = x
          /\ \A e \in 1..Len(run) : run'[e] = run[e]
        BY <1>1, <2>3
    <2>5. ASSUME NEW e \in 1..Len(run'), NEW i \in DOMAIN run'[e].given
          PROVE  run'[e].given[i].outcome = nature[e].outcome[run'[e].given[i].wish]
        <3>1. CASE e <= Len(run)
            <4>1. e \in 1..Len(run) /\ run'[e] = run[e]
                BY <1>1, <2>4, <3>1
            <4> QED BY <2>5, <4>1 DEF GivenByNature
        <3>2. CASE e = Len(run) + 1
            BY <2>2, <2>3, <2>4, <2>5, <3>2
        <3> QED BY <1>1, <2>4, <3>1, <3>2
    <2> QED BY <1>1, <2>5 DEF GivenByNature
<1> QED BY <1>2, <1>3

\* The requests in flight stay fair: a window that opens is above all tickets.
LEMMA AsksKept ==
    ASSUME SteadyInv, Serving, Unbroken', [WatchNext]_all, AsksFairly
    PROVE  AsksFairly'
<1>1. /\ IInv /\ nature' = nature /\ ~ServerDies /\ ~Rollback /\ \A failing : ~Resume(failing)
      /\ req \in [Handlers -> Requests] /\ epoch \in Nat
    BY WatchStepIsServerStep, NothingDies
       DEF SteadyInv, WatchInv, ServedInv, ReplayInv, IInv, TypeOK, RequestTypes, MemoryTypes
<1>2. ASSUME UNCHANGED <<epoch, req>>
      PROVE  AsksFairly'
    BY <1>1, <1>2 DEF AsksFairly
<1>3. CASE ServerRuns
    <2>1. CASE OpenNext
        <3>1. epoch = Len(run) /\ epoch' = epoch + 1 /\ req' = req
            BY <1>1, <2>1 DEF OpenNext, OpenWindow, IInv, LoopInStep
        <3>2. \A h \in Handlers : req[h].ticket \in Nat
            BY <1>1 DEF Requests
        <3> QED BY <1>1, <3>1, <3>2 DEF AsksFairly
    <2>2. CASE ~OpenNext
        <3>1. UNCHANGED <<epoch, req>>
            BY <1>1, <1>3, <2>2 DEF ServerRuns, Close, CloseWindow, Select, Step, RecordMiracles,
                                    Publish, SealEpoch, Save, CheckWishes, memory
        <3> QED BY <1>2, <3>1
    <2> QED BY <2>1, <2>2
<1>4. ASSUME NEW h \in Handlers, ServerAnswers(h) \/ ServerAddsWish(h)
      PROVE  AsksFairly'
    <2>1. epoch' = epoch
        BY <1>4 DEF ServerAnswers, ServerAddsWish, BeginPropose, BeginSparks, Dismiss,
                    FinishSparks, FinishPropose, memory
    <2>2. ASSUME NEW s \in FirstSparks, NEW late \in LateTickets,
                 s.wish \notin nature[live].hopeless, BeginPropose(h, s, late)
          PROVE  AsksFairly'
        <3>1. open /\ live = epoch - 1
            <4>1. open
                BY <2>2 DEF BeginPropose, PrecheckWish
            <4>2. epoch = Len(run) + 1 /\ pc \notin {"record", "publish"}
                BY <1>1, <4>1, DoneIs DEF IInv, LoopInStep
            <4> QED BY <1>1, <4>1, <4>2 DEF SteadyInv, LiveIsShown, IInv, TypeOK, WorldTypes
        <3>2. req' = [req EXCEPT ![h] = [kind |-> "propose", batch |-> <<s>>, ticket |-> epoch,
                                         late |-> late]]
            BY <2>2 DEF BeginPropose
        <3>3. \A g \in Handlers : g # h => req'[g] = req[g]
            BY <1>1, <3>2
        <3>4. /\ req'[h].ticket = epoch /\ req'[h].batch[1] = s
            BY <1>1, <3>2
        <3> QED BY <1>1, <2>1, <2>2, <3>1, <3>3, <3>4 DEF AsksFairly
    <2>3. ASSUME NEW r, req' = [req EXCEPT ![h] = r], r.kind # "propose", r.ticket <= epoch
          PROVE  AsksFairly'
        <3>1. \A g \in Handlers : req'[g] = IF g = h THEN r ELSE req[g]
            BY <1>1, <2>3
        <3> QED BY <1>1, <2>1, <2>3, <3>1 DEF AsksFairly
    <2>4. ASSUME NEW batch \in Batches, NEW late \in LateTickets, BeginSparks(h, batch, late)
          PROVE  AsksFairly'
        <3>1. PICK r : r = [kind |-> "sparks", batch |-> batch, ticket |-> epoch, late |-> late]
            OBVIOUS
        <3>2. req' = [req EXCEPT ![h] = r] /\ r.kind # "propose" /\ r.ticket = epoch
            BY <2>4, <3>1 DEF BeginSparks
        <3>3. r.ticket <= epoch
            BY <1>1, <3>2
        <3> QED BY <2>3, <3>2, <3>3
    <2>5. CASE Answer(h)
        <3>1. Idle.kind # "propose" /\ Idle.ticket <= epoch
            BY <1>1 DEF Idle
        <3> QED BY <2>3, <2>5, <3>1 DEF Answer
    <2> QED BY <1>4, <2>2, <2>4, <2>5 DEF ServerAnswers, ServerAddsWish, Dismiss, FinishSparks,
                                          FinishPropose
<1>5. CASE Watches \/ UNCHANGED all
    <2>1. UNCHANGED <<epoch, req>>
        BY <1>5 DEF Watches, Begin, NoAnswer, check_head, check_headers, ReadLatest, ReadHeaders,
                    ReadMiracles, Replay, all, vars, memory
    <2> QED BY <1>2, <2>1
<1> QED BY <1>1, <1>3, <1>4, <1>5 DEF WatchNext

-----------------------------------------------------------------------------
(* The watcher beside a server that goes on. *)

\* The watcher has replayed no further than the world that is shown, and the same world
\* unless it has read one before its header; the last header that it checked is one of
\* the chain.
KeepsUp ==
    /\ Len(replayed) \in Nat /\ Len(replayed) <= live
    /\ \/ last_header = NoHeader
       \/ /\ last_header.epoch \in DOMAIN headers
          /\ last_header.hash = HeaderHash(headers[last_header.epoch])
    /\ diverged \in BOOLEAN
    /\ diverged => "unsealed" \in excuses
    /\ ~diverged => replayed = SubSeq(run, 1, Len(replayed))

\* Its books start with the first header, and then remember the last epoch replayed.
BooksKeepUp ==
    /\ Shaped(books) /\ books.active \in BOOLEAN
    /\ Len(replayed) <= OldEpochs => books = NewBooks
    /\ ~diverged /\ books.active =>
          /\ Len(replayed) \in FirstWindow..Done
          /\ \A r : r = Len(replayed) =>
                books.last = [epoch |-> r, target |-> windows[r].target,
                              accepted |-> Len(EpochSparks(r))]

\* What it has read of a page is what the server still shows, of epochs further on.
Fetching == at \in {"headers of the page", "miracles of the page", "replay"}
Fetched == at \in {"miracles of the page", "replay"}
PageFields == DOMAIN page = {"latest", "to", "headers", "worlds", "given", "known"}
PageAhead ==
    Fetching =>
        /\ ~diverged
        /\ page.to \in Nat /\ page.latest \in Nat
        /\ Len(replayed) < page.to /\ page.to <= page.latest /\ page.latest <= live
HeadersRead ==
    Fetched =>
        /\ DOMAIN page.headers \subseteq DOMAIN headers
        /\ \A e \in DOMAIN page.headers : page.headers[e] = headers[e]
        /\ "unsealed" \notin excuses => FirstWindow..page.to \subseteq DOMAIN page.headers
        /\ page.worlds = SubSeq(run, 1, page.to)
MiraclesRead ==
    at = "replay" =>
        /\ page.given = [e \in 1..page.to |-> Wished(miracles[e])]
        /\ \A e \in FirstWindow..page.to : \A i \in DOMAIN EpochSparks(e) :
              EpochSparks(e)[i].wish \in page.known
GoesOn == at = "latest" => ~diverged
PageKept == PageFields /\ GoesOn /\ PageAhead /\ HeadersRead /\ MiraclesRead

\* The first elements of a sequence are those of one that goes on.
LEMMA CutStays ==
    ASSUME NEW S, NEW s \in Seq(S), NEW t, t = s \/ \E x : t = Append(s, x),
           NEW n \in Nat, n <= Len(s)
    PROVE  SubSeq(t, 1, n) = SubSeq(s, 1, n)
<1>1. CASE t = s
    BY <1>1
<1>2. ASSUME NEW x, t = Append(s, x)
      PROVE  SubSeq(t, 1, n) = SubSeq(s, 1, n)
    <2>1. \A i \in 1..n : t[i] = s[i]
        BY <1>2, LenProperties
    <2>2. SubSeq(t, 1, n) = [i \in 1..n |-> t[i]] /\ SubSeq(s, 1, n) = [i \in 1..n |-> s[i]]
        BY DEF SubSeq
    <2> QED BY <2>1, <2>2
<1> QED BY <1>1, <1>2

\* What is shown has been stepped, and what is sealed has been shown or will be.
LEMMA ShownIs ==
    ASSUME SteadyInv, Serving
    PROVE  /\ live \in Nat /\ live <= Len(run) /\ live <= Done + 1 /\ Done <= Len(run)
           /\ Done \in Nat /\ Len(run) \in Nat /\ Len(run) <= MaxEpoch
           /\ (live > Done => pc = "seal" /\ live = Len(run))
           /\ DOMAIN headers = FirstHeader..Done
           /\ OldEpochs \in Nat /\ FirstWindow = OldEpochs + 1
           /\ FirstHeader \in Nat /\ FirstHeader <= FirstWindow
           /\ (OldEpochs # 0 => FirstHeader = FirstWindow)
           /\ OldEpochs <= Done
           /\ run \in Seq(Epochs)
<1>1. IInv /\ LiveIsShown /\ live \in Nat /\ run \in Seq(Epochs) /\ pc \in Stages
    BY ConstantTypes DEF SteadyInv, WatchInv, ServedInv, ReplayInv, IInv, TypeOK, WorldTypes
<1>2. live = IF pc \in {"record", "publish"} THEN Len(run) - 1 ELSE Len(run)
    BY <1>1 DEF LiveIsShown
<1>3. DOMAIN headers = FirstHeader..Done
    BY <1>1, DoneIs DEF HeadersTo
<1> QED BY <1>1, <1>2, <1>3, DoneIs, FirstHeaderType, ConstantTypes DEF Done

\* While the server goes on, nothing that the watcher has read is changed.
LEMMA ServerLeavesIt ==
    ASSUME SteadyInv, Serving, Unbroken', [WatchNext]_all, UNCHANGED watcher,
           KeepsUp, BooksKeepUp, PageKept
    PROVE  KeepsUp' /\ BooksKeepUp' /\ PageKept'
<1>1. /\ UNCHANGED <<at, last_header, replayed, diverged, books, page>>
      /\ excuses \subseteq excuses'
    BY NothingDies DEF watcher
<1>2. /\ live <= live' /\ live \in Nat /\ live' \in Nat /\ live <= Len(run) /\ Done <= Done'
      /\ Done \in Nat /\ Done' \in Nat /\ Done <= Len(run) /\ run \in Seq(Epochs)
      /\ Len(run) \in Nat /\ OldEpochs \in Nat /\ FirstWindow = OldEpochs + 1
      /\ (run' = run \/ \E x : run' = Append(run, x))
      /\ \A e \in DOMAIN headers : e \in DOMAIN headers' /\ headers'[e] = headers[e]
      /\ \A e \in 1..live : miracles'[e] = miracles[e]
      /\ \A e \in FirstWindow..Len(run) :
            windows'[e] = windows[e] /\ EpochSparks(e)' = EpochSparks(e)
    <2>1. live' \in Nat
        <3>1. TypeOK'
            BY WatchStepIsServerStep, NextIInv DEF SteadyInv, WatchInv, ServedInv, ReplayInv, IInv
        <3> QED BY <3>1, ConstantTypes DEF TypeOK, WorldTypes
    <2>2. Done' = Done \/ Done' = Done + 1
        BY SealedStays
    <2> QED BY <2>1, <2>2, SealedStays, ShownIs
<1>3. \A n \in Nat : n <= Len(run) => SubSeq(run, 1, n)' = SubSeq(run', 1, n)
                                      /\ SubSeq(run', 1, n) = SubSeq(run, 1, n)
    BY <1>2, CutStays
<1>4. KeepsUp'
    <2>1. Len(replayed) \in Nat /\ Len(replayed) <= Len(run)
        BY <1>2 DEF KeepsUp
    <2>2. SubSeq(run', 1, Len(replayed)) = SubSeq(run, 1, Len(replayed))
        BY <1>3, <2>1
    <2> QED BY <1>1, <1>2, <2>1, <2>2 DEF KeepsUp
<1>5. BooksKeepUp'
    <2> SUFFICES ASSUME ~diverged, books.active, NEW r, r = Len(replayed)
                 PROVE  /\ r \in FirstWindow..Done'
                        /\ books.last = [epoch |-> r, target |-> windows'[r].target,
                                         accepted |-> Len(EpochSparks(r)')]
        BY <1>1 DEF BooksKeepUp
    <2>1. /\ r \in FirstWindow..Done
          /\ books.last = [epoch |-> r, target |-> windows[r].target,
                           accepted |-> Len(EpochSparks(r))]
        BY DEF BooksKeepUp
    <2>2. r \in FirstWindow..Len(run) /\ r \in FirstWindow..Done'
        BY <1>2, <2>1
    <2> QED BY <1>2, <2>1, <2>2
<1>p. /\ PageFields
      /\ Fetching => /\ ~diverged
                     /\ page.to \in Nat /\ page.latest \in Nat
                     /\ Len(replayed) < page.to /\ page.to <= page.latest /\ page.latest <= live
    BY DEF PageKept, PageAhead
<1>6. PageAhead' /\ PageFields'
    <2>1. PageFields'
        BY <1>1, <1>p DEF PageFields
    <2>2. ASSUME Fetching
          PROVE  page.latest <= live'
        BY <1>2, <1>p, <2>2
    <2>3. Fetching' <=> Fetching
        BY <1>1 DEF Fetching
    <2> QED BY <1>1, <1>p, <2>1, <2>2, <2>3 DEF PageAhead
<1>7. HeadersRead'
    <2> SUFFICES ASSUME Fetched PROVE HeadersRead'
        BY <1>1 DEF HeadersRead, Fetched
    <2>1. page.to \in Nat /\ page.to <= Len(run)
        <3>1. Fetching
            BY DEF Fetching, Fetched
        <3> QED BY <1>2, <1>p, <3>1
    <2>2. SubSeq(run', 1, page.to) = SubSeq(run, 1, page.to)
        BY <1>3, <2>1
    <2>3. /\ DOMAIN page.headers \subseteq DOMAIN headers
          /\ \A e \in DOMAIN page.headers : page.headers[e] = headers[e]
          /\ "unsealed" \notin excuses => FirstWindow..page.to \subseteq DOMAIN page.headers
          /\ page.worlds = SubSeq(run, 1, page.to)
        BY DEF PageKept, HeadersRead
    <2> QED BY <1>1, <1>2, <2>2, <2>3 DEF HeadersRead
<1>8. MiraclesRead'
    <2> SUFFICES ASSUME at = "replay" PROVE MiraclesRead'
        BY <1>1 DEF MiraclesRead
    <2>1. page.to \in Nat /\ page.to <= live
        <3>1. Fetching
            BY DEF Fetching
        <3> QED BY <1>2, <1>p, <3>1
    <2>2. /\ page.given = [e \in 1..page.to |-> Wished(miracles[e])]
          /\ \A e \in FirstWindow..page.to : \A i \in DOMAIN EpochSparks(e) :
                EpochSparks(e)[i].wish \in page.known
        BY DEF PageKept, MiraclesRead
    <2>3. \A e \in 1..page.to : miracles'[e] = miracles[e]
        BY <1>2, <2>1
    <2>4. \A e \in FirstWindow..page.to : EpochSparks(e)' = EpochSparks(e)
        BY <1>2, <2>1
    <2>5. page.given = [e \in 1..page.to |-> Wished(miracles'[e])]
        BY <2>2, <2>3
    <2> QED BY <1>1, <2>2, <2>4, <2>5 DEF MiraclesRead
<1>9. GoesOn'
    BY <1>1 DEF PageKept, GoesOn
<1> QED BY <1>4, <1>5, <1>6, <1>7, <1>8, <1>9 DEF PageKept

\* The miracles of an epoch with what nature says of them, from their wishes.
LEMMA OutcomesWritten ==
    ASSUME NEW ms \in Seq(Miracle), NEW outcome,
           \A i \in DOMAIN ms : ms[i].outcome = outcome[ms[i].wish],
           NEW sel, sel = Wished(ms)
    PROVE  ms = [i \in DOMAIN sel |-> [wish |-> sel[i], outcome |-> outcome[sel[i]]]]
<1>1. DOMAIN ms = 1..Len(ms) /\ DOMAIN sel = DOMAIN ms /\ ms \in [1..Len(ms) -> Miracle]
    BY LenProperties DEF Wished
<1>2. ASSUME NEW i \in DOMAIN ms
      PROVE  ms[i] = [wish |-> sel[i], outcome |-> outcome[sel[i]]]
    <2>1. ms[i] \in Miracle /\ sel[i] = ms[i].wish
        BY <1>1 DEF Wished
    <2> QED BY <2>1 DEF Miracle
<1> QED BY <1>1, <1>2

\* What the server publishes of an epoch that is sealed, or from before the headers,
\* gives the world of that epoch again.
LEMMA EpochReplays ==
    ASSUME SteadyInv, Serving, GivenByNature, NEW e \in 1..live,
           e <= OldEpochs \/ e \in DOMAIN headers,
           NEW sel, sel = Wished(miracles[e])
    PROVE  run[e] = [seed |-> IF e \in DOMAIN headers
                              THEN [beacon |-> headers[e].beacon, prev |-> headers[e].prev]
                              ELSE NoSeed,
                     given |-> [i \in DOMAIN sel |-> [wish |-> sel[i],
                                                      outcome |-> nature[e].outcome[sel[i]]]]]
<1>1. /\ IInv /\ SnapshotReplays /\ EpochInHand /\ OldUntouched
      /\ snapshot \in Seq(Epochs) /\ store \in Seq(Epochs) /\ pc \in Stages
      /\ seed \in [beacon : Ties \cup {NoSeed.beacon}, prev : HeaderHashes]
      /\ miracles \in [1..MaxEpoch -> Seq(Miracle)]
    BY DEF SteadyInv, WatchInv, ServedInv, ReplayInv, IInv, TypeOK, WorldTypes, ChainTypes
<1>2. /\ e \in 1..Len(run) /\ e \in Nat /\ Len(run) \in Nat /\ run \in Seq(Epochs)
      /\ Len(snapshot) \in Nat /\ OldEpochs \in Nat /\ OldEpochs <= Len(snapshot)
      /\ miracles[e] \in Seq(Miracle)
    <2>1. Len(snapshot) \in Nat /\ OldEpochs <= Len(snapshot)
        BY <1>1, LenProperties DEF IInv, LoopInStep
    <2>2. e \in 1..MaxEpoch
        BY ShownIs, ConstantTypes
    <2> QED BY <1>1, <2>1, <2>2, ShownIs
<1>3. run[e].seed = (IF e \in DOMAIN headers
                     THEN [beacon |-> headers[e].beacon, prev |-> headers[e].prev] ELSE NoSeed)
      /\ run[e].given = miracles[e]
    <2>1. CASE e <= Len(snapshot)
        <3>1. run[e] = snapshot[e]
            <4>1. IsPrefix(snapshot, run)
                BY <1>1 DEF IInv, LoopInStep, Serving
            <4> QED BY <1>1, <1>2, <2>1, <4>1, PrefixMeans
        <3>2. Replays(e)
            <4>1. e \in DOMAIN snapshot
                BY <1>1, <1>2, <2>1, LenProperties
            <4> QED BY <1>1, <4>1 DEF SnapshotReplays
        <3>3. CASE e <= OldEpochs
            <4>1. e \notin DOMAIN headers
                BY <1>2, <3>3, ShownIs
            <4>2. miracles[e] = <<>>
                BY <1>1, <1>2, <3>3 DEF OldUntouched
            <4> QED BY <3>1, <3>2, <3>3, <4>1, <4>2 DEF Replays
        <3>4. CASE ~(e <= OldEpochs)
            BY <3>1, <3>2, <3>4 DEF Replays
        <3> QED BY <3>3, <3>4
    <2>2. CASE ~(e <= Len(snapshot))
        <3>1. e \in DOMAIN headers /\ e <= Done
            BY <1>2, <2>2, ShownIs
        <3>2. pc = "save" /\ e = Len(run)
            BY <1>1, <1>2, <2>2, <3>1 DEF IInv, LoopInStep, Done, Stages, Serving
        <3>3. seed = [beacon |-> seed.beacon, prev |-> seed.prev]
            BY <1>1
        <3>4. run[e] = [seed |-> seed, given |-> given] /\ miracles[e] = given
              /\ headers[e].beacon = seed.beacon /\ headers[e].prev = seed.prev
            BY <1>1, <3>2 DEF EpochInHand
        <3> QED BY <3>1, <3>3, <3>4
    <2> QED BY <2>1, <2>2
<1>4. run[e] \in Epochs
    BY <1>2, ElementOfSeq
<1>5. run[e] = [seed |-> run[e].seed, given |-> run[e].given]
    BY <1>4 DEF Epochs
<1>6. miracles[e] = [i \in DOMAIN sel |-> [wish |-> sel[i], outcome |-> nature[e].outcome[sel[i]]]]
    <2>1. PICK outcome : outcome = nature[e].outcome
        OBVIOUS
    <2>2. PICK ms \in Seq(Miracle) : ms = miracles[e]
        BY <1>2
    <2>3. \A i \in DOMAIN ms : ms[i].outcome = outcome[ms[i].wish]
        BY <1>2, <1>3, <2>1, <2>2 DEF GivenByNature
    <2>4. ms = [i \in DOMAIN sel |-> [wish |-> sel[i], outcome |-> outcome[sel[i]]]]
        <3>1. sel = Wished(ms)
            BY <2>2
        <3> HIDE DEF Wished
        <3> QED BY <2>3, <3>1, OutcomesWritten
    <2> QED BY <2>1, <2>2, <2>4
<1> QED BY <1>3, <1>5, <1>6

-----------------------------------------------------------------------------
(* An epoch that the watcher replays. *)

\* What replay says of the epoch e of its page (main.rs replay): whether the ledger is
\* followed there, what its books become, the world stepped, and the alarms found.
NowActive(e) == e \in DOMAIN page.headers /\ (books.active \/ Activates(page.headers[e]))
NowAdded(e) == AddWindow(books, e, log_of(e), page.known)
NowChosen(e) == BooksChoice(NowAdded(e), page.headers[e].beacon)
NowSettled(e) == Settled(AfterChoice(NowAdded(e), NowChosen(e)), e, NowChosen(e).selected)
NowStepped(e) ==
    [seed |-> IF e \in DOMAIN page.headers
              THEN [beacon |-> page.headers[e].beacon, prev |-> page.headers[e].prev] ELSE NoSeed,
     given |-> [i \in DOMAIN page.given[e] |->
                   [wish |-> page.given[e][i], outcome |-> nature[e].outcome[page.given[e][i]]]]]
NowEarly(e) == e \in DOMAIN page.headers /\ TooSoon(e, page.headers[e])
NowSame(e) == e > Len(page.worlds) \/ Append(replayed, NowStepped(e)) = SubSeq(page.worlds, 1, e)
NowFound(e) ==
    CloseAlarms(books, e, page.headers[e], log_of(e), page.known)
    \cup (IF NowChosen(e).selected # page.given[e]
          THEN {"the miracles are not the ones selected"} ELSE {})
    \cup (IF page.headers[e].ledger # BooksRoot(NowSettled(e))
          THEN {"the ledger does not replay"} ELSE {})

\* The step of the watcher is that.
LEMMA ReplayDoes ==
    ASSUME Replay, NEW e, e = Len(replayed) + 1
    PROVE  /\ replayed' = Append(replayed, NowStepped(e))
           /\ NowActive(e) => books' = Softened(NowSettled(e), e)
           /\ ~NowActive(e) => books' = [books EXCEPT !.active = FALSE]
           /\ alarms' = alarms \cup (IF NowEarly(e) THEN {"the beacon round came too soon"} ELSE {})
                               \cup (IF NowActive(e) THEN NowFound(e) ELSE {})
                               \cup (IF NowSame(e) THEN {} ELSE {"the world does not replay"})
           /\ diverged' = ~NowSame(e)
           /\ at' = IF ~NowSame(e) THEN "poll"
                    ELSE IF e < page.to THEN "replay"
                    ELSE IF e < page.latest THEN "headers of the page" ELSE "poll"
           /\ at = "replay"
           /\ UNCHANGED <<vars, nature, heads, last_header, excuses>>
BY DEF Replay, replay, NowEarly, NowActive, NowAdded, NowChosen, NowSettled, NowStepped, NowSame,
       NowFound, Softened

\* A sequence cut after an element is the one cut before it with that element.
LEMMA CutAndNext ==
    ASSUME NEW S, NEW s \in Seq(S), NEW e \in 1..Len(s)
    PROVE  Append(SubSeq(s, 1, e - 1), s[e]) = SubSeq(s, 1, e)
<1>1. Len(s) \in Nat /\ e \in Nat \ {0} /\ e - 1 \in Nat
    BY LenProperties
<1>2. SubSeq(s, 1, e - 1) \in Seq(S) /\ Len(SubSeq(s, 1, e - 1)) = e - 1
      /\ \A i \in 1..(e - 1) : SubSeq(s, 1, e - 1)[i] = s[i]
    BY <1>1
<1>3. SubSeq(s, 1, e) \in Seq(S) /\ Len(SubSeq(s, 1, e)) = e
      /\ \A i \in 1..e : SubSeq(s, 1, e)[i] = s[i]
    BY <1>1
<1>4. s[e] \in S
    BY ElementOfSeq
<1> DEFINE a == Append(SubSeq(s, 1, e - 1), s[e])
<1>5. a \in Seq(S) /\ Len(a) = e /\ \A i \in 1..e : a[i] = s[i]
    <2>1. a \in Seq(S) /\ Len(a) = e
        BY <1>1, <1>2, <1>4
    <2>2. ASSUME NEW i \in 1..e PROVE a[i] = s[i]
        <3>1. CASE i = e
            BY <1>1, <1>2, <3>1
        <3>2. CASE i # e
            BY <1>1, <1>2, <3>2
        <3> QED BY <3>1, <3>2
    <2> QED BY <2>1, <2>2
<1> HIDE DEF a
<1>6. DOMAIN a = 1..e /\ DOMAIN SubSeq(s, 1, e) = 1..e
    BY <1>3, <1>5, LenProperties
<1>7. a = SubSeq(s, 1, e)
    BY <1>3, <1>5, <1>6
<1> QED BY <1>7 DEF a

\* The epoch that comes next in the page.
LEMMA PageEpoch ==
    ASSUME SteadyInv, Serving, at = "replay", KeepsUp, BooksKeepUp, PageKept,
           NEW e, e = Len(replayed) + 1
    PROVE  /\ e \in Nat \ {0} /\ e <= page.to /\ e \in 1..live /\ e \in 1..Len(run)
           /\ page.to \in Nat /\ page.latest \in Nat /\ page.to <= page.latest
           /\ page.latest <= live
           /\ ~diverged /\ replayed = SubSeq(run, 1, e - 1) /\ Len(replayed) = e - 1
           /\ page.given[e] = Wished(miracles[e])
           /\ e \in DOMAIN page.headers => /\ e \in FirstWindow..Done /\ e \in DOMAIN headers
                                           /\ page.headers[e] = headers[e]
           /\ "unsealed" \notin excuses =>
                 /\ e \in DOMAIN page.headers <=> e \in DOMAIN headers
                 /\ e <= OldEpochs \/ e \in DOMAIN headers
           /\ Len(page.worlds) = page.to /\ SubSeq(page.worlds, 1, e) = SubSeq(run, 1, e)
<1>1. /\ ~diverged
      /\ page.to \in Nat /\ page.latest \in Nat
      /\ Len(replayed) < page.to /\ page.to <= page.latest /\ page.latest <= live
      /\ DOMAIN page.headers \subseteq DOMAIN headers
      /\ \A n \in DOMAIN page.headers : page.headers[n] = headers[n]
      /\ "unsealed" \notin excuses => FirstWindow..page.to \subseteq DOMAIN page.headers
      /\ page.worlds = SubSeq(run, 1, page.to)
      /\ page.given = [n \in 1..page.to |-> Wished(miracles[n])]
    BY DEF PageKept, PageAhead, HeadersRead, MiraclesRead, Fetching, Fetched
<1>2. /\ Len(replayed) \in Nat /\ replayed = SubSeq(run, 1, Len(replayed))
    BY <1>1 DEF KeepsUp
<1>3. /\ live \in Nat /\ live <= Len(run) /\ Done \in Nat /\ Len(run) \in Nat
      /\ DOMAIN headers = FirstHeader..Done /\ OldEpochs \in Nat /\ FirstWindow = OldEpochs + 1
      /\ FirstHeader \in Nat /\ FirstHeader <= FirstWindow
      /\ (OldEpochs # 0 => FirstHeader = FirstWindow) /\ run \in Seq(Epochs)
    BY ShownIs
<1>4. /\ e \in Nat \ {0} /\ e <= page.to /\ e \in 1..live /\ e \in 1..Len(run)
      /\ Len(replayed) = e - 1
    BY <1>1, <1>2, <1>3
<1>5. e \in DOMAIN headers => e \in FirstWindow..Done
    BY <1>3, <1>4
<1>6. "unsealed" \notin excuses =>
                 /\ e \in DOMAIN page.headers <=> e \in DOMAIN headers
                 /\ e <= OldEpochs \/ e \in DOMAIN headers
    <2>1. e >= FirstWindow \/ e <= OldEpochs
        BY <1>3, <1>4
    <2>2. CASE e >= FirstWindow
        <3>1. e \in FirstWindow..page.to
            BY <1>1, <1>3, <1>4, <2>2
        <3> QED BY <1>1, <3>1
    <2>3. CASE e <= OldEpochs
        <3>1. e \notin DOMAIN headers
            BY <1>3, <1>5, <2>3
        <3> QED BY <1>1, <2>3, <3>1
    <2> QED BY <2>1, <2>2, <2>3
<1>7. Len(page.worlds) = page.to /\ SubSeq(page.worlds, 1, e) = SubSeq(run, 1, e)
    <2>1. /\ Len(SubSeq(run, 1, page.to)) = page.to
          /\ \A i \in 1..page.to : SubSeq(run, 1, page.to)[i] = run[i]
        BY <1>1, <1>3
    <2>2. \A i \in 1..e : i \in 1..page.to
        BY <1>1, <1>4
    <2>3. \A i \in 1..e : SubSeq(run, 1, page.to)[i] = run[i]
        BY <2>1, <2>2
    <2>4. SubSeq(page.worlds, 1, e) = [i \in 1..e |-> page.worlds[i]]
          /\ SubSeq(run, 1, e) = [i \in 1..e |-> run[i]]
        BY <1>4 DEF SubSeq
    <2>5. [i \in 1..e |-> page.worlds[i]] = [i \in 1..e |-> run[i]]
        BY <1>1, <2>3
    <2> QED BY <1>1, <2>1, <2>4, <2>5
<1>8. page.given[e] = Wished(miracles[e])
    BY <1>1, <1>4
<1> QED BY <1>1, <1>2, <1>4, <1>5, <1>6, <1>7, <1>8

\* The world stepped from what is published is that of the server, unless the watcher
\* has read it before its header.
LEMMA StepsTheSame ==
    ASSUME SteadyInv, Serving, at = "replay", KeepsUp, BooksKeepUp, PageKept, GivenByNature,
           NEW e, e = Len(replayed) + 1
    PROVE  /\ "unsealed" \notin excuses => NowSame(e)
           /\ NowSame(e) => Append(replayed, NowStepped(e)) = SubSeq(run, 1, e)
<1>1. /\ e \in Nat /\ e <= page.to /\ e \in 1..live /\ e \in 1..Len(run) /\ page.to \in Nat
      /\ replayed = SubSeq(run, 1, e - 1)
      /\ page.given[e] = Wished(miracles[e])
      /\ (e \in DOMAIN page.headers => page.headers[e] = headers[e])
      /\ ("unsealed" \notin excuses =>
                 /\ e \in DOMAIN page.headers <=> e \in DOMAIN headers
                 /\ e <= OldEpochs \/ e \in DOMAIN headers)
      /\ Len(page.worlds) = page.to /\ SubSeq(page.worlds, 1, e) = SubSeq(run, 1, e)
    BY PageEpoch
<1>2. NowSame(e) <=> Append(replayed, NowStepped(e)) = SubSeq(run, 1, e)
    BY <1>1 DEF NowSame
<1>3. ASSUME "unsealed" \notin excuses
      PROVE  Append(replayed, NowStepped(e)) = SubSeq(run, 1, e)
    <2>1. PICK sel : sel = Wished(miracles[e])
        OBVIOUS
    <2>2. run[e] = [seed |-> IF e \in DOMAIN headers
                              THEN [beacon |-> headers[e].beacon, prev |-> headers[e].prev]
                              ELSE NoSeed,
                     given |-> [i \in DOMAIN sel |-> [wish |-> sel[i],
                                                      outcome |-> nature[e].outcome[sel[i]]]]]
        BY <1>1, <1>3, <2>1, EpochReplays
    <2>3. NowStepped(e) = run[e]
        BY <1>1, <1>3, <2>1, <2>2 DEF NowStepped
    <2>4. run \in Seq(Epochs)
        BY ShownIs
    <2> QED BY <1>1, <2>3, <2>4, CutAndNext
<1> QED BY <1>2, <1>3

\* The ledger is followed from the first header on, and then from one epoch to the next.
LEMMA ActiveIs ==
    ASSUME SteadyInv, Serving, at = "replay", KeepsUp, BooksKeepUp, PageKept,
           NEW e, e = Len(replayed) + 1, NowActive(e)
    PROVE  /\ e \in FirstWindow..Done /\ e \in DOMAIN headers /\ page.headers[e] = headers[e]
           /\ e \in DOMAIN page.headers /\ OldEpochs # 0
           /\ \/ e = FirstWindow /\ books = NewBooks
              \/ /\ e - 1 \in FirstWindow..Done /\ books.active
                 /\ books.last = [epoch |-> e - 1, target |-> windows[e - 1].target,
                                  accepted |-> Len(EpochSparks(e - 1))]
<1>1. /\ e \in Nat \ {0} /\ Len(replayed) = e - 1 /\ ~diverged
      /\ e \in DOMAIN page.headers
      /\ e \in FirstWindow..Done /\ e \in DOMAIN headers /\ page.headers[e] = headers[e]
    BY PageEpoch DEF NowActive
<1>2. CASE books.active
    <2>1. /\ e - 1 \in FirstWindow..Done
          /\ books.last = [epoch |-> e - 1, target |-> windows[e - 1].target,
                           accepted |-> Len(EpochSparks(e - 1))]
        BY <1>1, <1>2 DEF BooksKeepUp
    <2>2. OldEpochs # 0
        BY <1>2 DEF SteadyInv, WatchInv, BooksHold
    <2> QED BY <1>1, <1>2, <2>1, <2>2
<1>3. CASE ~books.active
    <2>1. headers[e].prev = ZeroHash
        BY <1>1, <1>3 DEF NowActive, Activates
    <2>2. e = FirstHeader
        <3>1. ChainLinks
            BY DEF SteadyInv, WatchInv, ServedInv
        <3>2. e # FirstHeader => e - 1 \in DOMAIN headers
                                 /\ HeaderHash(headers[e - 1]) = ZeroHash
            BY <1>1, <2>1, <3>1 DEF ChainLinks
        <3>3. \A n \in DOMAIN headers : headers[n].epoch = n /\ n \in Nat
            BY ConstantTypes DEF SteadyInv, WatchInv, ServedInv, ReplayInv, IInv, TypeOK, ChainTypes
        <3>4. \A n \in DOMAIN headers : HeaderHash(headers[n]) # ZeroHash
            <4> SUFFICES ASSUME NEW n \in DOMAIN headers PROVE HeaderHash(headers[n]) # ZeroHash
                OBVIOUS
            <4>1. HeaderHash(headers[n]).epoch = n /\ ZeroHash.epoch = -1
                BY <3>3 DEF HeaderHash, ZeroHash, NULL
            <4> QED BY <3>3, <4>1
        <3> QED BY <3>2, <3>4
    <2>3. /\ FirstWindow = OldEpochs + 1 /\ OldEpochs \in Nat
          /\ OldEpochs = 0 => FirstHeader = 0
          /\ OldEpochs # 0 => FirstHeader = FirstWindow
        BY ConstantTypes, FirstHeaderType
    <2>4. OldEpochs # 0 /\ e = FirstWindow /\ Len(replayed) = OldEpochs
        <3>1. e \in Nat \ {0} /\ Len(replayed) = e - 1
            BY <1>1
        <3>2. OldEpochs # 0
            BY <2>2, <2>3, <3>1
        <3>3. e = OldEpochs + 1
            BY <2>2, <2>3, <3>2
        <3>4. e = FirstWindow
            BY <2>3, <3>3
        <3>5. e - 1 = OldEpochs
            BY <2>3, <3>3
        <3>6. Len(replayed) = OldEpochs
            BY <3>1, <3>5
        <3> QED BY <3>2, <3>4, <3>6
    <2>5. books = NewBooks
        BY <2>3, <2>4 DEF BooksKeepUp
    <2> QED BY <1>1, <2>4, <2>5
<1> QED BY <1>2, <1>3

\* Closing the books on the log of an epoch finds nothing wrong with it (books.rs close).
LEMMA CloseClean ==
    ASSUME SteadyInv, Serving, at = "replay", KeepsUp, BooksKeepUp, PageKept,
           NEW e, e = Len(replayed) + 1, NowActive(e)
    PROVE  CloseAlarms(books, e, page.headers[e], log_of(e), page.known) = {}
<1>1. /\ e \in FirstWindow..Done /\ e \in DOMAIN headers /\ page.headers[e] = headers[e]
      /\ e \in DOMAIN page.headers /\ OldEpochs # 0
      /\ \/ e = FirstWindow /\ books = NewBooks
         \/ /\ e - 1 \in FirstWindow..Done /\ books.active
            /\ books.last = [epoch |-> e - 1, target |-> windows[e - 1].target,
                             accepted |-> Len(EpochSparks(e - 1))]
    BY ActiveIs
<1>2. /\ HeadersCommit /\ TargetsFollow /\ pc # "down"
      /\ DOMAIN headers = FirstHeader..Done /\ Done <= Len(run)
      /\ FirstHeader \in Nat /\ FirstHeader <= FirstWindow
      /\ FirstWindow \in Nat \ {0} /\ Done \in Nat
    BY ShownIs DEF SteadyInv, WatchInv, ServedInv, ReplayInv, Serving
<1>3. \A n \in FirstWindow..Done :
          /\ headers[n].log = EpochSparks(n) /\ windows[n].accepted = Len(EpochSparks(n))
    BY <1>2 DEF HeadersCommit
<1>4. /\ windows[e].accepted = Len(EpochSparks(e)) /\ headers[e].log = EpochSparks(e)
    BY <1>1, <1>3
<1>5. \A n \in FirstWindow..Done : n \in DOMAIN windows
    <2>1. WindowsTo(epoch) /\ (epoch = Len(run) + 1 \/ epoch = Len(run)) /\ Len(run) \in Nat
        BY DoneIs DEF SteadyInv, WatchInv, ServedInv, ReplayInv
    <2> QED BY <1>2, <2>1 DEF WindowsTo
<1>6. ~(books.last.epoch # NULL /\ books.last.epoch + 1 = e
        /\ windows[e].target # next_target(books.last.target, books.last.accepted))
    <2>1. CASE books = NewBooks
        BY <2>1, NewBooksAre
    <2>2. CASE books # NewBooks
        <3>1. /\ e - 1 \in FirstWindow..Done /\ books.last.target = windows[e - 1].target
              /\ books.last.accepted = Len(EpochSparks(e - 1))
            BY <1>1, <2>2
        <3>2. Follows(e)
            BY <1>1, <1>2, <1>5, <3>1 DEF TargetsFollow
        <3>3. windows[e - 1].accepted = Len(EpochSparks(e - 1))
            BY <1>3, <3>1
        <3> QED BY <3>1, <3>2, <3>3 DEF Follows
    <2> QED BY <2>1, <2>2
<1>7. \A x \in ToSet(EpochSparks(e)) : x.wish \in page.known
    <2>1. e <= page.to /\ page.to \in Nat
        BY PageEpoch
    <2>2. e \in FirstWindow..page.to
        BY <1>1, <1>2, <2>1
    <2> QED BY <2>2 DEF PageKept, MiraclesRead, ToSet
<1>8. CloseAlarms(books, e, page.headers[e], log_of(e), page.known) \cap LogAlarms = {}
    BY <1>1, CloseQuietly DEF SteadyInv, WatchInv, PageKept, PageHolds
<1>9. CloseAlarms(books, e, page.headers[e], log_of(e), page.known)
         \subseteq {"challenge", "sparks below their target"}
    <2>1. /\ log_of(e).window = windows[e] /\ log_of(e).sparks = EpochSparks(e)
        BY DEF log_of
    <2> QED BY <1>1, <1>4, <1>6, <1>7, <2>1 DEF CloseAlarms
<1> QED BY <1>8, <1>9 DEF LogAlarms

\* The wishes that the watcher knows are all that the log of the epoch has sparks for.
LEMMA KnowsAll ==
    ASSUME SteadyInv, Serving, at = "replay", KeepsUp, BooksKeepUp, PageKept,
           NEW e, e = Len(replayed) + 1, NowActive(e), NEW b, b = books
    PROVE  NowAdded(e) = Opened(b, e)
<1>1. e \in FirstWindow..Done /\ e <= page.to /\ page.to \in Nat
    BY ActiveIs, PageEpoch
<1>2. SparkWeight(log_of(e).window.target) \in Nat
    <2>1. e \in DOMAIN windows
        <3>1. /\ WindowsTo(epoch) /\ (epoch = Len(run) + 1 \/ epoch = Len(run)) /\ Len(run) \in Nat
              /\ Done <= Len(run) /\ Done \in Nat
            BY DoneIs DEF SteadyInv, WatchInv, ServedInv, ReplayInv
        <3> QED BY <1>1, <3>1, ConstantTypes DEF WindowsTo
    <2>2. windows[e] \in WindowRecords
        BY <2>1 DEF SteadyInv, WatchInv, ServedInv, ReplayInv, IInv, TypeOK, LogTypes
    <2>3. windows[e].target \in Nat \ {0}
        BY <2>2 DEF WindowRecords
    <2>4. HashSpace \div windows[e].target \in Nat
        BY <2>3, ConstantTypes
    <2> QED BY <2>4 DEF SparkWeight, log_of
<1>3. \A w \in Wishes : SparksFor(w, log_of(e).sparks) # {} => w \in page.known
    <2>1. \A i \in DOMAIN EpochSparks(e) : EpochSparks(e)[i].wish \in page.known
        BY <1>1, ConstantTypes DEF PageKept, MiraclesRead
    <2> QED BY <2>1 DEF SparksFor, log_of
<1>4. PICK log : log = log_of(e)
    OBVIOUS
<1>5. PICK known : known = page.known
    OBVIOUS
<1>6. AddWindow(b, e, log, known) = AddWindow(b, e, log, Wishes)
    BY <1>2, <1>3, <1>4, <1>5, KnowingEnough
<1> QED BY <1>4, <1>5, <1>6 DEF NowAdded, Opened

\* Books that follow the server go on to, and find nothing wrong with the epoch.
LEMMA BooksFollow ==
    ASSUME SteadyInv, Serving, at = "replay", KeepsUp, BooksKeepUp, PageKept,
           NEW e, e = Len(replayed) + 1, NowActive(e),
           NEW B, NEW d, d = Done, FollowsServer(B, d), books = B[e - 1]
    PROVE  /\ Softened(NowSettled(e), e) = B[e]
           /\ NowChosen(e).selected = page.given[e]
           /\ page.headers[e].ledger = BooksRoot(NowSettled(e))
<1>1. /\ e \in FirstWindow..d /\ page.headers[e] = headers[e]
      /\ Len(replayed) = e - 1 /\ page.given[e] = Wished(miracles[e])
    BY ActiveIs, PageEpoch
<1>2. PICK b : b = B[e - 1]
    OBVIOUS
<1>3. PICK t : t = headers[e].beacon
    OBVIOUS
<1>4. /\ B[e] = Followed(b, e, t)
      /\ headers[e].ledger = BooksRoot(Executed(b, e, t))
      /\ Wished(miracles[e]) = Chosen(b, e, t).selected
    BY <1>1, <1>2, <1>3 DEF FollowsServer, Recorded
<1>5. NowAdded(e) = Opened(b, e)
    BY <1>2, KnowsAll
<1>6. NowChosen(e) = Chosen(b, e, t)
    BY <1>1, <1>3, <1>5 DEF NowChosen, BooksChoice, Chosen, ChoiceIn
<1>7. NowSettled(e) = Executed(b, e, t)
    BY <1>5, <1>6 DEF NowSettled, Executed, Picked
<1> QED BY <1>1, <1>4, <1>6, <1>7 DEF Followed

\* What is left of the alarms found when the books do not follow the server.
LEMMA FoundFew ==
    ASSUME SteadyInv, Serving, at = "replay", KeepsUp, BooksKeepUp, PageKept,
           NEW e, e = Len(replayed) + 1, NowActive(e)
    PROVE  NowFound(e) \subseteq {"the miracles are not the ones selected",
                                  "the ledger does not replay"}
BY CloseClean DEF NowFound

\* The shape of the books after an epoch, and what they remember of it.
LEMMA NowFields ==
    ASSUME Shaped(books), NEW e
    PROVE  /\ Shaped(Softened(NowSettled(e), e)) /\ Softened(NowSettled(e), e).active = TRUE
           /\ Softened(NowSettled(e), e).last = [epoch |-> e, target |-> windows[e].target,
                                                 accepted |-> Len(EpochSparks(e))]
<1>1. PICK b : b = NowAdded(e)
    OBVIOUS
<1>2. Shaped(b) /\ b.last = [epoch |-> e, target |-> windows[e].target,
                             accepted |-> Len(EpochSparks(e))]
    <2>1. /\ log_of(e).window = windows[e] /\ log_of(e).sparks = EpochSparks(e)
        BY DEF log_of
    <2> QED BY <1>1, <2>1 DEF NowAdded, AddWindow, Shaped
<1>3. PICK chosen : chosen = NowChosen(e)
    OBVIOUS
<1>4. PICK a : a = AfterChoice(b, chosen)
    OBVIOUS
<1>5. Shaped(a) /\ a.last = b.last
    BY <1>2, <1>4, ChoiceFields
<1>6. PICK x : x = Settled(a, e, chosen.selected)
    OBVIOUS
<1>7. Shaped(x) /\ x.last = a.last
    BY <1>5, <1>6, SettledFields
<1>8. NowSettled(e) = x
    BY <1>1, <1>3, <1>4, <1>6 DEF NowSettled
<1>9. Shaped(Softened(x, e)) /\ Softened(x, e).active = TRUE /\ Softened(x, e).last = x.last
    BY <1>7, FollowedFields
<1> QED BY <1>2, <1>5, <1>7, <1>8, <1>9


\* A step of the watcher leaves what the server holds, and its records say the same.
LEMMA SameServer ==
    ASSUME UNCHANGED vars
    PROVE  /\ UNCHANGED <<pc, open, epoch, run, live, headers, windows, miracles, status, store, price,
                          req>>
           /\ Done' = Done /\ (Serving' <=> Serving)
           /\ \A e : EpochSparks(e)' = EpochSparks(e)
<1>1. UNCHANGED <<pc, open, epoch, run, live, headers, windows, miracles, status, store, price, req,
                  rows, logs>>
    BY DEF vars, disk, world, memory, wishTable
<1> QED BY <1>1 DEF Done, Serving, EpochSparks

\* An epoch at a time.
LEMMA ReplayIsOne ==
    ASSUME SteadyInv, Replay
    PROVE  Len(replayed') = Len(replayed) + 1
<1>1. PICK e : e = Len(replayed) + 1
    OBVIOUS
<1>2. replayed' = Append(replayed, NowStepped(e))
    BY <1>1, ReplayDoes
<1>3. PICK S : replayed \in Seq(S)
    BY DEF SteadyInv, WatchInv
<1>4. replayed \in Seq(S \cup {NowStepped(e)})
    BY <1>3, SeqMonotonic
<1> QED BY <1>2, <1>4

\* An epoch that is replayed moves the watcher on in the world of the server, and its page.
LEMMA ReplayKeepsUp ==
    ASSUME SteadyInv, Serving, Replay, KeepsUp, BooksKeepUp, PageKept, GivenByNature
    PROVE  KeepsUp'
<1>1. PICK e : e = Len(replayed) + 1
    OBVIOUS
<1>2. at = "replay" /\ UNCHANGED vars /\ UNCHANGED <<last_header, excuses>>
    BY ReplayDoes
<1>3. /\ replayed' = Append(replayed, NowStepped(e)) /\ diverged' = ~NowSame(e)
    BY <1>1, ReplayDoes
<1>4. /\ e \in Nat \ {0} /\ e \in 1..live /\ Len(replayed) = e - 1
    BY <1>1, <1>2, PageEpoch
<1>5. Len(replayed') = e
    BY <1>1, <1>4, ReplayIsOne
<1>6. ("unsealed" \notin excuses => NowSame(e))
      /\ (NowSame(e) => Append(replayed, NowStepped(e)) = SubSeq(run, 1, e))
    BY <1>1, <1>2, StepsTheSame
<1>7. UNCHANGED <<run, live, headers>> /\ live \in Nat
    BY <1>2, SameServer, ShownIs
<1>8. Len(replayed') \in Nat /\ Len(replayed') <= live'
    BY <1>4, <1>5, <1>7
<1>9. \/ last_header' = NoHeader
      \/ /\ last_header'.epoch \in DOMAIN headers'
         /\ last_header'.hash = HeaderHash(headers'[last_header'.epoch])
    BY <1>2, <1>7 DEF KeepsUp
<1>10. diverged' \in BOOLEAN /\ (diverged' => "unsealed" \in excuses')
    BY <1>2, <1>3, <1>6
<1>11. ~diverged' => replayed' = SubSeq(run', 1, Len(replayed'))
    BY <1>3, <1>5, <1>6, <1>7
<1> QED BY <1>8, <1>9, <1>10, <1>11 DEF KeepsUp


\* New books do not follow the ledger yet.
LEMMA NotActiveYet == [NewBooks EXCEPT !.active = FALSE] = NewBooks
<1>1. ASSUME NEW p, NEW l, NEW s, NEW k, NEW x,
             x = [active |-> FALSE, price |-> p, last |-> l, status |-> s, work |-> k]
      PROVE  [x EXCEPT !.active = FALSE] = x
    <2>1. PICK y : y = [x EXCEPT !.active = FALSE]
        OBVIOUS
    <2>2. x.active = FALSE /\ DOMAIN x = {"active", "price", "last", "status", "work"}
        BY <1>1
    <2>3. x = [f \in DOMAIN x |-> x[f]]
        BY <1>1
    <2>4. y = [f \in DOMAIN x |-> IF f = "active" THEN FALSE ELSE x[f]]
        BY <2>1
    <2>5. \A f \in DOMAIN x : (IF f = "active" THEN FALSE ELSE x[f]) = x[f]
        BY <2>2
    <2>6. y = [f \in DOMAIN x |-> x[f]]
        BY <2>4, <2>5
    <2> QED BY <2>1, <2>3, <2>6
<1>2. PICK s : s = [w \in Wishes |-> "none"]
    OBVIOUS
<1>3. PICK k : k = [w \in Wishes |-> 0]
    OBVIOUS
<1>4. NewBooks = [active |-> FALSE, price |-> PriceMin, last |-> NoWindow, status |-> s, work |-> k]
    BY <1>2, <1>3 DEF NewBooks
<1> QED BY <1>1, <1>4

\* The books after an epoch that is replayed.
LEMMA ReplayKeepsBooks ==
    ASSUME SteadyInv, Serving, Replay, KeepsUp, BooksKeepUp, PageKept
    PROVE  BooksKeepUp'
<1>1. PICK e : e = Len(replayed) + 1
    OBVIOUS
<1>2. /\ at = "replay"
      /\ NowActive(e) => books' = Softened(NowSettled(e), e)
      /\ ~NowActive(e) => books' = [books EXCEPT !.active = FALSE]
    BY <1>1, ReplayDoes
<1>3. UNCHANGED windows /\ Done' = Done /\ EpochSparks(e)' = EpochSparks(e)
    BY ReplayDoes, SameServer
<1>4. Len(replayed') = e /\ e \in Nat \ {0} /\ Len(replayed) = e - 1
    BY <1>1, <1>2, ReplayIsOne, PageEpoch
<1>5. Shaped(books) /\ (Len(replayed) <= OldEpochs => books = NewBooks)
    BY DEF BooksKeepUp
<1>6. CASE NowActive(e)
    <2>1. e \in FirstWindow..Done
        BY <1>1, <1>2, <1>6, ActiveIs
    <2>2. /\ Shaped(books') /\ books'.active = TRUE
          /\ books'.last = [epoch |-> e, target |-> windows[e].target,
                            accepted |-> Len(EpochSparks(e))]
        BY <1>2, <1>5, <1>6, NowFields
    <2>3. ~(e <= OldEpochs)
        BY <2>1, <1>4, ConstantTypes
    <2>4. \A r : r = Len(replayed') =>
              books'.last = [epoch |-> r, target |-> windows'[r].target,
                             accepted |-> Len(EpochSparks(r)')]
        BY <1>3, <1>4, <2>2
    <2> QED BY <1>3, <1>4, <2>1, <2>2, <2>3, <2>4 DEF BooksKeepUp, Shaped
<1>7. CASE ~NowActive(e)
    <2>1. books' = [books EXCEPT !.active = FALSE]
        BY <1>2, <1>7
    <2>2. Shaped(books') /\ books'.active = FALSE
        BY <1>5, <2>1 DEF Shaped
    <2>3. ASSUME e <= OldEpochs
          PROVE  books' = NewBooks
        <3>1. books = NewBooks
            BY <1>4, <1>5, <2>3, ConstantTypes
        <3>2. [NewBooks EXCEPT !.active = FALSE] = NewBooks
            BY NotActiveYet
        <3> QED BY <2>1, <3>1, <3>2
    <2> QED BY <1>4, <2>2, <2>3 DEF BooksKeepUp, Shaped
<1> QED BY <1>6, <1>7

\* The page after an epoch that is replayed: the same, one further on, or none.
LEMMA ReplayKeepsPage ==
    ASSUME SteadyInv, Serving, Replay, KeepsUp, BooksKeepUp, PageKept
    PROVE  PageKept'
<1>1. PICK e : e = Len(replayed) + 1
    OBVIOUS
<1>2. /\ at = "replay" /\ UNCHANGED vars /\ excuses' = excuses /\ diverged' = ~NowSame(e)
      /\ at' = IF ~NowSame(e) THEN "poll"
               ELSE IF e < page.to THEN "replay"
               ELSE IF e < page.latest THEN "headers of the page" ELSE "poll"
    BY <1>1, ReplayDoes
<1>3. page' = IF at' = "headers of the page"
              THEN [NoPage EXCEPT !.latest = page.latest,
                                  !.to = Smaller(page.latest, Len(replayed') + ReplayPage)]
              ELSE IF at' = "poll" THEN NoPage ELSE page
    BY DEF Replay
<1>4. Len(replayed') = e
    BY <1>1, ReplayIsOne
<1>5. /\ e \in Nat \ {0} /\ page.to \in Nat /\ page.latest \in Nat /\ page.to <= page.latest
      /\ page.latest <= live
    BY <1>1, <1>2, PageEpoch
<1>6. UNCHANGED <<live, headers, run, miracles>> /\ \A n : EpochSparks(n)' = EpochSparks(n)
    BY <1>2, SameServer
<1>7. PageFields /\ HeadersRead /\ MiraclesRead
    BY DEF PageKept
<1>8. DOMAIN NoPage = {"latest", "to", "headers", "worlds", "given", "known"}
    BY DEF NoPage
<1>9. CASE at' = "poll"
    BY <1>3, <1>8, <1>9 DEF PageKept, PageFields, GoesOn, PageAhead, HeadersRead, MiraclesRead,
                            Fetching, Fetched
<1>10. CASE at' = "replay"
    <2>1. NowSame(e) /\ e < page.to
        BY <1>2, <1>10
    <2>2. page' = page
        BY <1>3, <1>10
    <2>3. PageFields' /\ PageAhead'
        BY <1>2, <1>4, <1>5, <1>6, <1>7, <2>1, <2>2 DEF PageFields, PageAhead
    <2>4. Fetched
        BY <1>2 DEF Fetched
    <2>5. HeadersRead'
        BY <1>2, <1>6, <1>7, <2>2, <2>4 DEF HeadersRead
    <2>6. MiraclesRead'
        BY <1>2, <1>6, <1>7, <2>2 DEF MiraclesRead
    <2> QED BY <1>10, <2>3, <2>5, <2>6 DEF PageKept, GoesOn
<1>11. CASE at' = "headers of the page"
    <2>1. NowSame(e) /\ e < page.latest
        BY <1>2, <1>11
    <2>2. PICK to : to = Smaller(page.latest, e + ReplayPage)
        OBVIOUS
    <2>3. page' = [NoPage EXCEPT !.latest = page.latest, !.to = to]
        BY <1>3, <1>4, <1>11, <2>2
    <2>4. DOMAIN page' = DOMAIN NoPage /\ page'.latest = page.latest /\ page'.to = to
        BY <1>8, <2>3
    <2>5. to \in Nat /\ e < to /\ to <= page.latest
        BY <1>5, <2>1, <2>2, WatcherAssumption DEF Smaller
    <2>6. PageFields' /\ PageAhead'
        BY <1>2, <1>4, <1>5, <1>6, <1>8, <2>1, <2>4, <2>5 DEF PageFields, PageAhead
    <2> QED BY <1>11, <2>6 DEF PageKept, GoesOn, HeadersRead, MiraclesRead, Fetched
<1>12. at' \in {"poll", "replay", "headers of the page"}
    BY <1>2
<1> QED BY <1>9, <1>10, <1>11, <1>12


\* The headers up to an epoch have been checked: the last of them is the last one kept.
PointsAt(last, e) ==
    IF last = NoHeader THEN \A n \in DOMAIN headers : n > e
    ELSE /\ last.epoch \in DOMAIN headers /\ last.hash = HeaderHash(headers[last.epoch])
         /\ last.epoch <= e /\ \A n \in DOMAIN headers : n > last.epoch => n > e

\* The state of check_headers after an epoch: no alarm was raised but one about the log.
Keeping(st, as, e) ==
    /\ "heads" \in DOMAIN st /\ "last" \in DOMAIN st /\ "alarms" \in DOMAIN st
    /\ st.alarms \subseteq as \cup LogAlarms /\ PointsAt(st.last, e)

\* The alarms that heads give are about the log.
LEMMA ExtendsAlarms ==
    ASSUME NEW st, "heads" \in DOMAIN st, "alarms" \in DOMAIN st, NEW sth
    PROVE  /\ extends(st, sth).alarms \subseteq st.alarms \cup LogAlarms
           /\ DOMAIN extends(st, sth) = DOMAIN st
<1>1. PICK found : found = IF sth.epoch \in DOMAIN st.heads
                           THEN HeadAlarms(st.heads[sth.epoch], sth) ELSE {}
    OBVIOUS
<1>2. found \subseteq LogAlarms
    BY <1>1 DEF HeadAlarms, LogAlarms
<1>3. extends(st, sth) = [st EXCEPT !.alarms = st.alarms \cup found,
                                    !.heads = IF found = {} THEN Put(st.heads, sth.epoch, sth)
                                              ELSE st.heads]
    BY <1>1 DEF extends
<1> QED BY <1>2, <1>3

\* What checking a header keeps.
LEMMA CheckHeaderFields ==
    ASSUME NEW st, "heads" \in DOMAIN st, "last" \in DOMAIN st, "alarms" \in DOMAIN st, NEW h
    PROVE  /\ DOMAIN check_header(st, h) = DOMAIN st
           /\ check_header(st, h).last = [epoch |-> h.epoch, hash |-> HeaderHash(h)]
           /\ check_header(st, h).alarms
                 \subseteq st.alarms \cup ChainAlarms(st.last, h) \cup LogAlarms
<1>1. PICK chained : chained = [st EXCEPT !.alarms = @ \cup ChainAlarms(st.last, h)]
    OBVIOUS
<1>2. /\ DOMAIN chained = DOMAIN st /\ chained.alarms = st.alarms \cup ChainAlarms(st.last, h)
    BY <1>1
<1>3. PICK sth : sth = TreeHead(h.epoch, h.log)
    OBVIOUS
<1>4. PICK checked :
          checked = IF h.log # <<>> THEN extends(chained, sth)
                    ELSE IF h.epoch \in DOMAIN st.heads /\ st.heads[h.epoch].size > 0
                         THEN [chained EXCEPT !.alarms = @ \cup {"a header drops the epoch's sparks"}]
                    ELSE chained
    OBVIOUS
<1>5. DOMAIN checked = DOMAIN st /\ checked.alarms \subseteq chained.alarms \cup LogAlarms
    <2>1. CASE h.log # <<>>
        BY <1>2, <1>4, <2>1, ExtendsAlarms
    <2>2. CASE h.log = <<>>
        <3>1. \/ checked = [chained EXCEPT !.alarms = @ \cup {"a header drops the epoch's sparks"}]
              \/ checked = chained
            BY <1>4, <2>2
        <3> QED BY <1>2, <3>1 DEF LogAlarms
    <2> QED BY <2>1, <2>2
<1>6. check_header(st, h) = [checked EXCEPT !.heads = Forget(@, h.epoch),
                                            !.last = [epoch |-> h.epoch, hash |-> HeaderHash(h)]]
    BY <1>1, <1>3, <1>4 DEF check_header
<1> QED BY <1>2, <1>5, <1>6

\* The next header is chained to the last one kept.
LEMMA CheckOneChained ==
    ASSUME SteadyInv, Serving, NEW st, NEW as, NEW e \in Int, Keeping(st, as, e - 1), e >= 0
    PROVE  /\ e \in DOMAIN headers => Keeping(check_header(st, headers[e]), as, e)
           /\ e \notin DOMAIN headers => Keeping(st, as, e)
<1>1. \A n \in DOMAIN headers : n \in Nat /\ headers[n].epoch = n
    BY ConstantTypes DEF SteadyInv, WatchInv, ServedInv, ReplayInv, IInv, TypeOK, ChainTypes
<1>2. PICK last : last = st.last
    OBVIOUS
<1>3. PointsAt(last, e - 1)
    BY <1>2 DEF Keeping
<1>4. ASSUME last # NoHeader
      PROVE  /\ last.epoch \in DOMAIN headers /\ last.hash = HeaderHash(headers[last.epoch])
             /\ last.epoch <= e - 1 /\ \A n \in DOMAIN headers : n > last.epoch => n > e - 1
    BY <1>3, <1>4 DEF PointsAt
<1>5. CASE e \notin DOMAIN headers
    <2>1. PointsAt(last, e)
        <3>1. CASE last = NoHeader
            <4>1. \A n \in DOMAIN headers : n > e - 1
                BY <1>3, <3>1 DEF PointsAt
            <4>2. \A n \in DOMAIN headers : n > e
                BY <1>1, <1>5, <4>1
            <4> QED BY <3>1, <4>2 DEF PointsAt
        <3>2. CASE last # NoHeader
            <4>1. \A n \in DOMAIN headers : n > last.epoch => n > e
                BY <1>1, <1>4, <1>5, <3>2
            <4>2. last.epoch <= e
                BY <1>1, <1>4, <3>2
            <4> QED BY <1>4, <3>2, <4>1, <4>2 DEF PointsAt
        <3> QED BY <3>1, <3>2
    <2> QED BY <1>2, <1>5, <2>1 DEF Keeping
<1>6. CASE e \in DOMAIN headers
    <2>1. PICK h : h = headers[e]
        OBVIOUS
    <2>2. ChainAlarms(last, h) = {}
        <3> SUFFICES ASSUME last # NoHeader
                     PROVE  h.prev = last.hash
            BY DEF ChainAlarms
        <3>1. last.epoch \in DOMAIN headers /\ last.epoch \in Nat /\ last.epoch <= e - 1
            BY <1>1, <1>4
        <3>2. e # FirstHeader
            <4>1. \A n \in DOMAIN headers : n >= FirstHeader
                BY ShownIs
            <4> QED BY <3>1, <4>1, ShownIs
        <3>3. e - 1 \in DOMAIN headers /\ h.prev = HeaderHash(headers[e - 1])
            BY <1>6, <2>1, <3>2 DEF SteadyInv, WatchInv, ServedInv, ChainLinks
        <3>4. ~(e - 1 > last.epoch)
            BY <1>4, <3>3
        <3>5. last.epoch = e - 1
            BY <3>1, <3>4
        <3> QED BY <1>4, <3>3, <3>5
    <2>3. /\ "heads" \in DOMAIN st /\ "last" \in DOMAIN st /\ "alarms" \in DOMAIN st
          /\ st.alarms \subseteq as \cup LogAlarms
        BY DEF Keeping
    <2>4. PICK y : y = check_header(st, h)
        OBVIOUS
    <2>5. /\ DOMAIN y = DOMAIN st /\ y.alarms \subseteq as \cup LogAlarms
          /\ y.last = [epoch |-> h.epoch, hash |-> HeaderHash(h)]
        BY <1>2, <2>2, <2>3, <2>4, CheckHeaderFields
    <2>6. y.last.epoch = e /\ y.last.hash = HeaderHash(headers[e]) /\ y.last # NoHeader
        <3>1. y.last.epoch = e /\ y.last.hash = HeaderHash(headers[e])
            BY <1>1, <1>6, <2>1, <2>5
        <3>2. NoHeader.epoch = -1
            BY DEF NoHeader, NULL
        <3>3. y.last.epoch # NoHeader.epoch
            BY <3>1, <3>2
        <3> QED BY <3>1, <3>3
    <2>7. PointsAt(y.last, e)
        BY <1>6, <2>6 DEF PointsAt
    <2> QED BY <1>6, <2>1, <2>3, <2>4, <2>5, <2>7 DEF Keeping
<1> QED BY <1>5, <1>6

\* So are all of them, one after the other.
LEMMA CheckAllChained ==
    ASSUME SteadyInv, Serving, NEW st, NEW as, NEW from \in 0..(MaxEpoch + 1),
           Keeping(st, as, from - 1)
    PROVE  Keeping(CheckAll(st, from, MaxEpoch), as, MaxEpoch)
<1> DEFINE n == MaxEpoch + 1 - from
           w == CHOOSE w : Checked(w, st, from, MaxEpoch)
           Good == {k \in 0..n : Keeping(w[from - 1 + k], as, from - 1 + k)}
<1>1. /\ from \in Nat /\ n \in Nat /\ MaxEpoch = from - 1 + n /\ MaxEpoch \in Nat
    BY ConstantTypes
<1> HIDE DEF n
<1>2. \E v : Checked(v, st, from, MaxEpoch)
    BY <1>1, CheckedExists
<1>3. Checked(w, st, from, MaxEpoch)
    BY <1>2
<1>4. CheckAll(st, from, MaxEpoch) = w[MaxEpoch]
    BY DEF CheckAll, Checked
<1> HIDE DEF w
<1>5. \A e \in (from - 1)..MaxEpoch :
          w[e] = IF e < from THEN st
                 ELSE IF e \in DOMAIN headers THEN check_header(w[e - 1], headers[e])
                 ELSE w[e - 1]
    BY <1>3 DEF Checked
<1>6. 0 \in Good
    <2>1. from - 1 + 0 \in (from - 1)..MaxEpoch /\ from - 1 + 0 < from /\ from - 1 + 0 = from - 1
        BY <1>1
    <2>2. w[from - 1 + 0] = st
        BY <1>5, <2>1
    <2>3. Keeping(w[from - 1 + 0], as, from - 1 + 0)
        BY <2>1, <2>2
    <2>4. 0 \in 0..n
        BY <1>1
    <2> QED BY <2>3, <2>4, Zenon
<1>7. ASSUME NEW k \in 0..(n - 1), k \in Good
      PROVE  k + 1 \in Good
    <2> DEFINE e == from - 1 + (k + 1)
    <2>1. e \in (from - 1)..MaxEpoch /\ ~(e < from) /\ e - 1 = from - 1 + k /\ e \in Int /\ e >= 0
        BY <1>1
    <2>2. Keeping(w[e - 1], as, e - 1)
        BY <1>7, <2>1
    <2>3. w[e] = IF e \in DOMAIN headers THEN check_header(w[e - 1], headers[e]) ELSE w[e - 1]
        BY <1>5, <2>1
    <2> HIDE DEF e
    <2>4. Keeping(w[e], as, e)
        BY <2>1, <2>2, <2>3, CheckOneChained
    <2>5. k + 1 \in 0..n
        BY <1>1
    <2> QED BY <2>4, <2>5 DEF e
<1>8. n \in Good
    <2> HIDE DEF Good
    <2>1. 0..n \subseteq Good
        BY <1>1, <1>6, <1>7, NatSetInduction
    <2> QED BY <1>1, <2>1
<1>9. Keeping(w[from - 1 + n], as, from - 1 + n)
    BY <1>8
<1> QED BY <1>1, <1>4, <1>9


\* A watcher that starts has replayed nothing.
LEMMA BeginKeeps ==
    ASSUME SteadyInv, Serving, Begin
    PROVE  KeepsUp' /\ BooksKeepUp' /\ PageKept' /\ alarms' = {}
<1>1. /\ last_header' = NoHeader /\ replayed' = <<>> /\ diverged' = FALSE /\ books' = NewBooks
      /\ page' = NoPage /\ at' = "poll" /\ alarms' = {} /\ UNCHANGED vars
    BY DEF Begin
<1>2. live' = live /\ run' = run /\ live \in Nat
    BY <1>1, SameServer, ShownIs
<1>3. Len(<<>>) = 0 /\ SubSeq(run, 1, 0) = <<>>
    <2>1. \A i \in 1..0 : FALSE
        OBVIOUS
    <2> QED BY <2>1, ShownIs
<1>4. KeepsUp'
    <2>1. Len(replayed') = 0 /\ Len(replayed') \in Nat /\ Len(replayed') <= live'
        BY <1>1, <1>2, <1>3
    <2>2. replayed' = SubSeq(run', 1, Len(replayed'))
        BY <1>1, <1>2, <1>3, <2>1
    <2> QED BY <1>1, <2>1, <2>2 DEF KeepsUp
<1>5. BooksKeepUp'
    BY <1>1, NewBooksAre DEF BooksKeepUp, Shaped
<1>6. PageKept'
    BY <1>1 DEF NoPage, PageKept, PageFields, GoesOn, PageAhead, HeadersRead, MiraclesRead, Fetching,
                Fetched
<1> QED BY <1>1, <1>4, <1>5, <1>6

\* A round that polls the head, or reads the live epoch, keeps what has been replayed.
LEMMA SameReplayed ==
    ASSUME SteadyInv, UNCHANGED vars, UNCHANGED <<replayed, diverged, books>>,
           excuses \subseteq excuses', KeepsUp, BooksKeepUp
    PROVE  /\ BooksKeepUp'
           /\ UNCHANGED last_header => KeepsUp'
<1>1. /\ UNCHANGED <<live, headers, windows, run>> /\ Done' = Done
      /\ \A e : EpochSparks(e)' = EpochSparks(e)
    BY SameServer
<1> QED BY <1>1 DEF KeepsUp, BooksKeepUp, Shaped

\* The head that is polled can only give alarms about the log.
LEMMA PollKeeps ==
    ASSUME SteadyInv, Serving, check_head, KeepsUp, BooksKeepUp, PageKept
    PROVE  KeepsUp' /\ BooksKeepUp' /\ PageKept' /\ alarms' \subseteq alarms \cup LogAlarms
<1>1. /\ UNCHANGED vars /\ UNCHANGED <<last_header, replayed, diverged, books, page, excuses>>
      /\ at' \in {"poll", "headers"}
      /\ \E sth : alarms' = extends([heads |-> heads, alarms |-> alarms], sth).alarms
    BY DEF check_head
<1>2. KeepsUp' /\ BooksKeepUp'
    BY <1>1, SameReplayed
<1>3. PageKept'
    BY <1>1 DEF PageKept, PageFields, GoesOn, PageAhead, HeadersRead, MiraclesRead, Fetching, Fetched
<1>4. alarms' \subseteq alarms \cup LogAlarms
    <2>1. PICK st : st = [heads |-> heads, alarms |-> alarms]
        OBVIOUS
    <2>2. "heads" \in DOMAIN st /\ "alarms" \in DOMAIN st /\ st.alarms = alarms
        BY <2>1
    <2> QED BY <1>1, <2>1, <2>2, ExtendsAlarms
<1> QED BY <1>2, <1>3, <1>4

\* The headers read are chained to those read before, and leave the last of them.
LEMMA HeadersKeep ==
    ASSUME SteadyInv, Serving, check_headers, KeepsUp, BooksKeepUp, PageKept
    PROVE  KeepsUp' /\ BooksKeepUp' /\ PageKept' /\ alarms' \subseteq alarms \cup LogAlarms
<1>1. PICK from : from = IF last_header = NoHeader THEN 0 ELSE last_header.epoch + 1
    OBVIOUS
<1>2. PICK st : st = [heads |-> heads, last |-> last_header, alarms |-> alarms]
    OBVIOUS
<1>3. /\ UNCHANGED vars /\ UNCHANGED <<replayed, diverged, books, page, excuses>>
      /\ last_header' = CheckAll(st, from, MaxEpoch).last
      /\ alarms' = CheckAll(st, from, MaxEpoch).alarms
      /\ at' = IF diverged THEN "poll" ELSE "latest"
    BY <1>1, <1>2 DEF check_headers
<1>4. /\ "heads" \in DOMAIN st /\ "last" \in DOMAIN st /\ "alarms" \in DOMAIN st
      /\ st.alarms = alarms /\ st.last = last_header
    BY <1>2
<1>5. /\ DOMAIN headers = FirstHeader..Done /\ Done \in Nat /\ FirstHeader \in Nat
      /\ Done <= MaxEpoch /\ MaxEpoch \in Nat
    BY ShownIs, ConstantTypes
<1>6. from \in 0..(MaxEpoch + 1) /\ PointsAt(last_header, from - 1)
    <2>1. CASE last_header = NoHeader
        <3>1. from = 0 /\ \A n \in DOMAIN headers : n > from - 1
            BY <1>1, <1>5, <2>1
        <3> QED BY <1>5, <2>1, <3>1 DEF PointsAt
    <2>2. CASE last_header # NoHeader
        <3>1. /\ last_header.epoch \in DOMAIN headers
              /\ last_header.hash = HeaderHash(headers[last_header.epoch])
            BY <2>2 DEF KeepsUp
        <3>2. from = last_header.epoch + 1
            BY <1>1, <2>2
        <3>3. from \in 0..(MaxEpoch + 1) /\ from - 1 = last_header.epoch
            BY <1>5, <3>1, <3>2
        <3>4. last_header.epoch <= from - 1 /\ \A n : n > last_header.epoch => n > from - 1
            BY <1>5, <3>1, <3>3
        <3> QED BY <2>2, <3>1, <3>3, <3>4 DEF PointsAt
    <2> QED BY <2>1, <2>2
<1>7. Keeping(st, alarms, from - 1)
    BY <1>4, <1>6 DEF Keeping
<1>8. Keeping(CheckAll(st, from, MaxEpoch), alarms, MaxEpoch)
    BY <1>6, <1>7, CheckAllChained
<1>9. PointsAt(last_header', MaxEpoch) /\ alarms' \subseteq alarms \cup LogAlarms
    BY <1>3, <1>8 DEF Keeping
<1>10. BooksKeepUp'
    BY <1>3, SameReplayed
<1>11. KeepsUp'
    <2>1. UNCHANGED <<live, run, headers>>
        BY <1>3, SameServer
    <2>2. \/ last_header' = NoHeader
          \/ /\ last_header'.epoch \in DOMAIN headers
             /\ last_header'.hash = HeaderHash(headers[last_header'.epoch])
        BY <1>9 DEF PointsAt
    <2> QED BY <1>3, <2>1, <2>2 DEF KeepsUp
<1>12. PageKept'
    <2>1. at' \in {"poll", "latest"} /\ (at' = "latest" => ~diverged')
        BY <1>3
    <2> QED BY <1>3, <2>1 DEF PageKept, PageFields, GoesOn, PageAhead, HeadersRead, MiraclesRead,
                              Fetching, Fetched
<1> QED BY <1>9, <1>10, <1>11, <1>12


\* The live epoch read is ahead of what has been replayed, or there is nothing to do.
LEMMA LatestKeeps ==
    ASSUME SteadyInv, Serving, ReadLatest, KeepsUp, BooksKeepUp, PageKept
    PROVE  KeepsUp' /\ BooksKeepUp' /\ PageKept' /\ alarms' = alarms
<1>1. /\ UNCHANGED vars
      /\ UNCHANGED <<last_header, replayed, diverged, books, alarms, excuses>>
      /\ at = "latest"
      /\ \/ /\ Len(replayed) < live /\ at' = "headers of the page"
            /\ page' = [NoPage EXCEPT !.latest = live,
                                      !.to = Smaller(live, Len(replayed) + ReplayPage)]
         \/ at' = "poll" /\ page' = NoPage
    BY DEF ReadLatest
<1>2. KeepsUp' /\ BooksKeepUp'
    BY <1>1, SameReplayed
<1>3. DOMAIN NoPage = {"latest", "to", "headers", "worlds", "given", "known"}
    BY DEF NoPage
<1>4. CASE at' = "poll"
    <2>1. page' = NoPage
        BY <1>1, <1>4
    <2>2. PageKept'
        BY <1>3, <1>4, <2>1 DEF PageKept, PageFields, GoesOn, PageAhead, HeadersRead, MiraclesRead,
                                Fetching, Fetched
    <2> QED BY <1>1, <1>2, <2>2
<1>5. CASE at' = "headers of the page"
    <2>1. PICK to : to = Smaller(live, Len(replayed) + ReplayPage)
        OBVIOUS
    <2>2. Len(replayed) < live /\ page' = [NoPage EXCEPT !.latest = live, !.to = to]
        BY <1>1, <1>5, <2>1
    <2>3. DOMAIN page' = DOMAIN NoPage /\ page'.latest = live /\ page'.to = to
        BY <1>3, <2>2
    <2>4. to \in Nat /\ Len(replayed) < to /\ to <= live /\ live \in Nat
        <3>1. Len(replayed) \in Nat /\ live \in Nat
            BY ShownIs DEF KeepsUp
        <3> QED BY <2>1, <2>2, <3>1, WatcherAssumption DEF Smaller
    <2>5. ~diverged
        BY <1>1 DEF PageKept, GoesOn
    <2>6. live' = live
        BY <1>1, SameServer
    <2>7. PageFields' /\ PageAhead'
        <3>1. PageFields'
            BY <1>3, <2>3 DEF PageFields
        <3>2. ~diverged' /\ replayed' = replayed
            BY <1>1, <2>5
        <3>3. page'.to = to /\ page'.latest = live
            BY <2>3
        <3>4. PageAhead'
            BY <2>4, <2>6, <3>2, <3>3 DEF PageAhead
        <3> QED BY <3>1, <3>4
    <2>8. PageKept'
        BY <1>5, <2>7 DEF PageKept, GoesOn, HeadersRead, MiraclesRead, Fetched
    <2> QED BY <1>1, <1>2, <2>8
<1> QED BY <1>1, <1>4, <1>5

\* The headers of the page are all there are, unless one is still to be sealed.
LEMMA PageHeadersKeep ==
    ASSUME SteadyInv, Serving, ReadHeaders, KeepsUp, BooksKeepUp, PageKept
    PROVE  KeepsUp' /\ BooksKeepUp' /\ PageKept' /\ alarms' = alarms
<1>1. PICK hs : hs = [e \in {d \in DOMAIN headers : d <= page.to} |-> headers[e]]
    OBVIOUS
<1>2. PICK ws : ws = SubSeq(store, 1, Smaller(page.to, Len(store)))
    OBVIOUS
<1>3. /\ UNCHANGED vars
      /\ UNCHANGED <<last_header, replayed, diverged, books, alarms>>
      /\ at = "headers of the page" /\ at' = "miracles of the page"
      /\ page' = [page EXCEPT !.headers = hs, !.worlds = ws]
      /\ excuses' = excuses \cup IF pc = "seal" /\ page.to = Len(run) THEN {"unsealed"} ELSE {}
    BY <1>1, <1>2 DEF ReadHeaders
<1>4. KeepsUp' /\ BooksKeepUp'
    BY <1>3, SameReplayed
<1>5. /\ PageFields /\ ~diverged
      /\ page.to \in Nat /\ page.latest \in Nat
      /\ Len(replayed) < page.to /\ page.to <= page.latest /\ page.latest <= live
    BY <1>3 DEF PageKept, PageAhead, Fetching
<1>6. /\ DOMAIN page' = DOMAIN page /\ page'.headers = hs /\ page'.worlds = ws
      /\ page'.to = page.to /\ page'.latest = page.latest
    BY <1>3, <1>5 DEF PageFields
<1>7. UNCHANGED <<live, headers, run>>
    BY <1>3, SameServer
<1>8. PageFields' /\ PageAhead'
    BY <1>3, <1>5, <1>6, <1>7 DEF PageFields, PageAhead
<1>9. ws = SubSeq(run, 1, page.to)
    <2>1. store = run /\ page.to <= Len(run) /\ Len(run) \in Nat
        BY <1>5, ShownIs DEF SteadyInv, WatchInv, ServedInv, ReplayInv, IInv, LoopInStep, Serving
    <2>2. Smaller(page.to, Len(run)) = page.to
        BY <1>5, <2>1 DEF Smaller
    <2> QED BY <1>2, <2>1, <2>2
<1>10. /\ DOMAIN hs = {d \in DOMAIN headers : d <= page.to}
       /\ \A e \in DOMAIN hs : hs[e] = headers[e]
    BY <1>1
<1>11. "unsealed" \notin excuses' => FirstWindow..page.to \subseteq DOMAIN hs
    <2> SUFFICES ASSUME "unsealed" \notin excuses'
                 PROVE  FirstWindow..page.to \subseteq DOMAIN hs
        OBVIOUS
    <2>1. ~(pc = "seal" /\ page.to = Len(run))
        BY <1>3
    <2>2. /\ live \in Nat /\ live <= Len(run) /\ live <= Done + 1 /\ Done \in Nat
          /\ (live > Done => pc = "seal" /\ live = Len(run))
          /\ DOMAIN headers = FirstHeader..Done
          /\ FirstHeader \in Nat /\ FirstHeader <= FirstWindow /\ FirstWindow \in Nat
        BY ShownIs, ConstantTypes
    <2>3. page.to <= Done
        <3> SUFFICES ASSUME page.to > Done PROVE FALSE
            BY <1>5, <2>2
        <3>1. live > Done /\ page.to = live
            BY <1>5, <2>2
        <3> QED BY <2>1, <2>2, <3>1
    <2> QED BY <1>5, <1>10, <2>2, <2>3
<1>12. HeadersRead'
    BY <1>6, <1>7, <1>9, <1>10, <1>11 DEF HeadersRead
<1>13. PageKept'
    BY <1>3, <1>8, <1>12 DEF PageKept, GoesOn, MiraclesRead
<1> QED BY <1>3, <1>4, <1>13

\* The wishes listed are all that the logs of the page have sparks for.
LEMMA PageMiraclesKeep ==
    ASSUME SteadyInv, Serving, ReadMiracles, KeepsUp, BooksKeepUp, PageKept
    PROVE  KeepsUp' /\ BooksKeepUp' /\ PageKept' /\ alarms' = alarms
<1>1. PICK gs : gs = [e \in 1..page.to |-> Wished(miracles[e])]
    OBVIOUS
<1>2. PICK ks : ks = {w \in Wishes : status[w] # "none"}
    OBVIOUS
<1>3. /\ UNCHANGED vars
      /\ UNCHANGED <<last_header, replayed, diverged, books, alarms, excuses>>
      /\ at = "miracles of the page" /\ at' = "replay"
      /\ page' = [page EXCEPT !.given = gs, !.known = ks]
    BY <1>1, <1>2 DEF ReadMiracles, Wished
<1>4. KeepsUp' /\ BooksKeepUp'
    BY <1>3, SameReplayed
<1>5. /\ PageFields /\ HeadersRead /\ ~diverged
      /\ page.to \in Nat /\ page.latest \in Nat
      /\ Len(replayed) < page.to /\ page.to <= page.latest /\ page.latest <= live
    BY <1>3 DEF PageKept, PageAhead, Fetching
<1>6. /\ DOMAIN page' = DOMAIN page /\ page'.headers = page.headers /\ page'.worlds = page.worlds
      /\ page'.to = page.to /\ page'.latest = page.latest /\ page'.given = gs /\ page'.known = ks
    BY <1>3, <1>5 DEF PageFields
<1>7. UNCHANGED <<live, headers, run, miracles>> /\ \A e : EpochSparks(e)' = EpochSparks(e)
    BY <1>3, SameServer
<1>8. PageFields' /\ PageAhead'
    BY <1>3, <1>5, <1>6, <1>7 DEF PageFields, PageAhead
<1>9. HeadersRead'
    <2>1. Fetched
        BY <1>3 DEF Fetched
    <2> QED BY <1>3, <1>5, <1>6, <1>7, <2>1 DEF HeadersRead
<1>10. \A e \in FirstWindow..page.to : \A i \in DOMAIN EpochSparks(e) : EpochSparks(e)[i].wish \in ks
    <2> SUFFICES ASSUME NEW e \in FirstWindow..page.to, NEW i \in DOMAIN EpochSparks(e)
                 PROVE  EpochSparks(e)[i].wish \in ks
        OBVIOUS
    <2>1. e \in Windows
        BY <1>5, ShownIs, ConstantTypes DEF Windows
    <2>2. status[EpochSparks(e)[i].wish] # "none"
        BY <2>1 DEF SteadyInv, LogsPaid, Paid
    <2>3. EpochSparks(e) \in Seq(Sparks)
        BY <2>1, EpochSparksType DEF SteadyInv, WatchInv, ServedInv, ReplayInv, IInv, TypeOK
    <2>4. EpochSparks(e)[i] \in Sparks
        BY <2>3, LenProperties, ElementOfSeq
    <2>5. EpochSparks(e)[i].wish \in Wishes
        BY <2>4 DEF Sparks
    <2> QED BY <1>2, <2>2, <2>5
<1>11. MiraclesRead'
    BY <1>1, <1>6, <1>7, <1>10 DEF MiraclesRead
<1>12. PageKept'
    BY <1>3, <1>8, <1>9, <1>11 DEF PageKept, GoesOn
<1> QED BY <1>3, <1>4, <1>12


-----------------------------------------------------------------------------
(* The watcher's alarms and its books. *)

\* While nothing has been stored that the logs do not have, there are the books of the
\* sealed epochs; those of a watcher that follows are the ones of the last it has replayed.
InStep ==
    \E B, d : /\ d = Done /\ FollowsServer(B, d) /\ StageAt(B, d)
              /\ ~diverged /\ books.active => \A r : r = Len(replayed) => books = B[r]

\* What holds while a server that was started once serves.
Beside ==
    /\ AsksFairly /\ GivenByNature /\ KeepsUp /\ BooksKeepUp /\ PageKept
    /\ "sparkless" \notin excuses => InStep

\* A round comes before the one a head asks for only for a cause.
EarlyExcused == early # {} => {"waited", "late batch"} \cap excuses # {}

\* Each step keeps that, also one that ends the server or starts it again.
LEMMA NextEarlyExcused ==
    ASSUME EarlyExcused, [WatchNext]_all
    PROVE  EarlyExcused'
<1>1. excuses \subseteq excuses'
    BY DEF WatchNext, ServerRuns, ServerAnswers, ServerAddsWish, ServerDies, HeadIsLate,
           HeadInTime, Watches, Begin, NoAnswer, check_head, check_headers, ReadLatest, ReadHeaders,
           ReadMiracles, Replay, all
<1>2. CASE early' \subseteq early
    BY <1>1, <1>2 DEF EarlyExcused
<1>3. CASE HeadIsLate("waited") \/ HeadIsLate("late batch")
    BY <1>3 DEF HeadIsLate, EarlyExcused
<1>4. early' \subseteq early \/ HeadIsLate("waited") \/ HeadIsLate("late batch")
    BY DEF WatchNext, ServerRuns, ServerAnswers, ServerAddsWish, ServerDies, HeadInTime, Watches,
           Begin, NoAnswer, check_head, check_headers, ReadLatest, ReadHeaders, ReadMiracles, Replay,
           all
<1> QED BY <1>2, <1>3, <1>4

\* What is inductive of the watcher's alarms and books.
AccusedInv ==
    /\ SteadyInv /\ AccusedForACause /\ Unstarted /\ EarlyExcused
    /\ Unbroken /\ Serving => Beside

\* The books that an epoch is added to are those of the epoch before it.
LEMMA BooksBefore ==
    ASSUME SteadyInv, Serving, at = "replay", KeepsUp, BooksKeepUp, PageKept,
           NEW e, e = Len(replayed) + 1, NowActive(e),
           NEW B, NEW d, d = Done, FollowsServer(B, d),
           ~diverged /\ books.active => \A r : r = Len(replayed) => books = B[r]
    PROVE  books = B[e - 1]
<1>1. /\ e \in FirstWindow..Done
      /\ \/ e = FirstWindow /\ books = NewBooks
         \/ e - 1 \in FirstWindow..Done /\ books.active
    BY ActiveIs
<1>2. ~diverged /\ Len(replayed) = e - 1
    BY PageEpoch
<1>3. CASE e = FirstWindow /\ books = NewBooks
    <2>1. e - 1 = OldEpochs
        BY <1>3, ConstantTypes
    <2> QED BY <1>3, <2>1 DEF FollowsServer
<1>4. CASE books.active
    BY <1>2, <1>4
<1> QED BY <1>1, <1>3, <1>4

\* A replay raises an alarm only for a cause.
LEMMA ReplayAccuses ==
    ASSUME SteadyInv, Serving, Replay, Beside, EarlyExcused
    PROVE  \A a \in alarms' \ alarms : Causes(a) \cap excuses # {}
<1>1. PICK e : e = Len(replayed) + 1
    OBVIOUS
<1>2. /\ at = "replay"
      /\ alarms' = alarms \cup (IF NowEarly(e) THEN {"the beacon round came too soon"} ELSE {})
                          \cup (IF NowActive(e) THEN NowFound(e) ELSE {})
                          \cup (IF NowSame(e) THEN {} ELSE {"the world does not replay"})
    BY <1>1, ReplayDoes
<1>3. KeepsUp /\ BooksKeepUp /\ PageKept /\ GivenByNature
    BY DEF Beside
<1>4. ASSUME ~NowSame(e)
      PROVE  Causes("the world does not replay") \cap excuses # {}
    <2>1. "unsealed" \in excuses
        BY <1>1, <1>2, <1>3, <1>4, StepsTheSame
    <2>2. Causes("the world does not replay") = {"restart", "unsealed"}
        BY DEF Causes
    <2> QED BY <2>1, <2>2
<1>5. ASSUME NowActive(e), NEW a \in NowFound(e)
      PROVE  Causes(a) \cap excuses # {}
    <2>1. a \in {"the miracles are not the ones selected", "the ledger does not replay"}
        BY <1>1, <1>2, <1>3, <1>5, FoundFew
    <2>2. Causes(a) = {"restart", "sparkless"}
        BY <2>1 DEF Causes
    <2>3. "sparkless" \in excuses
        <3> SUFFICES ASSUME "sparkless" \notin excuses PROVE FALSE
            OBVIOUS
        <3>1. PICK B, d : /\ d = Done /\ FollowsServer(B, d)
                          /\ ~diverged /\ books.active => \A r : r = Len(replayed) => books = B[r]
            BY DEF Beside, InStep
        <3>2. books = B[e - 1]
            BY <1>1, <1>2, <1>3, <1>5, <3>1, BooksBefore
        <3>3. /\ NowChosen(e).selected = page.given[e]
              /\ page.headers[e].ledger = BooksRoot(NowSettled(e))
            BY <1>1, <1>2, <1>3, <1>5, <3>1, <3>2, BooksFollow
        <3>4. NowFound(e) = CloseAlarms(books, e, page.headers[e], log_of(e), page.known)
            BY <3>3 DEF NowFound
        <3>5. NowFound(e) = {}
            BY <1>1, <1>2, <1>3, <1>5, <3>4, CloseClean
        <3> QED BY <1>5, <3>5
    <2> QED BY <2>2, <2>3
<1>6. ASSUME NowEarly(e)
      PROVE  Causes("the beacon round came too soon") \cap excuses # {}
    <2>1. e \in DOMAIN headers /\ page.headers[e] = headers[e]
        BY <1>1, <1>2, <1>3, <1>6, PageEpoch DEF NowEarly
    <2>2. e \in early
        BY <1>6, <2>1 DEF NowEarly, TooSoon
    <2>3. {"waited", "late batch"} \cap excuses # {}
        BY <2>2 DEF EarlyExcused
    <2>4. Causes("the beacon round came too soon") = {"restart", "waited", "late batch"}
        BY DEF Causes
    <2> QED BY <2>3, <2>4
<1> QED BY <1>2, <1>4, <1>5, <1>6

\* Its books go on to be those of the server.
LEMMA ReplayFollows ==
    ASSUME SteadyInv, Serving, Replay, KeepsUp, BooksKeepUp, PageKept,
           NEW B, NEW d, d = Done, FollowsServer(B, d),
           ~diverged /\ books.active => \A r : r = Len(replayed) => books = B[r]
    PROVE  books'.active => /\ Len(replayed') \in OldEpochs..d
                            /\ \A r : r = Len(replayed') => books' = B[r]
<1> SUFFICES ASSUME books'.active
             PROVE  /\ Len(replayed') \in OldEpochs..d
                    /\ \A r : r = Len(replayed') => books' = B[r]
    OBVIOUS
<1>1. PICK e : e = Len(replayed) + 1
    OBVIOUS
<1>2. /\ at = "replay"
      /\ NowActive(e) => books' = Softened(NowSettled(e), e)
      /\ ~NowActive(e) => books' = [books EXCEPT !.active = FALSE]
    BY <1>1, ReplayDoes
<1>3. NowActive(e)
    <2> SUFFICES ASSUME ~NowActive(e) PROVE FALSE
        OBVIOUS
    <2>1. "active" \in DOMAIN books
        BY DEF BooksKeepUp, Shaped
    <2>2. books'.active = FALSE
        BY <1>2, <2>1
    <2> QED BY <2>2
<1>4. Len(replayed') = e /\ e \in FirstWindow..d
    BY <1>1, <1>2, <1>3, ReplayIsOne, ActiveIs
<1>5. books = B[e - 1]
    BY <1>1, <1>2, <1>3, BooksBefore
<1>6. Softened(NowSettled(e), e) = B[e]
    BY <1>1, <1>2, <1>3, <1>5, BooksFollow
<1>7. e \in OldEpochs..d
    BY <1>4, ShownIs
<1> QED BY <1>2, <1>3, <1>4, <1>6, <1>7


\* The watcher takes a step, or it is the server's.
LEMMA WhoSteps ==
    ASSUME SteadyInv, Serving, Unbroken', [WatchNext]_all
    PROVE  \/ UNCHANGED watcher
           \/ Begin \/ check_head \/ check_headers \/ ReadLatest \/ ReadHeaders \/ ReadMiracles
           \/ Replay
<1>1. ~ServerDies
    BY NothingDies
<1>2. ASSUME ServerRuns \/ (\E h \in Handlers : ServerAnswers(h) \/ ServerAddsWish(h))
      PROVE  UNCHANGED watcher
    BY <1>2 DEF ServerRuns, ServerAnswers, ServerAddsWish
<1>3. UNCHANGED all => UNCHANGED watcher
    BY DEF all
<1>4. ~NoAnswer
    BY DEF NoAnswer
<1> QED BY <1>1, <1>2, <1>3, <1>4 DEF WatchNext, Watches

\* Each step keeps what the watcher has replayed and read.
LEMMA NextKeeps ==
    ASSUME SteadyInv, Serving, Unbroken', [WatchNext]_all, Beside
    PROVE  AsksFairly' /\ GivenByNature' /\ KeepsUp' /\ BooksKeepUp' /\ PageKept'
<1>1. AsksFairly /\ GivenByNature /\ KeepsUp /\ BooksKeepUp /\ PageKept
    BY DEF Beside
<1>2. AsksFairly' /\ GivenByNature'
    BY <1>1, AsksKept, GivenKept
<1>3. KeepsUp' /\ BooksKeepUp' /\ PageKept'
    <2>1. CASE UNCHANGED watcher
        BY <1>1, <2>1, ServerLeavesIt
    <2>2. CASE Replay
        BY <1>1, <2>2, ReplayKeepsUp, ReplayKeepsBooks, ReplayKeepsPage
    <2>3. CASE Begin \/ check_head \/ check_headers \/ ReadLatest \/ ReadHeaders \/ ReadMiracles
        BY <1>1, <2>3, BeginKeeps, PollKeeps, HeadersKeep, LatestKeeps, PageHeadersKeep,
           PageMiraclesKeep
    <2> QED BY <2>1, <2>2, <2>3, WhoSteps
<1> QED BY <1>2, <1>3

\* Each step keeps the books those of the server.
LEMMA NextInStep ==
    ASSUME SteadyInv, Serving, Unbroken', [WatchNext]_all, Beside, "sparkless" \notin excuses'
    PROVE  InStep'
<1>1. AsksFairly /\ GivenByNature /\ KeepsUp /\ BooksKeepUp /\ PageKept
    BY DEF Beside
<1>2. "sparkless" \notin excuses
    BY NothingDies
<1>3. PICK B, d : /\ d = Done /\ FollowsServer(B, d) /\ StageAt(B, d)
                  /\ ~diverged /\ books.active => \A r : r = Len(replayed) => books = B[r]
    BY <1>2 DEF Beside, InStep
<1>4. PICK C, k : /\ k = Done' /\ FollowsServer(C, k)' /\ StageAt(C, k)'
                  /\ \A n \in OldEpochs..d : C[n] = B[n]
    BY <1>1, <1>3, LedgerStep
<1>5. ASSUME ~diverged', books'.active
      PROVE  /\ Len(replayed') \in OldEpochs..d
             /\ \A r : r = Len(replayed') => books' = B[r]
    <2>1. CASE UNCHANGED <<replayed, diverged, books>>
        <3>1. Len(replayed) \in FirstWindow..Done
            BY <1>1, <1>5, <2>1 DEF BooksKeepUp
        <3>2. Len(replayed) \in OldEpochs..d
            BY <1>3, <3>1, ShownIs
        <3> QED BY <1>3, <1>5, <2>1, <3>2
    <2>2. CASE Begin
        BY <1>5, <2>2, NewBooksAre DEF Begin
    <2>3. CASE Replay
        BY <1>1, <1>3, <1>5, <2>3, ReplayFollows
    <2>4. CASE check_head \/ check_headers \/ ReadLatest \/ ReadHeaders \/ ReadMiracles
        <3>1. UNCHANGED <<replayed, diverged, books>>
            BY <2>4 DEF check_head, check_headers, ReadLatest, ReadHeaders, ReadMiracles
        <3> QED BY <2>1, <3>1
    <2>5. CASE UNCHANGED watcher
        BY <2>1, <2>5 DEF watcher
    <2> QED BY <2>2, <2>3, <2>4, <2>5, WhoSteps
<1>6. ~diverged' /\ books'.active => \A r : r = Len(replayed') => books' = C[r]
    BY <1>4, <1>5
<1> QED BY <1>4, <1>6 DEF InStep

\* An alarm is raised only for a cause.
LEMMA NextAccuses ==
    ASSUME SteadyInv, SteadyInv', Serving, Unbroken', [WatchNext]_all, Beside, AccusedForACause,
           EarlyExcused
    PROVE  AccusedForACause'
<1>1. AsksFairly /\ GivenByNature /\ KeepsUp /\ BooksKeepUp /\ PageKept
    BY DEF Beside
<1>2. excuses \subseteq excuses'
    BY NothingDies
<1>3. ASSUME \A a \in alarms' \ alarms : Causes(a) \cap excuses' # {}
      PROVE  AccusedForACause'
    BY <1>2, <1>3 DEF AccusedForACause
<1>4. alarms' \cap LogAlarms = {}
    BY DEF SteadyInv, WatchInv, LogNeverAccused, LogAlarms
<1>5. CASE UNCHANGED watcher
    BY <1>3, <1>5 DEF watcher
<1>6. CASE Replay
    BY <1>2, <1>3, <1>6, ReplayAccuses
<1>7. CASE Begin \/ check_head \/ check_headers \/ ReadLatest \/ ReadHeaders \/ ReadMiracles
    <2>1. alarms' \subseteq alarms \cup LogAlarms
        BY <1>1, <1>7, BeginKeeps, PollKeeps, HeadersKeep, LatestKeeps, PageHeadersKeep,
           PageMiraclesKeep
    <2>2. alarms' \ alarms = {}
        BY <1>4, <2>1
    <2> QED BY <1>3, <2>2
<1> QED BY <1>5, <1>6, <1>7, WhoSteps


\* Each step keeps all of it.
LEMMA NextAccusedInv ==
    ASSUME DiskFaults = FALSE, AccusedInv, [WatchNext]_all
    PROVE  AccusedInv'
<1>1. SteadyInv /\ AccusedForACause /\ Unstarted /\ EarlyExcused
    BY DEF AccusedInv
<1>2. SteadyInv' /\ Unstarted' /\ EarlyExcused'
    BY <1>1, NextSteadyInv, NextUnstarted, NextEarlyExcused
<1>3. CASE ~Unbroken'
    <2>1. \A a : "restart" \in Causes(a)
        BY DEF Causes
    <2>2. AccusedForACause'
        BY <1>3, <2>1 DEF AccusedForACause, Unbroken, Causes
    <2> QED BY <1>2, <1>3, <2>2 DEF AccusedInv
<1>4. CASE Unbroken' /\ Serving
    <2>1. Unbroken /\ Beside
        BY <1>1, <1>4, NothingDies DEF AccusedInv
    <2>2. AsksFairly' /\ GivenByNature' /\ KeepsUp' /\ BooksKeepUp' /\ PageKept'
        BY <1>1, <1>4, <2>1, NextKeeps
    <2>3. "sparkless" \notin excuses' => InStep'
        BY <1>1, <1>4, <2>1, NextInStep
    <2>4. AccusedForACause'
        BY <1>1, <1>2, <1>4, <2>1, NextAccuses
    <2> QED BY <1>2, <2>2, <2>3, <2>4 DEF AccusedInv, Beside
<1>5. CASE Unbroken' /\ ~Serving /\ ~Serving'
    <2>1. alarms' = {}
        BY <1>2, <1>5 DEF Unstarted
    <2> QED BY <1>2, <1>5, <2>1 DEF AccusedInv, AccusedForACause
<1>6. CASE Unbroken' /\ ~Serving /\ Serving'
    <2>1. /\ AsksFairly' /\ GivenByNature'
          /\ UNCHANGED watcher /\ excuses' = {}
          /\ at = "off" /\ last_header = NoHeader /\ replayed = <<>> /\ diverged = FALSE
          /\ books = NewBooks /\ page = NoPage /\ alarms = {}
        BY <1>1, <1>6, FirstServes
    <2>2. PICK B, d : d = Done' /\ FollowsServer(B, d)' /\ StageAt(B, d)'
        BY <1>1, <1>6, FirstServes
    <2>3. /\ at' = "off" /\ last_header' = NoHeader /\ replayed' = <<>> /\ diverged' = FALSE
          /\ books' = NewBooks /\ page' = NoPage /\ alarms' = {}
        BY <2>1 DEF watcher
    <2>4. live' \in Nat /\ run' \in Seq(Epochs)
        BY <1>2, <1>6, ConstantTypes DEF SteadyInv, WatchInv, ServedInv, ReplayInv, IInv, TypeOK, WorldTypes
    <2>5. KeepsUp'
        <3>1. Len(<<>>) = 0 /\ SubSeq(run', 1, 0) = <<>>
            <4>1. \A i \in 1..0 : FALSE
                OBVIOUS
            <4> QED BY <2>4, <4>1
        <3>2. Len(replayed') = 0 /\ Len(replayed') \in Nat /\ Len(replayed') <= live'
            BY <2>3, <2>4, <3>1
        <3>3. replayed' = SubSeq(run', 1, Len(replayed'))
            BY <2>3, <3>1, <3>2
        <3> QED BY <2>3, <3>2, <3>3 DEF KeepsUp
    <2>6. BooksKeepUp'
        BY <2>3, NewBooksAre DEF BooksKeepUp, Shaped
    <2>7. PageKept'
        BY <2>3 DEF NoPage, PageKept, PageFields, GoesOn, PageAhead, HeadersRead, MiraclesRead,
                    Fetching, Fetched
    <2>8. InStep'
        BY <2>2, <2>3, NewBooksAre DEF InStep
    <2>9. AccusedForACause'
        BY <2>3 DEF AccusedForACause
    <2> QED BY <1>2, <2>1, <2>5, <2>6, <2>7, <2>8, <2>9 DEF AccusedInv, Beside
<1> QED BY <1>3, <1>4, <1>5, <1>6

\* All of it holds before the server and the watcher have started.
LEMMA InitAccusedInv == WatchInit => AccusedInv
<1> SUFFICES ASSUME WatchInit PROVE AccusedInv
    OBVIOUS
<1>1. Init
    BY DEF WatchInit
<1>2. WatchInv /\ ChosenInHand /\ LogsPaid /\ RequestsPaid /\ WindowsKnown
    BY <1>1, InitWatchInv, InitMiracleInv, InitWork DEF MiracleInv
<1>3. /\ pc = "down" /\ DOMAIN windows = {} /\ seen = {}
      /\ \A w \in Wishes : status[w] = "none" /\ work[w] = 0 /\ executedIn[w] = NULL
      /\ \A d \in 1..MaxEpoch : miracles[d] = <<>>
      /\ snapshot = OldWorld /\ price = PriceMin
      /\ \A h \in Handlers : req[h] = Idle
    BY <1>1, EmptyDomain DEF Init, IntakeInit
<1>4. ~Serving
    BY <1>3 DEF Serving
<1>5. \A d \in 1..OldEpochs : d \in 1..MaxEpoch
    BY ConstantTypes
<1>6. LiveIsShown /\ TargetsFollow /\ TargetsBelow /\ SeenKnown /\ NoneIdle /\ OldUntouched
    BY <1>3, <1>4, <1>5 DEF LiveIsShown, TargetsFollow, TargetsBelow, SeenKnown, NoneIdle,
                            OldUntouched
<1>7. Unstarted /\ AccusedForACause /\ EarlyExcused
    BY <1>3 DEF WatchInit, Unstarted, AccusedForACause, EarlyExcused
<1> QED BY <1>2, <1>4, <1>6, <1>7 DEF AccusedInv, SteadyInv

\* A server that follows its own code is accused only for a cause, however the steps of
\* the loop, the requests and the rounds of the watcher fall: a restart, an epoch read
\* before its header is signed, a wish that is stored without a spark in any log, or a
\* last head that asks for a later round, because the loop waited for the lock or a
\* batch ended after the close (watcher main.rs replay and check_drand; books.rs close
\* and settle; intake.rs sign_head; world.rs run_loop).
THEOREM AccusationsHaveACause ==
    ASSUME DiskFaults = FALSE
    PROVE  WatchSafe => []AccusedForACause
<1>1. AccusedInv /\ [WatchNext]_all => AccusedInv'
    BY NextAccusedInv
<1>2. AccusedInv => AccusedForACause
    BY DEF AccusedInv
<1> QED BY <1>1, <1>2, InitAccusedInv, PTL DEF WatchSafe

\* Where the server waits with its window open, the books are its ledger.
LEMMA InStepBooksAgree == AccusedInv => BooksAgree
<1> SUFFICES ASSUME AccusedInv, books.active, pc = "wait", open, Len(replayed) = Len(run),
                    excuses \cap {"restart", "unsealed", "sparkless"} = {}
             PROVE  /\ books.price = CurrentPrice
                    /\ \A w \in Wishes :
                          \/ books.status[w] = status[w] /\ books.work[w] = work[w]
                          \/ books.status[w] = "none" /\ SparksFor(w, rows[epoch]) # {}
    BY DEF BooksAgree
<1>1. Unbroken /\ Serving
    BY DEF Unbroken, Serving
<1>2. Beside
    BY <1>1 DEF AccusedInv
<1>3. ~diverged
    BY <1>2 DEF Beside, KeepsUp
<1>4. PICK B, d : /\ d = Done /\ FollowsServer(B, d) /\ StageAt(B, d)
                  /\ ~diverged /\ books.active => \A r : r = Len(replayed) => books = B[r]
    BY <1>2 DEF Beside, InStep
<1>5. books = B[d]
    BY <1>3, <1>4 DEF Done
<1>6. Agrees(books)
    BY <1>4, <1>5 DEF StageAt
<1> QED BY <1>6 DEF Agrees, Same, JustCame

\* The books of a watcher that has replayed all are the ledger of the server: the same
\* price, and wish by wish the same status and the same work, but for a wish whose first
\* spark is in the open window (books.rs close, settle; intake.rs).
THEOREM BooksAreTheLedger ==
    ASSUME DiskFaults = FALSE
    PROVE  WatchSafe => []BooksAgree
<1>1. AccusedInv /\ [WatchNext]_all => AccusedInv'
    BY NextAccusedInv
<1> QED BY <1>1, InStepBooksAgree, InitAccusedInv, PTL DEF WatchSafe
=============================================================================
