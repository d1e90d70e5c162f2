---------------------------- MODULE RequestProofs ----------------------------
(***************************************************************************)
(* What holds of spark batches on their way through the server, for any    *)
(* number of clients, any schedule and any number of faults: the queue of  *)
(* checks is bounded, the guard is fair, and no spark is accepted when its *)
(* beacon could be known.  And of the bytes of wishes, for all of them: a  *)
(* wish is read back as it was written, and has no other bytes.            *)
(***************************************************************************)
EXTENDS Requests, TLAPS, FiniteSetTheorems, FunctionTheorems, SequenceTheorems

Safe == RequestsInit /\ [][RequestsNext]_all

-----------------------------------------------------------------------------
(* The sparks of some calls, counted. *)

SparksIn(f, S) == UNION {{c} \X (1..f[c]) : c \in S}

LEMMA SparksOfOne ==
    ASSUME NEW c, NEW n \in Nat
    PROVE  IsFiniteSet({c} \X (1..n)) /\ Cardinality({c} \X (1..n)) = n
<1>1. IsFiniteSet(1..n) /\ Cardinality(1..n) = n
    BY FS_Interval
<1>2. IsFiniteSet({c}) /\ Cardinality({c}) = 1
    BY FS_Singleton
<1> QED BY <1>1, <1>2, FS_Product

LEMMA SparksAreFinite ==
    ASSUME NEW S, IsFiniteSet(S), NEW f, \A c \in S : f[c] \in Nat
    PROVE  IsFiniteSet(SparksIn(f, S)) /\ Cardinality(SparksIn(f, S)) \in Nat
<1> DEFINE of == [c \in S |-> {c} \X (1..f[c])]
           T == {{c} \X (1..f[c]) : c \in S}
<1>1. of \in Surjection(S, T)
    BY DEF Surjection
<1>2. IsFiniteSet(T)
    BY <1>1, FS_Surjection
<1>3. \A U \in T : IsFiniteSet(U)
    <2> SUFFICES ASSUME NEW c \in S PROVE IsFiniteSet({c} \X (1..f[c]))
        OBVIOUS
    <2> QED BY SparksOfOne
<1>4. IsFiniteSet(UNION T)
    BY <1>2, <1>3, FS_UNION
<1> QED BY <1>4, FS_CardinalityType DEF SparksIn

\* The sparks of one call and of the others.
LEMMA SparksSplit ==
    ASSUME NEW S, IsFiniteSet(S), NEW f, \A d \in S : f[d] \in Nat, NEW c \in S
    PROVE  Cardinality(SparksIn(f, S)) = f[c] + Cardinality(SparksIn(f, S \ {c}))
<1> DEFINE mine == {c} \X (1..f[c])
           others == SparksIn(f, S \ {c})
<1>1. IsFiniteSet(mine) /\ Cardinality(mine) = f[c]
    BY SparksOfOne
<1>2. IsFiniteSet(others) /\ Cardinality(others) \in Nat
    <2>1. IsFiniteSet(S \ {c})
        BY FS_RemoveElement
    <2> QED BY <2>1, SparksAreFinite
<1>3. mine \cap others = {}
    BY DEF SparksIn
<1>4. SparksIn(f, S) = mine \cup others
    BY DEF SparksIn
<1>5. Cardinality(mine \cup others) = Cardinality(mine) + Cardinality(others) - Cardinality(mine \cap others)
    BY <1>1, <1>2, FS_Union
<1>6. Cardinality(SparksIn(f, S)) = f[c] + Cardinality(others)
    <2>1. Cardinality(mine \cap others) = 0
        BY <1>3, FS_EmptySet
    <2>2. f[c] \in Nat
        OBVIOUS
    <2> HIDE DEF mine, others
    <2> QED BY <1>1, <1>2, <1>4, <1>5, <2>1, <2>2
<1> QED BY <1>6

LEMMA FewerSparks ==
    ASSUME NEW S, IsFiniteSet(S), NEW f, \A c \in S : f[c] \in Nat, NEW R \in SUBSET S
    PROVE  /\ IsFiniteSet(R)
           /\ Cardinality(SparksIn(f, R)) \in Nat
           /\ Cardinality(SparksIn(f, R)) <= Cardinality(SparksIn(f, S))
<1>1. IsFiniteSet(R)
    BY FS_Subset
<1>2. SparksIn(f, R) \in SUBSET SparksIn(f, S)
    BY DEF SparksIn
<1> QED BY <1>1, <1>2, SparksAreFinite, FS_Subset

\* One call brings other sparks than before.
LEMMA SparksChange ==
    ASSUME NEW f \in [Calls -> Nat], NEW g \in [Calls -> Nat], NEW c \in Calls,
           \A d \in Calls \ {c} : g[d] = f[d]
    PROVE  /\ Cardinality(SparksIn(g, Calls)) = Cardinality(SparksIn(f, Calls)) - f[c] + g[c]
           /\ \A S \in SUBSET (Calls \ {c}) : SparksIn(g, S) = SparksIn(f, S)
<1> USE CheckQueueAssumption
<1>1. \A S \in SUBSET (Calls \ {c}) : SparksIn(g, S) = SparksIn(f, S)
    BY DEF SparksIn
<1>2. Cardinality(SparksIn(g, Calls)) = g[c] + Cardinality(SparksIn(g, Calls \ {c}))
    BY SparksSplit
<1>3. Cardinality(SparksIn(f, Calls)) = f[c] + Cardinality(SparksIn(f, Calls \ {c}))
    BY SparksSplit
<1>4. Cardinality(SparksIn(f, Calls \ {c})) \in Nat /\ f[c] \in Nat /\ g[c] \in Nat
    BY FewerSparks
<1>5. ASSUME NEW x, NEW y, NEW z \in Nat, NEW m \in Nat, NEW n \in Nat, x = n + z, y = m + z
      PROVE  x = y - m + n
    BY <1>5
<1>6. Cardinality(SparksIn(g, Calls)) = Cardinality(SparksIn(f, Calls)) - f[c] + g[c]
    BY <1>1, <1>2, <1>3, <1>4, <1>5
<1> QED BY <1>1, <1>6

-----------------------------------------------------------------------------
(* The queue of checks. *)

Busy == InStage({"checking", "checked"})
InQueue == InStage({"waiting", "checking", "checked"})

LineInv ==
    /\ line \in Seq(Calls)
    /\ \A i \in DOMAIN line : stage[line[i]] = "waiting"
    /\ \A i, j \in DOMAIN line : i # j => line[i] # line[j]

\* A permit is free or held by a call that is checked; no spark of a call in
\* flight is missing in the counter, and those past the door fit in the queue.
QueueInv ==
    /\ stage \in [Calls -> {"away", "full", "waiting", "checking", "checked"}]
    /\ size \in [Calls -> Nat] /\ queued \in Int
    /\ LineInv
    /\ permits \in Nat /\ permits + Cardinality(Busy) = CHECKERS
    /\ queued >= Cardinality(SparksIn(size, Calls))
    /\ Cardinality(SparksIn(size, InQueue)) <= QUEUE

LEMMA StagesAreFinite ==
    ASSUME NEW S
    PROVE  /\ InStage(S) \in SUBSET Calls /\ IsFiniteSet(InStage(S))
           /\ Cardinality(InStage(S)) \in Nat
<1>1. InStage(S) \in SUBSET Calls
    BY DEF InStage
<1> QED BY <1>1, CheckQueueAssumption, FS_Subset, FS_CardinalityType

LEMMA QueueInvBounds == QueueInv => QueueIsBounded
<1> SUFFICES ASSUME QueueInv PROVE QueueIsBounded
    OBVIOUS
<1>1. Cardinality(Busy) \in Nat
    BY StagesAreFinite DEF Busy
<1>2. permits \in 0..CHECKERS
    BY <1>1, CheckQueueAssumption DEF QueueInv
<1>3. \A S : SparksOf(S) = Cardinality(SparksIn(size, S))
    BY DEF SparksOf, SparksIn
<1> QED BY <1>2, <1>3 DEF QueueInv, QueueIsBounded, InQueue

LEMMA InitQueue == Init => QueueInv
<1> SUFFICES ASSUME Init PROVE QueueInv
    OBVIOUS
<1> USE DEF Init
<1>1. Busy = {} /\ InQueue = {}
    BY DEF Busy, InQueue, InStage
<1>2. Cardinality(Busy) = 0
    BY <1>1, FS_EmptySet
<1>3. SparksIn(size, Calls) = {} /\ SparksIn(size, InQueue) = {}
    BY <1>1 DEF SparksIn
<1>4. Cardinality(SparksIn(size, Calls)) = 0 /\ Cardinality(SparksIn(size, InQueue)) = 0
    BY <1>3, FS_EmptySet
<1>5. LineInv
    BY DEF LineInv
<1> QED BY <1>2, <1>4, <1>5, CheckQueueAssumption DEF QueueInv

\* The places in the line of calls that stay where they are.
LEMMA SameLine ==
    ASSUME LineInv, line' = line, \A d \in Calls : stage[d] = "waiting" => stage'[d] = "waiting"
    PROVE  LineInv'
<1>1. \A i \in DOMAIN line : line[i] \in Calls
    BY ElementOfSeq DEF LineInv
<1> QED BY <1>1 DEF LineInv

LEMMA EnterKeepsQueue ==
    ASSUME QueueInv, NEW c \in Calls, NEW n \in Nat, Enter(c, n)
    PROVE  QueueInv'
<1> USE CheckQueueAssumption
<1>1. /\ size' = [size EXCEPT ![c] = n] /\ queued' = queued + n /\ permits' = permits
      /\ stage[c] = "away" /\ size[c] \in Nat
    BY DEF Enter, Counted, QueueInv
<1>2. /\ size' \in [Calls -> Nat]
      /\ Cardinality(SparksIn(size', Calls)) = Cardinality(SparksIn(size, Calls)) - size[c] + n
      /\ \A S \in SUBSET (Calls \ {c}) : SparksIn(size', S) = SparksIn(size, S)
    <2>1. size \in [Calls -> Nat]
        BY DEF QueueInv
    <2>2. size' \in [Calls -> Nat] /\ size'[c] = n /\ \A d \in Calls \ {c} : size'[d] = size[d]
        BY <1>1, <2>1
    <2> QED BY <2>1, <2>2, SparksChange
<1>3. Cardinality(SparksIn(size, Calls)) \in Nat
    BY SparksAreFinite DEF QueueInv
<1>4. queued' \in Int /\ queued' >= Cardinality(SparksIn(size', Calls))
    BY <1>1, <1>2, <1>3 DEF QueueInv
<1>5. InQueue \in SUBSET (Calls \ {c}) /\ c \notin Busy
    BY <1>1 DEF InQueue, Busy, InStage
<1>6. Cardinality(SparksIn(size, InQueue)) \in Nat
      /\ Cardinality(SparksIn(size, InQueue)) <= Cardinality(SparksIn(size, Calls))
    BY <1>5, FewerSparks DEF QueueInv
<1>7. CASE Room(n) /\ stage' = [stage EXCEPT ![c] = "waiting"] /\ line' = Append(line, c)
    <2>1. Busy' = Busy /\ InQueue' = InQueue \cup {c}
        BY <1>1, <1>7 DEF Busy, InQueue, InStage, QueueInv
    <2>2. LineInv'
        <3>1. c \notin {line[i] : i \in DOMAIN line} /\ line \in Seq(Calls)
            BY <1>1 DEF QueueInv, LineInv
        <3>2. /\ line' \in Seq(Calls) /\ Len(line') = Len(line) + 1
              /\ \A i \in DOMAIN line : line'[i] = line[i]
              /\ line'[Len(line) + 1] = c
            BY <1>7, <3>1, AppendProperties
        <3>3. DOMAIN line = 1..Len(line) /\ DOMAIN line' = 1..(Len(line) + 1) /\ Len(line) \in Nat
            BY <3>1, <3>2, LenProperties
        <3>4. \A i \in DOMAIN line' : i \in DOMAIN line \/ i = Len(line) + 1
            BY <3>3
        <3>5. \A i \in DOMAIN line : line[i] \in Calls /\ line[i] # c
            BY <3>1, ElementOfSeq, <3>3
        <3>6. \A i \in DOMAIN line' : stage'[line'[i]] = "waiting"
            BY <1>7, <3>2, <3>4, <3>5 DEF QueueInv, LineInv
        <3>7. \A i, j \in DOMAIN line' : i # j => line'[i] # line'[j]
            BY <3>2, <3>4, <3>5 DEF QueueInv, LineInv
        <3> QED BY <3>2, <3>6, <3>7 DEF LineInv
    <2>3. Cardinality(SparksIn(size', InQueue')) <= QUEUE
        <3>1. c \in InQueue' /\ InQueue' \in SUBSET Calls /\ InQueue' \ {c} = InQueue
            BY <1>5, <2>1
        <3>2. IsFiniteSet(InQueue')
            BY <3>1, FS_Subset
        <3>3. Cardinality(SparksIn(size', InQueue'))
                = size'[c] + Cardinality(SparksIn(size', InQueue' \ {c}))
            <4>1. \A d \in InQueue' : size'[d] \in Nat
                BY <1>2, <3>1
            <4> QED BY <3>1, <3>2, <4>1, SparksSplit
        <3>4. SparksIn(size', InQueue' \ {c}) = SparksIn(size, InQueue)
            BY <1>2, <1>5, <3>1
        <3>5. size'[c] = n
            BY <1>1 DEF QueueInv
        <3>6. queued + n <= QUEUE
            BY <1>7 DEF Room, Counted
        <3>7. ASSUME NEW x \in Nat, NEW y \in Nat, x <= y, queued >= y
              PROVE  n + x <= QUEUE
            BY <3>6, <3>7 DEF QueueInv
        <3> QED BY <1>3, <1>6, <3>3, <3>4, <3>5, <3>7 DEF QueueInv
    <2> QED BY <1>1, <1>2, <1>4, <1>7, <2>1, <2>2, <2>3 DEF QueueInv
<1>8. CASE stage' = [stage EXCEPT ![c] = "full"] /\ line' = line
    <2>1. Busy' = Busy /\ InQueue' = InQueue
        BY <1>1, <1>8 DEF Busy, InQueue, InStage, QueueInv
    <2>2. LineInv'
        BY <1>1, <1>8, SameLine DEF QueueInv
    <2>3. SparksIn(size', InQueue') = SparksIn(size, InQueue)
        BY <1>2, <1>5, <2>1
    <2> QED BY <1>1, <1>2, <1>4, <1>8, <2>1, <2>2, <2>3 DEF QueueInv
<1> QED BY <1>7, <1>8 DEF Enter

\* A call goes, with its place, its permit or neither; it gives back what it
\* was counted for, or less.
LEMMA LeavingKeepsQueue ==
    ASSUME QueueInv, NEW c \in Calls, Leave(c), LineInv',
           \/ queued' = queued - size[c]
           \/ queued' = queued,
           permits' = permits + (IF c \in Busy THEN 1 ELSE 0)
    PROVE  QueueInv'
<1> USE CheckQueueAssumption
<1>1. /\ stage' = [stage EXCEPT ![c] = "away"] /\ size' = [size EXCEPT ![c] = 0]
      /\ size[c] \in Nat
    BY DEF Leave, QueueInv
<1>2. /\ size' \in [Calls -> Nat]
      /\ Cardinality(SparksIn(size', Calls)) = Cardinality(SparksIn(size, Calls)) - size[c] + 0
      /\ \A S \in SUBSET (Calls \ {c}) : SparksIn(size', S) = SparksIn(size, S)
    <2>1. size \in [Calls -> Nat]
        BY DEF QueueInv
    <2>2. size' \in [Calls -> Nat] /\ size'[c] = 0 /\ \A d \in Calls \ {c} : size'[d] = size[d]
        BY <1>1, <2>1
    <2> QED BY <2>1, <2>2, SparksChange
<1>3. Cardinality(SparksIn(size, Calls)) \in Nat
    BY SparksAreFinite DEF QueueInv
<1>4. queued' \in Int /\ queued' >= Cardinality(SparksIn(size', Calls))
    BY <1>1, <1>2, <1>3 DEF QueueInv
<1>5. Busy' = Busy \ {c} /\ InQueue' = InQueue \ {c} /\ InQueue' \in SUBSET (Calls \ {c})
    BY <1>1 DEF Busy, InQueue, InStage, QueueInv
<1>6. Cardinality(SparksIn(size', InQueue')) <= QUEUE
    <2>1. SparksIn(size', InQueue') = SparksIn(size, InQueue \ {c})
        BY <1>2, <1>5
    <2>2. IsFiniteSet(InQueue) /\ InQueue \in SUBSET Calls /\ InQueue \ {c} \in SUBSET InQueue
        BY StagesAreFinite DEF InQueue
    <2>3. /\ Cardinality(SparksIn(size, InQueue \ {c})) \in Nat
          /\ Cardinality(SparksIn(size, InQueue \ {c})) <= Cardinality(SparksIn(size, InQueue))
        BY <2>2, FewerSparks DEF QueueInv
    <2>4. Cardinality(SparksIn(size, InQueue)) \in Nat
        BY <2>2, SparksAreFinite DEF QueueInv
    <2> QED BY <2>1, <2>3, <2>4 DEF QueueInv
<1>7. permits' \in Nat /\ permits' + Cardinality(Busy') = CHECKERS
    <2>1. IsFiniteSet(Busy) /\ Cardinality(Busy) \in Nat
        BY StagesAreFinite DEF Busy
    <2>2. Cardinality(Busy') = IF c \in Busy THEN Cardinality(Busy) - 1 ELSE Cardinality(Busy)
        BY <1>5, <2>1, FS_RemoveElement
    <2> QED BY <2>1, <2>2 DEF QueueInv
<1> QED BY <1>1, <1>2, <1>4, <1>6, <1>7 DEF QueueInv

\* A sequence without one of its elements.
LEMMA WithoutOne ==
    ASSUME NEW S, NEW s \in Seq(S), NEW i \in DOMAIN s
    PROVE  /\ RemoveAt(s, i) \in Seq(S)
           /\ \A j \in DOMAIN RemoveAt(s, i) :
                 \E k \in DOMAIN s : k # i /\ RemoveAt(s, i)[j] = s[k] /\ k = IF j < i THEN j ELSE j + 1
<1> DEFINE n == Len(s)
           left == SubSeq(s, 1, i - 1)
           right == SubSeq(s, i + 1, n)
<1>1. n \in Nat /\ DOMAIN s = 1..n /\ i \in 1..n
    BY LenProperties
<1>2. /\ left \in Seq(S) /\ Len(left) = i - 1 /\ \A j \in 1..(i - 1) : left[j] = s[j]
    BY <1>1, SubSeqProperties
<1>3. /\ right \in Seq(S) /\ Len(right) = n - i /\ \A j \in 1..(n - i) : right[j] = s[i + j]
    BY <1>1, SubSeqProperties
<1> HIDE DEF left, right, n
<1>4. /\ left \o right \in Seq(S) /\ Len(left \o right) = Len(left) + Len(right)
      /\ \A j \in 1..(Len(left) + Len(right)) :
            (left \o right)[j] = IF j <= Len(left) THEN left[j] ELSE right[j - Len(left)]
    <2>1. left \in Seq(S) /\ right \in Seq(S)
        BY <1>2, <1>3
    <2> QED BY <2>1, ConcatProperties
<1>5. RemoveAt(s, i) = left \o right
    BY DEF RemoveAt, left, right, n
<1>6. Len(left) + Len(right) = n - 1
    BY <1>1, <1>2, <1>3
<1>7. DOMAIN (left \o right) = 1..(n - 1)
    BY <1>4, <1>6, LenProperties
<1>8. ASSUME NEW j \in 1..(n - 1)
      PROVE  (left \o right)[j] = IF j < i THEN s[j] ELSE s[j + 1]
    <2>1. (left \o right)[j] = IF j <= i - 1 THEN left[j] ELSE right[j - (i - 1)]
        BY <1>2, <1>4, <1>6
    <2>2. CASE j < i
        <3>1. j <= i - 1 /\ j \in 1..(i - 1)
            BY <1>1, <2>2
        <3> QED BY <1>2, <2>1, <2>2, <3>1
    <2>3. CASE ~(j < i)
        <3>1. j - (i - 1) \in 1..(n - i) /\ i + (j - (i - 1)) = j + 1 /\ ~(j <= i - 1)
            BY <1>1, <2>3
        <3> QED BY <1>3, <2>1, <2>3, <3>1
    <2> QED BY <2>2, <2>3
<1>9. ASSUME NEW j \in 1..(n - 1)
      PROVE  \E k \in DOMAIN s : k # i /\ (left \o right)[j] = s[k] /\ k = IF j < i THEN j ELSE j + 1
    <2>1. CASE j < i
        <3>1. j \in DOMAIN s /\ j # i
            BY <1>1, <2>1
        <3> QED BY <1>8, <2>1, <3>1
    <2>2. CASE ~(j < i)
        <3>1. j + 1 \in DOMAIN s /\ j + 1 # i
            BY <1>1, <2>2
        <3> QED BY <1>8, <2>2, <3>1
    <2> QED BY <2>1, <2>2
<1> QED BY <1>4, <1>5, <1>7, <1>9

LEMMA AcquireKeepsQueue ==
    ASSUME QueueInv, Acquire
    PROVE  QueueInv'
<1> USE CheckQueueAssumption
<1> DEFINE c == Head(line)
<1>1. /\ line # <<>> /\ permits > 0 /\ permits' = permits - 1 /\ line' = Tail(line)
      /\ stage' = [stage EXCEPT ![c] = "checking"] /\ size' = size /\ queued' = queued
    BY DEF Acquire
<1>2. line \in Seq(Calls)
    BY DEF QueueInv, LineInv
<1>3. c = line[1] /\ 1 \in DOMAIN line /\ c \in Calls
    BY <1>1, <1>2, HeadTailProperties, LenProperties, EmptySeq
<1>4. stage[c] = "waiting"
    BY <1>3 DEF QueueInv, LineInv
<1>5. LineInv'
    <2>1. /\ line' \in Seq(Calls) /\ Len(line') = Len(line) - 1
          /\ \A i \in 1..Len(line') : line'[i] = line[i + 1]
        BY <1>1, <1>2, HeadTailProperties
    <2>2. Len(line) \in Nat /\ DOMAIN line = 1..Len(line) /\ DOMAIN line' = 1..Len(line')
        BY <1>2, <2>1, LenProperties
    <2>3. \A i \in DOMAIN line' : line'[i] = line[i + 1] /\ i + 1 \in DOMAIN line /\ i + 1 # 1
        BY <2>1, <2>2
    <2>4. \A i \in DOMAIN line' : line'[i] # c /\ stage[line'[i]] = "waiting" /\ line'[i] \in Calls
        BY <1>2, <1>3, <2>3, ElementOfSeq DEF QueueInv, LineInv
    <2>5. \A i, j \in DOMAIN line' : i # j => line'[i] # line'[j]
        <3>1. \A i, j \in DOMAIN line' : i # j => i + 1 # j + 1
            BY <2>2
        <3> QED BY <2>3, <3>1 DEF QueueInv, LineInv
    <2>6. \A i \in DOMAIN line' : stage'[line'[i]] = "waiting"
        BY <1>1, <2>4 DEF QueueInv
    <2> QED BY <2>1, <2>5, <2>6 DEF LineInv
<1> HIDE DEF c
<1>6. Busy' = Busy \cup {c} /\ c \notin Busy /\ InQueue' = InQueue
    BY <1>1, <1>3, <1>4 DEF Busy, InQueue, InStage, QueueInv
<1>7. permits' \in Nat /\ permits' + Cardinality(Busy') = CHECKERS
    <2>1. IsFiniteSet(Busy) /\ Cardinality(Busy) \in Nat
        BY StagesAreFinite DEF Busy
    <2>2. Cardinality(Busy') = Cardinality(Busy) + 1
        BY <1>6, <2>1, FS_AddElement
    <2> QED BY <1>1, <2>1, <2>2 DEF QueueInv
<1> QED BY <1>1, <1>3, <1>5, <1>6, <1>7 DEF QueueInv

LEMMA TaskEndsKeepsQueue ==
    ASSUME QueueInv, NEW c \in Calls, TaskEnds(c)
    PROVE  QueueInv'
<1>1. Busy' = Busy /\ InQueue' = InQueue
    BY DEF TaskEnds, Busy, InQueue, InStage, QueueInv
<1>2. LineInv'
    BY SameLine DEF TaskEnds, QueueInv
<1> QED BY <1>1, <1>2 DEF TaskEnds, QueueInv

LEMMA LeaveKeepsQueue ==
    ASSUME QueueInv, NEW c \in Calls, Refuse(c) \/ Return(c) \/ Disconnect(c)
    PROVE  QueueInv'
<1>1. stage \in [Calls -> {"away", "full", "waiting", "checking", "checked"}] /\ permits \in Nat
    BY DEF QueueInv
<1>2. CASE Refuse(c) \/ Return(c)
    <2>1. LineInv'
        BY <1>1, <1>2, SameLine DEF Refuse, Return, Leave, QueueInv
    <2>2. permits' = permits + (IF c \in Busy THEN 1 ELSE 0)
        BY <1>1, <1>2 DEF Refuse, Return, Busy, InStage
    <2> QED BY <1>2, <2>1, <2>2, LeavingKeepsQueue DEF Refuse, Return
<1>3. CASE Disconnect(c)
    <2>1. stage' = [stage EXCEPT ![c] = "away"]
        BY <1>3 DEF Disconnect, Leave
    <2>2. permits' = permits + (IF c \in Busy THEN 1 ELSE 0)
        BY <1>1, <1>3 DEF Disconnect, PermitOf, Busy, InStage
    <2>3. LineInv'
        <3>1. CASE stage[c] = "waiting"
            <4>1. PICK i \in DOMAIN line : line[i] = c /\ line' = RemoveAt(line, i)
                BY <1>3, <3>1 DEF Disconnect
            <4>2. LineInv
                BY DEF QueueInv
            <4>3. /\ line' \in Seq(Calls)
                  /\ \A j \in DOMAIN line' : \E k \in DOMAIN line :
                        k # i /\ line'[j] = line[k] /\ k = IF j < i THEN j ELSE j + 1
                BY <4>1, <4>2, WithoutOne DEF LineInv
            <4>4. \A k \in DOMAIN line : line[k] \in Calls /\ stage[line[k]] = "waiting"
                BY <4>2, ElementOfSeq DEF LineInv
            <4>5. \A j \in DOMAIN line' : stage'[line'[j]] = "waiting"
                BY <1>1, <2>1, <4>1, <4>2, <4>3, <4>4 DEF LineInv
            <4>6. DOMAIN line' \subseteq Nat /\ i \in Nat
                BY <4>1, <4>2, <4>3, LenProperties DEF LineInv
            <4>7. \A j, l \in DOMAIN line' : j # l => line'[j] # line'[l]
                BY <4>2, <4>3, <4>6 DEF LineInv
            <4> QED BY <4>3, <4>5, <4>7 DEF LineInv
        <3>2. CASE stage[c] # "waiting"
            <4>1. line' = line
                BY <1>3, <3>2 DEF Disconnect
            <4> QED BY <1>1, <2>1, <3>2, <4>1, SameLine DEF QueueInv
        <3> QED BY <3>1, <3>2
    <2> QED BY <1>3, <2>2, <2>3, LeavingKeepsQueue DEF Disconnect
<1> QED BY <1>2, <1>3

LEMMA UnchangedQueue == ASSUME QueueInv, UNCHANGED <<stage, size, queued, line, permits>> PROVE QueueInv'
<1>1. Busy' = Busy /\ InQueue' = InQueue
    BY DEF Busy, InQueue, InStage
<1>2. LineInv'
    BY SameLine DEF QueueInv
<1> QED BY <1>1, <1>2 DEF QueueInv

LEMMA DieKeepsQueue == ASSUME QueueInv, Die PROVE QueueInv'
<1> USE CheckQueueAssumption
<1>1. /\ stage' = [c \in Calls |-> "away"] /\ size' = [c \in Calls |-> 0]
      /\ queued' = 0 /\ line' = <<>> /\ permits' = CHECKERS
    BY DEF Die
<1>2. Busy' = {} /\ InQueue' = {}
    BY <1>1 DEF Busy, InQueue, InStage
<1>3. Cardinality(Busy') = 0
    BY <1>2, FS_EmptySet
<1>4. SparksIn(size', Calls) = {} /\ SparksIn(size', InQueue') = {}
    BY <1>1, <1>2 DEF SparksIn
<1>5. Cardinality(SparksIn(size', Calls)) = 0 /\ Cardinality(SparksIn(size', InQueue')) = 0
    BY <1>4, FS_EmptySet
<1>6. LineInv'
    BY <1>1 DEF LineInv
<1> QED BY <1>1, <1>3, <1>5, <1>6 DEF QueueInv

-----------------------------------------------------------------------------
(* The clients and their tickets. *)

WindowTypes ==
    /\ now \in Nat /\ opened \in Nat /\ opened <= now
    /\ epoch \in Nat \ {0}
    /\ previous \in {NONE, epoch - 1}
    /\ loop = "down" => previous = NONE

ClientTypes ==
    /\ at \in [Calls -> {"mining", "sent", "admitted", "inside"}]
    /\ known \in [Calls -> Nat] /\ readAt \in [Calls -> Nat]
    /\ body \in [Calls -> [window : Nat, sparks : Nat, sent : Nat]]
    /\ ticket \in [Calls -> [epoch : Nat, late : Nat, afresh : BOOLEAN, way : Int]]

\* A client that does not know of the open window has read nothing since it opened.
KnowsWindow(c) ==
    /\ known[c] \in 1..epoch /\ readAt[c] <= now
    /\ open /\ known[c] # epoch => readAt[c] <= opened

\* What is on its way was mined for the window its client knows, and sent soon
\* after it was read.
SentInTime(c) ==
    at[c] \in {"sent", "admitted"} =>
        body[c].window = known[c] /\ body[c].sent <= readAt[c] + REFRESH

\* A handler that will find its batch forged has a cause.
TicketHasCause(c) ==
    /\ stage[c] # "away" => at[c] = "inside"
    /\ at[c] = "inside" /\ Forged(c) =>
          \/ ticket[c].afresh
          \/ ticket[c].way >= GRACE - REFRESH
          \/ ticket[c].epoch - body[c].window > 1

ClientsInv ==
    /\ WindowTypes /\ ClientTypes
    /\ \A c \in Calls : KnowsWindow(c) /\ SentInTime(c) /\ TicketHasCause(c)
    /\ BannedForACause

LEMMA ConstantTypes ==
    /\ GRACE \in Nat /\ REFRESH \in Nat /\ FLUSH \in Nat /\ NETWORK \in Nat /\ HANDLE \in Nat
    /\ MaxBatch \in Nat /\ MinTime \in Nat /\ MaxTime \in Nat
BY RequestsAssumption

LEMMA InitClients == RequestsInit => ClientsInv
<1> SUFFICES ASSUME RequestsInit PROVE ClientsInv
    OBVIOUS
<1> USE ConstantTypes DEF RequestsInit, Init
<1>1. WindowTypes
    BY DEF WindowTypes, NONE
<1>2. ClientTypes
    BY DEF ClientTypes, NoBatch, NoTicket, NONE
<1>3. \A c \in Calls : KnowsWindow(c) /\ SentInTime(c) /\ TicketHasCause(c)
    BY DEF KnowsWindow, SentInTime, TicketHasCause
<1> QED BY <1>1, <1>2, <1>3 DEF ClientsInv, BannedForACause

\* A client goes back to mining.
LEMMA HomeKeepsClients ==
    ASSUME ClientsInv, NEW c \in Calls, Home(c), UNCHANGED server, bans' = bans,
           \A d \in Calls : stage'[d] # "away" => d # c /\ stage[d] # "away"
    PROVE  ClientsInv'
<1>1. /\ at' = [at EXCEPT ![c] = "mining"] /\ body' = [body EXCEPT ![c] = NoBatch]
      /\ ticket' = [ticket EXCEPT ![c] = NoTicket] /\ UNCHANGED <<known, readAt>>
      /\ UNCHANGED <<now, epoch, open, opened, previous, loop>>
    BY DEF Home, server
<1>2. WindowTypes'
    BY <1>1 DEF ClientsInv, WindowTypes
<1>3. ClientTypes'
    BY <1>1 DEF ClientsInv, ClientTypes, NoBatch, NoTicket, NONE
<1>4. ASSUME NEW d \in Calls
      PROVE  KnowsWindow(d)' /\ SentInTime(d)' /\ TicketHasCause(d)'
    <2>1. KnowsWindow(d)'
        BY <1>1 DEF ClientsInv, KnowsWindow
    <2>2. CASE d = c
        BY <1>1, <2>1, <2>2 DEF ClientsInv, ClientTypes, SentInTime, TicketHasCause
    <2>3. CASE d # c
        BY <1>1, <2>1, <2>3 DEF ClientsInv, ClientTypes, SentInTime, TicketHasCause, Forged
    <2> QED BY <2>2, <2>3
<1>5. BannedForACause'
    BY DEF ClientsInv, BannedForACause
<1> QED BY <1>2, <1>3, <1>4, <1>5 DEF ClientsInv

\* Steps that change no client and no window.
LEMMA IdleKeepsClients ==
    ASSUME ClientsInv, UNCHANGED <<now, epoch, open, opened, previous, at, known, readAt, body, ticket>>,
           bans' = bans, loop' = "down" => loop = "down",
           \A d \in Calls : stage'[d] # "away" => stage[d] # "away"
    PROVE  ClientsInv'
<1>1. WindowTypes' /\ ClientTypes'
    BY DEF ClientsInv, WindowTypes, ClientTypes
<1>2. ASSUME NEW d \in Calls
      PROVE  KnowsWindow(d)' /\ SentInTime(d)' /\ TicketHasCause(d)'
    BY DEF ClientsInv, KnowsWindow, SentInTime, TicketHasCause, Forged
<1> QED BY <1>1, <1>2 DEF ClientsInv, BannedForACause

LEMMA FlushKeepsClients ==
    ASSUME ClientsInv, NEW c \in Calls, Flush(c)
    PROVE  ClientsInv'
<1> USE ConstantTypes
<1>1. /\ at[c] = "mining" /\ UNCHANGED <<now, epoch, open, opened, previous, loop, stage, ticket, bans>>
      /\ known' = [known EXCEPT ![c] = Current(c)]
      /\ readAt' = [readAt EXCEPT ![c] = IF now - readAt[c] > REFRESH THEN now ELSE readAt[c]]
    BY DEF Flush, vars, server, guard, ClientsInv, ClientTypes
<1>2. PICK kept \in Nat : \/ UNCHANGED <<at, body>>
                          \/ /\ at' = [at EXCEPT ![c] = "sent"]
                             /\ body' = [body EXCEPT ![c] = [window |-> Current(c), sparks |-> kept,
                                                             sent |-> now]]
    BY DEF Flush
<1>3. now \in Nat /\ epoch \in Nat /\ readAt[c] \in Nat /\ known[c] \in Nat /\ known[c] \in 1..epoch
      /\ readAt[c] <= now /\ opened \in Nat /\ opened <= now
    BY DEF ClientsInv, WindowTypes, ClientTypes, KnowsWindow
<1>4. Current(c) \in 1..epoch /\ Current(c) \in Nat
    BY <1>3 DEF Current
<1>5. known'[c] = Current(c) /\ readAt'[c] \in Nat /\ readAt'[c] <= now /\ now <= readAt'[c] + REFRESH
    BY <1>1, <1>3 DEF ClientsInv, ClientTypes
<1>6. WindowTypes'
    BY <1>1 DEF ClientsInv, WindowTypes
<1>7. ClientTypes'
    <2>1. [window |-> Current(c), sparks |-> kept, sent |-> now] \in [window : Nat, sparks : Nat, sent : Nat]
        BY <1>3, <1>4
    <2>2. body' \in [Calls -> [window : Nat, sparks : Nat, sent : Nat]]
        <3> DEFINE B == [window : Nat, sparks : Nat, sent : Nat]
                   b == [window |-> Current(c), sparks |-> kept, sent |-> now]
        <3>1. b \in B /\ body \in [Calls -> B] /\ (body' = body \/ body' = [body EXCEPT ![c] = b])
            BY <1>2, <2>1 DEF ClientsInv, ClientTypes
        <3> HIDE DEF b, B
        <3>2. body' \in [Calls -> B]
            BY <3>1
        <3> QED BY <3>2 DEF B
    <2>4. at' \in [Calls -> {"mining", "sent", "admitted", "inside"}]
        BY <1>2 DEF ClientsInv, ClientTypes
    <2>3. known' \in [Calls -> Nat] /\ readAt' \in [Calls -> Nat]
        BY <1>1, <1>3, <1>4 DEF ClientsInv, ClientTypes
    <2> QED BY <1>1, <2>2, <2>3, <2>4 DEF ClientsInv, ClientTypes
<1>8. ASSUME NEW d \in Calls
      PROVE  KnowsWindow(d)' /\ SentInTime(d)' /\ TicketHasCause(d)'
    <2>1. CASE d = c
        <3>1. KnowsWindow(c)'
            <4>1. open /\ Current(c) # epoch => readAt'[c] <= opened
                BY <1>1, <1>3 DEF ClientsInv, KnowsWindow, ClientTypes, Current
            <4> QED BY <1>1, <1>4, <1>5, <4>1 DEF KnowsWindow
        <3>2. SentInTime(c)'
            <4>1. CASE UNCHANGED <<at, body>>
                BY <1>1, <4>1 DEF SentInTime
            <4>2. CASE body' = [body EXCEPT ![c] = [window |-> Current(c), sparks |-> kept, sent |-> now]]
                <5>1. body'[c].window = Current(c) /\ body'[c].sent = now
                    BY <4>2 DEF ClientsInv, ClientTypes
                <5> QED BY <1>5, <5>1 DEF SentInTime
            <4> QED BY <1>2, <4>1, <4>2
        <3>3. TicketHasCause(c)'
            <4>1. at'[c] # "inside" /\ stage'[c] = "away"
                BY <1>1, <1>2 DEF ClientsInv, ClientTypes, TicketHasCause
            <4> QED BY <4>1 DEF TicketHasCause
        <3> QED BY <2>1, <3>1, <3>2, <3>3
    <2>2. CASE d # c
        <3>1. at'[d] = at[d] /\ body'[d] = body[d] /\ known'[d] = known[d] /\ readAt'[d] = readAt[d]
            BY <1>1, <1>2, <2>2 DEF ClientsInv, ClientTypes
        <3> QED BY <1>1, <3>1 DEF ClientsInv, KnowsWindow, SentInTime, TicketHasCause, Forged
    <2> QED BY <2>1, <2>2
<1> QED BY <1>1, <1>6, <1>7, <1>8 DEF ClientsInv, BannedForACause

\* The ticket of a batch whose client missed at most one window, and whose
\* server remembers it, tells a late spark from a forged one for long enough.
LEMMA TakeTicketKeepsClients ==
    ASSUME QueueInv, ClientsInv, NEW c \in Calls, TakeTicket(c)
    PROVE  ClientsInv'
<1> USE ConstantTypes DEF NONE
<1>1. /\ at[c] = "admitted" /\ open /\ at' = [at EXCEPT ![c] = "inside"]
      /\ UNCHANGED <<now, epoch, open, opened, previous, loop, bans, known, readAt, body>>
      /\ \A d \in Calls \ {c} : stage'[d] # "away" => stage[d] # "away"
    BY DEF TakeTicket, Enter, server, guard, QueueInv
<1> DEFINE t == [epoch |-> epoch, late |-> LateTicket, afresh |-> previous = NONE,
                 way |-> now - body[c].sent]
<1>2. ticket' = [ticket EXCEPT ![c] = t]
    BY DEF TakeTicket
<1>3. /\ now \in Nat /\ epoch \in Nat \ {0} /\ previous \in Nat /\ previous \in {0, epoch - 1}
      /\ opened \in Nat /\ opened <= now
    BY DEF ClientsInv, WindowTypes
<1>4. /\ body[c].window = known[c] /\ body[c].sent \in Nat /\ body[c].sent <= readAt[c] + REFRESH
      /\ readAt[c] \in Nat /\ known[c] \in 1..epoch
      /\ known[c] # epoch => readAt[c] <= opened
    BY <1>1 DEF ClientsInv, ClientTypes, KnowsWindow, SentInTime
<1>5. /\ t \in [epoch : Nat, late : Nat, afresh : BOOLEAN, way : Int]
      /\ t.epoch = epoch /\ t.late = LateTicket /\ t.afresh = (previous = 0) /\ t.way = now - body[c].sent
    BY <1>3, <1>4 DEF LateTicket
<1> HIDE DEF t
<1>6. ticket'[c] = t /\ body'[c] = body[c]
    BY <1>1, <1>2 DEF ClientsInv, ClientTypes
<1>7. ASSUME Forged(c)', previous # 0, ~(t.epoch - body[c].window > 1)
      PROVE  t.way >= GRACE - REFRESH
    <2>1. known[c] # epoch /\ known[c] # LateTicket
        BY <1>4, <1>5, <1>6, <1>7 DEF Forged
    <2>2. known[c] = epoch - 1 /\ previous = epoch - 1
        <3>1. t.epoch = epoch /\ body[c].window = known[c] /\ ~(t.epoch - body[c].window > 1)
            BY <1>4, <1>5, <1>7
        <3>2. ~(epoch - known[c] > 1)
            BY <3>1
        <3>3. previous = epoch - 1
            BY <1>3, <1>7
        <3>4. known[c] \in Nat /\ epoch \in Nat /\ known[c] <= epoch
            BY <1>3, <1>4
        <3> QED BY <2>1, <3>2, <3>3, <3>4
    <2>3. now - opened >= GRACE
        BY <1>3, <2>1, <2>2 DEF LateTicket
    <2>4. body[c].sent <= opened + REFRESH
        BY <1>3, <1>4, <2>1
    <2> QED BY <1>3, <1>4, <1>5, <2>3, <2>4
<1>8. WindowTypes' /\ ClientTypes'
    BY <1>1, <1>2, <1>5 DEF ClientsInv, WindowTypes, ClientTypes
<1>9. ASSUME NEW d \in Calls
      PROVE  KnowsWindow(d)' /\ SentInTime(d)' /\ TicketHasCause(d)'
    <2>1. KnowsWindow(d)'
        BY <1>1 DEF ClientsInv, KnowsWindow
    <2>2. CASE d = c
        <3>1. at'[c] = "inside"
            BY <1>1 DEF ClientsInv, ClientTypes
        <3>2. Forged(c)' => \/ ticket'[c].afresh
                            \/ ticket'[c].way >= GRACE - REFRESH
                            \/ ticket'[c].epoch - body'[c].window > 1
            BY <1>5, <1>6, <1>7
        <3> QED BY <2>1, <2>2, <3>1, <3>2 DEF SentInTime, TicketHasCause
    <2>3. CASE d # c
        <3>1. at'[d] = at[d] /\ ticket'[d] = ticket[d]
            BY <1>1, <1>2, <2>3 DEF ClientsInv, ClientTypes
        <3> QED BY <1>1, <2>1, <2>3, <3>1 DEF ClientsInv, SentInTime, TicketHasCause, Forged
    <2> QED BY <2>2, <2>3
<1> QED BY <1>1, <1>8, <1>9 DEF ClientsInv, BannedForACause

LEMMA AnswerKeepsClients ==
    ASSUME QueueInv, ClientsInv, NEW c \in Calls, Answer(c)
    PROVE  ClientsInv'
<1>1. stage[c] = "checked" /\ stage' = [stage EXCEPT ![c] = "away"] /\ Home(c) /\ UNCHANGED server
    BY DEF Answer, Return, Leave
<1>2. \/ bans' = bans
      \/ /\ Forged(c)
         /\ bans' = bans \cup {[afresh |-> ticket[c].afresh, way |-> ticket[c].way,
                                since |-> ticket[c].epoch - body[c].window]}
    BY DEF Answer, guard
<1>3. at[c] = "inside"
    BY <1>1 DEF ClientsInv, TicketHasCause
<1>4. BannedForACause'
    BY <1>2, <1>3 DEF ClientsInv, TicketHasCause, BannedForACause
<1>5. /\ at' = [at EXCEPT ![c] = "mining"] /\ body' = [body EXCEPT ![c] = NoBatch]
      /\ ticket' = [ticket EXCEPT ![c] = NoTicket] /\ UNCHANGED <<known, readAt>>
      /\ UNCHANGED <<now, epoch, open, opened, previous, loop>>
    BY <1>1 DEF Home, server
<1>6. WindowTypes' /\ ClientTypes'
    BY <1>5 DEF ClientsInv, WindowTypes, ClientTypes, NoBatch, NoTicket, NONE
<1>7. ASSUME NEW d \in Calls
      PROVE  KnowsWindow(d)' /\ SentInTime(d)' /\ TicketHasCause(d)'
    <2>1. KnowsWindow(d)'
        BY <1>5 DEF ClientsInv, KnowsWindow
    <2>2. stage'[d] # "away" => d # c /\ stage[d] # "away"
        BY <1>1 DEF QueueInv
    <2>3. CASE d = c
        BY <1>5, <2>1, <2>2, <2>3 DEF ClientsInv, ClientTypes, SentInTime, TicketHasCause
    <2>4. CASE d # c
        BY <1>5, <2>1, <2>2, <2>4 DEF ClientsInv, ClientTypes, SentInTime, TicketHasCause, Forged
    <2> QED BY <2>3, <2>4
<1> QED BY <1>4, <1>6, <1>7 DEF ClientsInv

\* A window opens, or the server dies, starts or waits.
LEMMA WindowsKeepClients ==
    ASSUME ClientsInv, Close \/ OpenNext \/ Start \/ Tick \/ Wake
    PROVE  ClientsInv'
<1> USE DEF NONE
<1>1. /\ UNCHANGED <<at, known, readAt, body, ticket, stage, bans>>
      /\ \/ now' = now + 1 /\ UNCHANGED <<epoch, open, opened, previous, loop>>
         \/ open' = FALSE /\ loop' = "drand" /\ UNCHANGED <<now, epoch, opened, previous>>
         \/ loop' = "closing" /\ UNCHANGED <<now, epoch, open, opened, previous>>
         \/ /\ epoch' = epoch + 1 /\ previous' \in {epoch, NONE}
            /\ open' = TRUE /\ opened' = now /\ now' = now /\ loop' = "sleeping"
         \/ /\ epoch' = epoch /\ previous' = previous /\ open' = TRUE /\ opened' = now /\ now' = now
            /\ loop' = "sleeping"
    BY DEF Close, OpenNext, Start, Tick, Wake, OpenWindow, vars, clients, guard, ClientsInv, WindowTypes
<1>2. now \in Nat /\ epoch \in Nat \ {0} /\ opened \in Nat /\ opened <= now
    BY DEF ClientsInv, WindowTypes
<1>3. WindowTypes'
    <2>1. epoch' \in Nat \ {0} /\ now' \in Nat /\ opened' \in Nat /\ opened' <= now'
        BY <1>1, <1>2
    <2>2. previous' \in {NONE, epoch' - 1} /\ (loop' = "down" => previous' = NONE)
        BY <1>1, <1>2 DEF ClientsInv, WindowTypes
    <2> QED BY <2>1, <2>2 DEF WindowTypes
<1>4. ASSUME NEW d \in Calls
      PROVE  KnowsWindow(d)' /\ SentInTime(d)' /\ TicketHasCause(d)'
    <2>1. known[d] \in 1..epoch /\ readAt[d] \in Nat /\ readAt[d] <= now
        BY DEF ClientsInv, ClientTypes, KnowsWindow
    <2>2. KnowsWindow(d)'
        BY <1>1, <1>2, <2>1 DEF ClientsInv, KnowsWindow
    <2> QED BY <1>1, <2>2 DEF ClientsInv, SentInTime, TicketHasCause, Forged
<1>5. ClientTypes' /\ BannedForACause'
    BY <1>1 DEF ClientsInv, ClientTypes, BannedForACause
<1> QED BY <1>3, <1>4, <1>5 DEF ClientsInv

LEMMA DieKeepsClients ==
    ASSUME ClientsInv, Die
    PROVE  ClientsInv'
<1> USE DEF NONE
<1>1. /\ UNCHANGED <<known, readAt, now, epoch, opened, bans>>
      /\ open' = FALSE /\ previous' = NONE /\ stage' = [c \in Calls |-> "away"]
      /\ at' = [c \in Calls |-> IF at[c] = "sent" THEN "sent" ELSE "mining"]
      /\ body' = [c \in Calls |-> IF at[c] = "sent" THEN body[c] ELSE NoBatch]
      /\ ticket' = [c \in Calls |-> NoTicket]
    BY DEF Die
<1>2. WindowTypes'
    BY <1>1 DEF ClientsInv, WindowTypes
<1>3. ClientTypes'
    BY <1>1 DEF ClientsInv, ClientTypes, NoBatch, NoTicket
<1>4. ASSUME NEW d \in Calls
      PROVE  KnowsWindow(d)' /\ SentInTime(d)' /\ TicketHasCause(d)'
    BY <1>1 DEF ClientsInv, ClientTypes, KnowsWindow, SentInTime, TicketHasCause
<1> QED BY <1>1, <1>2, <1>3, <1>4 DEF ClientsInv, BannedForACause

-----------------------------------------------------------------------------
(* All steps. *)

\* What a step of the system does to a batch, to a window, or to the queue alone.
LEMMA NextQueue ==
    ASSUME QueueInv, ClientsInv, [RequestsNext]_all
    PROVE  QueueInv'
<1>1. ASSUME NEW c \in Calls, Flush(c) \/ Stall(c) \/ HangUp(c) \/ Handler(c) \/ Checked(c)
      PROVE  QueueInv'
    <2>1. CASE TakeTicket(c)
        <3>1. body[c].sparks \in Nat
            BY DEF ClientsInv, ClientTypes
        <3> QED BY <2>1, <3>1, EnterKeepsQueue DEF TakeTicket
    <2>2. CASE HangUp(c) \/ Checked(c)
        BY <2>2, LeaveKeepsQueue DEF HangUp, Checked, Overloaded, Answer
    <2>3. CASE Flush(c) \/ Stall(c) \/ Unreachable(c) \/ TurnAway(c) \/ PassGuard(c) \/ NoWindow(c)
        BY <2>3, UnchangedQueue DEF Flush, Stall, Unreachable, TurnAway, PassGuard, NoWindow, vars
    <2> QED BY <1>1, <2>1, <2>2, <2>3 DEF Handler
<1>2. CASE Queue
    <2>1. OrphanEnds => QueueInv'
        BY UnchangedQueue DEF OrphanEnds
    <2> QED BY <1>2, <2>1, AcquireKeepsQueue, TaskEndsKeepsQueue DEF Queue
<1>3. CASE Wake \/ Close \/ OpenNext \/ Start \/ Tick \/ UNCHANGED all
    BY <1>3, UnchangedQueue DEF Wake, Close, OpenNext, Start, Tick, all, vars
<1>4. CASE Die
    BY <1>4, DieKeepsQueue
<1> QED BY <1>1, <1>2, <1>3, <1>4 DEF RequestsNext

LEMMA NextClients ==
    ASSUME QueueInv, ClientsInv, [RequestsNext]_all
    PROVE  ClientsInv'
<1>1. ASSUME NEW c \in Calls, Flush(c) \/ Stall(c) \/ HangUp(c) \/ Handler(c) \/ Checked(c)
      PROVE  ClientsInv'
    <2>1. CASE Flush(c)
        BY <2>1, FlushKeepsClients
    <2>2. CASE Stall(c)
        BY <2>2, IdleKeepsClients DEF Stall, vars, server, guard
    <2>3. CASE Unreachable(c) \/ TurnAway(c) \/ NoWindow(c)
        <3>1. at[c] # "inside" /\ Home(c) /\ UNCHANGED server /\ bans' = bans /\ stage' = stage
            BY <2>3 DEF Unreachable, TurnAway, NoWindow, guard, vars
        <3>2. \A d \in Calls : stage'[d] # "away" => d # c /\ stage[d] # "away"
            BY <3>1 DEF ClientsInv, TicketHasCause
        <3> QED BY <3>1, <3>2, HomeKeepsClients
    <2>4. CASE PassGuard(c)
        <3>1. /\ at[c] = "sent" /\ UNCHANGED server /\ bans' = bans /\ stage' = stage
              /\ \/ Home(c)
                 \/ /\ at' = [at EXCEPT ![c] = "admitted"]
                    /\ UNCHANGED <<known, readAt, body, ticket>>
            BY <2>4 DEF PassGuard, vars
        <3>2. \A d \in Calls : stage'[d] # "away" => d # c /\ stage[d] # "away"
            BY <3>1 DEF ClientsInv, TicketHasCause
        <3>3. CASE at' = [at EXCEPT ![c] = "admitted"] /\ UNCHANGED <<known, readAt, body, ticket>>
            <4>1. WindowTypes' /\ ClientTypes'
                BY <3>1, <3>3 DEF ClientsInv, WindowTypes, ClientTypes, server
            <4>2. ASSUME NEW d \in Calls
                  PROVE  KnowsWindow(d)' /\ SentInTime(d)' /\ TicketHasCause(d)'
                <5>1. KnowsWindow(d)' /\ SentInTime(d)'
                    BY <3>1, <3>3 DEF ClientsInv, ClientTypes, KnowsWindow, SentInTime, server
                <5>2. TicketHasCause(d)'
                    BY <3>1, <3>2, <3>3 DEF ClientsInv, ClientTypes, TicketHasCause, Forged
                <5> QED BY <5>1, <5>2
            <4> QED BY <3>1, <4>1, <4>2 DEF ClientsInv, BannedForACause
        <3> QED BY <3>1, <3>2, <3>3, HomeKeepsClients
    <2>5. CASE TakeTicket(c)
        BY <2>5, TakeTicketKeepsClients
    <2>6. CASE Answer(c)
        BY <2>6, AnswerKeepsClients
    <2>7. CASE Overloaded(c) \/ HangUp(c)
        <3>1. stage' = [stage EXCEPT ![c] = "away"] /\ Home(c) /\ UNCHANGED server /\ bans' = bans
            BY <2>7 DEF Overloaded, HangUp, Refuse, Disconnect, Leave, guard
        <3>2. \A d \in Calls : stage'[d] # "away" => d # c /\ stage[d] # "away"
            BY <3>1 DEF QueueInv
        <3> QED BY <3>1, <3>2, HomeKeepsClients
    <2> QED BY <1>1, <2>1, <2>2, <2>3, <2>4, <2>5, <2>6, <2>7 DEF Handler, Checked
<1>2. CASE Queue /\ UNCHANGED <<server, guard, clients>>
    <2>1. \A d \in Calls : stage'[d] # "away" => stage[d] # "away"
        <3>1. CASE Acquire
            <4>1. line # <<>> /\ line \in Seq(Calls) /\ stage' = [stage EXCEPT ![Head(line)] = "checking"]
                BY <3>1 DEF Acquire, QueueInv, LineInv
            <4>2. Head(line) = line[1] /\ 1 \in DOMAIN line
                BY <4>1, HeadTailProperties, LenProperties, EmptySeq
            <4>3. stage[Head(line)] = "waiting"
                BY <4>2 DEF QueueInv, LineInv
            <4> QED BY <4>1, <4>3 DEF QueueInv
        <3>2. ASSUME NEW c \in Calls, TaskEnds(c)
              PROVE  \A d \in Calls : stage'[d] # "away" => stage[d] # "away"
            BY <3>2 DEF TaskEnds, QueueInv
        <3>3. CASE OrphanEnds
            BY <3>3 DEF OrphanEnds
        <3> QED BY <1>2, <3>1, <3>2, <3>3 DEF Queue
    <2> QED BY <1>2, <2>1, IdleKeepsClients DEF server, guard, clients
<1>3. CASE Wake \/ Close \/ OpenNext \/ Start \/ Tick
    BY <1>3, WindowsKeepClients
<1>4. CASE Die
    BY <1>4, DieKeepsClients
<1>5. CASE UNCHANGED all
    BY <1>5, IdleKeepsClients DEF all, server, guard, clients, vars
<1> QED BY <1>1, <1>2, <1>3, <1>4, <1>5 DEF RequestsNext

\* The sparks that wait for a check or are checked fit in the queue, and none in
\* flight goes uncounted: whatever calls come, are refused, hang up or are cut
\* off when the server dies.
THEOREM ChecksAreBounded == Safe => []QueueIsBounded
<1>1. RequestsInit => QueueInv /\ ClientsInv
    BY InitQueue, InitClients DEF RequestsInit
<1>2. QueueInv /\ ClientsInv /\ [RequestsNext]_all => QueueInv' /\ ClientsInv'
    BY NextQueue, NextClients
<1> QED BY <1>1, <1>2, QueueInvBounds, PTL DEF Safe

-----------------------------------------------------------------------------
(* The guard: dropping idle buckets changes no level, now or later. *)

\* The buckets of keys of clients, brought up to date by a time.
IsTable(b, time) ==
    /\ DOMAIN b \subseteq Keys
    /\ \A k \in DOMAIN b : b[k].tokens \in Nat /\ b[k].at \in Nat /\ b[k].at <= time

SameLevels(b, u, time) ==
    \A k \in Keys, t \in Nat : t >= time => Level(b, k, t) = Level(u, k, t)

LEMMA TagsOfKeys ==
    /\ \A k \in Keys : k[1] \in {"i", "n", "k"}
    /\ \A c \in Calls, i \in 1..3 : KeysOf(c)[i] \in Keys
<1>1. ASSUME NEW c \in Calls
      PROVE  /\ DOMAIN KeysOf(c) = 1..3
             /\ \A i \in 1..3 : KeysOf(c)[i][1] \in {"i", "n", "k"}
    BY DEF KeysOf
<1>2. Keys = UNION {{KeysOf(c)[i] : i \in 1..3} : c \in Calls}
    BY <1>1 DEF Keys, ToSet
<1> QED BY <1>1, <1>2

LEMMA LevelType ==
    ASSUME NEW time \in Nat, NEW b, IsTable(b, time), NEW k \in Keys, NEW t \in Nat, t >= time
    PROVE  Level(b, k, t) \in Nat
<1>1. SizeOf[k[1]] \in Nat /\ RefillOf[k[1]] \in Nat
    BY TagsOfKeys, GuardAssumption
<1>2. ASSUME k \in DOMAIN b
      PROVE  b[k].tokens + (t - b[k].at) * RefillOf[k[1]] \in Nat
    <2>1. t - b[k].at \in Nat /\ b[k].tokens \in Nat
        BY <1>2 DEF IsTable
    <2>2. (t - b[k].at) * RefillOf[k[1]] \in Nat
        BY <1>1, <2>1
    <2> QED BY <2>1, <2>2
<1> QED BY <1>1, <1>2 DEF Level, Smaller

\* A bucket that nobody touches for IDLE ticks is full again.
LEMMA IdleIsFull ==
    ASSUME NEW k \in Keys, NEW n \in Nat, NEW d \in Nat, d >= IDLE
    PROVE  Smaller(n + d * RefillOf[k[1]], SizeOf[k[1]]) = SizeOf[k[1]]
<1> DEFINE S == SizeOf[k[1]]
           R == RefillOf[k[1]]
<1>1. S \in Nat /\ R \in Nat /\ IDLE \in Nat /\ S <= IDLE * R
    BY TagsOfKeys, GuardAssumption
<1> HIDE DEF S, R
<1>2. d * R = IDLE * R + (d - IDLE) * R /\ d - IDLE \in Nat
    BY <1>1
<1>3. (d - IDLE) * R \in Nat /\ IDLE * R \in Nat /\ d * R \in Nat
    BY <1>1, <1>2
<1>4. n + d * R >= S
    BY <1>1, <1>2, <1>3
<1>5. Smaller(n + d * R, S) = S
    BY <1>1, <1>3, <1>4 DEF Smaller
<1> QED BY <1>5 DEF S, R

LEMMA DropIdleKeepsLevels ==
    ASSUME NEW most, NEW time \in Nat, NEW b, IsTable(b, time)
    PROVE  IsTable(DropIdle(most, b, time), time) /\ SameLevels(DropIdle(most, b, time), b, time)
<1> DEFINE kept == [k \in {j \in DOMAIN b : time - b[j].at < IDLE} |-> b[k]]
<1>1. IsTable(kept, time)
    BY DEF IsTable
<1>2. SameLevels(kept, b, time)
    <2> SUFFICES ASSUME NEW k \in Keys, NEW t \in Nat, t >= time
                 PROVE  Level(kept, k, t) = Level(b, k, t)
        BY DEF SameLevels
    <2>1. CASE k \in DOMAIN kept
        BY <2>1 DEF Level
    <2>2. CASE k \notin DOMAIN b
        BY <2>2 DEF Level
    <2>3. CASE k \in DOMAIN b /\ k \notin DOMAIN kept
        <3>1. ~(time - b[k].at < IDLE) /\ b[k].tokens \in Nat /\ b[k].at \in Nat /\ b[k].at <= time
            BY <2>3 DEF IsTable
        <3>2. t - b[k].at \in Nat /\ t - b[k].at >= IDLE
            BY <3>1, GuardAssumption
        <3>3. Smaller(b[k].tokens + (t - b[k].at) * RefillOf[k[1]], SizeOf[k[1]]) = SizeOf[k[1]]
            BY <3>1, <3>2, IdleIsFull
        <3> QED BY <2>3, <3>3 DEF Level
    <2> QED BY <2>1, <2>2, <2>3
<1>3. IsTable(b, time) /\ SameLevels(b, b, time)
    BY DEF SameLevels
<1> HIDE DEF kept
<1>4. DropIdle(most, b, time) = b \/ DropIdle(most, b, time) = kept
    BY DEF DropIdle, kept
<1> QED BY <1>1, <1>2, <1>3, <1>4

LEMMA TakeKeepsLevels ==
    ASSUME NEW most, NEW time \in Nat, NEW b, IsTable(b, time), NEW key \in Keys
    PROVE  LET got == take(most, b, key, time)
           IN /\ got.ok = (Level(b, key, time) >= 1)
              /\ IsTable(got.buckets, time)
              /\ key \in DOMAIN got.buckets
              /\ got.buckets[key] = [tokens |-> IF Level(b, key, time) >= 1
                                                THEN Level(b, key, time) - 1 ELSE Level(b, key, time),
                                     at |-> time]
              /\ \A k \in Keys \ {key}, t \in Nat :
                    t >= time => Level(got.buckets, k, t) = Level(b, k, t)
<1> DEFINE got == take(most, b, key, time)
           kept == DropIdle(most, b, time)
           level == Level(kept, key, time)
           bucket == [tokens |-> IF level >= 1 THEN level - 1 ELSE level, at |-> time]
           after == [k \in DOMAIN kept \cup {key} |-> IF k # key THEN kept[k] ELSE bucket]
<1>1. IsTable(kept, time) /\ SameLevels(kept, b, time)
    BY DropIdleKeepsLevels
<1>2. level = Level(b, key, time)
    BY <1>1 DEF SameLevels
<1>3. level \in Nat
    BY <1>1, LevelType
<1>4. got.ok = (level >= 1) /\ got.buckets = after
    BY DEF take
<1> HIDE DEF kept, level, got
<1>5. bucket.tokens \in Nat /\ bucket.at = time
    BY <1>3
<1> HIDE DEF bucket
<1>6. IsTable(after, time)
    BY <1>1, <1>5 DEF IsTable
<1>7. \A k \in Keys \ {key}, t \in Nat : t >= time => Level(after, k, t) = Level(b, k, t)
    <2>1. \A k \in Keys \ {key}, t \in Nat : Level(after, k, t) = Level(kept, k, t)
        BY DEF Level
    <2> QED BY <1>1, <2>1 DEF SameLevels
<1>8. key \in DOMAIN after /\ after[key] = bucket
    OBVIOUS
<1> HIDE DEF after
<1>9. /\ got.ok = (Level(b, key, time) >= 1) /\ IsTable(got.buckets, time) /\ key \in DOMAIN got.buckets
      /\ got.buckets[key] = bucket
      /\ \A k \in Keys \ {key}, t \in Nat : t >= time => Level(got.buckets, k, t) = Level(b, k, t)
    BY <1>2, <1>4, <1>6, <1>7, <1>8
<1> QED BY <1>2, <1>9 DEF got, bucket

LEMMA TakesAgree ==
    ASSUME NEW m, NEW n, NEW time \in Nat, NEW b, NEW u, IsTable(b, time), IsTable(u, time),
           SameLevels(b, u, time), NEW key \in Keys
    PROVE  /\ take(m, b, key, time).ok = take(n, u, key, time).ok
           /\ IsTable(take(m, b, key, time).buckets, time)
           /\ IsTable(take(n, u, key, time).buckets, time)
           /\ SameLevels(take(m, b, key, time).buckets, take(n, u, key, time).buckets, time)
<1> DEFINE x == take(m, b, key, time)
           y == take(n, u, key, time)
<1>1. /\ x.ok = (Level(b, key, time) >= 1) /\ IsTable(x.buckets, time) /\ key \in DOMAIN x.buckets
      /\ x.buckets[key] = [tokens |-> IF Level(b, key, time) >= 1
                                      THEN Level(b, key, time) - 1 ELSE Level(b, key, time), at |-> time]
      /\ \A k \in Keys \ {key}, t \in Nat : t >= time => Level(x.buckets, k, t) = Level(b, k, t)
    BY TakeKeepsLevels
<1>2. /\ y.ok = (Level(u, key, time) >= 1) /\ IsTable(y.buckets, time) /\ key \in DOMAIN y.buckets
      /\ y.buckets[key] = [tokens |-> IF Level(u, key, time) >= 1
                                      THEN Level(u, key, time) - 1 ELSE Level(u, key, time), at |-> time]
      /\ \A k \in Keys \ {key}, t \in Nat : t >= time => Level(y.buckets, k, t) = Level(u, k, t)
    BY TakeKeepsLevels
<1>3. Level(b, key, time) = Level(u, key, time)
    BY DEF SameLevels
<1> HIDE DEF x, y
<1>4. SameLevels(x.buckets, y.buckets, time)
    <2> SUFFICES ASSUME NEW k \in Keys, NEW t \in Nat, t >= time
                 PROVE  Level(x.buckets, k, t) = Level(y.buckets, k, t)
        BY DEF SameLevels
    <2>1. CASE k = key
        <3>1. x.buckets[key] = y.buckets[key]
            BY <1>1, <1>2, <1>3
        <3> QED BY <1>1, <1>2, <2>1, <3>1 DEF Level
    <2>2. CASE k # key
        BY <1>1, <1>2, <2>2 DEF SameLevels
    <2> QED BY <2>1, <2>2
<1> QED BY <1>1, <1>2, <1>3, <1>4 DEF x, y

LEMMA AdmissionsAgree ==
    ASSUME NEW m, NEW n, now \in Nat, NEW b, NEW u, IsTable(b, now), IsTable(u, now),
           SameLevels(b, u, now), NEW c \in Calls
    PROVE  /\ IsTable(Admission(m, b, c).buckets, now) /\ IsTable(Admission(n, u, c).buckets, now)
           /\ SameLevels(Admission(m, b, c).buckets, Admission(n, u, c).buckets, now)
<1> DEFINE K == KeysOf(c)
           b1 == take(m, b, K[1], now)
           b2 == take(m, b1.buckets, K[2], now)
           b3 == take(m, b2.buckets, K[3], now)
           u1 == take(n, u, K[1], now)
           u2 == take(n, u1.buckets, K[2], now)
           u3 == take(n, u2.buckets, K[3], now)
           Agree(x, y) == /\ x.ok = y.ok /\ IsTable(x.buckets, now) /\ IsTable(y.buckets, now)
                          /\ SameLevels(x.buckets, y.buckets, now)
<1>1. Admission(m, b, c) = IF ~b1.ok THEN b1 ELSE IF ~b2.ok THEN b2 ELSE b3
    BY DEF Admission, admit
<1>2. Admission(n, u, c) = IF ~u1.ok THEN u1 ELSE IF ~u2.ok THEN u2 ELSE u3
    BY DEF Admission, admit
<1>3. K[1] \in Keys /\ K[2] \in Keys /\ K[3] \in Keys
    BY TagsOfKeys
<1> HIDE DEF K
<1>4. Agree(b1, u1)
    BY <1>3, TakesAgree
<1> HIDE DEF b1, u1
<1>5. Agree(b2, u2)
    BY <1>3, <1>4, TakesAgree
<1> HIDE DEF b2, u2
<1>6. Agree(b3, u3)
    BY <1>3, <1>5, TakesAgree
<1> HIDE DEF b3, u3
<1>7. Agree(Admission(m, b, c), Admission(n, u, c))
    <2> HIDE DEF Agree
    <2>1. b1.ok = u1.ok /\ b2.ok = u2.ok
        BY <1>4, <1>5 DEF Agree
    <2> QED BY <1>1, <1>2, <1>4, <1>5, <1>6, <2>1
<1> QED BY <1>7

GuardInv == IsTable(buckets, now) /\ IsTable(unpurged, now) /\ SameLevels(buckets, unpurged, now)

LEMMA InitGuard == RequestsInit => GuardInv
<1> SUFFICES ASSUME RequestsInit PROVE GuardInv
    OBVIOUS
<1>1. buckets = <<>> /\ unpurged = <<>>
    BY DEF RequestsInit
<1>2. DOMAIN <<>> = {}
    OBVIOUS
<1> QED BY <1>1, <1>2 DEF GuardInv, IsTable, SameLevels

LEMMA NextGuard ==
    ASSUME GuardInv, ClientsInv, [RequestsNext]_all
    PROVE  GuardInv'
<1>1. now \in Nat
    BY DEF ClientsInv, WindowTypes
<1>2. CASE UNCHANGED <<buckets, unpurged, now>>
    BY <1>2 DEF GuardInv, IsTable, SameLevels
<1>3. ASSUME NEW c \in Calls, PassGuard(c)
      PROVE  GuardInv'
    <2>1. /\ buckets' = Admission(MAX_BUCKETS, buckets, c).buckets
          /\ unpurged' = Admission(Cardinality(Keys), unpurged, c).buckets
          /\ now' = now
        BY <1>3 DEF PassGuard, server
    <2>2. /\ IsTable(buckets', now) /\ IsTable(unpurged', now)
          /\ SameLevels(buckets', unpurged', now)
        BY <1>1, <2>1, AdmissionsAgree DEF GuardInv
    <2> QED BY <2>1, <2>2 DEF GuardInv, IsTable, SameLevels, Level
<1>4. CASE Die
    <2>1. buckets' = <<>> /\ unpurged' = <<>>
        BY <1>4 DEF Die
    <2>2. DOMAIN <<>> = {}
        OBVIOUS
    <2> QED BY <2>1, <2>2 DEF GuardInv, IsTable, SameLevels, Level
<1>5. CASE Tick
    <2>1. now' = now + 1 /\ UNCHANGED <<buckets, unpurged>>
        BY <1>5 DEF Tick, guard
    <2>2. IsTable(buckets, now + 1) /\ IsTable(unpurged, now + 1) /\ SameLevels(buckets, unpurged, now + 1)
        BY <1>1 DEF GuardInv, IsTable, SameLevels
    <2> QED BY <2>1, <2>2 DEF GuardInv, IsTable, SameLevels, Level
<1>6. ASSUME NEW c \in Calls, \/ Flush(c) \/ Stall(c) \/ HangUp(c) \/ Unreachable(c) \/ TurnAway(c)
                              \/ NoWindow(c) \/ TakeTicket(c) \/ Checked(c)
      PROVE  UNCHANGED <<buckets, unpurged, now>>
    BY <1>6 DEF Flush, Stall, HangUp, Unreachable, TurnAway, NoWindow, TakeTicket, Checked, Overloaded,
                Answer, server, guard
<1>7. CASE (Queue /\ UNCHANGED <<server, guard, clients>>) \/ Wake \/ Close \/ OpenNext \/ Start \/ UNCHANGED all
    <2>1. UNCHANGED <<buckets, unpurged, now>>
        BY <1>7 DEF Wake, Close, OpenNext, OpenWindow, Start, all, server, guard
    <2> QED BY <1>2, <2>1
<1> QED BY <1>2, <1>3, <1>4, <1>5, <1>6, <1>7 DEF RequestsNext, Handler

\* The guard bans for a cause only, and dropping idle buckets gives nobody a
\* token more or less, for any number of clients, windows and faults.
THEOREM GuardStaysFair == Safe => []GuardIsFair
<1>1. RequestsInit => QueueInv /\ ClientsInv /\ GuardInv
    BY InitQueue, InitClients, InitGuard DEF RequestsInit
<1>2. QueueInv /\ ClientsInv /\ GuardInv /\ [RequestsNext]_all => QueueInv' /\ ClientsInv' /\ GuardInv'
    BY NextQueue, NextClients, NextGuard
<1>3. ClientsInv /\ GuardInv => GuardIsFair
    BY DEF ClientsInv, WindowTypes, GuardInv, SameLevels, GuardIsFair, PurgeForgetsNothing
<1> QED BY <1>1, <1>2, <1>3, PTL DEF Safe

-----------------------------------------------------------------------------
(* The schedule: a window's round comes after its close. *)

\* A quotient rounded up is the least number that covers: it does,
LEMMA DivCeilCovers ==
    ASSUME NEW a \in Nat, NEW b \in Nat \ {0}
    PROVE  div_ceil(a, b) \in Nat /\ div_ceil(a, b) * b >= a
<1> DEFINE x == a + b - 1
           q == x \div b
<1>1. x \in Nat /\ q \in Int /\ x % b \in 0..(b - 1) /\ x = b * q + (x % b)
    OBVIOUS
<1>2. q \in Nat
    OBVIOUS
<1> HIDE DEF q
<1>3. b * q = q * b /\ q * b \in Nat
    BY <1>2
<1>4. q * b >= a
    BY <1>1, <1>3
<1> QED BY <1>2, <1>4 DEF div_ceil, q

\* and any other that covers is as large.
LEMMA DivCeilLeast ==
    ASSUME NEW a \in Nat, NEW b \in Nat \ {0}, NEW m \in Nat, m * b >= a
    PROVE  div_ceil(a, b) <= m
<1> DEFINE x == a + b - 1
           q == x \div b
<1>1. x \in Nat /\ q \in Int /\ x % b \in 0..(b - 1) /\ x = b * q + (x % b)
    OBVIOUS
<1>2. q \in Nat
    OBVIOUS
<1> HIDE DEF q
<1>3. SUFFICES ASSUME q > m PROVE FALSE
    BY <1>2 DEF div_ceil, q
<1>4. q - m - 1 \in Nat /\ q = m + 1 + (q - m - 1)
    BY <1>2, <1>3
<1>5. b * q = m * b + b + b * (q - m - 1)
    BY <1>4
<1>6. b * (q - m - 1) \in Nat /\ m * b \in Nat /\ b * q \in Nat
    BY <1>2, <1>4
<1>7. b * q >= a + b
    BY <1>5, <1>6
<1> QED BY <1>1, <1>6, <1>7

\* The round at a second, without the case of the genesis.
LEMMA RoundAt ==
    ASSUME NEW s \in Nat
    PROVE  round_at(s) = div_ceil(s, PERIOD) + 1
<1> USE ScheduleAssumption
<1>1. CASE s > 0
    BY <1>1 DEF round_at, GENESIS
<1>2. CASE s = 0
    <2>1. 0 * PERIOD >= 0
        OBVIOUS
    <2>2. div_ceil(0, PERIOD) = 0
        BY <2>1, DivCeilLeast, DivCeilCovers
    <2> QED BY <1>2, <2>2 DEF round_at, GENESIS
<1> QED BY <1>1, <1>2

\* A round is due the delay after its window's close, or later.
LEMMA RoundIsLater ==
    ASSUME NEW c \in Nat
    PROVE  /\ round_for_close(c) \in Nat
           /\ Due(round_for_close(c)) \in Nat
           /\ Due(round_for_close(c)) >= c + DELAY * SECOND
<1> USE ScheduleAssumption
<1> DEFINE s == div_ceil(c, SECOND) + DELAY
           n == div_ceil(s, PERIOD)
<1>1. div_ceil(c, SECOND) \in Nat /\ div_ceil(c, SECOND) * SECOND >= c
    BY DivCeilCovers
<1>2. s \in Nat
    BY <1>1
<1>3. n \in Nat /\ n * PERIOD >= s
    BY <1>2, DivCeilCovers
<1>4. s * SECOND = div_ceil(c, SECOND) * SECOND + DELAY * SECOND
    BY <1>1
<1>5. round_at(s) = n + 1
    BY <1>2, RoundAt
<1> HIDE DEF s, n
<1>6. Due(n + 1) = (n * PERIOD) * SECOND
    <2>1. (n + 1) - 1 = n /\ n * PERIOD \in Nat
        BY <1>3
    <2> QED BY <2>1 DEF Due, round_time, GENESIS
<1>7. (n * PERIOD) * SECOND >= s * SECOND
    <2> DEFINE m == n * PERIOD
    <2>1. m \in Nat /\ m >= s
        BY <1>3
    <2> HIDE DEF m
    <2>2. m * SECOND = s * SECOND + (m - s) * SECOND /\ (m - s) * SECOND \in Nat /\ s * SECOND \in Nat
        BY <1>2, <2>1
    <2>3. m * SECOND >= s * SECOND
        BY <2>2
    <2> QED BY <2>3 DEF m
<1>8. s * SECOND >= c + DELAY * SECOND
    <2>1. div_ceil(c, SECOND) * SECOND \in Nat /\ DELAY * SECOND \in Nat
        BY <1>1
    <2> QED BY <1>1, <1>4, <2>1
<1>9. (n * PERIOD) * SECOND \in Nat /\ s * SECOND \in Nat /\ DELAY * SECOND \in Nat
    BY <1>2, <1>3
<1>10. Due(n + 1) \in Nat /\ Due(n + 1) >= c + DELAY * SECOND
    BY <1>6, <1>7, <1>8, <1>9
<1> QED BY <1>3, <1>5, <1>10 DEF round_for_close, s

\* Rounds of two times are no further apart than the periods between the times.
LEMMA RoundsBetween ==
    ASSUME NEW c \in Nat, NEW t \in Nat, c <= t
    PROVE  round_for_close(t) <= round_for_close(c) + div_ceil(t - c, PERIOD * SECOND)
<1> USE ScheduleAssumption
<1> DEFINE a == div_ceil(c, SECOND)
           z == div_ceil(t, SECOND)
           k == div_ceil(t - c, PERIOD * SECOND)
           m == div_ceil(a + DELAY, PERIOD)
           n == div_ceil(z + DELAY, PERIOD)
<1>1. a \in Nat /\ a * SECOND >= c
    BY DivCeilCovers
<1>2. z \in Nat
    BY DivCeilCovers
<1>3. PERIOD * SECOND \in Nat \ {0} /\ t - c \in Nat
    OBVIOUS
<1>4. k \in Nat /\ k * (PERIOD * SECOND) >= t - c
    BY <1>3, DivCeilCovers
<1>5. m \in Nat /\ m * PERIOD >= a + DELAY
    BY <1>1, DivCeilCovers
<1>6. \A y \in Nat : y * SECOND >= t => z <= y
    BY DivCeilLeast
<1>7. \A y \in Nat : y * PERIOD >= z + DELAY => n <= y
    BY <1>2, DivCeilLeast
<1>8. round_for_close(c) = m + 1 /\ round_for_close(t) = n + 1
    BY <1>1, <1>2, RoundAt DEF round_for_close
<1>9. n \in Nat
    BY <1>2, DivCeilCovers
<1> HIDE DEF a, z, k, m, n
<1>10. z <= a + k * PERIOD
    <2>1. k * PERIOD \in Nat /\ a + k * PERIOD \in Nat
        BY <1>1, <1>4
    <2>2. (k * PERIOD) * SECOND = k * (PERIOD * SECOND)
        BY <1>4
    <2>3. (a + k * PERIOD) * SECOND = a * SECOND + (k * PERIOD) * SECOND
        BY <1>1, <2>1
    <2>4. a * SECOND \in Nat /\ (k * PERIOD) * SECOND \in Nat
        BY <1>1, <2>1
    <2>5. (a + k * PERIOD) * SECOND >= t
        BY <1>1, <1>4, <2>2, <2>3, <2>4
    <2> QED BY <1>6, <2>1, <2>5
<1>11. n <= m + k
    <2>1. k * PERIOD \in Nat /\ m * PERIOD \in Nat
        BY <1>4, <1>5
    <2>2. (m + k) * PERIOD = m * PERIOD + k * PERIOD
        BY <1>4, <1>5
    <2>3. (m + k) * PERIOD >= z + DELAY
        BY <1>1, <1>2, <1>5, <1>10, <2>1, <2>2
    <2>4. m + k \in Nat
        BY <1>4, <1>5
    <2> QED BY <1>7, <2>3, <2>4
<1>12. n + 1 <= m + 1 + k
    BY <1>4, <1>5, <1>9, <1>11
<1> QED BY <1>8, <1>12 DEF k

\* Where the close of a window and its round stand.
ScheduleInv ==
    /\ close \in Nat /\ stamp \in Nat
    /\ loop = "closing" => close <= now
    /\ loop = "drand" => round = round_for_close(close) /\ close <= stamp

LEMMA InitSchedule == RequestsInit => ScheduleInv
    BY DEF RequestsInit, ScheduleInv

LEMMA NextSchedule ==
    ASSUME ScheduleInv, ClientsInv, [RequestsNext]_all
    PROVE  ScheduleInv'
<1>1. now \in Nat
    BY DEF ClientsInv, WindowTypes
<1>2. CASE UNCHANGED <<now, loop, close, stamp, round>>
    BY <1>2 DEF ScheduleInv
<1>3. CASE Wake
    BY <1>1, <1>3 DEF Wake, ScheduleInv
<1>4. CASE Close
    BY <1>1, <1>4 DEF Close, ScheduleInv
<1>5. CASE OpenNext \/ Start
    BY <1>5 DEF OpenNext, Start, OpenWindow, ScheduleInv
<1>6. CASE Die
    BY <1>6 DEF Die, ScheduleInv
<1>7. CASE Tick
    <2>1. now' = now + 1 /\ UNCHANGED <<loop, close, stamp, round>>
        BY <1>7 DEF Tick
    <2> QED BY <1>1, <2>1 DEF ScheduleInv
<1>8. ASSUME NEW c \in Calls, \/ Flush(c) \/ Stall(c) \/ HangUp(c) \/ Handler(c) \/ Checked(c)
      PROVE  UNCHANGED <<now, loop, close, stamp, round>>
    BY <1>8 DEF Flush, Stall, HangUp, Handler, Unreachable, TurnAway, PassGuard, NoWindow, TakeTicket,
                Checked, Overloaded, Answer, server
<1>9. CASE (Queue /\ UNCHANGED <<server, guard, clients>>) \/ UNCHANGED all
    BY <1>2, <1>9 DEF all, server
<1> QED BY <1>2, <1>3, <1>4, <1>5, <1>6, <1>7, <1>8, <1>9 DEF RequestsNext

\* A window takes sparks with its round published only if the loop has waited for
\* the intake lock for the whole delay, which nothing bounds; and the round taken
\* falls short of the one the final head asks for by at most the periods waited.
THEOREM BeaconsStayInTheFuture == Safe => []BeaconIsFuture
<1>1. RequestsInit => QueueInv /\ ClientsInv /\ ScheduleInv
    BY InitQueue, InitClients, InitSchedule DEF RequestsInit
<1>2. QueueInv /\ ClientsInv /\ ScheduleInv /\ [RequestsNext]_all
          => QueueInv' /\ ClientsInv' /\ ScheduleInv'
    BY NextQueue, NextClients, NextSchedule
<1>3. ClientsInv /\ ScheduleInv => BeaconIsFuture
    <2> SUFFICES ASSUME ClientsInv, ScheduleInv PROVE BeaconIsFuture
        OBVIOUS
    <2>1. now \in Nat /\ close \in Nat /\ stamp \in Nat
        BY DEF ClientsInv, WindowTypes, ScheduleInv
    <2>2. /\ Due(round_for_close(close)) \in Nat
          /\ Due(round_for_close(close)) >= close + DELAY * SECOND
        BY <2>1, RoundIsLater
    <2>3. open /\ loop = "closing" =>
              now < Due(round_for_close(close)) \/ now - close >= DELAY * SECOND
        <3>1. DELAY * SECOND \in Nat
            BY ScheduleAssumption
        <3> QED BY <2>1, <2>2, <3>1 DEF ScheduleInv
    <2>4. loop = "drand" =>
              round_for_close(stamp) <= round + div_ceil(stamp - close, PERIOD * SECOND)
        BY <2>1, RoundsBetween DEF ScheduleInv
    <2> QED BY <2>3, <2>4 DEF BeaconIsFuture
<1> QED BY <1>1, <1>2, <1>3, PTL DEF Safe

-----------------------------------------------------------------------------
(* The bytes of a wish: the places of its numbers. *)

\* n bytes.
Bytes(s, n) == s \in Seq(Nat) /\ Len(s) = n

\* The n bytes of s stand in b, after the first k.
Part(b, k, s, n) == \A i \in 1..n : b[k + i] = s[i]

\* Two sequences in one.
Join(s, t) == s \o t

\* A byte by its place in b.
LEMMA PartAt ==
    ASSUME NEW b, NEW k \in Nat, NEW s, NEW n \in Nat, Part(b, k, s, n), NEW i \in 1..n, NEW j,
           j = k + i
    PROVE  b[j] = s[i]
BY DEF Part

\* The two are its parts.
LEMMA Joined ==
    ASSUME NEW n \in Nat, NEW m \in Nat, NEW s, NEW t, Bytes(s, n), Bytes(t, m)
    PROVE  /\ Bytes(Join(s, t), n + m)
           /\ Part(Join(s, t), 0, s, n) /\ Part(Join(s, t), n, t, m)
<1>1. Bytes(Join(s, t), n + m)
    BY DEF Join, Bytes
<1>2. Part(Join(s, t), 0, s, n)
    BY DEF Part, Join, Bytes
<1>3. ASSUME NEW i \in 1..m
      PROVE  Join(s, t)[n + i] = t[i]
    <2>1. n + i \in 1..(n + m) /\ ~(n + i <= n) /\ n + i - n = i
        OBVIOUS
    <2> QED BY <2>1 DEF Join, Bytes
<1> QED BY <1>1, <1>2, <1>3 DEF Part

\* The parts of the first of two are parts of both.
LEMMA PartOfJoined ==
    ASSUME NEW n \in Nat, NEW m \in Nat, NEW s, NEW t, Bytes(s, n), Bytes(t, m),
           NEW k \in Nat, NEW p, NEW l \in Nat, Part(s, k, p, l), k + l <= n
    PROVE  Part(Join(s, t), k, p, l)
<1>2. ASSUME NEW i \in 1..l
      PROVE  Join(s, t)[k + i] = p[i]
    <2>1. k + i \in 1..n
        OBVIOUS
    <2>2. Join(s, t)[k + i] = s[k + i]
        BY <2>1 DEF Join, Bytes
    <2> QED BY <2>2 DEF Part
<1> QED BY <1>2 DEF Part

\* The parts of five sequences in one.
LEMMA FiveParts ==
    ASSUME NEW h, NEW a, NEW l, NEW p, NEW n,
           NEW i \in Nat, NEW j \in Nat, NEW k \in Nat, NEW q \in Nat, NEW r \in Nat,
           Bytes(h, i), Bytes(a, j), Bytes(l, k), Bytes(p, q), Bytes(n, r)
    PROVE  /\ Bytes(h \o a \o l \o p \o n, i + j + k + q + r)
           /\ Part(h \o a \o l \o p \o n, 0, h, i)
           /\ Part(h \o a \o l \o p \o n, i, a, j)
           /\ Part(h \o a \o l \o p \o n, i + j, l, k)
           /\ Part(h \o a \o l \o p \o n, i + j + k, p, q)
           /\ Part(h \o a \o l \o p \o n, i + j + k + q, n, r)
<1>1. PICK s1 : s1 = Join(h, a)
    OBVIOUS
<1>2. PICK n1 \in Nat : n1 = i + j
    OBVIOUS
<1>3. Bytes(s1, n1) /\ Part(s1, 0, h, i) /\ Part(s1, i, a, j)
    BY <1>1, <1>2, Joined
<1>4. PICK s2 : s2 = Join(s1, l)
    OBVIOUS
<1>5. PICK n2 \in Nat : n2 = n1 + k
    OBVIOUS
<1>6. Bytes(s2, n2) /\ Part(s2, n1, l, k)
    BY <1>3, <1>4, <1>5, Joined
<1>7. Part(s2, 0, h, i) /\ Part(s2, i, a, j)
    BY <1>2, <1>3, <1>4, PartOfJoined
<1>8. PICK s3 : s3 = Join(s2, p)
    OBVIOUS
<1>9. PICK n3 \in Nat : n3 = n2 + q
    OBVIOUS
<1>10. Bytes(s3, n3) /\ Part(s3, n2, p, q)
    BY <1>6, <1>8, <1>9, Joined
<1>11. Part(s3, 0, h, i) /\ Part(s3, i, a, j) /\ Part(s3, n1, l, k)
    BY <1>2, <1>5, <1>6, <1>7, <1>8, PartOfJoined
<1>12. PICK s4 : s4 = Join(s3, n)
    OBVIOUS
<1>13. Bytes(s4, n3 + r) /\ Part(s4, n3, n, r)
    BY <1>10, <1>12, Joined
<1>14. /\ Part(s4, 0, h, i) /\ Part(s4, i, a, j) /\ Part(s4, n1, l, k)
       /\ Part(s4, n2, p, q)
    BY <1>2, <1>5, <1>9, <1>10, <1>11, <1>12, PartOfJoined
<1>15. s4 = h \o a \o l \o p \o n
    BY <1>1, <1>4, <1>8, <1>12 DEF Join
<1>16. n1 = i + j /\ n2 = i + j + k /\ n3 = i + j + k + q /\ n3 + r = i + j + k + q + r
    BY <1>2, <1>5, <1>9
<1> QED BY <1>13, <1>14, <1>15, <1>16

\* n numbers are a sequence of that length.
LEMMA NumbersInOrder ==
    ASSUME NEW n \in Nat, NEW f \in [1..n -> Nat]
    PROVE  f \in Seq(Nat) /\ Len(f) = n
OBVIOUS

\* The bytes of the steps of a revival, two for each.
LEMMA StepBytes ==
    ASSUME NEW n \in Nat, NEW steps \in Seq(Nat \X Nat), Len(steps) = n
    PROVE  /\ Bytes(step_bytes(steps), 2 * n)
           /\ \A k \in 1..n : /\ step_bytes(steps)[2 * k - 1] = steps[k][1]
                              /\ step_bytes(steps)[2 * k] = steps[k][2]
<1>1. \A k \in 1..n : steps[k] \in Nat \X Nat
    OBVIOUS
<1>2. ASSUME NEW i \in 1..(2 * n)
      PROVE  (i + 1) \div 2 \in 1..n /\ 2 - (i % 2) \in {1, 2}
    OBVIOUS
<1>3. \A i \in 1..(2 * n) : steps[(i + 1) \div 2][2 - (i % 2)] \in Nat
    BY <1>1, <1>2
<1>4. step_bytes(steps) \in [1..(2 * n) -> Nat]
    BY <1>3 DEF step_bytes
<1>5. 2 * n \in Nat
    OBVIOUS
<1>6. step_bytes(steps) \in Seq(Nat) /\ Len(step_bytes(steps)) = 2 * n
    BY <1>4, <1>5, NumbersInOrder
<1>7. ASSUME NEW k \in 1..n
      PROVE  /\ step_bytes(steps)[2 * k - 1] = steps[k][1]
             /\ step_bytes(steps)[2 * k] = steps[k][2]
    <2>1. 2 * k - 1 \in 1..(2 * n) /\ 2 * k \in 1..(2 * n)
        OBVIOUS
    <2>2. (2 * k - 1 + 1) \div 2 = k /\ 2 - ((2 * k - 1) % 2) = 1
        OBVIOUS
    <2>3. (2 * k + 1) \div 2 = k /\ 2 - ((2 * k) % 2) = 2
        OBVIOUS
    <2> QED BY <2>1, <2>2, <2>3 DEF step_bytes
<1> QED BY <1>6, <1>7 DEF Bytes

\* How many bytes an action takes, a hypothesis and a name.
ActionLength(a) == Arity(a.code) + IF a.code = REVIVE THEN 1 + 2 * Len(a.steps) ELSE 0
HypothesisLength(h) == IF h = {} THEN 1 ELSE 3 + Len((CHOOSE x \in h : TRUE).params)
NameLength(name) == IF name = {} THEN 1 ELSE 3

\* The numbers of action a stand in b, after the first k.
ActionAt(b, k, a) ==
    IF a.code = REVIVE
    THEN /\ b[k + 1] = a.args[1] /\ b[k + 2] = a.args[2] /\ b[k + 3] = Len(a.steps)
         /\ \A i \in 1..Len(a.steps) : /\ b[k + 2 + 2 * i] = a.steps[i][1]
                                       /\ b[k + 3 + 2 * i] = a.steps[i][2]
         /\ b[k + 4 + 2 * Len(a.steps)] = a.args[3]
         /\ b[k + 5 + 2 * Len(a.steps)] = a.args[4]
    ELSE \A i \in 1..Arity(a.code) : b[k + i] = a.args[i]

\* So does a hypothesis ...
HypothesisAt(b, k, h) ==
    IF h = {} THEN b[k + 1] = 0
    ELSE LET x == CHOOSE x \in h : TRUE
         IN /\ b[k + 1] = 1 /\ b[k + 2] = x.template /\ b[k + 3] = Len(x.params)
            /\ \A i \in 1..Len(x.params) : b[k + 3 + i] = x.params[i]

\* ... and a name.
NameAt(b, k, name) ==
    IF name = {} THEN b[k + 1] = 0
    ELSE LET x == CHOOSE x \in name : TRUE
         IN b[k + 1] = 1 /\ b[k + 2] = x[1] /\ b[k + 3] = x[2]

\* An action with its numbers.
AnAction == [code : Codes, args : Seq(Nat), steps : Seq(Nat \X Nat)]

\* The bytes of an action are its numbers.
LEMMA ActionBytes ==
    ASSUME NEW a \in AnAction, Len(a.args) = Arity(a.code)
    PROVE  /\ ActionLength(a) \in Nat
           /\ Bytes(action_bytes(a), ActionLength(a)) /\ ActionAt(action_bytes(a), 0, a)
<1>1. PICK n \in Nat : n = Len(a.steps)
    BY DEF AnAction
<1>2. CASE a.code # REVIVE
    <2>1. action_bytes(a) = a.args /\ ActionLength(a) = Arity(a.code)
        BY <1>2 DEF action_bytes, ActionLength, Arity
    <2>2. Arity(a.code) \in Nat
        BY DEF Arity
    <2>3. \A i \in 1..Arity(a.code) : 0 + i = i
        BY <2>2
    <2> QED BY <1>2, <2>1, <2>2, <2>3 DEF Bytes, ActionAt, AnAction
<1>3. CASE a.code = REVIVE
    <2>1. PICK s : s = step_bytes(a.steps)
        OBVIOUS
    <2>2. /\ Bytes(s, 2 * n)
          /\ \A k \in 1..n : s[2 * k - 1] = a.steps[k][1] /\ s[2 * k] = a.steps[k][2]
        BY <1>1, <2>1, StepBytes DEF AnAction
    <2>3. \A i \in 1..4 : a.args[i] \in Nat
        BY <1>3 DEF Arity, REVIVE, GIFT, HYBRID, AnAction
    <2>4. PICK before : before = <<a.args[1], a.args[2], n>>
        OBVIOUS
    <2>5. PICK after : after = <<a.args[3], a.args[4]>>
        OBVIOUS
    <2>6. Bytes(before, 3)
        BY <1>1, <2>3, <2>4 DEF Bytes
    <2>7. Bytes(after, 2)
        BY <2>3, <2>5 DEF Bytes
    <2>8. PICK first : first = Join(before, s)
        OBVIOUS
    <2>9. 2 * n \in Nat /\ 3 \in Nat /\ 2 \in Nat /\ 3 + 2 * n \in Nat /\ 0 \in Nat
        BY <1>1
    <2>10. Bytes(first, 3 + 2 * n) /\ Part(first, 0, before, 3) /\ Part(first, 3, s, 2 * n)
        BY <2>2, <2>6, <2>8, <2>9, Joined
    <2>11. PICK bytes : bytes = Join(first, after)
        OBVIOUS
    <2>12. Bytes(bytes, 3 + 2 * n + 2) /\ Part(bytes, 3 + 2 * n, after, 2)
        BY <2>7, <2>9, <2>10, <2>11, Joined
    <2>13. Part(bytes, 0, before, 3) /\ Part(bytes, 3, s, 2 * n)
        <3>1. 0 + 3 <= 3 + 2 * n /\ 3 + 2 * n <= 3 + 2 * n
            BY <1>1
        <3> QED BY <2>7, <2>9, <2>10, <2>11, <3>1, PartOfJoined
    <2>14. action_bytes(a) = bytes
        BY <1>1, <1>3, <2>1, <2>4, <2>5, <2>8, <2>11 DEF action_bytes, Join
    <2>15. ActionLength(a) = 3 + 2 * n + 2 /\ ActionLength(a) \in Nat
        <3>1. Arity(a.code) = 4
            BY <1>3 DEF Arity, REVIVE
        <3> QED BY <1>1, <1>3, <3>1 DEF ActionLength
    <2>16. bytes[1] = a.args[1] /\ bytes[2] = a.args[2] /\ bytes[3] = n
        <3>1. bytes[1] = before[1] /\ bytes[2] = before[2] /\ bytes[3] = before[3]
            BY <2>13 DEF Part
        <3> QED BY <2>4, <3>1
    <2>17. bytes[4 + 2 * n] = a.args[3] /\ bytes[5 + 2 * n] = a.args[4]
        <3>1. bytes[3 + 2 * n + 1] = after[1] /\ bytes[3 + 2 * n + 2] = after[2]
            BY <2>12 DEF Part
        <3>2. 3 + 2 * n + 1 = 4 + 2 * n /\ 3 + 2 * n + 2 = 5 + 2 * n
            BY <1>1
        <3> QED BY <2>5, <3>1, <3>2
    <2>18. ASSUME NEW i \in 1..n
           PROVE  bytes[2 + 2 * i] = a.steps[i][1] /\ bytes[3 + 2 * i] = a.steps[i][2]
        <3>1. 2 * i - 1 \in 1..(2 * n) /\ 2 * i \in 1..(2 * n)
            BY <1>1
        <3>2. bytes[3 + (2 * i - 1)] = s[2 * i - 1] /\ bytes[3 + 2 * i] = s[2 * i]
            BY <2>13, <3>1 DEF Part
        <3>3. 3 + (2 * i - 1) = 2 + 2 * i
            OBVIOUS
        <3> QED BY <2>2, <3>2, <3>3
    <2>19. ActionAt(bytes, 0, a)
        <3>1. /\ 0 + 1 = 1 /\ 0 + 2 = 2 /\ 0 + 3 = 3 /\ 0 + 4 + 2 * n = 4 + 2 * n
              /\ 0 + 5 + 2 * n = 5 + 2 * n
            BY <1>1
        <3>2. \A i \in 1..n : 0 + 2 + 2 * i = 2 + 2 * i /\ 0 + 3 + 2 * i = 3 + 2 * i
            BY <1>1
        <3> QED BY <1>1, <1>3, <2>16, <2>17, <2>18, <3>1, <3>2 DEF ActionAt
    <2> QED BY <2>12, <2>14, <2>15, <2>19
<1> QED BY <1>2, <1>3

\* A hypothesis.
AHypothesis == [template : Nat, params : Seq(Nat)]

\* The bytes of a hypothesis are it.
LEMMA HypothesisBytes ==
    ASSUME NEW h \in SUBSET AHypothesis
    PROVE  /\ HypothesisLength(h) \in Nat /\ HypothesisLength(h) > 0
           /\ Bytes(hypothesis_bytes(h), HypothesisLength(h))
           /\ HypothesisAt(hypothesis_bytes(h), 0, h)
<1>1. CASE h = {}
    BY <1>1 DEF HypothesisLength, hypothesis_bytes, HypothesisAt, Bytes
<1>2. CASE h # {}
    <2>1. PICK x : x = CHOOSE y \in h : TRUE
        OBVIOUS
    <2>2. x \in h
        BY <1>2, <2>1
    <2>3. PICK n \in Nat : n = Len(x.params)
        BY <2>2 DEF AHypothesis
    <2>4. PICK before : before = <<1, x.template, n>>
        OBVIOUS
    <2>5. Bytes(before, 3) /\ Bytes(x.params, n)
        BY <2>2, <2>3, <2>4 DEF Bytes, AHypothesis
    <2>6. PICK bytes : bytes = Join(before, x.params)
        OBVIOUS
    <2>7. Bytes(bytes, 3 + n) /\ Part(bytes, 0, before, 3) /\ Part(bytes, 3, x.params, n)
        BY <2>5, <2>6, Joined
    <2>8. hypothesis_bytes(h) = bytes
        BY <1>2, <2>1, <2>3, <2>4, <2>6 DEF hypothesis_bytes, Join
    <2>9. HypothesisLength(h) = 3 + n
        BY <1>2, <2>1, <2>3 DEF HypothesisLength
    <2>10. bytes[1] = 1 /\ bytes[2] = x.template /\ bytes[3] = n
        <3>1. bytes[1] = before[1] /\ bytes[2] = before[2] /\ bytes[3] = before[3]
            BY <2>7 DEF Part
        <3> QED BY <2>4, <3>1
    <2>11. \A i \in 1..n : bytes[3 + i] = x.params[i]
        BY <2>7 DEF Part
    <2>12. HypothesisAt(bytes, 0, h)
        <3>1. 0 + 1 = 1 /\ 0 + 2 = 2 /\ 0 + 3 = 3
            OBVIOUS
        <3> QED BY <1>2, <2>1, <2>3, <2>10, <2>11, <3>1 DEF HypothesisAt
    <2> QED BY <2>7, <2>8, <2>9, <2>12
<1> QED BY <1>1, <1>2

\* The bytes of a name are it.
LEMMA NameBytes ==
    ASSUME NEW name \in SUBSET (Nat \X Nat)
    PROVE  /\ NameLength(name) \in Nat
           /\ Bytes(name_bytes(name), NameLength(name)) /\ NameAt(name_bytes(name), 0, name)
<1>1. CASE name = {}
    BY <1>1 DEF NameLength, name_bytes, NameAt, Bytes
<1>2. CASE name # {}
    <2>1. PICK x : x = CHOOSE y \in name : TRUE
        OBVIOUS
    <2>2. x \in Nat \X Nat
        BY <1>2, <2>1
    <2>3. x[1] \in Nat /\ x[2] \in Nat
        BY <2>2
    <2>4. name_bytes(name) = <<1, x[1], x[2]>>
        BY <1>2, <2>1 DEF name_bytes
    <2>5. NameAt(<<1, x[1], x[2]>>, 0, name)
        BY <1>2, <2>1 DEF NameAt
    <2>6. Bytes(<<1, x[1], x[2]>>, 3)
        BY <2>3 DEF Bytes
    <2> QED BY <1>2, <2>4, <2>5, <2>6 DEF NameLength
<1> QED BY <1>1, <1>2

\* What stands in a part stands in the whole, further on.
LEMMA ActionInPart ==
    ASSUME NEW a \in AnAction, NEW b, NEW s, NEW k \in Nat, ActionLength(a) \in Nat,
           Part(b, k, s, ActionLength(a)), ActionAt(s, 0, a)
    PROVE  ActionAt(b, k, a)
<1>1. PICK n \in Nat : n = Len(a.steps)
    BY DEF AnAction
<1>2. PICK m \in Nat : m = ActionLength(a)
    OBVIOUS
<1>3. \A i \in 1..m : b[k + i] = s[i]
    BY <1>2 DEF Part
<1>4. CASE a.code # REVIVE
    <2>1. m = Arity(a.code)
        BY <1>2, <1>4 DEF ActionLength, Arity
    <2>2. \A i \in 1..m : s[0 + i] = a.args[i]
        BY <1>4, <2>1 DEF ActionAt
    <2>3. \A i \in 1..m : 0 + i = i
        OBVIOUS
    <2> QED BY <1>3, <1>4, <2>1, <2>2, <2>3 DEF ActionAt
<1>5. CASE a.code = REVIVE
    <2>1. m = 5 + 2 * n
        <3>1. Arity(a.code) = 4
            BY <1>5 DEF Arity, REVIVE
        <3> QED BY <1>1, <1>2, <1>5, <3>1 DEF ActionLength
    <2>2. /\ s[1] = a.args[1] /\ s[2] = a.args[2] /\ s[3] = n
          /\ \A i \in 1..n : s[2 + 2 * i] = a.steps[i][1] /\ s[3 + 2 * i] = a.steps[i][2]
          /\ s[4 + 2 * n] = a.args[3] /\ s[5 + 2 * n] = a.args[4]
        <3>1. /\ 0 + 1 = 1 /\ 0 + 2 = 2 /\ 0 + 3 = 3 /\ 0 + 4 + 2 * n = 4 + 2 * n
              /\ 0 + 5 + 2 * n = 5 + 2 * n
            OBVIOUS
        <3>2. \A i \in 1..n : 0 + 2 + 2 * i = 2 + 2 * i /\ 0 + 3 + 2 * i = 3 + 2 * i
            OBVIOUS
        <3> QED BY <1>1, <1>5, <3>1, <3>2 DEF ActionAt
    <2>3. ASSUME NEW i \in 1..n
          PROVE  b[k + 2 + 2 * i] = a.steps[i][1] /\ b[k + 3 + 2 * i] = a.steps[i][2]
        <3>1. 2 + 2 * i \in 1..m /\ 3 + 2 * i \in 1..m
            BY <2>1
        <3>2. k + (2 + 2 * i) = k + 2 + 2 * i /\ k + (3 + 2 * i) = k + 3 + 2 * i
            OBVIOUS
        <3> QED BY <1>3, <2>2, <3>1, <3>2
    <2>4. /\ 1 \in 1..m /\ 2 \in 1..m /\ 3 \in 1..m /\ 4 + 2 * n \in 1..m /\ 5 + 2 * n \in 1..m
          /\ k + (4 + 2 * n) = k + 4 + 2 * n /\ k + (5 + 2 * n) = k + 5 + 2 * n
        BY <2>1
    <2>5. /\ b[k + 1] = a.args[1] /\ b[k + 2] = a.args[2] /\ b[k + 3] = n
          /\ b[k + 4 + 2 * n] = a.args[3] /\ b[k + 5 + 2 * n] = a.args[4]
        BY <1>3, <2>2, <2>4
    <2> QED BY <1>1, <1>5, <2>3, <2>5 DEF ActionAt
<1> QED BY <1>4, <1>5

\* So for a hypothesis ...
LEMMA HypothesisInPart ==
    ASSUME NEW h \in SUBSET AHypothesis, NEW b, NEW s, NEW k \in Nat,
           Part(b, k, s, HypothesisLength(h)), HypothesisAt(s, 0, h)
    PROVE  HypothesisAt(b, k, h)
<1>1. PICK x : x = CHOOSE y \in h : TRUE
    OBVIOUS
<1>2. CASE h = {}
    BY <1>2 DEF HypothesisAt, HypothesisLength, Part
<1>3. CASE h # {}
    <2>1. x \in AHypothesis
        BY <1>1, <1>3
    <2>2. PICK n \in Nat : n = Len(x.params)
        BY <2>1 DEF AHypothesis
    <2>3. \A i \in 1..(3 + n) : b[k + i] = s[i]
        BY <1>1, <1>3, <2>2 DEF HypothesisLength, Part
    <2>4. s[1] = 1 /\ s[2] = x.template /\ s[3] = n /\ \A i \in 1..n : s[3 + i] = x.params[i]
        <3>1. 0 + 1 = 1 /\ 0 + 2 = 2 /\ 0 + 3 = 3
            OBVIOUS
        <3> QED BY <1>1, <1>3, <2>2, <3>1 DEF HypothesisAt
    <2>5. ASSUME NEW i \in 1..n
          PROVE  b[k + 3 + i] = x.params[i]
        <3>1. 3 + i \in 1..(3 + n) /\ k + (3 + i) = k + 3 + i
            OBVIOUS
        <3> QED BY <2>3, <2>4, <3>1
    <2>6. b[k + 1] = 1 /\ b[k + 2] = x.template /\ b[k + 3] = n
        BY <2>3, <2>4
    <2> QED BY <1>1, <1>3, <2>2, <2>5, <2>6 DEF HypothesisAt
<1> QED BY <1>2, <1>3

\* ... and for a name.
LEMMA NameInPart ==
    ASSUME NEW name \in SUBSET (Nat \X Nat), NEW b, NEW s, NEW k \in Nat,
           Part(b, k, s, NameLength(name)), NameAt(s, 0, name)
    PROVE  NameAt(b, k, name)
<1>1. 0 + 1 = 1 /\ 0 + 2 = 2 /\ 0 + 3 = 3
    OBVIOUS
<1>2. CASE name = {}
    BY <1>1, <1>2 DEF NameAt, NameLength, Part
<1>3. CASE name # {}
    <2>1. b[k + 1] = s[1] /\ b[k + 2] = s[2] /\ b[k + 3] = s[3]
        BY <1>3 DEF NameLength, Part
    <2> QED BY <1>1, <1>3, <2>1 DEF NameAt
<1> QED BY <1>2, <1>3

\* Where the numbers of a wish stand: its action ends at place last, its hypothesis
\* at hyp, its name at end.
Layout(b, w, last, hyp, end) ==
    /\ last \in Nat /\ hyp \in Nat /\ end \in Nat
    /\ last = 4 + ActionLength(w.action)
    /\ hyp = last + 3 + HypothesisLength(w.hypothesis)
    /\ end = hyp + NameLength(w.name)
    /\ Bytes(b, end)
    /\ b[1] = VERSION /\ b[2] = w.world /\ b[3] = w.ruleset /\ b[4] = w.action.code
    /\ ActionAt(b, 4, w.action)
    /\ b[last + 1] = w.author /\ b[last + 2] = w.created /\ b[last + 3] = w.expires
    /\ HypothesisAt(b, last + 3, w.hypothesis)
    /\ NameAt(b, hyp, w.name)

\* The fields of a wish.
WishFields ==
    [world : Nat, ruleset : Nat, author : Nat, created : Nat, expires : Nat, action : AnAction,
     hypothesis : SUBSET AHypothesis, name : SUBSET (Nat \X Nat)]

\* A wish has them.
LEMMA WishHasFields ==
    ASSUME NEW w, IsWish(w)
    PROVE  w \in WishFields /\ Len(w.action.args) = Arity(w.action.code)
BY DEF IsWish, WishFields, AnAction, AHypothesis

\* A wish's bytes have its numbers in their places.
LEMMA BytesAreLaidOut ==
    ASSUME NEW w, IsWish(w)
    PROVE  \E last, hyp, end : Layout(to_bytes(w), w, last, hyp, end)
<1>1. w \in WishFields /\ Len(w.action.args) = Arity(w.action.code)
    BY WishHasFields
<1>2. /\ w.action \in AnAction /\ w.hypothesis \in SUBSET AHypothesis
      /\ w.name \in SUBSET (Nat \X Nat)
      /\ w.world \in Nat /\ w.ruleset \in Nat /\ w.author \in Nat /\ w.created \in Nat
      /\ w.expires \in Nat
    BY <1>1 DEF WishFields
<1>3. PICK j \in Nat : j = ActionLength(w.action)
    BY <1>1, <1>2, ActionBytes
<1>4. PICK q \in Nat : q = HypothesisLength(w.hypothesis)
    BY <1>2, HypothesisBytes
<1>5. PICK r \in Nat : r = NameLength(w.name)
    BY <1>2, NameBytes
<1>6. PICK a : a = action_bytes(w.action)
    OBVIOUS
<1>7. PICK p : p = hypothesis_bytes(w.hypothesis)
    OBVIOUS
<1>8. PICK n : n = name_bytes(w.name)
    OBVIOUS
<1>9. PICK h : h = <<VERSION, w.world, w.ruleset, w.action.code>>
    OBVIOUS
<1>10. PICK l : l = <<w.author, w.created, w.expires>>
    OBVIOUS
<1>11. Bytes(a, j) /\ ActionAt(a, 0, w.action)
    BY <1>1, <1>2, <1>3, <1>6, ActionBytes
<1>12. Bytes(p, q) /\ HypothesisAt(p, 0, w.hypothesis)
    BY <1>2, <1>4, <1>7, HypothesisBytes
<1>13. Bytes(n, r) /\ NameAt(n, 0, w.name)
    BY <1>2, <1>5, <1>8, NameBytes
<1>14. Bytes(h, 4)
    <2>1. w.action.code \in Nat
        BY <1>2 DEF AnAction, Codes
    <2> QED BY <1>2, <1>9, <2>1 DEF Bytes, VERSION
<1>15. Bytes(l, 3)
    BY <1>2, <1>10 DEF Bytes
<1>16. PICK b : b = h \o a \o l \o p \o n
    OBVIOUS
<1>17. 4 \in Nat /\ 3 \in Nat
    OBVIOUS
<1>18. /\ Bytes(b, 4 + j + 3 + q + r)
       /\ Part(b, 0, h, 4) /\ Part(b, 4, a, j) /\ Part(b, 4 + j, l, 3)
       /\ Part(b, 4 + j + 3, p, q) /\ Part(b, 4 + j + 3 + q, n, r)
    BY <1>11, <1>12, <1>13, <1>14, <1>15, <1>16, <1>17, FiveParts
<1>19. to_bytes(w) = b
    BY <1>6, <1>7, <1>8, <1>9, <1>10, <1>16 DEF to_bytes
<1>20. PICK last \in Nat : last = 4 + j
    OBVIOUS
<1>21. PICK hyp \in Nat : hyp = last + 3 + q
    OBVIOUS
<1>22. PICK end \in Nat : end = hyp + r
    OBVIOUS
<1>23. Bytes(b, end)
    BY <1>18, <1>20, <1>21, <1>22
<1>24. ActionAt(b, 4, w.action)
    BY <1>2, <1>3, <1>11, <1>17, <1>18, ActionInPart
<1>25. HypothesisAt(b, last + 3, w.hypothesis)
    <2>1. last + 3 \in Nat /\ last + 3 = 4 + j + 3
        BY <1>20
    <2> QED BY <1>2, <1>4, <1>12, <1>18, <2>1, HypothesisInPart
<1>26. NameAt(b, hyp, w.name)
    <2>1. hyp = 4 + j + 3 + q
        BY <1>20, <1>21
    <2> QED BY <1>2, <1>5, <1>13, <1>18, <2>1, NameInPart
<1>27. b[1] = VERSION /\ b[2] = w.world /\ b[3] = w.ruleset /\ b[4] = w.action.code
    <2>1. b[0 + 1] = h[1] /\ b[0 + 2] = h[2] /\ b[0 + 3] = h[3] /\ b[0 + 4] = h[4]
        BY <1>18 DEF Part
    <2> QED BY <1>9, <2>1
<1>28. b[last + 1] = w.author /\ b[last + 2] = w.created /\ b[last + 3] = w.expires
    <2>1. b[4 + j + 1] = l[1] /\ b[4 + j + 2] = l[2] /\ b[4 + j + 3] = l[3]
        BY <1>18 DEF Part
    <2> QED BY <1>10, <1>20, <2>1
<1>29. Layout(b, w, last, hyp, end)
    BY <1>3, <1>4, <1>5, <1>20, <1>21, <1>22, <1>23, <1>24, <1>25, <1>26, <1>27, <1>28 DEF Layout
<1> QED BY <1>19, <1>29

\* The bytes of an action are all given by its numbers ...
LEMMA SameAction ==
    ASSUME NEW a \in AnAction, NEW b, NEW c, NEW k \in Nat, ActionAt(b, k, a), ActionAt(c, k, a),
           NEW i \in (k + 1)..(k + ActionLength(a)), ActionLength(a) \in Nat
    PROVE  b[i] = c[i]
<1>1. PICK n \in Nat : n = Len(a.steps)
    BY DEF AnAction
<1>2. PICK m \in Nat : m = ActionLength(a)
    OBVIOUS
<1>3. PICK j \in 1..m : i = k + j
    <2>1. i - k \in 1..m /\ i = k + (i - k)
        BY <1>2
    <2> QED BY <2>1
<1>4. CASE a.code # REVIVE
    <2>1. m = Arity(a.code)
        BY <1>2, <1>4 DEF ActionLength, Arity
    <2> QED BY <1>3, <1>4, <2>1 DEF ActionAt
<1>5. CASE a.code = REVIVE
    <2>1. m = 5 + 2 * n
        <3>1. Arity(a.code) = 4
            BY <1>5 DEF Arity, REVIVE
        <3> QED BY <1>1, <1>2, <1>5, <3>1 DEF ActionLength
    <2>2. CASE j <= 3
        <3>1. i = k + 1 \/ i = k + 2 \/ i = k + 3
            BY <1>3, <2>2
        <3> QED BY <1>5, <3>1 DEF ActionAt
    <2>3. CASE j > 3 /\ j <= 3 + 2 * n
        <3>1. PICK e \in 1..n : j = 2 + 2 * e \/ j = 3 + 2 * e
            <4>1. (j - 2) \div 2 \in 1..n
                BY <2>3
            <4>2. j = 2 + 2 * ((j - 2) \div 2) \/ j = 3 + 2 * ((j - 2) \div 2)
                BY <2>3
            <4> QED BY <4>1, <4>2
        <3>2. i = k + 2 + 2 * e \/ i = k + 3 + 2 * e
            BY <1>3, <3>1
        <3>3. b[k + 2 + 2 * e] = c[k + 2 + 2 * e] /\ b[k + 3 + 2 * e] = c[k + 3 + 2 * e]
            BY <1>1, <1>5 DEF ActionAt
        <3> QED BY <3>2, <3>3
    <2>4. CASE j > 3 + 2 * n
        <3>1. i = k + 4 + 2 * n \/ i = k + 5 + 2 * n
            BY <1>3, <2>1, <2>4
        <3>2. b[k + 4 + 2 * n] = c[k + 4 + 2 * n] /\ b[k + 5 + 2 * n] = c[k + 5 + 2 * n]
            BY <1>1, <1>5 DEF ActionAt
        <3> QED BY <3>1, <3>2
    <2> QED BY <2>2, <2>3, <2>4
<1> QED BY <1>4, <1>5

\* ... those of a hypothesis by it ...
LEMMA SameHypothesis ==
    ASSUME NEW h \in SUBSET AHypothesis, NEW b, NEW c, NEW k \in Nat,
           HypothesisAt(b, k, h), HypothesisAt(c, k, h),
           NEW i \in (k + 1)..(k + HypothesisLength(h))
    PROVE  b[i] = c[i]
<1>1. PICK x : x = CHOOSE y \in h : TRUE
    OBVIOUS
<1>2. CASE h = {}
    <2>1. i = k + 1
        BY <1>2 DEF HypothesisLength
    <2> QED BY <1>2, <2>1 DEF HypothesisAt
<1>3. CASE h # {}
    <2>1. x \in AHypothesis
        BY <1>1, <1>3
    <2>2. PICK n \in Nat : n = Len(x.params)
        BY <2>1 DEF AHypothesis
    <2>3. i \in (k + 1)..(k + (3 + n))
        BY <1>1, <1>3, <2>2 DEF HypothesisLength
    <2>4. PICK j \in 1..(3 + n) : i = k + j
        <3>1. i - k \in 1..(3 + n) /\ i = k + (i - k)
            BY <2>3
        <3> QED BY <3>1
    <2>5. CASE j <= 3
        <3>1. i = k + 1 \/ i = k + 2 \/ i = k + 3
            BY <2>4, <2>5
        <3> QED BY <1>1, <1>3, <3>1 DEF HypothesisAt
    <2>6. CASE j > 3
        <3>1. j - 3 \in 1..n /\ i = k + 3 + (j - 3)
            BY <2>4, <2>6
        <3> QED BY <1>1, <1>3, <2>2, <3>1 DEF HypothesisAt
    <2> QED BY <2>5, <2>6
<1> QED BY <1>2, <1>3

\* ... and those of a name by it.
LEMMA SameName ==
    ASSUME NEW name \in SUBSET (Nat \X Nat), NEW b, NEW c, NEW k \in Nat,
           NameAt(b, k, name), NameAt(c, k, name),
           NEW i \in (k + 1)..(k + NameLength(name))
    PROVE  b[i] = c[i]
<1>1. i = k + 1 \/ (name # {} /\ (i = k + 2 \/ i = k + 3))
    BY DEF NameLength
<1> QED BY <1>1 DEF NameAt

\* So a wish has one layout.
LEMMA OneLayout ==
    ASSUME NEW w \in WishFields, NEW b, NEW c, NEW last, NEW hyp, NEW end,
           NEW last2, NEW hyp2, NEW end2,
           Layout(b, w, last, hyp, end), Layout(c, w, last2, hyp2, end2)
    PROVE  b = c
<1>1. last \in Nat /\ hyp \in Nat /\ end \in Nat
    BY DEF Layout
<1>2. last = last2 /\ hyp = hyp2 /\ end = end2
    BY DEF Layout
<1>3. /\ w.action \in AnAction /\ w.hypothesis \in SUBSET AHypothesis
      /\ w.name \in SUBSET (Nat \X Nat)
    BY DEF WishFields
<1>4. Bytes(b, end) /\ Bytes(c, end)
    BY <1>2 DEF Layout
<1>5. PICK j : j = ActionLength(w.action)
    OBVIOUS
<1>6. PICK q : q = HypothesisLength(w.hypothesis)
    OBVIOUS
<1>7. PICK r : r = NameLength(w.name)
    OBVIOUS
<1>8. last = 4 + j /\ hyp = last + 3 + q /\ end = hyp + r
    BY <1>5, <1>6, <1>7 DEF Layout
<1>9. j \in Nat /\ q \in Nat /\ r \in Nat
    <2>1. j \in Nat
        <3>1. PICK n \in Nat : n = Len(w.action.steps)
            BY <1>3 DEF AnAction
        <3>2. Arity(w.action.code) \in Nat
            BY DEF Arity
        <3> QED BY <1>5, <3>1, <3>2 DEF ActionLength
    <2> QED BY <1>3, <1>6, <1>7, <2>1, HypothesisBytes, NameBytes
<1>10. ASSUME NEW i \in 1..end
       PROVE  b[i] = c[i]
    <2>1. CASE i <= 4
        <3>1. i = 1 \/ i = 2 \/ i = 3 \/ i = 4
            BY <1>1, <2>1
        <3> QED BY <3>1 DEF Layout
    <2>2. CASE i > 4 /\ i <= last
        <3>1. i \in (4 + 1)..(4 + j) /\ 4 \in Nat
            BY <1>1, <1>8, <2>2
        <3>2. ActionAt(b, 4, w.action) /\ ActionAt(c, 4, w.action)
            BY DEF Layout
        <3> QED BY <1>3, <1>5, <1>9, <3>1, <3>2, SameAction
    <2>3. CASE i > last /\ i <= last + 3
        <3>1. i = last + 1 \/ i = last + 2 \/ i = last + 3
            BY <1>1, <2>3
        <3> QED BY <1>2, <3>1 DEF Layout
    <2>4. CASE i > last + 3 /\ i <= hyp
        <3>1. i \in (last + 3 + 1)..(last + 3 + q) /\ last + 3 \in Nat
            BY <1>1, <1>8, <2>4
        <3>2. HypothesisAt(b, last + 3, w.hypothesis) /\ HypothesisAt(c, last + 3, w.hypothesis)
            BY <1>2 DEF Layout
        <3> QED BY <1>3, <1>6, <3>1, <3>2, SameHypothesis
    <2>5. CASE i > hyp
        <3>1. i \in (hyp + 1)..(hyp + r)
            BY <1>1, <1>8, <2>5
        <3>2. NameAt(b, hyp, w.name) /\ NameAt(c, hyp, w.name)
            BY <1>2 DEF Layout
        <3> QED BY <1>1, <1>3, <1>7, <3>1, <3>2, SameName
    <2> QED BY <1>1, <2>1, <2>2, <2>3, <2>4, <2>5
<1> QED BY <1>1, <1>4, <1>10 DEF Bytes


\* Reading past the end gives zero.
LEMMA ByteNat ==
    ASSUME NEW b \in Seq(Nat), NEW i
    PROVE  Byte(b, i) \in Nat
BY DEF Byte

\* Reading before the end gives the byte.
LEMMA ByteHere ==
    ASSUME NEW b, NEW n \in Nat, Bytes(b, n), NEW i \in 1..n
    PROVE  Byte(b, i) = b[i]
BY DEF Byte, Bytes

\* What is read are numbers, and the places follow one another.
LEMMA PlacesRead ==
    ASSUME NEW b \in Seq(Nat), CodeIn(b) \in Codes
    PROVE  /\ StepCount(b) \in Nat /\ ActionEnd(b) \in Nat /\ ParamCount(b) \in Nat
           /\ HypothesisEnd(b) \in Nat /\ WishEnd(b) \in Nat
           /\ Arity(CodeIn(b)) \in 3..5
           /\ 7 <= ActionEnd(b) /\ ActionEnd(b) + 4 <= HypothesisEnd(b)
           /\ HypothesisEnd(b) + 1 <= WishEnd(b)
<1>1. StepCount(b) \in Nat /\ ParamCount(b) \in Nat
    BY ByteNat DEF StepCount, ParamCount
<1>2. Arity(CodeIn(b)) \in 3..5
    BY DEF Arity
<1>3. ActionEnd(b) \in Nat /\ 7 <= ActionEnd(b)
    BY <1>1, <1>2 DEF ActionEnd
<1>4. HypothesisEnd(b) \in Nat /\ ActionEnd(b) + 4 <= HypothesisEnd(b)
    BY <1>1, <1>3 DEF HypothesisEnd
<1>5. WishEnd(b) \in Nat /\ HypothesisEnd(b) + 1 <= WishEnd(b)
    BY <1>4 DEF WishEnd
<1> QED BY <1>1, <1>2, <1>3, <1>4, <1>5

\* The action that is read, and where it stands.
LEMMA ActionRead ==
    ASSUME NEW b, NEW end \in Nat, Bytes(b, end), CodeIn(b) \in Codes, ActionEnd(b) <= end
    PROVE  LET a == action_in(b)
           IN /\ a \in AnAction /\ a.code = CodeIn(b) /\ Len(a.args) = Arity(a.code)
              /\ a.code # REVIVE => a.steps = <<>>
              /\ ActionEnd(b) = 4 + ActionLength(a)
              /\ ActionAt(b, 4, a)
<1>1. PICK a : a = action_in(b)
    OBVIOUS
<1>2. PICK c : c = CodeIn(b)
    OBVIOUS
<1>3. PICK n : n = StepCount(b)
    OBVIOUS
<1>4. PICK last : last = ActionEnd(b)
    OBVIOUS
<1>5. b \in Seq(Nat)
    BY DEF Bytes
<1>6. n \in Nat /\ last \in Nat /\ Arity(c) \in 3..5 /\ 7 <= last /\ last <= end
    BY <1>2, <1>3, <1>4, <1>5, PlacesRead
<1>7. \A i \in 1..end : Byte(b, i) = b[i]
    BY ByteHere
<1>8. a.code = c /\ c \in Codes
    BY <1>1, <1>2 DEF action_in
<1>9. a.steps = [i \in 1..n |-> <<Byte(b, 6 + 2 * i), Byte(b, 7 + 2 * i)>>]
    BY <1>1, <1>3 DEF action_in
<1>10. a.steps \in Seq(Nat \X Nat) /\ Len(a.steps) = n
    <2>1. \A i \in 1..n : <<Byte(b, 6 + 2 * i), Byte(b, 7 + 2 * i)>> \in Nat \X Nat
        BY <1>5, ByteNat
    <2>2. a.steps \in [1..n -> Nat \X Nat]
        BY <1>9, <2>1
    <2> QED BY <1>6, <2>2
<1>11. CASE c = REVIVE
    <2>1. a.args = <<Byte(b, 5), Byte(b, 6), Byte(b, last - 1), Byte(b, last)>>
        BY <1>1, <1>2, <1>4, <1>11 DEF action_in
    <2>2. Byte(b, 5) \in Nat /\ Byte(b, 6) \in Nat /\ Byte(b, last - 1) \in Nat /\ Byte(b, last) \in Nat
        BY <1>5, ByteNat
    <2>3. a.args \in Seq(Nat) /\ Len(a.args) = 4
        BY <2>1, <2>2
    <2>4. Arity(c) = 4
        BY <1>11 DEF Arity, REVIVE
    <2>5. last = 9 + 2 * n
        BY <1>2, <1>3, <1>4, <1>6, <1>11, <2>4 DEF ActionEnd
    <2>6. ActionLength(a) = 5 + 2 * n
        BY <1>6, <1>8, <1>10, <1>11, <2>4 DEF ActionLength
    <2>7. n = Byte(b, 7)
        BY <1>2, <1>3, <1>11 DEF StepCount
    <2>8. /\ b[5] = a.args[1] /\ b[6] = a.args[2] /\ b[7] = n
          /\ b[8 + 2 * n] = a.args[3] /\ b[9 + 2 * n] = a.args[4]
        <3>1. /\ 5 \in 1..end /\ 6 \in 1..end /\ 7 \in 1..end /\ last - 1 \in 1..end /\ last \in 1..end
              /\ last - 1 = 8 + 2 * n
            BY <1>6, <2>5
        <3> QED BY <1>7, <2>1, <2>5, <2>7, <3>1
    <2>9. ASSUME NEW i \in 1..n
          PROVE  b[6 + 2 * i] = a.steps[i][1] /\ b[7 + 2 * i] = a.steps[i][2]
        <3>1. 6 + 2 * i \in 1..end /\ 7 + 2 * i \in 1..end
            BY <1>6, <2>5
        <3> QED BY <1>7, <1>9, <3>1
    <2>10. ActionAt(b, 4, a)
        <3>1. /\ 4 + 1 = 5 /\ 4 + 2 = 6 /\ 4 + 3 = 7 /\ 4 + 4 + 2 * n = 8 + 2 * n
              /\ 4 + 5 + 2 * n = 9 + 2 * n
            BY <1>6
        <3>2. \A i \in 1..n : 4 + 2 + 2 * i = 6 + 2 * i /\ 4 + 3 + 2 * i = 7 + 2 * i
            BY <1>6
        <3> QED BY <1>8, <1>10, <1>11, <2>8, <2>9, <3>1, <3>2 DEF ActionAt
    <2>11. a \in AnAction
        BY <1>1, <1>8, <1>10, <2>3 DEF AnAction, action_in
    <2>12. last = 4 + ActionLength(a)
        BY <1>6, <2>5, <2>6
    <2> QED BY <1>1, <1>2, <1>4, <1>8, <1>11, <2>3, <2>4, <2>10, <2>11, <2>12
<1>12. CASE c # REVIVE
    <2>1. a.args = [i \in 1..Arity(c) |-> Byte(b, 4 + i)]
        BY <1>1, <1>2, <1>12 DEF action_in
    <2>2. a.args \in [1..Arity(c) -> Nat]
        BY <1>5, <2>1, ByteNat
    <2>3. a.args \in Seq(Nat) /\ Len(a.args) = Arity(c)
        BY <1>6, <2>2
    <2>4. n = 0
        BY <1>2, <1>3, <1>12 DEF StepCount
    <2>5. a.steps = <<>>
        BY <1>10, <2>4
    <2>6. last = 4 + Arity(c)
        BY <1>2, <1>4, <1>6, <1>12 DEF ActionEnd
    <2>7. ActionLength(a) = Arity(c)
        BY <1>6, <1>8, <1>12 DEF ActionLength
    <2>8. ASSUME NEW i \in 1..Arity(c)
          PROVE  b[4 + i] = a.args[i]
        <3>1. 4 + i \in 1..end
            BY <1>6, <2>6
        <3> QED BY <1>7, <2>1, <3>1
    <2>9. ActionAt(b, 4, a)
        BY <1>8, <1>12, <2>8 DEF ActionAt
    <2>10. a \in AnAction
        BY <1>1, <1>8, <1>10, <2>3 DEF AnAction, action_in
    <2> QED BY <1>1, <1>2, <1>4, <1>8, <1>12, <2>3, <2>5, <2>6, <2>7, <2>9, <2>10
<1> QED BY <1>11, <1>12

\* The hypothesis that is read.
LEMMA HypothesisIsRead ==
    ASSUME NEW b, NEW end \in Nat, Bytes(b, end), CodeIn(b) \in Codes, HypothesisEnd(b) <= end,
           HasHypothesis(b) \in 0..1
    PROVE  LET h == hypothesis_in(b)
           IN /\ h \in SUBSET AHypothesis /\ IsOption(h)
              /\ HypothesisEnd(b) = ActionEnd(b) + 3 + HypothesisLength(h)
              /\ HypothesisAt(b, ActionEnd(b) + 3, h)
<1>1. PICK h : h = hypothesis_in(b)
    OBVIOUS
<1>2. PICK last : last = ActionEnd(b)
    OBVIOUS
<1>3. PICK n : n = ParamCount(b)
    OBVIOUS
<1>4. b \in Seq(Nat)
    BY DEF Bytes
<1>5. n \in Nat /\ last \in Nat /\ HypothesisEnd(b) \in Nat /\ last + 4 <= end
    BY <1>2, <1>3, <1>4, PlacesRead
<1>6. \A i \in 1..end : Byte(b, i) = b[i]
    BY ByteHere
<1>7. HasHypothesis(b) = b[last + 4]
    <2>1. last + 4 \in 1..end
        BY <1>5
    <2> QED BY <1>2, <1>6, <2>1 DEF HasHypothesis
<1>8. last + 3 + 1 = last + 4 /\ last + 3 + 2 = last + 5 /\ last + 3 + 3 = last + 6
    BY <1>5
<1>9. CASE HasHypothesis(b) = 0
    <2>1. h = {}
        BY <1>1, <1>9 DEF hypothesis_in
    <2>2. HypothesisEnd(b) = last + 4
        BY <1>2, <1>5, <1>9 DEF HypothesisEnd
    <2>3. HypothesisLength(h) = 1 /\ last + 4 = last + 3 + 1
        BY <1>5, <2>1 DEF HypothesisLength
    <2>4. HypothesisAt(b, last + 3, h)
        BY <1>7, <1>8, <1>9, <2>1 DEF HypothesisAt
    <2>5. IsOption(h) /\ h \in SUBSET AHypothesis
        BY <2>1 DEF IsOption
    <2> QED BY <1>1, <1>2, <2>2, <2>3, <2>4, <2>5
<1>10. CASE HasHypothesis(b) = 1
    <2>1. PICK x : x = [template |-> Byte(b, last + 5),
                        params |-> [i \in 1..n |-> Byte(b, last + 6 + i)]]
        OBVIOUS
    <2>2. h = {x}
        BY <1>1, <1>2, <1>3, <1>10, <2>1 DEF hypothesis_in
    <2>3. (CHOOSE y \in h : TRUE) = x
        BY <2>2
    <2>4. x.params = [i \in 1..n |-> Byte(b, last + 6 + i)] /\ x.template = Byte(b, last + 5)
        BY <2>1
    <2>5. x.params \in Seq(Nat) /\ Len(x.params) = n
        <3>1. x.params \in [1..n -> Nat]
            BY <1>4, <2>4, ByteNat
        <3> QED BY <1>5, <3>1
    <2>6. HypothesisEnd(b) = last + 6 + n
        BY <1>2, <1>3, <1>5, <1>10 DEF HypothesisEnd
    <2>7. HypothesisLength(h) = 3 + n
        BY <2>2, <2>3, <2>5 DEF HypothesisLength
    <2>8. last + 5 \in 1..end /\ last + 6 \in 1..end
        BY <1>5, <2>6
    <2>9. n = Byte(b, last + 6)
        BY <1>2, <1>3, <1>10 DEF ParamCount
    <2>10. b[last + 4] = 1 /\ b[last + 5] = x.template /\ b[last + 6] = n
        BY <1>6, <1>7, <1>10, <2>4, <2>8, <2>9
    <2>11. ASSUME NEW i \in 1..n
           PROVE  b[last + 3 + 3 + i] = x.params[i]
        <3>1. last + 6 + i \in 1..end /\ last + 6 + i = last + 3 + 3 + i
            BY <1>5, <2>6
        <3> QED BY <1>6, <2>4, <3>1
    <2>12. HypothesisAt(b, last + 3, h)
        BY <1>8, <2>2, <2>3, <2>5, <2>10, <2>11 DEF HypothesisAt
    <2>13. h \in SUBSET AHypothesis
        <3>1. x.template \in Nat
            BY <1>4, <2>4, ByteNat
        <3> QED BY <2>1, <2>2, <2>5, <3>1 DEF AHypothesis
    <2>14. IsOption(h)
        BY <2>2 DEF IsOption
    <2>15. last + 6 + n = last + 3 + (3 + n)
        BY <1>5
    <2> QED BY <1>1, <1>2, <2>6, <2>7, <2>12, <2>13, <2>14, <2>15
<1> QED BY <1>9, <1>10

\* The name that is read.
LEMMA NameIsRead ==
    ASSUME NEW b, Bytes(b, WishEnd(b)), CodeIn(b) \in Codes, HasName(b) \in 0..1
    PROVE  LET name == name_in(b)
           IN /\ name \in SUBSET (Nat \X Nat) /\ IsOption(name)
              /\ WishEnd(b) = HypothesisEnd(b) + NameLength(name)
              /\ NameAt(b, HypothesisEnd(b), name)
<1>1. PICK name : name = name_in(b)
    OBVIOUS
<1>2. PICK hyp : hyp = HypothesisEnd(b)
    OBVIOUS
<1>3. PICK end : end = WishEnd(b)
    OBVIOUS
<1>4. b \in Seq(Nat) /\ Bytes(b, end)
    BY <1>3 DEF Bytes
<1>5. hyp \in Nat /\ end \in Nat /\ hyp + 1 <= end
    BY <1>2, <1>3, <1>4, PlacesRead
<1>6. \A i \in 1..end : Byte(b, i) = b[i]
    BY <1>4, <1>5, ByteHere
<1>7. HasName(b) = b[hyp + 1]
    <2>1. hyp + 1 \in 1..end
        BY <1>5
    <2> QED BY <1>2, <1>6, <2>1 DEF HasName
<1>8. CASE HasName(b) = 0
    <2>1. name = {}
        BY <1>1, <1>8 DEF name_in
    <2>2. end = hyp + 1
        BY <1>2, <1>3, <1>5, <1>8 DEF WishEnd
    <2>3. NameAt(b, hyp, name)
        BY <1>7, <1>8, <2>1 DEF NameAt
    <2> QED BY <1>1, <1>2, <1>3, <2>1, <2>2, <2>3 DEF IsOption, NameLength
<1>9. CASE HasName(b) = 1
    <2>1. PICK x : x = <<Byte(b, hyp + 2), Byte(b, hyp + 3)>>
        OBVIOUS
    <2>2. name = {x}
        BY <1>1, <1>2, <1>9, <2>1 DEF name_in
    <2>3. (CHOOSE y \in name : TRUE) = x
        BY <2>2
    <2>4. end = hyp + 3
        BY <1>2, <1>3, <1>5, <1>9 DEF WishEnd
    <2>5. hyp + 2 \in 1..end /\ hyp + 3 \in 1..end
        BY <1>5, <2>4
    <2>6. b[hyp + 1] = 1 /\ b[hyp + 2] = x[1] /\ b[hyp + 3] = x[2]
        BY <1>6, <1>7, <1>9, <2>1, <2>5
    <2>7. NameAt(b, hyp, name)
        BY <2>2, <2>3, <2>6 DEF NameAt
    <2>8. x \in Nat \X Nat
        BY <1>4, <2>1, ByteNat
    <2>9. name \in SUBSET (Nat \X Nat) /\ IsOption(name)
        BY <2>2, <2>8 DEF IsOption
    <2>10. NameLength(name) = 3
        BY <2>2 DEF NameLength
    <2> QED BY <1>1, <1>2, <1>3, <2>4, <2>7, <2>9, <2>10
<1> QED BY <1>8, <1>9

\* Whatever bytes are read as a wish are laid out as that wish's.
LEMMA ReadIsLaidOut ==
    ASSUME NEW b \in Seq(Nat), Readable(b)
    PROVE  /\ IsWish(wish_in(b))
           /\ Layout(b, wish_in(b), ActionEnd(b), HypothesisEnd(b), WishEnd(b))
<1>1. PICK w : w = wish_in(b)
    OBVIOUS
<1>2. PICK last : last = ActionEnd(b)
    OBVIOUS
<1>3. PICK hyp : hyp = HypothesisEnd(b)
    OBVIOUS
<1>4. PICK end : end = WishEnd(b)
    OBVIOUS
<1>5. /\ Byte(b, 1) = VERSION /\ CodeIn(b) \in Codes /\ HasHypothesis(b) \in 0..1
      /\ HasName(b) \in 0..1 /\ Len(b) = end /\ InRange(action_in(b))
    BY <1>4 DEF Readable, Whole
<1>6. last \in Nat /\ hyp \in Nat /\ end \in Nat /\ 7 <= last /\ last + 4 <= hyp /\ hyp + 1 <= end
    BY <1>2, <1>3, <1>4, <1>5, PlacesRead
<1>7. Bytes(b, end)
    BY <1>5 DEF Bytes
<1>8. \A i \in 1..end : Byte(b, i) = b[i]
    BY <1>6, <1>7, ByteHere
<1>9. /\ w.world = Byte(b, 2) /\ w.ruleset = Byte(b, 3) /\ w.action = action_in(b)
      /\ w.author = Byte(b, last + 1) /\ w.created = Byte(b, last + 2)
      /\ w.expires = Byte(b, last + 3)
      /\ w.hypothesis = hypothesis_in(b) /\ w.name = name_in(b)
    BY <1>1, <1>2 DEF wish_in
<1>10. /\ w.action \in AnAction /\ w.action.code = CodeIn(b)
       /\ Len(w.action.args) = Arity(w.action.code)
       /\ w.action.code # REVIVE => w.action.steps = <<>>
       /\ last = 4 + ActionLength(w.action)
       /\ ActionAt(b, 4, w.action)
    <2>1. ActionEnd(b) <= end
        BY <1>2, <1>6
    <2> QED BY <1>2, <1>5, <1>6, <1>7, <1>9, <2>1, ActionRead
<1>11. /\ w.hypothesis \in SUBSET AHypothesis /\ IsOption(w.hypothesis)
       /\ hyp = last + 3 + HypothesisLength(w.hypothesis)
       /\ HypothesisAt(b, last + 3, w.hypothesis)
    <2>1. HypothesisEnd(b) <= end
        BY <1>3, <1>6
    <2> QED BY <1>2, <1>3, <1>5, <1>6, <1>7, <1>9, <2>1, HypothesisIsRead
<1>12. /\ w.name \in SUBSET (Nat \X Nat) /\ IsOption(w.name)
       /\ end = hyp + NameLength(w.name)
       /\ NameAt(b, hyp, w.name)
    BY <1>3, <1>4, <1>5, <1>7, <1>9, NameIsRead
<1>13. /\ w.world \in Nat /\ w.ruleset \in Nat /\ w.author \in Nat /\ w.created \in Nat
       /\ w.expires \in Nat
    BY <1>9, ByteNat
<1>14. b[1] = VERSION /\ b[2] = w.world /\ b[3] = w.ruleset /\ b[4] = w.action.code
    <2>1. 1 \in 1..end /\ 2 \in 1..end /\ 3 \in 1..end /\ 4 \in 1..end
        BY <1>6
    <2> QED BY <1>5, <1>8, <1>9, <1>10, <2>1 DEF CodeIn
<1>15. b[last + 1] = w.author /\ b[last + 2] = w.created /\ b[last + 3] = w.expires
    <2>1. last + 1 \in 1..end /\ last + 2 \in 1..end /\ last + 3 \in 1..end
        BY <1>6
    <2> QED BY <1>8, <1>9, <2>1
<1>16. Layout(b, w, last, hyp, end)
    BY <1>6, <1>7, <1>10, <1>11, <1>12, <1>14, <1>15 DEF Layout
<1>17. IsWish(w)
    <2>1. w = [world |-> w.world, ruleset |-> w.ruleset, action |-> w.action,
               author |-> w.author, created |-> w.created, expires |-> w.expires,
               hypothesis |-> w.hypothesis, name |-> w.name]
        BY <1>1 DEF wish_in
    <2>2. w \in [world : Nat, ruleset : Nat, author : Nat, created : Nat, expires : Nat,
                 action : AnAction, hypothesis : SUBSET AHypothesis, name : SUBSET (Nat \X Nat)]
        BY <1>10, <1>11, <1>12, <1>13, <2>1
    <2> QED BY <1>5, <1>9, <1>10, <1>11, <1>12, <2>2 DEF IsWish, AnAction, AHypothesis
<1> QED BY <1>1, <1>2, <1>3, <1>4, <1>16, <1>17

\* A sequence of four numbers is their tuple.
LEMMA FourArgs ==
    ASSUME NEW s \in Seq(Nat), Len(s) = 4
    PROVE  s = <<s[1], s[2], s[3], s[4]>>
OBVIOUS

\* What is laid out as a valid wish is read as that wish.
LEMMA LaidOutIsRead ==
    ASSUME NEW w, IsWish(w), check(w), NEW b, NEW last, NEW hyp, NEW end,
           Layout(b, w, last, hyp, end)
    PROVE  Readable(b) /\ wish_in(b) = w
<1>1. /\ w.action \in AnAction /\ w.hypothesis \in SUBSET AHypothesis
      /\ w.name \in SUBSET (Nat \X Nat) /\ IsOption(w.hypothesis) /\ IsOption(w.name)
      /\ Len(w.action.args) = Arity(w.action.code)
      /\ w.action.code # REVIVE => w.action.steps = <<>>
      /\ InRange(w.action)
    BY DEF IsWish, AnAction, AHypothesis
<1>2. PICK a : a = w.action
    OBVIOUS
<1>3. PICK n : n = Len(a.steps)
    OBVIOUS
<1>4. /\ a.code \in Codes /\ a.args \in Seq(Nat) /\ a.steps \in Seq(Nat \X Nat) /\ n \in Nat
      /\ Len(a.args) = Arity(a.code) /\ Arity(a.code) \in 3..5
    BY <1>1, <1>2, <1>3 DEF AnAction, Arity
<1>5. last \in Nat /\ hyp \in Nat /\ end \in Nat
    BY DEF Layout
<1>6. last = 4 + ActionLength(a) /\ hyp = last + 3 + HypothesisLength(w.hypothesis)
      /\ end = hyp + NameLength(w.name)
    BY <1>2 DEF Layout
<1>7. Bytes(b, end) /\ b \in Seq(Nat) /\ Len(b) = end
    BY DEF Layout, Bytes
<1>8. ActionLength(a) = Arity(a.code) + IF a.code = REVIVE THEN 1 + 2 * n ELSE 0
    BY <1>3 DEF ActionLength
<1>9. 7 <= last
    BY <1>4, <1>6, <1>8
<1>10. NameLength(w.name) \in Nat /\ HypothesisLength(w.hypothesis) \in Nat
       /\ 1 <= HypothesisLength(w.hypothesis) /\ 1 <= NameLength(w.name)
    <2>1. HypothesisLength(w.hypothesis) \in Nat /\ HypothesisLength(w.hypothesis) > 0
        BY <1>1, HypothesisBytes
    <2> QED BY <2>1 DEF NameLength
<1>11. last + 4 <= hyp /\ hyp + 1 <= end
    BY <1>5, <1>6, <1>10
<1>12. \A i \in 1..end : Byte(b, i) = b[i]
    BY <1>5, <1>7, ByteHere
<1>13. /\ Byte(b, 1) = VERSION /\ Byte(b, 2) = w.world /\ Byte(b, 3) = w.ruleset
       /\ CodeIn(b) = a.code
    <2>1. 1 \in 1..end /\ 2 \in 1..end /\ 3 \in 1..end /\ 4 \in 1..end
        BY <1>5, <1>9, <1>11
    <2>2. b[1] = VERSION /\ b[2] = w.world /\ b[3] = w.ruleset /\ b[4] = a.code
        BY <1>2 DEF Layout
    <2> QED BY <1>12, <2>1, <2>2 DEF CodeIn
<1>14. ActionAt(b, 4, a)
    BY <1>2 DEF Layout
<1>15. StepCount(b) = n /\ ActionEnd(b) = last /\ action_in(b) = a
    <2>1. a = [code |-> a.code, args |-> a.args, steps |-> a.steps]
        BY <1>1, <1>2 DEF AnAction
    <2>2. CASE a.code = REVIVE
        <3>1. Arity(a.code) = 4
            BY <2>2 DEF Arity, REVIVE
        <3>2. last = 9 + 2 * n
            BY <1>4, <1>6, <1>8, <2>2, <3>1
        <3>3. /\ b[5] = a.args[1] /\ b[6] = a.args[2] /\ b[7] = n
              /\ b[8 + 2 * n] = a.args[3] /\ b[9 + 2 * n] = a.args[4]
              /\ \A i \in 1..n : b[6 + 2 * i] = a.steps[i][1] /\ b[7 + 2 * i] = a.steps[i][2]
            <4>1. /\ 4 + 1 = 5 /\ 4 + 2 = 6 /\ 4 + 3 = 7 /\ 4 + 4 + 2 * n = 8 + 2 * n
                  /\ 4 + 5 + 2 * n = 9 + 2 * n
                BY <1>4
            <4>2. \A i \in 1..n : 4 + 2 + 2 * i = 6 + 2 * i /\ 4 + 3 + 2 * i = 7 + 2 * i
                BY <1>4
            <4> QED BY <1>3, <1>14, <2>2, <4>1, <4>2 DEF ActionAt
        <3>4. Byte(b, 5) = a.args[1] /\ Byte(b, 6) = a.args[2] /\ Byte(b, 7) = n
              /\ Byte(b, last - 1) = a.args[3] /\ Byte(b, last) = a.args[4]
            <4>1. /\ 5 \in 1..end /\ 6 \in 1..end /\ 7 \in 1..end /\ last - 1 \in 1..end
                  /\ last \in 1..end /\ last - 1 = 8 + 2 * n
                BY <1>4, <1>5, <1>9, <1>11, <3>2
            <4> QED BY <1>12, <3>2, <3>3, <4>1
        <3>5. StepCount(b) = n
            BY <1>13, <2>2, <3>4 DEF StepCount
        <3>6. ActionEnd(b) = last
            BY <1>4, <1>13, <2>2, <3>1, <3>2, <3>5 DEF ActionEnd
        <3>7. a.args = <<a.args[1], a.args[2], a.args[3], a.args[4]>>
            BY <1>4, <3>1, FourArgs
        <3>8. a.steps = [i \in 1..n |-> <<Byte(b, 6 + 2 * i), Byte(b, 7 + 2 * i)>>]
            <4>1. ASSUME NEW i \in 1..n
                  PROVE  a.steps[i] = <<Byte(b, 6 + 2 * i), Byte(b, 7 + 2 * i)>>
                <5>1. 6 + 2 * i \in 1..end /\ 7 + 2 * i \in 1..end
                    BY <1>4, <1>5, <1>11, <3>2
                <5>2. a.steps[i] = <<a.steps[i][1], a.steps[i][2]>>
                    BY <1>3, <1>4
                <5> QED BY <1>12, <3>3, <5>1, <5>2
            <4>2. a.steps = [i \in 1..n |-> a.steps[i]]
                BY <1>3, <1>4
            <4> QED BY <4>1, <4>2
        <3> QED BY <1>13, <2>1, <2>2, <3>4, <3>5, <3>6, <3>7, <3>8 DEF action_in
    <2>3. CASE a.code # REVIVE
        <3>1. n = 0 /\ a.steps = <<>>
            BY <1>1, <1>2, <1>3, <2>3
        <3>2. StepCount(b) = 0
            BY <1>13, <2>3 DEF StepCount
        <3>3. last = 4 + Arity(a.code) /\ ActionEnd(b) = last
            BY <1>4, <1>6, <1>8, <1>13, <2>3 DEF ActionEnd
        <3>4. a.args = [i \in 1..Arity(a.code) |-> Byte(b, 4 + i)]
            <4>1. ASSUME NEW i \in 1..Arity(a.code)
                  PROVE  a.args[i] = Byte(b, 4 + i)
                <5>1. 4 + i \in 1..end
                    BY <1>4, <1>5, <1>11, <3>3
                <5>2. b[4 + i] = a.args[i]
                    BY <1>14, <2>3 DEF ActionAt
                <5> QED BY <1>12, <5>1, <5>2
            <4>2. a.args = [i \in 1..Arity(a.code) |-> a.args[i]]
                BY <1>4
            <4> QED BY <4>1, <4>2
        <3>5. [i \in 1..StepCount(b) |-> <<Byte(b, 6 + 2 * i), Byte(b, 7 + 2 * i)>>] = <<>>
            BY <3>2
        <3> QED BY <1>13, <2>1, <2>3, <3>1, <3>2, <3>3, <3>4, <3>5 DEF action_in
    <2> QED BY <2>2, <2>3
<1>16. /\ Byte(b, last + 1) = w.author /\ Byte(b, last + 2) = w.created
       /\ Byte(b, last + 3) = w.expires
    <2>1. last + 1 \in 1..end /\ last + 2 \in 1..end /\ last + 3 \in 1..end
        BY <1>5, <1>11
    <2>2. b[last + 1] = w.author /\ b[last + 2] = w.created /\ b[last + 3] = w.expires
        BY DEF Layout
    <2> QED BY <1>12, <2>1, <2>2
<1>17. /\ HypothesisEnd(b) = hyp /\ hypothesis_in(b) = w.hypothesis /\ HasHypothesis(b) \in 0..1
       /\ ParamCount(b) <= MAX_PARAMS
    <2>1. PICK h : h = w.hypothesis
        OBVIOUS
    <2>2. HypothesisAt(b, last + 3, h)
        BY <2>1 DEF Layout
    <2>3. last + 3 + 1 = last + 4 /\ last + 3 + 2 = last + 5 /\ last + 3 + 3 = last + 6
        BY <1>5
    <2>4. HasHypothesis(b) = b[last + 4]
        <3>1. last + 4 \in 1..end
            BY <1>5, <1>11
        <3> QED BY <1>12, <1>15, <3>1 DEF HasHypothesis
    <2>5. CASE h = {}
        <3>1. HasHypothesis(b) = 0
            BY <2>2, <2>3, <2>4, <2>5 DEF HypothesisAt
        <3>2. HypothesisEnd(b) = last + 4
            BY <1>5, <1>15, <3>1 DEF HypothesisEnd
        <3>3. hyp = last + 4
            BY <1>5, <1>6, <2>1, <2>5 DEF HypothesisLength
        <3>4. hypothesis_in(b) = {}
            BY <3>1 DEF hypothesis_in
        <3>5. ParamCount(b) = 0
            BY <3>1 DEF ParamCount
        <3> QED BY <2>1, <2>5, <3>1, <3>2, <3>3, <3>4, <3>5, WishesAssumption
    <2>6. CASE h # {}
        <3>1. PICK x : x = CHOOSE y \in h : TRUE
            OBVIOUS
        <3>2. h = {x} /\ x \in AHypothesis
            BY <1>1, <2>1, <2>6, <3>1 DEF IsOption
        <3>3. PICK m \in Nat : m = Len(x.params)
            BY <3>2 DEF AHypothesis
        <3>4. /\ b[last + 4] = 1 /\ b[last + 5] = x.template /\ b[last + 6] = m
              /\ \A i \in 1..m : b[last + 3 + 3 + i] = x.params[i]
            BY <2>2, <2>3, <2>6, <3>1, <3>3 DEF HypothesisAt
        <3>5. hyp = last + 6 + m
            <4>1. HypothesisLength(h) = 3 + m
                BY <2>6, <3>1, <3>3 DEF HypothesisLength
            <4>2. HypothesisLength(w.hypothesis) = 3 + m
                BY <2>1, <4>1
            <4>3. hyp = last + 3 + (3 + m)
                BY <1>6, <4>2
            <4> QED BY <1>5, <4>3
        <3>6. Byte(b, last + 5) = x.template /\ Byte(b, last + 6) = m
            <4>1. last + 5 \in 1..end /\ last + 6 \in 1..end
                BY <1>5, <1>11, <3>5
            <4> QED BY <1>12, <3>4, <4>1
        <3>7. HasHypothesis(b) = 1
            BY <2>4, <3>4
        <3>8. ParamCount(b) = m
            BY <1>15, <3>6, <3>7 DEF ParamCount
        <3>9. HypothesisEnd(b) = hyp
            BY <1>5, <1>15, <3>5, <3>7, <3>8 DEF HypothesisEnd
        <3>10. x.params = [i \in 1..m |-> Byte(b, last + 6 + i)]
            <4>1. ASSUME NEW i \in 1..m
                  PROVE  x.params[i] = Byte(b, last + 6 + i)
                <5>1. last + 6 + i \in 1..end /\ last + 6 + i = last + 3 + 3 + i
                    BY <1>5, <1>11, <3>5
                <5> QED BY <1>12, <3>4, <5>1
            <4>2. x.params = [i \in 1..m |-> x.params[i]]
                BY <3>2, <3>3 DEF AHypothesis
            <4> QED BY <4>1, <4>2
        <3>11. x = [template |-> x.template, params |-> x.params]
            BY <3>2 DEF AHypothesis
        <3>12. hypothesis_in(b) = {x}
            BY <1>15, <3>6, <3>7, <3>8, <3>10, <3>11 DEF hypothesis_in
        <3>13. m <= MAX_PARAMS
            BY <2>1, <3>2, <3>3 DEF check
        <3> QED BY <2>1, <3>2, <3>7, <3>8, <3>9, <3>12, <3>13
    <2> QED BY <2>5, <2>6
<1>18. WishEnd(b) = end /\ name_in(b) = w.name /\ HasName(b) \in 0..1
    <2>1. PICK name : name = w.name
        OBVIOUS
    <2>2. NameAt(b, hyp, name)
        BY <2>1 DEF Layout
    <2>3. HasName(b) = b[hyp + 1]
        <3>1. hyp + 1 \in 1..end
            BY <1>5, <1>11
        <3> QED BY <1>12, <1>17, <3>1 DEF HasName
    <2>4. CASE name = {}
        <3>1. HasName(b) = 0
            BY <2>2, <2>3, <2>4 DEF NameAt
        <3>2. WishEnd(b) = hyp + 1
            BY <1>5, <1>17, <3>1 DEF WishEnd
        <3>3. end = hyp + 1
            BY <1>6, <2>1, <2>4 DEF NameLength
        <3> QED BY <2>1, <2>4, <3>1, <3>2, <3>3 DEF name_in
    <2>5. CASE name # {}
        <3>1. PICK x : x = CHOOSE y \in name : TRUE
            OBVIOUS
        <3>2. name = {x} /\ x \in Nat \X Nat
            BY <1>1, <2>1, <2>5, <3>1 DEF IsOption
        <3>3. b[hyp + 1] = 1 /\ b[hyp + 2] = x[1] /\ b[hyp + 3] = x[2]
            BY <2>2, <2>5, <3>1 DEF NameAt
        <3>4. end = hyp + 3
            BY <1>6, <2>1, <2>5 DEF NameLength
        <3>5. Byte(b, hyp + 2) = x[1] /\ Byte(b, hyp + 3) = x[2]
            <4>1. hyp + 2 \in 1..end /\ hyp + 3 \in 1..end
                BY <1>5, <3>4
            <4> QED BY <1>12, <3>3, <4>1
        <3>6. HasName(b) = 1
            BY <2>3, <3>3
        <3>7. WishEnd(b) = hyp + 3
            BY <1>5, <1>17, <3>6 DEF WishEnd
        <3>8. name_in(b) = {<<x[1], x[2]>>}
            BY <1>17, <3>5, <3>6 DEF name_in
        <3>9. x = <<x[1], x[2]>>
            BY <3>2
        <3> QED BY <2>1, <3>2, <3>4, <3>6, <3>7, <3>8, <3>9
    <2> QED BY <2>4, <2>5
<1>19. wish_in(b) = w
    <2>1. w = [world |-> w.world, ruleset |-> w.ruleset, action |-> w.action,
               author |-> w.author, created |-> w.created, expires |-> w.expires,
               hypothesis |-> w.hypothesis, name |-> w.name]
        BY DEF IsWish
    <2> QED BY <1>2, <1>13, <1>15, <1>16, <1>17, <1>18, <2>1 DEF wish_in
<1>20. StepCount(b) <= 2
    BY <1>1, <1>2, <1>3, <1>15 DEF check
<1>21. Readable(b)
    BY <1>1, <1>2, <1>4, <1>7, <1>13, <1>15, <1>17, <1>18, <1>19, <1>20 DEF Readable, Whole
<1> QED BY <1>19, <1>21

\* Every valid wish is read back from its bytes as it was written ...
THEOREM WishesAreReadBack ==
    ASSUME NEW w, IsWish(w), check(w)
    PROVE  from_bytes(to_bytes(w)) = {w}
<1>1. PICK last, hyp, end : Layout(to_bytes(w), w, last, hyp, end)
    BY BytesAreLaidOut
<1> QED BY <1>1, LaidOutIsRead DEF from_bytes

\* ... and whatever bytes are read as a wish are the bytes of that wish.
THEOREM WishesHaveTheirBytesOnly ==
    ASSUME NEW b \in Seq(Nat), NEW x \in from_bytes(b)
    PROVE  to_bytes(x) = b /\ IsWish(x) /\ check(x)
<1>1. Readable(b) /\ x = wish_in(b)
    BY DEF from_bytes
<1>2. IsWish(x) /\ Layout(b, x, ActionEnd(b), HypothesisEnd(b), WishEnd(b))
    BY <1>1, ReadIsLaidOut
<1>3. PICK last, hyp, end : Layout(to_bytes(x), x, last, hyp, end)
    BY <1>2, BytesAreLaidOut
<1>4. to_bytes(x) = b
    BY <1>2, <1>3, OneLayout, WishHasFields
<1> QED BY <1>1, <1>2, <1>4 DEF Readable

\* So it is for the wishes tried, and the bytes near theirs.
LEMMA FormsHold == WishesHaveOneForm
<1>1. ASSUME NEW w \in Tried, check(w), NEW bytes \in Near(to_bytes(w))
      PROVE  bytes \in Seq(Nat)
    <2>1. IsWish(w)
        BY WishesAssumption
    <2>2. PICK last, hyp, end : Layout(to_bytes(w), w, last, hyp, end)
        BY <2>1, BytesAreLaidOut
    <2>3. PICK b : b = to_bytes(w)
        OBVIOUS
    <2>4. b \in Seq(Nat)
        BY <2>2, <2>3 DEF Layout, Bytes
    <2>5. Values \subseteq Nat
        BY WishesAssumption
    <2>6. bytes \in Near(b)
        BY <2>3
    <2>7. ASSUME NEW i \in DOMAIN b, NEW v \in Values, bytes = [b EXCEPT ![i] = v]
          PROVE  bytes \in Seq(Nat)
        <3>1. v \in Nat
            BY <2>5
        <3> QED BY <2>4, <2>7, <3>1
    <2>8. ASSUME NEW i \in 0..Len(b), bytes = SubSeq(b, 1, i)
          PROVE  bytes \in Seq(Nat)
        BY <2>4, <2>8
    <2>9. ASSUME NEW v \in Values, bytes = Append(b, v)
          PROVE  bytes \in Seq(Nat)
        <3>1. v \in Nat
            BY <2>5
        <3> QED BY <2>4, <2>9, <3>1
    <2> QED BY <2>6, <2>7, <2>8, <2>9 DEF Near
<1>2. \A w \in Tried : IsWish(w)
    BY WishesAssumption
<1> QED BY <1>1, <1>2, WishesAreReadBack, WishesHaveTheirBytesOnly DEF WishesHaveOneForm

\* A wish has one form in bytes, whatever the limits on its lifetime, its gift and its
\* parameters, and whatever wishes and bytes are tried.
THEOREM WishesKeepOneForm == Safe => []WishFormsHold
<1>1. WishFormsHold
    BY FormsHold DEF WishFormsHold
<1> QED BY <1>1, PTL

=============================================================================
