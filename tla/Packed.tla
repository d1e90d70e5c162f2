------------------------------- MODULE Packed -------------------------------
(***************************************************************************)
(* The spark log of a closed epoch in one blob (server/src/packed.rs):     *)
(* the format that is written, version 2, and version 1, which is still    *)
(* read.                                                                   *)
(*                                                                         *)
(* A blob is a sequence of bytes.  A byte carries Half values in a varint  *)
(* (2^7), RawBytes of them a nonce (8); a wish id or a miner key written   *)
(* out, 32 bytes, is one element above the bytes.                          *)
(***************************************************************************)
EXTENDS Integers, FiniteSets, Sequences, SequencesExt, FiniteSetsExt

CONSTANTS Half, RawBytes,
          Far    \* a step pos least this long opens a new lane (2^32)

Byte == 2 * Half
Word == Byte ^ RawBytes

ASSUME PackedAssumption ==
    /\ Half \in Nat \ {0, 1} /\ RawBytes \in Nat \ {0}
    /\ Far \in 1..(Word \div 2)

\* What cannot be read is nowhere.
None == [value |-> 0, pos |-> 0]
Missing(x) == x.pos = 0
Something(value, pos) == [value |-> value, pos |-> pos]

-----------------------------------------------------------------------------
(* Numbers. *)
put[v \in Nat] == IF v < Half THEN <<v>> ELSE <<(v % Half) + Half>> \o put[v \div Half]

Groups == Len(put[Word - 1])

\* The number that digits write in a base, the lowest first.
Number(digits, base) ==
    LET above[k \in 1..Len(digits) + 1] ==
            IF k > Len(digits) THEN 0 ELSE above[k + 1] * base + (digits[k] % base)
    IN above[1]

\* The varint at a place, and the place after it.
take(b, pos) ==
    LET ends == {k \in pos..Len(b) : b[k] < Half}
        digits == SubSeq(b, pos, Min(ends))
    IN IF ends = {} THEN None
       ELSE IF Len(digits) > Groups THEN None
       ELSE Something(Number(digits, Half) % Word, Min(ends) + 1)

raw(nonce) == [k \in 1..RawBytes |-> (nonce \div (Byte ^ (k - 1))) % Byte]
take64(b, pos) ==
    IF pos + RawBytes - 1 > Len(b) THEN None
    ELSE Something(Number(SubSeq(b, pos, pos + RawBytes - 1), Byte), pos + RawBytes)

take32(b, pos) == IF pos > Len(b) THEN None ELSE Something(b[pos] - Byte, pos + 1)

Signed(d) == IF d % Word < Word \div 2 THEN d % Word ELSE (d % Word) - Word
zigzag(step) == IF step >= 0 THEN 2 * step ELSE -2 * step - 1
UnzigzagOff(v) == IF v % 2 = 0 THEN v \div 2 ELSE -(v \div 2)
unzigzag(v) == IF v % 2 = 0 THEN v \div 2 ELSE -((v + 1) \div 2)

-----------------------------------------------------------------------------
(* Lanes: the last nonce of each of a miner's threads. *)
Magnitude(step) == IF step < 0 THEN -step ELSE step

\* The nearest lane below, or the nearest above if that is nearer; 0 for none.
Nearest(last, nonce) ==
    LET below == {k \in DOMAIN last : last[k] <= nonce}
        above == {k \in DOMAIN last : last[k] >= nonce}
        b == CHOOSE k \in below : \A j \in below : \/ last[j] < last[k]
                                                   \/ (last[j] = last[k] /\ j <= k)
        a == CHOOSE k \in above : \A j \in above : \/ last[k] < last[j]
                                                   \/ (last[j] = last[k] /\ k <= j)
        Step(k) == Magnitude(Signed(nonce - last[k]))
    IN CASE below = {} /\ above = {} -> 0
         [] below = {} /\ above # {} -> a
         [] below # {} /\ above = {} -> b
         [] OTHER -> IF Step(a) < Step(b) THEN a ELSE b

LanePut(last, nonce) ==
    LET k == Nearest(last, nonce)
        step == Signed(nonce - last[k])
    IN IF k > 0 /\ (k > 0 => Magnitude(step) < Far)
       THEN [bytes |-> put[zigzag(step) * (Len(last) + 1) + k], last |-> [last EXCEPT ![k] = nonce]]
       ELSE [bytes |-> put[0] \o raw(nonce), last |-> Append(last, nonce)]

-----------------------------------------------------------------------------
(* A spark is [proposal_id, miner, nonce]. *)
OnePair(s, t) == s.proposal_id = t.proposal_id /\ s.miner = t.miner

\* The runs of one miner for one wish.
Runs(sparks) ==
    LET starts == SelectSeq([i \in DOMAIN sparks |-> i],
                            LAMBDA i : i = 1 \/ (i > 1 /\ ~OnePair(sparks[i - 1], sparks[i])))
    IN [r \in DOMAIN starts |->
            SubSeq(sparks, starts[r], IF r = Len(starts) THEN Len(sparks) ELSE starts[r + 1] - 1)]

\* The members of a sequence, each once, in order of first use.
keys(list) ==
    LET first[i \in 0..Len(list)] ==
            IF i = 0 THEN <<>>
            ELSE IF \E j \in 1..(i - 1) : list[j] = list[i] THEN first[i - 1]
            ELSE Append(first[i - 1], list[i])
    IN first[Len(list)]
Place(list, k) == (CHOOSE i \in DOMAIN list : list[i] = k) - 1

Listed(list) == put[Len(list)] \o FlattenSeq([i \in DOMAIN list |-> put[list[i]]])

pack(sparks, number) ==
    LET wishes == keys([i \in DOMAIN sparks |-> sparks[i].proposal_id])
        miners == keys([i \in DOMAIN sparks |-> sparks[i].miner])
        PutSpark(state, s) ==
            LET lane == LanePut(state.lanes[s.miner], s.nonce)
            IN [bytes |-> state.bytes \o lane.bytes,
                lanes |-> [state.lanes EXCEPT ![s.miner] = lane.last]]
        PutHead(state, r) ==
            [state EXCEPT !.bytes = @ \o put[Len(r)] \o put[Place(wishes, r[1].proposal_id)]
                                      \o put[Place(miners, r[1].miner)]]
        runs == Runs(sparks)
        after[r \in 0..Len(runs)] ==
            IF r = 0 THEN [bytes |-> <<>>, lanes |-> [m \in ToSet(miners) |-> <<>>]]
            ELSE LET within[i \in 0..Len(runs[r])] ==
                         IF i = 0 THEN PutHead(after[r - 1], runs[r])
                         ELSE PutSpark(within[i - 1], runs[r][i])
                 IN within[Len(runs[r])]
        body == after[Len(runs)]
    IN <<2>> \o Listed([i \in DOMAIN wishes |-> number[wishes[i]]])
             \o Listed([i \in DOMAIN miners |-> number[miners[i]]])
             \o put[Len(sparks)] \o body.bytes

-----------------------------------------------------------------------------
(* Reading: a cursor moves over the blob; once something cannot be read it *)
(* is None for good.  names is the dictionary: number |-> hash.            *)
TakeName(b, pos, names) ==
    LET n == take(b, pos)
    IN IF Missing(n) THEN None
       ELSE IF n.value \in DOMAIN names THEN Something(names[n.value], n.pos) ELSE None

\* So many varints one after the other.
TakeMany(b, pos, many) ==
    LET got[i \in 0..many] ==
            IF i = 0 THEN Something(<<>>, pos)
            ELSE LET so_far == got[i - 1]
                     next == take(b, so_far.pos)
                 IN IF Missing(so_far) THEN None
                    ELSE IF Missing(next) THEN None
                    ELSE Something(Append(so_far.value, next.value), next.pos)
    IN got[many]

TakeList(version, b, pos, names) ==
    LET n == take(b, pos)
        More(got) ==
            LET next == IF version = 1 THEN take32(b, got.pos) ELSE TakeName(b, got.pos, names)
            IN IF Missing(next) THEN None
               ELSE Something(Append(got.value, next.value), next.pos)
        got[i \in 0..n.value] ==
            IF i = 0 THEN Something(<<>>, n.pos)
            ELSE IF Missing(got[i - 1]) THEN None ELSE More(got[i - 1])
    IN IF Missing(n) THEN None
       ELSE IF n.value > Len(b) THEN None
       ELSE got[n.value]

Member(list, i) == i + 1 \in DOMAIN list

\* One spark of a run: c is [out, lanes, pos], the miner's lanes move on.
TakeNonce(b, c, wish, m, miner) ==
    LET v == take(b, c.pos)
        base == Len(c.lanes[m]) + 1
        lane == v.value % base
        fresh == take64(b, v.pos)
        moved == (c.lanes[m][lane] + unzigzag(v.value \div base)) % Word
        Out(nonce) == Append(c.out, [proposal_id |-> wish, miner |-> miner, nonce |-> nonce])
    IN CASE Missing(v) -> None
         [] ~Missing(v) /\ v.value = 0 ->
                IF Missing(fresh) THEN None
                ELSE [out |-> Out(fresh.value), pos |-> fresh.pos,
                      lanes |-> [c.lanes EXCEPT ![m] = Append(@, fresh.value)]]
         [] ~Missing(v) /\ v.value # 0 /\ lane = 0 -> None
         [] OTHER -> [out |-> Out(moved), pos |-> v.pos,
                      lanes |-> [c.lanes EXCEPT ![m][lane] = moved]]

\* One run, while the sparks announced are not all read.
TakeRun(b, c, n, wishes, miners) ==
    LET head == TakeMany(b, c.pos, 3)
        length == head.value[1]
        wish == head.value[2]
        m == head.value[3]
        readable == /\ ~Missing(head)
                    /\ length # 0 /\ Len(c.out) + length <= n
                    /\ Member(wishes, wish) /\ Member(miners, m)
        after[i \in 0..length] ==
            IF i = 0 THEN [c EXCEPT !.pos = head.pos]
            ELSE LET so_far == after[i - 1]
                 IN IF Missing(so_far) THEN None
                    ELSE TakeNonce(b, so_far, wishes[wish + 1], m + 1, miners[m + 1])
    IN IF ~readable THEN None ELSE after[length]

\* Version 1: every spark with its wish, its miner and its nonce.
TakeSpark(b, c, wishes, miners) ==
    LET head == TakeMany(b, c.pos, 2)
        wish == head.value[1]
        m == head.value[2]
        nonce == take64(b, head.pos)
        readable == /\ ~Missing(head) /\ Member(wishes, wish) /\ Member(miners, m)
                    /\ ~Missing(nonce)
    IN IF ~readable THEN None
       ELSE [c EXCEPT !.pos = nonce.pos,
                      !.out = Append(@, [proposal_id |-> wishes[wish + 1],
                                         miner |-> miners[m + 1], nonce |-> nonce.value])]

\* The sparks, as many as announced, and where they end.
TakeSparks(version, b, start, n, wishes, miners) ==
    LET More(c) == IF Missing(c) THEN None
                   ELSE IF version = 1 THEN TakeSpark(b, c, wishes, miners)
                   ELSE IF Len(c.out) = n THEN c
                   ELSE TakeRun(b, c, n, wishes, miners)
        after[i \in 0..n] ==
            IF i = 0 THEN [out |-> <<>>, pos |-> start, lanes |-> [m \in DOMAIN miners |-> <<>>]]
            ELSE More(after[i - 1])
    IN after[n]

\* The log that is read, if the blob is one and nothing is left of it.
Unread == {}
WholeLog(b, n, c) ==
    IF Missing(c) THEN Unread
    ELSE IF c.pos = Len(b) + 1 /\ Len(c.out) = n THEN {c.out} ELSE Unread

LogAfter(version, b, wishes, miners, n) ==
    IF Missing(n) \/ n.value > Len(b) THEN Unread
    ELSE WholeLog(b, n.value, TakeSparks(version, b, n.pos, n.value, wishes, miners.value))

unpack(b, names) ==
    LET version == b[1]
        AfterMiners(wishes, miners) ==
            IF Missing(miners) THEN Unread
            ELSE LogAfter(version, b, wishes, miners, take(b, miners.pos))
        AfterWishes(wishes) ==
            IF Missing(wishes) THEN Unread
            ELSE AfterMiners(wishes.value, TakeList(version, b, wishes.pos, names))
    IN IF b = <<>> THEN Unread
       ELSE IF version \notin {1, 2} THEN Unread
       ELSE AfterWishes(TakeList(version, b, 2, names))

-----------------------------------------------------------------------------
(* What is checked. *)
CONSTANT Sparks0   \* the sparks the logs are made of

SmallLogs == SeqOf(Sparks0, 3)

\* A dictionary: wishes and miners by number, here the number plus one.
Numbered == [k \in {s.proposal_id : s \in Sparks0} \cup {s.miner : s \in Sparks0} |-> k + 1]
FromDictionary == [n \in {Numbered[k] : k \in DOMAIN Numbered} |-> n - 1]

\* Version 1, as the head of packed.rs describes it.
Old(sparks) ==
    LET wishes == keys([i \in DOMAIN sparks |-> sparks[i].proposal_id])
        miners == keys([i \in DOMAIN sparks |-> sparks[i].miner])
        Out(list) == put[Len(list)] \o [i \in DOMAIN list |-> Byte + list[i]]
    IN <<1>> \o Out(wishes) \o Out(miners) \o put[Len(sparks)]
             \o FlattenSeq([i \in DOMAIN sparks |-> put[Place(wishes, sparks[i].proposal_id)]
                               \o put[Place(miners, sparks[i].miner)] \o raw(sparks[i].nonce)])

\* What blobs must read as: the log, from either version, and no log at all where
\* the end is lost or has one byte more.
Readings(log, blob) ==
    {<<blob, {log}>>, <<Old(log), {log}>>, <<Append(blob, 0), Unread>>}
        \cup {<<SubSeq(blob, 1, k), Unread>> : k \in 0..(Len(blob) - 1)}

\* A closed log is read back as it was, spark by spark and in its order, from
\* either version; a blob that lost its end or has one byte more is no log.
PackedIsTheLog ==
    \A log \in SmallLogs :
        \A reading \in Readings(log, pack(log, Numbered)) :
            unpack(reading[1], FromDictionary) = reading[2]
=============================================================================
