--------------------------------- MODULE Guard ---------------------------------
(***************************************************************************)
(* The guard before the proof of work (server/src/intake_api.rs, struct    *)
(* Guard): a bucket of tokens for every address, subnet and miner key, and *)
(* the keys and addresses that are banned.                                 *)
(*                                                                         *)
(* A key is <<tag, id>>, its tag "i" for an address, "n" for a subnet and  *)
(* "k" for a miner.  A bucket is [tokens, at]; a key without one has a     *)
(* full bucket.                                                            *)
(***************************************************************************)
EXTENDS Naturals, FiniteSets, Sequences

CONSTANTS
    SizeOf,      \* tag -> tokens of a full bucket (40, 160, 40)
    RefillOf,    \* tag -> tokens that come back in a tick (10, 40, 10 a second)
    MAX_BUCKETS, \* buckets kept before the idle ones are dropped (100,000)
    IDLE,        \* ticks after which a bucket is idle (60 s)
    BAN          \* ticks of a ban (an hour)

ASSUME GuardAssumption ==
    /\ SizeOf \in [{"i", "n", "k"} -> Nat \ {0}]
    /\ RefillOf \in [{"i", "n", "k"} -> Nat]
    /\ MAX_BUCKETS \in Nat /\ IDLE \in Nat /\ BAN \in Nat
    /\ \A tag \in {"i", "n", "k"} : SizeOf[tag] <= IDLE * RefillOf[tag]

Smaller(a, b) == IF a <= b THEN a ELSE b

\* What the bucket of a key holds at a time.
Level(buckets, key, time) ==
    IF key \notin DOMAIN buckets THEN SizeOf[key[1]]
    ELSE Smaller(buckets[key].tokens + (time - buckets[key].at) * RefillOf[key[1]],
                 SizeOf[key[1]])

\* The retain of take: a bucket idle for long enough is full again.
DropIdle(most, buckets, time) ==
    IF Cardinality(DOMAIN buckets) <= most THEN buckets
    ELSE [k \in {j \in DOMAIN buckets : time - buckets[j].at < IDLE} |-> buckets[k]]

\* take: a token if there is one; the bucket is brought up to date either way.
take(most, buckets, key, time) ==
    LET kept == DropIdle(most, buckets, time)
        level == Level(kept, key, time)
    IN [ok |-> level >= 1,
        buckets |-> [k \in DOMAIN kept \cup {key} |->
                        IF k # key THEN kept[k]
                        ELSE [tokens |-> IF level >= 1 THEN level - 1 ELSE level, at |-> time]]]

\* admit: a token from the address, the subnet and the miner, in this order, up to
\* the first that has none.
admit(most, buckets, keys, time) ==
    LET address == take(most, buckets, keys[1], time)
        subnet == take(most, address.buckets, keys[2], time)
        miner == take(most, subnet.buckets, keys[3], time)
    IN IF ~address.ok THEN address ELSE IF ~subnet.ok THEN subnet ELSE miner

\* Bans that have ended are forgotten.
Lasting(banned, time) == [k \in {j \in DOMAIN banned : banned[j] > time} |-> banned[k]]

ban(banned, keys, time) ==
    [k \in DOMAIN banned \cup keys |-> IF k \in keys THEN time + BAN ELSE banned[k]]
=============================================================================
