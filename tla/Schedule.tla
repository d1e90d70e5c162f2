------------------------------- MODULE Schedule -------------------------------
(***************************************************************************)
(* When windows close and which beacon an epoch takes: close_after         *)
(* (server/src/world.rs) and the rounds of drand (protocol/src/beacon.rs). *)
(*                                                                         *)
(* Times are in ticks, a second has SECOND of them (the code counts        *)
(* milliseconds); the ledger of seconds starts at drand's genesis.         *)
(***************************************************************************)
EXTENDS Naturals

CONSTANTS
    SECOND,        \* ticks per second (1000)
    EPOCH_SECONDS, \* the length of an epoch (300)
    PERIOD,        \* seconds between two rounds (3)
    DELAY          \* seconds from a close to its round at least (10)

ASSUME ScheduleAssumption ==
    /\ SECOND \in Nat \ {0} /\ EPOCH_SECONDS \in Nat \ {0} /\ PERIOD \in Nat \ {0}
    /\ DELAY \in Nat

GENESIS == 0

div_ceil(a, b) == (a + b - 1) \div b

period == EPOCH_SECONDS * SECOND
min_window == (period * 2) \div 5

\* The first point of the grid that leaves the window long enough.
close_after(opened) == div_ceil(opened + min_window, period) * period

\* Rounds are numbered from 1.
round_time(round) == GENESIS + (round - 1) * PERIOD
round_at(s) == IF s <= GENESIS THEN 1 ELSE div_ceil(s - GENESIS, PERIOD) + 1

round_without_delay(close) == round_at(div_ceil(close, SECOND))
round_for_close(close) == round_at(div_ceil(close, SECOND) + DELAY)

\* When the loop may ask drand for a round (wait_for).
Due(round) == round_time(round) * SECOND
=============================================================================
