------------------------------- MODULE Requests -------------------------------
(***************************************************************************)
(* Spark batches on their way through the server (server/src/intake_api.rs *)
(* sparks): the guard, the ticket of the open window, the queue of checks, *)
(* and what is done with what the checks find; the mining clients that     *)
(* send them (spark/src/main.rs mine), all of them honest; and the windows *)
(* the world loop opens and closes on its schedule (server/src/world.rs    *)
(* run_loop, intake.rs open_window), through restarts of the server.       *)
(*                                                                         *)
(* The clients are the Calls of CheckQueue: a client posts one batch at a  *)
(* time and waits for its answer.  A batch is [window, sparks, sent]: what *)
(* its sparks were mined for, how many they are, and when they were sent.  *)
(* Time is explicit: what has a deadline happens before the clock passes   *)
(* it.  A client that stalls (a machine put to sleep) has none, nor has    *)
(* the world loop when it waits for the intake lock.  What a spark is      *)
(* mined for is a wish, known by the hash of its bytes (Wishes).           *)
(***************************************************************************)
EXTENDS CheckQueue, Schedule, Guard, Wishes

CONSTANTS
    AddressOf,  \* the address of each client
    SubnetOf,   \* its subnet
    GRACE,      \* ticks a spark of the window before is late, not forged (30 s)
    REFRESH,    \* ticks after which a client reads the window again (5 s)
    FLUSH,      \* ticks a client collects a batch at most (3 s)
    NETWORK,    \* ticks a batch is on its way, unless its client stalls
    HANDLE,     \* ticks a call takes at most
    MaxBatch, MinTime, MaxTime, MaxFaults

ASSUME RequestsAssumption ==
    /\ {GRACE, REFRESH, FLUSH, NETWORK, HANDLE, MaxBatch, MinTime, MaxTime, MaxFaults}
       \subseteq Nat
    /\ FLUSH > 0

VARIABLES
    (* the server *)
    now, epoch, open, opened, previous,
    loop,       \* where the world loop is
    closesAt,   \* next_epoch_ms
    close,      \* close_ms
    stamp,      \* when the final head of the window was signed
    round,      \* the round of the epoch; like the two before, 0 while a window is open
    buckets, banned,
    ticket,     \* what the handler of each call took from the intake
    (* the clients *)
    at, known, readAt, body,
    due,        \* the deadline of each client's next step, or of its call's
    asleep,     \* the clients that stall
    faults,     \* clients that stalled or hung up and servers that died so far
    (* for the properties *)
    unpurged,   \* the buckets if none were ever dropped
    bans        \* the bans so far: whether the window was opened by a start of the
                \* server, how long the batch had been on its way, and how many
                \* windows had opened since the one it was for

server == <<now, epoch, open, opened, previous, loop, closesAt, close, stamp, round>>
guard == <<buckets, banned, unpurged, bans>>
clients == <<at, known, readAt, body, due, asleep, faults, ticket>>
all == <<vars, server, guard, clients>>

NONE == 0
NoTicket == [epoch |-> NONE, late |-> NONE, afresh |-> FALSE, way |-> 0]
NoBatch == [window |-> NONE, sparks |-> 0, sent |-> 0]

-----------------------------------------------------------------------------
(* The guard. *)

\* The keys a batch takes its tokens from, in order.
KeysOf(c) == <<<<"i", AddressOf[c]>>, <<"n", SubnetOf[c]>>, <<"k", c>>>>
Keys == UNION {ToSet(KeysOf(c)) : c \in Calls}

IsBanned(c) == {<<"i", AddressOf[c]>>, <<"k", c>>} \cap DOMAIN Lasting(banned, now) # {}

-----------------------------------------------------------------------------
(* The clients. *)

\* The window is read again after a while; while none is open the client keeps
\* the one it has.
KeepsWindow(c) == known[c]
Current(c) == IF now - readAt[c] > REFRESH /\ open THEN epoch ELSE known[c]

\* A batch is over, full or old enough: its sparks are posted if their window is
\* still the current one, and dropped otherwise.
Flush(c) ==
    /\ at[c] = "mining"
    /\ \E n \in 0..MaxBatch :
          /\ n < MaxBatch => now = due[c]
          /\ n > 0 => now > due[c] - FLUSH
          /\ LET kept == IF Current(c) = known[c] THEN n ELSE 0
             IN IF kept = 0
                THEN /\ due' = [due EXCEPT ![c] = now + FLUSH]
                     /\ UNCHANGED <<at, body>>
                ELSE /\ at' = [at EXCEPT ![c] = "sent"]
                     /\ due' = [due EXCEPT ![c] = now + NETWORK]
                     /\ body' = [body EXCEPT ![c] = [window |-> Current(c), sparks |-> kept,
                                                     sent |-> now]]
    /\ known' = [known EXCEPT ![c] = Current(c)]
    /\ readAt' = [readAt EXCEPT ![c] = IF now - @ > REFRESH THEN now ELSE @]
    /\ UNCHANGED <<vars, server, guard, asleep, faults, ticket>>

Stall(c) ==
    /\ faults < MaxFaults
    /\ at[c] = "sent"
    /\ faults' = faults + 1
    /\ asleep' = asleep \cup {c}
    /\ UNCHANGED <<vars, server, guard, at, known, readAt, body, due, ticket>>

\* The answer, an error or a lost connection: the client goes on mining, its
\* batch is not sent again.
Home(c) ==
    /\ at' = [at EXCEPT ![c] = "mining"]
    /\ body' = [body EXCEPT ![c] = NoBatch]
    /\ due' = [due EXCEPT ![c] = now + FLUSH]
    /\ asleep' = asleep \ {c}
    /\ ticket' = [ticket EXCEPT ![c] = NoTicket]
    /\ UNCHANGED <<known, readAt>>

-----------------------------------------------------------------------------
(* The handler. *)

\* most: the buckets kept before the idle ones are dropped.
Admission(most, b, c) == admit(most, b, KeysOf(c), now)

Unreachable(c) ==
    /\ at[c] = "sent" /\ loop = "down"
    /\ Home(c)
    /\ UNCHANGED <<vars, server, guard, faults>>

TurnAway(c) ==
    /\ at[c] = "sent" /\ loop # "down"
    /\ IsBanned(c)
    /\ Home(c)
    /\ UNCHANGED <<vars, server, guard, faults>>

PassGuard(c) ==
    /\ at[c] = "sent" /\ loop # "down"
    /\ ~IsBanned(c)
    /\ banned' = Lasting(banned, now)
    /\ buckets' = Admission(MAX_BUCKETS, buckets, c).buckets
    /\ unpurged' = Admission(Cardinality(Keys), unpurged, c).buckets
    /\ \/ /\ Admission(MAX_BUCKETS, buckets, c).ok
          /\ at' = [at EXCEPT ![c] = "admitted"]
          /\ due' = [due EXCEPT ![c] = now + HANDLE]
          /\ asleep' = asleep \ {c}
          /\ UNCHANGED <<known, readAt, body, ticket>>
       \/ ~Admission(MAX_BUCKETS, buckets, c).ok /\ Home(c)
    /\ UNCHANGED <<vars, server, bans, faults>>

\* late_ticket.
NeverLate == NONE
LateTicket == IF now - opened < GRACE THEN previous ELSE NONE

NoWindow(c) ==
    /\ at[c] = "admitted"
    /\ ~open
    /\ Home(c)
    /\ UNCHANGED <<vars, server, guard, faults>>

TakeTicket(c) ==
    /\ at[c] = "admitted"
    /\ open
    /\ ticket' = [ticket EXCEPT ![c] = [epoch |-> epoch, late |-> LateTicket,
                                        afresh |-> previous = NONE,
                                        way |-> now - body[c].sent]]
    /\ at' = [at EXCEPT ![c] = "inside"]
    /\ Enter(c, body[c].sparks)
    /\ UNCHANGED <<server, guard, known, readAt, body, due, asleep, faults>>

Overloaded(c) == Refuse(c) /\ Home(c) /\ UNCHANGED <<server, guard, faults>>

\* Sparks neither for the ticket's window nor for the one before.  The check
\* stops at the first of them.
Forged(c) == body[c].window \notin {ticket[c].epoch, ticket[c].late}

\* The sparks that hold are appended and those too late refused (Server); the
\* sender of a forged one is banned.
Answer(c) ==
    /\ Return(c)
    /\ IF ~Forged(c) THEN UNCHANGED guard
       ELSE /\ banned' = ban(banned, {<<"i", AddressOf[c]>>, <<"k", c>>}, now)
            /\ bans' = bans \cup {[afresh |-> ticket[c].afresh, way |-> ticket[c].way,
                                     since |-> ticket[c].epoch - body[c].window]}
            /\ UNCHANGED <<buckets, unpurged>>
    /\ Home(c)
    /\ UNCHANGED <<server, faults>>

\* The connection is lost while the handler waits: the rest of it is not run.
HangUp(c) ==
    /\ faults < MaxFaults
    /\ faults' = faults + 1
    /\ Disconnect(c)
    /\ Home(c)
    /\ UNCHANGED <<server, guard>>

-----------------------------------------------------------------------------
(* The world loop and its windows. *)

\* sleep_until wakes, and the time of the close is taken.
Wake ==
    /\ loop = "sleeping"
    /\ now >= closesAt
    /\ close' = now
    /\ loop' = "closing"
    /\ UNCHANGED <<vars, guard, clients, now, epoch, open, opened, previous, closesAt, stamp,
                   round>>

\* The lock is there, however long it took: the window closes, its head is signed,
\* and its round is that of the time the loop woke.
Close ==
    /\ loop = "closing"
    /\ open' = FALSE
    /\ stamp' = now
    /\ round' = round_for_close(close)
    /\ loop' = "drand"
    /\ UNCHANGED <<vars, guard, clients, now, epoch, opened, previous, closesAt, close>>

OpenWindow(e) ==
    /\ epoch' = e
    /\ open' = TRUE
    /\ opened' = now
    /\ closesAt' = close_after(now)
    /\ loop' = "sleeping"
    /\ close' = 0 /\ stamp' = 0 /\ round' = 0

\* The round has come (or comes later, while drand cannot be reached), the world
\* has stepped, and the next window opens.
OpenNext ==
    /\ loop = "drand"
    /\ now >= Due(round)
    /\ OpenWindow(epoch + 1)
    /\ previous' = epoch
    /\ UNCHANGED <<vars, guard, clients, now>>

\* The process ends: its connections, its queue of checks, its guard and what it
\* knew of the window before are gone with it.
Die ==
    /\ loop # "down"
    /\ faults < MaxFaults
    /\ faults' = faults + 1
    /\ loop' = "down"
    /\ open' = FALSE
    /\ previous' = NONE
    /\ stage' = [c \in Calls |-> "away"] /\ size' = [c \in Calls |-> 0]
    /\ queued' = 0 /\ line' = <<>> /\ permits' = CHECKERS /\ orphans' = 0
    /\ buckets' = <<>> /\ unpurged' = <<>> /\ banned' = <<>>
    /\ at' = [c \in Calls |-> IF at[c] = "sent" THEN "sent" ELSE "mining"]
    /\ body' = [c \in Calls |-> IF at[c] = "sent" THEN body[c] ELSE NoBatch]
    /\ due' = [c \in Calls |-> IF at[c] \in {"sent", "mining"} THEN due[c] ELSE now + FLUSH]
    /\ ticket' = [c \in Calls |-> NoTicket]
    /\ UNCHANGED <<now, epoch, opened, closesAt, close, stamp, round, bans, known, readAt,
                   asleep>>

\* start: the window after the saved world opens, which may be the one after the
\* window that was closed.
Start ==
    /\ loop = "down"
    /\ \E e \in {epoch, epoch + 1} : (e > epoch => round > 0) /\ OpenWindow(e)
    /\ UNCHANGED <<vars, guard, clients, now, previous>>

-----------------------------------------------------------------------------
(* The clock. *)

OnTime ==
    /\ \A c \in Calls \ asleep : now < due[c]
    /\ loop = "sleeping" => now < closesAt

Tick ==
    /\ now < MaxTime
    /\ OnTime
    /\ now' = now + 1
    /\ UNCHANGED <<vars, guard, clients, epoch, open, opened, previous, loop, closesAt, close,
                   stamp, round>>

Handler(c) == Unreachable(c) \/ TurnAway(c) \/ PassGuard(c) \/ NoWindow(c) \/ TakeTicket(c)
Checked(c) == Overloaded(c) \/ Answer(c)
Queue == Acquire \/ OrphanEnds \/ \E c \in Calls : TaskEnds(c)

RequestsInit ==
    /\ Init
    /\ now = MinTime /\ epoch = 1 /\ open = TRUE /\ opened = now /\ previous = NONE
    /\ loop = "sleeping" /\ closesAt = close_after(now) /\ close = 0 /\ stamp = 0 /\ round = 0
    /\ buckets = <<>> /\ unpurged = <<>> /\ banned = <<>> /\ bans = {}
    /\ at = [c \in Calls |-> "mining"] /\ known = [c \in Calls |-> epoch]
    /\ readAt = [c \in Calls |-> now] /\ body = [c \in Calls |-> NoBatch]
    /\ due = [c \in Calls |-> now + FLUSH]
    /\ asleep = {} /\ faults = 0 /\ ticket = [c \in Calls |-> NoTicket]

RequestsNext ==
    \/ \E c \in Calls :
          \/ Flush(c) \/ Stall(c) \/ HangUp(c)
          \/ Handler(c) \/ Checked(c)
    \/ Queue /\ UNCHANGED <<server, guard, clients>>
    \/ Wake \/ Close \/ OpenNext \/ Die \/ Start \/ Tick

\* The runtime polls every future that can go on, and every check ends.
RequestsSpec ==
    /\ RequestsInit /\ [][RequestsNext]_all
    /\ WF_all(Acquire /\ UNCHANGED <<server, guard, clients>>)
    /\ WF_all(OrphanEnds /\ UNCHANGED <<server, guard, clients>>)
    /\ \A c \in Calls :
          /\ WF_all(TaskEnds(c) /\ UNCHANGED <<server, guard, clients>>)
          /\ WF_all(Checked(c))

-----------------------------------------------------------------------------
(* Properties. *)

\* An honest miner is banned for one of three causes only (the head of
\* intake_api.rs says an honest client never sends a spark that gets it banned):
\* the server has started again since its sparks' window and remembers no window
\* before; its batch was on its way for as long as the grace lasts beyond a
\* refresh; or it did not look while a whole window was open.
BannedForACause ==
    \A b \in bans : b.afresh \/ b.way >= GRACE - REFRESH \/ b.since > 1

\* Dropping the idle buckets gives nobody a token more or less.
PurgeForgetsNothing ==
    \A k \in Keys : Level(buckets, k, now) = Level(unpurged, k, now)

\* The guard is fair: it bans for a cause, and forgets nothing when it forgets.
GuardIsFair == BannedForACause /\ PurgeForgetsNothing

\* A window takes sparks when its beacon can be known only if the loop has waited
\* for the lock for the whole delay; and the round the final head asks for
\* (watcher/src/main.rs check_drand) is later than the one taken by at most one for
\* each period of the beacon, or part of one, that the loop waited.
BeaconIsFuture ==
    /\ open /\ loop = "closing" =>
          now < Due(round_for_close(close)) \/ now - close >= DELAY * SECOND
    /\ loop = "drand" =>
          round_for_close(stamp) <= round + div_ceil(stamp - close, PERIOD * SECOND)

\* A wish has one form in bytes (wish.rs), so its id is that of this wish and of no
\* other.  It does not depend on the state: the runs look at it before any window opens.
WishFormsHold == RequestsInit => WishesHaveOneForm
=============================================================================
