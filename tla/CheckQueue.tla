------------------------------ MODULE CheckQueue ------------------------------
(***************************************************************************)
(* The queue of proof-of-work checks (server/src/intake_api.rs check_pow): *)
(* the counter QUEUED of sparks, the semaphore CHECKERS and the blocking   *)
(* tasks, shared by every request in flight.  A request is a future: the   *)
(* HTTP server drops it where it awaits when its client disconnects, and   *)
(* what comes after that await is then never run, while a blocking task    *)
(* that has started goes on to its end.                                    *)
(***************************************************************************)
EXTENDS Integers, Sequences, FiniteSets, SequencesExt

CONSTANTS
    Calls,       \* the requests that can be in flight
    Sizes,       \* the numbers of sparks a request brings (0..64)
    QUEUE,       \* sparks waiting for a check at most (512)
    CHECKERS,    \* permits of the semaphore (2)
    Disconnects  \* whether clients may disconnect

ASSUME CheckQueueAssumption ==
    /\ IsFiniteSet(Calls)
    /\ Sizes \subseteq Nat
    /\ QUEUE \in Nat
    /\ CHECKERS \in Nat \ {0}
    /\ Disconnects \in BOOLEAN

VARIABLES
    stage,   \* where each call is
    size,    \* the sparks it brought
    queued,  \* QUEUED
    line,    \* the calls that wait for a permit, first come first served
    permits, \* free permits
    orphans  \* blocking tasks whose call is gone
vars == <<stage, size, queued, line, permits, orphans>>

Init ==
    /\ stage = [c \in Calls |-> "away"]
    /\ size = [c \in Calls |-> 0]
    /\ queued = 0
    /\ line = <<>>
    /\ permits = CHECKERS
    /\ orphans = 0

Leave(c) ==
    /\ stage' = [stage EXCEPT ![c] = "away"]
    /\ size' = [size EXCEPT ![c] = 0]

\* fetch_add gives the count before: a call that goes over the limit waits no
\* further, but its sparks are counted until Refuse.
Counted(n) == queued + n

RoomBefore(n) == queued <= QUEUE
Room(n) == Counted(n) <= QUEUE

Enter(c, n) ==
    /\ stage[c] = "away"
    /\ size' = [size EXCEPT ![c] = n]
    /\ queued' = Counted(n)
    /\ \/ Room(n) /\ stage' = [stage EXCEPT ![c] = "waiting"] /\ line' = Append(line, c)
       \/ ~Room(n) /\ stage' = [stage EXCEPT ![c] = "full"] /\ line' = line
    /\ UNCHANGED <<permits, orphans>>

Refuse(c) ==
    /\ stage[c] = "full"
    /\ queued' = queued - size[c]
    /\ Leave(c)
    /\ UNCHANGED <<line, permits, orphans>>

\* acquire, and the task starts.
Acquire ==
    /\ line # <<>>
    /\ permits > 0
    /\ permits' = permits - 1
    /\ stage' = [stage EXCEPT ![Head(line)] = "checking"]
    /\ line' = Tail(line)
    /\ UNCHANGED <<size, queued, orphans>>

TaskEnds(c) ==
    /\ stage[c] = "checking"
    /\ stage' = [stage EXCEPT ![c] = "checked"]
    /\ UNCHANGED <<size, queued, line, permits, orphans>>

ReturnWithPermit(c) ==
    /\ stage[c] = "checked"
    /\ queued' = queued - size[c]
    /\ Leave(c)
    /\ UNCHANGED <<permits, line, orphans>>
Return(c) ==
    /\ stage[c] = "checked"
    /\ permits' = permits + 1
    /\ queued' = queued - size[c]
    /\ Leave(c)
    /\ UNCHANGED <<line, orphans>>

\* The future is dropped: its permit or its place in the line goes with it.
PermitOf(c) == IF stage[c] = "waiting" THEN 0 ELSE 1

Disconnect(c) ==
    /\ Disconnects
    /\ stage[c] \in {"waiting", "checking", "checked"}
    /\ permits' = permits + PermitOf(c)
    /\ orphans' = orphans + (IF stage[c] = "checking" THEN 1 ELSE 0)
    /\ IF stage[c] = "waiting"
       THEN \E i \in DOMAIN line : line[i] = c /\ line' = RemoveAt(line, i)
       ELSE line' = line
    /\ Leave(c)
    /\ UNCHANGED queued

OrphanEnds ==
    /\ orphans > 0
    /\ orphans' = orphans - 1
    /\ UNCHANGED <<stage, size, queued, line, permits>>

Answering(c) == Refuse(c) \/ TaskEnds(c) \/ Return(c)

Next ==
    \/ \E c \in Calls, n \in Sizes : Enter(c, n)
    \/ \E c \in Calls : Answering(c) \/ Disconnect(c)
    \/ Acquire
    \/ OrphanEnds

\* The runtime polls every future that can go on, and every check ends.
Spec ==
    /\ Init /\ [][Next]_vars
    /\ WF_vars(Acquire) /\ WF_vars(OrphanEnds) /\ \A c \in Calls : WF_vars(Answering(c))

-----------------------------------------------------------------------------
(* Properties. *)

InStage(S) == {c \in Calls : stage[c] \in S}

\* How many sparks these calls brought.
SparksOf(S) == Cardinality(UNION {{c} \X (1..size[c]) : c \in S})

\* The sparks that wait for a check, or are being checked, fit in the queue,
\* whatever calls come and are refused at the same time; none of them goes
\* uncounted, and permits are taken and given back in pairs.
QueueIsBounded ==
    /\ SparksOf(InStage({"waiting", "checking", "checked"})) <= QUEUE
    /\ queued >= SparksOf(Calls)
    /\ permits \in 0..CHECKERS

\* QUEUED counts the sparks of the calls in flight and no other, so an idle
\* server has its whole queue free.
CounterIsTheQueue == queued = SparksOf(Calls)

\* Every call that waits is answered, whatever comes after it, or its client
\* goes away.
CallsAreAnswered == \A c \in Calls : stage[c] = "waiting" ~> stage[c] = "away"
=============================================================================
