------------------------------- MODULE Server -------------------------------
(***************************************************************************)
(* The world server: the world loop (server/src/world.rs) and the HTTP     *)
(* handlers of wishes and sparks (server/src/intake_api.rs) around one     *)
(* Intake, and what a crash and a restart do to them.                      *)
(*                                                                         *)
(* Every action is one critical section of the intake lock (or one write   *)
(* of the store or of the snapshot between two of them), which is where    *)
(* threads interleave.  The simulation is not computed: an epoch of the    *)
(* world is the record of what it was given (the miracles, the beacon and  *)
(* the previous header hash that seed it), and the outcome of each miracle *)
(* is the world's choice.                                                  *)
(***************************************************************************)
EXTENDS Intake

CONSTANTS
    Handlers,     \* the HTTP requests that can be in flight
    FirstSparks,  \* the sparks that clients send with a new wish
    Batches,      \* the spark batches that they send
    ShareClosed,  \* the sets of wishes the share rule may close in an epoch
    Outcomes,     \* what the world may do with a miracle it is given
    Doomed,       \* the sets of wishes that a soft check may find hopeless
    DiskFaults,   \* whether a transaction of append may fail
    MaxBoots,     \* how often the process starts
    OldEpochs     \* the epochs that the world has from before there were headers

ASSUME ServerAssumption ==
    /\ FirstSparks \subseteq Sparks
    /\ Batches \subseteq Seq(Sparks)
    /\ Outcomes \subseteq {"applied", "deferred", "refused"}
    /\ MaxBoots \in Nat
    /\ DiskFaults \in BOOLEAN
    /\ OldEpochs \in 0..MaxEpoch

VARIABLES
    pc,        \* where the world loop is
    run,       \* the world in memory: one entry per epoch it has stepped
    store,     \* protogaea.db: the epochs recorded
    snapshot,  \* latest.json: the world of the last save
    selected,  \* local variables of the loop: the wishes selected,
    seed,      \*   the beacon and previous header of the epoch,
    given,     \*   the miracles given with their outcomes
    live,      \* the epoch that the API shows (Shared.live)
    boots,     \* starts of the process so far
    req        \* the request each handler is serving

loop == <<selected, seed, given>>
world == <<run, store, snapshot>>
vars == <<disk, memory, signed, pc, world, loop, live, boots, req>>

Miracle == [wish : Wishes, outcome : {"applied", "deferred", "refused"}]

Idle == [kind |-> "idle", batch |-> <<>>, ticket |-> 0, late |-> 0]
NoSeed == [beacon |-> [w \in Wishes |-> 0], prev |-> ZeroHash]

\* What the server finds saved: a new world has no epochs.
OldWorld == [e \in 1..OldEpochs |-> [seed |-> NoSeed, given |-> <<>>]]

Serving == pc \notin {"down", "starting"}
FinishedEarly == Len(run) + 1 >= MaxEpoch
Finished == Len(run) = MaxEpoch

(***************************************************************************)
(* start.                                                                  *)
(***************************************************************************)
\* The snapshot is the world; the store and the intake fall back to it.
Rollback ==
    /\ pc = "down"
    /\ boots < MaxBoots
    /\ boots' = boots + 1
    /\ pc' = "starting"
    /\ run' = snapshot
    /\ store' = SubSeq(store, 1, Len(snapshot))
    /\ RollbackAfter(Len(snapshot))
    /\ UNCHANGED <<windows, rows, logs, sths, work, price, memory, signed, snapshot, loop,
                   live, req>>

\* The header of genesis: no log, no miracle, no beacon.
GenesisHeader ==
    [epoch |-> 0, boot |-> boots, prev |-> ZeroHash, ledger |-> LedgerRoot, log |-> <<>>,
     beacon |-> NoSeed.beacon, miracles |-> <<>>]

\* The window after the snapshot opens, the soft check runs, and the chain of
\* headers starts if it has not.
Resume(failing) ==
    /\ pc = "starting"
    /\ OpenWindow(Len(run) + 1, HeaderHashOr(Len(run), GenesisRoot))
    /\ SoftCheck(failing)
    /\ headers' = IF Len(run) = 0 /\ 0 \notin DOMAIN headers THEN Put(headers, 0, GenesisHeader)
                  ELSE headers
    /\ live' = Len(run)
    /\ pc' = "wait"
    /\ UNCHANGED <<work, executedIn, price, miracles, world, loop, boots, req>>

(***************************************************************************)
(* run_loop.                                                               *)
(***************************************************************************)
Close ==
    /\ pc = "wait"
    /\ ~Finished
    /\ CloseWindow
    /\ pc' = "beacon"
    /\ UNCHANGED <<world, loop, live, boots, req>>

\* The round of the epoch is there: the ledger selects, and the seed of the
\* epoch is the beacon with the hash of the header of the epoch before.
Select(tie, shareClosed) ==
    /\ pc = "beacon"
    /\ LET chosen == Choice(tie, shareClosed)
       IN /\ SelectMiracles(chosen)
          /\ \E sel \in BoundedSeq(Wishes, PER_EPOCH) :
                sel = chosen.selected /\ selected' = sel
    /\ seed' = [beacon |-> tie, prev |-> HeaderHashOr(Len(run), ZeroHash)]
    /\ pc' = "step"
    /\ UNCHANGED <<windows, rows, logs, sths, work, executedIn, miracles, headers, memory,
                   signed, world, given, live, boots, req>>

\* What the world can do with the miracles it is given.
Verdicts(sel) ==
    {g \in BoundedSeq([wish : Wishes, outcome : Outcomes], PER_EPOCH) :
        [i \in DOMAIN g |-> g[i].wish] = sel}

\* The world steps, and the epoch is recorded in the store in one transaction.
Step ==
    /\ pc = "step"
    /\ \E g \in Verdicts(selected) :
        /\ given' = g
        /\ run' = Append(run, [seed |-> seed, given |-> g])
        /\ store' = Append(store, [seed |-> seed, given |-> g])
    /\ pc' = "record"
    /\ UNCHANGED <<disk, memory, signed, snapshot, selected, seed, live, boots, req>>

RecordMiracles ==
    /\ pc = "record"
    /\ Record(Len(run), given)
    /\ pc' = "publish"
    /\ UNCHANGED <<windows, rows, logs, sths, work, price, headers, memory, signed, world, loop,
                   live, boots, req>>

Publish ==
    /\ pc = "publish"
    /\ live' = Len(run)
    /\ pc' = "seal"
    /\ UNCHANGED <<disk, memory, signed, world, loop, boots, req>>

SealEpoch ==
    /\ pc = "seal"
    /\ Seal(Len(run), boots, seed.beacon)
    /\ pc' = "save"
    /\ UNCHANGED <<windows, rows, logs, sths, status, work, executedIn, price, miracles, memory,
                   signed, world, loop, live, boots, req>>

Save ==
    /\ pc = "save"
    /\ snapshot' = run
    /\ pc' = "open"
    /\ UNCHANGED <<disk, memory, signed, run, store, loop, live, boots, req>>

OpenNext ==
    /\ pc = "open"
    /\ OpenWindow(Len(run) + 1, HeaderHash(headers[Len(run)]))
    /\ pc' = "soft"
    /\ UNCHANGED <<status, work, executedIn, price, miracles, headers, world, loop, live, boots,
                   req>>

\* The soft check of the open window takes the lock again, after it opened.
CheckWishes(failing) ==
    /\ pc = "soft"
    /\ SoftCheck(failing)
    /\ pc' = "wait"
    /\ UNCHANGED <<windows, rows, logs, sths, work, executedIn, price, miracles, headers, memory,
                   signed, world, loop, live, boots, req>>

(***************************************************************************)
(* propose and sparks: the checks and the ticket under the lock, the proof *)
(* of work outside it, the append under the lock again.                    *)
(***************************************************************************)
\* Work is done for a challenge that has been published.
Minable(s) == s.mined = 0 \/ s.mined \in DOMAIN windows

\* late_ticket: the window before counts for 30 s after the change.
LateTickets == {0, previous}

BeginPropose(h, s, late) ==
    /\ Serving
    /\ req[h] = Idle
    /\ Minable(s)
    /\ PrecheckWish(s.wish)
    /\ req' = [req EXCEPT ![h] = [kind |-> "propose", batch |-> <<s>>, ticket |-> epoch,
                                  late |-> late]]
    /\ UNCHANGED <<disk, memory, signed, pc, world, loop, live, boots>>

\* Sparks that fail a precheck are answered at once; the rest wait for the
\* proof of work.
BeginSparks(h, batch, late) ==
    /\ Serving
    /\ req[h] = Idle
    /\ open
    /\ \A i \in DOMAIN batch : Minable(batch[i]) /\ Precheck(batch[i])
    /\ req' = [req EXCEPT ![h] = [kind |-> "sparks", batch |-> batch, ticket |-> epoch,
                                  late |-> late]]
    /\ UNCHANGED <<disk, memory, signed, pc, world, loop, live, boots>>

Meets(s, window) == s.mined # 0 /\ s.mined = window

Forged(s, r) == ~Meets(s, r.ticket) /\ ~Meets(s, r.late)

\* check_pow: the sparks that pass, up to the first forged one (one list).
Passed(r) ==
    LET before(i) == \A j \in 1..(i - 1) : ~Forged(r.batch[j], r)
        good == {i \in DOMAIN r.batch : before(i) /\ Meets(r.batch[i], r.ticket)}
    IN {[i \in DOMAIN f |-> r.batch[f[i]]] : f \in {g \in Orders(r.batch) : ToSet(g) = good}}

\* The request is answered and the handler is free.
Answer(h) == req' = [req EXCEPT ![h] = Idle]

\* The verification queue was full, or the wish's only spark was late or
\* forged: nothing reaches the log.
Dismiss(h) ==
    /\ req[h].kind # "idle"
    /\ Answer(h)
    /\ UNCHANGED <<disk, memory, signed, pc, world, loop, live, boots>>

AddWish(w) ==
    /\ status' = [status EXCEPT ![w] = "open"]
    /\ work' = [work EXCEPT ![w] = 0]

\* The wish is checked again under the lock: another may have come meanwhile.
CheckedBefore(w) == open /\ status[w] = "none"
StillAdmitted(w) == PrecheckWish(w)

FinishPropose(h) ==
    LET r == req[h]
        s == r.batch[1]
    IN /\ Serving
       /\ r.kind = "propose"
       /\ Meets(s, r.ticket)
       /\ StillAdmitted(s.wish)
       /\ AddWish(s.wish)
       /\ AppendSparks(r.ticket, r.batch)
       /\ Answer(h)
       /\ UNCHANGED <<windows, logs, executedIn, price, miracles, headers, epoch, open, previous,
                      pc, world, loop, live, boots>>

FinishSparks(h) ==
    LET r == req[h]
    IN /\ Serving
       /\ r.kind = "sparks"
       /\ \E passed \in Passed(r) : AppendSparks(r.ticket, passed)
       /\ Answer(h)
       /\ UNCHANGED <<windows, logs, wishTable, price, miracles, headers, epoch, open, previous,
                      pc, world, loop, live, boots>>

\* The transaction of append fails: the request is answered with an error, and
\* the server goes on.
AppendFails(h) ==
    LET r == req[h]
    IN /\ DiskFaults
       /\ r.kind = "sparks"
       /\ \E passed \in Passed(r) : AppendUnstored(r.ticket, passed)
       /\ Answer(h)
       /\ UNCHANGED <<disk, signed, epoch, open, previous, pc, world, loop, live, boots>>

ProposeFails(h) ==
    LET r == req[h]
    IN /\ DiskFaults
       /\ r.kind = "propose"
       /\ Meets(r.batch[1], r.ticket)
       /\ StillAdmitted(r.batch[1].wish)
       /\ AddWish(r.batch[1].wish)
       /\ AppendUnstored(r.ticket, r.batch)
       /\ Answer(h)
       /\ UNCHANGED <<windows, rows, logs, sths, executedIn, price, miracles, headers, signed,
                      epoch, open, previous, pc, world, loop, live, boots>>

(***************************************************************************)
(* Crashes.  An error in the loop ends the process too (main.rs).          *)
(***************************************************************************)
Die ==
    /\ boots < MaxBoots
    /\ pc' = "down"
    /\ MemoryLost
    /\ run' = <<>>
    /\ selected' = <<>> /\ seed' = NoSeed /\ given' = <<>>
    /\ live' = 0
    /\ req' = [h \in Handlers |-> Idle]
    /\ UNCHANGED <<store, snapshot, boots>>

Crash ==
    /\ pc # "down"
    /\ Die
    /\ UNCHANGED <<disk, signed>>

\* The statements of rollback_after are no transaction, and the store has rolled
\* back before them.
CrashInRollback ==
    LET e == Len(snapshot)
    IN /\ pc = "down"
       /\ boots < MaxBoots
       /\ store' = SubSeq(store, 1, e)
       /\ \/ UNCHANGED <<miracles, headers>>
          \/ miracles' = KeptMiracles(e) /\ UNCHANGED headers
          \/ miracles' = KeptMiracles(e) /\ headers' = [d \in KeptHeaders(e) |-> headers[d]]
       /\ UNCHANGED <<windows, rows, logs, sths, wishTable, price, memory, signed, pc, run,
                      snapshot, loop, live, boots, req>>

\* open_window inserts the window, takes its log back to rows and signs a head.
CrashInOpen ==
    LET e == Len(run) + 1
    IN /\ pc \in {"starting", "open"}
       /\ WindowRow(e, HeaderHashOr(Len(run), GenesisRoot))
       /\ \/ UNCHANGED <<rows, logs, sths, signed>>
          \/ BackToRows(e) /\ UNCHANGED <<sths, signed>>
          \/ BackToRows(e) /\ SignHead(e, EpochSparks(e), FALSE)
       /\ Die
       /\ UNCHANGED <<wishTable, price, miracles, headers>>

\* close_window signs the final head before its transaction.
CrashInClose ==
    /\ pc = "wait" /\ open /\ ~Finished
    /\ SignHead(epoch, leaves, TRUE)
    /\ Die
    /\ UNCHANGED <<windows, rows, logs, wishTable, price, miracles, headers>>

\* select_miracles updates one wish at a time, and the price last.
CrashInSelect(tie, shareClosed) ==
    /\ pc = "beacon"
    /\ LET chosen == Choice(tie, shareClosed)
       IN \E n \in 1..(Len(chosen.ready) + Len(chosen.selected)) :
             status' = StatusWrites(chosen, n)
    /\ Die
    /\ UNCHANGED <<windows, rows, logs, sths, work, executedIn, price, miracles, headers, signed>>

\* append commits the rows before it signs a head over them.
CrashInAppend(h) ==
    LET r == req[h]
    IN /\ r.kind = "sparks"
       /\ \E passed \in Passed(r) : \E new \in Placed(r.ticket, passed) :
             /\ new # <<>>
             /\ rows' = [rows EXCEPT ![epoch] = @ \o new]
       /\ Die
       /\ UNCHANGED <<windows, logs, sths, wishTable, price, miracles, headers, signed>>

\* propose adds the wish before its spark.
CrashInPropose(h) ==
    LET r == req[h]
    IN /\ r.kind = "propose"
       /\ Meets(r.batch[1], r.ticket)
       /\ StillAdmitted(r.batch[1].wish)
       /\ AddWish(r.batch[1].wish)
       /\ Die
       /\ UNCHANGED <<windows, rows, logs, sths, executedIn, price, miracles, headers, signed>>

-----------------------------------------------------------------------------
Init ==
    /\ IntakeInit
    /\ pc = "down"
    /\ run = <<>> /\ store = OldWorld /\ snapshot = OldWorld
    /\ selected = <<>> /\ seed = NoSeed /\ given = <<>>
    /\ live = 0
    /\ boots = 0
    /\ req = [h \in Handlers |-> Idle]

Start == Rollback \/ \E failing \in Doomed : Resume(failing)

LoopStep ==
    \/ Close
    \/ \E tie \in Ties, shareClosed \in ShareClosed : Select(tie, shareClosed)
    \/ Step
    \/ RecordMiracles
    \/ Publish
    \/ SealEpoch
    \/ Save
    \/ OpenNext
    \/ \E failing \in Doomed : CheckWishes(failing)

Request(h) ==
    \/ \E s \in FirstSparks, late \in LateTickets : BeginPropose(h, s, late)
    \/ \E batch \in Batches, late \in LateTickets : BeginSparks(h, batch, late)

Respond(h) == Dismiss(h) \/ FinishPropose(h) \/ FinishSparks(h)

Faults(h) == AppendFails(h) \/ ProposeFails(h)

Crashes ==
    \/ Crash
    \/ CrashInRollback
    \/ CrashInOpen
    \/ CrashInClose
    \/ \E tie \in Ties, shareClosed \in ShareClosed : CrashInSelect(tie, shareClosed)
    \/ \E h \in Handlers : CrashInAppend(h) \/ CrashInPropose(h)

Next == Start \/ LoopStep \/ (\E h \in Handlers : Request(h) \/ Respond(h) \/ Faults(h)) \/ Crashes

Safe == Init /\ [][Next]_vars

\* The loop thread runs on, a service manager starts the process again, and a
\* request is answered.
Spec == Safe /\ WF_vars(Start) /\ WF_vars(LoopStep) /\ \A h \in Handlers : WF_vars(Respond(h))
=============================================================================
