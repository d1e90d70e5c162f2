# A formal model of Protogaea

Protogaea is a world simulation that anyone may influence: a *wish* is a signed
proposal for a miracle, a *spark* is a proof of work given to a wish, and every
epoch (five minutes) the wishes with the most work become miracles. The server
publishes everything needed to check it: logs of sparks with signed tree heads,
a chain of signed epoch headers, and a world that is a deterministic function
of what was published. Watchers replay all of it.

This directory holds TLA+ modules that model the program, TLC configurations
that check them on small instances, and proofs checked by TLAPS. Paths below
are relative to the repository (`src/` here).

Contents: [1 The system](#1-the-system) · [2 The
modules](#2-the-modules-and-the-code) · [3 The runs](#3-the-runs) · [4 The
proofs](#4-the-proofs) · [5 What the code does
otherwise](#5-where-the-code-and-its-documents-disagree) · [6 Not
modelled](#6-what-is-not-modelled) · [7 Plan](#7-plan)

## 1. The system

### Components, their state and their operations

| Component | State | Operations | What makes it correct | Here |
|---|---|---|---|---|
| Ledger rules (`protocol/src/ledger.rs`, `spark.rs`) | none: pure integer rules | `select`, `conflicts`, `price_of`, `next_target` | the selection is the one fair choice; queued wishes are served in the end | `Ledger`, `Market` |
| Intake (`server/src/intake.rs`) | `sparks.sqlite` (wishes, sparks, packed logs, tree heads, windows, ledger, miracles, headers) and memory beside it (open window, leaves, ids seen, previous ticket) | `open_window`, `close_window`, `append`, `add_wish`, `soft_check`, `select_miracles`, `record`, `seal`, `sign_head`, `rollback_after`, prechecks | heads stay consistent, logs keep every spark once, the headers are one chain, work is neither lost nor counted twice | `Intake` |
| World loop and start (`server/src/world.rs`, `main.rs`) | the world in memory, `latest.json`, the detectors, the archive | `start`, `run_loop`, `step`, `save` | whatever ends the process, the next start finds a state it can go on from, and the published record replays | `Server`, `History` |
| HTTP handlers (`server/src/intake_api.rs`) | requests in flight, the queue of checks, buckets and bans | `propose`, `sparks`, `check_pow`, `Guard`, `window` | no spark in a window it was not mined for, limits hold under concurrency, the queue is bounded and moves, nobody is banned without a cause | `Server`, `CheckQueue`, `Guard`, `Requests` |
| Event store (`server/src/store.rs`, `names.rs`) | `protogaea.db`: epochs, events, clades, organisms, frames, stories | `record`, `rollback_after`, queries | the tables show the world that runs; a rollback undoes an epoch in every table | `History`, `Reading` |
| Beacon and schedule (`protocol/src/beacon.rs`, `server/src/beacon.rs`, `close_after`) | none | `round_for_close`, `close_after`, waiting for a round | the beacon of an epoch is not known while its window takes sparks | `Schedule`, `Requests` |
| Spark log (`protocol/src/log.rs`, `sth.rs`, `header.rs`) | none | roots, inclusion and consistency proofs | a proof verifies exactly for what the root covers | `SparkLog` |
| Packed logs (`server/src/packed.rs`) | none | pack and unpack a log | packing loses nothing | `Packed` |
| Wish format (`protocol/src/wish.rs`) | none | `to_bytes`, `check`, `from_bytes` | one wish, one form in bytes | `Wishes` |
| Watcher (`watcher/src/main.rs`, `books.rs`) | its books, heads, last header, replayed world | `check_head`, `check_headers`, `replay`, `Books::close`, `settle` | it accepts what an honest server does and nothing else | `Watcher` |
| Simulation (`core/src/sim.rs`, `miracle.rs`, `state.rs`, `run.rs`, `rifts.rs`, `ruleset.rs`) | the world | `step`, `apply`, checks, prices | clades, places, rifts and effects keep their books; a price means a miracle that can happen | `Miracles`, `World` |
| World generation (`core/src/map.rs`, `genome.rs`, `merkle.rs`, `climate.rs`, `rng.rs`) | none | plates, rifts, bridges, founders, genomes | a world breaks on its plan; every child is valid | `Breaking`, `Genomes`; noise and random numbers are inputs |
| Story detectors (`stories/src/lib.rs`) | what they remember of the world | `observe` | no story is told twice, none lost in a restart | `Stories`, `History` |
| Mining client (`spark/src/main.rs`) | nonces, batches | mine, submit, react | sparks are sent while they still count | `Requests` |
| Proof of work (`pow/src/`) | none | hash, weight | two implementations agree | `mined`: which window a spark meets |
| Read API (`server/src/api.rs`, `model.rs`) | none | queries | the two sources of an answer agree | `Reading` |
| Bots (`server/bot/`) | a cursor | tell the news | nothing told twice, nothing left out | `History` |
| Viewer, harness, visits | presentation | reads | | not modelled |

### How they interact

One **world thread** runs `start` and then `run_loop` for ever: wait for the
close, close the window, wait for the beacon, select miracles, step the world
and record the epoch in the store, record the miracles, publish the live state,
seal the header, save the snapshot, open the next window, soft-check the wishes.
**Request handlers** run beside it. They and the loop share the intake behind a
lock (`Shared.intake`). The loop takes the lock once for each of those steps; a
handler takes it twice: to check the request and note which window is open
(its *ticket*), and, after the proof of work has been verified without the
lock, to append. Verification runs on blocking tasks behind a counter
(`QUEUED`) and a semaphore (`CHECKERS`). **Watchers** and **bots** poll the API
between any two of these steps.

**Durability** has three parts that are not written together: `sparks.sqlite`
(each operation of the intake writes one or several statements, not always in a
transaction), `protogaea.db` (one transaction for an epoch) and `latest.json`
(atomic rename), with the archive of snapshots after it. An error in the loop
ends the process with status 1 (`server/src/main.rs`) and the service manager
starts it again (`deploy/protogaea-server.service`, `Restart=on-failure`).
`start` takes the snapshot as the world, rolls the store and the intake back to
it, and opens the window after it, which may already have been open, closed,
sealed or packed.

### What is hard

- the window moves on while a request is verified;
- the process may end between any two writes, and the epoch then runs again
  with other sparks, another beacon value and other miracles, although a header,
  a final tree head and the miracles of the first attempt may already be out;
- a wish lives through select, defer, refuse, expire, soft check and rollback;
- the price rises above the work of wishes that are already queued;
- a dropped future ends a handler at any await;
- the members of a clade are counted up and down in seven places of the
  simulation, and the room in a cell is looked for in six;
- a watcher reads in several requests what the server changes in between.

`PROJECT.json` lists each hazard at its line, with the properties that cover it.

## 2. The modules and the code

| Module | Models | State | Actions or main operators |
|---|---|---|---|
| `Ledger` | `protocol/src/ledger.rs`, `next_target` of `spark.rs` | none | `select`, `conflicts`, `price_of`, `next_price`, `next_target` |
| `Market` | `Ledger` over many epochs | price, work, status | `BusyEpoch`, `QuietEpoch` |
| `Packed` | `server/src/packed.rs` | none | `pack`, `unpack` |
| `Intake` | `server/src/intake.rs` | one variable per table, one per memory field, and `signed` | one operator per method, named after it |
| `Server` | `world.rs`, `main.rs`, `propose` and `sparks` of `intake_api.rs` | `pc` of the loop, `run`, `store`, `snapshot`, the loop's locals, `live`, `boots`, `req` | see below |
| `ServerProperties` | the properties of `Server` and its refinement mapping | | |
| `SealedChain` | the abstract promise: a pending log and a chain that only grow | `pending`, `chain` | `Accept`, `Seal` |
| `SparkLog` | `protocol/src/log.rs`, the shape of `core/src/merkle.rs` | none | roots, proofs and the loops that verify them |
| `Watcher` | `watcher/src/main.rs`, `books.rs`, beside `Server` | heads, last header, replayed world, books, alarms | `check_head`, `check_headers`, `ReadLatest`, `ReadHeaders`, `ReadMiracles`, `Replay` |
| `CheckQueue` | `check_pow` | stage and size of each call, `queued`, the line, permits, orphans | `Enter`, `Refuse`, `Acquire`, `TaskEnds`, `Return`, `Disconnect`, `OrphanEnds` |
| `Schedule` | `close_after`, `protocol/src/beacon.rs` | none | `close_after`, `round_for_close` |
| `Guard` | `struct Guard` of `intake_api.rs` | none (operators on buckets and bans) | `admit`, `Level`, `ban` |
| `Requests` | `sparks` from the guard to the answer, the clients, the loop's timing | clock, window, buckets, bans, clients | `Flush`, `TurnAway`, `TakeTicket`, `Checked`, `Wake`, `Close`, `OpenNext`, `Die`, `Start`, `Tick` |
| `Wishes` | `protocol/src/wish.rs` | none | `to_bytes`, `check`, `from_bytes` |
| `Miracles` | `core/src/miracle.rs`, `state.rs` | none (operators on a world) | `check`, `apply`, `price_share` |
| `World` | `core/src/sim.rs`, `rifts.rs`, `run.rs` | the world, the step of the epoch, the living | `rift_changes`, `natural_events`, `plague`, `natural_weather`, `miracles`, `natural_revival`, `environment`, `act`, `energy`, `birth`, `end_tick` |
| `Genomes` | `core/src/genome.rs` | none | the sets of outcomes of `mutate`, `hybrid_genome`, `edited` |
| `Breaking` | `core/src/map.rs`, `rifts.rs` | none | plates, rift lines, bridges, schedule, founders |
| `Stories` | `stories/src/lib.rs` | none (memory in, memory and stories out) | one operator per detector |
| `History` | `store.rs`, `names.rs`, `world.rs` (`save`), `model.rs`, the telling bot | tables, snapshot, archive, the bot's cursor | `Create`, `SaveGenesis`, `Rollback`, `Resume`, `Step`, `Publish`, `Save`, `Archive`, `Crash`, `FirstNews`, `News` |
| `Reading` | `server/src/api.rs` and the queries of `store.rs` | none | one operator per answer |
| `Induction` | induction on numbers, functions by recursion, loops | | `NatSetInduction`, `RecursionExists`, `LoopKeeps` |
| `MC...` | the values of the constants for TLC | | |
| `...Proofs` | the theorems, section 4 | | |

`Server` EXTENDS `Intake`, which EXTENDS `Ledger`; `ServerProperties` EXTENDS
`Server` and instantiates `SealedChain`; `Watcher` EXTENDS `Server` and
`SparkLog`; `Requests` EXTENDS `CheckQueue`, `Schedule`, `Guard` and
`Wishes`; `World` EXTENDS `Miracles`; `Reading` EXTENDS `History`, which EXTENDS `Stories`. The
pure parts (`Packed`, `Wishes`, `Genomes`, `Breaking`, `SparkLog`) are checked
over bounded inputs once, in the first state of a run whose system uses them.

**Grain of `Server`.** An action is what the code does in one hold of the intake
lock, or one durable write of the loop. The value of `pc` names the next one:

| `pc` | Action | Code |
|---|---|---|
| `down` | `Rollback` | `start`, up to `intake.rollback_after` |
| `starting` | `Resume` | `start`: window, soft check, header of genesis |
| `wait` | `Close` | `close_window` |
| `beacon` | `Select` | `select_miracles`, and the seed of the epoch |
| `step` | `Step` | `step` and `store.record` |
| `record` | `RecordMiracles` | `intake.record` |
| `publish` | `Publish` | `shared.live` |
| `seal` | `SealEpoch` | `intake.seal` |
| `save` | `Save` | `save` (write and rename) |
| `open` | `OpenNext` | `open_window` |
| `soft` | `CheckWishes` | `soft_check` |

A request is `BeginPropose` or `BeginSparks` (first lock), then one of
`FinishPropose`, `FinishSparks` (second lock), `Dismiss` (nothing to append) or,
when `DiskFaults` is set, `AppendFails` and `ProposeFails`.

**Crashes.** `Crash` is between two actions. Where one operation of the code
makes several durable writes, an action of its own ends the process between
them: `CrashInRollback` (store, miracles, headers, wishes), `CrashInOpen`
(window row, rows, head), `CrashInClose` (final head, transaction),
`CrashInSelect` (one wish after the other, the price last), `CrashInAppend`
(rows, head), `CrashInPropose` (wish, spark). An error in the loop is a crash.

**Abstractions of the server part.**

- A spark is `[wish, nonce, mined]`. `mined` is the window whose challenge and
  target its proof of work meets; 0 is a spark that meets none. `Minable` says
  that nobody works for a challenge that has not been published.
- A hash is the identity of what it covers. A tree root is the sequence of
  leaves (in `SparkLog` a term over them); a header hash is `[epoch, boot]`,
  because the timestamp makes every signing distinct and a process signs an
  epoch once. The challenge of a window is the header hash it commits to, or
  `GenesisRoot` where the code falls back to the world root because no header
  exists.
- The beacon is an arbitrary order of the wishes out of `Ties`: it has no other
  effect on the ledger, and as the seed of the epoch it is only compared.
- In `Server` the world is the list of what each epoch was given (seed and
  miracles). What a miracle does is the world's choice: applied, deferred or
  refused (`Outcomes`). Which wishes a soft check finds hopeless, and which the
  share rule closes for an epoch, are choices too (`Doomed`, `ShareClosed`).
  `Watcher` fixes these choices in `nature`, the same for the server and for
  the watcher's replay; `Miracles` and `World` model what decides them.
- `OldEpochs` is how many epochs the world has from before there were signed
  headers. `start` still knows such worlds ("the state root before headers
  existed"); a new world has none. `FirstHeader` and `FirstWindow` of
  `ServerProperties` say where headers and windows begin in either.
- Work is an integer: a spark weighs `HashSpace \div target`. The widths of the
  code (u64 target, u128 work) are far from the values reachable here.
- Read-only queries of the intake, the migration of old databases, timestamps
  and wording are left out.

**Abstractions of the simulation.** `World` keeps what the books of the
simulation need: which organisms live, in which cell and clade; the clades with
their counts; the phase and biome of every cell; effects, cooldowns, the museum.
Energy, genomes, fights and random numbers decide *who* walks, kills, dies and
breeds: these are free choices within the limits the code keeps. A turn of an
organism is an action, since the turns of a tick see each other's kills.
`Genomes` and `Breaking` are sets of outcomes over every random choice, `Breaking`
from the noise, centers and bends that it is given. What is impassable is
`deep`, as in every shipped ruleset; a ruleset could name more.

**Abstractions of `Watcher`.** `Requests` counts the rounds of the beacon; here a
round is only compared with the one that the last head of its epoch asks for:
`early` has the epochs whose head asks for a later one, and it can do so for one of
two reasons: the loop waited for the lock after it had timed the close, or a batch
that ended after the close had the head signed again. `LateHeads` bounds the epochs
for which TLC tries this; the theorems hold for any. That the header has the
value of its round cannot fail for an honest server: `wait_for` verifies a
round and returns its value, and both go into the header together.

**Abstractions of `Requests`.** Time is explicit: a clock in ticks, with the
deadlines of the loop as guards of `Tick`. The clients are those of
`spark/src/main.rs`: they post one batch at a time, refresh the window and back
off as it does; they may stall and hang up. One fault (a stall, a hang-up or a
death of the server) is within the run's budget. The loop takes the time of the
close first and then waits for the intake lock for as long as it likes: the code
has no bound there, and neither the model nor a property assumes one.

**Variants.** Some definitions are preceded by a second one with the same
parameters (`AcceptsWhileOpen` before `Accepts`, `KeepsEveryHeader` before
`KeptHeaders`, ...). The specification does not use these. Each is what the code
would be with one plausible slip, and each property of a passing run is known to
fail when one of them takes the place of the definition after it; `PROJECT.json`
("mutants") says which.

## 3. The runs

`tlc -config <cfg> <module>`. Deadlock is checked except where the system may
stop: `history` (the last epoch has been saved) and `requests` (the clock has
reached its bound).

| Run | Configuration | Distinct states, depth | Question |
|---|---|---|---|
| `market` | `Market.cfg`, `MCMarket` | 3,157, 6 | are the ledger rules fair, epoch after epoch? is a packed log read back? |
| `world` | `World.cfg`, `MCWorld` | 1,913,778, 31 | does an epoch keep the books of clades, places, rifts and harm? |
| `server_race` | `ServerRace.cfg`, `MCServer` | 94,348, 28 | what do two requests do to each other and to the loop? |
| `server_crash` | `ServerCrash.cfg`, `MCServer` | 731,647, 39 | does a crash anywhere leave logs, headers, world and ledger right? |
| `server_live` | `ServerLive.cfg`, `MCServer` | 24,431, 35 | does the world go on, and does every wish reach an end? |
| `watcher` | `Watcher.cfg`, `MCWatcher` | 4,520,807, 63 | which alarms can an honest server cause, and when? |
| `history` | `History.cfg`, `MCHistory` | 522,396 | do tables, names, stories, news and answers survive a repeated epoch? |
| `requests` | `Requests.cfg`, `MCRequests` | 1,115,640, 63 | are the guard, the tickets, the queue and the beacon right in time? |
| `server_recount`, `server_phantom`, `watcher_ledger`, `check_leak` | `ServerRecount.cfg`, `ServerPhantom.cfg`, `WatcherLedger.cfg`, `CheckQueueLeak.cfg` | | counterexamples: section 5 |

**market.** Four wishes (two rains that just overlap, a revival at double price,
a migration that ends just outside another's reach), two per epoch, arrivals of
0, 8 or 20 units against a floor of 8, two beacon orders, two busy epochs and
then quiet ones for ever. In every state reached, the walk of `select` finds the
*only* set that satisfies the declarative definition of a fair choice
(`SelectionIsTheFairChoice`), and when nothing more arrives the queue drains
(`QueueDrains`), though the price may have risen above it. `PackedLogsHold`:
every log of up to a few counted sparks, with nonces at the wrap-around of a
small word and more lanes than the packer keeps, is unpacked as it was packed,
in both versions of the format.

**world.** Three cells, two clades, a rift whose cells skip a phase, room for
two in a cell and four in the world, three epochs of one tick; a wish of each
family. `CladesCount`: each clade knows how many of its members live, after
kills, drownings, plagues, crosses, revivals and births, and no id is used
again; `RoomForAll`; `RiftsOnSchedule`; `HarmRests`: a harm comes only after the
rest its cooldown promises (the run has one tick an epoch; that it is so whichever
tick the last harm ran out in is the theorem `HarmsLeaveARest`);
`PricedIffOpen`: the price and the check agree on who is protected (section 4
has these for all constants), though one compares shares rounded down and the
other products. `GenomesHold` and `BreakingPlanHolds` look at every outcome of a
small gene pool and at six small continents, straight and bent both ways, at
genesis.

**server_race.** Two handlers (interchangeable: `HandlerSymmetry`), one epoch,
no crash, failing transactions of `append`, batches with a duplicate and with an
invalid spark before a good one, one open wish per author. A spark is only in
the log of the window it was mined for (`SparksInTheirWindow`) and once
(`NoDuplicateSparks`), the limit on open wishes holds although it is checked
before the verification (`OpenPerAuthor`), and without restarts work is counted
once (`WorkCountedOnce`). `MaxEpoch = 1` still has two windows: a request can
begin in the first and end in the second, the hand-over that matters.

**server_crash.** One handler, two epochs, two starts (`MaxBoots = 2`: one
crash, anywhere, and any number of restarts that end half-way), all three
outcomes of a miracle, soft checks, the share rule, two beacon orders.
Checked: `SignedIsStored`, `HeadsExtend` (heads against logs, and against each
other); `ChainLinks` (headers against each other and against the windows);
`ReplayableWorld` (the saved world is what the published headers and miracles
give, and the headers commit to what is served); `ExecutedOnce`, `NoWorkLost`
(the ledger); `LoopInStep` (what each point of the loop relies on: the inductive
invariant of section 4); `ImplementsSealedChain` (below). Two epochs are needed:
a crash may repeat the first epoch or one that has a saved epoch before it.

*Refinement.* `SealedChain` knows one pending log and a chain of sealed epochs.
The mapping takes the snapshot as the chain (its logs, hashes and links read
from the headers) and the log of the window after it as the pending log. That
the server implements it says at once that no accepted spark disappears in a
crash, and that what was sealed *and saved* is never rewritten, while anything
sealed and not saved may be.

**server_live.** The same instance with one beacon order and no refusals; the
soft check may give up a wish at any opening, with requests between the opening
and the check. `WorldAdvances`: the last epoch is saved. `WishesSettle`: no wish
stays `selected`, a state from which no rule of the ledger would take it, and an
open wish does not outlive its last epoch. That a wish given up stays so, in the
server's ledger as in the watcher's books, is `BooksAgree`.

*Fairness of the server.* `WF(LoopStep)`: the world thread is never blocked for
good, since handlers hold the lock for bounded work and the beacon always
publishes. `WF(Start)`: `Restart=on-failure` with ten seconds between attempts,
too rarely to meet the limit of the service manager. `WF(Respond(h))`: tokio
polls every future that can go on. Nothing is assumed of clients, and crashes
are bounded only by `MaxBoots`: a server that crashes in every epoch does not
advance. A restart that ends half-way again and again is excluded by
`WF(Start)`: `Rollback` stays enabled through it.

**watcher.** A watcher polls a server that may die between any two of its reads,
over three epochs of a world of which the first is from before there were headers
(`OldEpochs = 1`: only then do the books start, section 5), pages of one epoch,
two wishes of which one may expire and the other get a second spark, and two
*natures* (a deferral and a hopeless wish; a share rule and a refusal). `LogNeverAccused`: what it says of the log itself is never false;
`AccusedForACause`: any other alarm has a cause of its own kind out of five (a
restart, a world shown before its header is sealed, a wish whose first spark came
too late, and for a beacon that came too soon after the final head a close that
waited for the lock, or a late batch that had the head signed again; none of
these can be left out). The head of the last epoch may be late (`LateHeads = {3}`).
`BooksAgree`:
without the first three its books are the server's ledger, wish by wish;
`ProofsAreExact`: the proofs of `SparkLog` against their reference definitions
for every tree up to size 9 (inclusion up to 5, consistency up to 7).

**history.** Two continents, hunters and prey, from genesis and from a world four
epochs old, with a crash between the record of an epoch and its snapshot, or
between the snapshot and its archive, and another course of the epoch
afterwards. `RollbackUndoes`, `ShowsTheWorld`, `NamesStay` (the tables),
`StoriesToldOnce` (the detectors' memory is saved with the world),
`NewsIsComplete` (a bot with a cursor misses nothing and tells nothing twice),
`AnswersAgree` (the API's answers from the world shown and from the tables).

**requests.** Two miners behind one address, a queue of three sparks, one checker,
windows of six ticks, one fault. `QueueIsBounded`, `GuardIsFair`, `BeaconIsFuture`
(section 4 has them for all constants), `CallsAreAnswered` (every call that waits
is answered or its client is gone, by the fairness of the semaphore, of the tasks
and of the runtime), `WishFormsHold` (over a set of wishes with every action, a
wish has one form in bytes). `BeaconIsFuture` says how the wait for the lock and the
beacon hang together: only a wait of the whole delay lets the window take sparks
with its round published, and the round is too early for the final head by at
most the periods waited. Both happen in the run. The bounds: an address empties its
bucket with two batches, two clients fill the queue, a batch can be late by more
than the grace.

## 4. The proofs

`tlapm <module>.tla`. Each theorem is about its specification with any constants
that satisfy the named assumptions of its module.

| Theorem | Statement | Module |
|---|---|---|
| `SelectIsTheFairChoice` | what `select` takes is the one fair choice, for any candidates, price and beacon order | `LedgerProofs` |
| `FairSelection` | `Spec => []SelectionIsTheFairChoice` | `MarketProofs` |
| `TypesHold` | `Safe => []TypeOK` | `ServerProofs` |
| `LoopStaysInStep` | `Safe => []LoopInStep` | `ServerProofs` |
| `LogsHoldTheirSparks` | `Safe => []SparksInTheirWindow` | `ServerProofs` |
| `LogsHoldSparksOnce` | `Safe => []NoDuplicateSparks` | `ServerProofs` |
| `HeadsCoverStoredSparks` | `Safe => []SignedIsStored`, if `DiskFaults = FALSE` | `ServerProofs` |
| `HeadsAreConsistent` | `Safe => HeadsExtend`, if `DiskFaults = FALSE` | `ServerProofs` |
| `HeadersAreChained` | `Safe => []ChainLinks` | `ServerProofs` |
| `WorldIsReplayable` | `Safe => []ReplayableWorld`, if `DiskFaults = FALSE` | `ServerProofs` |
| `ServerImplementsSealedChain` | `Safe => ImplementsSealedChain`, if `DiskFaults = FALSE` | `ServerProofs` |
| `AuthorsStayInBounds` | `Safe => []OpenPerAuthor` | `ServerProofs` |
| `WorkIsNeverLost` | `Safe => []NoWorkLost` | `ServerProofs` |
| `WorkIsCountedOnce` | `Safe => []WorkCountedOnce`, if `MaxBoots = 1` | `ServerProofs` |
| `WishesTakeEffectOnce` | `Safe => []ExecutedOnce` | `ServerProofs` |
| `ChecksAreBounded` | `Safe => []QueueIsBounded` | `RequestProofs` |
| `GuardStaysFair` | `Safe => []GuardIsFair` | `RequestProofs` |
| `BeaconsStayInTheFuture` | `Safe => []BeaconIsFuture` | `RequestProofs` |
| `WishesAreReadBack` | `from_bytes(to_bytes(w)) = {w}`, for every valid wish | `RequestProofs` |
| `WishesHaveTheirBytesOnly` | bytes read as a wish are that wish's, for every sequence of bytes | `RequestProofs` |
| `WishesKeepOneForm` | `Safe => []WishFormsHold` | `RequestProofs` |
| `WorldIsSound` | `Spec => []IInv`, the inductive invariant of the simulation | `WorldProofs` |
| `RiftsKeepTheirSchedule` | `Spec => []RiftsOnSchedule` | `WorldProofs` |
| `CladesAreCounted` | `Spec => []CladesCount` | `WorldProofs` |
| `ThereIsRoomForAll` | `Spec => []RoomForAll` | `WorldProofs` |
| `HarmsLeaveARest` | `Spec => HarmRests` | `WorldProofs` |
| `PriceAndCheckAgree` | `Spec => []PricedIffOpen` | `WorldProofs` |
| `Invariance` | `Spec => []IInv`, the inductive invariant of the event store, if `SavedBefore` | `HistoryProofs` |
| `RestartsUndo` | `Spec => []RollbackUndoes`, if `SavedBefore` | `HistoryProofs` |
| `TablesShowTheWorld` | `Spec => []ShowsTheWorld`, if `SavedBefore` | `HistoryProofs` |
| `NamesStayForever` | `Spec => NamesStay`, if `SavedBefore` | `HistoryProofs` |
| `NewsTellsAll` | `Spec => []NewsIsComplete`, if `SavedBefore` and `ToldBefore` | `HistoryProofs` |
| `NoStoryTwice` | `Spec => []StoriesToldOnce`, if `SavedBefore` and `ToldBefore` | `HistoryProofs` |
| `AuditPathsBindTheLeaf` | `verify_inclusion` accepts exactly the leaf that is there with the path of `inclusion_proof`, for trees of any size | `WatcherProofs` |
| `ConsistencyProofsBindTheTree` | `verify_consistency` accepts exactly the root of the first leaves with the proof of `consistency_proof` | `WatcherProofs` |
| `OnlyPrefixesVerify` | ... so exactly if the earlier tree is a prefix of the later one | `WatcherProofs` |
| `EveryGenuinePathVerifies`, `AuditPathsAreTheirOwn`, `ConsistencyMeansPrefix`, `TreesHaveOneShape` | the four parts of `ProofsAreExact`, for every bound | `WatcherProofs` |
| `ProofsHold` | `WatchSafe => []ProofsAreExact` | `WatcherProofs` |
| `LogIsNeverAccused` | `WatchSafe => []LogNeverAccused`, if `DiskFaults = FALSE` | `WatcherProofs` |
| `AccusationsHaveACause` | `WatchSafe => []AccusedForACause`, if `DiskFaults = FALSE` | `WatcherProofs` |
| `BooksAreTheLedger` | `WatchSafe => []BooksAgree`, if `DiskFaults = FALSE` | `WatcherProofs` |

`Safe` is the specification without fairness, which `Spec` implies.

**The ledger.** The walk of `select` is a recursive function over positions.
`Induction` derives induction on sets of numbers (`NatSetInduction`) and the
existence of such functions (`RecursionExists`) from the well-foundedness of
`<`, which the library states without an operator parameter; the ranking is a
strict total order because cross products of fractions are transitive
(`CrossTransitive`), so the positions are a bijection; every prefix of the walk
is a fair choice of the prefix; and two fair choices are equal, by the
best-ranked candidate on which they differ.

**The loop.** `TypeOK` is not inductive: that `header_hash(run.epoch)` finds a
header, that the window before exists when a target is computed, that
`windows[epoch]` exists at a close, all depend on where the loop is. So
`IInv == TypeOK /\ LoopInStep`. `LoopInStep` says, for each `pc`, how far apart
the world, its snapshot, the windows and the headers are; its clauses for
`down` and `starting` are what the recovery relies on, and every crash action
must establish them (`DieKeeps`). One lemma per action, joined in `NextIInv`.

**The logs and heads.** `LogStep` states the only step a log can take: it stays,
or the log of the open window gains new sparks at its end, each mined for that
window and with an id that was not in `seen`. It rests on `WindowInv`: an open
window is not packed, and every id of its log is in `seen`, also after a restart,
which fills `seen` from the stored log. What is signed covers the whole log at
that moment (`SignsWholeLogs`), because the leaves in memory are the log
(`LeavesInv`); and logs only grow at their end. `DiskFaults = FALSE` is needed
for `LeavesInv`: section 5, third item, shows what a failed transaction does.

**The chain.** `ChainLinks` is inductive relative to `IInv`. A header is written
where the headers end, so its `prev` is the one before; a window row is written
after the header of its challenge; and a restart drops the headers after the
snapshot, of which, by `WindowsSaved` in `LoopInStep`, no window knows.
`ReplayableWorld` needs `ReplayInv`: a closed window's final head covers its
whole log (`HeadsStored`, `ClosedWhole`; a head of a reopened window is plain
again, `NoneFinal`), headers commit to the logs, ledger and miracles they were
signed over, nothing published is ahead of what a restart keeps (`NothingAhead`),
and what the loop has in hand between two steps is what it will seal
(`EpochInHand`). The refinement adds that a header which a snapshot relies on is
from an earlier step of the same or an earlier process (`ChainInv`). Each step
then maps to `Accept` (an append to the pending log), to `Seal` (`Save` alone)
or to a stutter (everything else, crashes and rollbacks included).

**The wishes.** `Earned(w)` is summed from the logs of closed windows, and
`LogsPaid` says the work covers it at each `pc`: in the first run exactly, after
a restart at least. `MovesOn` is the graph of a wish's states; `MiracleInv` ties
a wish's state to the miracles recorded, to the selection in hand and to the
world: taken effect and status can only come apart while the process is down or
inside the two steps between them.

**The requests.** The queue: permits and busy checks sum to `CHECKERS`, the
counter covers the sparks of the calls that it has counted, each place in the
line belongs to a call that waits (`QueueInv`). The guard: a bucket dropped by
`purge` is full at every later time, because it was idle for at least the time
in which it fills (`GuardAssumption`); so the buckets and those never purged have
equal levels now and later (`SameLevels`). The causes of a ban (`ClientsInv`)
need how far a client's window can lag: it knows the window that was open when
it last read, and refreshes before it flushes unless it was stalled. The beacon:
`DELAY` seconds lie between a close and its round; the loop may hold the window
open for any time after it (`ScheduleInv`), and `d` periods after a close the round
is that of the close and at most `d` more (`RoundsBetween`, from the definition of
division rounded up by its two bounds, `DivCeilCovers` and `DivCeilLeast`).

**The world.** `IInv` of `WorldProofs` says of the world of the moment, with
those of its organisms that live: it is a world (`TypesHold`); no cell and no
world is too full (`Fits`) and nobody is in deep water (`Dry`); the clades' books
agree with those who live, every number was given once, and no clade has the
number of one in the museum (`Booked`); a rift is never ahead of its schedule
(`RiftsBehind`), and is on it once it has moved (`RiftsThere`); and `Resting`, below.
The properties alone are not inductive: an operation looks for room with the bodies
of a tick still lying about (`Fits` is about the living, `AllLive` holds only
between ticks); a founded clade is new because its number is above all given
ones; a rift may skip a phase because it is never *ahead*. `Resting` is needed for
`HarmRests`: while a harm has `left` ticks to go the clade has a cooldown that
covers the respite after the epoch in which it will run out (`RunsOut`, from the
ticks that are past and those left), so that only one harm runs (`OneHarm`), and
after it ran out the same cooldown is still there, or has expired because the
respite is over (`HealedRest`). That a harm's own cooldown is at least that long
is a division rounded up, `((p + n - 1) \div t)` against `ceil(n / t)`.
Loops of the code (migrations, placings, rescues, the spore bank, the miracles
of an epoch) are recursions over positions: what each of their steps keeps, they
keep (`LoopKeeps` in `Induction`), and what each keeps is a relation between two
worlds that chains. `PricedIffOpen` is arithmetic: a share rounded down is below a
number of permilles exactly when the product is.

**The tables.** `RollbackUndoes` speaks of one moment of a restart, so it needs to
know at every other moment that a rollback *would* bring the saved tables back;
and `ShowsTheWorld` holds after a restart only because it held when the snapshot
was saved. `IInv` of `HistoryProofs` says both. `Good(t, w, lost)`: the tables show
world `w`, nothing in them is later than its epoch, names are in order (no two
alike, and no number of a combination beyond those taken), except for the rows of
clades of lost epochs. `HasSaved`: the tables kept with the snapshot are `Good`, and
`CanBeUndone`: `rollback_after` applied to the tables now gives those, wherever the
process is. `AtTheSnapshot`: between a start and the next record they already agree.
An epoch is followed once: births and deaths keep `Underway`, so the epoch's end
`Follows` from its beginning (who was there lives or has died, who has come has the
next numbers; the `Newborn` rule of `record_epoch` finds exactly those by taking
every id above the highest of before). From that, `EpochGood`: the tables after
`record_epoch` are `Good` for the new world, and rolled back they are what they
were. `give_name` numbers the clades of a combination in their order
(`GiveNames`): the next free number is the count of those that have one, because
no number is skipped, and a rollback that takes back the newest names skips none.
TLC finds `IInv` true in all states of the run `history`.

**The news.** `NewsIsComplete` and `StoriesToldOnce` speak of the tables alone,
but what an epoch tells depends on what the process remembers: the last hour's
leader (`hour_dominant`), the detectors' leader and their track of every clade.
`NewsInv` says that each of these memories is what the tables would give. The
detectors' leader is that of the header of the last full hour at which anyone lived,
`hour_dominant` that of the last full hour (`LeaderKnown`, one epoch behind between
`Step` and `Publish`), and a story that comes once is known to its clade's track
while the clade lives (`Remembers`); the clades that fell have numbers no later
clade gets. `GoesOn` says this of tables, a world and a memory, and holds of
two triples: the process's own and the snapshot's, which is why a restart loses and
repeats nothing. `Holds` says what the tables tell: of leaders as the headers do
(`FeedHolds`), nothing twice (`ToldOnce`). An epoch keeps both (`FeedAfterEpoch`,
`StoriesAfterEpoch`). For the bot: ids are above every id ever given
(`NumbersGoOn`; `last_event` survives a rollback), so nothing new is at or below its
cursor, and a page has every event up to its last (`PageIsComplete`). `NewsInv`
needs `IInv`: that the rolled-back tables are the kept ones, and that an epoch
`Follows` the one before. TLC finds it true in all states of the run `history`.

**The spark log.** The tree, the paths and the loops that verify them are
recursions of five kinds; `DescentExists` gives each its function and a recursive
equation. A hash is a term, so two nodes are equal exactly if their children are,
and over a span exactly if its leaves are (`SameNode`). The verifier never sees a
span, only two numbers that it halves; `InSpan` says what they are: the node's
place among the nodes of a power of two `c`, and that of the last leaf's. From a
left part the next element stands to the right, from a right part to the left, and
the levels it skips then are those at which the last, incomplete subtree has no
sibling (`StepFromLeft`, `StepFromRight`). So by induction over the size of the span
(`ClimbedSpan`) the root computed at a span is the tree's exactly if the leaf and
the elements so far are; after the last element the place is the top exactly if
there were as many elements as levels. A consistency proof starts at the last
complete subtree of the old tree, at level `q` where the old size is an odd number
times `q` (`OddPart`, `UpIs`), and carries two roots up (`BothClimbedSpan`). The
argument holds for any path, also one that is too long or too short.

**The watcher.** A step of server and watcher together is a step of the server or
leaves it alone (`WatchStepIsServerStep`), so what section 4 proves of the server
holds beside a watcher. `ServedInv` collects what a reader builds on, and adds
`ServingWhole`: the window in memory always has a head over all of its log, also
one that a restart has opened again, so that the latest head is over the whole log
(`ServedHeadIsWhole`). The invariant `WatchInv` says what the watcher may know
while any number of steps, crashes and restarts pass between its requests:
every head it keeps is one over a part of the log of its epoch (`Faithful`), which
stays true because logs only grow (`LogsGrow`); every header on its page that has
one before it names the challenge of its epoch (`PrevIsChallenge`), which stays
true though the header itself may be deleted and signed anew, because a window
keeps its challenge (`ChallengesStay`). A head over the whole log gives no alarm
beside a `Faithful` one (`WholeHeadIsQuiet`; that its consistency proof verifies is
`ConsistencyProofsBindTheTree`), nor do the headers, one after the other
(`CheckAllQuietly`), and closing the books finds no wrong challenge and no spark
below its target (`CloseQuietly`). `BooksHold` is the reason for the third
counterexample of section 5: in a world without old epochs no header that `replay`
looks at has zeros before it.

**The watcher's books.** Server and watcher keep one ledger by two programs: the
server in place, over many steps of its loop and of the requests between them; the
watcher an epoch at a time, from the logs. `FollowsServer(B, d)` ties them: `B` is a
sequence of books from new ones on, each `Followed` from the one before by the
watcher's own rules, and the header of each sealed epoch has the root of its books
and the miracles that they select. `StageAt(B, d)` says where the server's table is
on the way from `B[d]` to the next books, stage by stage: the credit after the close
(`CloseAgrees`), the choice (`SelectAgrees`; both rank the same candidates because
the share rule closes the same wishes), the outcomes (`RecordAgrees`), the soft
check (`SoftAgrees`). While a window is open they differ in the wishes that `JustCame`
with a spark in it, which are not hopeless, so the soft check leaves them alone.
Each step of the server keeps both or adds one element to `B`
(`LedgerStep`); it fails only where a wish is stored after its window closed,
the excuse `sparkless`. On the watcher's side, what it has read of a page stays what
the server shows while the server goes on (`PageKept`, `SealedStays`); the world of
the page is replayed to the same world if all headers of the page were there
(`StepsTheSame`, else the excuse `unsealed`); closing the books on a log finds
nothing (`CloseClean`; targets follow from the counts, `TargetsFollow`); and
if its books are `B[e - 1]`, they are `B[e]` after epoch `e` (`BooksFollow`).
The headers checked are linked without a gap (`CheckAllChained`). `AccusedInv` is
all of this under the excuses; a restart ends it, so it claims nothing after
one. The rounds need little: an epoch is `early` only by a step that leaves its cause
(`EarlyExcused`), and the header that the watcher has is the one served. Needed of
the server besides, whatever restarts there are (`SteadyInv`): that the API shows the world in memory (`LiveIsShown`), that a spark seen has a wish
in the table (`SeenKnown`) and that a wish without a row has no work (`NoneIdle`).
TLC finds the watcher's part of the invariant (`KeepsUp`, `BooksKeepUp`, `PageKept`)
true in all states of the run `watcher`.

**The bytes of a wish.** `Layout(b, w, last, hyp, end)` says where the numbers of a
wish stand in bytes `b`: its action up to `last`, its hypothesis up to `hyp`, its
name up to `end`, which is the length of `b`. Written bytes are laid out so
(`BytesAreLaidOut`, over the parts of a concatenation); what is laid out as a valid
wish is read as that wish (`LaidOutIsRead`); whatever is read as a wish is laid out
as that wish (`ReadIsLaidOut`); and a wish has one layout only (`OneLayout`). The
first two give `WishesAreReadBack`, the others with the first
`WishesHaveTheirBytesOnly`. The check for bytes left over is what makes `end` the
length: without it the second fails, as the run's mutant does.

*Attempts that failed usefully.* `PricedIffOpen` once left out the rulesets
without patrons, whose check refuses every harm while the price is none as well:
the proof over all rules found it, the run's instance has patrons. `GuardIsFair`
once named two causes of a ban: a restart and a batch that was long on its way.
The proof showed a third that TLC did not reach within the run's bound: a miner
that slept through a whole window and wakes while none is open posts the sparks
of a window older than the one the server remembers. The statement has the three
causes now. `AccusedForACause` once held a late first spark to be the cause of one
alarm only, a ledger that does not replay. The invariant its proof would need
showed another: the server's soft check can give such a wish up before its first
spark comes, the books take it in with that spark, and they select it where the
server does not. TLC found this as soon as the run let such a spark come. Of the tables, the proof found that a clade may have a name without
having reached the threshold (section 5, *History*); `ShowsTheWorld` excepts the
ids of lost clades, which the run with one birth in an epoch never needed. And a
prefix `UNION` before `\cup` is read differently by SANY and by tlapm; the
modules write parentheses there.

**Assumptions.** `IntakeAssumption`, `ServerAssumption`, those of `Ledger`:
types, and at least one wish per epoch. `DiskFaults = FALSE`: no transaction of
`append` fails (a failing disk; `server_race` has it fail). `MaxBoots = 1`: the
process is not started again (the counterexample of section 5 otherwise).
`GuardAssumption`: rates and sizes of the buckets, and that `IDLE` seconds refill
each (in the code: 60 seconds, where every bucket is full after four).
`StoriesAssumption`: positive periods, and at least one hunter for an arms race (a
ruleset of 125 organisms or more; the code would divide by zero hunters in a
smaller one). `WishesAssumption`: the wishes tried are ones the type `Wish` can hold.
`ChoiceAssumption`: the candidates of `Market` are well-formed and
the beacon orders them. `RulesAssumption`: what `Ruleset::validate` asks, and
positive durations of weather and of the patrons' effects, which every shipped
ruleset has and `validate` does not ask for. `WorldAssumption`: the founders are
on land and fit, a cell and the world (again every shipped ruleset; `validate`
does not compare them with `max_organisms`), and no scheduled cell starts deep.
`HistoryAssumption`: positive periods, and a name is not `NULL`.
`FirstWorldsAssumption`: in a new world everyone who was ever numbered lives.
`SavedBefore`, a hypothesis of the theorems and not of the model: what the first
server finds saved are tables that show their world, and a saved world is not
`NULL`; TLC finds the tables of `MCOldWorld`, made by recording four epochs, to be
so. `ToldBefore`, likewise: they have told of leaders as their headers do and
nothing twice, and the saved memory is that of those tables. `HistoryProofs` proves
that the program leaves such tables and such a memory behind at each save.

**Model-checked only.** Liveness (`WorldAdvances`, `WishesSettle`,
`QueueDrains`, `CallsAreAnswered`) is beyond the prover, and so is `ENABLED`.
So are the encodings and the outcomes whose definitions are folds over their data:
packed logs (`PackedLogsHold`), the gene pool and the map (`GenomesHold`,
`BreakingPlanHolds`). Of the history, the answers to readers (`AnswersAgree`) are
model-checked so far.

## 5. Where the code and its documents disagree

Four runs end in a counterexample: each checks a sentence of a comment or of a
document against what the code does.

- **Work counted twice** (`server_recount`, `WorkCountedOnce`). The protocol
  adds the weight of the final tree to `W[p]` once per epoch. After a crash
  between `close_window` and `save` the window is opened and closed again, and
  the sparks of the first close are added a second time. `NoWorkLost` shows
  that nothing worse happens: work is only ever too high.
- **Leaves without a row** (`server_phantom`, `LeavesAreTheLog`). `append`
  pushes leaf hashes as it inserts rows; if the transaction fails they stay,
  though `leaves` is documented as the hashes of the log. Later heads then
  cover a spark that is not stored.
- **A ledger never followed** (`watcher_ledger`, `FollowsTheLedger`). The watcher
  turns its books on at the header whose previous hash is zero. On a world whose
  chain starts at genesis that is the header of epoch 0, which `replay`, looking
  at epochs from 1 on, never sees.
- **A queue that shrinks** (`check_leak`, `CounterIsTheQueue`). `check_pow`
  gives its place in `QUEUED` back after its awaits. If the client goes away
  there, the sparks stay counted although they no longer wait.

Noted while modelling and proving, without a run of their own:

- *Server.* `propose` says a wish is created only with its first spark; if the
  window moves on while that spark is verified the wish is stored and the spark
  refused. A window that was closed, and whose final head was out, takes sparks
  again after a restart, while `docs/spec/spec-v0.2.md` section 20 says that none
  are accepted after the close; `HeadsExtend` shows that the heads stay
  consistent all the same. A late batch answered after the close signs a plain
  head over the final one; `HeadsStored` shows that this is harmless. A header
  that was sealed and not saved is deleted and signed anew. `docs/protocol.md`
  section 7 puts deferred wishes into the ready set whatever their price; the code
  compares the work of every queued wish with the current price. `rollback_after`
  does not bring back wishes that the repeated epoch's soft check or refusal has
  invalidated.
- *Handlers.* An honest miner can be banned for one of three causes
  (`BannedForACause`), though the head of `intake_api.rs` says an honest client
  never sends what is banned for. The permit of `CHECKERS` belongs to the future
  and not to the task: when a client disconnects during a check, the task goes on
  (`orphans`) and a further one may start. A batch with the same spark twice is
  answered `E_DUPLICATE` for both, although it is recorded. The close is timed, and
  its round fixed, before the loop waits for the lock; the final head is stamped
  after. When a beacon period begins between them the round does not come ten
  seconds after the head, as the watcher's README promises, and the watcher says so
  of an honest world; when the wait outlasts the delay, sparks are taken with the
  round published. `BeaconIsFuture` says by how much each can happen, not that
  neither does.
- *Watcher.* "An honest world passes" (`watcher/README.md`) has exceptions: the
  world is shown before its header is sealed (`world.rs` publishes first); a
  wish without a counted spark is in the signed ledger and not in the watcher's
  books, and if the soft check gives it up before its first spark comes, the
  watcher lets it compete where the server does not; a loop that waited for the lock,
  or a batch that ended after the close and had the head of the closed window signed
  again, makes the round look too early; after a restart several alarms are
  possible, but none about the log.
- *History.* Rows of clades founded in a lost epoch survive the rollback
  (`founded_epoch > e`); a later clade with the same id keeps the lost one's
  parent, name and founding. Such a row also keeps the peak it had in the lost
  epoch, so `backfill_names` may name it at the restart, and a clade that gets
  the id later bears the name before it has reached the threshold. The oldest
  frame dropped for a lost epoch is not brought back. The first hour's leader
  differs between the feed and the headers. A crossing's "epochs in a row" are
  not counted anew when the members abroad fall to none. The archive of a
  snapshot is written after `latest.json` and not atomically: a crash leaves a
  hole or a cut-short file for good. The feed's `next` is 0 on an empty page,
  and 0 means the newest.
- *Simulation.* `validate` accepts durations of zero for weather and for the
  patrons' effects, a bridge radius of zero and founders that exceed
  `max_organisms`; `is_transient` counts "too few of the clade in the area" and
  "the clade is protected" as permanent, though both can pass; `soft_check`
  allows eight traits in an edit where `edited` allows six. `next_target` moves
  by quarters rounded down: a target of at most 3 can never rise again.

## 6. What is not modelled

- Energy, fights, the scoring of moves, climate, noise and the random generator
  (`core/`): numerical code. What the books depend on is a free choice in `World`.
- Hash functions, Ed25519 and the BLS check of the beacon: symbolic or absent.
- The stand-in beacon of a server without drand (`drand = false`, round 0): the loop
  then waits for no round, and the watcher compares the value with the world's.
- Two more points at which the process or one of its writes may fail: between the
  commit of `append` and its head inside `propose` (`sparks` has this crash,
  `CrashInAppend`), and `sign_head` failing after the commit, which leaves rows
  without a head of theirs until the next one, as that crash does.
- The handlers that only read the intake, the migration of old databases, the
  page and its password, the visits, the proofs of the world state in the API.
- The miner's threads and receipts; the bots that wish.
- The viewer (TypeScript in a browser) and the harness (experiments): no state
  of the system.

## 7. Plan

1. Prove what the answers to readers say (`AnswersAgree`), from `IInv` of
   `HistoryProofs`.
2. Split `Requests` so that the timing of several faults can be checked.
