------------------------------ MODULE History ------------------------------
(***************************************************************************)
(* What the server records of its world (server/src/store.rs, model.rs,    *)
(* names.rs), how the world loop writes it (world.rs) and how the news of  *)
(* the bot follow it (bot/protogaea_bot.py).                               *)
(*                                                                         *)
(* record_epoch writes an epoch in one transaction, save replaces the      *)
(* snapshot of the world and of the detectors after it and now and then    *)
(* archives it, and a restart rolls the tables back to the snapshot.  The  *)
(* epoch is then run again, with another beacon, so with another course:   *)
(* here the course of every epoch is chosen anew, from births, deaths and  *)
(* spores.                                                                 *)
(*                                                                         *)
(* Events that only name a place (natural events, miracles, phases) are    *)
(* written and rolled back like the others and left out; so are the wishes,*)
(* which are module Server's.                                              *)
(***************************************************************************)
EXTENDS Stories, Functions

CONSTANTS
    Combo,            \* of a genome: what its clade is named by
    NAME_THRESHOLD, MULLER_EVERY, FRAMES_KEPT, DOMINANT_EVERY, ARCHIVE_EVERY,
    BridgesClose,     \* epochs at whose end a land bridge is gone
    PAGE,             \* events read at a time by the bot
    NewGenomes,       \* genomes of the organisms born
    MaxSteps, MaxOrganisms, MaxBirths, MaxBoots,  \* bounds
    MaxChanges,       \* bound: births and deaths in an epoch
    Beginnings        \* what was saved when the first server starts

ASSUME HistoryAssumption ==
    /\ {MULLER_EVERY, FRAMES_KEPT, DOMINANT_EVERY, ARCHIVE_EVERY, PAGE} \subseteq Nat \ {0}
    /\ DOMINANT_EVERY = HOUR
    /\ {NAME_THRESHOLD, MaxBirths} \subseteq Nat
    /\ GREAT >= NAME_THRESHOLD
    /\ NewGenomes \subseteq DOMAIN Combo
    /\ NULL \notin Nat \cup [combo : {Combo[g] : g \in DOMAIN Combo}, k : Nat]

VARIABLES
    tables,           \* protogaea.db
    snapshot,         \* latest.json: [world, detectors], or NULL
    archived,         \* snapshots/: worlds by epoch, NULL where a file is cut short
    pc,               \* where the world loop is
    world, detectors, \* of the running process
    hour_dominant,    \* Live.hour_dominant
    boots,
    cursor,           \* of the bot; NULL before its first run
    told,             \* history: the recorded events the bot has told
    since,            \* history: its first cursor
    kept,             \* history: the tables when the snapshot was saved
    lost,             \* history: ids of clades founded in epochs that were rolled back
    until             \* bound: the last epoch of this behaviour

vars == <<tables, snapshot, archived, pc, world, detectors, hour_dominant, boots, cursor, told, since, kept, lost, until>>

\* A table with a row put into it.
Put(f, x, y) == [z \in DOMAIN f \cup {x} |-> IF z = x THEN y ELSE f[z]]

\* The numbers of a finite set in order.
Ascending(S) ==
    [n \in 1..Cardinality(S) |-> CHOOSE x \in S : Cardinality({y \in S : y < x}) = n - 1]

(***************************************************************************)
(* The world: what an epoch may do to it.                                  *)
(***************************************************************************)
Organism(id, c, plate, genome) == [id |-> id, clade |-> c, plate |-> plate, genome |-> genome]

NoReport == [founded |-> {}, extinct |-> <<>>, died |-> {}, bridges_closed |-> FALSE, revival |-> FALSE]

\* A birth: of a clade with living members, or from the spores; another genome
\* founds a clade.
Bears(w, parent) == parent = 0 \/ \E o \in w.organisms : o.clade = parent

Born(st, b) ==
    LET w == st.world
        id == w.next_organism_id
        founds == b.parent = 0 \/ b.genome # w.clades[b.parent].reference
        c == IF founds THEN w.next_clade_id ELSE b.parent
        living == IF founds THEN 1 ELSE w.clades[c].living + 1
        clade == IF founds THEN [parent |-> b.parent, founded |-> w.epoch, reference |-> b.genome,
                                 living |-> 1, peak |-> 1]
                 ELSE [w.clades[c] EXCEPT !.living = living, !.peak = IF @ > living THEN @ ELSE living]
        baby == Organism(id, c, b.plate, b.genome)
    IN IF ~Bears(w, b.parent) THEN st ELSE
       [st EXCEPT !.world.organisms = @ \cup {baby},
                  !.world.clades = Put(@, c, clade),
                  !.world.next_organism_id = id + 1,
                  !.world.next_clade_id = IF founds THEN @ + 1 ELSE @,
                  !.report.founded = IF founds THEN @ \cup {c} ELSE @,
                  !.report.revival = @ \/ b.parent = 0,
                  !.dying = IF b.dies THEN @ \cup {id} ELSE @]

Die(st, ids) ==
    LET dead == {o \in st.world.organisms : o.id \in ids}
        clades == st.world.clades
        left == [c \in DOMAIN clades |->
                    [clades[c] EXCEPT !.living = @ - Cardinality({o \in dead : o.clade = c})]]
    IN [st EXCEPT !.world.organisms = @ \ dead,
                  !.world.clades = left,
                  !.report.died = @ \cup dead]

Closed(st) ==
    LET gone == {c \in DOMAIN st.world.clades : st.world.clades[c].living = 0}
    IN [st EXCEPT !.world.clades = [c \in DOMAIN @ \ gone |-> @[c]],
                  !.report.extinct = [c \in gone |-> st.world.clades[c]]]

\* The deaths of a course come before its births or after them.
Lived(w, course) ==
    LET next == w.epoch + 1
        start == [world |-> w, dying |-> {},
                  report |-> [NoReport EXCEPT !.bridges_closed = next \in BridgesClose]]
        before == IF course.early THEN Die(start, course.deaths) ELSE start
        born[n \in 0..Len(course.births)] ==
            IF n = 0 THEN before ELSE Born(born[n - 1], course.births[n])
        births == born[Len(course.births)]
        after == Die(births, births.dying \cup IF course.early THEN {} ELSE course.deaths)
        end == Closed(after)
    IN [world |-> [end.world EXCEPT !.epoch = next], report |-> end.report]

\* Clades with members when the epoch begins, or the spores; and clades founded
\* in this epoch.
Founders(w) == IF w.organisms = {} THEN {0} ELSE {o.clade : o \in w.organisms}
                   \cup w.next_clade_id..(w.next_clade_id + MaxBirths - 2)
Births(w) == [parent : Founders(w), plate : Plates, genome : NewGenomes, dies : BOOLEAN]

Courses(w) ==
    {course \in [births : UNION {[1..n -> Births(w)] : n \in 0..MaxBirths},
                 deaths : SUBSET {o.id : o \in w.organisms}, early : BOOLEAN] :
        /\ \/ Len(course.births) + Cardinality(course.deaths) <= MaxChanges[w.epoch + 1]
           \/ course.births = <<>> /\ course.deaths = {o.id : o \in w.organisms}
        /\ Cardinality(w.organisms) + Len(course.births) <= MaxOrganisms
        /\ course.early => course.births # <<>> /\ course.deaths # {}}

(***************************************************************************)
(* model.rs: the header and the events of an epoch.                        *)
(***************************************************************************)
Header(w) == [epoch |-> w.epoch, population |-> Cardinality(w.organisms),
              clades |-> Cardinality(DOMAIN w.clades),
              dominant |-> IF LeaderOf(w) = NULL THEN 0 ELSE LeaderOf(w)]

IsNamed(peak) == peak >= NAME_THRESHOLD

Event(kind, c, from) == [kind |-> kind, clade |-> c, from |-> from]

Events(before, dominant, w, report) ==
    LET Each(kind, S) == LET ids == Ascending(S) IN [i \in DOMAIN ids |-> Event(kind, ids[i], NULL)]
        One(condition, event) == IF condition THEN <<event>> ELSE <<>>
        was(c) == IF c \in DOMAIN before.clades THEN before.clades[c].peak ELSE 0
        h == Header(w)
    IN Each("clade_founded", report.founded)
       \o Each("clade_named", {c \in DOMAIN w.clades : IsNamed(w.clades[c].peak) /\ ~IsNamed(was(c))})
       \o Each("clade_extinct", DOMAIN report.extinct)
       \o One(h.epoch % DOMINANT_EVERY = 0 /\ h.dominant # dominant /\ h.population > 0,
              Event("dominant_changed", h.dominant, dominant))
       \o One(report.bridges_closed, Event("bridge_closed", NULL, NULL))
       \o One(report.revival, Event("revival", NULL, NULL))

(***************************************************************************)
(* store.rs and names.rs.                                                  *)
(***************************************************************************)
Empty == [epochs |-> <<>>, events |-> {}, last_event |-> 0, clades |-> <<>>, organisms |-> <<>>,
          frames |-> {}, stories |-> {}, muller |-> <<>>]

\* AUTOINCREMENT: an id is never given twice, also after a delete.
IdsFromTheTable(t) == IF t.events = {} THEN 0 ELSE Max({e.id : e \in t.events})
LastEventId(t) == t.last_event

WithEvents(t, e, events) ==
    [t EXCEPT !.events = @ \cup {[id |-> LastEventId(t) + i, epoch |-> e, kind |-> events[i].kind,
                                  clade |-> events[i].clade, from |-> events[i].from] :
                                     i \in DOMAIN events},
              !.last_event = LastEventId(t) + Len(events)]

\* How many clades of a combination are named.
Taken(rows, combo) ==
    Cardinality({c \in DOMAIN rows : rows[c].name # NULL /\ rows[c].name.combo = combo})

\* Clades are given the next free names of their combinations one after the
\* other, in the order of the epochs they have had them since, and of their ids.
give_name(rows, genome, given) ==
    LET Earlier(c) ==
            {d \in DOMAIN given : /\ Combo[genome[d]] = Combo[genome[c]]
                                  /\ given[d] < given[c] \/ (given[d] = given[c] /\ d < c)}
        name(c) == [combo |-> Combo[genome[c]],
                    k |-> Taken(rows, Combo[genome[c]]) + Cardinality(Earlier(c))]
    IN [c \in DOMAIN rows |-> IF c \in DOMAIN given
                              THEN [rows[c] EXCEPT !.name = name(c), !.named = given[c]]
                              ELSE rows[c]]

EvenIfNamed(rows, c) == c \in DOMAIN rows
Unnamed(rows, c) == c \in DOMAIN rows /\ rows[c].name = NULL

name_new(rows, clades, e) ==
    LET new == {c \in DOMAIN clades : IsNamed(clades[c].peak) /\ Unnamed(rows, c)}
    IN give_name(rows, [c \in new |-> clades[c].reference], [c \in new |-> e])

\* New clades get a row; one that is left from an epoch rolled back is kept.
insert_clade(rows, new, clades) ==
    [c \in DOMAIN rows \cup new |->
        IF c \notin new THEN rows[c]
        ELSE IF c \in DOMAIN rows
             THEN [rows[c] EXCEPT !.living = clades[c].living, !.peak = clades[c].peak]
        ELSE [parent |-> clades[c].parent, founded |-> clades[c].founded,
              reference |-> clades[c].reference, living |-> clades[c].living,
              peak |-> clades[c].peak, extinct |-> NULL, name |-> NULL, named |-> NULL]]

Counted(rows, clades) ==
    [c \in DOMAIN rows |-> IF c \in DOMAIN clades
                           THEN [rows[c] EXCEPT !.living = clades[c].living, !.peak = clades[c].peak]
                           ELSE rows[c]]

Ended(rows, extinct, e) ==
    [c \in DOMAIN rows |-> IF c \in DOMAIN extinct
                           THEN [rows[c] EXCEPT !.living = 0, !.peak = extinct[c].peak, !.extinct = e]
                           ELSE rows[c]]

insert_organism(o, e) == [clade |-> o.clade, genome |-> o.genome, born |-> e, died |-> NULL]

Muller(t, w) ==
    IF w.epoch % MULLER_EVERY = 0
    THEN [t EXCEPT !.muller = Put(@, w.epoch, [c \in DOMAIN w.clades |-> w.clades[c].living])]
    ELSE t

record_genesis(t, w) ==
    LET rows == insert_clade(t.clades, DOMAIN w.clades, w.clades)
    IN Muller([t EXCEPT !.epochs = Put(@, 0, Header(w)),
                        !.clades = name_new(rows, w.clades, 0),
                        !.organisms = [i \in {o.id : o \in w.organisms} |->
                            insert_organism(CHOOSE o \in w.organisms : o.id = i, 0)]], w)

\* Living or dead at the end of the epoch, whoever has a higher id than all
\* organisms had before it.
LivingNewborn(before, w, report) == {o \in w.organisms : \A a \in before.organisms : o.id > a.id}
Newborn(before, w, report) ==
    {o \in w.organisms \cup report.died : \A a \in before.organisms : o.id > a.id}

Frames(frames, e) == {f \in frames \cup {e} : f >= e - FRAMES_KEPT}

record_epoch(t, before, w, report, events, stories) ==
    LET e == w.epoch
        clades == [c \in DOMAIN w.clades \cup DOMAIN report.extinct |->
                      IF c \in DOMAIN w.clades THEN w.clades[c] ELSE report.extinct[c]]
        founded == insert_clade(t.clades, report.founded, clades)
        rows == Ended(Counted(founded, w.clades), report.extinct, e)
        newborn == Newborn(before, w, report)
        inserted == [i \in DOMAIN t.organisms \cup {o.id : o \in newborn} |->
                        IF i \in {o.id : o \in newborn}
                        THEN insert_organism(CHOOSE o \in newborn : o.id = i, e)
                        ELSE t.organisms[i]]
    IN Muller([WithEvents(t, e, events) EXCEPT
                 !.epochs = Put(@, e, Header(w)),
                 !.clades = name_new(rows, clades, e),
                 !.organisms = [i \in DOMAIN inserted |->
                     IF i \in {o.id : o \in report.died} THEN [inserted[i] EXCEPT !.died = e]
                     ELSE inserted[i]],
                 !.stories = @ \cup stories,
                 !.frames = Frames(@, e)], w)

(* rollback_after *)
UpTo(f, e) == [x \in {d \in DOMAIN f : d <= e} |-> f[x]]
StaysDead(row, e) == row
Revived(row, e) == IF row.died # NULL /\ row.died > e THEN [row EXCEPT !.died = NULL] ELSE row
Unended(row, e) == IF row.extinct # NULL /\ row.extinct > e THEN [row EXCEPT !.extinct = NULL] ELSE row
NotYetNamed(row, e) ==
    IF row.named # NULL /\ row.named > e THEN [row EXCEPT !.name = NULL, !.named = NULL] ELSE row

rollback_after(t, w) ==
    LET e == w.epoch
        born == {i \in DOMAIN t.organisms : t.organisms[i].born <= e}
        founded == {c \in DOMAIN t.clades : t.clades[c].founded <= e}
    IN [t EXCEPT !.epochs = UpTo(@, e),
                 !.events = {x \in @ : x.epoch <= e},
                 !.stories = {s \in @ : s.epoch <= e},
                 !.frames = {f \in @ : f <= e},
                 !.muller = UpTo(@, e),
                 !.organisms = [i \in born |-> Revived(@[i], e)],
                 !.clades = Counted([c \in founded |-> NotYetNamed(Unended(@[c], e), e)], w.clades)]

backfill_names(t) ==
    LET pending == {c \in DOMAIN t.clades : t.clades[c].name = NULL /\ IsNamed(t.clades[c].peak)}
        announced(c) == {x.epoch : x \in {y \in t.events : y.kind = "clade_named" /\ y.clade = c}}
        named == [c \in pending |-> IF announced(c) # {} THEN Min(announced(c)) ELSE t.clades[c].founded]
    IN [t EXCEPT !.clades = give_name(@, [c \in pending |-> @[c].reference], named)]

(***************************************************************************)
(* start.                                                                  *)
(***************************************************************************)
NoWorld == [epoch |-> 0, organisms |-> {}, clades |-> <<>>, next_organism_id |-> 1, next_clade_id |-> 1]

\* Of a world from before this server: the tables and the memory that its
\* epochs, lived one after the other, have left.
Recorded(st, course) ==
    LET lived == Lived(st.world, course)
        seen == observe(st.detectors, lived.world, lived.report)
    IN [world |-> lived.world,
        detectors |-> seen.detectors,
        hour_dominant |-> IF lived.world.epoch % DOMINANT_EVERY = 0 THEN Header(lived.world).dominant
                          ELSE st.hour_dominant,
        tables |-> record_epoch(st.tables, st.world, lived.world, lived.report,
                                Events(st.world, st.hour_dominant, lived.world, lived.report),
                                seen.stories)]

Saved(st, course) ==
    LET next == Recorded(st, course)
    IN next @@ [archived |-> IF next.world.epoch % ARCHIVE_EVERY = 0
                             THEN Put(st.archived, next.world.epoch, next.world) ELSE st.archived]

Genesis(w) == [world |-> w, detectors |-> NewDetectors, hour_dominant |-> Header(w).dominant,
               tables |-> record_genesis(Empty, w), archived |-> 0 :> w]

ProcessLost == world' = NoWorld /\ detectors' = NewDetectors /\ hour_dominant' = NULL

\* No snapshot: everything is cleared, and genesis is recorded, then saved.
Create(w) ==
    /\ pc = "down" /\ snapshot = NULL /\ boots < MaxBoots
    /\ pc' = "born"
    /\ boots' = boots + 1
    /\ world' = w /\ detectors' = NewDetectors
    /\ tables' = [record_genesis(Empty, w) EXCEPT !.last_event = tables.last_event]
    /\ UNCHANGED <<snapshot, archived, hour_dominant, cursor, told, since, kept, lost, until>>

SaveGenesis ==
    /\ pc = "born"
    /\ pc' = "archiving"
    /\ snapshot' = [world |-> world, detectors |-> detectors]
    /\ kept' = tables
    /\ UNCHANGED <<tables, archived, world, detectors, hour_dominant, boots, cursor, told, since, lost, until>>

Rollback ==
    /\ pc = "down" /\ snapshot # NULL /\ boots < MaxBoots
    /\ pc' = "undone"
    /\ boots' = boots + 1
    /\ world' = snapshot.world /\ detectors' = snapshot.detectors
    /\ tables' = rollback_after(tables, snapshot.world)
    /\ told' = told \cap tables'.events
    /\ lost' = lost \cup {c \in DOMAIN tables.clades : c >= snapshot.world.next_clade_id}
    /\ UNCHANGED <<snapshot, archived, hour_dominant, cursor, since, kept, until>>

\* The header of the last full hour, or the current one.
HourDominant(t, w) ==
    LET hour == (w.epoch \div DOMINANT_EVERY) * DOMINANT_EVERY
    IN IF hour \in DOMAIN t.epochs THEN t.epochs[hour].dominant ELSE Header(w).dominant

Resume ==
    /\ pc = "undone"
    /\ pc' = "wait"
    /\ tables' = backfill_names(tables)
    /\ hour_dominant' = HourDominant(tables', world)
    /\ UNCHANGED <<snapshot, archived, world, detectors, boots, cursor, told, since, kept, lost, until>>

(***************************************************************************)
(* run_loop: step and record, publish, save and archive.                   *)
(***************************************************************************)
Step ==
    /\ pc = "wait" /\ world.epoch < until
    /\ pc' = "recorded"
    /\ \E course \in Courses(world) :
          LET next == Recorded([world |-> world, detectors |-> detectors, tables |-> tables,
                                hour_dominant |-> hour_dominant], course)
          IN world' = next.world /\ detectors' = next.detectors /\ tables' = next.tables
    /\ UNCHANGED <<snapshot, archived, hour_dominant, boots, cursor, told, since, kept, lost, until>>

Publish ==
    /\ pc = "recorded"
    /\ pc' = "shown"
    /\ hour_dominant' = IF world.epoch % DOMINANT_EVERY = 0 THEN Header(world).dominant ELSE hour_dominant
    /\ UNCHANGED <<tables, snapshot, archived, world, detectors, boots, cursor, told, since, kept, lost, until>>

Save ==
    /\ pc = "shown"
    /\ pc' = IF world.epoch % ARCHIVE_EVERY = 0 THEN "archiving" ELSE "wait"
    /\ snapshot' = [world |-> world, detectors |-> detectors]
    /\ kept' = tables
    /\ UNCHANGED <<tables, archived, world, detectors, hour_dominant, boots, cursor, told, since, lost, until>>

\* save, its second half: only latest.json is replaced whole.
Starting == hour_dominant = NULL

Archive ==
    /\ pc = "archiving"
    /\ pc' = IF Starting THEN "undone" ELSE "wait"
    /\ archived' = Put(archived, world.epoch, world)
    /\ UNCHANGED <<tables, snapshot, world, detectors, hour_dominant, boots, cursor, told, since, kept, lost, until>>

Crash ==
    /\ pc # "down"
    /\ pc' = "down"
    /\ ProcessLost
    /\ archived' \in {archived} \cup IF pc = "archiving" THEN {Put(archived, world.epoch, NULL)} ELSE {}
    /\ UNCHANGED <<tables, snapshot, boots, cursor, told, since, kept, lost, until>>

(***************************************************************************)
(* The bot: Bot.news, a page of events at a time.                          *)
(***************************************************************************)
Serving == pc \in {"wait", "recorded", "shown", "archiving"} /\ ~Starting

\* The first run starts from now.
FirstNews ==
    /\ Serving /\ cursor = NULL
    /\ cursor' = IF tables.events = {} THEN 0 ELSE Max({e.id : e \in tables.events})
    /\ since' = cursor'
    /\ UNCHANGED <<tables, snapshot, archived, pc, world, detectors, hour_dominant, boots, told, kept, lost, until>>

Page ==
    LET after == {e \in tables.events : e.id > cursor}
    IN {e \in after : Cardinality({d \in after : d.id < e.id}) < PAGE}

\* The cursor is stored after the page is told.
News ==
    /\ Serving /\ cursor # NULL /\ Page # {}
    /\ told' = told \cup Page
    /\ cursor' = Max({e.id : e \in Page})
    /\ UNCHANGED <<tables, snapshot, archived, pc, world, detectors, hour_dominant, boots, since, kept, lost, until>>

-----------------------------------------------------------------------------
(* A world, and tables that show it. *)

\* Numbers are given once, and each clade counts its members.
Sound(w) ==
    /\ w = [epoch |-> w.epoch, organisms |-> w.organisms, clades |-> w.clades,
            next_organism_id |-> w.next_organism_id, next_clade_id |-> w.next_clade_id]
    /\ w.epoch \in Nat /\ {w.next_organism_id, w.next_clade_id} \subseteq Nat \ {0}
    /\ IsFiniteSet(w.organisms)
    /\ \A o \in w.organisms : o.id \in 1..(w.next_organism_id - 1) /\ o.clade \in DOMAIN w.clades
    /\ \A o, p \in w.organisms : o.id = p.id => o = p
    /\ DOMAIN w.clades \subseteq 1..(w.next_clade_id - 1)
    /\ w.clades \in [DOMAIN w.clades -> [parent : Nat, founded : 0..w.epoch,
                                         reference : DOMAIN Combo, living : Nat, peak : Nat]]
    /\ \A c \in DOMAIN w.clades : w.clades[c].living = Cardinality({o \in w.organisms : o.clade = c})

\* The rows of organisms and clades, but for those of clades of lost epochs.
Shows(t, w, gone) ==
    /\ DOMAIN t.organisms = 1..(w.next_organism_id - 1)
    /\ {i \in DOMAIN t.organisms : t.organisms[i].died = NULL} = {o.id : o \in w.organisms}
    /\ \A o \in w.organisms : t.organisms[o.id].clade = o.clade
    /\ \A c \in (1..(w.next_clade_id - 1)) \ gone :
          /\ c \in DOMAIN t.clades
          /\ LET row == t.clades[c]
             IN IF c \in DOMAIN w.clades
                THEN /\ row.extinct = NULL
                     /\ \A field \in DOMAIN w.clades[c] : row[field] = w.clades[c][field]
                ELSE row.extinct # NULL /\ row.living = 0

Named(rows) == {c \in DOMAIN rows : rows[c].name # NULL}

\* The clades that have reached the threshold have a name; only the row of a
\* clade of a lost epoch may have its name already when another clade gets it.
NamesTheLarge(rows, gone) ==
    LET large == {c \in DOMAIN rows : IsNamed(rows[c].peak)}
    IN large \subseteq Named(rows) /\ Named(rows) \subseteq large \cup gone

\* The frames of the last epochs, and no more than one beyond.
FramesOf(t, e) == /\ {f \in 1..e : f > e - FRAMES_KEPT} \subseteq t.frames
                  /\ \A f \in t.frames : f >= e - FRAMES_KEPT

-----------------------------------------------------------------------------
CONSTANT FirstWorlds    \* worlds at genesis

\* In a new world everyone who was ever there lives.
ASSUME FirstWorldsAssumption ==
    \A w \in FirstWorlds :
        /\ Sound(w) /\ w.epoch = 0
        /\ {o.id : o \in w.organisms} = 1..(w.next_organism_id - 1)
        /\ DOMAIN w.clades = 1..(w.next_clade_id - 1)

Init ==
    /\ \E st \in Beginnings :
          /\ snapshot = IF st = NULL THEN NULL ELSE [world |-> st.world, detectors |-> st.detectors]
          /\ tables = IF st = NULL THEN Empty ELSE st.tables
          /\ archived = IF st = NULL THEN <<>> ELSE st.archived
          /\ until = MaxSteps + IF st = NULL THEN 0 ELSE st.world.epoch
    /\ kept = tables
    /\ pc = "down"
    /\ world = NoWorld /\ detectors = NewDetectors /\ hour_dominant = NULL
    /\ boots = 0
    /\ cursor = NULL /\ told = {} /\ since = NULL
    /\ lost = {}

Next ==
    \/ \E w \in FirstWorlds : Create(w)
    \/ SaveGenesis \/ Rollback \/ Resume
    \/ Step \/ Publish \/ Save \/ Archive
    \/ Crash
    \/ FirstNews \/ News

Spec == Init /\ [][Next]_vars

-----------------------------------------------------------------------------
(* Properties. *)

Without(f, S) == [x \in DOMAIN f \ S |-> f[x]]

\* A rollback undoes what record_epoch wrote, in every table: after a restart
\* they are what they were when the snapshot was saved.  Only a frame dropped
\* for the new epoch's is gone, and clades founded in the lost epoch have left
\* rows: founded_epoch is the epoch that was running, not the one recorded.
RollbackUndoes ==
    pc = "undone" =>
        /\ \A field \in {"epochs", "events", "stories", "muller", "organisms"} :
              tables[field] = kept[field]
        /\ Without(tables.clades, lost) = Without(kept.clades, lost)
        /\ tables.frames \subseteq kept.frames
        /\ \A f \in kept.frames \ tables.frames : f <= world.epoch - FRAMES_KEPT

\* The tables show the world that runs: every organism there ever was has a row,
\* the living are the ones without a death, and the row of a clade has its
\* parent, its count and its end (record_epoch, with its Newborn rule).  Excepted
\* are the rows of clades founded in a lost epoch, which outlive the rollback, and
\* of the clades that get their ids (`lost').  Whatever is rolled back and named
\* again, no two clades have one name, and those that have reached the threshold
\* have one (names.rs; name_new, backfill_names).  The replay finds a frame of
\* every one of the last FRAMES_KEPT epochs.
ShowsTheWorld ==
    Serving =>
        /\ Shows(tables, world, lost)
        /\ NamesTheLarge(tables.clades, lost)
        /\ IsInjective([c \in Named(tables.clades) |-> tables.clades[c].name])
        /\ FramesOf(tables, world.epoch)

\* "The name never changes" (names.rs): once its epoch is saved, a clade keeps
\* its name through every restart.
NamesStay ==
    [][\A c \in DOMAIN kept.clades \cap DOMAIN kept'.clades :
          kept.clades[c].name # NULL => kept'.clades[c].name = kept.clades[c].name]_kept

\* No story is told twice, and none lost, by a restart: the detectors' memory is
\* saved with the world.  A comeback, a split and a crossing to a continent come
\* once in a clade's life, and a clade told of as the last of its kind does not
\* fall in a second story the epoch after.
StoriesToldOnce ==
    /\ \A s, t \in tables.stories :
          s # t /\ s.kind = t.kind /\ s.kind \in {"comeback", "crossing", "split_by_sea"}
              => s.clade # t.clade \/ s.plate # t.plate
    /\ \A s, t \in tables.stories :
          s.kind = "last_of_its_kind" /\ t.kind = "fall" /\ s.clade = t.clade
              => t.epoch > s.epoch + 1

\* The feed tells of a new leader at a full hour exactly if the headers of this
\* hour and the one before show one, wherever restarts fell between them; and the
\* detectors tell the same change, if they saw the world of the hour before.
LeaderOfHour(e) == tables.epochs[e].dominant
Hours == {e \in DOMAIN tables.epochs : e > 0 /\ e % HOUR = 0 /\ tables.epochs[e].population > 0}
FeedAgrees ==
    \A e \in Hours :
        LET changes == {x \in tables.events : x.kind = "dominant_changed" /\ x.epoch = e}
            told_of == {s \in tables.stories : s.kind = "changing_of_the_guard" /\ s.epoch = e}
            earlier == {h \in Hours : h < e}
        IN /\ changes # {} <=> LeaderOfHour(e) # LeaderOfHour(e - HOUR)
           /\ \A x \in changes : x.clade = LeaderOfHour(e) /\ x.from = LeaderOfHour(e - HOUR)
           /\ told_of # {} <=> earlier # {} /\ LeaderOfHour(e) # LeaderOfHour(Max(earlier))
           /\ \A s \in told_of : s.other = LeaderOfHour(Max(earlier))

\* An event the bot's cursor has passed was told: the ids of events that were
\* rolled back are not given to the events that replace them.  And of leaders
\* the feed tells as the headers do.
NewsIsComplete ==
    /\ FeedAgrees
    /\ cursor # NULL =>
          \A e \in tables.events : since < e.id /\ e.id <= cursor => e \in told
=============================================================================
