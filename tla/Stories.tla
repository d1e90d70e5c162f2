------------------------------ MODULE Stories ------------------------------
(***************************************************************************)
(* The story detectors (stories/src/lib.rs): what they remember of a world *)
(* between epochs and the stories they find at the end of one.             *)
(*                                                                         *)
(* A world is [epoch, organisms, clades, ...]: organisms are records with  *)
(* a clade, a plate and a genome, clades the living ones.  A report has    *)
(* the clades that died out, with their peak, and whether bridges closed.  *)
(* A story's score and data are left out, and so is the order of stories   *)
(* of one epoch, which are a set.                                          *)
(***************************************************************************)
EXTENDS Integers, Sequences, FiniteSets, SequencesExt, FiniteSetsExt

CONSTANTS
    NULL, Plates,
    COMEBACK_WAS, COMEBACK_LOW, COMEBACK_BACK,
    CROSSING_MEMBERS, CROSSING_EPOCHS,
    GREAT,            \* the peak of a great clade
    SPLIT_MEMBERS,
    HOUR, DAY,        \* epochs
    APART,            \* the epoch from which the sea parts the continents
    Hunting, Defense, \* of a genome
    HUNTER,           \* hunting of a hunter at least
    ARMS_WINDOW_DAYS, ARMS_HUNTERS, ARMS_RACE_X10

ASSUME StoriesAssumption ==
    /\ COMEBACK_LOW < COMEBACK_WAS /\ COMEBACK_WAS < COMEBACK_BACK
    /\ {CROSSING_MEMBERS, CROSSING_EPOCHS, SPLIT_MEMBERS, HOUR, DAY, ARMS_WINDOW_DAYS}
         \subseteq Nat \ {0}
    /\ GREAT \in Nat /\ APART \in Nat
    /\ ARMS_HUNTERS \in Nat \ {0}   \* at least 125 organisms: else the code divides by none

Story(kind, w, clade, other, plate) ==
    [kind |-> kind, epoch |-> w.epoch, clade |-> clade, other |-> other, plate |-> plate]

CladeTrack == [home |-> NULL, was_big |-> FALSE, fell |-> FALSE, comeback_told |-> FALSE,
               last_told |-> FALSE, split_told |-> FALSE,
               abroad |-> [p \in Plates |-> 0], crossed |-> {}]

NewDetectors == [clades |-> <<>>, world_leader |-> NULL,
                 plate_leaders |-> [p \in Plates |-> NULL], arms_days |-> <<>>]

Members(w, c, p) == Cardinality({o \in w.organisms : o.clade = c /\ o.plate = p})
PlatesOf(w, c) == {o.plate : o \in {a \in w.organisms : a.clade = c}}
On(w, p) == {o.clade : o \in {a \in w.organisms : a.plate = p}}

\* The one with the most, the lowest of equals.
Most(count) ==
    CHOOSE x \in DOMAIN count :
        \A y \in DOMAIN count : count[x] > count[y] \/ (count[x] = count[y] /\ x <= y)

Track(mem, c) == IF c \in DOMAIN mem.clades THEN mem.clades[c] ELSE CladeTrack

HomeOf(t, w, c) ==
    IF t.home = NULL /\ PlatesOf(w, c) # {}
    THEN Most([p \in PlatesOf(w, c) |-> Members(w, c, p)]) ELSE t.home

(***************************************************************************)
(* One living clade: comeback, last of its kind, crossings.                *)
(***************************************************************************)
Back(t, living) ==
    LET was_big == t.was_big \/ living >= COMEBACK_WAS
        fell == t.fell \/ (was_big /\ living <= COMEBACK_LOW)
    IN [t EXCEPT !.was_big = was_big, !.fell = fell,
                 !.comeback_told = @ \/ (fell /\ living >= COMEBACK_BACK)]

great(clade) == clade.peak >= GREAT
IsLast(clade) == great(clade) /\ clade.living = 1

\* Only the plates it lives on are looked at.
Foreign(t, w, c) ==
    IF w.epoch >= APART /\ HomeOf(t, w, c) # NULL
    THEN PlatesOf(w, c) \ ({HomeOf(t, w, c)} \cup t.crossed) ELSE {}

Abroad(t, w, c) ==
    [p \in Plates |-> IF p \notin Foreign(t, w, c) THEN t.abroad[p]
                      ELSE IF Members(w, c, p) >= CROSSING_MEMBERS THEN t.abroad[p] + 1 ELSE 0]

Crossed(t, w, c) == {p \in Foreign(t, w, c) : Abroad(t, w, c)[p] >= CROSSING_EPOCHS}

Followed(t, w, c) ==
    [Back(t, w.clades[c].living) EXCEPT
        !.home = HomeOf(t, w, c),
        !.abroad = Abroad(t, w, c),
        !.last_told = (@ \/ IsLast(w.clades[c])) /\ w.clades[c].living <= 1,
        !.crossed = @ \cup Crossed(t, w, c)]

CladeStories(t, w, c) ==
    LET now == Followed(t, w, c)
        Told(condition, kind) == IF condition THEN {Story(kind, w, c, NULL, NULL)} ELSE {}
    IN Told(now.comeback_told /\ ~t.comeback_told, "comeback")
       \cup Told(now.last_told /\ ~t.last_told, "last_of_its_kind")
       \cup {Story("crossing", w, c, NULL, p) : p \in now.crossed \ t.crossed}

(***************************************************************************)
(* Falls, and clades split by a bridge that closed.                        *)
(***************************************************************************)
Falls(tracks, w, report) ==
    {Story("fall", w, c, NULL, NULL) :
        c \in {d \in DOMAIN report.extinct :
                  great(report.extinct[d]) /\ ~(d \in DOMAIN tracks /\ tracks[d].last_told)}}

TellsAgain(tracks, w, report) ==
    IF ~report.bridges_closed THEN {}
    ELSE {c \in {o.clade : o \in w.organisms} :
            Cardinality({p \in PlatesOf(w, c) : Members(w, c, p) >= SPLIT_MEMBERS}) >= 2}
\* Only clades with organisms are looked at.
SplitNow(tracks, w, report) ==
    IF ~report.bridges_closed THEN {}
    ELSE {c \in {o.clade : o \in w.organisms} :
            /\ Cardinality({p \in PlatesOf(w, c) : Members(w, c, p) >= SPLIT_MEMBERS}) >= 2
            /\ ~tracks[c].split_told}

(***************************************************************************)
(* Once per hour: the leaders of the world and of the plates.              *)
(***************************************************************************)
LeaderOf(w) == IF w.clades = <<>> THEN NULL
               ELSE Most([c \in DOMAIN w.clades |-> w.clades[c].living])

PlateLeader(w, p) == IF On(w, p) = {} THEN NULL
                     ELSE Most([c \in On(w, p) |-> Members(w, c, p)])

GuardChanges(mem, w) ==
    IF LeaderOf(w) \in {NULL, mem.world_leader} \/ mem.world_leader = NULL THEN {}
    ELSE {Story("changing_of_the_guard", w, LeaderOf(w), mem.world_leader, NULL)}

Invaded(mem, tracks, w) ==
    IF w.epoch < APART THEN {}
    ELSE {p \in Plates :
            LET new == PlateLeader(w, p)
                old == mem.plate_leaders[p]
            IN /\ new # NULL /\ old \notin {NULL, new}
               /\ tracks[new].home \notin {NULL, p}
               /\ Members(w, new, p) >= CROSSING_MEMBERS}

Invasions(mem, tracks, w) ==
    {Story("invasion", w, PlateLeader(w, p), mem.plate_leaders[p], p) : p \in Invaded(mem, tracks, w)}

(***************************************************************************)
(* Once per day: the arms race.                                            *)
(***************************************************************************)
Today(w) ==
    LET Total(value, S) == MapThenSumSet(LAMBDA o : value[o.genome], S)
        hunters == {o \in w.organisms : Hunting[o.genome] >= HUNTER}
        rest == w.organisms \ hunters
    IN [hunt |-> Total(Hunting, hunters), hunters |-> Cardinality(hunters),
        def |-> Total(Defense, rest), prey |-> Cardinality(rest)]

Days(mem, w) ==
    LET all == Append(mem.arms_days, Today(w))
    IN IF Len(all) > 2 * ARMS_WINDOW_DAYS THEN Tail(all) ELSE all

IsArmsRace(days) ==
    LET Sum(field, from) ==
            FoldLeft(LAMBDA a, d : a + d[field], 0, SubSeq(days, from, from + ARMS_WINDOW_DAYS - 1))
        then == 1
        now == ARMS_WINDOW_DAYS + 1
        Mean(field, of, from) == (Sum(field, from) * 10) \div Sum(of, from)
    IN /\ Len(days) = 2 * ARMS_WINDOW_DAYS
       /\ \A from \in {then, now} : Sum("hunters", from) >= ARMS_HUNTERS /\ Sum("prey", from) > 0
       /\ Mean("hunt", "hunters", now) - Mean("hunt", "hunters", then) >= ARMS_RACE_X10
       /\ Mean("def", "prey", now) - Mean("def", "prey", then) >= ARMS_RACE_X10

(***************************************************************************)
(* observe: the stories of an epoch and the memory after it.               *)
(***************************************************************************)
observe(mem, w, report) ==
    LET followed == [c \in DOMAIN mem.clades \cup DOMAIN w.clades |->
                        IF c \in DOMAIN w.clades THEN Followed(Track(mem, c), w, c) ELSE mem.clades[c]]
        kept == [c \in DOMAIN followed \ DOMAIN report.extinct |-> followed[c]]
        split == SplitNow(kept, w, report)
        tracks == [c \in DOMAIN kept |->
                      IF c \in split THEN [kept[c] EXCEPT !.split_told = TRUE] ELSE kept[c]]
        hour == w.epoch % HOUR = 0
        day == w.epoch % DAY = 0 /\ w.epoch > 0
        days == IF day THEN Days(mem, w) ELSE mem.arms_days
        race == day /\ IsArmsRace(days)
    IN [stories |->
          (UNION {CladeStories(Track(mem, c), w, c) : c \in DOMAIN w.clades})
          \cup Falls(followed, w, report)
          \cup {Story("split_by_sea", w, c, NULL, NULL) : c \in split}
          \cup (IF hour THEN GuardChanges(mem, w) \cup Invasions(mem, tracks, w) ELSE {})
          \cup (IF race THEN {Story("arms_race", w, NULL, NULL, NULL)} ELSE {}),
        detectors |->
          [clades |-> tracks,
           world_leader |-> IF hour /\ LeaderOf(w) # NULL THEN LeaderOf(w) ELSE mem.world_leader,
           plate_leaders |-> [p \in Plates |->
                                IF hour /\ w.epoch >= APART /\ PlateLeader(w, p) # NULL
                                THEN PlateLeader(w, p) ELSE mem.plate_leaders[p]],
           arms_days |-> IF race THEN <<>> ELSE days]]
=============================================================================
