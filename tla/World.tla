------------------------------- MODULE World -------------------------------
(***************************************************************************)
(* One epoch of the world after another (core/src/sim.rs): at the boundary *)
(* rifts move on, natural events strike, the selected miracles are applied *)
(* and the spore bank may revive a dying world; then come the ticks, each  *)
(* with its environment, the turns of the organisms in a random order, the *)
(* deaths of hunger and age, and the births.                               *)
(*                                                                         *)
(* What energy, genomes and random numbers decide is left open: who goes   *)
(* where, who is attacked, who dies and who breeds, within the limits the  *)
(* code keeps.  Every step of the code that changes an organism, a clade,  *)
(* a cell's phase, an effect or a cooldown is here, in its order.          *)
(***************************************************************************)
EXTENDS Miracles

CONSTANTS
    Terrain,      \* the biome of every cell at genesis
    Founders,     \* the founders' clades and cells, in order of id
    Wishes,       \* the miracles that can be selected
    MaxSelected,  \* miracles selected in one epoch at most
    MaxEpoch,     \* bound: the epoch at which the model stops
    MaxBirth      \* bound: no organism with a larger id is born in a tick

ASSUME WorldAssumption ==
    /\ {MaxSelected, MaxEpoch, MaxBirth} \subseteq Nat
    /\ Terrain \in [Cells -> Biome]
    /\ Founders \in Seq([clade : Nat \ {0}, cell : Cells]) \ {<<>>}
    /\ \A i \in DOMAIN Founders : Terrain[Founders[i].cell] \notin {"shallows", "deep"}
    /\ \A c \in Cells :
          Cardinality({i \in DOMAIN Founders : Founders[i].cell = c}) <= Rules.max_per_cell
    /\ Len(Founders) <= Rules.max_organisms
    /\ \A m \in Wishes : IsMiracle(m)
    /\ \A c \in DOMAIN Rifts : Terrain[c] # "deep"

VARIABLES
    world,    \* World
    phase,    \* the step of the epoch that comes next
    tick,     \* the tick that runs or comes next
    alive,    \* in a tick, Scratch::alive; otherwise everyone
    todo,     \* in a tick, the organisms whose turn, or birth, is still to come
    harmEnd   \* clade |-> the epoch in which the last harm against it ran out
vars == <<world, phase, tick, alive, todo, harmEnd>>

Rank == [none |-> 0, crack |-> 1, fault |-> 2, shallows |-> 3, deep |-> 4]

phase_at(c, epoch) ==
    CASE epoch >= Rifts[c].deep -> "deep"
      [] epoch \in Rifts[c].shallows..(Rifts[c].deep - 1) -> "shallows"
      [] epoch \in Rifts[c].fault..(Rifts[c].shallows - 1) -> "fault"
      [] OTHER -> "crack"

Init ==
    LET founders == DOMAIN Founders
        clades == {Founders[i].clade : i \in founders}
        size(c) == Cardinality({i \in founders : Founders[i].clade = c})
    IN /\ world = [epoch |-> 0,
                   biome |-> Terrain,
                   rift |-> [c \in Cells |-> IF c \in DOMAIN Rifts THEN "crack" ELSE "none"],
                   organisms |-> [i \in founders |-> Founders[i]],
                   clades |-> [c \in clades |-> [parent |-> 0, second |-> 0, founded |-> 0,
                                                 living |-> size(c), peak |-> size(c)]],
                   effects |-> <<>>, cladeEffects |-> <<>>, cooldowns |-> <<>>,
                   museum |-> <<>>, revivals |-> <<>>, ended |-> FALSE,
                   nextOrganism |-> Len(Founders) + 1, nextClade |-> Max(clades) + 1]
       /\ phase = "rifts"
       /\ tick = 0
       /\ alive = founders
       /\ todo = {}
       /\ harmEnd = [c \in {} |-> 0]

-----------------------------------------------------------------------------
(* Deaths and extinctions. *)
LivingLess(clades, dead, organisms) ==
    [c \in DOMAIN clades |->
        [clades[c] EXCEPT !.living =
            @ - Cardinality({o \in dead : organisms[o].clade = c})]]

\* The dead leave the world at once (rescue, plague).
Without(w, dead) ==
    [w EXCEPT !.clades = LivingLess(@, dead, w.organisms),
              !.organisms = Restrict(@, DOMAIN @ \ dead)]

Remembered(w, c) ==
    [clade |-> c, founded |-> w.clades[c].founded, extinct |-> w.epoch,
     peak |-> w.clades[c].peak]

\* Clades without members leave, in order of id; the named ones go to the museum,
\* where the oldest make room.
Newest(list, capacity) ==
    IF Len(list) <= capacity THEN list ELSE SubSeq(list, Len(list) - capacity + 1, Len(list))

close_extinct_clades(w) ==
    LET extinct == {c \in DOMAIN w.clades : w.clades[c].living = 0}
        named == {c \in extinct : w.clades[c].peak >= Rules.clade_name_threshold}
        entries == [n \in 1..Cardinality(named) |-> Remembered(w, Ascending(named)[n])]
    IN [w EXCEPT !.clades = Restrict(@, DOMAIN @ \ extinct),
                 !.museum = Newest(@ \o entries, Rules.museum_capacity)]

-----------------------------------------------------------------------------
(* The epoch boundary: rifts. *)
\* The cells that move on, and what they become.
Moved(w) == {c \in DOMAIN Rifts : Rank[phase_at(c, w.epoch)] > Rank[w.rift[c]]}

SunkByOne(w) ==
    LET next == <<"crack", "fault", "shallows", "deep">>
    IN [w EXCEPT
            !.rift = [c \in Cells |-> IF c \in Moved(w) THEN next[Rank[@[c]] + 1] ELSE @[c]],
            !.biome = [c \in Cells |->
                CASE c \in Moved(w) /\ Rank[w.rift[c]] = 3 -> "deep"
                  [] c \in Moved(w) /\ Rank[w.rift[c]] = 2 -> "shallows"
                  [] OTHER -> @[c]]]
Sunk(w) ==
    [w EXCEPT
        !.rift = [c \in Cells |-> IF c \in Moved(w) THEN phase_at(c, w.epoch) ELSE @[c]],
        !.biome = [c \in Cells |->
            CASE c \notin Moved(w) -> @[c]
              [] c \in Moved(w) /\ phase_at(c, w.epoch) = "deep" -> "deep"
              [] c \in Moved(w) /\ phase_at(c, w.epoch) = "shallows" /\ IsLand(w, c) -> "shallows"
              [] OTHER -> @[c]]]

\* The free land nearest to a cell: by straight distance, then row, column.
Refuge(w, from) ==
    LET r == Rules.rescue_radius
        sites == {c \in Cells \ {from} : chebyshev(from, c) <= r /\ HasRoom(w, c)}
        straight(c) == Across(from, c) * Across(from, c) + Along(from, c) * Along(from, c)
        nearest == {c \in sites : \A d \in sites : straight(c) <= straight(d)}
    IN IF sites = {} THEN NoCell ELSE Min(nearest)

\* In order of id, the organisms of sunken cells find refuge or drown.
RescueOne(w, o) ==
    LET c == Refuge(w, w.organisms[o].cell)
    IN IF c = NoCell THEN w ELSE [w EXCEPT !.organisms[o].cell = c]

Stranded(w) == {o \in DOMAIN w.organisms : ~Passable(w, w.organisms[o].cell)}
Rescued(w) ==
    LET stranded == Stranded(w)
        after[n \in 0..Cardinality(stranded)] ==
            IF n = 0 THEN w ELSE RescueOne(after[n - 1], Ascending(stranded)[n])
    IN after[Cardinality(stranded)]

NobodyDrowns(w) == Rescued(w)
rescue(w) == close_extinct_clades(Without(Rescued(w), Stranded(Rescued(w))))

RiftsMove(w) ==
    IF \E c \in Moved(w) : phase_at(c, w.epoch) = "deep" THEN rescue(Sunk(w)) ELSE Sunk(w)

finished(w) ==
    \/ w.ended
    \/ DOMAIN w.organisms = {} /\ (Rules.spore_bank = <<>> \/ Rules.per_genome = 0)

rift_changes ==
    /\ phase = "rifts"
    /\ ~finished(world) /\ world.epoch < MaxEpoch
    /\ world' = RiftsMove(world)
    /\ phase' = "nature"
    /\ alive' = DOMAIN world'.organisms
    /\ UNCHANGED <<tick, todo, harmEnd>>

-----------------------------------------------------------------------------
(* The epoch boundary: natural events. *)
Seasons == <<"spring", "summer", "autumn", "winter">>
season(epoch) ==
    Seasons[(epoch % Rules.epochs_per_year) \div (Rules.epochs_per_year \div 4) + 1]

\* What may come of an event of a kind: nothing, or one more effect at one of
\* its sites, while fewer than max_active_per_kind of the kind run.
Event(w, kind, sites, radius, ticks) ==
    {w} \cup
    {IF ticks = 0 THEN w
     ELSE [w EXCEPT !.effects = Append(@, [kind |-> kind, center |-> c, radius |-> radius,
                                           left |-> ticks])] :
        c \in IF Cardinality({i \in DOMAIN w.effects : w.effects[i].kind = kind})
                   < Rules.max_active_per_kind
              THEN sites ELSE {}}

next_to_water(w, c) == \E d \in Cells : chebyshev(c, d) = 1 /\ ~IsLand(w, d)

flood(w) ==
    Event(w, "flood",
          {c \in Cells : floods(w, c) /\ (w.biome[c] = "swamp" \/ next_to_water(w, c))},
          Rules.flood_radius, Rules.flood_ticks)
\* A forest or steppe burns when it is dry; the moisture is left open.
wildfire(w) ==
    UNION {Event(w, "ash", {c \in Cells : w.biome[c] \in {"forest", "steppe"}},
                 r, Rules.ash_ticks) :
              r \in Rules.wildfire_radius_min..Rules.wildfire_radius_max}
drought(w) ==
    Event(w, "drought", {c \in Cells : w.biome[c] \in {"steppe", "desert"}},
          Rules.drought_radius, Rules.drought_ticks)

Natural(w) ==
    CASE season(w.epoch) = "spring" -> flood(w)
      [] season(w.epoch) = "summer" -> UNION {drought(v) : v \in wildfire(w)}
      [] OTHER -> {w}

natural_events ==
    /\ phase = "nature"
    /\ world' \in Natural(world)
    /\ phase' = "plague"
    /\ UNCHANGED <<tick, alive, todo, harmEnd>>

is_cured(w, o) ==
    \E i \in DOMAIN w.cladeEffects :
        /\ w.cladeEffects[i].kind = "cure"
        /\ w.cladeEffects[i].clade = w.organisms[o].clade
        /\ chebyshev(w.cladeEffects[i].center, w.organisms[o].cell) <= Rules.area_radius

\* The most numerous clade, the oldest of equals.
dominant(w) ==
    Min({c \in DOMAIN w.clades :
            \A d \in DOMAIN w.clades : w.clades[c].living >= w.clades[d].living})

\* A plague may strike the members of the dominant clade around one of them,
\* once the clade holds more than a share of the living; the cured are spared.
Struck(w) ==
    LET d == dominant(w)
        members == {o \in DOMAIN w.organisms : w.organisms[o].clade = d}
        around(p) == {o \in members : OnDisc(w.organisms[p].cell, w.organisms[o].cell,
                                             Rules.plague_radius)}
    IN UNION {SUBSET {o \in around(p) : ~is_cured(w, o)} :
                 p \in {p \in members : Cardinality(around(p)) >= Rules.plague_min_members}}

plague ==
    /\ phase = "plague"
    /\ \/ UNCHANGED <<world, alive>>
       \/ /\ Population(world) > 0
          /\ ShareOf(world, dominant(world)) > Rules.plague_min_share_permille
          /\ \E dead \in Struck(world) :
                world' = close_extinct_clades(Without(world, dead))
          /\ alive' = DOMAIN world'.organisms
    /\ phase' = "weather"
    /\ UNCHANGED <<tick, todo, harmEnd>>

\* Each region of the map may get rain or drought where a miracle could fall.
WeatherIn(w, region) ==
    {w} \cup
    {apply_one(w, m) :
        m \in {m \in [kind : {"weather"}, at : {c \in Rules.weather_regions[region] : IsLand(w, c)},
                      rain : BOOLEAN] :
                  check(w, m) = OK}}

Fall(worlds, region) == UNION {WeatherIn(w, region) : w \in worlds}

NaturalWeather[k \in 0..Len(Rules.weather_regions)] ==
    IF k = 0 THEN {world} ELSE Fall(NaturalWeather[k - 1], k)

natural_weather ==
    /\ phase = "weather"
    /\ world' \in IF Rules.patrons THEN NaturalWeather[Len(Rules.weather_regions)] ELSE {world}
    /\ phase' = "miracles"
    /\ UNCHANGED <<tick, alive, todo, harmEnd>>

-----------------------------------------------------------------------------
(* The epoch boundary: miracles and the spore bank. *)
miracles ==
    /\ phase = "miracles"
    /\ \E n \in 0..MaxSelected : \E selected \in [1..n -> Wishes] :
          world' = apply(world, selected)
    /\ phase' = "revival"
    /\ alive' = DOMAIN world'.organisms
    /\ UNCHANGED <<tick, todo, harmEnd>>

\* One genome of the bank founds a clade: each of its organisms on a free cell
\* of its biome, or of any land when that biome has none to begin with.
Free(w, biomes) == {c \in Cells : HasRoom(w, c) /\ w.biome[c] \in biomes}
SporeSites(w, biome) == IF Free(w, {biome}) # {} THEN {biome} ELSE Biome

Sprout(worlds, w, biome) ==
    UNION {IF Full(v) \/ Free(v, SporeSites(w, biome)) = {} THEN {v}
           ELSE {Born(v, w.nextClade, c) : c \in Free(v, SporeSites(w, biome))} : v \in worlds}
Spores(w, biome) ==
    LET grow[n \in 0..Rules.per_genome] ==
            IF n = 0 THEN {w} ELSE Sprout(grow[n - 1], w, biome)
    IN {Founded(w, v, 0, 0) : v \in grow[Rules.per_genome]}

Sow(worlds, biome) == UNION {Spores(v, biome) : v \in worlds}
Revived(w) ==
    LET bank[k \in 0..Len(Rules.spore_bank)] ==
            IF k = 0 THEN {w} ELSE Sow(bank[k - 1], Rules.spore_bank[k])
    IN bank[Len(Rules.spore_bank)]

Dying(w) ==
    /\ ~w.ended
    /\ Rules.spore_bank # <<>> /\ Rules.per_genome > 0
    /\ Population(w) < Rules.revive_below
    /\ w.revivals = <<>> \/ w.epoch >= Last(w.revivals) + Rules.revival_cooldown_epochs

\* The season ends when revivals come too often.
Recent(w) == {i \in DOMAIN w.revivals : w.revivals[i] + Rules.season_end_epochs > w.epoch}
Counted(w) ==
    LET v == [w EXCEPT !.revivals = Append(@, w.epoch)]
    IN [v EXCEPT !.ended = @ \/ Cardinality(Recent(v)) >= Rules.season_end_count]

natural_revival ==
    /\ phase = "revival"
    /\ IF Dying(world) THEN \E v \in Revived(world) : world' = Counted(v)
       ELSE UNCHANGED world
    /\ phase' = "environment"
    /\ alive' = DOMAIN world'.organisms
    /\ UNCHANGED <<tick, todo, harmEnd>>

-----------------------------------------------------------------------------
(* A tick. *)
CountDown(effects) ==
    LET after == [i \in DOMAIN effects |-> [effects[i] EXCEPT !.left = @ - 1]]
    IN Picked(after, {i \in DOMAIN after : after[i].left > 0})

HarmedNow(w) == {w.cladeEffects[i].clade : i \in {i \in DOMAIN w.cladeEffects :
                                                      is_harm(w.cladeEffects[i].kind)}}

environment ==
    /\ phase = "environment"
    /\ world' = [world EXCEPT !.effects = CountDown(@), !.cladeEffects = CountDown(@)]
    /\ LET over == HarmedNow(world) \ HarmedNow(world')
       IN harmEnd' = [c \in over \cup DOMAIN harmEnd |->
                         IF c \in over THEN world.epoch ELSE harmEnd[c]]
    /\ phase' = "turns"
    /\ todo' = alive
    /\ UNCHANGED <<tick, alive>>

\* Scratch::occ counts the living only.
Crowd(c) == Cardinality({o \in alive : world.organisms[o].cell = c})
Open(c) == Passable(world, c) /\ Crowd(c) < Rules.max_per_cell

\* Where an organism can walk: step by step over open cells.
Further(cells) ==
    cells \cup {c \in Cells : Open(c) /\ \E d \in cells : chebyshev(c, d) = 1}
Reach(from) ==
    LET reach[n \in 0..Rules.steps] == IF n = 0 THEN {from} ELSE Further(reach[n - 1])
    IN reach[Rules.steps]

\* A kill: the clade loses a member at once, the body stays until the end of
\* the tick.
killUncounted(w, prey) == w
kill(w, prey) == [w EXCEPT !.clades = LivingLess(@, prey, w.organisms)]

\* A turn: a walk, then perhaps an attack on someone within a cell's reach.
act(o) ==
    /\ phase = "turns"
    /\ o \in alive \cap todo
    /\ \E pos \in Reach(world.organisms[o].cell) :
          LET moved == [world EXCEPT !.organisms[o].cell = pos]
              near == {j \in alive \ {o} : chebyshev(world.organisms[j].cell, pos) <= 1}
          IN \E prey \in {{}} \cup {{j} : j \in near} :
                /\ world' = kill(moved, prey)
                /\ alive' = alive \ prey
    /\ todo' = todo \ {o}
    /\ UNCHANGED <<phase, tick, harmEnd>>

\* Energy costs: those that starve, sicken or grow old die.
energy ==
    /\ phase = "turns"
    /\ \E dead \in SUBSET alive :
          /\ world' = kill(world, dead)
          /\ alive' = alive \ dead
    /\ todo' = alive'
    /\ phase' = "births"
    /\ UNCHANGED <<tick, harmEnd>>

\* A child goes to its parent's cell or, if that is full, next to it; far
\* enough from its clade's reference it founds a clade.
BirthSites(home) ==
    IF Crowd(home) < Rules.max_per_cell THEN {home}
    ELSE {c \in Cells : chebyshev(c, home) = 1 /\ Open(c)}

Joined(w, c) ==
    [w EXCEPT !.clades[c].living = @ + 1,
              !.clades[c].peak = IF w.clades[c].living + 1 > @ THEN w.clades[c].living + 1 ELSE @]
Split(w, parent) ==
    [w EXCEPT !.clades = Put(@, w.nextClade, [parent |-> parent, second |-> 0,
                                              founded |-> w.epoch, living |-> 0, peak |-> 0]),
              !.nextClade = @ + 1]

birth(o) ==
    /\ phase = "births"
    /\ o \in todo
    /\ Cardinality(alive) < Rules.max_organisms
    /\ world.nextOrganism <= MaxBirth
    /\ \E cell \in BirthSites(world.organisms[o].cell), split \in BOOLEAN :
          LET c == IF split THEN world.nextClade ELSE world.organisms[o].clade
              w == IF split THEN Split(world, world.organisms[o].clade) ELSE world
          IN world' = Born(Joined(w, c), c, cell)
    /\ alive' = alive \cup {world.nextOrganism}
    /\ todo' = {p \in todo : p > o}
    /\ UNCHANGED <<phase, tick, harmEnd>>

\* The dead are dropped and extinct clades closed; after the last tick of the
\* epoch the next epoch comes.
LastTick == tick = Rules.ticks_per_epoch - 1

end_tick ==
    /\ phase = "births"
    /\ world' = LET w == close_extinct_clades([world EXCEPT !.organisms = Restrict(@, alive)])
                IN [w EXCEPT !.epoch = IF LastTick THEN @ + 1 ELSE @]
    /\ phase' = IF LastTick THEN "rifts" ELSE "environment"
    /\ tick' = IF LastTick THEN 0 ELSE tick + 1
    /\ todo' = {}
    /\ UNCHANGED <<alive, harmEnd>>

\* The loop waits when the season has ended; here also at the bound.
wait ==
    /\ phase = "rifts"
    /\ finished(world) \/ world.epoch = MaxEpoch
    /\ UNCHANGED vars

step_epoch ==
    \/ rift_changes \/ natural_events \/ plague \/ natural_weather
    \/ miracles \/ natural_revival
run_tick ==
    \/ environment \/ energy \/ end_tick
    \/ \E o \in alive : act(o) \/ birth(o)

Next == step_epoch \/ run_tick \/ wait
Spec == Init /\ [][Next]_vars
-----------------------------------------------------------------------------
(* Properties. *)
Members(c) == {o \in alive : world.organisms[o].clade = c}

\* Between ticks the dead are gone.
Settled == phase \notin {"turns", "births"}

\* The counts of check_invariants (state.rs) hold at every step, in the middle
\* of a tick with its bodies too: each clade knows how many of its members
\* live, though kills, drownings, births and foundings all count for
\* themselves, and no organism outlives its clade ("every organism has a
\* clade" is expected in five places).  An extinct clade is gone for good: no
\* clade or spore revived later, and no child, gets the id of one that lies in
\* the museum, and none lies there twice.
CladesCount ==
    /\ \A o \in DOMAIN world.organisms : world.organisms[o].clade \in DOMAIN world.clades
    /\ \A c \in DOMAIN world.clades :
          /\ world.clades[c].living = Cardinality(Members(c))
          /\ world.clades[c].peak >= world.clades[c].living
          /\ Settled => world.clades[c].living > 0
    /\ \A i \in DOMAIN world.museum : world.museum[i].clade \notin DOMAIN world.clades
    /\ \A i, j \in DOMAIN world.museum :
          i # j => world.museum[i].clade # world.museum[j].clade

\* No cell ever holds more than max_per_cell of the living (Scratch::add
\* asserts that four are never exceeded), nobody stands in deep water once
\* the rifts have moved, and between ticks the world is within max_organisms:
\* walks, births, migrations, revivals, crosses and rescues all look for room
\* on their own.
RoomForAll ==
    /\ \A c \in Cells : Crowd(c) <= Rules.max_per_cell
    /\ \A o \in alive : Passable(world, world.organisms[o].cell)
    /\ Cardinality(alive) <= Rules.max_organisms

\* Once the rifts of an epoch have moved, every cell of the schedule is in the
\* phase the schedule gives it, even when it skips phases, and its biome
\* agrees: no land in the shallows of a rift, no way through a deep one.
RiftsOnSchedule ==
    phase # "rifts" =>
        \A c \in DOMAIN Rifts :
            /\ world.rift[c] = phase_at(c, world.epoch)
            /\ world.rift[c] = "shallows" => world.biome[c] = "shallows"
            /\ world.rift[c] = "deep" <=> world.biome[c] = "deep"

\* At most one harm runs against a clade, and a new one comes only when the
\* clade has rested for harm_respite_epochs full epochs since the end of the
\* last, whichever tick of its epoch that was.
NewHarm == HarmedNow(world') \ HarmedNow(world)
HarmRests ==
    [][/\ \A c \in NewHarm \cap DOMAIN harmEnd :
              world.epoch >= harmEnd[c] + 1 + Rules.harm_respite_epochs
       /\ \A c \in HarmedNow(world') :
              Cardinality({i \in DOMAIN world'.cladeEffects :
                              /\ world'.cladeEffects[i].clade = c
                              /\ is_harm(world'.cladeEffects[i].kind)}) = 1]_vars

\* Between epochs, when wishes are admitted and selected, the price and the check
\* agree on who is protected: a harm against a clade that
\* lives around the place has no price exactly when its check refuses it for
\* protection, or the rules know no patrons, although one compares shares rounded
\* down and the other products;
\* and what has a price is refused at most for now, so that no work is put into a
\* wish that is then closed (price_share, check_wish and is_transient).
PricedIffOpen ==
    \A c \in DOMAIN world.clades, place \in Cells :
        /\ phase = "rifts"
        /\ Cardinality(members_near(world, c, place, Rules.target_radius)) >= Rules.min_members
        => \A kind \in CladeActions :
               LET deed == [kind |-> kind, clade |-> c, at |-> place]
                   refusal == check_wish(world, deed)
                   priced == price_share(world, deed) # 0
               IN /\ kind \in Harm =>
                         (priced <=> refusal \notin {"no patrons in these rules",
                                                   "the clade is protected"})
                  /\ priced => refusal = OK \/ is_transient(refusal)

=============================================================================
