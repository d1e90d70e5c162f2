------------------------------ MODULE Miracles ------------------------------
(***************************************************************************)
(* The state of the world (core/src/state.rs) and what miracles do to it   *)
(* (core/src/miracle.rs): the hard check of a miracle, its application at  *)
(* the epoch boundary and its share of the price.                          *)
(*                                                                         *)
(* A world is a record with the fields of World that miracles and the      *)
(* epoch read: the genome, the energy and the age of an organism, and the  *)
(* food and moisture of a cell, are data that no property here tells       *)
(* apart, and what depends on them is left open where it is used.  A cell  *)
(* is an index x + y * width; an organism is [clade, cell] under its id.   *)
(***************************************************************************)
EXTENDS Integers, FiniteSets, Sequences, SequencesExt, FiniteSetsExt, Functions

CONSTANTS
    Rules,   \* the parameters of the ruleset, under the names they have in it
    Rifts    \* the rift schedule: cell |-> [fault, shallows, deep, bridge]

\* What Ruleset::validate asks of the parameters used here, which are unsigned;
\* the durations of weather and of the patrons' effects are positive in every
\* ruleset shipped, although validate does not ask for it.
ValidRules ==
    /\ Rules.width \in Nat \ {0} /\ Rules.height \in Nat \ {0}
    /\ Rules.max_per_cell \in 1..4
    /\ Rules.ticks_per_epoch \in Nat \ {0} /\ Rules.epochs_per_day \in Nat \ {0}
    /\ Rules.epochs_per_year \in Nat \ {0} /\ Rules.epochs_per_year % 4 = 0
    /\ Rules.season_end_count \in Nat \ {0}
ValidPatrons ==
    /\ Rules.area_radius \in 1..8 /\ Rules.target_radius \in 0..8
    /\ Rules.hybrid_count \in 1..9

Unsigned ==
    /\ {Rules.max_organisms, Rules.weather_radius, Rules.cooldown_epochs, Rules.migrate_radius,
        Rules.migrate_min, Rules.migrate_moved, Rules.revive_radius, Rules.revive_max_nearby,
        Rules.revive_extinct_epochs, Rules.revive_count, Rules.min_members,
        Rules.protect_min_living, Rules.protect_min_permille, Rules.harm_respite_epochs,
        Rules.cure_cooldown_epochs, Rules.gift_cooldown_epochs, Rules.hybrid_min_each,
        Rules.hybrid_cooldown_epochs, Rules.hybrid_vigor_ticks, Rules.steps, Rules.rescue_radius,
        Rules.max_active_per_kind, Rules.flood_radius, Rules.flood_ticks,
        Rules.wildfire_radius_min, Rules.wildfire_radius_max, Rules.ash_ticks,
        Rules.drought_radius, Rules.drought_ticks, Rules.plague_radius,
        Rules.plague_min_members, Rules.plague_min_share_permille, Rules.clade_name_threshold,
        Rules.museum_capacity, Rules.per_genome, Rules.revive_below,
        Rules.revival_cooldown_epochs, Rules.season_end_epochs} \subseteq Nat
    /\ Rules.patrons \in BOOLEAN

Cells == 0..(Rules.width * Rules.height - 1)
Biome == {"deep", "shallows", "forest", "steppe", "desert", "mountains", "swamp"}

ASSUME RulesAssumption ==
    /\ ValidRules /\ ValidPatrons /\ Unsigned
    /\ {Rules.weather_ticks, Rules.effect_ticks, Rules.cure_ticks} \subseteq Nat \ {0}
    /\ Rules.spore_bank \in Seq(Biome) /\ Rules.weather_regions \in Seq(SUBSET Cells)
    /\ DOMAIN Rifts \subseteq Cells
    /\ \A c \in DOMAIN Rifts :
          /\ {Rifts[c].fault, Rifts[c].shallows, Rifts[c].deep} \subseteq Nat
          /\ Rifts[c].fault <= Rifts[c].shallows /\ Rifts[c].shallows <= Rifts[c].deep

-----------------------------------------------------------------------------
(* Tables and lists. *)
\* A table with a row put into it.
Put(f, x, y) == [z \in DOMAIN f \cup {x} |-> IF z = x THEN y ELSE f[z]]

\* The numbers of a finite set in order, and a list's members at some places.
Ascending(S) ==
    [n \in 1..Cardinality(S) |-> CHOOSE x \in S : Cardinality({y \in S : y < x}) = n - 1]
Picked(list, places) ==
    LET order == Ascending(places)
    IN [n \in 1..Cardinality(places) |-> list[order[n]]]

-----------------------------------------------------------------------------
(* Places. *)

Apart(n) == IF n < 0 THEN -n ELSE n
Smaller(a, b) == IF a < b THEN a ELSE b
Across(a, b) == Apart((a % Rules.width) - (b % Rules.width))
Along(a, b) == Apart((a \div Rules.width) - (b \div Rules.width))

chebyshev(a, b) == IF Across(a, b) > Along(a, b) THEN Across(a, b) ELSE Along(a, b)
OnDisc(a, b, r) == Across(a, b) * Across(a, b) + Along(a, b) * Along(a, b) <= r * r

\* The cells within radius of center; their numbers count row by row.
square(center, radius) == {c \in Cells : chebyshev(c, center) <= radius}

IsLand(w, c) == w.biome[c] \notin {"deep", "shallows"}
floods(w, c) == IsLand(w, c) /\ w.biome[c] # "mountains"
Passable(w, c) == w.biome[c] # "deep"

Occupancy(w, c) == Cardinality({o \in DOMAIN w.organisms : w.organisms[o].cell = c})
HasRoom(w, c) == IsLand(w, c) /\ Occupancy(w, c) < Rules.max_per_cell
RoomAround(w, c) == \E d \in Cells : chebyshev(c, d) <= 1 /\ HasRoom(w, d)

LivingOf(w, c) == IF c \in DOMAIN w.clades THEN w.clades[c].living ELSE 0
Population(w) == Cardinality(DOMAIN w.organisms)

members_near(w, c, center, radius) ==
    {o \in DOMAIN w.organisms :
        w.organisms[o].clade = c /\ chebyshev(w.organisms[o].cell, center) <= radius}

-----------------------------------------------------------------------------
(* The check of a miracle.  A miracle is [kind, at] with the fields of its *)
(* kind; whether the edit steps of a revival fit its genome, and how far   *)
(* apart the reference genomes of a cross are, come with the miracle.      *)
Easing == {"shelter", "forage", "cure"}
Harm == {"blight", "expose", "sickness"}
CladeActions == Easing \cup Harm \cup {"gift"}

\* A wish's action, as the wire format gives it: its numbers are unsigned.
IsMiracle(m) ==
    /\ m.kind \in {"weather", "migrate", "revive", "hybrid"} \cup CladeActions
    /\ m.kind \in {"migrate", "hybrid"} \cup CladeActions => m.clade \in Nat
    /\ m.kind = "hybrid" => m.other \in Nat
    /\ m.kind = "revive" => m.museum \in BOOLEAN /\ m.entry \in Nat
    /\ m.kind = "weather" => m.rain \in BOOLEAN

is_harm(kind) == kind \in Harm

pair_key(a, b) == IF a < b THEN <<a, b>> ELSE <<b, a>>

cooling(w, kind, keys) ==
    \E i \in DOMAIN w.cooldowns :
        /\ w.cooldowns[i].kind = kind
        /\ w.cooldowns[i].until > w.epoch
        /\ w.cooldowns[i].key \in keys
CoolingKey(w, kind, k) == cooling(w, kind, {k})

\* The first of a list of <<condition, reason>> that holds.
OK == "ok"
FirstOf(reasons) ==
    LET hit == {i \in DOMAIN reasons : reasons[i][1]}
    IN IF hit = {} THEN OK ELSE reasons[Min(hit)][2]

Overlaps(w, m) ==
    \E i \in DOMAIN w.effects :
        chebyshev(w.effects[i].center, m.at) <= w.effects[i].radius + Rules.weather_radius

CheckWeather(w, m) == FirstOf(<<
    <<m.at \notin Cells, "outside the map">>,
    <<Overlaps(w, m), "the area overlaps an active effect">>,
    <<cooling(w, "weather", {k \in Cells : chebyshev(k, m.at) <= 2 * Rules.weather_radius}),
      "the region is on cooldown">> >>)

CheckMigrate(w, m) == FirstOf(<<
    <<{m.from, m.at} \cap Cells # {m.from, m.at}, "outside the map">>,
    <<LivingOf(w, m.clade) = 0, "no such living clade">>,
    <<Cardinality(members_near(w, m.clade, m.from, Rules.migrate_radius)) < Rules.migrate_min,
      "too few of the clade in the source area">>,
    <<CoolingKey(w, "migrate", m.clade), "the clade was relocated recently">>,
    <<~RoomAround(w, m.at), "no free land at the target">> >>)

InMuseum(w, c) == {i \in DOMAIN w.museum : w.museum[i].clade = c}
ExtinctTooRecently(w, c) ==
    \E i \in InMuseum(w, c) : w.epoch < w.museum[i].extinct + Rules.revive_extinct_epochs

CheckRevive(w, m) == FirstOf(<<
    <<m.at \notin Cells \/ (m.at \in Cells /\ ~IsLand(w, m.at)), "the start is not land">>,
    <<m.museum /\ InMuseum(w, m.entry) = {}, "no such museum entry">>,
    <<m.museum /\ ExtinctTooRecently(w, m.entry), "extinct too recently">>,
    <<~m.museum /\ m.entry + 1 \notin DOMAIN Rules.spore_bank, "no such spore bank entry">>,
    <<~m.edits_fit, "an edit step is not possible">>,
    <<CoolingKey(w, IF m.museum THEN "museum" ELSE "spore", m.entry),
      "revived already this world day">>,
    <<Cardinality({o \in DOMAIN w.organisms :
                      chebyshev(w.organisms[o].cell, m.at) <= Rules.revive_radius})
        > Rules.revive_max_nearby,
      "too crowded around the start">> >>)

\* A clade small in members or in share of the living is protected from harm.
ProtectedBySize(w, c) == LivingOf(w, c) < Rules.protect_min_living
Protected(w, c) ==
    \/ LivingOf(w, c) < Rules.protect_min_living
    \/ LivingOf(w, c) * 1000 < Rules.protect_min_permille * Population(w)

\* The same easing on the same clade, so close that the two areas touch.
EasedNearby(w, m) ==
    \E i \in DOMAIN w.cladeEffects :
        /\ w.cladeEffects[i].kind = m.kind
        /\ w.cladeEffects[i].clade = m.clade
        /\ chebyshev(w.cladeEffects[i].center, m.at) <= 2 * Rules.area_radius

CheckClade(w, m) == FirstOf(<<
    <<~Rules.patrons, "no patrons in these rules">>,
    <<m.at \notin Cells, "outside the map">>,
    <<LivingOf(w, m.clade) = 0, "no such living clade">>,
    <<Cardinality(members_near(w, m.clade, m.at, Rules.target_radius)) < Rules.min_members,
      "too few of the clade in the area">>,
    <<m.kind = "cure" /\ CoolingKey(w, "cure", m.clade), "the clade was cured recently">>,
    <<m.kind \in Easing /\ EasedNearby(w, m), "the area overlaps an active effect">>,
    <<is_harm(m.kind) /\ Protected(w, m.clade), "the clade is protected">>,
    <<is_harm(m.kind) /\ CoolingKey(w, "respite", m.clade), "the clade rests from harm">>,
    <<m.kind = "gift" /\ CoolingKey(w, "gift", m.clade), "the clade was gifted recently">> >>)

CheckHybrid(w, m) == FirstOf(<<
    <<~Rules.patrons, "no patrons in these rules">>,
    <<m.at \notin Cells, "outside the map">>,
    <<m.clade = m.other, "a clade cannot cross with itself">>,
    <<LivingOf(w, m.clade) = 0 \/ LivingOf(w, m.other) = 0, "no such living clade">>,
    <<\E c \in {m.clade, m.other} :
          Cardinality(members_near(w, c, m.at, Rules.target_radius)) < Rules.hybrid_min_each,
      "too few of a clade in the area">>,
    <<m.distance = "close", "the clades are too close to cross">>,
    <<m.distance = "far", "the clades are too far apart to cross">>,
    <<CoolingKey(w, "hybrid", pair_key(m.clade, m.other)), "the pair was crossed recently">>,
    <<~RoomAround(w, m.at), "no free land at the target">> >>)

check(w, m) ==
    CASE m.kind = "weather" -> CheckWeather(w, m)
      [] m.kind = "migrate" -> CheckMigrate(w, m)
      [] m.kind = "revive"  -> CheckRevive(w, m)
      [] m.kind = "hybrid"  -> CheckHybrid(w, m)
      [] OTHER              -> CheckClade(w, m)

\* Under rules with patrons weather cannot be bought: it falls by itself.
check_wish(w, m) ==
    IF Rules.patrons /\ m.kind = "weather" THEN "weather is natural in these rules"
    ELSE check(w, m)

\* The refusals that may pass by themselves: the wish stays open.
is_transient(reason) ==
    reason \in {"the area overlaps an active effect", "the region is on cooldown",
                "the clade was relocated recently", "revived already this world day",
                "too crowded around the start", "no free land at the target",
                "extinct too recently", "the clade was cured recently",
                "the clade rests from harm", "the clade was gifted recently",
                "the pair was crossed recently"}

-----------------------------------------------------------------------------
(* The share multiplier of the price, in percent; 0 stands for "not        *)
(* available".                                                             *)
share_mult(kind, share, living) ==
    IF is_harm(kind)
    THEN CASE living < Rules.protect_min_living \/ share < Rules.protect_min_permille -> 0
           [] OTHER -> CASE share < 50 -> 400
                         [] share \in 50..99 -> 200
                         [] share \in 100..199 -> 100
                         [] OTHER -> 75
    ELSE IF share >= 500 /\ kind # "cure" THEN 0
    ELSE IF (share * share) \div 100 > 75 THEN (share * share) \div 100 ELSE 75

ShareOf(w, c) ==
    (LivingOf(w, c) * 1000) \div (IF Population(w) = 0 THEN 1 ELSE Population(w))

price_share(w, m) ==
    CASE ~Rules.patrons /\ m.kind \in CladeActions \cup {"hybrid"} -> 0
      [] m.kind \in {"weather", "migrate", "revive"} -> 100
      [] m.kind = "hybrid" -> share_mult("shelter", ShareOf(w, m.clade), LivingOf(w, m.clade))
      [] OTHER -> share_mult(m.kind, ShareOf(w, m.clade), LivingOf(w, m.clade))

-----------------------------------------------------------------------------
(* The application of a miracle that passed its check. *)
CeilDiv(a, b) == (a + b - 1) \div b

CoolDown(w, kind, key, epochs) ==
    [w EXCEPT !.cooldowns =
        Append(@, [kind |-> kind, key |-> key, until |-> w.epoch + epochs])]

ApplyWeather(w, m) ==
    CoolDown([w EXCEPT !.effects = Append(@, [kind |-> IF m.rain THEN "rain" ELSE "dry",
                                              center |-> m.at,
                                              radius |-> Rules.weather_radius,
                                              left |-> Rules.weather_ticks])],
             "weather", m.at,
             CeilDiv(Rules.weather_ticks, Rules.ticks_per_epoch) + Rules.cooldown_epochs)

\* The first of some cells with room; NoCell when there is none.
NoCell == -1
FirstRoom(w, sites) ==
    LET free == {c \in sites : HasRoom(w, c)}
    IN IF free = {} THEN NoCell ELSE Min(free)

\* An organism moves to the first site with room, itself counted where it is.
MoveTo(w, o, sites) ==
    LET c == FirstRoom(w, sites)
    IN IF c = NoCell THEN w ELSE [w EXCEPT !.organisms[o].cell = c]

\* As many as may move, in order of id.
ApplyMigrate(w, m) ==
    LET near == members_near(w, m.clade, m.from, Rules.migrate_radius)
        movers == Smaller(Cardinality(near), Rules.migrate_moved)
        after[n \in 0..movers] ==
            IF n = 0 THEN w ELSE MoveTo(after[n - 1], Ascending(near)[n], square(m.at, 1))
    IN CoolDown(after[movers], "migrate", m.clade, Rules.cooldown_epochs)

\* A new organism under the next id.
Born(w, c, cell) ==
    [w EXCEPT !.organisms = Put(@, w.nextOrganism, [clade |-> c, cell |-> cell]),
              !.nextOrganism = @ + 1]

Full(w) == Population(w) >= Rules.max_organisms

\* Up to count organisms of clade c, each in the first site with room.
PlaceOne(w, c, sites) ==
    IF Full(w) \/ FirstRoom(w, sites) = NoCell THEN w ELSE Born(w, c, FirstRoom(w, sites))
PlaceAll(w, c, count, sites) ==
    LET after[n \in 0..count] == IF n = 0 THEN w ELSE PlaceOne(after[n - 1], c, sites)
    IN after[count]

\* v is w with the organisms of the next clade placed; the clade exists if
\* there are any.
Founded(w, v, parent, second) ==
    LET placed == v.nextOrganism - w.nextOrganism
    IN IF placed = 0 THEN v
       ELSE [v EXCEPT !.clades =
                 Put(@, w.nextClade, [parent |-> parent, second |-> second,
                                      founded |-> w.epoch, living |-> placed, peak |-> placed]),
              !.nextClade = w.nextClade + 1]

ApplyRevive(w, m) ==
    LET v == PlaceAll(w, w.nextClade, Rules.revive_count, square(m.at, 1))
    IN CoolDown(Founded(w, v, IF m.museum THEN m.entry ELSE 0, 0),
                IF m.museum THEN "museum" ELSE "spore", m.entry, Rules.epochs_per_day)

AddCladeEffect(w, kind, c, center, ticks) ==
    [w EXCEPT !.cladeEffects =
        Append(@, [kind |-> kind, clade |-> c, center |-> center, left |-> ticks])]

RespiteFromStart(w, m) == CoolDown(w, "respite", m.clade, Rules.harm_respite_epochs)
Respite(w, m) ==
    CoolDown(w, "respite", m.clade,
             CeilDiv(Rules.effect_ticks, Rules.ticks_per_epoch) + Rules.harm_respite_epochs)

\* A gift changes genomes only.
ApplyClade(w, m) ==
    LET v == AddCladeEffect(w, m.kind, m.clade, m.at,
                            IF m.kind = "cure" THEN Rules.cure_ticks ELSE Rules.effect_ticks)
    IN CASE is_harm(m.kind)  -> Respite(v, m)
         [] m.kind = "cure"  -> CoolDown(v, "cure", m.clade, Rules.cure_cooldown_epochs)
         [] m.kind = "gift"  -> CoolDown(w, "gift", m.clade, Rules.gift_cooldown_epochs)
         [] OTHER            -> v

\* The hybrids found a clade with two parents and have forage for a while.
ApplyHybrid(w, m) ==
    LET v == PlaceAll(w, w.nextClade, Rules.hybrid_count, square(m.at, 1))
        u == Founded(w, v, m.clade, m.other)
        vigor == v # w /\ Rules.hybrid_vigor_ticks > 0
    IN CoolDown(IF vigor THEN AddCladeEffect(u, "forage", w.nextClade, m.at,
                                             Rules.hybrid_vigor_ticks)
                ELSE u,
                "hybrid", pair_key(m.clade, m.other), Rules.hybrid_cooldown_epochs)

apply_one(w, m) ==
    CASE m.kind = "weather" -> ApplyWeather(w, m)
      [] m.kind = "migrate" -> ApplyMigrate(w, m)
      [] m.kind = "revive"  -> ApplyRevive(w, m)
      [] m.kind = "hybrid"  -> ApplyHybrid(w, m)
      [] OTHER              -> ApplyClade(w, m)

\* Weather, migrations, revivals, patrons' actions, hybrids; within a kind in
\* the order given.
order(m) ==
    CASE m.kind = "weather" -> 0
      [] m.kind = "migrate" -> 1
      [] m.kind = "revive"  -> 2
      [] m.kind = "hybrid"  -> 4
      [] OTHER              -> 3

OfOrder(k, miracles) == Ascending({i \in DOMAIN miracles : order(miracles[i]) = k})
InOrder(miracles) ==
    OfOrder(0, miracles) \o OfOrder(1, miracles) \o OfOrder(2, miracles)
        \o OfOrder(3, miracles) \o OfOrder(4, miracles)

\* A miracle that fails its check changes nothing; the verdict is not kept here.
ApplyNext(w, m) == IF check_wish(w, m) = OK THEN apply_one(w, m) ELSE w

Dropped(w) ==
    [w EXCEPT !.cooldowns = Picked(@, {i \in DOMAIN @ : @[i].until > w.epoch})]

apply(w, miracles) ==
    LET places == InOrder(miracles)
        after[n \in 0..Len(miracles)] ==
            IF n = 0 THEN Dropped(w) ELSE ApplyNext(after[n - 1], miracles[places[n]])
    IN after[Len(miracles)]
=============================================================================
