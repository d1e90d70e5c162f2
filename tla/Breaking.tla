------------------------------ MODULE Breaking ------------------------------
(***************************************************************************)
(* A world at genesis (core/src/map.rs) and the plan of its breaking       *)
(* (core/src/rifts.rs): terrain from noise, plates around their centers,   *)
(* the rift lines between them, land bridges, the schedule on which the    *)
(* lines sink, and the founders.                                           *)
(*                                                                         *)
(* The noise, the plate centers and the bend of the boundaries are given   *)
(* (a member of Draws); every other draw is left open: BridgeSites and     *)
(* Settlements are the sets of their outcomes, the order in which bridges  *)
(* close is any.                                                           *)
(***************************************************************************)
EXTENDS Integers, FiniteSets, Sequences, SequencesExt, FiniteSetsExt, Functions, TLC

CONSTANTS
    Map,     \* the parameters of the ruleset read here, under their names
    Draws    \* [land_share_pct, height, moisture, centers, bend_x, bend_y, first]:
             \* what the seed gives

\* The phases follow in order, and no mix leaves a biome without its share.
ValidSchedule ==
    /\ Map.fault_day <= Map.shallows_from_day /\ Map.shallows_from_day <= Map.deep_from_day
    /\ Map.deep_from_day <= Map.bridges_from_day /\ Map.bridges_from_day <= Map.bridges_to_day
ValidMix(mix) ==
    /\ mix.mountains_pct \in 1..99
    /\ {mix.desert_pct, mix.steppe_pct, mix.forest_pct} \subseteq Nat \ {0}
    /\ mix.desert_pct + mix.steppe_pct + mix.forest_pct < 100

ASSUME MapAssumption ==
    /\ Map.width \in Nat \ {0} /\ Map.height \in Nat \ {0} /\ Map.epochs_per_day \in Nat \ {0}
    /\ Map.max_per_cell \in 1..4
    /\ ValidSchedule
    /\ ValidMix(Map.biome_mix) /\ \A i \in DOMAIN Map.plate_mixes : ValidMix(Map.plate_mixes[i])

Area == 0..(Map.width * Map.height - 1)
X(i) == i % Map.width
Y(i) == i \div Map.width

\* The function f, which TLC computes once and keeps.
Table(f) == f @@ <<>>

Wide(n) == IF n < 0 THEN -n ELSE n
Gap(i, j) == Max({Wide(X(i) - X(j)), Wide(Y(i) - Y(j))})
Beside == Table([i \in Area |-> {j \in Area \ {i} : Gap(i, j) <= 1}])
Around(i, r) == {j \in Area : Gap(i, j) <= r}
OnMap(i, r) == /\ X(i) - r >= 0 /\ X(i) + r < Map.width
               /\ Y(i) - r >= 0 /\ Y(i) + r < Map.height

Dry(b) == b \notin {"deep", "shallows"}

\* Cells by a key, then by index.
AllCells == [n \in 1..Cardinality(Area) |-> n - 1]
Ranked(key) ==
    SortSeq(SelectSeq(AllCells, LAMBDA i : i \in DOMAIN key),
            LAMBDA i, j : key[i] < key[j] \/ (key[i] = key[j] /\ i < j))

-----------------------------------------------------------------------------
(* Terrain and plates. *)

\* The plate of a cell: the nearest center, the first of equals, measured from
\* the cell's bent position.
Offset(d, i, k) ==
    LET x == X(i) + d.bend_x[i] - d.centers[k].x
        y == Y(i) + d.bend_y[i] - d.centers[k].y
    IN x * x + y * y
plate_map(d) ==
    [i \in Area |->
        IF d.centers = <<>> THEN 0
        ELSE (CHOOSE k \in DOMAIN d.centers :
                 \A n \in DOMAIN d.centers : \/ Offset(d, i, k) < Offset(d, i, n)
                                              \/ (Offset(d, i, k) = Offset(d, i, n) /\ k <= n)) - 1]

PlateCount(d) == IF d.centers = <<>> THEN 1 ELSE Len(d.centers)

adjusted(d, i) ==
    LET x == X(i) - Map.width \div 2
        y == Y(i) - Map.height \div 2
        r == Map.width \div 2
    IN d.height[i] - ((x * x + y * y) * Map.falloff) \div (IF r = 0 THEN 1 ELSE r * r)

LandOf(d) ==
    LET count == (Cardinality(Area) * d.land_share_pct) \div 100
    IN ToSet(SubSeq(Ranked([i \in Area |-> -adjusted(d, i)]), 1, count))

\* Some land under a biome mix: mountains by height, the rest from dry to wet.
Planted(d, mix, land) ==
    LET high == SubSeq(Ranked([i \in land |-> -d.height[i]]), 1,
                       (Cardinality(land) * mix.mountains_pct) \div 100)
        rest == Ranked([i \in land \ ToSet(high) |-> d.moisture[i]])
        Pct(i) == (((CHOOSE k \in DOMAIN rest : rest[k] = i) - 1) * 100) \div Len(rest)
        Wetter(p) == CASE p < mix.desert_pct -> "desert"
                       [] p \in mix.desert_pct..(mix.desert_pct + mix.steppe_pct - 1) -> "steppe"
                       [] p \in (mix.desert_pct + mix.steppe_pct)
                                ..(mix.desert_pct + mix.steppe_pct + mix.forest_pct - 1) -> "forest"
                       [] OTHER -> "swamp"
    IN [i \in land |-> IF i \in ToSet(high) THEN "mountains" ELSE Wetter(Pct(i))]

\* One mix for all the land, or one per plate, in turn.
MixOf(d, p) ==
    IF Map.plate_mixes = <<>> THEN Map.biome_mix
    ELSE Map.plate_mixes[((d.first + p) % Len(Map.plate_mixes)) + 1]
GroupOf(d, plate, p) ==
    {i \in LandOf(d) : Map.plate_mixes = <<>> \/ plate[i] = p}

generate_terrain(d, plate) ==
    LET land == LandOf(d)
        planted == Table([p \in 0..(PlateCount(d) - 1) |->
                             Table(Planted(d, MixOf(d, p), GroupOf(d, plate, p)))])
    IN [i \in Area |->
            CASE i \in land -> planted[IF Map.plate_mixes = <<>> THEN 0 ELSE plate[i]][i]
              [] i \notin land /\ Beside[i] \cap land # {} -> "shallows"
              [] OTHER -> "deep"]

\* The continent of a draw.
world_plan(d) ==
    LET plate == Table(plate_map(d))
    IN [plate |-> plate, count |-> PlateCount(d), biome |-> Table(generate_terrain(d, plate))]

-----------------------------------------------------------------------------
(* Rift lines.  c is a continent, rift the cells on its rift lines. *)
OtherPlate(c, i) == {j \in Beside[i] : c.plate[j] # c.plate[i]}

on_rift(c) == {i \in Area : c.count > 1 /\ c.biome[i] # "deep" /\ OtherPlate(c, i) # {}}

\* The distance along the rift from the open ocean; what the ocean does not
\* reach is as far as the farthest that it does.
Flooded(c, rift) ==
    FoldLeft(LAMBDA dist, k :
                LET near == UNION {Beside[i] : i \in DOMAIN dist}
                IN dist @@ [i \in (near \cap rift) \ DOMAIN dist |-> k],
             [i \in {j \in rift : \E n \in Beside[j] : c.biome[n] = "deep"} |-> 0],
             [k \in 1..Cardinality(rift) |-> k])
deepest(dist) == IF DOMAIN dist = {} THEN 0 ELSE Max(Range(dist))
Waves(c, rift) ==
    LET dist == Flooded(c, rift)
    IN [i \in rift |-> IF i \in DOMAIN dist THEN dist[i] ELSE deepest(dist)]

BridgePairs(c, rift) ==
    SetToSortSeq(UNION {{<<c.plate[i], c.plate[j]>> :
                            j \in {n \in OtherPlate(c, i) : Dry(c.biome[n]) /\ c.plate[i] < c.plate[n]}}
                           : i \in {n \in rift : Dry(c.biome[n])}},
                 LAMBDA p, q : p[1] < q[1] \/ (p[1] = q[1] /\ p[2] < q[2]))

\* The middle of a boundary on land: away from other plates and the coast.
ClearToReach(c, i, pair) ==
    /\ OnMap(i, Map.bridge_radius)
    /\ \A j \in Around(i, Map.bridge_radius) :
          Dry(c.biome[j]) /\ c.plate[j] \in {pair[1], pair[2]}
Clear(c, i, pair) ==
    /\ OnMap(i, Map.bridge_radius + 1)
    /\ \A j \in Around(i, Map.bridge_radius + 1) :
          Dry(c.biome[j]) /\ c.plate[j] \in {pair[1], pair[2]}
Candidates(c, rift, pair) ==
    {i \in rift :
        /\ Dry(c.biome[i]) /\ c.plate[i] \in {pair[1], pair[2]}
        /\ \E j \in OtherPlate(c, i) : c.plate[j] \in {pair[1], pair[2]}
        /\ Clear(c, i, pair)}

\* A bridge for every pair that has a candidate, in a biome no earlier bridge
\* stands in where possible.
Pool(c, candidates, sites) ==
    LET fresh == {i \in candidates : \A b \in DOMAIN sites : c.biome[sites[b].center] # c.biome[i]}
    IN IF fresh = {} THEN candidates ELSE fresh
BridgeSites(c, rift) ==
    FoldLeft(LAMBDA choices, pair :
                LET found == Candidates(c, rift, pair)
                IN IF found = {} THEN choices
                   ELSE UNION {{Append(s, [center |-> i, plates |-> pair]) : i \in Pool(c, found, s)}
                                  : s \in choices},
             {<<>>}, BridgePairs(c, rift))

\* The bridge of a rift cell, 0 for none; the first bridge keeps a cell.
bridge_of(sites, i) ==
    LET near == {b \in DOMAIN sites : Gap(sites[b].center, i) <= Map.bridge_radius}
    IN IF near = {} THEN 0 ELSE Min(near)

-----------------------------------------------------------------------------
(* The schedule.  position says when a bridge closes: the first has 0. *)
day(n) == n * Map.epochs_per_day

\* The beginning of part k of count equal parts of the days between two.
Part(from, to, k, count) == day(from) + (k * (day(to) - day(from))) \div count

Orders(sites) == {p \in [DOMAIN sites -> 0..(Len(sites) - 1)] : IsInjective(p)}
close_epoch(sites, position, b) ==
    Part(Map.bridges_from_day, Map.bridges_to_day, position[b], Len(sites))

schedule(rift, waves, sites, position) ==
    LET count == 1 + (IF rift = {} THEN 0 ELSE Max(Range(waves)))
        Bridged(b) == [bridge |-> b, fault |-> day(Map.fault_day),
                       shallows |-> close_epoch(sites, position, b),
                       deep |-> close_epoch(sites, position, b)]
        Sinking(i) == [bridge |-> 0, fault |-> day(Map.fault_day),
                       shallows |-> Part(Map.shallows_from_day, Map.deep_from_day, waves[i], count),
                       deep |-> Part(Map.deep_from_day, Map.bridges_from_day, waves[i], count)]
    IN [i \in rift |-> IF bridge_of(sites, i) > 0 THEN Bridged(bridge_of(sites, i)) ELSE Sinking(i)]

-----------------------------------------------------------------------------
(* The founders. *)
Inland(c) == {i \in Area : \A j \in Around(i, Map.founder_inland) : c.plate[j] = c.plate[i]}

\* Where lineage k may settle: the first of six choices that is not empty.
HomeSites(c, k) ==
    LET land == {i \in Area : Dry(c.biome[i])}
        biome == {i \in Area : c.biome[i] = Map.founders[k]}
        home == {i \in Area : c.plate[i] = (k - 1) % c.count}
        choices == <<biome \cap home \cap Inland(c), biome \cap home,
                     land \cap home \cap Inland(c), land \cap home, biome, land>>
        open == {n \in DOMAIN choices : choices[n] # {}}
    IN IF open = {} THEN {} ELSE choices[Min(open)]

\* Founders in rings around the site, at most two in a cell.  w is what is
\* settled: how many in each cell, and how many of each clade.
PerCell == Min({Map.max_per_cell, 2})
Spread(c, w, k, site) ==
    LET cells == Ranked([i \in {j \in Around(site, 16) : Dry(c.biome[j])} |-> Gap(site, i)])
        Fill(v, i) ==
            LET n == Min({PerCell - v.settled[i], Map.organisms_per_lineage - v.placed})
            IN [v EXCEPT !.settled[i] = @ + n, !.placed = @ + n]
        v == FoldLeft(Fill, [settled |-> w.settled, placed |-> 0], cells)
    IN [settled |-> v.settled,
        living |-> IF v.placed = 0 THEN w.living ELSE w.living @@ (k :> v.placed)]

Settlements(c) ==
    FoldLeft(LAMBDA worlds, k :
                IF HomeSites(c, k) = {} THEN worlds
                ELSE UNION {{Spread(c, w, k, i) : i \in HomeSites(c, k)} : w \in worlds},
             {[settled |-> [i \in Area |-> 0], living |-> <<>>]},
             [k \in DOMAIN Map.founders |-> k])

-----------------------------------------------------------------------------
(* What is checked. *)
TerrainHolds(d, c) ==
    /\ \A i \in Area : Dry(c.biome[i]) => \A j \in Beside[i] : c.biome[j] # "deep"
    /\ Cardinality({i \in Area : Dry(c.biome[i])})
          = (Cardinality(Area) * d.land_share_pct) \div 100
    /\ \A p \in 0..(c.count - 1) :
          LET dry == {i \in GroupOf(d, c.plate, p) : c.biome[i] # "mountains"}
              Share(b) == Cardinality({i \in dry : c.biome[i] = b}) * 100
              Wanted(b) == Cardinality(dry) * (CASE b = "desert" -> MixOf(d, p).desert_pct
                                                 [] b = "steppe" -> MixOf(d, p).steppe_pct
                                                 [] OTHER -> MixOf(d, p).forest_pct)
          IN \A b \in {"desert", "steppe", "forest"} : Wide(Share(b) - Wanted(b)) < 100

\* Every rift is deep when the last bridge has closed, and no step leads on.
PlatesPart(c, rifts) ==
    /\ \A i \in DOMAIN rifts : /\ rifts[i].fault <= rifts[i].shallows
                               /\ rifts[i].shallows <= rifts[i].deep
                               /\ rifts[i].deep <= day(Map.bridges_to_day)
    /\ \A i \in Area : \A j \in OtherPlate(c, i) :
          c.biome[i] = "deep" \/ c.biome[j] = "deep" \/ {i, j} \subseteq DOMAIN rifts

\* A bridge leads from plate to plate until it closes, after all else has sunk.
BridgesHold(c, rifts, sites, position) ==
    \A b \in DOMAIN sites :
        LET closes == close_epoch(sites, position, b)
            center == sites[b].center
            Stays(i) == Dry(c.biome[i]) /\ rifts[i].shallows >= closes
        IN /\ Stays(center)
           /\ \E j \in OtherPlate(c, center) : Stays(j)
           /\ \A i \in DOMAIN rifts : rifts[i].bridge = 0 => rifts[i].deep <= closes

SettlesAll(c, w) ==
    LET plates == {c.plate[i] : i \in {j \in Area : Dry(c.biome[j])}}
    IN /\ \A i \in Area : w.settled[i] <= (IF Dry(c.biome[i]) THEN PerCell ELSE 0)
       /\ SumFunction(w.settled) = SumFunction(w.living)
       /\ Len(Map.founders) >= c.count =>
             \A p \in plates : \E i \in Area : c.plate[i] = p /\ w.settled[i] > 0

\* The Breaking keeps its plan: a wanted terrain with shallows around all land;
\* bridges that lead across until they close, after all other rifts are deep;
\* then no step between plates; and founders on every future continent.
BreakingHolds ==
    \A d \in Draws :
        LET c == world_plan(d)
            rift == on_rift(c)
            waves == Table(Waves(c, rift))
        IN /\ TerrainHolds(d, c)
           /\ \A w \in Settlements(c) : SettlesAll(c, w)
           /\ \A sites \in BridgeSites(c, rift) : \A position \in Orders(sites) :
                 LET rifts == Table(schedule(rift, waves, sites, position))
                 IN PlatesPart(c, rifts) /\ BridgesHold(c, rifts, sites, position)
=============================================================================
