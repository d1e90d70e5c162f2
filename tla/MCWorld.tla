------------------------------ MODULE MCWorld ------------------------------
(* A row of three cells, two clades, a rift in the middle; genomes of four  *)
(* traits; and six continents of 8 x 5 cells with up to three plates.      *)
EXTENDS World, Genomes, Breaking

MCRules ==
    [width |-> 3, height |-> 1, max_per_cell |-> 2, max_organisms |-> 4,
     ticks_per_epoch |-> 1, epochs_per_day |-> 2, epochs_per_year |-> 4, steps |-> 1,
     area_radius |-> 1, target_radius |-> 1, min_members |-> 1, patrons |-> TRUE,
     weather_radius |-> 1, weather_ticks |-> 1, cooldown_epochs |-> 1,
     weather_regions |-> <<{0}, {2}>>,
     migrate_radius |-> 0, migrate_min |-> 1, migrate_moved |-> 1,
     revive_extinct_epochs |-> 1, revive_radius |-> 0, revive_max_nearby |-> 1,
     revive_count |-> 1, spore_bank |-> <<"steppe">>, per_genome |-> 1, revive_below |-> 2,
     revival_cooldown_epochs |-> 1, season_end_epochs |-> 2, season_end_count |-> 2,
     protect_min_living |-> 1, protect_min_permille |-> 340,
     effect_ticks |-> 1, cure_ticks |-> 2, cure_cooldown_epochs |-> 2,
     gift_cooldown_epochs |-> 1, harm_respite_epochs |-> 1,
     hybrid_count |-> 1, hybrid_min_each |-> 1, hybrid_cooldown_epochs |-> 2,
     hybrid_vigor_ticks |-> 1, rescue_radius |-> 2, max_active_per_kind |-> 1,
     flood_radius |-> 1, flood_ticks |-> 1, wildfire_radius_min |-> 0, wildfire_radius_max |-> 0,
     ash_ticks |-> 0, drought_radius |-> 0, drought_ticks |-> 2, plague_radius |-> 1, plague_min_members |-> 2,
     plague_min_share_permille |-> 500, clade_name_threshold |-> 1, museum_capacity |-> 1]

MCRifts == 1 :> [fault |-> 0, shallows |-> 1, deep |-> 2, bridge |-> 0]
        @@ 2 :> [fault |-> 1, shallows |-> 2, deep |-> 2, bridge |-> 1]

MCTerrain == 0 :> "steppe" @@ 1 :> "mountains" @@ 2 :> "swamp"

MCFounders == <<[clade |-> 1, cell |-> 0], [clade |-> 2, cell |-> 1]>>

MCWishes ==
    {[kind |-> "blight", at |-> 0, clade |-> 1],
     [kind |-> "cure", at |-> 1, clade |-> 1],
     [kind |-> "migrate", at |-> 2, from |-> 0, clade |-> 1],
     [kind |-> "revive", at |-> 2, museum |-> TRUE, entry |-> 1, edits_fit |-> TRUE],
     [kind |-> "hybrid", at |-> 1, clade |-> 1, other |-> 2, distance |-> "fits"],
     [kind |-> "hybrid", at |-> 1, clade |-> 2, other |-> 1, distance |-> "fits"]}

MCGenes ==
    [lanes |-> 4, edit_lanes |-> 3, trait_max |-> 2, trait_budget |-> 4,
     habitat_generalist |-> 2, dispersal_max |-> 1, boldness_max |-> 2,
     hue_range |-> 3, hue_step |-> 1, gifts |-> {"swim"}, max_gifts |-> 1]

Mix(m, d, s, f) ==
    [mountains_pct |-> m, desert_pct |-> d, steppe_pct |-> s, forest_pct |-> f]

MCMap ==
    [width |-> 8, height |-> 5, epochs_per_day |-> 2, max_per_cell |-> 2, falloff |-> 4,
     fault_day |-> 0, shallows_from_day |-> 1, deep_from_day |-> 2, bridges_from_day |-> 3,
     bridges_to_day |-> 4, bridge_radius |-> 1,
     biome_mix |-> Mix(20, 30, 30, 20),
     plate_mixes |-> <<Mix(10, 20, 30, 30), Mix(30, 60, 20, 10)>>,
     founders |-> <<"desert", "steppe", "swamp">>, founder_inland |-> 1,
     organisms_per_lineage |-> 3]

At(x, y) == [x |-> x, y |-> y]
MCCenters(plates) ==
    CASE plates = 3 -> <<At(1, 2), At(4, 2), At(7, 2)>>
      [] plates = 2 -> <<At(1, 2), At(6, 2)>>
      [] plates = 0 -> <<>>

\* Boundaries that are straight, bent in every second row, bent in the north; and
\* the same across, by columns.
MCBend(k) ==
    [i \in Area |-> CASE k = 0 -> 0
                      [] k = 1 -> Y(i) % 2
                      [] k = 2 -> IF Y(i) < 2 THEN 2 ELSE 0]
MCBendAcross(k) ==
    [i \in Area |-> CASE k = 0 -> 0
                      [] k = 1 -> X(i) % 2
                      [] k = 2 -> IF X(i) < 3 THEN 2 ELSE 0]

Draw(land, plates, bend) ==
    [land_share_pct |-> land, height |-> [i \in Area |-> (i * 3) % 4],
     moisture |-> [i \in Area |-> (i * 7) % 5],
     centers |-> MCCenters(plates), bend_x |-> MCBend(bend),
     bend_y |-> MCBendAcross(bend), first |-> 0]

MCDraws == {Draw(80, 3, 0), Draw(100, 3, 0), Draw(100, 3, 1),
            Draw(80, 2, 2), Draw(100, 2, 2), Draw(80, 0, 0)}

\* What a genome can become and how a world breaks up does not depend on the
\* state, so it is enough to look once, at genesis.
AtGenesis == world.epoch = 0 /\ phase = "rifts"

\* A child of any parents is a valid genome that can live and breed (genome.rs).
GenomesHold == AtGenesis => GenomesStayValid

\* A Breaking planned from any of the draws given keeps to its plan (map.rs, rifts.rs).
BreakingPlanHolds == AtGenesis => BreakingHolds
=============================================================================
