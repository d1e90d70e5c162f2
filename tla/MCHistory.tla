----------------------------- MODULE MCHistory -----------------------------
(* A small world for History: two continents, hunters and prey of two genomes
   each, and either nothing saved yet or a world four epochs old, made by its own
   rules. *)
EXTENDS Reading

CONSTANTS g1, g2, g3, g4

MCNewGenomes == {g1, g2}
MCHunting == g1 :> 4 @@ g2 :> 0 @@ g3 :> 5 @@ g4 :> 0
MCDefense == g1 :> 0 @@ g2 :> 1 @@ g3 :> 0 @@ g4 :> 2
\* All are named in one combination.
MCCombo == [g \in {g1, g2, g3, g4} |-> 1]

MCGenesis ==
    [epoch |-> 0,
     organisms |-> {Organism(1, 1, 1, g1), Organism(2, 2, 2, g2), Organism(3, 2, 2, g2)},
     clades |-> 1 :> [parent |-> 0, founded |-> 0, reference |-> g1, living |-> 1, peak |-> 1]
             @@ 2 :> [parent |-> 0, founded |-> 0, reference |-> g2, living |-> 2, peak |-> 2],
     next_organism_id |-> 4, next_clade_id |-> 3]
MCFirstWorlds == {MCGenesis}

Course(births, deaths) == [births |-> births, deaths |-> deaths, early |-> FALSE]
Birth(parent, plate, genome) == [parent |-> parent, plate |-> plate, genome |-> genome, dies |-> FALSE]

\* Clade 2 has lost one of two and had another across the sea; two clades of one
\* organism were founded, of better hunters and of better defended prey.
MCOldWorld == FoldLeft(Saved, Genesis(MCGenesis),
                       << Course(<<Birth(1, 1, g3)>>, {}), Course(<<>>, {3}),
                          Course(<<Birth(2, 1, g2)>>, {}), Course(<<Birth(1, 2, g4)>>, {}) >>)

\* In the last epoch everyone dies or nothing happens.
MCMaxChanges == <<1, 1, 1, 1, 1, 0>>
\* Up to four stories of two kinds, of two clades or none, best first.
MCLists == LET Some == [kind : {"fall", "crossing"}, clade : {NULL, 1, 2}]
           IN UNION {{[i \in 1..n |-> list[i] @@ [id |-> i]] : list \in [1..n -> Some]} : n \in 0..4}
MCBeginnings == {NULL, MCOldWorld}
=============================================================================
