------------------------------ MODULE Genomes ------------------------------
(***************************************************************************)
(* The genome of an organism (core/src/genome.rs): what a birth, a cross   *)
(* (hybrid_genome) and the edit steps of a revival (edited) make of the    *)
(* genomes they start from, and what a genome means for a life: when it    *)
(* breeds, what a newborn gets and when it ages.                           *)
(*                                                                         *)
(* Randomness is left open: mutate and hybrid_genome are the sets of their *)
(* outcomes.  The lanes are the traits in play: six, or eight under the    *)
(* rules with size and longevity.  Gifts are a set.                        *)
(***************************************************************************)
EXTENDS Integers, FiniteSets, Sequences, SequencesExt, FiniteSetsExt

CONSTANT Genes   \* the ranges of the genes, under the names of genome.rs

ASSUME GenesAssumption ==
    /\ Genes.lanes \in Nat /\ Genes.edit_lanes \in 2..Genes.lanes
    /\ Genes.trait_max \in Nat \ {0}
    /\ Genes.trait_budget \in 1..(Genes.edit_lanes * Genes.trait_max)
    /\ {Genes.habitat_generalist, Genes.dispersal_max, Genes.boldness_max} \subseteq Nat \ {0}
    /\ Genes.hue_step \in 1..(Genes.hue_range - 1)
    /\ Genes.max_gifts \in 1..Cardinality(Genes.gifts)

Lanes == 1..Genes.lanes
Traits == [Lanes -> 0..Genes.trait_max]

Genome == [traits : Traits,
           habitat : 0..Genes.habitat_generalist,
           dispersal : 0..Genes.dispersal_max,
           boldness : 0..Genes.boldness_max,
           hue : 0..(Genes.hue_range - 1),
           gifts : SUBSET Genes.gifts]

Spent(t) == MapThenSumSet(LAMBDA k : t[k], Lanes)
Budgeted == {t \in Traits : Spent(t) = Genes.trait_budget}

is_valid(g) == g \in Genome /\ Spent(g.traits) = Genes.trait_budget

abs_diff(a, b) == IF a < b THEN b - a ELSE a - b
distance(t, u) == MapThenSumSet(LAMBDA k : abs_diff(t[k], u[k]), Lanes) \div 2

-----------------------------------------------------------------------------
(* Births. *)

\* One point from lane j to lane i.
Stepped(t, i, j) == [t EXCEPT ![i] = @ + 1, ![j] = @ - 1]

TraitSteps(t) ==
    {Stepped(t, p[1], p[2]) :
        p \in {q \in Lanes \X Lanes :
                  q[1] # q[2] /\ t[q[1]] < Genes.trait_max /\ t[q[2]] > 0}}

StepWithoutEnds(value, max, up) == IF up THEN value + 1 ELSE value - 1
nudge(value, max, up) ==
    CASE up /\ value < max -> value + 1
      [] ~up /\ value = 0  -> 1
      [] OTHER             -> value - 1

BehaviorSteps(g) ==
    {[g EXCEPT !.habitat = IF v >= @ THEN v + 1 ELSE v] : v \in 0..(Genes.habitat_generalist - 1)}
    \cup {[g EXCEPT !.dispersal = nudge(@, Genes.dispersal_max, up)] : up \in BOOLEAN}
    \cup {[g EXCEPT !.boldness = nudge(@, Genes.boldness_max, up)] : up \in BOOLEAN}

HueSteps(h) ==
    UNION {{(h + d) % Genes.hue_range, (h + Genes.hue_range - d) % Genes.hue_range} :
              d \in 1..Genes.hue_step}

mutate(parent) ==
    {[g EXCEPT !.traits = t, !.hue = h, !.gifts = k] :
        g \in {parent} \cup BehaviorSteps(parent),
        t \in {parent.traits} \cup TraitSteps(parent.traits),
        h \in {parent.hue} \cup HueSteps(parent.hue),
        k \in SUBSET parent.gifts}

-----------------------------------------------------------------------------
(* Crosses and revivals. *)

\* The gifts at least half of these genomes hold.
common_gifts(members) ==
    {g \in Genes.gifts :
        2 * Cardinality({k \in DOMAIN members : g \in members[k].gifts}) >= Len(members)}

\* Single steps on the lanes that allow one, until the budget is spent.
settled[t \in Traits] ==
    LET over == Spent(t) > Genes.trait_budget
        open == {k \in Lanes : IF over THEN t[k] > 0 ELSE t[k] < Genes.trait_max}
    IN IF Spent(t) = Genes.trait_budget THEN {t}
       ELSE UNION {settled[[t EXCEPT ![k] = IF over THEN @ - 1 ELSE @ + 1]] : k \in open}

HybridTraits(t, u) ==
    UNION {settled[[k \in Lanes |-> IF k \in B THEN u[k] ELSE t[k]]] : B \in SUBSET Lanes}

HybridGifts(gifts) == {s \in SUBSET gifts : Cardinality(s) <= Genes.max_gifts}

hybrid_genome(a, b, gifts) ==
    {[traits |-> t, habitat |-> h, dispersal |-> d, boldness |-> o, hue |-> c, gifts |-> k] :
        t \in HybridTraits(a.traits, b.traits),
        h \in {a.habitat, b.habitat}, d \in {a.dispersal, b.dispersal},
        o \in {a.boldness, b.boldness}, c \in {a.hue, b.hue}, k \in HybridGifts(gifts)}

\* The genomes after the edit steps: one, or none when a step is not possible.
CanEdit(t, s) ==
    /\ {s[1], s[2]} \subseteq 1..Genes.edit_lanes /\ s[1] # s[2]
    /\ t[s[1]] > 0 /\ t[s[2]] < Genes.trait_max

edited(base, steps) ==
    IF Len(steps) > 2 THEN {}
    ELSE FoldLeft(LAMBDA ts, s : {Stepped(t, s[2], s[1]) : t \in {u \in ts : CanEdit(u, s)}},
                  {base}, steps)

-----------------------------------------------------------------------------
(* What a genome means for a life.  r holds the rules read here; f and s   *)
(* are the fertility and the size of an organism, l its longevity.         *)
energy_cap(r, s) ==
    (r.energy_max * (r.size_energy_base_pct + r.size_energy_pct * s)) \div 100

Threshold(r, f, s) == r.repro_base - f * r.repro_per_fertility + s * r.size_repro
NewbornEnergy(r, f, s) == r.child_base - f * r.child_per_fertility + s * r.size_child

lifespan(r, l) ==
    LET pct == r.longevity_base_pct + r.longevity_pct * l
    IN [start |-> (r.senescence_start * pct) \div 100, last |-> (r.max_age * pct) \div 100]

\* The chance of death by age, of a million.
Ages(r, l, age) ==
    LET span == lifespan(r, l)
    IN CASE age >= span.last  -> 1000000
         [] age < span.last /\ age > span.start ->
                ((age - span.start) * 1000000) \div (span.last - span.start)
         [] OTHER             -> 0

Levels == 0..Genes.trait_max
validate(r) ==
    /\ r.senescence_start < r.max_age
    /\ \A f \in Levels :
          /\ NewbornEnergy(r, f, 0) > 0
          /\ Threshold(r, f, 0) > NewbornEnergy(r, f, 0) + r.birth_cost
          /\ Threshold(r, f, 0) <= r.energy_max
    /\ \A s \in Levels : Threshold(r, 0, s) <= energy_cap(r, s)

-----------------------------------------------------------------------------
(* What is checked. *)
ValidGenomes == [traits : Budgeted, habitat : 0..Genes.habitat_generalist,
                 dispersal : 0..Genes.dispersal_max, boldness : 0..Genes.boldness_max,
                 hue : 0..(Genes.hue_range - 1), gifts : SUBSET Genes.gifts]

ChildrenAreValid ==
    \A g \in ValidGenomes :
        /\ g \notin BehaviorSteps(g) /\ g.hue \notin HueSteps(g.hue)
        /\ \A c \in mutate(g) : is_valid(c) /\ distance(g.traits, c.traits) <= 1

DistanceCountsSteps ==
    \A t, u \in Budgeted :
        /\ (distance(t, u) = 0) <=> (t = u)
        /\ t # u => Min({distance(v, u) : v \in TraitSteps(t)}) = distance(t, u) - 1

\* Two genomes that differ in everything else too.
First(t) == [traits |-> t, habitat |-> 0, dispersal |-> 0, boldness |-> 0, hue |-> 0, gifts |-> {}]
Second(t) == [traits |-> t, habitat |-> Genes.habitat_generalist, dispersal |-> Genes.dispersal_max,
              boldness |-> Genes.boldness_max, hue |-> Genes.hue_range - 1, gifts |-> Genes.gifts]

HybridsAreBetween ==
    \A t, u \in Budgeted :
        LET a == First(t)
            b == Second(u)
            hybrids == hybrid_genome(a, b, common_gifts(<<a, b>>))
        IN /\ hybrids # {}
           /\ \A c \in hybrids :
                 /\ is_valid(c)
                 /\ distance(t, c.traits) <= distance(t, u)
                 /\ distance(u, c.traits) <= distance(t, u)

EditsReach ==
    \A t \in Budgeted :
        UNION {edited(t, e) : e \in SeqOf(Lanes \X Lanes, 2)}
            = {u \in Budgeted : /\ distance(t, u) <= 2
                                /\ \A k \in Lanes \ (1..Genes.edit_lanes) : u[k] = t[k]}

\* Rules with every number from a small range, with fertility that makes
\* breeding cheaper and size that asks no less of the parent than it gives
\* the newborn: validate asks for neither.
BreedingRules ==
    [energy_max : {6, 8}, size_energy_base_pct : {50, 100}, size_energy_pct : {0, 50},
     repro_base : 2..5, repro_per_fertility : 0..1, child_base : 1..3, child_per_fertility : 0..1,
     birth_cost : 0..1, size_repro : 0..1, size_child : 0..1,
     senescence_start : {0, 2}, max_age : {2, 5}, longevity_base_pct : {0, 60}, longevity_pct : {25}]

LivesFit ==
    \A r \in {q \in BreedingRules : validate(q) /\ q.size_child <= q.size_repro} :
        /\ \A f, s \in Levels :
              /\ NewbornEnergy(r, f, s) > 0
              /\ Threshold(r, f, s) - NewbornEnergy(r, f, s) - r.birth_cost > 0
              /\ Threshold(r, f, s) <= energy_cap(r, s)
        /\ \A l \in Levels : \A age \in 0..r.max_age :
              Ages(r, l, age) \in 0..Ages(r, l, age + 1) /\ Ages(r, l, age) <= 1000000

\* A child is a valid genome at most one step from its parent; the distance of
\* two genomes is the least number of steps between them; the steps of a cross
\* always end in a valid genome, no farther from either parent than the parents
\* are from each other; two edits reach what is two steps away; and under rules
\* that validate accepts every genome can breed, stays alive when it does and
\* has a chance of dying that never falls with its age.
GenomesStayValid ==
    ChildrenAreValid /\ DistanceCountsSteps /\ HybridsAreBetween /\ EditsReach /\ LivesFit
=============================================================================
