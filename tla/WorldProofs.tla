----------------------------- MODULE WorldProofs -----------------------------
(***************************************************************************)
(* The world, for every ruleset, map, rift schedule, list of founders and  *)
(* set of miracles: the books of the clades agree with those who live, no  *)
(* cell and no world is too full, the rifts are on their schedule, a clade *)
(* rests after a harm, and the price and the check of a harm agree.        *)
(*                                                                         *)
(* All five follow from one invariant (IInv).  It says of the world of the *)
(* moment, with those of its organisms that live, what the five properties *)
(* say, and what they need to stay true: numbers are given once, so that   *)
(* no clade takes the id of one in the museum; a rift is never ahead of    *)
(* its schedule; and while a harm runs against a clade, the clade has a    *)
(* cooldown that lasts for the respite after the epoch in which the harm   *)
(* runs out, counted from the ticks it has left.                           *)
(*                                                                         *)
(* Loops of the code (migrations, placings, rescues, the spore bank, the   *)
(* miracles of an epoch) are recursions over positions in the model; what  *)
(* each of their steps keeps they keep by LoopKeeps (Induction).           *)
(***************************************************************************)
EXTENDS World, Induction, FiniteSetTheorems, FunctionTheorems, SequenceTheorems

-----------------------------------------------------------------------------
(* Lists in order of number, and tables. *)

Before(x, S) == Cardinality({y \in S : y < x})

\* The numbers of a set before one of it: fewer than there are in the set.
LEMMA BeforeType ==
    ASSUME NEW S \in SUBSET Nat, IsFiniteSet(S), NEW x \in S
    PROVE  Cardinality(S) \in Nat /\ Before(x, S) \in 0..(Cardinality(S) - 1)
<1> DEFINE less == {y \in S : y < x}
<1>1. less \in SUBSET S /\ less # S
    BY x \notin less
<1>2. /\ Cardinality(less) \in Nat /\ Cardinality(S) \in Nat
      /\ Cardinality(less) <= Cardinality(S) /\ Cardinality(less) # Cardinality(S)
    BY <1>1, FS_Subset, FS_CardinalityType
<1> QED BY <1>2 DEF Before

\* The greater of two numbers has more before it.
LEMMA BeforeRises ==
    ASSUME NEW S \in SUBSET Nat, IsFiniteSet(S), NEW x \in S, NEW y \in S, x < y
    PROVE  Before(x, S) < Before(y, S)
<1> DEFINE less(z) == {u \in S : u < z}
<1>1. less(x) \subseteq less(y) /\ x \in less(y) /\ x \notin less(x)
    <2>1. x \in Nat /\ y \in Nat
        OBVIOUS
    <2>2. ~(x < x) /\ x < y /\ \A u \in S : u < x => u < y
        BY <2>1
    <2> QED BY <2>2, Zenon
<1>2. less(x) \in SUBSET S /\ less(y) \in SUBSET S
    OBVIOUS
<1>3. IsFiniteSet(less(x)) /\ IsFiniteSet(less(y))
    BY <1>2, FS_Subset
<1>4. less(x) \in SUBSET less(y) /\ less(x) # less(y)
    BY <1>1
<1>5. /\ Cardinality(less(x)) \in Nat /\ Cardinality(less(y)) \in Nat
      /\ Cardinality(less(x)) <= Cardinality(less(y))
      /\ Cardinality(less(x)) # Cardinality(less(y))
    <2> HIDE DEF less
    <2> QED BY <1>3, <1>4, FS_Subset, FS_CardinalityType
<1> QED BY <1>5 DEF Before

\* The numbers of a finite set in order: each of them once.
LEMMA AscendingLists ==
    ASSUME NEW S \in SUBSET Nat, IsFiniteSet(S)
    PROVE  /\ Cardinality(S) \in Nat
           /\ Ascending(S) \in [1..Cardinality(S) -> S]
           /\ \A i, j \in 1..Cardinality(S) : Ascending(S)[i] = Ascending(S)[j] => i = j
           /\ \A x \in S : \E i \in 1..Cardinality(S) : Ascending(S)[i] = x
<1> DEFINE n == Cardinality(S)
           ranks == 0..(n - 1)
           f == [x \in S |-> Before(x, S)]
           a == Ascending(S)
<1>1. n \in Nat
    BY FS_CardinalityType
<1>2. IsFiniteSet(ranks) /\ Cardinality(ranks) = n
    <2> HIDE DEF n
    <2>1. 0 \in Int /\ n - 1 \in Int /\ (IF 0 > n - 1 THEN 0 ELSE (n - 1) - 0 + 1) = n
        BY <1>1
    <2> QED BY <2>1, FS_Interval
<1>3. f \in [S -> ranks]
    BY BeforeType
<1>4. \A x, y \in S : Before(x, S) = Before(y, S) => x = y
    <2> SUFFICES ASSUME NEW x \in S, NEW y \in S, x # y PROVE Before(x, S) # Before(y, S)
        OBVIOUS
    <2>1. x < y \/ y < x
        OBVIOUS
    <2>2. Before(x, S) \in Int /\ Before(y, S) \in Int
        BY BeforeType, <1>1
    <2> QED BY <2>1, <2>2, BeforeRises
<1>5. f \in Surjection(S, ranks)
    <2>1. \A x, y \in S : f[x] = f[y] => x = y
        BY <1>4
    <2> HIDE DEF f, ranks, n
    <2>2. f \in Injection(S, ranks)
        BY <1>3, <2>1, Fun_IsInj
    <2> QED BY <1>2, <2>2, FS_Injection DEF n
<1>6. ASSUME NEW i \in 1..n
      PROVE  a[i] \in S /\ Before(a[i], S) = i - 1
    <2>1. i - 1 \in ranks
        BY <1>1
    <2>2. \E x \in S : Before(x, S) = i - 1
        <3> HIDE DEF ranks
        <3>1. \E x \in S : f[x] = i - 1
            BY <1>5, <2>1 DEF Surjection
        <3> QED BY <3>1
    <2>3. a[i] = CHOOSE x \in S : Before(x, S) = i - 1
        BY DEF Ascending, Before
    <2> QED BY <2>2, <2>3
<1>7. a \in [1..n -> S]
    BY <1>6 DEF Ascending
<1>8. \A i, j \in 1..n : a[i] = a[j] => i = j
    <2> SUFFICES ASSUME NEW i \in 1..n, NEW j \in 1..n, a[i] = a[j] PROVE i = j
        OBVIOUS
    <2>1. i - 1 = j - 1
        BY <1>6
    <2> QED BY <1>1, <2>1
<1>9. ASSUME NEW x \in S
      PROVE  \E i \in 1..n : a[i] = x
    <2>1. Before(x, S) \in 0..(n - 1)
        BY BeforeType
    <2>2. Before(x, S) + 1 \in 1..n /\ (Before(x, S) + 1) - 1 = Before(x, S)
        BY <1>1, <2>1
    <2>3. a[Before(x, S) + 1] \in S /\ Before(a[Before(x, S) + 1], S) = Before(x, S)
        BY <1>6, <2>2
    <2> QED BY <1>4, <2>2, <2>3
<1> QED BY <1>1, <1>7, <1>8, <1>9

\* A list's members at some places: no place twice, none left out.
PicksFrom(list, places, from) ==
    /\ from \in [1..Cardinality(places) -> places]
    /\ \A i \in 1..Cardinality(places) : Picked(list, places)[i] = list[from[i]]
    /\ \A i, j \in 1..Cardinality(places) : from[i] = from[j] => i = j

\* A list of some of a list's members, none of them twice.
LEMMA PickedLists ==
    ASSUME NEW T, NEW list \in Seq(T), NEW places \in SUBSET DOMAIN list
    PROVE  /\ IsFiniteSet(places) /\ Cardinality(places) \in Nat
           /\ Picked(list, places) \in Seq(T)
           /\ Len(Picked(list, places)) = Cardinality(places)
           /\ \A i \in 1..Cardinality(places) : \E j \in places : Picked(list, places)[i] = list[j]
           /\ \A j \in places : \E i \in 1..Cardinality(places) : Picked(list, places)[i] = list[j]
           /\ \E from : PicksFrom(list, places, from)
<1> DEFINE n == Cardinality(places)
           a == Ascending(places)
           p == Picked(list, places)
<1>1. DOMAIN list = 1..Len(list) /\ Len(list) \in Nat /\ list \in [1..Len(list) -> T]
    OBVIOUS
<1>2. IsFiniteSet(places) /\ places \in SUBSET Nat
    <2>1. IsFiniteSet(1..Len(list))
        BY <1>1, FS_Interval
    <2> QED BY <1>1, <2>1, FS_Subset
<1>3. /\ n \in Nat /\ a \in [1..n -> places]
      /\ \A i, j \in 1..n : a[i] = a[j] => i = j
      /\ \A x \in places : \E i \in 1..n : a[i] = x
    BY <1>2, AscendingLists
<1>4. p = [i \in 1..n |-> list[a[i]]]
    BY DEF Picked
<1> HIDE DEF n, a, p
<1>5. p \in [1..n -> T]
    BY <1>1, <1>3, <1>4
<1>6. p \in Seq(T) /\ Len(p) = n
    BY <1>3, <1>5, LenProperties, SeqDef
<1>7. \A i \in 1..n : p[i] = list[a[i]]
    BY <1>4
<1>8. PicksFrom(list, places, a)
    BY <1>3, <1>7 DEF PicksFrom, n, p
<1> QED BY <1>2, <1>3, <1>6, <1>7, <1>8 DEF n, a, p

-----------------------------------------------------------------------------
(* Tables: functions on finitely many numbers. *)

Table(S) == UNION {[D -> S] : D \in {E \in SUBSET Nat : IsFiniteSet(E)}}

\* A function on a finite set of numbers is a table.
LEMMA IsTable ==
    ASSUME NEW S, NEW D \in SUBSET Nat, IsFiniteSet(D), NEW f \in [D -> S]
    PROVE  f \in Table(S)
BY DEF Table

\* What is known of a table.
LEMMA OfTable ==
    ASSUME NEW S, NEW f \in Table(S)
    PROVE  /\ DOMAIN f \in SUBSET Nat /\ IsFiniteSet(DOMAIN f)
           /\ f \in [DOMAIN f -> S]
BY DEF Table

\* A row put into a table.
LEMMA PutIntoTable ==
    ASSUME NEW S, NEW f \in Table(S), NEW x \in Nat, NEW y \in S
    PROVE  Put(f, x, y) \in Table(S)
<1> DEFINE D == DOMAIN f \cup {x}
           g == Put(f, x, y)
<1>1. DOMAIN f \in SUBSET Nat /\ IsFiniteSet(DOMAIN f) /\ f \in [DOMAIN f -> S]
    BY OfTable
<1>2. D \in SUBSET Nat /\ IsFiniteSet(D)
    BY <1>1, FS_AddElement
<1>3. g = [z \in D |-> IF z = x THEN y ELSE f[z]]
    BY DEF Put
<1>4. g \in [D -> S]
    BY <1>1, <1>3
<1>5. g \in Table(S)
    <2> HIDE DEF g, D
    <2> QED BY <1>2, <1>4, IsTable
<1> QED BY <1>5

\* A part of a table.
LEMMA RestrictTable ==
    ASSUME NEW S, NEW f \in Table(S), NEW D \in SUBSET DOMAIN f
    PROVE  /\ Restrict(f, D) \in Table(S) /\ DOMAIN Restrict(f, D) = D
           /\ \A z \in D : Restrict(f, D)[z] = f[z]
<1> DEFINE g == Restrict(f, D)
<1>1. DOMAIN f \in SUBSET Nat /\ IsFiniteSet(DOMAIN f) /\ f \in [DOMAIN f -> S]
    BY OfTable
<1>2. D \in SUBSET Nat /\ IsFiniteSet(D)
    BY <1>1, FS_Subset
<1>3. g = [z \in D |-> f[z]]
    BY DEF Restrict
<1>4. g \in [D -> S] /\ DOMAIN g = D /\ \A z \in D : g[z] = f[z]
    BY <1>1, <1>3
<1>5. g \in Table(S)
    <2> HIDE DEF g
    <2> QED BY <1>2, <1>4, IsTable
<1> QED BY <1>4, <1>5

-----------------------------------------------------------------------------
(* Worlds. *)

Organism == [clade : Nat, cell : Cells]
Clade == [parent : Nat, second : Nat, founded : Nat, living : Int, peak : Int]
AreaKinds == {"rain", "dry", "flood", "ash", "drought"}
CooldownKinds == {"weather", "migrate", "museum", "spore", "respite", "cure", "gift", "hybrid"}
AreaEffect == [kind : AreaKinds, center : Cells, radius : Nat, left : Int]
CladeEffect == [kind : CladeActions, clade : Nat, center : Cells, left : Int]
Cooldown == [kind : CooldownKinds, key : Nat \cup (Nat \X Nat), until : Nat]
Exhibit == [clade : Nat, founded : Nat, extinct : Nat, peak : Int]

Worlds ==
    [epoch : Nat, biome : [Cells -> Biome], rift : [Cells -> DOMAIN Rank],
     organisms : Table(Organism), clades : Table(Clade),
     effects : Seq(AreaEffect), cladeEffects : Seq(CladeEffect), cooldowns : Seq(Cooldown),
     museum : Seq(Exhibit), revivals : Seq(Nat), ended : BOOLEAN,
     nextOrganism : Nat, nextClade : Nat]

\* What only the rifts and the end of an epoch change.
SameGround(w, v) == v.epoch = w.epoch /\ v.biome = w.biome /\ v.rift = w.rift

\* What only miracles and the ticks change.
SameMarks(w, v) == v.cladeEffects = w.cladeEffects /\ v.cooldowns = w.cooldowns

\* Who lives where and belongs to whom.
SameLife(w, v) ==
    /\ v.organisms = w.organisms /\ v.clades = w.clades /\ v.museum = w.museum
    /\ v.nextOrganism = w.nextOrganism /\ v.nextClade = w.nextClade

\* The fields of a world.
LEMMA WorldRecord ==
    ASSUME NEW w \in Worlds
    PROVE  /\ w.epoch \in Nat /\ w.biome \in [Cells -> Biome] /\ w.rift \in [Cells -> DOMAIN Rank]
           /\ w.organisms \in Table(Organism) /\ w.clades \in Table(Clade)
           /\ w.effects \in Seq(AreaEffect) /\ w.cladeEffects \in Seq(CladeEffect)
           /\ w.cooldowns \in Seq(Cooldown) /\ w.museum \in Seq(Exhibit)
           /\ w.revivals \in Seq(Nat) /\ w.ended \in BOOLEAN
           /\ w.nextOrganism \in Nat /\ w.nextClade \in Nat
BY DEF Worlds

\* A cooldown is added at the end, and nothing else.
LEMMA CoolDownType ==
    ASSUME NEW w \in Worlds, NEW kind \in CooldownKinds, NEW key \in Nat \cup (Nat \X Nat),
           NEW epochs \in Nat
    PROVE  /\ CoolDown(w, kind, key, epochs) \in Worlds
           /\ SameGround(w, CoolDown(w, kind, key, epochs))
           /\ SameLife(w, CoolDown(w, kind, key, epochs))
           /\ CoolDown(w, kind, key, epochs).cladeEffects = w.cladeEffects
           /\ CoolDown(w, kind, key, epochs).cooldowns =
                  Append(w.cooldowns, [kind |-> kind, key |-> key, until |-> w.epoch + epochs])
<1>1. w.epoch + epochs \in Nat /\ w.cooldowns \in Seq(Cooldown)
    BY WorldRecord
<1>2. [kind |-> kind, key |-> key, until |-> w.epoch + epochs] \in Cooldown
    BY <1>1 DEF Cooldown
<1>3. Append(w.cooldowns, [kind |-> kind, key |-> key, until |-> w.epoch + epochs]) \in Seq(Cooldown)
    BY <1>1, <1>2
<1> HIDE DEF Cooldown
<1> QED BY <1>3 DEF CoolDown, Worlds, SameGround, SameLife

-----------------------------------------------------------------------------
(* The invariant. *)

\* A world and those of its organisms that live: no cell and no world too full,
\* and nobody in deep water.
Standing(w, living, c) == {o \in living : w.organisms[o].cell = c}
Fits(w, living) ==
    /\ \A c \in Cells :
          Cardinality(Standing(w, living, c)) <= Rules.max_per_cell
    /\ Cardinality(living) <= Rules.max_organisms
Dry(w, living) == \A o \in living : Passable(w, w.organisms[o].cell)

\* The books of the clades agree with those who live, numbers are given once.
MembersIn(w, living, c) == {o \in living : w.organisms[o].clade = c}
Booked(w, living) ==
    /\ \A o \in DOMAIN w.organisms :
          o < w.nextOrganism /\ w.organisms[o].clade \in DOMAIN w.clades
    /\ \A c \in DOMAIN w.clades :
          /\ c < w.nextClade
          /\ w.clades[c].living = Cardinality(MembersIn(w, living, c))
          /\ w.clades[c].peak >= w.clades[c].living
    /\ \A i \in DOMAIN w.museum :
          w.museum[i].clade \notin DOMAIN w.clades /\ w.museum[i].clade < w.nextClade
    /\ \A i, j \in DOMAIN w.museum : i # j => w.museum[i].clade # w.museum[j].clade
AllLive(w) == \A c \in DOMAIN w.clades : w.clades[c].living > 0

\* A rift is never ahead of its schedule, and its biome is that of its phase.
RiftsBehind(w) ==
    \A c \in DOMAIN Rifts :
        /\ w.rift[c] # "none" /\ Rank[w.rift[c]] <= Rank[phase_at(c, w.epoch)]
        /\ w.rift[c] = "shallows" => w.biome[c] = "shallows"
        /\ w.rift[c] = "deep" <=> w.biome[c] = "deep"
RiftsThere(w) == \A c \in DOMAIN Rifts : w.rift[c] = phase_at(c, w.epoch)

\* A clade at rest until the epoch e at least.
RestsUntil(w, c, e) ==
    \E k \in DOMAIN w.cooldowns :
        w.cooldowns[k].kind = "respite" /\ w.cooldowns[k].key = c /\ w.cooldowns[k].until >= e

\* With a number of ticks of its epoch past: one harm runs against a clade, the
\* clade rests for the respite from the epoch on in which that harm runs out,
\* and after one that has run out it rests as long or has done so.
Harms(w) == {i \in DOMAIN w.cladeEffects : is_harm(w.cladeEffects[i].kind)}
RunsOut(w, past, i) ==
    w.epoch + ((past + w.cladeEffects[i].left - 1) \div Rules.ticks_per_epoch)
OneHarm(w) ==
    \A i, j \in Harms(w) : w.cladeEffects[i].clade = w.cladeEffects[j].clade => i = j
HarmedRest(w, past) ==
    \A i \in Harms(w) :
        /\ w.cladeEffects[i].left >= 1
        /\ RestsUntil(w, w.cladeEffects[i].clade,
                      RunsOut(w, past, i) + 1 + Rules.harm_respite_epochs)
HealedRest(w, ends) ==
    \A c \in DOMAIN ends :
        \/ RestsUntil(w, c, ends[c] + 1 + Rules.harm_respite_epochs)
        \/ w.epoch >= ends[c] + 1 + Rules.harm_respite_epochs
Resting(w, past, ends) == OneHarm(w) /\ HarmedRest(w, past) /\ HealedRest(w, ends)

Past == IF Settled THEN tick ELSE tick + 1

Phases == {"rifts", "nature", "plague", "weather", "miracles", "revival", "environment",
           "turns", "births"}
AtBoundary == phase \notin {"environment", "turns", "births"}

TypesHold ==
    /\ world \in Worlds
    /\ phase \in Phases
    /\ tick \in 0..(Rules.ticks_per_epoch - 1) /\ (AtBoundary => tick = 0)
    /\ alive \in SUBSET DOMAIN world.organisms /\ todo \in SUBSET DOMAIN world.organisms
    /\ harmEnd \in Table(Nat)

IInv ==
    /\ TypesHold
    /\ Settled => alive = DOMAIN world.organisms /\ todo = {} /\ AllLive(world)
    /\ Fits(world, alive) /\ Dry(world, alive) /\ Booked(world, alive)
    /\ RiftsBehind(world) /\ (phase # "rifts" => RiftsThere(world))
    /\ Resting(world, Past, harmEnd)

-----------------------------------------------------------------------------
(* Counting. *)

\* Sets of at most one more.
LEMMA OneMore ==
    ASSUME NEW S, IsFiniteSet(S), NEW x, NEW T \in SUBSET (S \cup {x})
    PROVE  /\ IsFiniteSet(T) /\ Cardinality(T) \in Nat /\ Cardinality(S) \in Nat
           /\ Cardinality(T) <= Cardinality(S) + 1
<1>1. /\ IsFiniteSet(S \cup {x}) /\ Cardinality(S) \in Nat
      /\ Cardinality(S \cup {x}) \in {Cardinality(S), Cardinality(S) + 1}
    BY FS_AddElement, FS_CardinalityType
<1>2. /\ IsFiniteSet(T) /\ Cardinality(T) \in Nat /\ Cardinality(S \cup {x}) \in Nat
      /\ Cardinality(T) <= Cardinality(S \cup {x})
    BY <1>1, FS_Subset, FS_CardinalityType
<1> QED BY <1>1, <1>2

\* A part of a finite set is not larger.
LEMMA NoMore ==
    ASSUME NEW S, IsFiniteSet(S), NEW T \in SUBSET S
    PROVE  /\ IsFiniteSet(T) /\ Cardinality(T) \in Nat /\ Cardinality(S) \in Nat
           /\ Cardinality(T) <= Cardinality(S)
BY FS_Subset, FS_CardinalityType

\* What is left of a finite set.
LEMMA Removed ==
    ASSUME NEW S, IsFiniteSet(S), NEW D
    PROVE  /\ Cardinality(S \ D) \in Nat /\ Cardinality(S \cap D) \in Nat
           /\ Cardinality(S \ D) = Cardinality(S) - Cardinality(S \cap D)
<1>1. IsFiniteSet(S \ D) /\ Cardinality(S \ D) = Cardinality(S) - Cardinality(S \cap D)
    BY FS_Difference
<1>2. IsFiniteSet(S \cap D)
    BY FS_Subset
<1> QED BY <1>1, <1>2, FS_CardinalityType

\* The least number of a set is in it.
LEMMA LeastOfNats ==
    ASSUME NEW S \in SUBSET Nat, S # {}
    PROVE  Min(S) \in S
BY LeastNumber DEF Min

\* The parameters the proofs count with.
LEMMA RulesAreNumbers ==
    /\ Rules.max_per_cell \in Nat \ {0} /\ Rules.max_organisms \in Nat
    /\ Rules.ticks_per_epoch \in Nat \ {0}
    /\ Rules.harm_respite_epochs \in Nat /\ Rules.effect_ticks \in Nat \ {0}
    /\ Cells \in SUBSET Nat
<1>1. Rules.max_per_cell \in 1..4 /\ Rules.ticks_per_epoch \in Nat \ {0}
    BY RulesAssumption DEF ValidRules
<1>2. Rules.effect_ticks \in Nat \ {0}
    BY RulesAssumption
<1>3. Rules.max_organisms \in Nat /\ Rules.harm_respite_epochs \in Nat
    BY RulesAssumption DEF Unsigned
<1>4. Cells \in SUBSET Nat
    BY DEF Cells
<1> QED BY <1>1, <1>2, <1>3, <1>4

-----------------------------------------------------------------------------
(* Deaths keep the books, and leave room. *)

\* Who lives, stands in a cell or belongs to a clade can be counted.
LEMMA MembersAreFinite ==
    ASSUME NEW w \in Worlds, NEW living \in SUBSET DOMAIN w.organisms
    PROVE  /\ IsFiniteSet(living) /\ Cardinality(living) \in Nat
           /\ \A c : IsFiniteSet(MembersIn(w, living, c))
                     /\ Cardinality(MembersIn(w, living, c)) \in Nat
           /\ \A c : IsFiniteSet(Standing(w, living, c))
                     /\ Cardinality(Standing(w, living, c)) \in Nat
<1>1. IsFiniteSet(DOMAIN w.organisms)
    BY WorldRecord, OfTable
<1>2. IsFiniteSet(living)
    BY <1>1, FS_Subset
<1>3. \A S \in SUBSET living : IsFiniteSet(S) /\ Cardinality(S) \in Nat
    BY <1>2, FS_Subset, FS_CardinalityType
<1> QED BY <1>3 DEF MembersIn, Standing

\* Fewer of the living, where they are, fit as well.
LEMMA FewerFit ==
    ASSUME NEW w \in Worlds, NEW living \in SUBSET DOMAIN w.organisms, Fits(w, living),
           NEW v, NEW left \in SUBSET living,
           \A o \in left : v.organisms[o] = w.organisms[o]
    PROVE  Fits(v, left)
<1>1. ASSUME NEW c \in Cells
      PROVE  Cardinality(Standing(v, left, c)) <= Rules.max_per_cell
    <2> DEFINE S == Standing(w, living, c)
               T == Standing(v, left, c)
    <2>1. IsFiniteSet(S) /\ Cardinality(S) <= Rules.max_per_cell
        BY MembersAreFinite DEF Fits
    <2>2. T \in SUBSET S
        BY DEF Standing
    <2> HIDE DEF S, T
    <2>3. Cardinality(T) \in Nat /\ Cardinality(S) \in Nat /\ Cardinality(T) <= Cardinality(S)
        BY <2>1, <2>2, NoMore
    <2>4. Cardinality(T) <= Rules.max_per_cell
        BY <2>1, <2>3, RulesAreNumbers
    <2> QED BY <2>4 DEF T
<1>2. Cardinality(left) <= Rules.max_organisms
    <2>1. IsFiniteSet(living) /\ Cardinality(living) <= Rules.max_organisms
        BY MembersAreFinite DEF Fits
    <2>2. Cardinality(left) \in Nat /\ Cardinality(living) \in Nat
          /\ Cardinality(left) <= Cardinality(living)
        BY <2>1, NoMore
    <2> QED BY <2>1, <2>2, RulesAreNumbers
<1> QED BY <1>1, <1>2 DEF Fits

\* Deaths only lower the counts of the living.
LEMMA LivingLessType ==
    ASSUME NEW w \in Worlds, NEW dead \in SUBSET DOMAIN w.organisms
    PROVE  /\ LivingLess(w.clades, dead, w.organisms) \in Table(Clade)
           /\ DOMAIN LivingLess(w.clades, dead, w.organisms) = DOMAIN w.clades
           /\ \A c \in DOMAIN w.clades :
                 /\ LivingLess(w.clades, dead, w.organisms)[c].living
                        = w.clades[c].living - Cardinality(MembersIn(w, dead, c))
                 /\ LivingLess(w.clades, dead, w.organisms)[c].peak = w.clades[c].peak
                 /\ LivingLess(w.clades, dead, w.organisms)[c].founded = w.clades[c].founded
<1> DEFINE less == LivingLess(w.clades, dead, w.organisms)
           D == DOMAIN w.clades
<1>1. D \in SUBSET Nat /\ IsFiniteSet(D) /\ w.clades \in [D -> Clade]
    BY WorldRecord, OfTable
<1>2. \A c \in D : Cardinality(MembersIn(w, dead, c)) \in Nat
    BY MembersAreFinite
<1>3. less = [c \in D |-> [w.clades[c] EXCEPT !.living = @ - Cardinality(MembersIn(w, dead, c))]]
    BY DEF LivingLess, MembersIn
<1>4. ASSUME NEW c \in D
      PROVE  /\ less[c] \in Clade /\ less[c].peak = w.clades[c].peak
             /\ less[c].founded = w.clades[c].founded
             /\ less[c].living = w.clades[c].living - Cardinality(MembersIn(w, dead, c))
    <2>1. w.clades[c] \in Clade /\ Cardinality(MembersIn(w, dead, c)) \in Nat
        BY <1>1, <1>2
    <2>2. less[c] = [w.clades[c] EXCEPT !.living = @ - Cardinality(MembersIn(w, dead, c))]
        BY <1>3
    <2> HIDE DEF less
    <2> QED BY <2>1, <2>2 DEF Clade
<1>5. less \in [D -> Clade] /\ DOMAIN less = D
    BY <1>3, <1>4
<1>6. less \in Table(Clade)
    <2> HIDE DEF less, D
    <2> QED BY <1>1, <1>5, IsTable
<1> QED BY <1>4, <1>5, <1>6

\* The count of the living after a death.
LEMMA MembersLess ==
    ASSUME NEW w \in Worlds, NEW living \in SUBSET DOMAIN w.organisms,
           NEW dead \in SUBSET living, NEW c
    PROVE  Cardinality(MembersIn(w, living \ dead, c))
               = Cardinality(MembersIn(w, living, c)) - Cardinality(MembersIn(w, dead, c))
<1> DEFINE S == MembersIn(w, living, c)
           D == MembersIn(w, dead, c)
<1>1. IsFiniteSet(S)
    BY MembersAreFinite
<1>2. MembersIn(w, living \ dead, c) = S \ D /\ S \cap D = D
    BY DEF MembersIn
<1>3. Cardinality(S \ D) = Cardinality(S) - Cardinality(S \cap D)
    BY <1>1, Removed
<1> QED BY <1>2, <1>3

\* A kill in the middle of a tick: the bodies stay.
LEMMA KillKeeps ==
    ASSUME NEW w \in Worlds, NEW living \in SUBSET DOMAIN w.organisms, Booked(w, living),
           NEW dead \in SUBSET living
    PROVE  /\ kill(w, dead) \in Worlds
           /\ SameGround(w, kill(w, dead)) /\ SameMarks(w, kill(w, dead))
           /\ kill(w, dead).organisms = w.organisms
           /\ Booked(kill(w, dead), living \ dead)
<1> DEFINE v == kill(w, dead)
           less == LivingLess(w.clades, dead, w.organisms)
<1>1. v = [w EXCEPT !.clades = less]
    BY DEF kill
<1>2. /\ less \in Table(Clade) /\ DOMAIN less = DOMAIN w.clades
      /\ \A c \in DOMAIN w.clades :
            /\ less[c].living = w.clades[c].living - Cardinality(MembersIn(w, dead, c))
            /\ less[c].peak = w.clades[c].peak
    BY LivingLessType
<1> HIDE DEF less, v
<1>3. /\ v \in Worlds /\ SameGround(w, v) /\ SameMarks(w, v) /\ v.organisms = w.organisms
      /\ v.clades = less /\ v.museum = w.museum
      /\ v.nextOrganism = w.nextOrganism /\ v.nextClade = w.nextClade
    BY <1>1, <1>2 DEF Worlds, SameGround, SameMarks
<1>4. ASSUME NEW c \in DOMAIN v.clades
      PROVE  /\ c < v.nextClade
             /\ v.clades[c].living = Cardinality(MembersIn(v, living \ dead, c))
             /\ v.clades[c].peak >= v.clades[c].living
    <2>1. c \in DOMAIN w.clades /\ w.clades \in [DOMAIN w.clades -> Clade]
        BY <1>2, <1>3, WorldRecord, OfTable
    <2>2. /\ c < w.nextClade /\ w.clades[c].living = Cardinality(MembersIn(w, living, c))
          /\ w.clades[c].peak >= w.clades[c].living
          /\ w.clades[c].peak \in Int
        BY <2>1 DEF Booked, Clade
    <2>3. /\ Cardinality(MembersIn(w, living, c)) \in Nat /\ Cardinality(MembersIn(w, dead, c)) \in Nat
        BY MembersAreFinite
    <2>4. Cardinality(MembersIn(w, living \ dead, c))
              = Cardinality(MembersIn(w, living, c)) - Cardinality(MembersIn(w, dead, c))
        BY MembersLess
    <2>5. MembersIn(v, living \ dead, c) = MembersIn(w, living \ dead, c)
        BY <1>3 DEF MembersIn
    <2>6. /\ v.clades[c].living = w.clades[c].living - Cardinality(MembersIn(w, dead, c))
          /\ v.clades[c].peak = w.clades[c].peak
        BY <1>2, <1>3, <2>1
    <2> QED BY <1>3, <2>2, <2>3, <2>4, <2>5, <2>6
<1>5. Booked(v, living \ dead)
    <2>1. \A o \in DOMAIN v.organisms :
              o < v.nextOrganism /\ v.organisms[o].clade \in DOMAIN v.clades
        BY <1>2, <1>3 DEF Booked
    <2>2. /\ \A i \in DOMAIN v.museum :
                v.museum[i].clade \notin DOMAIN v.clades /\ v.museum[i].clade < v.nextClade
          /\ \A i, j \in DOMAIN v.museum : i # j => v.museum[i].clade # v.museum[j].clade
        BY <1>2, <1>3 DEF Booked
    <2> QED BY <1>4, <2>1, <2>2 DEF Booked
<1> QED BY <1>3, <1>5 DEF v

\* The newest of a list: its end.
LEMMA NewestIsTheEnd ==
    ASSUME NEW T, NEW list \in Seq(T), NEW capacity \in Nat
    PROVE  /\ Newest(list, capacity) \in Seq(T)
           /\ \E skip \in Nat : \A i \in DOMAIN Newest(list, capacity) :
                  i + skip \in DOMAIN list /\ Newest(list, capacity)[i] = list[i + skip]
<1>1. Len(list) \in Nat /\ DOMAIN list = 1..Len(list)
    OBVIOUS
<1>2. CASE Len(list) <= capacity
    <2>1. Newest(list, capacity) = list
        BY <1>2 DEF Newest
    <2>2. \A i \in DOMAIN list : i + 0 \in DOMAIN list /\ list[i] = list[i + 0]
        BY <1>1
    <2> QED BY <2>1, <2>2
<1>3. CASE ~(Len(list) <= capacity)
    <2> DEFINE skip == Len(list) - capacity
           n == Len(list)
    <2>1. skip \in Nat /\ skip + 1 \in Int /\ n \in Int /\ skip <= n
        BY <1>1, <1>3
    <2>2. Newest(list, capacity) = SubSeq(list, skip + 1, n)
        BY <1>1, <1>3 DEF Newest
    <2> HIDE DEF skip
    <2>3. \A i \in (skip + 1)..n : list[i] \in T
        BY <1>1, <2>1
    <2> HIDE DEF n
    <2>4. /\ SubSeq(list, skip + 1, n) \in Seq(T)
          /\ Len(SubSeq(list, skip + 1, n)) = IF skip + 1 <= n THEN n - (skip + 1) + 1 ELSE 0
          /\ \A i \in 1..(n - (skip + 1) + 1) :
                SubSeq(list, skip + 1, n)[i] = list[skip + 1 + i - 1]
        BY <2>1, <2>3, SubSeqProperties
    <2>5. /\ n - (skip + 1) + 1 = n - skip
          /\ (IF skip + 1 <= n THEN n - (skip + 1) + 1 ELSE 0) = n - skip
          /\ \A i \in 1..(n - skip) : i + skip \in 1..n /\ skip + 1 + i - 1 = i + skip
        BY <2>1
    <2>6. DOMAIN SubSeq(list, skip + 1, n) = 1..(n - skip)
        BY <2>4, <2>5
    <2>7. DOMAIN list = 1..n
        BY <1>1 DEF n
    <2> QED BY <2>1, <2>2, <2>4, <2>5, <2>6, <2>7
<1> QED BY <1>2, <1>3

\* Extinct clades leave, and with them nobody.
LEMMA CloseKeeps ==
    ASSUME NEW w \in Worlds, Booked(w, DOMAIN w.organisms)
    PROVE  /\ close_extinct_clades(w) \in Worlds
           /\ SameGround(w, close_extinct_clades(w)) /\ SameMarks(w, close_extinct_clades(w))
           /\ close_extinct_clades(w).organisms = w.organisms
           /\ Booked(close_extinct_clades(w), DOMAIN w.organisms)
           /\ AllLive(close_extinct_clades(w))
<1> DEFINE v == close_extinct_clades(w)
           extinct == {c \in DOMAIN w.clades : w.clades[c].living = 0}
           named == {c \in extinct : w.clades[c].peak >= Rules.clade_name_threshold}
           a == Ascending(named)
           n == Cardinality(named)
           entries == [k \in 1..n |-> Remembered(w, a[k])]
           D == DOMAIN w.clades \ extinct
           kept == Restrict(w.clades, D)
           list == w.museum \o entries
           museum == Newest(list, Rules.museum_capacity)
<1>1. v = [w EXCEPT !.clades = kept, !.museum = museum]
    BY DEF close_extinct_clades
<1>2. /\ DOMAIN w.clades \in SUBSET Nat /\ IsFiniteSet(DOMAIN w.clades)
      /\ w.clades \in [DOMAIN w.clades -> Clade] /\ w.clades \in Table(Clade)
      /\ w.museum \in Seq(Exhibit) /\ w.epoch \in Nat
    BY WorldRecord, OfTable
<1>3. kept \in Table(Clade) /\ DOMAIN kept = D /\ \A c \in D : kept[c] = w.clades[c]
    <2>1. D \in SUBSET DOMAIN w.clades
        OBVIOUS
    <2> HIDE DEF D
    <2> QED BY <1>2, <2>1, RestrictTable
<1>4. /\ n \in Nat /\ a \in [1..n -> named]
      /\ \A i, j \in 1..n : a[i] = a[j] => i = j
    <2>1. named \in SUBSET Nat /\ IsFiniteSet(named)
        BY <1>2, FS_Subset
    <2> HIDE DEF named
    <2> QED BY <2>1, AscendingLists
<1>5. \A c \in named : c \in DOMAIN w.clades /\ c \in Nat /\ c \notin D /\ w.clades[c] \in Clade
    BY <1>2
<1> HIDE DEF named, a, n, kept
<1>6. \A k \in 1..n : entries[k].clade = a[k] /\ entries[k] \in Exhibit
    <2> SUFFICES ASSUME NEW k \in 1..n
                 PROVE  entries[k].clade = a[k] /\ entries[k] \in Exhibit
        OBVIOUS
    <2>1. a[k] \in named /\ a[k] \in Nat /\ w.clades[a[k]] \in Clade
        BY <1>4, <1>5
    <2>2. Remembered(w, a[k]).clade = a[k] /\ Remembered(w, a[k]) \in Exhibit
        BY <1>2, <2>1 DEF Remembered, Clade, Exhibit
    <2> QED BY <2>2
<1>7. entries \in Seq(Exhibit) /\ Len(entries) = n
    <2>1. entries \in [1..n -> Exhibit]
        BY <1>6
    <2> HIDE DEF entries
    <2> QED BY <1>4, <2>1, LenProperties, SeqDef
<1> HIDE DEF entries
<1>8. /\ list \in Seq(Exhibit) /\ DOMAIN list = 1..(Len(w.museum) + n)
      /\ \A i \in DOMAIN list :
            IF i <= Len(w.museum) THEN i \in DOMAIN w.museum /\ list[i] = w.museum[i]
            ELSE i - Len(w.museum) \in 1..n /\ list[i] = entries[i - Len(w.museum)]
    <2>1. Len(w.museum) \in Nat /\ DOMAIN w.museum = 1..Len(w.museum)
        BY <1>2
    <2>2. /\ list \in Seq(Exhibit) /\ Len(list) = Len(w.museum) + n
          /\ \A i \in 1..(Len(w.museum) + n) :
                list[i] = IF i <= Len(w.museum) THEN w.museum[i] ELSE entries[i - Len(w.museum)]
        BY <1>2, <1>7, ConcatProperties
    <2> HIDE DEF list
    <2>3. DOMAIN list = 1..(Len(w.museum) + n)
        BY <2>2
    <2>4. ASSUME NEW i \in 1..(Len(w.museum) + n)
          PROVE  /\ i <= Len(w.museum) => i \in 1..Len(w.museum)
                 /\ ~(i <= Len(w.museum)) => i - Len(w.museum) \in 1..n
        BY <1>4, <2>1
    <2> QED BY <2>1, <2>2, <2>3, <2>4
<1> HIDE DEF list
<1>9. ASSUME NEW i \in DOMAIN list
      PROVE  list[i].clade \notin D /\ list[i].clade < w.nextClade
    <2>1. CASE i <= Len(w.museum)
        BY <1>8, <2>1 DEF Booked
    <2>2. CASE ~(i <= Len(w.museum))
        <3>1. i - Len(w.museum) \in 1..n /\ list[i].clade = a[i - Len(w.museum)]
            BY <1>6, <1>8, <2>2
        <3>2. a[i - Len(w.museum)] \in named
            BY <1>4, <3>1
        <3> HIDE DEF D
        <3> QED BY <1>5, <3>1, <3>2 DEF Booked
    <2> QED BY <2>1, <2>2
<1>10. ASSUME NEW i \in DOMAIN list, NEW j \in DOMAIN list, i # j
       PROVE  list[i].clade # list[j].clade
    <2> DEFINE m == Len(w.museum)
    <2>0. m \in Nat /\ DOMAIN w.museum = 1..m /\ i \in Nat /\ j \in Nat
        BY <1>2, <1>4, <1>8
    <2>a. ASSUME NEW k \in DOMAIN list, ~(k <= m)
          PROVE  k - m \in 1..n /\ list[k].clade = a[k - m] /\ a[k - m] \in DOMAIN w.clades
        <3>1. k - m \in 1..n /\ list[k].clade = a[k - m]
            BY <1>6, <1>8, <2>a
        <3> QED BY <1>4, <1>5, <3>1
    <2>b. ASSUME NEW k \in DOMAIN list, k <= m
          PROVE  k \in DOMAIN w.museum /\ list[k] = w.museum[k]
                 /\ w.museum[k].clade \notin DOMAIN w.clades
        <3>1. k \in DOMAIN w.museum /\ list[k] = w.museum[k]
            BY <1>8, <2>b
        <3> QED BY <3>1 DEF Booked
    <2> HIDE DEF m
    <2>1. CASE i <= m /\ j <= m
        BY <1>10, <2>b, <2>1 DEF Booked
    <2>2. CASE i <= m /\ ~(j <= m)
        BY <2>a, <2>b, <2>2
    <2>3. CASE ~(i <= m) /\ j <= m
        BY <2>a, <2>b, <2>3
    <2>4. CASE ~(i <= m) /\ ~(j <= m)
        <3>1. i - m \in 1..n /\ j - m \in 1..n /\ i - m # j - m
            BY <1>10, <2>0, <2>a, <2>4
        <3> QED BY <1>4, <2>a, <2>4, <3>1
    <2> QED BY <2>1, <2>2, <2>3, <2>4
<1>11. /\ museum \in Seq(Exhibit)
       /\ \A i \in DOMAIN museum : museum[i].clade \notin D /\ museum[i].clade < w.nextClade
       /\ \A i, j \in DOMAIN museum : i # j => museum[i].clade # museum[j].clade
    <2>1. Rules.museum_capacity \in Nat
        BY RulesAssumption DEF Unsigned
    <2>2. museum \in Seq(Exhibit)
        BY <1>8, <2>1, NewestIsTheEnd
    <2>3. PICK skip \in Nat : \A i \in DOMAIN museum :
              i + skip \in DOMAIN list /\ museum[i] = list[i + skip]
        BY <1>8, <2>1, NewestIsTheEnd
    <2> HIDE DEF museum, D
    <2>4. \A i, j \in DOMAIN museum : i # j => i + skip # j + skip
        BY <2>2, <2>3
    <2>5. \A i \in DOMAIN museum : museum[i].clade \notin D /\ museum[i].clade < w.nextClade
        BY <1>9, <2>3
    <2>6. \A i, j \in DOMAIN museum : i # j => museum[i].clade # museum[j].clade
        BY <1>10, <2>3, <2>4
    <2> QED BY <2>2, <2>5, <2>6
<1> HIDE DEF museum, v
<1>12. /\ v \in Worlds /\ SameGround(w, v) /\ SameMarks(w, v) /\ v.organisms = w.organisms
       /\ v.clades = kept /\ v.museum = museum
       /\ v.nextOrganism = w.nextOrganism /\ v.nextClade = w.nextClade
    BY <1>1, <1>3, <1>11 DEF Worlds, SameGround, SameMarks
<1>13. ASSUME NEW c \in D
       PROVE  /\ c < v.nextClade
              /\ kept[c].living = Cardinality(MembersIn(v, DOMAIN w.organisms, c))
              /\ kept[c].peak >= kept[c].living /\ kept[c].living > 0
    <2>1. kept[c] = w.clades[c] /\ c \in DOMAIN w.clades /\ w.clades[c].living # 0
        BY <1>3
    <2>2. /\ c < w.nextClade /\ w.clades[c].peak >= w.clades[c].living
          /\ w.clades[c].living = Cardinality(MembersIn(w, DOMAIN w.organisms, c))
        BY <2>1 DEF Booked
    <2>3. MembersIn(v, DOMAIN w.organisms, c) = MembersIn(w, DOMAIN w.organisms, c)
        BY <1>12 DEF MembersIn
    <2>4. Cardinality(MembersIn(w, DOMAIN w.organisms, c)) \in Nat
        BY MembersAreFinite
    <2> QED BY <1>12, <2>1, <2>2, <2>3, <2>4
<1>14. ASSUME NEW o \in DOMAIN w.organisms
       PROVE  o < w.nextOrganism /\ w.organisms[o].clade \in D
    <2>1. o < w.nextOrganism /\ w.organisms[o].clade \in DOMAIN w.clades
        BY DEF Booked
    <2> DEFINE c == w.organisms[o].clade
               M == MembersIn(w, DOMAIN w.organisms, c)
    <2>2. o \in M
        BY DEF MembersIn
    <2>3. IsFiniteSet(M)
        BY MembersAreFinite
    <2>4. Cardinality(M) # 0
        <3> HIDE DEF M
        <3> QED BY <2>2, <2>3, FS_EmptySet
    <2>5. w.clades[c].living = Cardinality(M)
        BY <2>1 DEF Booked
    <2> QED BY <2>1, <2>4, <2>5
<1> HIDE DEF D
<1>15. Booked(v, DOMAIN w.organisms) /\ AllLive(v)
    BY <1>3, <1>11, <1>12, <1>13, <1>14 DEF Booked, AllLive
<1> QED BY <1>12, <1>15 DEF v

\* The bodies of the dead are dropped.
Dropping(w, living) == [w EXCEPT !.organisms = Restrict(@, living)]

\* The bodies that are dropped were in no book.
LEMMA DroppingKeeps ==
    ASSUME NEW w \in Worlds, NEW living \in SUBSET DOMAIN w.organisms, Booked(w, living)
    PROVE  /\ Dropping(w, living) \in Worlds
           /\ SameGround(w, Dropping(w, living)) /\ SameMarks(w, Dropping(w, living))
           /\ DOMAIN Dropping(w, living).organisms = living
           /\ \A o \in living : Dropping(w, living).organisms[o] = w.organisms[o]
           /\ Booked(Dropping(w, living), living)
<1> DEFINE v == Dropping(w, living)
           left == Restrict(w.organisms, living)
<1>1. /\ left \in Table(Organism) /\ DOMAIN left = living
      /\ \A o \in living : left[o] = w.organisms[o]
    <2>1. w.organisms \in Table(Organism)
        BY WorldRecord
    <2> QED BY <2>1, RestrictTable
<1>2. v = [w EXCEPT !.organisms = left]
    BY DEF Dropping
<1> HIDE DEF left, v
<1>3. /\ v \in Worlds /\ SameGround(w, v) /\ SameMarks(w, v) /\ v.organisms = left
      /\ v.clades = w.clades /\ v.museum = w.museum
      /\ v.nextOrganism = w.nextOrganism /\ v.nextClade = w.nextClade
    BY <1>1, <1>2 DEF Worlds, SameGround, SameMarks
<1>4. \A c : MembersIn(v, living, c) = MembersIn(w, living, c)
    BY <1>1, <1>3 DEF MembersIn
<1>5. Booked(v, living)
    BY <1>1, <1>3, <1>4 DEF Booked
<1> QED BY <1>1, <1>3, <1>5 DEF v

\* The dead leave the world at once.
LEMMA WithoutKeeps ==
    ASSUME NEW w \in Worlds, Booked(w, DOMAIN w.organisms), NEW dead \in SUBSET DOMAIN w.organisms
    PROVE  /\ Without(w, dead) \in Worlds
           /\ SameGround(w, Without(w, dead)) /\ SameMarks(w, Without(w, dead))
           /\ DOMAIN Without(w, dead).organisms = DOMAIN w.organisms \ dead
           /\ \A o \in DOMAIN w.organisms \ dead :
                  Without(w, dead).organisms[o] = w.organisms[o]
           /\ Booked(Without(w, dead), DOMAIN w.organisms \ dead)
<1> DEFINE u == kill(w, dead)
           living == DOMAIN w.organisms \ dead
<1>1. /\ u \in Worlds /\ SameGround(w, u) /\ SameMarks(w, u)
      /\ u.organisms = w.organisms /\ Booked(u, living)
    BY KillKeeps
<1>2. Without(w, dead) = Dropping(u, living)
    <2> DEFINE less == LivingLess(w.clades, dead, w.organisms)
               left == Restrict(w.organisms, living)
    <2>1. Without(w, dead) = [w EXCEPT !.clades = less, !.organisms = left]
        BY DEF Without
    <2>2. u = [w EXCEPT !.clades = less]
        BY DEF kill
    <2>3. Dropping(u, living) = [u EXCEPT !.organisms = left]
        BY <1>1 DEF Dropping
    <2> HIDE DEF less, left, u
    <2> QED BY <2>1, <2>2, <2>3 DEF Worlds
<1>3. living \in SUBSET DOMAIN u.organisms
    BY <1>1
<1> HIDE DEF u, living
<1>4. /\ Dropping(u, living) \in Worlds
      /\ SameGround(u, Dropping(u, living)) /\ SameMarks(u, Dropping(u, living))
      /\ DOMAIN Dropping(u, living).organisms = living
      /\ \A o \in living : Dropping(u, living).organisms[o] = u.organisms[o]
      /\ Booked(Dropping(u, living), living)
    BY <1>1, <1>3, DroppingKeeps
<1> QED BY <1>1, <1>2, <1>4 DEF living, SameGround, SameMarks

-----------------------------------------------------------------------------
(* Moves and births look for room. *)

\* The books do not depend on who is where.
LEMMA SameBooks ==
    ASSUME NEW w, NEW v, NEW living \in SUBSET DOMAIN w.organisms, Booked(w, living),
           v.clades = w.clades, v.museum = w.museum,
           v.nextOrganism = w.nextOrganism, v.nextClade = w.nextClade,
           DOMAIN v.organisms = DOMAIN w.organisms,
           \A o \in DOMAIN w.organisms : v.organisms[o].clade = w.organisms[o].clade
    PROVE  Booked(v, living)
<1>1. \A c : MembersIn(v, living, c) = MembersIn(w, living, c)
    BY DEF MembersIn
<1> QED BY <1>1 DEF Booked

\* One more in a cell with room, from elsewhere in the world or new.
LEMMA OneMoreFits ==
    ASSUME NEW w \in Worlds, NEW living \in SUBSET DOMAIN w.organisms,
           \A c \in Cells :
               Cardinality(Standing(w, living, c)) <= Rules.max_per_cell,
           NEW cell \in Cells,
           Cardinality(Standing(w, living, cell)) < Rules.max_per_cell,
           NEW v, NEW new, v.organisms[new].cell = cell,
           \A o \in living : o # new => v.organisms[o].cell = w.organisms[o].cell
    PROVE  \A c \in Cells :
               Cardinality(Standing(v, living \cup {new}, c))
                   <= Rules.max_per_cell
<1> SUFFICES ASSUME NEW c \in Cells
             PROVE  Cardinality(Standing(v, living \cup {new}, c))
                        <= Rules.max_per_cell
    OBVIOUS
<1> DEFINE S == Standing(w, living, c)
           T == Standing(v, living \cup {new}, c)
<1>1. IsFiniteSet(S) /\ Cardinality(S) \in Nat /\ Cardinality(S) <= Rules.max_per_cell
    BY MembersAreFinite
<1>2. CASE c = cell
    <2>1. T \in SUBSET (S \cup {new}) /\ Cardinality(S) < Rules.max_per_cell
        BY <1>2 DEF Standing
    <2> HIDE DEF S, T
    <2>2. Cardinality(T) \in Nat /\ Cardinality(T) <= Cardinality(S) + 1
        BY <1>1, <2>1, OneMore
    <2>3. Cardinality(T) <= Rules.max_per_cell
        BY <1>1, <2>1, <2>2, RulesAreNumbers
    <2> QED BY <2>3 DEF T
<1>3. CASE c # cell
    <2>1. T \in SUBSET S
        BY <1>3 DEF Standing
    <2> HIDE DEF S, T
    <2>2. Cardinality(T) \in Nat /\ Cardinality(T) <= Cardinality(S)
        BY <1>1, <2>1, NoMore
    <2>3. Cardinality(T) <= Rules.max_per_cell
        BY <1>1, <2>2, RulesAreNumbers
    <2> QED BY <2>3 DEF T
<1> QED BY <1>2, <1>3

\* A move to a cell: only one organism's place changes, and with room there it fits.
LEMMA MoveKeeps ==
    ASSUME NEW w \in Worlds, NEW living \in SUBSET DOMAIN w.organisms, NEW o \in living,
           NEW cell \in Cells
    PROVE  LET v == [w EXCEPT !.organisms[o].cell = cell]
           IN /\ v \in Worlds /\ SameGround(w, v) /\ SameMarks(w, v)
              /\ DOMAIN v.organisms = DOMAIN w.organisms
              /\ v.organisms[o].cell = cell
              /\ \A p \in DOMAIN w.organisms :
                     /\ v.organisms[p].clade = w.organisms[p].clade
                     /\ p # o => v.organisms[p] = w.organisms[p]
              /\ Booked(w, living) => Booked(v, living)
              /\ /\ Fits(w, living)
                 /\ Cardinality(Standing(w, living, cell)) < Rules.max_per_cell
                 => Fits(v, living)
<1> DEFINE v == [w EXCEPT !.organisms[o].cell = cell]
           D == DOMAIN w.organisms
           moved == [w.organisms EXCEPT ![o].cell = cell]
<1>1. D \in SUBSET Nat /\ IsFiniteSet(D) /\ w.organisms \in [D -> Organism] /\ o \in D
    BY WorldRecord, OfTable
<1>2. /\ moved \in [D -> Organism] /\ DOMAIN moved = D /\ moved[o].cell = cell
      /\ \A p \in D : moved[p].clade = w.organisms[p].clade /\ (p # o => moved[p] = w.organisms[p])
    BY <1>1 DEF Organism
<1>3. v = [w EXCEPT !.organisms = moved]
    BY DEF Worlds
<1>4. moved \in Table(Organism)
    <2> HIDE DEF moved, D
    <2> QED BY <1>1, <1>2, IsTable
<1> HIDE DEF moved
<1>5. /\ v \in Worlds /\ SameGround(w, v) /\ SameMarks(w, v) /\ v.organisms = moved
      /\ v.clades = w.clades /\ v.museum = w.museum
      /\ v.nextOrganism = w.nextOrganism /\ v.nextClade = w.nextClade
    BY <1>3, <1>4 DEF Worlds, SameGround, SameMarks
<1> HIDE DEF v
<1>6. Booked(w, living) => Booked(v, living)
    BY <1>2, <1>5, SameBooks
<1>7. ASSUME Fits(w, living),
             Cardinality(Standing(w, living, cell)) < Rules.max_per_cell
      PROVE  Fits(v, living)
    <2>1. living \cup {o} = living
        OBVIOUS
    <2>2. \A p \in living : p # o => v.organisms[p].cell = w.organisms[p].cell
        BY <1>2, <1>5
    <2>3. v.organisms[o].cell = cell
        BY <1>2, <1>5
    <2>4. \A c \in Cells : Cardinality(Standing(w, living, c)) <= Rules.max_per_cell
        BY <1>7 DEF Fits
    <2>5. \A c \in Cells :
              Cardinality(Standing(v, living \cup {o}, c)) <= Rules.max_per_cell
        BY <1>7, <2>2, <2>3, <2>4, OneMoreFits
    <2> QED BY <1>7, <2>1, <2>5 DEF Fits
<1> QED BY <1>2, <1>5, <1>6, <1>7 DEF v, D

\* A new organism under the next number, in a cell with room.
LEMMA BornKeeps ==
    ASSUME NEW w \in Worlds, \A o \in DOMAIN w.organisms : o < w.nextOrganism,
           NEW c \in Nat, NEW cell \in Cells
    PROVE  LET v == Born(w, c, cell)
           IN /\ v \in Worlds /\ SameGround(w, v) /\ SameMarks(w, v)
              /\ v.clades = w.clades /\ v.museum = w.museum /\ v.nextClade = w.nextClade
              /\ v.nextOrganism = w.nextOrganism + 1
              /\ DOMAIN v.organisms = DOMAIN w.organisms \cup {w.nextOrganism}
              /\ \A o \in DOMAIN w.organisms : v.organisms[o] = w.organisms[o]
              /\ v.organisms[w.nextOrganism] = [clade |-> c, cell |-> cell]
              /\ \A living \in SUBSET DOMAIN w.organisms :
                    /\ Fits(w, living)
                    /\ Cardinality(Standing(w, living, cell)) < Rules.max_per_cell
                    /\ Cardinality(living) < Rules.max_organisms
                    => Fits(v, living \cup {w.nextOrganism})
              /\ \A living \in SUBSET DOMAIN w.organisms :
                    Dry(w, living) /\ Passable(w, cell) => Dry(v, living \cup {w.nextOrganism})
<1> DEFINE v == Born(w, c, cell)
           new == w.nextOrganism
           one == [clade |-> c, cell |-> cell]
           more == Put(w.organisms, new, one)
<1>1. new \in Nat /\ new + 1 \in Nat /\ w.organisms \in Table(Organism)
    BY WorldRecord
<1>2. one \in Organism /\ one.cell = cell
    BY DEF Organism
<1>3. DOMAIN w.organisms \in SUBSET Nat
    BY WorldRecord, OfTable
<1>4. new \notin DOMAIN w.organisms
    BY <1>1, <1>3
<1> HIDE DEF one, new
<1>5. /\ more \in Table(Organism) /\ DOMAIN more = DOMAIN w.organisms \cup {new}
      /\ more[new] = one /\ \A o \in DOMAIN w.organisms : o # new => more[o] = w.organisms[o]
    <2>1. more \in Table(Organism)
        BY <1>1, <1>2, PutIntoTable
    <2> QED BY <2>1 DEF Put
<1>6. v = [w EXCEPT !.organisms = more, !.nextOrganism = new + 1]
    BY DEF Born, one, new, Worlds
<1> HIDE DEF more, v
<1>7. /\ v \in Worlds /\ SameGround(w, v) /\ SameMarks(w, v)
      /\ v.organisms = more /\ v.nextOrganism = new + 1
      /\ v.clades = w.clades /\ v.museum = w.museum /\ v.nextClade = w.nextClade
    BY <1>1, <1>5, <1>6 DEF Worlds, SameGround, SameMarks
<1>8. \A o \in DOMAIN w.organisms : v.organisms[o] = w.organisms[o]
    BY <1>4, <1>5, <1>7
<1>9. v.organisms[new].cell = cell
    BY <1>2, <1>5, <1>7
<1>10. ASSUME NEW living \in SUBSET DOMAIN w.organisms, Fits(w, living),
              Cardinality(Standing(w, living, cell)) < Rules.max_per_cell,
              Cardinality(living) < Rules.max_organisms
       PROVE  Fits(v, living \cup {new})
    <2>1. \A o \in living : o # new => v.organisms[o].cell = w.organisms[o].cell
        BY <1>8
    <2>2. \A d \in Cells : Cardinality(Standing(w, living, d)) <= Rules.max_per_cell
        BY <1>10 DEF Fits
    <2>3. \A d \in Cells : Cardinality(Standing(v, living \cup {new}, d)) <= Rules.max_per_cell
        BY <1>9, <1>10, <2>1, <2>2, OneMoreFits
    <2>4. IsFiniteSet(living)
        BY MembersAreFinite
    <2>5. /\ Cardinality(living \cup {new}) \in Nat /\ Cardinality(living) \in Nat
          /\ Cardinality(living \cup {new}) <= Cardinality(living) + 1
        BY <2>4, OneMore
    <2>6. Cardinality(living \cup {new}) <= Rules.max_organisms
        BY <1>10, <2>5, RulesAreNumbers
    <2> QED BY <2>3, <2>6 DEF Fits
<1>11. ASSUME NEW living \in SUBSET DOMAIN w.organisms, Dry(w, living), Passable(w, cell)
       PROVE  Dry(v, living \cup {new})
    BY <1>7, <1>8, <1>9, <1>11 DEF Dry, Passable, SameGround
<1> QED BY <1>5, <1>7, <1>8, <1>10, <1>11 DEF v, one, new

\* A cell with room is no deep water and holds fewer than it can.
LEMMA RoomHelps ==
    ASSUME NEW w \in Worlds, NEW c \in Cells, HasRoom(w, c)
    PROVE  Passable(w, c) /\ Cardinality(Standing(w, DOMAIN w.organisms, c)) < Rules.max_per_cell
BY DEF HasRoom, IsLand, Passable, Occupancy, Standing

\* The first cell with room is one of the sites and has room.
LEMMA FirstRoomHelps ==
    ASSUME NEW w \in Worlds, NEW sites \in SUBSET Cells, FirstRoom(w, sites) # NoCell
    PROVE  FirstRoom(w, sites) \in Cells /\ HasRoom(w, FirstRoom(w, sites))
<1> DEFINE free == {c \in sites : HasRoom(w, c)}
<1>1. free \in SUBSET Nat /\ free # {} /\ FirstRoom(w, sites) = Min(free)
    BY RulesAreNumbers DEF FirstRoom
<1> HIDE DEF free
<1>2. Min(free) \in free
    BY <1>1, LeastOfNats
<1> QED BY <1>1, <1>2 DEF free

-----------------------------------------------------------------------------
(* What each step of a loop keeps, the loop keeps. *)

\* What placing one organism keeps, placing all keeps.
LEMMA PlaceAllKeeps ==
    ASSUME NEW S, NEW w \in S, NEW c, NEW count \in Nat, NEW sites,
           \A v \in S : PlaceOne(v, c, sites) \in S
    PROVE  PlaceAll(w, c, count, sites) \in S
<1> DEFINE step == [n \in 1..count |-> [v \in S |-> PlaceOne(v, c, sites)]]
           IsLoop(f) == f = [n \in 0..count |-> IF n = 0 THEN w ELSE PlaceOne(f[n - 1], c, sites)]
           after == CHOOSE f : IsLoop(f)
<1>1. step \in Steps(S, count)
    BY DEF Steps
<1>2. PICK f : IsRun(f, S, count, w, step)
    <2> HIDE DEF step
    <2> QED BY <1>1, RunExists
<1>3. \A n \in 1..count : step[n][f[n - 1]] = PlaceOne(f[n - 1], c, sites)
    BY <1>2 DEF IsRun
<1>4. IsLoop(f)
    <2>1. \A n \in 0..count : n = 0 \/ n \in 1..count
        OBVIOUS
    <2> HIDE DEF step
    <2> QED BY <1>2, <1>3, <2>1 DEF IsRun
<1>5. IsLoop(after)
    BY <1>4
<1>6. PlaceAll(w, c, count, sites) = after[count]
    BY DEF PlaceAll
<1> HIDE DEF after
<1>7. after[0] = w /\ \A n \in 1..count : after[n] = PlaceOne(after[n - 1], c, sites)
    BY <1>5
<1>8. after[0] \in S /\ \A n \in 1..count : after[n - 1] \in S => after[n] \in S
    BY <1>7
<1> QED BY <1>6, <1>8, LoopKeeps

MovesStay(S, movers, sites) == \A v \in S, o \in movers : MoveTo(v, o, sites) \in S

\* What moving one organism keeps, a migration keeps.
LEMMA MigrateKeeps ==
    ASSUME NEW w \in Worlds, NEW m, NEW near, NEW sites, NEW S, w \in S,
           near = members_near(w, m.clade, m.from, Rules.migrate_radius),
           sites = square(m.at, 1), MovesStay(S, near, sites)
    PROVE  \E u \in S : ApplyMigrate(w, m) = CoolDown(u, "migrate", m.clade, Rules.cooldown_epochs)
<1> DEFINE a == Ascending(near)
           N == Smaller(Cardinality(near), Rules.migrate_moved)
           step == [n \in 1..N |-> [v \in S |-> MoveTo(v, a[n], sites)]]
           IsLoop(f) == f = [n \in 0..N |-> IF n = 0 THEN w ELSE MoveTo(f[n - 1], a[n], sites)]
           after == CHOOSE f : IsLoop(f)
<1>1. Cardinality(near) \in Nat /\ a \in [1..Cardinality(near) -> near]
    <2>1. near \in SUBSET DOMAIN w.organisms
        BY DEF members_near
    <2>2. near \in SUBSET Nat /\ IsFiniteSet(near)
        BY <2>1, WorldRecord, OfTable, FS_Subset
    <2> QED BY <2>2, AscendingLists
<1>2. N \in Nat /\ \A n \in 1..N : a[n] \in near
    <2>1. Rules.migrate_moved \in Nat
        BY RulesAssumption DEF Unsigned
    <2>2. N \in Nat /\ N <= Cardinality(near)
        BY <1>1, <2>1 DEF Smaller
    <2> HIDE DEF N, a
    <2> QED BY <1>1, <2>2
<1>3. ApplyMigrate(w, m) = CoolDown(after[N], "migrate", m.clade, Rules.cooldown_epochs)
    BY DEF ApplyMigrate
<1> HIDE DEF a, N
<1>4. step \in Steps(S, N)
    BY <1>2 DEF MovesStay, Steps
<1>5. PICK f : IsRun(f, S, N, w, step)
    <2>1. N \in Nat /\ w \in S /\ step \in Steps(S, N)
        BY <1>2, <1>4
    <2> HIDE DEF step
    <2> QED BY <2>1, RunExists
<1>6. \A n \in 1..N : step[n][f[n - 1]] = MoveTo(f[n - 1], a[n], sites)
    BY <1>2, <1>5 DEF IsRun
<1>7. IsLoop(f)
    <2>1. \A n \in 0..N : n = 0 \/ n \in 1..N
        BY <1>2
    <2> HIDE DEF step
    <2> QED BY <1>5, <1>6, <2>1 DEF IsRun
<1>8. IsLoop(after)
    BY <1>7
<1> HIDE DEF after
<1>9. after[0] = w /\ \A n \in 1..N : after[n] = MoveTo(after[n - 1], a[n], sites)
    BY <1>2, <1>8
<1>10. after[N] \in S
    <2>1. after[0] \in S /\ \A n \in 1..N : after[n - 1] \in S => after[n] \in S
        BY <1>2, <1>9 DEF MovesStay
    <2> QED BY <1>2, <2>1, LoopKeeps
<1> QED BY <1>3, <1>10

\* The organisms of sunken cells.
LEMMA RescuedKeeps ==
    ASSUME NEW S, NEW w \in S, w \in Worlds,
           \A v \in S : \A o \in Stranded(w) : RescueOne(v, o) \in S
    PROVE  Rescued(w) \in S
<1> DEFINE stranded == Stranded(w)
           N == Cardinality(stranded)
           a == Ascending(stranded)
           step == [n \in 1..N |-> [v \in S |-> RescueOne(v, a[n])]]
           IsLoop(f) == f = [n \in 0..N |-> IF n = 0 THEN w ELSE RescueOne(f[n - 1], a[n])]
           after == CHOOSE f : IsLoop(f)
<1>1. N \in Nat /\ a \in [1..N -> stranded]
    <2>1. stranded \in SUBSET DOMAIN w.organisms
        BY DEF Stranded
    <2>2. stranded \in SUBSET Nat /\ IsFiniteSet(stranded)
        BY <2>1, WorldRecord, OfTable, FS_Subset
    <2> HIDE DEF stranded
    <2> QED BY <2>2, AscendingLists
<1>2. Rescued(w) = after[N]
    BY DEF Rescued
<1>3. \A v \in S : \A o \in stranded : RescueOne(v, o) \in S
    OBVIOUS
<1> HIDE DEF stranded, a, N
<1>4. step \in Steps(S, N)
    BY <1>1, <1>3 DEF Steps
<1>5. PICK f : IsRun(f, S, N, w, step)
    <2>1. N \in Nat /\ w \in S /\ step \in Steps(S, N)
        BY <1>1, <1>4
    <2> HIDE DEF step
    <2> QED BY <2>1, RunExists
<1>6. \A n \in 1..N : step[n][f[n - 1]] = RescueOne(f[n - 1], a[n])
    BY <1>1, <1>5 DEF IsRun
<1>7. IsLoop(f)
    <2>1. \A n \in 0..N : n = 0 \/ n \in 1..N
        BY <1>1
    <2> HIDE DEF step
    <2> QED BY <1>5, <1>6, <2>1 DEF IsRun
<1>8. IsLoop(after)
    BY <1>7
<1> HIDE DEF after
<1>9. after[0] = w /\ \A n \in 1..N : after[n] = RescueOne(after[n - 1], a[n])
    BY <1>1, <1>8
<1>10. after[N] \in S
    <2>1. after[0] \in S /\ \A n \in 1..N : after[n - 1] \in S => after[n] \in S
        BY <1>1, <1>3, <1>9
    <2> QED BY <1>1, <2>1, LoopKeeps
<1> QED BY <1>2, <1>10

\* The organisms of one genome of the bank, each in a free cell.
SproutsStay(S, w, biome) == \A V \in SUBSET S : Sprout(V, w, biome) \in SUBSET S

\* What sprouting keeps, the spores of a genome keep, but for the founding.
LEMMA SporesKeep ==
    ASSUME NEW w, NEW biome, NEW S, w \in S, SproutsStay(S, w, biome)
    PROVE  \A u \in Spores(w, biome) : \E v \in S : u = Founded(w, v, 0, 0)
<1> DEFINE N == Rules.per_genome
           P == SUBSET S
           base == {w}
           step == [n \in 1..N |-> [V \in P |-> Sprout(V, w, biome)]]
           IsLoop(f) == f = [n \in 0..N |-> IF n = 0 THEN base ELSE Sprout(f[n - 1], w, biome)]
           grow == CHOOSE f : IsLoop(f)
<1>1. N \in Nat
    BY RulesAssumption DEF Unsigned
<1>2. step \in Steps(P, N)
    BY DEF Steps, SproutsStay
<1>3. PICK f : IsRun(f, P, N, base, step)
    <2>1. base \in P
        OBVIOUS
    <2> HIDE DEF step, P, base, N
    <2> QED BY <1>1, <1>2, <2>1, RunExists
<1>4. IsLoop(f)
    <2>1. \A n \in 0..N : n = 0 \/ n \in 1..N
        BY <1>1
    <2>2. \A n \in 1..N : step[n][f[n - 1]] = Sprout(f[n - 1], w, biome)
        <3> HIDE DEF P, N
        <3> QED BY <1>1, <1>3 DEF IsRun
    <2> HIDE DEF step, N, base
    <2> QED BY <1>3, <2>1, <2>2 DEF IsRun
<1>5. IsLoop(grow)
    <2> HIDE DEF IsLoop
    <2> QED BY <1>4
<1>6. Spores(w, biome) = {Founded(w, v, 0, 0) : v \in grow[N]}
    BY DEF Spores
<1> HIDE DEF grow
<1>7. grow[0] = base /\ \A n \in 1..N : grow[n] = Sprout(grow[n - 1], w, biome)
    <2> HIDE DEF N, base
    <2> QED BY <1>1, <1>5
<1>8. grow[N] \in P
    <2>1. base \in P
        OBVIOUS
    <2>2. \A V \in P : Sprout(V, w, biome) \in P
        BY DEF SproutsStay
    <2> HIDE DEF P, N, base
    <2>3. grow[0] \in P /\ \A n \in 1..N : grow[n - 1] \in P => grow[n] \in P
        BY <1>7, <2>1, <2>2
    <2> QED BY <1>1, <2>3, LoopKeeps
<1> QED BY <1>6, <1>8

\* Every genome of the bank in turn.
SowingStays(S) == \A V \in SUBSET S, biome \in Biome : Sow(V, biome) \in SUBSET S

\* What sowing a genome keeps, the spore bank keeps.
LEMMA RevivedKeeps ==
    ASSUME NEW w, NEW S, w \in S, SowingStays(S)
    PROVE  Revived(w) \subseteq S
<1> DEFINE biomes == Rules.spore_bank
           N == Len(biomes)
           P == SUBSET S
           base == {w}
           step == [k \in 1..N |-> [V \in P |-> Sow(V, biomes[k])]]
           IsLoop(f) == f = [k \in 0..N |-> IF k = 0 THEN base ELSE Sow(f[k - 1], biomes[k])]
           bank == CHOOSE f : IsLoop(f)
<1>1. N \in Nat /\ \A k \in 1..N : biomes[k] \in Biome
    <2>1. biomes \in Seq(Biome)
        BY RulesAssumption
    <2> HIDE DEF biomes
    <2> QED BY <2>1
<1>2. step \in Steps(P, N)
    BY <1>1 DEF Steps, SowingStays
<1>3. PICK f : IsRun(f, P, N, base, step)
    <2>1. base \in P
        OBVIOUS
    <2> HIDE DEF step, P, base, N
    <2> QED BY <1>1, <1>2, <2>1, RunExists
<1>4. IsLoop(f)
    <2>1. \A k \in 0..N : k = 0 \/ k \in 1..N
        BY <1>1
    <2>2. \A k \in 1..N : step[k][f[k - 1]] = Sow(f[k - 1], biomes[k])
        <3> HIDE DEF P, N
        <3> QED BY <1>1, <1>3 DEF IsRun
    <2> HIDE DEF step, N, base
    <2> QED BY <1>3, <2>1, <2>2 DEF IsRun
<1>5. IsLoop(bank)
    <2> HIDE DEF IsLoop
    <2> QED BY <1>4
<1>6. Revived(w) = bank[N]
    BY DEF Revived
<1> HIDE DEF bank
<1>7. bank[0] = base /\ \A k \in 1..N : bank[k] = Sow(bank[k - 1], biomes[k])
    <2> HIDE DEF N, base, biomes
    <2> QED BY <1>1, <1>5
<1>8. bank[N] \in P
    <2>1. base \in P
        OBVIOUS
    <2>2. \A V \in P, k \in 1..N : Sow(V, biomes[k]) \in P
        BY <1>1 DEF SowingStays
    <2> HIDE DEF P, N, base
    <2>3. bank[0] \in P /\ \A k \in 1..N : bank[k - 1] \in P => bank[k] \in P
        BY <1>7, <2>1, <2>2
    <2> QED BY <1>1, <2>3, LoopKeeps
<1> QED BY <1>6, <1>8

\* The weather of one region after another.
WeatherStays(S) ==
    \A V \in SUBSET S, k \in 1..Len(Rules.weather_regions) : Fall(V, k) \in SUBSET S

\* What the weather of a region keeps, the weather of all keeps.
LEMMA NaturalWeatherKeeps ==
    ASSUME NEW S, world \in S, WeatherStays(S)
    PROVE  NaturalWeather[Len(Rules.weather_regions)] \subseteq S
<1> DEFINE N == Len(Rules.weather_regions)
           P == SUBSET S
           base == {world}
           step == [k \in 1..N |-> [V \in P |-> Fall(V, k)]]
           IsLoop(f) == f = [k \in 0..N |-> IF k = 0 THEN base ELSE Fall(f[k - 1], k)]
           falls == CHOOSE f : IsLoop(f)
<1>1. N \in Nat
    BY RulesAssumption
<1>2. step \in Steps(P, N)
    BY <1>1 DEF Steps, WeatherStays
<1>3. PICK f : IsRun(f, P, N, base, step)
    <2>1. base \in P
        OBVIOUS
    <2> HIDE DEF step, P, base, N
    <2> QED BY <1>1, <1>2, <2>1, RunExists
<1>4. IsLoop(f)
    <2>1. \A k \in 0..N : k = 0 \/ k \in 1..N
        BY <1>1
    <2>2. \A k \in 1..N : step[k][f[k - 1]] = Fall(f[k - 1], k)
        <3> HIDE DEF P, N
        <3> QED BY <1>1, <1>3 DEF IsRun
    <2> HIDE DEF step, N, base
    <2> QED BY <1>3, <2>1, <2>2 DEF IsRun
<1>5. IsLoop(falls)
    <2> HIDE DEF IsLoop
    <2> QED BY <1>4
<1>6. NaturalWeather = falls
    BY DEF NaturalWeather
<1> HIDE DEF falls
<1>7. falls[0] = base /\ \A k \in 1..N : falls[k] = Fall(falls[k - 1], k)
    <2> HIDE DEF N, base
    <2> QED BY <1>1, <1>5
<1>8. falls[N] \in P
    <2>1. base \in P
        OBVIOUS
    <2>2. \A V \in P, k \in 1..N : Fall(V, k) \in P
        BY DEF WeatherStays
    <2> HIDE DEF P, N, base
    <2>3. falls[0] \in P /\ \A k \in 1..N : falls[k - 1] \in P => falls[k] \in P
        BY <1>7, <2>1, <2>2
    <2> QED BY <1>1, <2>3, LoopKeeps
<1> QED BY <1>6, <1>8

\* A walk stays where it began, or goes on through open cells.
LEMMA ReachIsOpen ==
    ASSUME NEW from, NEW pos \in Reach(from)
    PROVE  pos = from \/ (pos \in Cells /\ Open(pos))
<1> DEFINE S == {from} \cup {c \in Cells : Open(c)}
           N == Rules.steps
           P == SUBSET S
           base == {from}
           step == [n \in 1..N |-> [V \in P |-> Further(V)]]
           IsLoop(f) == f = [n \in 0..N |-> IF n = 0 THEN base ELSE Further(f[n - 1])]
           reach == CHOOSE f : IsLoop(f)
<1>1. N \in Nat
    BY RulesAssumption DEF Unsigned
<1>2. base \in P /\ \A V \in P : Further(V) \in P
    BY DEF Further
<1>3. step \in Steps(P, N)
    <2> HIDE DEF P
    <2> QED BY <1>1, <1>2 DEF Steps
<1>4. PICK f : IsRun(f, P, N, base, step)
    <2> HIDE DEF step, P, base, N
    <2> QED BY <1>1, <1>2, <1>3, RunExists
<1>5. IsLoop(f)
    <2>1. \A n \in 0..N : n = 0 \/ n \in 1..N
        BY <1>1
    <2>2. \A n \in 1..N : step[n][f[n - 1]] = Further(f[n - 1])
        <3> HIDE DEF P, N
        <3> QED BY <1>1, <1>4 DEF IsRun
    <2> HIDE DEF step, P, N, base
    <2> QED BY <1>4, <2>1, <2>2 DEF IsRun
<1>6. IsLoop(reach)
    <2> HIDE DEF IsLoop
    <2> QED BY <1>5
<1>7. Reach(from) = reach[N]
    BY DEF Reach
<1> HIDE DEF reach
<1>8. reach[0] = base /\ \A n \in 1..N : reach[n] = Further(reach[n - 1])
    <2> HIDE DEF N, base
    <2> QED BY <1>1, <1>6
<1>9. reach[N] \in P
    <2> HIDE DEF P, N, base
    <2>1. reach[0] \in P /\ \A n \in 1..N : reach[n - 1] \in P => reach[n] \in P
        BY <1>2, <1>8
    <2> QED BY <1>1, <2>1, LoopKeeps
<1> QED BY <1>7, <1>9

-----------------------------------------------------------------------------
(* The miracles of an epoch, kind by kind. *)

\* Two sets without a common member, counted together.
LEMMA Disjoint ==
    ASSUME NEW S, NEW T, IsFiniteSet(S), IsFiniteSet(T), S \cap T = {}
    PROVE  /\ IsFiniteSet(S \cup T) /\ Cardinality(S) \in Nat /\ Cardinality(T) \in Nat
           /\ Cardinality(S \cup T) = Cardinality(S) + Cardinality(T)
<1>1. /\ IsFiniteSet(S \cup T)
      /\ Cardinality(S \cup T) = Cardinality(S) + Cardinality(T) - Cardinality(S \cap T)
    BY FS_Union
<1>2. Cardinality(S \cap T) = 0
    BY FS_EmptySet
<1> QED BY <1>1, <1>2, FS_CardinalityType

\* Two lists, one after the other.
LEMMA Joined2 ==
    ASSUME NEW T, NEW s \in Seq(T), NEW t \in Seq(T)
    PROVE  s \o t \in Seq(T) /\ Len(s \o t) = Len(s) + Len(t)
BY ConcatProperties

\* The places of the miracles of one kind.
Kind(chosen, k) == {i \in DOMAIN chosen : order(chosen[i]) = k}

\* The places of the miracles of a kind, in a list as long as they are many.
LEMMA KindListed ==
    ASSUME NEW T, NEW chosen \in Seq(T), NEW k
    PROVE  /\ IsFiniteSet(Kind(chosen, k)) /\ Cardinality(Kind(chosen, k)) \in Nat
           /\ OfOrder(k, chosen) \in Seq(DOMAIN chosen)
           /\ Len(OfOrder(k, chosen)) = Cardinality(Kind(chosen, k))
<1> DEFINE D == DOMAIN chosen
           P == Kind(chosen, k)
           n == Cardinality(P)
           a == Ascending(P)
<1>1. P \in SUBSET D
    BY DEF Kind
<1>2. IsFiniteSet(D) /\ D \in SUBSET Nat
    <2>1. D = 1..Len(chosen) /\ Len(chosen) \in Nat
        OBVIOUS
    <2> QED BY <2>1, FS_Interval
<1>3. OfOrder(k, chosen) = a
    BY DEF OfOrder, Kind
<1> HIDE DEF P, D
<1>4. IsFiniteSet(P) /\ P \in SUBSET Nat
    BY <1>1, <1>2, FS_Subset
<1>5. n \in Nat /\ a \in [1..n -> P]
    BY <1>4, AscendingLists
<1> HIDE DEF a, n
<1>6. a \in [1..n -> D]
    BY <1>1, <1>5
<1>7. a \in Seq(D) /\ Len(a) = n
    BY <1>5, <1>6, LenProperties, SeqDef
<1> QED BY <1>3, <1>4, <1>5, <1>7 DEF n, P, D

\* Every miracle is of one of the five kinds: counted together they are all.
LEMMA KindsAreAll ==
    ASSUME NEW T, NEW chosen \in Seq(T)
    PROVE  Len(chosen) = Cardinality(Kind(chosen, 0)) + Cardinality(Kind(chosen, 1))
               + Cardinality(Kind(chosen, 2)) + Cardinality(Kind(chosen, 3))
               + Cardinality(Kind(chosen, 4))
<1> DEFINE D == DOMAIN chosen
           P(k) == Kind(chosen, k)
           U1 == P(0) \cup P(1)
           U2 == U1 \cup P(2)
           U3 == U2 \cup P(3)
           U4 == U3 \cup P(4)
<1>1. Cardinality(D) = Len(chosen)
    <2>1. D = 1..Len(chosen) /\ Len(chosen) \in Nat
        OBVIOUS
    <2> QED BY <2>1, FS_Interval
<1>2. U4 = D
    <2>1. \A i \in D : i \in P(0) \/ i \in P(1) \/ i \in P(2) \/ i \in P(3) \/ i \in P(4)
        BY DEF order, Kind
    <2>2. P(0) \subseteq D /\ P(1) \subseteq D /\ P(2) \subseteq D /\ P(3) \subseteq D
          /\ P(4) \subseteq D
        BY DEF Kind
    <2> HIDE DEF P, D
    <2> QED BY <2>1, <2>2
<1>3. P(0) \cap P(1) = {} /\ U1 \cap P(2) = {} /\ U2 \cap P(3) = {} /\ U3 \cap P(4) = {}
    BY DEF Kind
<1>4. \A k : IsFiniteSet(P(k)) /\ Cardinality(P(k)) \in Nat
    BY KindListed
<1> HIDE DEF P, D
<1>5. IsFiniteSet(U1) /\ Cardinality(U1) = Cardinality(P(0)) + Cardinality(P(1))
    BY <1>3, <1>4, Disjoint
<1>6. IsFiniteSet(U2) /\ Cardinality(U2) = Cardinality(U1) + Cardinality(P(2))
    <2> HIDE DEF U1
    <2> QED BY <1>3, <1>4, <1>5, Disjoint
<1>7. IsFiniteSet(U3) /\ Cardinality(U3) = Cardinality(U2) + Cardinality(P(3))
    <2> HIDE DEF U2
    <2> QED BY <1>3, <1>4, <1>6, Disjoint
<1>8. Cardinality(U4) = Cardinality(U3) + Cardinality(P(4))
    <2> HIDE DEF U3
    <2> QED BY <1>3, <1>4, <1>7, Disjoint
<1> HIDE DEF U1, U2, U3, U4
<1>9. Len(chosen) = Cardinality(P(0)) + Cardinality(P(1)) + Cardinality(P(2))
                        + Cardinality(P(3)) + Cardinality(P(4))
    BY <1>1, <1>2, <1>5, <1>6, <1>7, <1>8
<1> QED BY <1>9 DEF P

\* The order of the miracles lists as many places as there are miracles.
LEMMA InOrderListsAll ==
    ASSUME NEW T, NEW chosen \in Seq(T)
    PROVE  /\ InOrder(chosen) \in Seq(DOMAIN chosen)
           /\ Len(InOrder(chosen)) = Len(chosen)
<1> DEFINE D == DOMAIN chosen
           q(k) == OfOrder(k, chosen)
           n(k) == Cardinality(Kind(chosen, k))
           S1 == q(0) \o q(1)
           S2 == S1 \o q(2)
           S3 == S2 \o q(3)
           S4 == S3 \o q(4)
<1>1. InOrder(chosen) = S4
    BY DEF InOrder
<1>2. /\ q(0) \in Seq(D) /\ q(1) \in Seq(D) /\ q(2) \in Seq(D) /\ q(3) \in Seq(D)
      /\ q(4) \in Seq(D)
      /\ Len(q(0)) = n(0) /\ Len(q(1)) = n(1) /\ Len(q(2)) = n(2) /\ Len(q(3)) = n(3)
      /\ Len(q(4)) = n(4)
    BY KindListed
<1>3. Len(chosen) = n(0) + n(1) + n(2) + n(3) + n(4)
    BY KindsAreAll
<1>n. n(0) \in Nat /\ n(1) \in Nat /\ n(2) \in Nat /\ n(3) \in Nat /\ n(4) \in Nat
    BY KindListed
<1> HIDE DEF q, n, D
<1>4. S1 \in Seq(D) /\ Len(S1) = Len(q(0)) + Len(q(1))
    BY <1>2, Joined2
<1> HIDE DEF S1
<1>5. S2 \in Seq(D) /\ Len(S2) = Len(S1) + Len(q(2))
    BY <1>2, <1>4, Joined2
<1> HIDE DEF S2
<1>6. S3 \in Seq(D) /\ Len(S3) = Len(S2) + Len(q(3))
    BY <1>2, <1>5, Joined2
<1> HIDE DEF S3
<1>7. S4 \in Seq(D) /\ Len(S4) = Len(S3) + Len(q(4))
    BY <1>2, <1>6, Joined2
<1> HIDE DEF S4
<1>8. Len(S4) = Len(chosen)
    BY <1>2, <1>3, <1>n, <1>4, <1>5, <1>6, <1>7
<1> QED BY <1>1, <1>7, <1>8 DEF D

MiraclesStay(S, chosen) == \A v \in S, i \in DOMAIN chosen : ApplyNext(v, chosen[i]) \in S

\* What each miracle keeps, the miracles of an epoch keep.
LEMMA ApplyKeeps ==
    ASSUME NEW w, NEW T, NEW chosen \in Seq(T), NEW S, Dropped(w) \in S,
           MiraclesStay(S, chosen)
    PROVE  apply(w, chosen) \in S
<1> DEFINE places == InOrder(chosen)
           N == Len(chosen)
           base == Dropped(w)
           step == [n \in 1..N |-> [v \in S |-> ApplyNext(v, chosen[places[n]])]]
           IsLoop(f) == f = [n \in 0..N |->
               IF n = 0 THEN base ELSE ApplyNext(f[n - 1], chosen[places[n]])]
           after == CHOOSE f : IsLoop(f)
<1>1. N \in Nat /\ places \in Seq(DOMAIN chosen) /\ Len(places) = N
    BY InOrderListsAll
<1>2. apply(w, chosen) = after[N]
    BY DEF apply
<1> HIDE DEF places, N
<1>3. \A n \in 1..N : places[n] \in DOMAIN chosen
    BY <1>1
<1>4. step \in Steps(S, N)
    BY <1>1, <1>3 DEF MiraclesStay, Steps
<1>5. PICK f : IsRun(f, S, N, base, step)
    <2>1. N \in Nat /\ base \in S /\ step \in Steps(S, N)
        BY <1>1, <1>4
    <2> HIDE DEF step, base
    <2> QED BY <2>1, RunExists
<1>6. IsLoop(f)
    <2>1. \A n \in 0..N : n = 0 \/ n \in 1..N
        BY <1>1
    <2>2. \A n \in 1..N : step[n][f[n - 1]] = ApplyNext(f[n - 1], chosen[places[n]])
        BY <1>1, <1>5 DEF IsRun
    <2> HIDE DEF step, base
    <2> QED BY <1>5, <2>1, <2>2 DEF IsRun
<1>7. IsLoop(after)
    <2> HIDE DEF IsLoop
    <2> QED BY <1>6
<1> HIDE DEF after, base
<1>8. after[0] = base /\ \A n \in 1..N : after[n] = ApplyNext(after[n - 1], chosen[places[n]])
    <2>1. \A n \in 1..N : n \in 0..N /\ n # 0
        BY <1>1
    <2>2. 0 \in 0..N
        BY <1>1
    <2>3. after = [n \in 0..N |->
               IF n = 0 THEN base ELSE ApplyNext(after[n - 1], chosen[places[n]])]
        BY <1>7
    <2> QED BY <2>1, <2>2, <2>3
<1>9. after[N] \in S
    <2>0. base \in S
        BY DEF base
    <2>1. after[0] \in S /\ \A n \in 1..N : after[n - 1] \in S => after[n] \in S
        BY <1>3, <1>8, <2>0 DEF MiraclesStay
    <2> QED BY <1>1, <2>1, LoopKeeps
<1> QED BY <1>2, <1>9

-----------------------------------------------------------------------------
(* The rifts move, and what lived in their way seeks refuge. *)

\* Distances are natural numbers.
LEMMA DistancesAreNumbers ==
    ASSUME NEW a \in Cells, NEW b \in Cells
    PROVE  Across(a, b) * Across(a, b) + Along(a, b) * Along(a, b) \in Nat
<1>1. a \in Nat /\ b \in Nat /\ Rules.width \in Nat \ {0}
    BY RulesAssumption DEF ValidRules, Cells
<1>2. /\ (a % Rules.width) \in Int /\ (b % Rules.width) \in Int
      /\ (a \div Rules.width) \in Int /\ (b \div Rules.width) \in Int
    BY <1>1
<1>3. \A x, y \in Int : Apart(x - y) \in Nat
    BY DEF Apart
<1>4. Across(a, b) \in Nat /\ Along(a, b) \in Nat
    BY <1>2, <1>3 DEF Across, Along
<1>5. \A x \in Nat : x * x \in Nat
    OBVIOUS
<1> HIDE DEF Across, Along
<1> QED BY <1>4, <1>5

\* A refuge is a cell with room.
LEMMA RefugeHelps ==
    ASSUME NEW w \in Worlds, NEW from \in Cells, Refuge(w, from) # NoCell
    PROVE  Refuge(w, from) \in Cells /\ HasRoom(w, Refuge(w, from))
<1> DEFINE r == Rules.rescue_radius
           sites == {c \in Cells \ {from} : chebyshev(from, c) <= r /\ HasRoom(w, c)}
           straight(c) == Across(from, c) * Across(from, c) + Along(from, c) * Along(from, c)
           nearest == {c \in sites : \A d \in sites : straight(c) <= straight(d)}
           lengths == {straight(c) : c \in sites}
<1>1. sites # {} /\ Refuge(w, from) = Min(nearest)
    BY DEF Refuge
<1>2. sites \in SUBSET Cells /\ \A c \in sites : HasRoom(w, c)
    OBVIOUS
<1>3. \A c \in sites : straight(c) \in Nat
    BY <1>2, DistancesAreNumbers
<1> HIDE DEF sites, straight
<1>4. lengths \in SUBSET Nat /\ lengths # {}
    BY <1>1, <1>3
<1>5. PICK x \in lengths : \A y \in lengths : x <= y
    BY <1>4, LeastNumber
<1>6. nearest # {}
    BY <1>5
<1>7. nearest \in SUBSET sites /\ nearest \in SUBSET Nat
    BY <1>2, RulesAreNumbers
<1> HIDE DEF nearest
<1>8. Min(nearest) \in nearest
    BY <1>6, <1>7, LeastOfNats
<1> QED BY <1>1, <1>2, <1>7, <1>8

\* The worlds that a rescue or a migration leads to, before anyone leaves.
Shifted(w) ==
    {v \in Worlds :
        /\ SameGround(w, v) /\ SameMarks(w, v)
        /\ DOMAIN v.organisms = DOMAIN w.organisms
        /\ Fits(v, DOMAIN w.organisms) /\ Booked(v, DOMAIN w.organisms)
        /\ v.clades = w.clades
        /\ Dry(w, DOMAIN w.organisms) => Dry(v, DOMAIN w.organisms)}

\* A move to a cell with room is a shift.
LEMMA ShiftStays ==
    ASSUME NEW w, NEW v \in Shifted(w), NEW o \in DOMAIN w.organisms,
           NEW cell \in Cells, HasRoom(v, cell)
    PROVE  [v EXCEPT !.organisms[o].cell = cell] \in Shifted(w)
<1> DEFINE u == [v EXCEPT !.organisms[o].cell = cell]
           D == DOMAIN w.organisms
<1>1. /\ v \in Worlds /\ DOMAIN v.organisms = D /\ Fits(v, D) /\ Booked(v, D)
      /\ SameGround(w, v) /\ SameMarks(w, v) /\ v.clades = w.clades
      /\ Dry(w, D) => Dry(v, D)
    BY DEF Shifted
<1>2. Passable(v, cell) /\ Cardinality(Standing(v, D, cell)) < Rules.max_per_cell
    BY <1>1, RoomHelps
<1>3. /\ u \in Worlds /\ SameGround(v, u) /\ SameMarks(v, u)
      /\ DOMAIN u.organisms = DOMAIN v.organisms
      /\ u.organisms[o].cell = cell
      /\ \A p \in DOMAIN v.organisms :
             /\ u.organisms[p].clade = v.organisms[p].clade
             /\ p # o => u.organisms[p] = v.organisms[p]
      /\ Booked(v, D) => Booked(u, D)
      /\ /\ Fits(v, D)
         /\ Cardinality(Standing(v, D, cell)) < Rules.max_per_cell
         => Fits(u, D)
    <2>1. D \in SUBSET DOMAIN v.organisms /\ o \in D
        BY <1>1
    <2> HIDE DEF D
    <2> QED BY <1>1, <2>1, MoveKeeps
<1>4. u.clades = v.clades
    BY <1>1 DEF Worlds
<1> HIDE DEF u
<1>5. Dry(v, D) => Dry(u, D)
    BY <1>1, <1>2, <1>3 DEF Dry, Passable, SameGround
<1>6. u \in Shifted(w)
    BY <1>1, <1>2, <1>3, <1>4, <1>5 DEF Shifted, SameGround, SameMarks
<1> QED BY <1>6 DEF u

\* To begin with nobody is shifted.
LEMMA IsShifted ==
    ASSUME NEW w \in Worlds, Fits(w, DOMAIN w.organisms), Booked(w, DOMAIN w.organisms)
    PROVE  w \in Shifted(w)
BY DEF Shifted, SameGround, SameMarks

\* Organisms live in cells, and have a clade.
LEMMA HomeIsACell ==
    ASSUME NEW w \in Worlds, NEW o \in DOMAIN w.organisms
    PROVE  w.organisms[o].cell \in Cells /\ w.organisms[o].clade \in Nat
<1>1. w.organisms[o] \in Organism
    BY WorldRecord, OfTable
<1> QED BY <1>1 DEF Organism

\* One rescue after the other shifts the world.
LEMMA RescueOneStays ==
    ASSUME NEW w, NEW v \in Shifted(w), NEW o \in DOMAIN w.organisms
    PROVE  RescueOne(v, o) \in Shifted(w)
<1> DEFINE from == v.organisms[o].cell
           c == Refuge(v, from)
<1>1. v \in Worlds /\ o \in DOMAIN v.organisms
    BY DEF Shifted
<1>2. from \in Cells
    BY <1>1, HomeIsACell
<1>3. RescueOne(v, o) = IF c = NoCell THEN v ELSE [v EXCEPT !.organisms[o].cell = c]
    BY DEF RescueOne
<1> HIDE DEF from
<1>4. CASE c = NoCell
    BY <1>3, <1>4
<1>5. CASE c # NoCell
    <2>1. c \in Cells /\ HasRoom(v, c)
        BY <1>1, <1>2, <1>5, RefugeHelps
    <2> HIDE DEF c
    <2> QED BY <1>3, <1>5, <2>1, ShiftStays
<1> QED BY <1>4, <1>5

\* A world in which everything is in place.
Sound(w) ==
    /\ w \in Worlds
    /\ Fits(w, DOMAIN w.organisms) /\ Dry(w, DOMAIN w.organisms)
    /\ Booked(w, DOMAIN w.organisms) /\ AllLive(w)

\* Some of the living leave for good.
LEMMA LeaveKeeps ==
    ASSUME NEW w \in Worlds, Fits(w, DOMAIN w.organisms), Booked(w, DOMAIN w.organisms),
           NEW dead \in SUBSET DOMAIN w.organisms, Dry(w, DOMAIN w.organisms \ dead)
    PROVE  /\ Sound(close_extinct_clades(Without(w, dead)))
           /\ SameGround(w, close_extinct_clades(Without(w, dead)))
           /\ SameMarks(w, close_extinct_clades(Without(w, dead)))
<1> DEFINE u == Without(w, dead)
           v == close_extinct_clades(u)
           left == DOMAIN w.organisms \ dead
<1>1. /\ u \in Worlds /\ SameGround(w, u) /\ SameMarks(w, u)
      /\ DOMAIN u.organisms = left /\ \A o \in left : u.organisms[o] = w.organisms[o]
      /\ Booked(u, left)
    BY WithoutKeeps
<1> HIDE DEF u
<1>2. /\ v \in Worlds /\ SameGround(u, v) /\ SameMarks(u, v)
      /\ v.organisms = u.organisms /\ Booked(v, DOMAIN u.organisms) /\ AllLive(v)
    BY <1>1, CloseKeeps
<1> HIDE DEF v
<1>3. Fits(v, left)
    <2>1. left \in SUBSET DOMAIN w.organisms /\ \A o \in left : v.organisms[o] = w.organisms[o]
        BY <1>1, <1>2
    <2>2. DOMAIN w.organisms \in SUBSET DOMAIN w.organisms
        OBVIOUS
    <2> HIDE DEF left
    <2> QED BY <2>1, <2>2, FewerFit
<1>4. Dry(v, left)
    BY <1>1, <1>2 DEF Dry, Passable, SameGround
<1>5. Sound(v) /\ SameGround(w, v) /\ SameMarks(w, v)
    BY <1>1, <1>2, <1>3, <1>4 DEF Sound, SameGround, SameMarks
<1> QED BY <1>5 DEF v, u

\* After a rescue nobody is in deep water, and the books are in order.
LEMMA RescueKeeps ==
    ASSUME NEW w \in Worlds, Fits(w, DOMAIN w.organisms), Booked(w, DOMAIN w.organisms)
    PROVE  Sound(rescue(w)) /\ SameGround(w, rescue(w)) /\ SameMarks(w, rescue(w))
<1> DEFINE v == Rescued(w)
           dead == Stranded(v)
<1>1. v \in Shifted(w)
    <2> DEFINE S == Shifted(w)
    <2>1. Stranded(w) \in SUBSET DOMAIN w.organisms
        BY DEF Stranded
    <2>2. \A u \in S : \A o \in Stranded(w) : RescueOne(u, o) \in S
        BY <2>1, RescueOneStays
    <2>3. w \in S
        BY IsShifted
    <2> HIDE DEF S
    <2>4. Rescued(w) \in S
        BY <2>2, <2>3, RescuedKeeps
    <2> QED BY <2>4 DEF S
<1>2. rescue(w) = close_extinct_clades(Without(v, dead))
    BY DEF rescue
<1>3. /\ v \in Worlds /\ Fits(v, DOMAIN v.organisms) /\ Booked(v, DOMAIN v.organisms)
      /\ SameGround(w, v) /\ SameMarks(w, v)
    BY <1>1 DEF Shifted
<1>4. dead \in SUBSET DOMAIN v.organisms /\ Dry(v, DOMAIN v.organisms \ dead)
    BY DEF Stranded, Dry
<1> HIDE DEF v, dead
<1>5. /\ Sound(rescue(w)) /\ SameGround(v, rescue(w)) /\ SameMarks(v, rescue(w))
    BY <1>2, <1>3, <1>4, LeaveKeeps
<1> QED BY <1>3, <1>5 DEF SameGround, SameMarks

\* The phases come in their order.
Reached == {"crack", "fault", "shallows", "deep"}

\* The phases of a rift and their order.
LEMMA RanksAreNumbers ==
    /\ DOMAIN Rank = {"none"} \cup Reached
    /\ Rank["none"] = 0 /\ Rank["crack"] = 1 /\ Rank["fault"] = 2 /\ Rank["shallows"] = 3
    /\ Rank["deep"] = 4
    /\ \A p \in DOMAIN Rank : Rank[p] \in 0..4
    /\ \A p, q \in DOMAIN Rank : Rank[p] = Rank[q] => p = q
BY DEF Rank, Reached

\* A schedule goes from phase to later phase.
LEMMA SchedulesRise ==
    ASSUME NEW c \in DOMAIN Rifts, NEW e \in Nat
    PROVE  /\ phase_at(c, e) \in Reached
           /\ Rank[phase_at(c, e)] <= Rank[phase_at(c, e + 1)]
<1> DEFINE f == Rifts[c].fault
           s == Rifts[c].shallows
           d == Rifts[c].deep
<1>1. f \in Nat /\ s \in Nat /\ d \in Nat /\ f <= s /\ s <= d
    BY RulesAssumption
<1>2. \A t : phase_at(c, t) = CASE t >= d -> "deep"
                                [] t \in s..(d - 1) -> "shallows"
                                [] t \in f..(s - 1) -> "fault"
                                [] OTHER -> "crack"
    BY DEF phase_at
<1> HIDE DEF f, s, d
<1>3. \A t \in Nat : /\ t >= d => phase_at(c, t) = "deep"
                     /\ t < d /\ t >= s => phase_at(c, t) = "shallows"
                     /\ t < s /\ t >= f => phase_at(c, t) = "fault"
                     /\ t < f => phase_at(c, t) = "crack"
    BY <1>1, <1>2
<1>4. e + 1 \in Nat
    OBVIOUS
<1>5. CASE e >= d
    <2>1. e + 1 >= d
        BY <1>1, <1>5
    <2> QED BY <1>3, <1>4, <1>5, <2>1, RanksAreNumbers DEF Reached
<1>6. CASE e < d /\ e >= s
    <2>1. e + 1 >= d \/ (e + 1 < d /\ e + 1 >= s)
        BY <1>1, <1>6
    <2> QED BY <1>3, <1>4, <1>6, <2>1, RanksAreNumbers DEF Reached
<1>7. CASE e < s /\ e >= f
    <2>1. e + 1 >= d \/ (e + 1 < d /\ e + 1 >= s) \/ (e + 1 < s /\ e + 1 >= f)
        BY <1>1, <1>7
    <2> QED BY <1>3, <1>4, <1>7, <2>1, RanksAreNumbers DEF Reached
<1>8. CASE e < f
    <2>1. \/ e + 1 >= d \/ (e + 1 < d /\ e + 1 >= s) \/ (e + 1 < s /\ e + 1 >= f)
          \/ e + 1 < f
        BY <1>1, <1>8
    <2> QED BY <1>3, <1>4, <1>8, <2>1, RanksAreNumbers DEF Reached
<1> QED BY <1>1, <1>5, <1>6, <1>7, <1>8

\* Sinking changes the ground of the rifts only, and brings it to the schedule.
LEMMA SunkKeeps ==
    ASSUME NEW w \in Worlds, RiftsBehind(w)
    PROVE  /\ Sunk(w) \in Worlds /\ Sunk(w).epoch = w.epoch
           /\ SameMarks(w, Sunk(w)) /\ SameLife(w, Sunk(w))
           /\ RiftsBehind(Sunk(w)) /\ RiftsThere(Sunk(w))
           /\ (\A c \in Moved(w) : phase_at(c, w.epoch) # "deep") =>
                  (\A living : Dry(w, living) /\ living \subseteq DOMAIN w.organisms
                                  => Dry(Sunk(w), living))
<1> DEFINE v == Sunk(w)
           at(c) == phase_at(c, w.epoch)
           rift == [c \in Cells |-> IF c \in Moved(w) THEN at(c) ELSE w.rift[c]]
           biome == [c \in Cells |->
               CASE c \notin Moved(w) -> w.biome[c]
                 [] c \in Moved(w) /\ at(c) = "deep" -> "deep"
                 [] c \in Moved(w) /\ at(c) = "shallows" /\ IsLand(w, c) -> "shallows"
                 [] OTHER -> w.biome[c]]
<1>1. v = [w EXCEPT !.rift = rift, !.biome = biome]
    BY DEF Sunk, Worlds
<1>2. /\ w.epoch \in Nat /\ w.biome \in [Cells -> Biome] /\ w.rift \in [Cells -> DOMAIN Rank]
      /\ DOMAIN Rifts \subseteq Cells /\ Moved(w) \subseteq DOMAIN Rifts
    BY WorldRecord, RulesAssumption DEF Moved
<1>3. \A c \in DOMAIN Rifts : at(c) \in Reached
    BY <1>2, SchedulesRise
<1>4. rift \in [Cells -> DOMAIN Rank]
    <2> HIDE DEF at
    <2> QED BY <1>2, <1>3, RanksAreNumbers
<1>5. \A c \in Cells :
          /\ c \notin Moved(w) => biome[c] = w.biome[c]
          /\ c \in Moved(w) /\ at(c) = "deep" => biome[c] = "deep"
          /\ c \in Moved(w) /\ at(c) = "shallows" /\ IsLand(w, c) => biome[c] = "shallows"
          /\ c \in Moved(w) /\ at(c) = "shallows" /\ ~IsLand(w, c) => biome[c] = w.biome[c]
          /\ c \in Moved(w) /\ at(c) \notin {"deep", "shallows"} => biome[c] = w.biome[c]
    <2> HIDE DEF at
    <2> QED OBVIOUS
<1>6. biome \in [Cells -> Biome]
    <2> SUFFICES ASSUME NEW c \in Cells PROVE biome[c] \in Biome
        OBVIOUS
    <2> HIDE DEF at, biome
    <2> QED BY <1>2, <1>5 DEF Biome
<1>7. \A c \in Cells : rift[c] = IF c \in Moved(w) THEN at(c) ELSE w.rift[c]
    OBVIOUS
<1> HIDE DEF rift, biome, at, v
<1>8. /\ v \in Worlds /\ v.epoch = w.epoch /\ SameMarks(w, v) /\ SameLife(w, v)
      /\ v.rift = rift /\ v.biome = biome
    BY <1>1, <1>4, <1>6 DEF Worlds, SameMarks, SameLife
<1>9. \A c \in Moved(w) : Rank[at(c)] > Rank[w.rift[c]]
    BY DEF Moved, at
<1>10. \A c \in DOMAIN Rifts \ Moved(w) : w.rift[c] = at(c)
    <2> SUFFICES ASSUME NEW c \in DOMAIN Rifts, c \notin Moved(w) PROVE w.rift[c] = at(c)
        OBVIOUS
    <2>1. ~(Rank[at(c)] > Rank[w.rift[c]])
        BY DEF Moved, at
    <2>2. Rank[w.rift[c]] <= Rank[at(c)]
        BY DEF RiftsBehind, at
    <2>3. at(c) \in DOMAIN Rank /\ w.rift[c] \in DOMAIN Rank
        BY <1>2, <1>3, RanksAreNumbers
    <2>4. Rank[at(c)] \in 0..4 /\ Rank[w.rift[c]] \in 0..4
        BY <2>3, RanksAreNumbers
    <2>5. Rank[at(c)] = Rank[w.rift[c]]
        BY <2>1, <2>2, <2>4
    <2> QED BY <2>3, <2>5, RanksAreNumbers
<1>11. \A c \in DOMAIN Rifts : rift[c] = at(c)
    BY <1>2, <1>7, <1>10
<1>12. ASSUME NEW c \in DOMAIN Rifts
       PROVE  /\ rift[c] = "shallows" => biome[c] = "shallows"
              /\ rift[c] = "deep" <=> biome[c] = "deep"
    <2>1. c \in Cells /\ w.rift[c] \in DOMAIN Rank /\ w.biome[c] \in Biome
        BY <1>2
    <2>2. /\ w.rift[c] = "shallows" => w.biome[c] = "shallows"
          /\ w.rift[c] = "deep" <=> w.biome[c] = "deep"
        BY DEF RiftsBehind
    <2>3. CASE c \notin Moved(w)
        BY <1>5, <1>7, <2>1, <2>2, <2>3
    <2>4. CASE c \in Moved(w)
        <3>1. rift[c] = at(c) /\ Rank[at(c)] > Rank[w.rift[c]] /\ at(c) \in Reached
            BY <1>3, <1>7, <1>9, <2>1, <2>4
        <3>2. w.rift[c] # "deep"
            <4>1. Rank[at(c)] \in 0..4
                BY <3>1, RanksAreNumbers
            <4> QED BY <3>1, <4>1, RanksAreNumbers
        <3>3. w.biome[c] # "deep"
            BY <2>2, <3>2
        <3>4. ~IsLand(w, c) => w.biome[c] = "shallows"
            BY <3>3 DEF IsLand
        <3>5. CASE at(c) = "deep"
            BY <1>5, <2>1, <2>4, <3>1, <3>5
        <3>6. CASE at(c) = "shallows"
            BY <1>5, <2>1, <2>4, <3>1, <3>4, <3>6
        <3>7. CASE at(c) \notin {"deep", "shallows"}
            BY <1>5, <2>1, <2>4, <3>1, <3>3, <3>7
        <3> QED BY <3>5, <3>6, <3>7
    <2> QED BY <2>3, <2>4
<1>13. RiftsThere(v)
    BY <1>8, <1>11 DEF RiftsThere, at
<1>14. RiftsBehind(v)
    <2>1. \A c \in DOMAIN Rifts : rift[c] # "none"
        BY <1>3, <1>11 DEF Reached
    <2>2. \A c \in DOMAIN Rifts : Rank[v.rift[c]] <= Rank[phase_at(c, v.epoch)]
        <3> SUFFICES ASSUME NEW c \in DOMAIN Rifts
                     PROVE  Rank[v.rift[c]] <= Rank[phase_at(c, v.epoch)]
            OBVIOUS
        <3>1. v.rift[c] = phase_at(c, v.epoch) /\ Rank[at(c)] \in 0..4 /\ v.rift[c] = at(c)
            BY <1>3, <1>8, <1>11, <1>13, RanksAreNumbers DEF RiftsThere
        <3> QED BY <3>1
    <2> QED BY <1>8, <1>12, <2>1, <2>2 DEF RiftsBehind
<1>15. ASSUME \A c \in Moved(w) : phase_at(c, w.epoch) # "deep",
              NEW living, Dry(w, living), living \subseteq DOMAIN w.organisms
       PROVE  Dry(v, living)
    <2>1. \A c \in Cells : biome[c] = "deep" => w.biome[c] = "deep"
        BY <1>5, <1>15 DEF at
    <2>2. \A o \in living : w.organisms[o].cell \in Cells
        BY <1>15, HomeIsACell
    <2> QED BY <1>8, <1>15, <2>1, <2>2 DEF Dry, Passable, SameLife
<1> QED BY <1>8, <1>13, <1>14, <1>15 DEF v

\* The books and the room depend on the living only.
LEMMA SameLifeFits ==
    ASSUME NEW w, NEW v, SameLife(w, v), NEW living
    PROVE  /\ Fits(w, living) => Fits(v, living)
           /\ Booked(w, living) => Booked(v, living)
           /\ AllLive(w) => AllLive(v)
<1>1. \A c : Standing(v, living, c) = Standing(w, living, c)
             /\ MembersIn(v, living, c) = MembersIn(w, living, c)
    BY DEF Standing, MembersIn, SameLife
<1>2. Fits(w, living) => Fits(v, living)
    BY <1>1 DEF Fits
<1>3. Booked(w, living) => Booked(v, living)
    BY <1>1 DEF Booked, SameLife
<1>4. AllLive(w) => AllLive(v)
    BY DEF AllLive, SameLife
<1> QED BY <1>2, <1>3, <1>4

\* The rifts depend on the ground only.
LEMMA SameGroundRifts ==
    ASSUME NEW w, NEW v, SameGround(w, v)
    PROVE  /\ RiftsBehind(w) => RiftsBehind(v)
           /\ RiftsThere(w) => RiftsThere(v)
           /\ \A living : SameLife(w, v) /\ Dry(w, living) => Dry(v, living)
BY DEF RiftsBehind, RiftsThere, Dry, Passable, SameGround, SameLife

\* The rifts move: they are on schedule, and the world is sound again.
LEMMA RiftsMoveKeeps ==
    ASSUME NEW w, Sound(w), RiftsBehind(w)
    PROVE  /\ Sound(RiftsMove(w)) /\ SameMarks(w, RiftsMove(w)) /\ RiftsMove(w).epoch = w.epoch
           /\ RiftsBehind(RiftsMove(w)) /\ RiftsThere(RiftsMove(w))
<1> DEFINE u == Sunk(w)
           Deep == \E c \in Moved(w) : phase_at(c, w.epoch) = "deep"
           D == DOMAIN w.organisms
<1>1. w \in Worlds /\ Fits(w, D) /\ Dry(w, D) /\ Booked(w, D) /\ AllLive(w)
    BY DEF Sound
<1>2. /\ u \in Worlds /\ u.epoch = w.epoch /\ SameMarks(w, u) /\ SameLife(w, u)
      /\ RiftsBehind(u) /\ RiftsThere(u)
    BY <1>1, SunkKeeps
<1>3. Fits(u, D) /\ Booked(u, D) /\ AllLive(u) /\ D = DOMAIN u.organisms
    BY <1>1, <1>2, SameLifeFits DEF SameLife
<1>4. CASE Deep
    <2>1. RiftsMove(w) = rescue(u)
        BY <1>4 DEF RiftsMove
    <2> HIDE DEF u, D
    <2>2. Sound(rescue(u)) /\ SameGround(u, rescue(u)) /\ SameMarks(u, rescue(u))
        BY <1>2, <1>3, RescueKeeps
    <2>3. RiftsBehind(rescue(u)) /\ RiftsThere(rescue(u))
        BY <1>2, <2>2, SameGroundRifts
    <2> QED BY <1>2, <2>1, <2>2, <2>3 DEF SameMarks, SameGround
<1>5. CASE ~Deep
    <2>1. RiftsMove(w) = u
        BY <1>5 DEF RiftsMove
    <2>2. Dry(u, D)
        BY <1>1, <1>5, SunkKeeps
    <2> HIDE DEF u
    <2> QED BY <1>2, <1>3, <2>1, <2>2 DEF Sound
<1> QED BY <1>4, <1>5

-----------------------------------------------------------------------------
(* Natural events and the plague. *)

\* What an event leads to: other effects on the ground, and nothing else.
Aired(w) == {v \in Worlds : SameGround(w, v) /\ SameMarks(w, v) /\ SameLife(w, v)}

\* An event adds an effect at most.
LEMMA EventKeeps ==
    ASSUME NEW w \in Worlds, NEW kind \in AreaKinds, NEW sites \in SUBSET Cells,
           NEW radius \in Nat, NEW ticks \in Nat
    PROVE  Event(w, kind, sites, radius, ticks) \subseteq Aired(w)
<1> SUFFICES ASSUME NEW v \in Event(w, kind, sites, radius, ticks) PROVE v \in Aired(w)
    OBVIOUS
<1>1. CASE v = w
    BY <1>1 DEF Aired, SameGround, SameMarks, SameLife
<1>2. CASE v # w
    <2>1. PICK c \in sites :
              v = [w EXCEPT !.effects = Append(@, [kind |-> kind, center |-> c,
                                                   radius |-> radius, left |-> ticks])]
        BY <1>2 DEF Event
    <2> DEFINE one == [kind |-> kind, center |-> c, radius |-> radius, left |-> ticks]
    <2>2. one \in AreaEffect
        BY DEF AreaEffect
    <2> HIDE DEF one
    <2>3. w.effects \in Seq(AreaEffect)
        BY WorldRecord
    <2>4. Append(w.effects, one) \in Seq(AreaEffect)
        BY <2>2, <2>3
    <2>5. v = [w EXCEPT !.effects = Append(w.effects, one)]
        BY <2>1 DEF one, Worlds
    <2> QED BY <2>4, <2>5 DEF Aired, Worlds, SameGround, SameMarks, SameLife
<1> QED BY <1>1, <1>2

\* One event after another.
LEMMA AiredOn ==
    ASSUME NEW w, NEW v \in Aired(w), NEW u \in Aired(v)
    PROVE  u \in Aired(w)
BY DEF Aired, SameGround, SameMarks, SameLife

\* The natural events of a season.
LEMMA NaturalKeeps ==
    ASSUME NEW w \in Worlds, NEW v \in Natural(w)
    PROVE  v \in Aired(w)
<1>1. /\ Rules.flood_radius \in Nat /\ Rules.flood_ticks \in Nat
      /\ Rules.wildfire_radius_min \in Nat /\ Rules.wildfire_radius_max \in Nat
      /\ Rules.ash_ticks \in Nat /\ Rules.drought_radius \in Nat /\ Rules.drought_ticks \in Nat
    BY RulesAssumption DEF Unsigned
<1>2. flood(w) \subseteq Aired(w)
    <2> DEFINE sites == {c \in Cells :
                             floods(w, c) /\ (w.biome[c] = "swamp" \/ next_to_water(w, c))}
    <2>1. flood(w) = Event(w, "flood", sites, Rules.flood_radius, Rules.flood_ticks)
        BY DEF flood
    <2>2. sites \in SUBSET Cells /\ "flood" \in AreaKinds
        BY DEF AreaKinds
    <2> HIDE DEF sites
    <2> QED BY <1>1, <2>1, <2>2, EventKeeps
<1>3. ASSUME NEW u \in Worlds
      PROVE  drought(u) \subseteq Aired(u)
    <2> DEFINE sites == {c \in Cells : u.biome[c] \in {"steppe", "desert"}}
    <2>1. drought(u) = Event(u, "drought", sites, Rules.drought_radius, Rules.drought_ticks)
        BY DEF drought
    <2>2. sites \in SUBSET Cells /\ "drought" \in AreaKinds
        BY DEF AreaKinds
    <2> HIDE DEF sites
    <2> QED BY <1>1, <2>1, <2>2, EventKeeps
<1>4. wildfire(w) \subseteq Aired(w)
    <2> SUFFICES ASSUME NEW u \in wildfire(w) PROVE u \in Aired(w)
        OBVIOUS
    <2> DEFINE sites == {c \in Cells : w.biome[c] \in {"forest", "steppe"}}
    <2>1. PICK r \in Rules.wildfire_radius_min..Rules.wildfire_radius_max :
              u \in Event(w, "ash", sites, r, Rules.ash_ticks)
        BY DEF wildfire
    <2>2. r \in Nat /\ sites \in SUBSET Cells /\ "ash" \in AreaKinds
        BY <1>1 DEF AreaKinds
    <2> HIDE DEF sites
    <2> QED BY <1>1, <2>1, <2>2, EventKeeps
<1>5. ASSUME v \in UNION {drought(u) : u \in wildfire(w)}
      PROVE  v \in Aired(w)
    <2>1. PICK u \in wildfire(w) : v \in drought(u)
        BY <1>5
    <2>2. u \in Aired(w) /\ u \in Worlds
        BY <1>4 DEF Aired
    <2> QED BY <1>3, <2>1, <2>2, AiredOn
<1>6. w \in Aired(w)
    BY DEF Aired, SameGround, SameMarks, SameLife
<1> QED BY <1>2, <1>5, <1>6 DEF Natural

\* Effects leave a world sound.
LEMMA AiredIsSound ==
    ASSUME NEW w, Sound(w), NEW v \in Aired(w)
    PROVE  Sound(v)
<1>1. v \in Worlds /\ SameGround(w, v) /\ SameLife(w, v) /\ DOMAIN v.organisms = DOMAIN w.organisms
    BY DEF Aired, SameLife
<1> QED BY <1>1, SameLifeFits, SameGroundRifts DEF Sound

\* A plague leaves a world sound.
LEMMA PlagueKeeps ==
    ASSUME NEW w, Sound(w), NEW dead \in Struck(w)
    PROVE  /\ Sound(close_extinct_clades(Without(w, dead)))
           /\ SameGround(w, close_extinct_clades(Without(w, dead)))
           /\ SameMarks(w, close_extinct_clades(Without(w, dead)))
<1>1. dead \in SUBSET DOMAIN w.organisms
    BY DEF Struck
<1>2. Dry(w, DOMAIN w.organisms \ dead)
    BY DEF Sound, Dry
<1> QED BY <1>1, <1>2, LeaveKeeps DEF Sound

-----------------------------------------------------------------------------
(* Harms and the rests after them. *)

\* A clade that rests beyond this epoch still does.
RestsOn(w, v) == \A c, e : e \in Nat /\ e > w.epoch /\ RestsUntil(w, c, e) => RestsUntil(v, c, e)
SameHarms(w, v) ==
    Harms(v) = Harms(w) /\ \A i \in Harms(w) : v.cladeEffects[i] = w.cladeEffects[i]

\* A harm that runs ends in this epoch or later.
LEMMA HarmTypes ==
    ASSUME NEW w \in Worlds, NEW i \in Harms(w), NEW past \in Nat, w.cladeEffects[i].left >= 1
    PROVE  /\ w.cladeEffects[i].clade \in Nat /\ w.cladeEffects[i].left \in Nat
           /\ RunsOut(w, past, i) \in Nat /\ RunsOut(w, past, i) >= w.epoch
<1>1. w.cladeEffects[i] \in CladeEffect /\ w.epoch \in Nat
    BY WorldRecord DEF Harms
<1>2. w.cladeEffects[i].clade \in Nat /\ w.cladeEffects[i].left \in Int
    BY <1>1 DEF CladeEffect
<1>3. past + w.cladeEffects[i].left - 1 \in Nat
    BY <1>2
<1>4. \A x \in Nat, t \in Nat \ {0} : x \div t \in Nat
    OBVIOUS
<1>5. ((past + w.cladeEffects[i].left - 1) \div Rules.ticks_per_epoch) \in Nat
    BY <1>3, <1>4, RulesAreNumbers
<1> QED BY <1>1, <1>2, <1>5 DEF RunsOut

\* With the same harms, and no rest forgotten, the rests stay.
LEMMA RestingStays ==
    ASSUME NEW w \in Worlds, NEW v \in Worlds, NEW past \in Nat, NEW ends \in Table(Nat),
           Resting(w, past, ends), v.epoch = w.epoch, SameHarms(w, v), RestsOn(w, v)
    PROVE  Resting(v, past, ends)
<1>1. OneHarm(v)
    BY DEF Resting, OneHarm, SameHarms
<1>2. HarmedRest(v, past)
    <2> SUFFICES ASSUME NEW i \in Harms(v)
                 PROVE  /\ v.cladeEffects[i].left >= 1
                        /\ RestsUntil(v, v.cladeEffects[i].clade,
                                      RunsOut(v, past, i) + 1 + Rules.harm_respite_epochs)
        BY DEF HarmedRest
    <2>1. i \in Harms(w) /\ v.cladeEffects[i] = w.cladeEffects[i]
        BY DEF SameHarms
    <2>2. /\ w.cladeEffects[i].left >= 1
          /\ RestsUntil(w, w.cladeEffects[i].clade,
                        RunsOut(w, past, i) + 1 + Rules.harm_respite_epochs)
        BY <2>1 DEF Resting, HarmedRest
    <2>3. RunsOut(v, past, i) = RunsOut(w, past, i)
        BY <2>1 DEF RunsOut
    <2>4. /\ RunsOut(w, past, i) + 1 + Rules.harm_respite_epochs \in Nat
          /\ RunsOut(w, past, i) + 1 + Rules.harm_respite_epochs > w.epoch
        <3>1. RunsOut(w, past, i) \in Nat /\ RunsOut(w, past, i) >= w.epoch
            BY <2>1, <2>2, HarmTypes
        <3>2. w.epoch \in Nat
            BY WorldRecord
        <3> QED BY <3>1, <3>2, RulesAreNumbers
    <2> QED BY <2>1, <2>2, <2>3, <2>4 DEF RestsOn
<1>3. HealedRest(v, ends)
    <2> SUFFICES ASSUME NEW c \in DOMAIN ends
                 PROVE  \/ RestsUntil(v, c, ends[c] + 1 + Rules.harm_respite_epochs)
                        \/ v.epoch >= ends[c] + 1 + Rules.harm_respite_epochs
        BY DEF HealedRest
    <2> DEFINE e == ends[c] + 1 + Rules.harm_respite_epochs
    <2>1. e \in Nat /\ w.epoch \in Nat
        <3>1. ends[c] \in Nat
            BY OfTable
        <3> QED BY <3>1, WorldRecord, RulesAreNumbers
    <2>2. RestsUntil(w, c, e) \/ w.epoch >= e
        BY DEF Resting, HealedRest
    <2> HIDE DEF e
    <2>3. RestsUntil(v, c, e) \/ v.epoch >= e
        BY <2>1, <2>2 DEF RestsOn
    <2> QED BY <2>3 DEF e
<1> QED BY <1>1, <1>2, <1>3 DEF Resting

\* Effects and cooldowns that stay keep the harms and the rests.
LEMMA SameMarksRest ==
    ASSUME NEW w, NEW v, SameMarks(w, v)
    PROVE  SameHarms(w, v) /\ RestsOn(w, v)
BY DEF SameMarks, SameHarms, Harms, RestsOn, RestsUntil

\* More cooldowns do no harm.
LEMMA CooldownsRest ==
    ASSUME NEW w \in Worlds, NEW one, NEW v, v.cooldowns = Append(w.cooldowns, one)
    PROVE  /\ RestsOn(w, v)
           /\ one.kind = "respite" => \A e : one.until >= e => RestsUntil(v, one.key, e)
<1> DEFINE n == Len(w.cooldowns)
<1>1. /\ n \in Nat /\ DOMAIN w.cooldowns = 1..n
      /\ DOMAIN v.cooldowns = 1..(n + 1)
      /\ \A k \in 1..n : v.cooldowns[k] = w.cooldowns[k]
      /\ v.cooldowns[n + 1] = one
    <2>1. w.cooldowns \in Seq(Cooldown)
        BY WorldRecord
    <2> QED BY <2>1
<1> HIDE DEF n
<1>2. RestsOn(w, v)
    <2> SUFFICES ASSUME NEW c, NEW e, RestsUntil(w, c, e) PROVE RestsUntil(v, c, e)
        BY DEF RestsOn
    <2>1. PICK k \in 1..n : w.cooldowns[k].kind = "respite" /\ w.cooldowns[k].key = c
                            /\ w.cooldowns[k].until >= e
        BY <1>1 DEF RestsUntil
    <2>2. k \in DOMAIN v.cooldowns /\ v.cooldowns[k] = w.cooldowns[k]
        BY <1>1
    <2> QED BY <2>1, <2>2 DEF RestsUntil
<1>3. n + 1 \in DOMAIN v.cooldowns
    BY <1>1
<1> QED BY <1>1, <1>2, <1>3 DEF RestsUntil

-----------------------------------------------------------------------------
(* Divisions, and what a check that passed says. *)

\* Division by the length of an epoch.
LEMMA OneEpochLater ==
    ASSUME NEW x \in Nat, NEW t \in Nat \ {0}
    PROVE  /\ (x \div t) \in Nat
           /\ (x + t) \div t = (x \div t) + 1
           /\ x < t => (x \div t) = 0
<1>1. (x + t) \div t = (x \div t) + 1
    OBVIOUS
<1>2. (x \div t) \in Nat
    OBVIOUS
<1>3. x < t => (x \div t) = 0
    OBVIOUS
<1> QED BY <1>1, <1>2, <1>3

\* Division rounded up.
LEMMA RoundedUp ==
    ASSUME NEW x \in Nat \ {0}, NEW t \in Nat \ {0}
    PROVE  CeilDiv(x, t) \in Nat /\ CeilDiv(x, t) = ((x - 1) \div t) + 1
<1>1. x - 1 \in Nat /\ x + t - 1 = (x - 1) + t
    OBVIOUS
<1>2. ((x - 1) + t) \div t = ((x - 1) \div t) + 1 /\ ((x - 1) \div t) \in Nat
    BY <1>1, OneEpochLater
<1> QED BY <1>1, <1>2 DEF CeilDiv

\* A check that passed has met none of its reasons.
LEMMA NothingRefused ==
    ASSUME NEW reasons, DOMAIN reasons \in SUBSET Nat,
           \A i \in DOMAIN reasons : reasons[i][2] # OK, FirstOf(reasons) = OK
    PROVE  \A i \in DOMAIN reasons : ~reasons[i][1]
<1> DEFINE hit == {i \in DOMAIN reasons : reasons[i][1]}
<1>1. hit = {} \/ (hit # {} /\ FirstOf(reasons) = reasons[Min(hit)][2])
    BY DEF FirstOf
<1>2. hit \in SUBSET Nat /\ hit \in SUBSET DOMAIN reasons
    OBVIOUS
<1>3. hit = {}
    <2> SUFFICES ASSUME hit # {} PROVE FALSE
        OBVIOUS
    <2> HIDE DEF hit
    <2>1. Min(hit) \in hit
        BY <1>2, LeastOfNats
    <2> QED BY <1>1, <1>2, <2>1
<1> QED BY <1>3

\* Weather that passed its check falls on the map.
LEMMA CheckedWeather ==
    ASSUME NEW w, NEW m, CheckWeather(w, m) = OK
    PROVE  m.at \in Cells
<1> DEFINE A == m.at \notin Cells
           B == Overlaps(w, m)
           C == cooling(w, "weather",
                        {k \in Cells : chebyshev(k, m.at) <= 2 * Rules.weather_radius})
           list == << <<A, "outside the map">>,
                      <<B, "the area overlaps an active effect">>,
                      <<C, "the region is on cooldown">> >>
<1>1. FirstOf(list) = OK
    BY DEF CheckWeather
<1> HIDE DEF A, B, C
<1>2. DOMAIN list \in SUBSET Nat /\ 1 \in DOMAIN list /\ list[1][1] = A
    OBVIOUS
<1>3. \A i \in DOMAIN list : list[i][2] # OK
    <2>1. /\ list[1][2] # OK /\ list[2][2] # OK /\ list[3][2] # OK
        BY DEF OK
    <2>2. DOMAIN list = 1..3
        OBVIOUS
    <2>3. \A i \in 1..3 : i = 1 \/ i = 2 \/ i = 3
        OBVIOUS
    <2> HIDE DEF list
    <2> QED BY <2>1, <2>2, <2>3
<1> HIDE DEF list
<1>4. ~list[1][1]
    BY <1>1, <1>2, <1>3, NothingRefused
<1>5. ~A
    BY <1>2, <1>4
<1> QED BY <1>5 DEF A

\* An action that passed its check: on the map, on a living clade that does not rest.
LEMMA CheckedClade ==
    ASSUME NEW w, NEW m, CheckClade(w, m) = OK
    PROVE  /\ m.at \in Cells /\ LivingOf(w, m.clade) # 0
           /\ is_harm(m.kind) => ~CoolingKey(w, "respite", m.clade)
<1> DEFINE A1 == ~Rules.patrons
           A2 == m.at \notin Cells
           A3 == LivingOf(w, m.clade) = 0
           A4 == Cardinality(members_near(w, m.clade, m.at, Rules.target_radius))
                     < Rules.min_members
           A5 == m.kind = "cure" /\ CoolingKey(w, "cure", m.clade)
           A6 == m.kind \in Easing /\ EasedNearby(w, m)
           A7 == is_harm(m.kind) /\ Protected(w, m.clade)
           A8 == is_harm(m.kind) /\ CoolingKey(w, "respite", m.clade)
           A9 == m.kind = "gift" /\ CoolingKey(w, "gift", m.clade)
           list == << <<A1, "no patrons in these rules">>,
                      <<A2, "outside the map">>,
                      <<A3, "no such living clade">>,
                      <<A4, "too few of the clade in the area">>,
                      <<A5, "the clade was cured recently">>,
                      <<A6, "the area overlaps an active effect">>,
                      <<A7, "the clade is protected">>,
                      <<A8, "the clade rests from harm">>,
                      <<A9, "the clade was gifted recently">> >>
<1>1. FirstOf(list) = OK
    BY DEF CheckClade
<1> HIDE DEF A1, A2, A3, A4, A5, A6, A7, A8, A9
<1>2. DOMAIN list \in SUBSET Nat /\ {2, 3, 8} \subseteq DOMAIN list
    OBVIOUS
<1>3. list[2][1] = A2 /\ list[3][1] = A3 /\ list[8][1] = A8
    OBVIOUS
<1>4. \A i \in DOMAIN list : list[i][2] # OK
    <2>1. /\ list[1][2] # OK /\ list[2][2] # OK /\ list[3][2] # OK
          /\ list[4][2] # OK /\ list[5][2] # OK /\ list[6][2] # OK
          /\ list[7][2] # OK /\ list[8][2] # OK /\ list[9][2] # OK
        BY DEF OK
    <2>2. DOMAIN list = 1..9
        OBVIOUS
    <2>3. \A i \in 1..9 : i = 1 \/ i = 2 \/ i = 3 \/ i = 4 \/ i = 5
                        \/ i = 6 \/ i = 7 \/ i = 8 \/ i = 9
        OBVIOUS
    <2> HIDE DEF list
    <2> QED BY <2>1, <2>2, <2>3
<1> HIDE DEF list
<1>5. \A i \in DOMAIN list : ~list[i][1]
    BY <1>1, <1>2, <1>4, NothingRefused
<1>6. ~A2 /\ ~A3 /\ ~A8
    BY <1>2, <1>3, <1>5
<1> QED BY <1>6 DEF A2, A3, A8

\* A cross that passed its check is on the map.
LEMMA CheckedHybrid ==
    ASSUME NEW w, NEW m, CheckHybrid(w, m) = OK
    PROVE  m.at \in Cells
<1> DEFINE A1 == ~Rules.patrons
           A2 == m.at \notin Cells
           A3 == m.clade = m.other
           A4 == LivingOf(w, m.clade) = 0 \/ LivingOf(w, m.other) = 0
           A5 == \E c \in {m.clade, m.other} :
                     Cardinality(members_near(w, c, m.at, Rules.target_radius))
                         < Rules.hybrid_min_each
           A6 == m.distance = "close"
           A7 == m.distance = "far"
           A8 == CoolingKey(w, "hybrid", pair_key(m.clade, m.other))
           A9 == ~RoomAround(w, m.at)
           list == << <<A1, "no patrons in these rules">>,
                      <<A2, "outside the map">>,
                      <<A3, "a clade cannot cross with itself">>,
                      <<A4, "no such living clade">>,
                      <<A5, "too few of a clade in the area">>,
                      <<A6, "the clades are too close to cross">>,
                      <<A7, "the clades are too far apart to cross">>,
                      <<A8, "the pair was crossed recently">>,
                      <<A9, "no free land at the target">> >>
<1>1. FirstOf(list) = OK
    BY DEF CheckHybrid
<1> HIDE DEF A1, A2, A3, A4, A5, A6, A7, A8, A9
<1>2. DOMAIN list \in SUBSET Nat /\ 2 \in DOMAIN list /\ list[2][1] = A2
    OBVIOUS
<1>3. \A i \in DOMAIN list : list[i][2] # OK
    <2>1. /\ list[1][2] # OK /\ list[2][2] # OK /\ list[3][2] # OK
          /\ list[4][2] # OK /\ list[5][2] # OK /\ list[6][2] # OK
          /\ list[7][2] # OK /\ list[8][2] # OK /\ list[9][2] # OK
        BY DEF OK
    <2>2. DOMAIN list = 1..9
        OBVIOUS
    <2>3. \A i \in 1..9 : i = 1 \/ i = 2 \/ i = 3 \/ i = 4 \/ i = 5
                        \/ i = 6 \/ i = 7 \/ i = 8 \/ i = 9
        OBVIOUS
    <2> HIDE DEF list
    <2> QED BY <2>1, <2>2, <2>3
<1> HIDE DEF list
<1>4. ~list[2][1]
    BY <1>1, <1>2, <1>3, NothingRefused
<1>5. ~A2
    BY <1>2, <1>4
<1> QED BY <1>5 DEF A2

-----------------------------------------------------------------------------
(* Foundings: the organisms first, then the clade they are of. *)

\* The organisms that v has more than w.
New(w, v) == w.nextOrganism..(v.nextOrganism - 1)

\* The worlds that placing organisms of a clade c leads to.
Placed(w, c) ==
    {v \in Worlds :
        /\ SameGround(w, v) /\ SameMarks(w, v)
        /\ v.clades = w.clades /\ v.museum = w.museum /\ v.nextClade = w.nextClade
        /\ v.nextOrganism >= w.nextOrganism
        /\ DOMAIN v.organisms = DOMAIN w.organisms \cup New(w, v)
        /\ \A o \in DOMAIN w.organisms : v.organisms[o] = w.organisms[o]
        /\ \A o \in New(w, v) : v.organisms[o].clade = c
        /\ Fits(v, DOMAIN v.organisms) /\ Dry(v, DOMAIN v.organisms)}

\* To begin with nobody is placed.
LEMMA NobodyPlaced ==
    ASSUME NEW w, Sound(w), NEW c
    PROVE  w \in Placed(w, c)
<1>1. w \in Worlds /\ w.nextOrganism \in Nat
    BY WorldRecord DEF Sound
<1>2. New(w, w) = {}
    BY <1>1 DEF New
<1>3. w.nextOrganism >= w.nextOrganism
    BY <1>1
<1> QED BY <1>1, <1>2, <1>3 DEF Placed, Sound, SameGround, SameMarks

\* One more is placed in a cell with room.
LEMMA OneMorePlaced ==
    ASSUME NEW w, Sound(w), NEW c \in Nat, NEW v \in Placed(w, c), ~Full(v),
           NEW cell \in Cells, HasRoom(v, cell)
    PROVE  Born(v, c, cell) \in Placed(w, c)
<1> DEFINE u == Born(v, c, cell)
           new == v.nextOrganism
           D == DOMAIN v.organisms
<1>1. /\ v \in Worlds /\ SameGround(w, v) /\ SameMarks(w, v)
      /\ v.clades = w.clades /\ v.museum = w.museum /\ v.nextClade = w.nextClade
      /\ new >= w.nextOrganism
      /\ D = DOMAIN w.organisms \cup New(w, v)
      /\ \A o \in DOMAIN w.organisms : v.organisms[o] = w.organisms[o]
      /\ \A o \in New(w, v) : v.organisms[o].clade = c
      /\ Fits(v, D) /\ Dry(v, D)
    BY DEF Placed
<1>2. w \in Worlds /\ w.nextOrganism \in Nat /\ new \in Nat /\ new + 1 \in Nat
      /\ \A o \in DOMAIN w.organisms : o \in Nat /\ o < w.nextOrganism
    <2>1. w \in Worlds /\ Booked(w, DOMAIN w.organisms)
        BY DEF Sound
    <2>2. DOMAIN w.organisms \in SUBSET Nat /\ w.nextOrganism \in Nat /\ v.nextOrganism \in Nat
        BY <1>1, <2>1, WorldRecord, OfTable
    <2> QED BY <2>1, <2>2 DEF Booked
<1>3. \A o \in D : o < new
    <2> SUFFICES ASSUME NEW o \in D PROVE o < new
        OBVIOUS
    <2>1. CASE o \in DOMAIN w.organisms
        BY <1>1, <1>2, <2>1
    <2>2. CASE o \in New(w, v)
        BY <1>2, <2>2 DEF New
    <2> QED BY <1>1, <2>1, <2>2
<1>4. /\ Passable(v, cell) /\ Cardinality(Standing(v, D, cell)) < Rules.max_per_cell
    BY <1>1, RoomHelps
<1>5. Cardinality(D) < Rules.max_organisms
    <2>1. Cardinality(D) \in Nat /\ ~(Cardinality(D) >= Rules.max_organisms)
        BY <1>1, MembersAreFinite DEF Full, Population
    <2> QED BY <2>1, RulesAreNumbers
<1>6. /\ u \in Worlds /\ SameGround(v, u) /\ SameMarks(v, u)
      /\ u.clades = v.clades /\ u.museum = v.museum /\ u.nextClade = v.nextClade
      /\ u.nextOrganism = new + 1
      /\ DOMAIN u.organisms = D \cup {new}
      /\ \A o \in D : u.organisms[o] = v.organisms[o]
      /\ u.organisms[new] = [clade |-> c, cell |-> cell]
      /\ \A living \in SUBSET D :
            /\ Fits(v, living)
            /\ Cardinality(Standing(v, living, cell)) < Rules.max_per_cell
            /\ Cardinality(living) < Rules.max_organisms
            => Fits(u, living \cup {new})
      /\ \A living \in SUBSET D :
            Dry(v, living) /\ Passable(v, cell) => Dry(u, living \cup {new})
    BY <1>1, <1>3, BornKeeps
<1> HIDE DEF u
<1>7. Fits(u, D \cup {new}) /\ Dry(u, D \cup {new})
    <2>1. D \in SUBSET D
        OBVIOUS
    <2> HIDE DEF D, new
    <2> QED BY <1>1, <1>4, <1>5, <1>6, <2>1
<1>8. New(w, u) = New(w, v) \cup {new}
    BY <1>1, <1>2, <1>6 DEF New
<1>9. DOMAIN u.organisms = DOMAIN w.organisms \cup New(w, u)
    BY <1>1, <1>6, <1>8
<1>10. \A o \in DOMAIN w.organisms : u.organisms[o] = w.organisms[o]
    BY <1>1, <1>6
<1>11. \A o \in New(w, u) : u.organisms[o].clade = c
    <2>1. \A o \in New(w, v) : u.organisms[o].clade = c
        BY <1>1, <1>6
    <2>2. u.organisms[new].clade = c
        BY <1>6
    <2> QED BY <1>8, <2>1, <2>2
<1>12. u.nextOrganism >= w.nextOrganism
    BY <1>1, <1>2, <1>6
<1>13. u \in Placed(w, c)
    <2> HIDE DEF D, new
    <2> QED BY <1>1, <1>6, <1>7, <1>9, <1>10, <1>11, <1>12 DEF Placed, SameGround, SameMarks
<1> QED BY <1>13 DEF u

\* The clade of those placed is booked with all of them.
LEMMA FoundedKeeps ==
    ASSUME NEW w, Sound(w), NEW v \in Placed(w, w.nextClade),
           NEW parent \in Nat, NEW second \in Nat
    PROVE  /\ Sound(Founded(w, v, parent, second))
           /\ SameGround(w, Founded(w, v, parent, second))
           /\ SameMarks(w, Founded(w, v, parent, second))
<1> DEFINE c == w.nextClade
           placed == v.nextOrganism - w.nextOrganism
           one == [parent |-> parent, second |-> second, founded |-> w.epoch,
                   living |-> placed, peak |-> placed]
           more == Put(w.clades, c, one)
           u == [v EXCEPT !.clades = more, !.nextClade = c + 1]
           D == DOMAIN v.organisms
           F == Founded(w, v, parent, second)
<1>1. /\ v \in Worlds /\ SameGround(w, v) /\ SameMarks(w, v)
      /\ v.clades = w.clades /\ v.museum = w.museum /\ v.nextClade = c
      /\ v.nextOrganism >= w.nextOrganism
      /\ D = DOMAIN w.organisms \cup New(w, v)
      /\ \A o \in DOMAIN w.organisms : v.organisms[o] = w.organisms[o]
      /\ \A o \in New(w, v) : v.organisms[o].clade = c
      /\ Fits(v, D) /\ Dry(v, D)
    BY DEF Placed
<1>2. /\ w \in Worlds /\ Booked(w, DOMAIN w.organisms) /\ AllLive(w)
      /\ w.epoch \in Nat /\ c \in Nat /\ w.clades \in Table(Clade)
      /\ w.nextOrganism \in Nat /\ v.nextOrganism \in Nat /\ placed \in Nat
      /\ DOMAIN w.clades \in SUBSET Nat /\ DOMAIN w.organisms \in SUBSET Nat
    <2>1. w \in Worlds /\ Booked(w, DOMAIN w.organisms) /\ AllLive(w)
        BY DEF Sound
    <2>2. /\ w.epoch \in Nat /\ c \in Nat /\ w.clades \in Table(Clade)
          /\ w.nextOrganism \in Nat /\ v.nextOrganism \in Nat
        BY <1>1, <2>1, WorldRecord
    <2>3. DOMAIN w.clades \in SUBSET Nat /\ DOMAIN w.organisms \in SUBSET Nat
        BY <2>1, WorldRecord, OfTable
    <2>4. placed \in Nat
        BY <1>1, <2>2
    <2> QED BY <2>1, <2>2, <2>3, <2>4
<1>3. CASE placed = 0
    <2>1. F = v
        BY <1>3 DEF Founded
    <2>2. v.nextOrganism = w.nextOrganism
        BY <1>2, <1>3
    <2>3. New(w, v) = {}
        BY <1>2, <2>2 DEF New
    <2>4. D = DOMAIN w.organisms
        BY <1>1, <2>3
    <2>5. \A o \in DOMAIN w.organisms : v.organisms[o].clade = w.organisms[o].clade
        BY <1>1
    <2>6. Booked(v, D)
        <3>1. DOMAIN w.organisms \in SUBSET DOMAIN w.organisms
            OBVIOUS
        <3>2. /\ v.clades = w.clades /\ v.museum = w.museum /\ v.nextClade = w.nextClade
              /\ DOMAIN v.organisms = DOMAIN w.organisms
            BY <1>1, <2>4
        <3>3. Booked(v, DOMAIN w.organisms)
            <4> HIDE DEF D
            <4> QED BY <1>2, <2>2, <2>5, <3>1, <3>2, SameBooks
        <3> QED BY <2>4, <3>3
    <2>7. AllLive(v)
        BY <1>1, <1>2 DEF AllLive
    <2> QED BY <1>1, <2>1, <2>6, <2>7 DEF Sound
<1>4. CASE placed # 0
    <2>1. F = u
        BY <1>4, <1>1 DEF Founded, Worlds
    <2>2. one \in Clade
        BY <1>2 DEF Clade
    <2>3. c \notin DOMAIN w.clades
        BY <1>2 DEF Booked
    <2>4. more \in Table(Clade)
        <3> HIDE DEF one
        <3> QED BY <1>2, <2>2, PutIntoTable
    <2>5. /\ DOMAIN more = DOMAIN w.clades \cup {c} /\ more[c] = one
          /\ \A d \in DOMAIN w.clades : more[d] = w.clades[d]
        BY <2>3 DEF Put
    <2>6. one.living = placed /\ one.peak = placed
        OBVIOUS
    <2>7. c + 1 \in Nat
        BY <1>2
    <2> HIDE DEF more, one, u
    <2>8. /\ u \in Worlds /\ SameGround(v, u) /\ SameMarks(v, u)
          /\ u.organisms = v.organisms /\ u.clades = more /\ u.museum = v.museum
          /\ u.nextOrganism = v.nextOrganism /\ u.nextClade = c + 1
        BY <1>1, <2>4, <2>7 DEF Worlds, SameGround, SameMarks, u
    <2>9. \A o \in D : o < v.nextOrganism /\ u.organisms[o].clade \in DOMAIN more
        <3> SUFFICES ASSUME NEW o \in D
                     PROVE  o < v.nextOrganism /\ u.organisms[o].clade \in DOMAIN more
            OBVIOUS
        <3>1. CASE o \in DOMAIN w.organisms
            <4>1. o < w.nextOrganism /\ w.organisms[o].clade \in DOMAIN w.clades /\ o \in Nat
                BY <1>2, <3>1 DEF Booked
            <4>2. u.organisms[o] = w.organisms[o]
                BY <1>1, <2>8, <3>1
            <4> QED BY <1>1, <1>2, <2>5, <4>1, <4>2
        <3>2. CASE o \in New(w, v)
            <4>1. u.organisms[o].clade = c
                BY <1>1, <2>8, <3>2
            <4>2. o < v.nextOrganism
                BY <1>2, <3>2 DEF New
            <4> QED BY <2>5, <4>1, <4>2
        <3> QED BY <1>1, <3>1, <3>2
    <2>10. ASSUME NEW d \in DOMAIN w.clades
           PROVE  /\ d < u.nextClade /\ more[d].living = Cardinality(MembersIn(u, D, d))
                  /\ more[d].peak >= more[d].living /\ more[d].living > 0
        <3>1. /\ d < c /\ w.clades[d].living = Cardinality(MembersIn(w, DOMAIN w.organisms, d))
              /\ w.clades[d].peak >= w.clades[d].living /\ w.clades[d].living > 0
            BY <1>2 DEF Booked, AllLive
        <3>2. \A o \in D : u.organisms[o].clade = d => o \in DOMAIN w.organisms
            BY <1>1, <2>3, <2>8
        <3>3. MembersIn(u, D, d) = MembersIn(w, DOMAIN w.organisms, d)
            BY <1>1, <2>8, <3>2 DEF MembersIn
        <3>4. d \in Nat
            BY <1>2
        <3>5. d < u.nextClade
            BY <1>2, <2>8, <3>1, <3>4
        <3> QED BY <2>5, <3>1, <3>3, <3>5
    <2>11. Cardinality(MembersIn(u, D, c)) = placed
        <3>1. \A o \in DOMAIN w.organisms : w.organisms[o].clade # c
            BY <1>2, <2>3 DEF Booked
        <3>2. MembersIn(u, D, c) = New(w, v)
            BY <1>1, <2>8, <3>1 DEF MembersIn
        <3>3. Cardinality(New(w, v)) = placed
            <4> DEFINE a == w.nextOrganism
                       b == v.nextOrganism - 1
            <4>1. a \in Int /\ b \in Int /\ (IF a > b THEN 0 ELSE b - a + 1) = placed
                BY <1>2, <1>4
            <4>2. Cardinality(a..b) = IF a > b THEN 0 ELSE b - a + 1
                <5> HIDE DEF a, b
                <5> QED BY <4>1, FS_Interval
            <4> QED BY <4>1, <4>2 DEF New
        <3> QED BY <3>2, <3>3
    <2>12. \A d \in DOMAIN more :
               /\ d < u.nextClade /\ more[d].living = Cardinality(MembersIn(u, D, d))
               /\ more[d].peak >= more[d].living /\ more[d].living > 0
        <3>1. /\ c < u.nextClade /\ more[c].living = Cardinality(MembersIn(u, D, c))
              /\ more[c].peak >= more[c].living /\ more[c].living > 0
            <4>1. more[c].living = placed /\ more[c].peak = placed
                BY <2>5, <2>6
            <4>2. placed > 0 /\ placed >= placed
                BY <1>2, <1>4
            <4>3. c < u.nextClade
                BY <1>2, <2>8
            <4> HIDE DEF placed
            <4> QED BY <2>11, <4>1, <4>2, <4>3
        <3> QED BY <2>5, <2>10, <3>1
    <2>13. \A i \in DOMAIN u.museum :
               u.museum[i].clade \notin DOMAIN more /\ u.museum[i].clade < u.nextClade
        <3> SUFFICES ASSUME NEW i \in DOMAIN w.museum
                     PROVE  w.museum[i].clade \notin DOMAIN more /\ w.museum[i].clade < c + 1
            BY <1>1, <2>8
        <3>1. w.museum[i].clade \notin DOMAIN w.clades /\ w.museum[i].clade < c
            BY <1>2 DEF Booked
        <3>2. w.museum[i].clade \in Nat
            <4>1. w.museum[i] \in Exhibit
                BY <1>2, WorldRecord
            <4> QED BY <4>1 DEF Exhibit
        <3>3. w.museum[i].clade # c /\ w.museum[i].clade < c + 1
            BY <1>2, <3>1, <3>2
        <3> QED BY <2>5, <3>1, <3>3
    <2>14. \A i, j \in DOMAIN u.museum : i # j => u.museum[i].clade # u.museum[j].clade
        BY <1>1, <1>2, <2>8 DEF Booked
    <2>15. Booked(u, D)
        BY <2>8, <2>9, <2>12, <2>13, <2>14 DEF Booked
    <2>16. AllLive(u)
        BY <2>8, <2>12 DEF AllLive
    <2>17. Fits(u, D) /\ Dry(u, D)
        <3>1. Fits(u, D)
            <4>1. D \in SUBSET D /\ \A o \in D : u.organisms[o] = v.organisms[o]
                BY <2>8
            <4> QED BY <1>1, <4>1, FewerFit
        <3>2. Dry(u, D)
            BY <1>1, <2>8 DEF Dry, Passable, SameGround
        <3> QED BY <3>1, <3>2
    <2> QED BY <1>1, <2>1, <2>8, <2>15, <2>16, <2>17 DEF Sound, SameGround, SameMarks
<1> QED BY <1>3, <1>4

\* Each placing adds one or none.
LEMMA PlaceOnePlaced ==
    ASSUME NEW w, Sound(w), NEW c \in Nat, NEW sites \in SUBSET Cells
    PROVE  \A v \in Placed(w, c) : PlaceOne(v, c, sites) \in Placed(w, c)
<1> SUFFICES ASSUME NEW v \in Placed(w, c) PROVE PlaceOne(v, c, sites) \in Placed(w, c)
    OBVIOUS
<1> DEFINE cell == FirstRoom(v, sites)
<1>1. v \in Worlds
    BY DEF Placed
<1>2. CASE Full(v) \/ cell = NoCell
    BY <1>2 DEF PlaceOne
<1>3. CASE ~Full(v) /\ cell # NoCell
    <2>1. cell \in Cells /\ HasRoom(v, cell)
        BY <1>1, <1>3, FirstRoomHelps
    <2>2. PlaceOne(v, c, sites) = Born(v, c, cell)
        BY <1>3 DEF PlaceOne
    <2> HIDE DEF cell
    <2> QED BY <1>3, <2>1, <2>2, OneMorePlaced
<1> QED BY <1>2, <1>3

\* So does each sprouting.
LEMMA SproutsPlaced ==
    ASSUME NEW w, Sound(w), NEW biome
    PROVE  SproutsStay(Placed(w, w.nextClade), w, biome)
<1> DEFINE S == Placed(w, w.nextClade)
           B == SporeSites(w, biome)
<1>1. w.nextClade \in Nat
    BY WorldRecord DEF Sound
<1> SUFFICES ASSUME NEW V \in SUBSET S, NEW u \in Sprout(V, w, biome) PROVE u \in S
    BY DEF SproutsStay
<1>2. PICK v \in V : u \in IF Full(v) \/ Free(v, B) = {} THEN {v}
                           ELSE {Born(v, w.nextClade, c) : c \in Free(v, B)}
    BY DEF Sprout
<1> HIDE DEF B
<1>3. CASE Full(v) \/ Free(v, B) = {}
    BY <1>2, <1>3
<1>4. CASE ~(Full(v) \/ Free(v, B) = {})
    <2>1. PICK c \in Free(v, B) : u = Born(v, w.nextClade, c)
        BY <1>2, <1>4
    <2>2. c \in Cells /\ HasRoom(v, c)
        BY DEF Free
    <2> QED BY <1>1, <1>4, <2>1, <2>2, OneMorePlaced
<1> QED BY <1>3, <1>4

-----------------------------------------------------------------------------
(* What the miracles of an epoch lead to, from w on. *)

\* A harm that ran before, or one against a clade that has had its rest.
Allowed(w, ends, c) ==
    \/ \E i \in Harms(w) : w.cladeEffects[i].clade = c
    \/ c \in DOMAIN ends => w.epoch >= ends[c] + 1 + Rules.harm_respite_epochs

Worked(w, ends) ==
    {v \in Worlds :
        /\ Sound(v) /\ SameGround(w, v) /\ Resting(v, 0, ends)
        /\ \A i \in Harms(v) : Allowed(w, ends, v.cladeEffects[i].clade)}

\* Work that leaves the harms and the rests as they are.
LEMMA WorkGoesOn ==
    ASSUME NEW w, NEW ends \in Table(Nat), NEW v \in Worked(w, ends),
           NEW u, Sound(u), SameGround(v, u), SameHarms(v, u), RestsOn(v, u)
    PROVE  u \in Worked(w, ends)
<1>1. /\ v \in Worlds /\ SameGround(w, v) /\ Resting(v, 0, ends)
      /\ \A i \in Harms(v) : Allowed(w, ends, v.cladeEffects[i].clade)
    BY DEF Worked
<1>2. u \in Worlds /\ u.epoch = v.epoch
    BY DEF Sound, SameGround
<1>3. Resting(u, 0, ends)
    BY <1>1, <1>2, RestingStays
<1>4. SameGround(w, u)
    BY <1>1 DEF SameGround
<1>5. \A i \in Harms(u) : Allowed(w, ends, u.cladeEffects[i].clade)
    BY <1>1 DEF SameHarms
<1> QED BY <1>2, <1>3, <1>4, <1>5 DEF Worked

\* A sound world stays so while ground and life stay.
LEMMA SoundStays ==
    ASSUME NEW w, Sound(w), NEW v \in Worlds, SameGround(w, v), SameLife(w, v)
    PROVE  Sound(v)
<1>1. DOMAIN v.organisms = DOMAIN w.organisms
    BY DEF SameLife
<1> QED BY <1>1, SameLifeFits, SameGroundRifts DEF Sound

\* A cooldown does nothing else.
LEMMA CoolDownWorks ==
    ASSUME NEW w, Sound(w), NEW kind \in CooldownKinds, NEW key \in Nat \cup (Nat \X Nat),
           NEW epochs \in Nat
    PROVE  /\ Sound(CoolDown(w, kind, key, epochs)) /\ SameGround(w, CoolDown(w, kind, key, epochs))
           /\ SameHarms(w, CoolDown(w, kind, key, epochs))
           /\ RestsOn(w, CoolDown(w, kind, key, epochs))
<1> DEFINE v == CoolDown(w, kind, key, epochs)
<1>1. w \in Worlds
    BY DEF Sound
<1>2. /\ v \in Worlds /\ SameGround(w, v) /\ SameLife(w, v)
      /\ v.cladeEffects = w.cladeEffects
      /\ v.cooldowns = Append(w.cooldowns, [kind |-> kind, key |-> key,
                                            until |-> w.epoch + epochs])
    BY <1>1, CoolDownType
<1> HIDE DEF v
<1>3. RestsOn(w, v)
    BY <1>1, <1>2, CooldownsRest
<1>4. SameHarms(w, v)
    BY <1>2 DEF SameHarms, Harms
<1>5. Sound(v)
    BY <1>2, SoundStays
<1> QED BY <1>2, <1>3, <1>4, <1>5 DEF v

\* One work after another.
LEMMA ChainedWork ==
    ASSUME NEW w, NEW v, NEW u, SameGround(w, v), SameHarms(w, v), RestsOn(w, v),
           SameGround(v, u), SameHarms(v, u), RestsOn(v, u)
    PROVE  SameGround(w, u) /\ SameHarms(w, u) /\ RestsOn(w, u)
<1>1. SameGround(w, u)
    BY DEF SameGround
<1>2. SameHarms(w, u)
    BY DEF SameHarms
<1>3. RestsOn(w, u)
    BY DEF RestsOn, SameGround
<1> QED BY <1>1, <1>2, <1>3

\* Rain or drought.
LEMMA WeatherWorks ==
    ASSUME NEW w, Sound(w), NEW m, m.at \in Cells
    PROVE  /\ Sound(ApplyWeather(w, m)) /\ SameGround(w, ApplyWeather(w, m))
           /\ SameHarms(w, ApplyWeather(w, m)) /\ RestsOn(w, ApplyWeather(w, m))
           /\ ApplyWeather(w, m).organisms = w.organisms
<1> DEFINE one == [kind |-> IF m.rain THEN "rain" ELSE "dry", center |-> m.at,
                   radius |-> Rules.weather_radius, left |-> Rules.weather_ticks]
           v == [w EXCEPT !.effects = Append(w.effects, one)]
           epochs == CeilDiv(Rules.weather_ticks, Rules.ticks_per_epoch) + Rules.cooldown_epochs
<1>1. w \in Worlds /\ w.effects \in Seq(AreaEffect)
    BY WorldRecord DEF Sound
<1>2. one \in AreaEffect
    <2>1. Rules.weather_radius \in Nat
        BY RulesAssumption DEF Unsigned
    <2>2. Rules.weather_ticks \in Nat
        BY RulesAssumption
    <2>3. (IF m.rain THEN "rain" ELSE "dry") \in AreaKinds
        BY DEF AreaKinds
    <2> QED BY <2>1, <2>2, <2>3 DEF AreaEffect
<1>3. ApplyWeather(w, m) = CoolDown(v, "weather", m.at, epochs)
    BY <1>1 DEF ApplyWeather, Worlds
<1> HIDE DEF one
<1>4. Append(w.effects, one) \in Seq(AreaEffect)
    BY <1>1, <1>2
<1>5. v \in Worlds /\ SameGround(w, v) /\ SameMarks(w, v) /\ SameLife(w, v)
    BY <1>1, <1>4 DEF Worlds, SameGround, SameMarks, SameLife
<1>6. epochs \in Nat
    <2>1. Rules.weather_ticks \in Nat \ {0}
        BY RulesAssumption
    <2>2. Rules.cooldown_epochs \in Nat
        BY RulesAssumption DEF Unsigned
    <2>3. CeilDiv(Rules.weather_ticks, Rules.ticks_per_epoch) \in Nat
        BY <2>1, RulesAreNumbers, RoundedUp
    <2> QED BY <2>2, <2>3
<1> HIDE DEF v, epochs
<1>7. Sound(v)
    BY <1>5, SoundStays
<1>8. SameHarms(w, v) /\ RestsOn(w, v)
    BY <1>5, SameMarksRest
<1>9. "weather" \in CooldownKinds /\ m.at \in Nat \cup (Nat \X Nat)
    BY RulesAreNumbers DEF CooldownKinds
<1>10. /\ Sound(CoolDown(v, "weather", m.at, epochs))
       /\ SameGround(v, CoolDown(v, "weather", m.at, epochs))
       /\ SameHarms(v, CoolDown(v, "weather", m.at, epochs))
       /\ RestsOn(v, CoolDown(v, "weather", m.at, epochs))
    BY <1>6, <1>7, <1>9, CoolDownWorks
<1>11. CoolDown(v, "weather", m.at, epochs).organisms = w.organisms
    BY <1>5, <1>6, <1>9, CoolDownType DEF SameLife
<1> QED BY <1>3, <1>5, <1>8, <1>10, <1>11, ChainedWork

\* A migration.
LEMMA MigrationWorks ==
    ASSUME NEW w, Sound(w), NEW m, m.clade \in Nat
    PROVE  /\ Sound(ApplyMigrate(w, m)) /\ SameGround(w, ApplyMigrate(w, m))
           /\ SameHarms(w, ApplyMigrate(w, m)) /\ RestsOn(w, ApplyMigrate(w, m))
<1> DEFINE S == Shifted(w)
           near == members_near(w, m.clade, m.from, Rules.migrate_radius)
           sites == square(m.at, 1)
<1>1. w \in Worlds /\ w \in S
    BY IsShifted DEF Sound
<1>2. sites \in SUBSET Cells /\ near \in SUBSET DOMAIN w.organisms
    BY DEF square, members_near
<1>3. MovesStay(S, near, sites)
    <2> SUFFICES ASSUME NEW v \in S, NEW o \in near PROVE MoveTo(v, o, sites) \in S
        BY DEF MovesStay
    <2> DEFINE c == FirstRoom(v, sites)
    <2>1. v \in Worlds /\ o \in DOMAIN w.organisms
        BY <1>2 DEF Shifted
    <2>2. CASE c = NoCell
        BY <2>2 DEF MoveTo
    <2>3. CASE c # NoCell
        <3>1. MoveTo(v, o, sites) = [v EXCEPT !.organisms[o].cell = c]
            BY <2>3 DEF MoveTo
        <3>2. c \in Cells /\ HasRoom(v, c)
            <4> HIDE DEF sites
            <4> QED BY <1>2, <2>1, <2>3, FirstRoomHelps
        <3> HIDE DEF c
        <3> QED BY <2>1, <3>1, <3>2, ShiftStays
    <2> QED BY <2>2, <2>3
<1>4. PICK v \in S : ApplyMigrate(w, m) = CoolDown(v, "migrate", m.clade, Rules.cooldown_epochs)
    <2> HIDE DEF S, sites, near
    <2>1. near = members_near(w, m.clade, m.from, Rules.migrate_radius) /\ sites = square(m.at, 1)
        BY DEF near, sites
    <2> QED BY <1>1, <1>3, <2>1, MigrateKeeps
<1>5. Sound(v) /\ SameGround(w, v) /\ SameMarks(w, v)
    BY DEF Shifted, Sound, AllLive
<1>6. SameHarms(w, v) /\ RestsOn(w, v)
    BY <1>5, SameMarksRest
<1>7. "migrate" \in CooldownKinds /\ m.clade \in Nat \cup (Nat \X Nat)
      /\ Rules.cooldown_epochs \in Nat
    BY RulesAssumption DEF CooldownKinds, Unsigned
<1> DEFINE u == CoolDown(v, "migrate", m.clade, Rules.cooldown_epochs)
<1>8. Sound(u) /\ SameGround(v, u) /\ SameHarms(v, u) /\ RestsOn(v, u)
    BY <1>5, <1>7, CoolDownWorks
<1> HIDE DEF u
<1>9. ApplyMigrate(w, m) = u
    BY <1>4 DEF u
<1> QED BY <1>5, <1>6, <1>8, <1>9, ChainedWork

\* A founding by a miracle.
LEMMA FoundingWorks ==
    ASSUME NEW w, Sound(w), NEW count \in Nat, NEW sites \in SUBSET Cells,
           NEW parent \in Nat, NEW second \in Nat
    PROVE  LET u == Founded(w, PlaceAll(w, w.nextClade, count, sites), parent, second)
           IN Sound(u) /\ SameGround(w, u) /\ SameMarks(w, u)
<1> DEFINE S == Placed(w, w.nextClade)
           c == w.nextClade
           v == PlaceAll(w, c, count, sites)
<1>1. c \in Nat
    BY WorldRecord DEF Sound
<1>2. w \in S
    BY NobodyPlaced
<1>3. \A x \in S : PlaceOne(x, c, sites) \in S
    BY <1>1, PlaceOnePlaced
<1>4. v \in S
    <2> HIDE DEF S, c
    <2> QED BY <1>2, <1>3, PlaceAllKeeps
<1> HIDE DEF v
<1>5. /\ Sound(Founded(w, v, parent, second)) /\ SameGround(w, Founded(w, v, parent, second))
      /\ SameMarks(w, Founded(w, v, parent, second))
    BY <1>4, FoundedKeeps
<1> QED BY <1>5 DEF v

\* A revival.
LEMMA RevivalWorks ==
    ASSUME NEW w, Sound(w), NEW m, m.entry \in Nat
    PROVE  /\ Sound(ApplyRevive(w, m)) /\ SameGround(w, ApplyRevive(w, m))
           /\ SameHarms(w, ApplyRevive(w, m)) /\ RestsOn(w, ApplyRevive(w, m))
<1> DEFINE parent == IF m.museum THEN m.entry ELSE 0
           kind == IF m.museum THEN "museum" ELSE "spore"
           v == Founded(w, PlaceAll(w, w.nextClade, Rules.revive_count, square(m.at, 1)), parent, 0)
           u == CoolDown(v, kind, m.entry, Rules.epochs_per_day)
<1>1. ApplyRevive(w, m) = u
    BY DEF ApplyRevive
<1>2. parent \in Nat /\ kind \in CooldownKinds /\ m.entry \in Nat \cup (Nat \X Nat)
    BY DEF CooldownKinds
<1>3. Rules.revive_count \in Nat /\ Rules.epochs_per_day \in Nat
    BY RulesAssumption DEF Unsigned, ValidRules
<1>4. square(m.at, 1) \in SUBSET Cells
    BY DEF square
<1> HIDE DEF parent, kind
<1>5. Sound(v) /\ SameGround(w, v) /\ SameMarks(w, v)
    BY <1>2, <1>3, <1>4, FoundingWorks
<1> HIDE DEF v
<1>6. Sound(u) /\ SameGround(v, u) /\ SameHarms(v, u) /\ RestsOn(v, u)
    BY <1>2, <1>3, <1>5, CoolDownWorks
<1>7. SameHarms(w, v) /\ RestsOn(w, v)
    BY <1>5, SameMarksRest
<1> HIDE DEF u
<1> QED BY <1>1, <1>5, <1>6, <1>7, ChainedWork

\* An effect on a clade: one more in the list.
LEMMA EffectAdded ==
    ASSUME NEW w, Sound(w), NEW kind \in CladeActions, NEW c \in Nat, NEW center \in Cells,
           NEW ticks \in Nat
    PROVE  LET v == AddCladeEffect(w, kind, c, center, ticks)
           IN /\ Sound(v) /\ SameGround(w, v) /\ v.cooldowns = w.cooldowns
              /\ DOMAIN w.cladeEffects = 1..Len(w.cladeEffects) /\ Len(w.cladeEffects) \in Nat
              /\ DOMAIN v.cladeEffects = 1..(Len(w.cladeEffects) + 1)
              /\ \A i \in DOMAIN w.cladeEffects : v.cladeEffects[i] = w.cladeEffects[i]
              /\ v.cladeEffects[Len(w.cladeEffects) + 1]
                     = [kind |-> kind, clade |-> c, center |-> center, left |-> ticks]
<1> DEFINE v == AddCladeEffect(w, kind, c, center, ticks)
           one == [kind |-> kind, clade |-> c, center |-> center, left |-> ticks]
           n == Len(w.cladeEffects)
<1>1. w \in Worlds /\ w.cladeEffects \in Seq(CladeEffect)
    BY WorldRecord DEF Sound
<1>2. one \in CladeEffect
    BY DEF CladeEffect
<1>3. v = [w EXCEPT !.cladeEffects = Append(w.cladeEffects, one)]
    BY <1>1 DEF AddCladeEffect, Worlds
<1> HIDE DEF one, v
<1>4. Append(w.cladeEffects, one) \in Seq(CladeEffect)
    BY <1>1, <1>2
<1>5. /\ v \in Worlds /\ SameGround(w, v) /\ SameLife(w, v) /\ v.cooldowns = w.cooldowns
      /\ v.cladeEffects = Append(w.cladeEffects, one)
    BY <1>1, <1>3, <1>4 DEF Worlds, SameGround, SameLife
<1>6. Sound(v)
    BY <1>5, SoundStays
<1>7. /\ n \in Nat /\ DOMAIN w.cladeEffects = 1..n /\ DOMAIN v.cladeEffects = 1..(n + 1)
      /\ \A i \in 1..n : v.cladeEffects[i] = w.cladeEffects[i]
      /\ v.cladeEffects[n + 1] = one
    BY <1>1, <1>2, <1>5
<1> QED BY <1>5, <1>6, <1>7 DEF v, one

\* What eases a clade, or cures it, does not count as a harm.
LEMMA EasingWorks ==
    ASSUME NEW w, Sound(w), NEW kind \in CladeActions, ~is_harm(kind), NEW c \in Nat,
           NEW center \in Cells, NEW ticks \in Nat
    PROVE  LET v == AddCladeEffect(w, kind, c, center, ticks)
           IN Sound(v) /\ SameGround(w, v) /\ SameHarms(w, v) /\ RestsOn(w, v)
<1> DEFINE v == AddCladeEffect(w, kind, c, center, ticks)
           n == Len(w.cladeEffects)
<1>1. /\ Sound(v) /\ SameGround(w, v) /\ v.cooldowns = w.cooldowns
      /\ DOMAIN w.cladeEffects = 1..n /\ n \in Nat
      /\ DOMAIN v.cladeEffects = 1..(n + 1)
      /\ \A i \in DOMAIN w.cladeEffects : v.cladeEffects[i] = w.cladeEffects[i]
      /\ v.cladeEffects[n + 1] = [kind |-> kind, clade |-> c, center |-> center, left |-> ticks]
    BY EffectAdded
<1> HIDE DEF v
<1>2. v.cladeEffects[n + 1].kind = kind
    BY <1>1
<1>3. Harms(v) = Harms(w)
    <2>1. \A i \in 1..(n + 1) : i \in 1..n \/ i = n + 1
        BY <1>1
    <2>2. \A i \in 1..n : i \in 1..(n + 1)
        BY <1>1
    <2> QED BY <1>1, <1>2, <2>1, <2>2 DEF Harms
<1>4. SameHarms(w, v)
    BY <1>1, <1>3 DEF SameHarms, Harms
<1>5. RestsOn(w, v)
    BY <1>1 DEF RestsOn, RestsUntil
<1> QED BY <1>1, <1>4, <1>5 DEF v

\* A cross.
LEMMA CrossingWorks ==
    ASSUME NEW w, Sound(w), NEW m, m.clade \in Nat, m.other \in Nat, m.at \in Cells
    PROVE  /\ Sound(ApplyHybrid(w, m)) /\ SameGround(w, ApplyHybrid(w, m))
           /\ SameHarms(w, ApplyHybrid(w, m)) /\ RestsOn(w, ApplyHybrid(w, m))
<1> DEFINE x == PlaceAll(w, w.nextClade, Rules.hybrid_count, square(m.at, 1))
           v == Founded(w, x, m.clade, m.other)
           vigor == x # w /\ Rules.hybrid_vigor_ticks > 0
           e == AddCladeEffect(v, "forage", w.nextClade, m.at, Rules.hybrid_vigor_ticks)
           y == IF vigor THEN e ELSE v
           key == pair_key(m.clade, m.other)
           u == CoolDown(y, "hybrid", key, Rules.hybrid_cooldown_epochs)
<1>1. ApplyHybrid(w, m) = u
    BY DEF ApplyHybrid
<1>2. /\ Rules.hybrid_count \in Nat /\ Rules.hybrid_vigor_ticks \in Nat
      /\ Rules.hybrid_cooldown_epochs \in Nat
    <2>1. Rules.hybrid_count \in Nat
        BY RulesAssumption DEF ValidPatrons
    <2>2. Rules.hybrid_vigor_ticks \in Nat /\ Rules.hybrid_cooldown_epochs \in Nat
        BY RulesAssumption DEF Unsigned
    <2> QED BY <2>1, <2>2
<1>3. square(m.at, 1) \in SUBSET Cells
    BY DEF square
<1>4. Sound(v) /\ SameGround(w, v) /\ SameMarks(w, v)
    BY <1>2, <1>3, FoundingWorks
<1>5. SameHarms(w, v) /\ RestsOn(w, v)
    BY <1>4, SameMarksRest
<1>6. w.nextClade \in Nat
    BY WorldRecord DEF Sound
<1> HIDE DEF v, vigor
<1>7. Sound(e) /\ SameGround(v, e) /\ SameHarms(v, e) /\ RestsOn(v, e)
    <2>1. "forage" \in CladeActions /\ ~is_harm("forage")
        BY DEF CladeActions, Easing, is_harm, Harm
    <2> QED BY <1>2, <1>4, <1>6, <2>1, EasingWorks
<1> HIDE DEF e
<1>8. Sound(y) /\ SameGround(w, y) /\ SameHarms(w, y) /\ RestsOn(w, y)
    <2>1. CASE vigor
        <3>1. y = e
            BY <2>1
        <3> QED BY <1>4, <1>5, <1>7, <3>1, ChainedWork
    <2>2. CASE ~vigor
        BY <1>4, <1>5, <2>2
    <2> QED BY <2>1, <2>2
<1>9. "hybrid" \in CooldownKinds /\ key \in Nat \cup (Nat \X Nat)
    BY DEF CooldownKinds, pair_key
<1> HIDE DEF y, key
<1>10. Sound(u) /\ SameGround(y, u) /\ SameHarms(y, u) /\ RestsOn(y, u)
    BY <1>2, <1>8, <1>9, CoolDownWorks
<1> HIDE DEF u
<1> QED BY <1>1, <1>8, <1>10, ChainedWork

\* A harm: the clade had its rest, and rests again from its end on.
LEMMA HarmWorks ==
    ASSUME NEW w, NEW ends \in Table(Nat), NEW v \in Worked(w, ends),
           NEW kind \in CladeActions, is_harm(kind), NEW c \in Nat, NEW center \in Cells,
           ~CoolingKey(v, "respite", c)
    PROVE  CoolDown(AddCladeEffect(v, kind, c, center, Rules.effect_ticks), "respite", c,
                    CeilDiv(Rules.effect_ticks, Rules.ticks_per_epoch)
                        + Rules.harm_respite_epochs) \in Worked(w, ends)
<1> DEFINE E == Rules.effect_ticks
           T == Rules.ticks_per_epoch
           R == Rules.harm_respite_epochs
           n == Len(v.cladeEffects)
           x == AddCladeEffect(v, kind, c, center, E)
           u == CoolDown(x, "respite", c, CeilDiv(E, T) + R)
<1>1. /\ Sound(v) /\ v \in Worlds /\ SameGround(w, v) /\ Resting(v, 0, ends)
      /\ \A i \in Harms(v) : Allowed(w, ends, v.cladeEffects[i].clade)
      /\ v.epoch \in Nat
    BY WorldRecord DEF Worked
<1>2. /\ E \in Nat \ {0} /\ E \in Nat /\ T \in Nat \ {0} /\ R \in Nat
      /\ CeilDiv(E, T) = ((E - 1) \div T) + 1 /\ ((E - 1) \div T) \in Nat
      /\ CeilDiv(E, T) + R \in Nat
    <2>1. E \in Nat \ {0} /\ T \in Nat \ {0} /\ R \in Nat
        BY RulesAreNumbers
    <2> HIDE DEF E, T, R
    <2>2. E - 1 \in Nat
        BY <2>1
    <2>3. CeilDiv(E, T) = ((E - 1) \div T) + 1 /\ ((E - 1) \div T) \in Nat
        BY <2>1, <2>2, RoundedUp, OneEpochLater
    <2> QED BY <2>1, <2>3
<1> HIDE DEF E, T, R
<1>3. /\ Sound(x) /\ SameGround(v, x) /\ x.cooldowns = v.cooldowns
      /\ DOMAIN v.cladeEffects = 1..n /\ n \in Nat
      /\ DOMAIN x.cladeEffects = 1..(n + 1)
      /\ \A i \in DOMAIN v.cladeEffects : x.cladeEffects[i] = v.cladeEffects[i]
      /\ x.cladeEffects[n + 1] = [kind |-> kind, clade |-> c, center |-> center, left |-> E]
    <2>1. Sound(v) /\ E \in Nat
        BY <1>1, <1>2
    <2> QED BY <2>1, EffectAdded
<1> HIDE DEF x, n
<1>4. /\ x \in Worlds
      /\ "respite" \in CooldownKinds /\ c \in Nat \cup (Nat \X Nat)
    BY <1>3 DEF Sound, CooldownKinds
<1>5. /\ Sound(u) /\ SameGround(x, u) /\ SameHarms(x, u) /\ RestsOn(x, u)
    BY <1>2, <1>3, <1>4, CoolDownWorks
<1>6. /\ u.cladeEffects = x.cladeEffects
      /\ u.cooldowns = Append(x.cooldowns, [kind |-> "respite", key |-> c,
                                            until |-> x.epoch + (CeilDiv(E, T) + R)])
    BY <1>2, <1>4, CoolDownType
<1> HIDE DEF u
<1>7. u \in Worlds /\ u.epoch = v.epoch /\ SameGround(w, u)
    BY <1>1, <1>3, <1>5 DEF SameGround, Sound
\* The rest of the new harm.
<1>8. \A e : v.epoch + (CeilDiv(E, T) + R) >= e => RestsUntil(u, c, e)
    <2> DEFINE one == [kind |-> "respite", key |-> c, until |-> x.epoch + (CeilDiv(E, T) + R)]
    <2>1. one.kind = "respite" /\ one.key = c /\ one.until = v.epoch + (CeilDiv(E, T) + R)
        BY <1>3 DEF SameGround
    <2>2. u.cooldowns = Append(x.cooldowns, one)
        BY <1>6
    <2> HIDE DEF one
    <2>3. one.kind = "respite" => \A e : one.until >= e => RestsUntil(u, one.key, e)
        BY <1>4, <2>2, CooldownsRest
    <2> QED BY <2>1, <2>3
\* The other harms are of other clades.
<1>9. \A e \in Nat : e > v.epoch => ~RestsUntil(v, c, e)
    <2> SUFFICES ASSUME NEW e \in Nat, e > v.epoch, RestsUntil(v, c, e) PROVE FALSE
        OBVIOUS
    <2>1. PICK k \in DOMAIN v.cooldowns : /\ v.cooldowns[k].kind = "respite"
                                          /\ v.cooldowns[k].key = c /\ v.cooldowns[k].until >= e
        BY DEF RestsUntil
    <2>2. v.cooldowns[k].until \in Nat
        <3>1. v.cooldowns \in Seq(Cooldown)
            BY <1>1, WorldRecord
        <3>2. v.cooldowns[k] \in Cooldown
            BY <3>1
        <3> QED BY <3>2 DEF Cooldown
    <2>3. v.cooldowns[k].until > v.epoch
        BY <1>1, <2>1, <2>2
    <2> QED BY <2>1, <2>3 DEF CoolingKey, cooling
<1>10. ASSUME NEW i \in Harms(v)
       PROVE  /\ v.cladeEffects[i].clade # c /\ v.cladeEffects[i].left >= 1
              /\ RestsUntil(v, v.cladeEffects[i].clade, RunsOut(v, 0, i) + 1 + R)
              /\ RunsOut(v, 0, i) + 1 + R \in Nat /\ RunsOut(v, 0, i) + 1 + R > v.epoch
    <2>1. /\ v.cladeEffects[i].left >= 1
          /\ RestsUntil(v, v.cladeEffects[i].clade, RunsOut(v, 0, i) + 1 + R)
        BY <1>1 DEF Resting, HarmedRest, R
    <2>2. RunsOut(v, 0, i) \in Nat /\ RunsOut(v, 0, i) >= v.epoch
        BY <1>1, <2>1, HarmTypes
    <2>3. RunsOut(v, 0, i) + 1 + R \in Nat /\ RunsOut(v, 0, i) + 1 + R > v.epoch
        BY <1>1, <1>2, <2>2
    <2> QED BY <1>9, <2>1, <2>3
<1>11. Allowed(w, ends, c)
    <2> SUFFICES ASSUME c \in DOMAIN ends PROVE w.epoch >= ends[c] + 1 + R
        BY DEF Allowed, R
    <2> DEFINE e == ends[c] + 1 + R
    <2>1. RestsUntil(v, c, e) \/ v.epoch >= e
        BY <1>1 DEF Resting, HealedRest, R
    <2>2. e \in Nat
        <3>1. ends[c] \in Nat
            BY OfTable
        <3> QED BY <1>2, <3>1
    <2> HIDE DEF e
    <2>3. v.epoch >= e
        BY <1>1, <1>9, <2>1, <2>2
    <2> QED BY <1>1, <2>3 DEF SameGround, e
<1>12. /\ Harms(u) = Harms(v) \cup {n + 1} /\ n + 1 \notin Harms(v)
       /\ \A i \in Harms(v) : u.cladeEffects[i] = v.cladeEffects[i]
       /\ u.cladeEffects[n + 1].clade = c /\ u.cladeEffects[n + 1].left = E
    <2>1. \A i \in 1..(n + 1) : i \in 1..n \/ i = n + 1
        BY <1>3
    <2>2. n + 1 \notin 1..n /\ n + 1 \in 1..(n + 1) /\ \A i \in 1..n : i \in 1..(n + 1)
        BY <1>3
    <2>3. u.cladeEffects[n + 1] = [kind |-> kind, clade |-> c, center |-> center, left |-> E]
        BY <1>3, <1>6
    <2>4. u.cladeEffects[n + 1].kind = kind /\ u.cladeEffects[n + 1].clade = c
          /\ u.cladeEffects[n + 1].left = E
        BY <2>3
    <2>5. DOMAIN u.cladeEffects = 1..(n + 1) /\ \A i \in 1..n : u.cladeEffects[i] = v.cladeEffects[i]
        BY <1>3, <1>6
    <2>6. Harms(v) = {i \in 1..n : is_harm(v.cladeEffects[i].kind)}
        BY <1>3 DEF Harms
    <2>7. Harms(u) = {i \in 1..(n + 1) : is_harm(u.cladeEffects[i].kind)}
        BY <2>5 DEF Harms
    <2> QED BY <2>1, <2>2, <2>4, <2>5, <2>6, <2>7
<1>13. OneHarm(u)
    BY <1>1, <1>10, <1>12 DEF OneHarm, Resting
<1>14. RestsOn(v, u)
    <2>1. RestsOn(v, x)
        BY <1>3 DEF RestsOn, RestsUntil
    <2> QED BY <1>3, <1>5, <2>1 DEF RestsOn, SameGround
<1>15. HarmedRest(u, 0)
    <2> SUFFICES ASSUME NEW i \in Harms(u)
                 PROVE  /\ u.cladeEffects[i].left >= 1
                        /\ RestsUntil(u, u.cladeEffects[i].clade, RunsOut(u, 0, i) + 1 + R)
        BY DEF HarmedRest, R
    <2>1. CASE i \in Harms(v)
        <3>1. RunsOut(u, 0, i) = RunsOut(v, 0, i)
            BY <1>7, <1>12, <2>1 DEF RunsOut
        <3>2. RestsUntil(u, v.cladeEffects[i].clade, RunsOut(v, 0, i) + 1 + R)
            BY <1>10, <1>14, <2>1 DEF RestsOn
        <3> QED BY <1>10, <1>12, <2>1, <3>1, <3>2
    <2>2. CASE i = n + 1
        <3>1. RunsOut(u, 0, i) = v.epoch + ((E - 1) \div T)
            <4>1. 0 + u.cladeEffects[i].left - 1 = E - 1
                BY <1>2, <1>12, <2>2
            <4> QED BY <1>7, <4>1 DEF RunsOut, T
        <3>2. v.epoch + (CeilDiv(E, T) + R) >= RunsOut(u, 0, i) + 1 + R
            BY <1>1, <1>2, <3>1
        <3>3. RestsUntil(u, c, RunsOut(u, 0, i) + 1 + R)
            BY <1>8, <3>2
        <3>4. E >= 1
            BY <1>2
        <3> QED BY <1>12, <2>2, <3>3, <3>4
    <2> QED BY <1>12, <2>1, <2>2
<1>16. HealedRest(u, ends)
    <2> SUFFICES ASSUME NEW d \in DOMAIN ends
                 PROVE  RestsUntil(u, d, ends[d] + 1 + R) \/ u.epoch >= ends[d] + 1 + R
        BY DEF HealedRest, R
    <2> DEFINE e == ends[d] + 1 + R
    <2>1. RestsUntil(v, d, e) \/ v.epoch >= e
        BY <1>1 DEF Resting, HealedRest, R
    <2>2. e \in Nat
        <3>1. ends[d] \in Nat
            BY OfTable
        <3> QED BY <1>2, <3>1
    <2> HIDE DEF e
    <2>3. RestsUntil(u, d, e) \/ u.epoch >= e
        BY <1>1, <1>7, <1>14, <2>1, <2>2 DEF RestsOn
    <2> QED BY <2>3 DEF e
<1>17. \A i \in Harms(u) : Allowed(w, ends, u.cladeEffects[i].clade)
    BY <1>1, <1>11, <1>12
<1>18. u \in Worked(w, ends)
    BY <1>5, <1>7, <1>13, <1>15, <1>16, <1>17 DEF Worked, Resting
<1> QED BY <1>18 DEF u, x, E, T, R

\* A patron's action.
LEMMA PatronsWork ==
    ASSUME NEW w, NEW ends \in Table(Nat), NEW v \in Worked(w, ends), NEW m,
           m.kind \in CladeActions, m.clade \in Nat, CheckClade(v, m) = OK
    PROVE  ApplyClade(v, m) \in Worked(w, ends)
<1> DEFINE ticks == IF m.kind = "cure" THEN Rules.cure_ticks ELSE Rules.effect_ticks
           x == AddCladeEffect(v, m.kind, m.clade, m.at, ticks)
<1>1. Sound(v)
    BY DEF Worked
<1>2. m.at \in Cells /\ (is_harm(m.kind) => ~CoolingKey(v, "respite", m.clade))
    BY CheckedClade
<1>3. /\ ticks \in Nat /\ Rules.cure_cooldown_epochs \in Nat /\ Rules.gift_cooldown_epochs \in Nat
    <2>1. Rules.cure_ticks \in Nat /\ Rules.effect_ticks \in Nat
        BY RulesAssumption
    <2>2. Rules.cure_cooldown_epochs \in Nat /\ Rules.gift_cooldown_epochs \in Nat
        BY RulesAssumption DEF Unsigned
    <2> QED BY <2>1, <2>2
<1>4. /\ "cure" \in CooldownKinds /\ "gift" \in CooldownKinds
      /\ m.clade \in Nat \cup (Nat \X Nat)
    BY DEF CooldownKinds
<1>5. CASE is_harm(m.kind)
    <2>1. m.kind # "cure" /\ m.kind # "gift"
        BY <1>5 DEF is_harm, Harm
    <2>2. ApplyClade(v, m) =
              CoolDown(AddCladeEffect(v, m.kind, m.clade, m.at, Rules.effect_ticks), "respite",
                       m.clade, CeilDiv(Rules.effect_ticks, Rules.ticks_per_epoch)
                                    + Rules.harm_respite_epochs)
        BY <1>5, <2>1 DEF ApplyClade, Respite
    <2> QED BY <1>2, <1>5, <2>2, HarmWorks
<1>6. CASE ~is_harm(m.kind)
    <2> HIDE DEF ticks
    <2>1. Sound(x) /\ SameGround(v, x) /\ SameHarms(v, x) /\ RestsOn(v, x)
        BY <1>1, <1>2, <1>3, <1>6, EasingWorks
    <2> DEFINE cured == CoolDown(x, "cure", m.clade, Rules.cure_cooldown_epochs)
               gifted == CoolDown(v, "gift", m.clade, Rules.gift_cooldown_epochs)
    <2>2. ApplyClade(v, m) = IF m.kind = "cure" THEN cured
                             ELSE IF m.kind = "gift" THEN gifted ELSE x
        BY <1>6 DEF ApplyClade, ticks
    <2> HIDE DEF x
    <2>3. Sound(cured) /\ SameGround(x, cured) /\ SameHarms(x, cured) /\ RestsOn(x, cured)
        BY <1>3, <1>4, <2>1, CoolDownWorks
    <2>4. Sound(gifted) /\ SameGround(v, gifted) /\ SameHarms(v, gifted) /\ RestsOn(v, gifted)
        BY <1>1, <1>3, <1>4, CoolDownWorks
    <2> HIDE DEF cured, gifted
    <2>5. SameGround(v, cured) /\ SameHarms(v, cured) /\ RestsOn(v, cured)
        BY <2>1, <2>3, ChainedWork
    <2>6. x \in Worked(w, ends) /\ cured \in Worked(w, ends) /\ gifted \in Worked(w, ends)
        BY <2>1, <2>3, <2>4, <2>5, WorkGoesOn
    <2> QED BY <2>2, <2>6
<1> QED BY <1>5, <1>6

\* The cooldowns that are over are dropped.
LEMMA DroppedWorks ==
    ASSUME NEW w, Sound(w)
    PROVE  Sound(Dropped(w)) /\ SameGround(w, Dropped(w)) /\ SameHarms(w, Dropped(w))
           /\ RestsOn(w, Dropped(w))
<1> DEFINE list == w.cooldowns
           places == {i \in DOMAIN list : list[i].until > w.epoch}
           kept == Picked(list, places)
           v == Dropped(w)
<1>1. w \in Worlds /\ list \in Seq(Cooldown) /\ w.epoch \in Nat
    BY WorldRecord DEF Sound
<1>2. v = [w EXCEPT !.cooldowns = kept]
    BY <1>1 DEF Dropped, Worlds
<1>3. places \in SUBSET DOMAIN list
    OBVIOUS
<1>4. \A k \in DOMAIN list : list[k].until > w.epoch => k \in places
    OBVIOUS
<1>5. \A k \in DOMAIN list : list[k].until \in Nat
    <2>1. \A k \in DOMAIN list : list[k] \in Cooldown
        BY <1>1
    <2> QED BY <2>1 DEF Cooldown
<1> HIDE DEF places, list
<1>6. /\ kept \in Seq(Cooldown) /\ Len(kept) = Cardinality(places)
      /\ \A j \in places : \E i \in 1..Cardinality(places) : kept[i] = list[j]
    BY <1>1, <1>3, PickedLists
<1>7. DOMAIN kept = 1..Cardinality(places)
    BY <1>6
<1> HIDE DEF kept, v
<1>8. /\ v \in Worlds /\ SameGround(w, v) /\ SameLife(w, v)
      /\ v.cladeEffects = w.cladeEffects /\ v.cooldowns = kept
    BY <1>1, <1>2, <1>6 DEF Worlds, SameGround, SameLife
<1>9. Sound(v)
    BY <1>8, SoundStays
<1>10. RestsOn(w, v)
    <2> SUFFICES ASSUME NEW c, NEW e \in Nat, e > w.epoch, RestsUntil(w, c, e)
                 PROVE  RestsUntil(v, c, e)
        BY DEF RestsOn
    <2>1. PICK k \in DOMAIN list : list[k].kind = "respite" /\ list[k].key = c /\ list[k].until >= e
        BY DEF RestsUntil, list
    <2>2. list[k].until > w.epoch
        BY <1>1, <1>5, <2>1
    <2>3. PICK i \in DOMAIN kept : kept[i] = list[k]
        BY <1>4, <1>6, <1>7, <2>2
    <2> QED BY <1>8, <2>1, <2>3 DEF RestsUntil
<1>11. SameHarms(w, v)
    BY <1>8 DEF SameHarms, Harms
<1> QED BY <1>8, <1>9, <1>10, <1>11 DEF v

\* To begin with nothing is worked, and cooldowns that are over are dropped.
LEMMA WorkBegins ==
    ASSUME NEW w, Sound(w), NEW ends \in Table(Nat), Resting(w, 0, ends)
    PROVE  w \in Worked(w, ends) /\ Dropped(w) \in Worked(w, ends)
<1>1. w \in Worked(w, ends)
    <2>1. \A i \in Harms(w) : Allowed(w, ends, w.cladeEffects[i].clade)
        BY DEF Allowed
    <2> QED BY <2>1 DEF Worked, Sound, SameGround
<1>2. Dropped(w) \in Worked(w, ends)
    BY <1>1, DroppedWorks, WorkGoesOn
<1> QED BY <1>1, <1>2

\* Every miracle of the list in its turn.
LEMMA MiraclesWork ==
    ASSUME NEW w, NEW ends \in Table(Nat), NEW v \in Worked(w, ends), NEW m, IsMiracle(m)
    PROVE  ApplyNext(v, m) \in Worked(w, ends)
<1>1. Sound(v)
    BY DEF Worked
<1>2. CASE check_wish(v, m) # OK
    BY <1>2 DEF ApplyNext
<1>3. CASE check_wish(v, m) = OK
    <2>1. ApplyNext(v, m) = apply_one(v, m)
        BY <1>3 DEF ApplyNext
    <2>2. check(v, m) = OK
        BY <1>3 DEF check_wish, OK
    <2> DEFINE u == apply_one(v, m)
    <2>3. CASE m.kind = "weather"
        <3>1. u = ApplyWeather(v, m) /\ CheckWeather(v, m) = OK
            BY <2>2, <2>3 DEF apply_one, check
        <3>2. m.at \in Cells
            BY <3>1, CheckedWeather
        <3> HIDE DEF u
        <3>3. Sound(u) /\ SameGround(v, u) /\ SameHarms(v, u) /\ RestsOn(v, u)
            BY <1>1, <3>1, <3>2, WeatherWorks
        <3> QED BY <2>1, <3>3, WorkGoesOn DEF u
    <2>4. CASE m.kind = "migrate"
        <3>1. u = ApplyMigrate(v, m)
            BY <2>4 DEF apply_one
        <3>2. m.clade \in Nat
            BY <2>4 DEF IsMiracle
        <3> HIDE DEF u
        <3>3. Sound(u) /\ SameGround(v, u) /\ SameHarms(v, u) /\ RestsOn(v, u)
            BY <1>1, <3>1, <3>2, MigrationWorks
        <3> QED BY <2>1, <3>3, WorkGoesOn DEF u
    <2>5. CASE m.kind = "revive"
        <3>1. u = ApplyRevive(v, m)
            BY <2>5 DEF apply_one
        <3>2. m.entry \in Nat
            BY <2>5 DEF IsMiracle
        <3> HIDE DEF u
        <3>3. Sound(u) /\ SameGround(v, u) /\ SameHarms(v, u) /\ RestsOn(v, u)
            BY <1>1, <3>1, <3>2, RevivalWorks
        <3> QED BY <2>1, <3>3, WorkGoesOn DEF u
    <2>6. CASE m.kind = "hybrid"
        <3>1. u = ApplyHybrid(v, m) /\ CheckHybrid(v, m) = OK
            BY <2>2, <2>6 DEF apply_one, check
        <3>2. m.clade \in Nat /\ m.other \in Nat
            BY <2>6 DEF IsMiracle
        <3>3. m.at \in Cells
            BY <3>1, CheckedHybrid
        <3> HIDE DEF u
        <3>4. Sound(u) /\ SameGround(v, u) /\ SameHarms(v, u) /\ RestsOn(v, u)
            BY <1>1, <3>1, <3>2, <3>3, CrossingWorks
        <3> QED BY <2>1, <3>4, WorkGoesOn DEF u
    <2>7. CASE m.kind \notin {"weather", "migrate", "revive", "hybrid"}
        <3>1. u = ApplyClade(v, m) /\ CheckClade(v, m) = OK
            BY <2>2, <2>7 DEF apply_one, check
        <3>2. m.kind \in CladeActions
            BY <2>7 DEF IsMiracle
        <3>3. m.clade \in Nat
            BY <3>2 DEF IsMiracle
        <3> HIDE DEF u
        <3>4. u \in Worked(w, ends)
            BY <3>1, <3>2, <3>3, PatronsWork
        <3> QED BY <2>1, <3>4 DEF u
    <2> QED BY <2>3, <2>4, <2>5, <2>6, <2>7
<1> QED BY <1>2, <1>3

\* All miracles of an epoch.
LEMMA ApplyWorks ==
    ASSUME NEW w, Sound(w), NEW ends \in Table(Nat), Resting(w, 0, ends),
           NEW chosen \in Seq(Wishes)
    PROVE  apply(w, chosen) \in Worked(w, ends)
<1> DEFINE S == Worked(w, ends)
<1>1. Dropped(w) \in S
    BY WorkBegins
<1>2. MiraclesStay(S, chosen)
    <2> SUFFICES ASSUME NEW v \in S, NEW i \in DOMAIN chosen PROVE ApplyNext(v, chosen[i]) \in S
        BY DEF MiraclesStay
    <2>1. IsMiracle(chosen[i])
        BY WorldAssumption
    <2> QED BY <2>1, MiraclesWork
<1> HIDE DEF S
<1>3. apply(w, chosen) \in S
    BY <1>1, <1>2, ApplyKeeps
<1> QED BY <1>3 DEF S

\* The weather that falls by itself.
Rained(w, ends) == {v \in Worked(w, ends) : v.organisms = w.organisms}

LEMMA FallWorks ==
    ASSUME NEW w, NEW ends \in Table(Nat)
    PROVE  WeatherStays(Rained(w, ends))
<1> DEFINE S == Rained(w, ends)
<1> SUFFICES ASSUME NEW V \in SUBSET S, NEW k \in 1..Len(Rules.weather_regions),
                    NEW u \in Fall(V, k)
             PROVE  u \in S
    BY DEF WeatherStays
<1>1. PICK v \in V : u \in WeatherIn(v, k)
    BY DEF Fall
<1>2. CASE u = v
    BY <1>2
<1>3. CASE u # v
    <2>1. PICK m : /\ m.kind = "weather" /\ m.at \in Rules.weather_regions[k]
                   /\ u = apply_one(v, m)
        BY <1>1, <1>3 DEF WeatherIn
    <2>2. Rules.weather_regions[k] \in SUBSET Cells
        BY RulesAssumption
    <2>3. u = ApplyWeather(v, m) /\ m.at \in Cells
        BY <2>1, <2>2 DEF apply_one
    <2>4. v \in Worked(w, ends) /\ Sound(v) /\ v.organisms = w.organisms
        BY DEF Worked, Rained
    <2>5. /\ Sound(u) /\ SameGround(v, u) /\ SameHarms(v, u) /\ RestsOn(v, u)
          /\ u.organisms = v.organisms
        BY <2>3, <2>4, WeatherWorks
    <2>6. u \in Worked(w, ends)
        BY <2>4, <2>5, WorkGoesOn
    <2> QED BY <2>4, <2>5, <2>6 DEF Rained
<1> QED BY <1>2, <1>3

\* The spore bank.
LEMMA SowingWorks ==
    ASSUME NEW w, NEW ends \in Table(Nat)
    PROVE  SowingStays(Worked(w, ends))
<1> DEFINE S == Worked(w, ends)
<1> SUFFICES ASSUME NEW V \in SUBSET S, NEW biome \in Biome, NEW u \in Sow(V, biome)
             PROVE  u \in S
    BY DEF SowingStays
<1>1. PICK v \in V : u \in Spores(v, biome)
    BY DEF Sow
<1>2. Sound(v)
    BY DEF Worked
<1> DEFINE P == Placed(v, v.nextClade)
<1>3. v \in P
    BY <1>2, NobodyPlaced
<1>4. SproutsStay(P, v, biome)
    BY <1>2, SproutsPlaced
<1>5. PICK x \in P : u = Founded(v, x, 0, 0)
    <2> HIDE DEF P
    <2> QED BY <1>1, <1>3, <1>4, SporesKeep
<1>6. Sound(u) /\ SameGround(v, u) /\ SameMarks(v, u)
    <2>1. x \in Placed(v, v.nextClade) /\ 0 \in Nat
        BY <1>5
    <2> HIDE DEF P
    <2> QED BY <1>2, <1>5, <2>1, FoundedKeeps
<1>7. SameHarms(v, u) /\ RestsOn(v, u)
    BY <1>6, SameMarksRest
<1> QED BY <1>6, <1>7, WorkGoesOn

\* A revival is written down.
LEMMA CountedWorks ==
    ASSUME NEW w, NEW ends \in Table(Nat), NEW v \in Worked(w, ends)
    PROVE  Counted(v) \in Worked(w, ends)
<1> DEFINE x == [v EXCEPT !.revivals = Append(@, v.epoch)]
           end == x.ended \/ Cardinality(Recent(x)) >= Rules.season_end_count
           u == Counted(v)
<1>1. Sound(v) /\ v \in Worlds /\ v.epoch \in Nat /\ v.revivals \in Seq(Nat)
    BY WorldRecord DEF Worked
<1>2. Append(v.revivals, v.epoch) \in Seq(Nat)
    BY <1>1
<1>3. x \in Worlds /\ SameGround(v, x) /\ SameMarks(v, x) /\ SameLife(v, x)
    BY <1>1, <1>2 DEF Worlds, SameGround, SameMarks, SameLife
<1>4. u = [x EXCEPT !.ended = end]
    BY DEF Counted
<1>5. end \in BOOLEAN
    BY Zenon
<1> HIDE DEF x, end, u
<1>6. u \in Worlds /\ SameGround(x, u) /\ SameMarks(x, u) /\ SameLife(x, u)
    BY <1>3, <1>4, <1>5 DEF Worlds, SameGround, SameMarks, SameLife
<1>7. SameGround(v, u) /\ SameMarks(v, u) /\ SameLife(v, u)
    BY <1>3, <1>6 DEF SameGround, SameMarks, SameLife
<1>8. Sound(u)
    BY <1>1, <1>6, <1>7, SoundStays
<1>9. SameHarms(v, u) /\ RestsOn(v, u)
    BY <1>7, SameMarksRest
<1> QED BY <1>7, <1>8, <1>9, WorkGoesOn DEF u

-----------------------------------------------------------------------------
(* The effects count down. *)

Shorter(x) == [x EXCEPT !.left = @ - 1]

\* Every effect that goes on is one of those before, a tick shorter.
Comes(list, short, from) ==
    /\ from \in [DOMAIN short -> DOMAIN list]
    /\ \A i \in DOMAIN short : short[i] = Shorter(list[from[i]]) /\ short[i].left > 0
    /\ \A i, j \in DOMAIN short : from[i] = from[j] => i = j

\* The countdown of a list of effects.
LEMMA CountedDown ==
    ASSUME NEW T, NEW list \in Seq(T),
           \A x \in T : Shorter(x) \in T /\ Shorter(x).left = x.left - 1
    PROVE  /\ CountDown(list) \in Seq(T)
           /\ \A j \in DOMAIN list : list[j].left - 1 > 0 =>
                  \E i \in DOMAIN CountDown(list) : CountDown(list)[i] = Shorter(list[j])
           /\ \E from : Comes(list, CountDown(list), from)
<1> DEFINE after == [i \in DOMAIN list |-> Shorter(list[i])]
           places == {i \in DOMAIN after : after[i].left > 0}
           n == Cardinality(places)
           c == CountDown(list)
<1>1. c = Picked(after, places)
    BY DEF CountDown, Shorter
<1>2. DOMAIN list = 1..Len(list) /\ Len(list) \in Nat /\ \A i \in DOMAIN list : list[i] \in T
    OBVIOUS
<1>3. DOMAIN after = DOMAIN list /\ \A i \in DOMAIN list : after[i] = Shorter(list[i])
    OBVIOUS
<1>4. \A i \in DOMAIN list : after[i] \in T /\ after[i].left = list[i].left - 1
    BY <1>2, <1>3
<1>5. after \in Seq(T)
    <2>1. after \in [1..Len(list) -> T]
        BY <1>2, <1>4
    <2> HIDE DEF after
    <2> QED BY <1>2, <2>1, SeqDef
<1>6. places \in SUBSET DOMAIN after /\ \A i \in places : after[i].left > 0
    OBVIOUS
<1>7. \A j \in DOMAIN list : list[j].left - 1 > 0 => j \in places
    BY <1>3, <1>4
<1> HIDE DEF after, places, c
<1>8. /\ n \in Nat /\ Picked(after, places) \in Seq(T) /\ Len(Picked(after, places)) = n
      /\ \A j \in places : \E i \in 1..n : Picked(after, places)[i] = after[j]
      /\ \E from : PicksFrom(after, places, from)
    BY <1>5, <1>6, PickedLists
<1>9. c \in Seq(T) /\ DOMAIN c = 1..n
    BY <1>1, <1>8
<1>10. \A j \in DOMAIN list : list[j].left - 1 > 0 =>
           \E i \in DOMAIN c : c[i] = Shorter(list[j])
    <2> SUFFICES ASSUME NEW j \in DOMAIN list, list[j].left - 1 > 0
                 PROVE  \E i \in DOMAIN c : c[i] = Shorter(list[j])
        OBVIOUS
    <2>1. j \in places
        BY <1>7
    <2>2. PICK i \in 1..n : Picked(after, places)[i] = after[j]
        BY <1>8, <2>1
    <2> QED BY <1>1, <1>3, <1>9, <2>2
<1>11. PICK from : PicksFrom(after, places, from)
    BY <1>8
<1>12. Comes(list, c, from)
    <2> HIDE DEF n
    <2>0. /\ from \in [1..n -> places]
          /\ \A i \in 1..n : Picked(after, places)[i] = after[from[i]]
          /\ \A i, j \in 1..n : from[i] = from[j] => i = j
        BY <1>11 DEF PicksFrom, n
    <2>1. \A i \in 1..n : from[i] \in places /\ from[i] \in DOMAIN list
        BY <1>3, <1>6, <2>0
    <2>2. from \in [1..n -> DOMAIN list]
        BY <2>0, <2>1
    <2>3. \A i \in 1..n : c[i] = after[from[i]] /\ after[from[i]] = Shorter(list[from[i]])
        BY <1>1, <1>3, <2>0, <2>1
    <2>4. \A i \in 1..n : c[i].left > 0
        BY <1>6, <2>1, <2>3
    <2> QED BY <1>9, <2>0, <2>2, <2>3, <2>4 DEF Comes
<1> QED BY <1>9, <1>10, <1>12 DEF c

\* Effects stay effects when their time goes down.
LEMMA ShorterEffects ==
    /\ \A x \in AreaEffect : Shorter(x) \in AreaEffect /\ Shorter(x).left = x.left - 1
    /\ \A x \in CladeEffect : /\ Shorter(x) \in CladeEffect /\ Shorter(x).left = x.left - 1
                              /\ Shorter(x).kind = x.kind /\ Shorter(x).clade = x.clade
<1>1. \A x \in AreaEffect : Shorter(x) \in AreaEffect /\ Shorter(x).left = x.left - 1
    BY DEF AreaEffect, Shorter
<1>2. \A x \in CladeEffect : /\ Shorter(x) \in CladeEffect /\ Shorter(x).left = x.left - 1
                             /\ Shorter(x).kind = x.kind /\ Shorter(x).clade = x.clade
    BY DEF CladeEffect, Shorter
<1> QED BY <1>1, <1>2

\* A tick later.
Aged(w) == [w EXCEPT !.effects = CountDown(@), !.cladeEffects = CountDown(@)]
Over(w) == HarmedNow(w) \ HarmedNow(Aged(w))
Ended(w, ends) == [c \in Over(w) \cup DOMAIN ends |-> IF c \in Over(w) THEN w.epoch ELSE ends[c]]

\* A tick of the countdown changes the effects only.
LEMMA AgedType ==
    ASSUME NEW w \in Worlds
    PROVE  /\ Aged(w) \in Worlds /\ SameGround(w, Aged(w)) /\ SameLife(w, Aged(w))
           /\ Aged(w).cooldowns = w.cooldowns
           /\ Aged(w).cladeEffects = CountDown(w.cladeEffects)
<1>1. w.effects \in Seq(AreaEffect) /\ w.cladeEffects \in Seq(CladeEffect)
    BY WorldRecord
<1>2. CountDown(w.effects) \in Seq(AreaEffect)
    BY <1>1, CountedDown, ShorterEffects
<1>3. CountDown(w.cladeEffects) \in Seq(CladeEffect)
    BY <1>1, CountedDown, ShorterEffects
<1>4. Aged(w) = [w EXCEPT !.effects = CountDown(w.effects),
                          !.cladeEffects = CountDown(w.cladeEffects)]
    BY DEF Aged, Worlds
<1> QED BY <1>2, <1>3, <1>4 DEF Worlds, SameGround, SameLife

\* The clades that a harm runs against.
LEMMA HarmedClades ==
    ASSUME NEW w \in Worlds
    PROVE  /\ HarmedNow(w) \in SUBSET Nat /\ IsFiniteSet(HarmedNow(w))
           /\ \A c : c \in HarmedNow(w) <=> \E i \in Harms(w) : w.cladeEffects[i].clade = c
<1>1. \A c : c \in HarmedNow(w) <=> \E i \in Harms(w) : w.cladeEffects[i].clade = c
    BY DEF HarmedNow, Harms
<1>2. \A i \in Harms(w) : w.cladeEffects[i].clade \in Nat
    <2>1. \A i \in Harms(w) : w.cladeEffects[i] \in CladeEffect
        BY WorldRecord DEF Harms
    <2> QED BY <2>1 DEF CladeEffect
<1>3. IsFiniteSet(Harms(w))
    <2>1. w.cladeEffects \in Seq(CladeEffect)
        BY WorldRecord
    <2>2. IsFiniteSet(1..Len(w.cladeEffects))
        BY <2>1, FS_Interval
    <2>3. Harms(w) \in SUBSET (1..Len(w.cladeEffects))
        BY <2>1 DEF Harms
    <2> QED BY <2>2, <2>3, FS_Subset
<1>4. IsFiniteSet(HarmedNow(w))
    <2> DEFINE f == [i \in Harms(w) |-> w.cladeEffects[i].clade]
    <2>1. f \in [Harms(w) -> HarmedNow(w)]
        BY <1>1
    <2>2. \A c \in HarmedNow(w) : \E i \in Harms(w) : f[i] = c
        BY <1>1
    <2> HIDE DEF f
    <2>3. f \in Surjection(Harms(w), HarmedNow(w))
        BY <2>1, <2>2 DEF Surjection
    <2> QED BY <1>3, <2>3, FS_Surjection
<1> QED BY <1>1, <1>2, <1>4

\* The harms that ran out are written down with the epoch.
LEMMA EndedType ==
    ASSUME NEW w \in Worlds, NEW ends \in Table(Nat)
    PROVE  /\ Ended(w, ends) \in Table(Nat) /\ DOMAIN Ended(w, ends) = Over(w) \cup DOMAIN ends
           /\ \A c \in Over(w) : Ended(w, ends)[c] = w.epoch
           /\ \A c \in DOMAIN ends \ Over(w) : Ended(w, ends)[c] = ends[c]
<1> DEFINE D == Over(w) \cup DOMAIN ends
           e == Ended(w, ends)
<1>1. /\ DOMAIN ends \in SUBSET Nat /\ IsFiniteSet(DOMAIN ends) /\ ends \in [DOMAIN ends -> Nat]
    BY OfTable
<1>2. Over(w) \in SUBSET HarmedNow(w)
    BY DEF Over
<1>3. Over(w) \in SUBSET Nat /\ IsFiniteSet(Over(w))
    BY <1>2, HarmedClades, FS_Subset
<1>4. D \in SUBSET Nat /\ IsFiniteSet(D)
    BY <1>1, <1>3, FS_Union
<1>5. w.epoch \in Nat
    BY WorldRecord
<1>6. e = [c \in D |-> IF c \in Over(w) THEN w.epoch ELSE ends[c]]
    BY DEF Ended
<1>7. e \in [D -> Nat]
    BY <1>1, <1>5, <1>6
<1>8. e \in Table(Nat)
    <2> HIDE DEF e, D
    <2> QED BY <1>4, <1>7, IsTable
<1> HIDE DEF e
<1> QED BY <1>6, <1>8 DEF e

\* A tick later the harms have run a tick shorter, and those that ran out
\* leave their clades at rest.
LEMMA AgingRests ==
    ASSUME NEW w \in Worlds, NEW ends \in Table(Nat), NEW past \in 0..(Rules.ticks_per_epoch - 1),
           Resting(w, past, ends)
    PROVE  Resting(Aged(w), past + 1, Ended(w, ends)) /\ HarmedNow(Aged(w)) \subseteq HarmedNow(w)
<1> DEFINE v == Aged(w)
           old == w.cladeEffects
           short == v.cladeEffects
           R == Rules.harm_respite_epochs
           T == Rules.ticks_per_epoch
           now == Ended(w, ends)
<1>1. /\ v \in Worlds /\ v.epoch = w.epoch /\ v.cooldowns = w.cooldowns
      /\ short = CountDown(old)
    BY AgedType DEF SameGround
<1>2. /\ \A j \in DOMAIN old : old[j].left - 1 > 0 =>
                  \E i \in DOMAIN short : short[i] = Shorter(old[j])
      /\ \E from : Comes(old, short, from)
    <2>1. old \in Seq(CladeEffect)
        BY WorldRecord
    <2> HIDE DEF v
    <2> QED BY <1>1, <2>1, CountedDown, ShorterEffects
<1>3. PICK from : Comes(old, short, from)
    BY <1>2
<1>4. \A c, e : RestsUntil(w, c, e) => RestsUntil(v, c, e)
    BY <1>1 DEF RestsUntil
<1>5. past \in Nat /\ past < T /\ T \in Nat \ {0} /\ R \in Nat /\ w.epoch \in Nat
    BY RulesAreNumbers, WorldRecord
<1> HIDE DEF v, R, T
<1>6. \A j \in DOMAIN old : old[j] \in CladeEffect
    BY WorldRecord
<1>7. ASSUME NEW i \in Harms(v)
      PROVE  /\ from[i] \in Harms(w) /\ short[i].clade = old[from[i]].clade
             /\ short[i].left = old[from[i]].left - 1 /\ short[i].left > 0
             /\ old[from[i]].left \in Int
    <2>1. i \in DOMAIN short /\ is_harm(short[i].kind)
        BY DEF Harms
    <2>2. from[i] \in DOMAIN old /\ short[i] = Shorter(old[from[i]]) /\ short[i].left > 0
        BY <1>3, <2>1 DEF Comes
    <2>3. old[from[i]] \in CladeEffect
        BY <1>6, <2>2
    <2>4. /\ short[i].left = old[from[i]].left - 1 /\ short[i].kind = old[from[i]].kind
          /\ short[i].clade = old[from[i]].clade /\ old[from[i]].left \in Int
        BY <2>2, <2>3, ShorterEffects DEF CladeEffect
    <2> QED BY <2>1, <2>2, <2>4 DEF Harms
<1>8. OneHarm(v)
    <2> SUFFICES ASSUME NEW i \in Harms(v), NEW j \in Harms(v), short[i].clade = short[j].clade
                 PROVE  i = j
        BY DEF OneHarm
    <2>1. /\ from[i] \in Harms(w) /\ from[j] \in Harms(w)
          /\ old[from[i]].clade = old[from[j]].clade
        BY <1>7
    <2>2. from[i] = from[j]
        BY <2>1 DEF Resting, OneHarm
    <2>3. i \in DOMAIN short /\ j \in DOMAIN short
        BY DEF Harms
    <2> QED BY <1>3, <2>2, <2>3 DEF Comes
<1>9. HarmedRest(v, past + 1)
    <2> SUFFICES ASSUME NEW i \in Harms(v)
                 PROVE  /\ short[i].left >= 1
                        /\ RestsUntil(v, short[i].clade, RunsOut(v, past + 1, i) + 1 + R)
        BY DEF HarmedRest, R
    <2> DEFINE j == from[i]
    <2>1. /\ j \in Harms(w) /\ short[i].clade = old[j].clade
          /\ short[i].left = old[j].left - 1 /\ short[i].left > 0 /\ old[j].left \in Int
        BY <1>7
    <2> HIDE DEF j
    <2>2. (past + 1) + short[i].left - 1 = past + old[j].left - 1 /\ short[i].left >= 1
        BY <1>5, <2>1
    <2>3. RunsOut(v, past + 1, i) = RunsOut(w, past, j)
        BY <1>1, <2>2 DEF RunsOut
    <2>4. RestsUntil(w, old[j].clade, RunsOut(w, past, j) + 1 + R)
        BY <2>1 DEF Resting, HarmedRest, R
    <2> QED BY <1>4, <2>1, <2>2, <2>3, <2>4
<1>10. ASSUME NEW c \in Over(w)
       PROVE  RestsUntil(v, c, w.epoch + 1 + R)
    <2>1. c \in HarmedNow(w) /\ c \notin HarmedNow(v)
        BY DEF Over, v
    <2>2. PICK j \in Harms(w) : old[j].clade = c
        BY <2>1, HarmedClades
    <2>3. j \in DOMAIN old /\ is_harm(old[j].kind) /\ old[j] \in CladeEffect
        BY <1>6 DEF Harms
    <2>4. old[j].left >= 1 /\ RestsUntil(w, c, RunsOut(w, past, j) + 1 + R)
        BY <2>2 DEF Resting, HarmedRest, R
    <2>5. ~(old[j].left - 1 > 0)
        <3> SUFFICES ASSUME old[j].left - 1 > 0 PROVE FALSE
            OBVIOUS
        <3>1. PICK i \in DOMAIN short : short[i] = Shorter(old[j])
            BY <1>2, <2>3
        <3>2. is_harm(short[i].kind) /\ short[i].clade = c
            BY <2>2, <2>3, <3>1, ShorterEffects
        <3>3. i \in Harms(v)
            BY <3>2 DEF Harms
        <3> QED BY <1>1, <2>1, <3>2, <3>3, HarmedClades
    <2>6. old[j].left = 1
        <3>1. old[j].left \in Int
            BY <2>3 DEF CladeEffect
        <3> QED BY <2>4, <2>5, <3>1
    <2>7. past + old[j].left - 1 = past /\ (past \div T) = 0
        BY <1>5, <2>6, OneEpochLater
    <2>8. RunsOut(w, past, j) = w.epoch
        BY <1>5, <2>7 DEF RunsOut, T
    <2> QED BY <1>4, <2>4, <2>8
<1>11. HealedRest(v, now)
    <2> SUFFICES ASSUME NEW c \in DOMAIN now
                 PROVE  RestsUntil(v, c, now[c] + 1 + R) \/ v.epoch >= now[c] + 1 + R
        BY DEF HealedRest, R
    <2>1. CASE c \in Over(w)
        BY <1>10, <2>1, EndedType
    <2>2. CASE c \notin Over(w)
        <3>1. c \in DOMAIN ends /\ now[c] = ends[c]
            BY <2>2, EndedType
        <3>2. RestsUntil(w, c, ends[c] + 1 + R) \/ w.epoch >= ends[c] + 1 + R
            BY <3>1 DEF Resting, HealedRest, R
        <3> HIDE DEF now
        <3> QED BY <1>1, <1>4, <3>1, <3>2
    <2> QED BY <2>1, <2>2
<1>12. HarmedNow(v) \subseteq HarmedNow(w)
    <2> SUFFICES ASSUME NEW c \in HarmedNow(v) PROVE c \in HarmedNow(w)
        OBVIOUS
    <2>1. PICK i \in Harms(v) : short[i].clade = c
        BY <1>1, HarmedClades
    <2>2. from[i] \in Harms(w) /\ old[from[i]].clade = c
        BY <1>7, <2>1
    <2> QED BY <2>2, HarmedClades
<1> QED BY <1>8, <1>9, <1>11, <1>12 DEF Resting, v

\* The epoch is over.
LEMMA TurningRests ==
    ASSUME NEW w \in Worlds, NEW v \in Worlds, NEW ends \in Table(Nat),
           Resting(w, Rules.ticks_per_epoch, ends), SameMarks(w, v), v.epoch = w.epoch + 1
    PROVE  Resting(v, 0, ends)
<1> DEFINE R == Rules.harm_respite_epochs
           T == Rules.ticks_per_epoch
<1>1. /\ Harms(v) = Harms(w) /\ v.cladeEffects = w.cladeEffects
      /\ \A c, e : RestsUntil(w, c, e) => RestsUntil(v, c, e)
    BY DEF SameMarks, Harms, RestsUntil
<1>2. T \in Nat \ {0} /\ R \in Nat /\ w.epoch \in Nat
    BY RulesAreNumbers, WorldRecord
<1>3. OneHarm(v)
    BY <1>1 DEF Resting, OneHarm
<1>4. HarmedRest(v, 0)
    <2> SUFFICES ASSUME NEW i \in Harms(w)
                 PROVE  /\ v.cladeEffects[i].left >= 1
                        /\ RestsUntil(v, v.cladeEffects[i].clade, RunsOut(v, 0, i) + 1 + R)
        BY <1>1 DEF HarmedRest
    <2> DEFINE left == w.cladeEffects[i].left
    <2>1. left >= 1 /\ RestsUntil(w, w.cladeEffects[i].clade, RunsOut(w, T, i) + 1 + R)
        BY DEF Resting, HarmedRest
    <2>2. left \in Nat
        BY <2>1, HarmTypes
    <2> HIDE DEF left, R, T
    <2>3. left - 1 \in Nat /\ T + left - 1 = (left - 1) + T /\ 0 + left - 1 = left - 1
        BY <1>2, <2>1, <2>2
    <2>4. ((left - 1) + T) \div T = ((left - 1) \div T) + 1 /\ ((left - 1) \div T) \in Nat
        BY <1>2, <2>3, OneEpochLater
    <2>5. RunsOut(w, T, i) = w.epoch + (((left - 1) \div T) + 1)
        BY <2>3, <2>4 DEF RunsOut, left, T
    <2>6. RunsOut(v, 0, i) = (w.epoch + 1) + ((left - 1) \div T)
        BY <1>1, <2>3 DEF RunsOut, left, T
    <2>7. RunsOut(v, 0, i) = RunsOut(w, T, i)
        BY <1>2, <2>4, <2>5, <2>6
    <2> QED BY <1>1, <2>1, <2>7 DEF left
<1>5. HealedRest(v, ends)
    <2> SUFFICES ASSUME NEW c \in DOMAIN ends
                 PROVE  RestsUntil(v, c, ends[c] + 1 + R) \/ v.epoch >= ends[c] + 1 + R
        BY DEF HealedRest
    <2>1. RestsUntil(w, c, ends[c] + 1 + R) \/ w.epoch >= ends[c] + 1 + R
        BY DEF Resting, HealedRest
    <2>2. ends[c] \in Nat
        BY OfTable
    <2> QED BY <1>1, <1>2, <2>1, <2>2
<1> QED BY <1>3, <1>4, <1>5 DEF Resting

-----------------------------------------------------------------------------
(* Births. *)

\* A new clade of a birth, with no members yet.
LEMMA SplitKeeps ==
    ASSUME NEW w \in Worlds, NEW living \in SUBSET DOMAIN w.organisms, Booked(w, living),
           NEW parent \in Nat
    PROVE  LET v == Split(w, parent)
           IN /\ v \in Worlds /\ SameGround(w, v) /\ SameMarks(w, v)
              /\ v.organisms = w.organisms /\ v.nextOrganism = w.nextOrganism
              /\ w.nextClade \in DOMAIN v.clades /\ Booked(v, living)
<1> DEFINE v == Split(w, parent)
           c == w.nextClade
           one == [parent |-> parent, second |-> 0, founded |-> w.epoch, living |-> 0, peak |-> 0]
           more == Put(w.clades, c, one)
<1>1. c \in Nat /\ w.epoch \in Nat /\ c + 1 \in Nat /\ w.clades \in Table(Clade)
      /\ DOMAIN w.clades \in SUBSET Nat
    BY WorldRecord, OfTable
<1>2. one \in Clade /\ one.living = 0 /\ one.peak = 0
    BY <1>1 DEF Clade
<1>3. c \notin DOMAIN w.clades
    BY <1>1 DEF Booked
<1> HIDE DEF one
<1>4. more \in Table(Clade)
    BY <1>1, <1>2, PutIntoTable
<1>5. /\ DOMAIN more = DOMAIN w.clades \cup {c} /\ more[c] = one
      /\ \A d \in DOMAIN w.clades : more[d] = w.clades[d]
    BY <1>3 DEF Put
<1>6. v = [w EXCEPT !.clades = more, !.nextClade = c + 1]
    BY DEF Split, one, Worlds
<1> HIDE DEF more, v
<1>7. /\ v \in Worlds /\ SameGround(w, v) /\ SameMarks(w, v)
      /\ v.organisms = w.organisms /\ v.nextOrganism = w.nextOrganism
      /\ v.clades = more /\ v.museum = w.museum /\ v.nextClade = c + 1
    BY <1>1, <1>4, <1>6 DEF Worlds, SameGround, SameMarks
<1>8. \A d : MembersIn(v, living, d) = MembersIn(w, living, d)
    BY <1>7 DEF MembersIn
<1>9. Cardinality(MembersIn(w, living, c)) = 0
    <2>1. \A o \in living : w.organisms[o].clade # c
        BY <1>3 DEF Booked
    <2>2. MembersIn(w, living, c) = {}
        BY <2>1 DEF MembersIn
    <2> QED BY <2>2, FS_EmptySet
<1>10. \A o \in DOMAIN v.organisms : o < v.nextOrganism /\ v.organisms[o].clade \in DOMAIN v.clades
    BY <1>5, <1>7 DEF Booked
<1>11. ASSUME NEW d \in DOMAIN more
       PROVE  /\ d < v.nextClade /\ more[d].living = Cardinality(MembersIn(v, living, d))
              /\ more[d].peak >= more[d].living
    <2>1. CASE d = c
        <3>1. more[d].living = 0 /\ more[d].peak = 0 /\ d < v.nextClade
            BY <1>1, <1>2, <1>5, <1>7, <2>1
        <3> QED BY <1>8, <1>9, <2>1, <3>1
    <2>2. CASE d # c
        <3>1. d \in DOMAIN w.clades /\ more[d] = w.clades[d]
            BY <1>5, <2>2
        <3>2. /\ d < c /\ w.clades[d].living = Cardinality(MembersIn(w, living, d))
              /\ w.clades[d].peak >= w.clades[d].living
            BY <3>1 DEF Booked
        <3>3. d < v.nextClade
            BY <1>1, <1>7, <3>1, <3>2
        <3> QED BY <1>8, <3>1, <3>2, <3>3
    <2> QED BY <2>1, <2>2
<1>12. \A i \in DOMAIN w.museum :
           w.museum[i].clade \notin DOMAIN more /\ w.museum[i].clade < c + 1
    <2> SUFFICES ASSUME NEW i \in DOMAIN w.museum
                 PROVE  w.museum[i].clade \notin DOMAIN more /\ w.museum[i].clade < c + 1
        OBVIOUS
    <2>1. w.museum[i].clade \notin DOMAIN w.clades /\ w.museum[i].clade < c
        BY DEF Booked
    <2>2. w.museum[i].clade \in Nat
        <3>1. w.museum[i] \in Exhibit
            BY WorldRecord
        <3> QED BY <3>1 DEF Exhibit
    <2>3. w.museum[i].clade # c /\ w.museum[i].clade < c + 1
        BY <1>1, <2>1, <2>2
    <2> QED BY <1>5, <2>1, <2>3
<1>13. \A i, j \in DOMAIN w.museum : i # j => w.museum[i].clade # w.museum[j].clade
    BY DEF Booked
<1>14. Booked(v, living)
    BY <1>7, <1>10, <1>11, <1>12, <1>13 DEF Booked
<1> QED BY <1>5, <1>7, <1>14 DEF v

\* A birth into a clade.
LEMMA JoinedKeeps ==
    ASSUME NEW w \in Worlds, NEW living \in SUBSET DOMAIN w.organisms, Booked(w, living),
           NEW c \in DOMAIN w.clades, NEW cell \in Cells
    PROVE  LET v == Born(Joined(w, c), c, cell)
           IN /\ v \in Worlds /\ SameGround(w, v) /\ SameMarks(w, v)
              /\ DOMAIN v.organisms = DOMAIN w.organisms \cup {w.nextOrganism}
              /\ w.nextOrganism \notin DOMAIN w.organisms
              /\ Booked(v, living \cup {w.nextOrganism})
              /\ /\ Fits(w, living)
                 /\ Cardinality(Standing(w, living, cell)) < Rules.max_per_cell
                 /\ Cardinality(living) < Rules.max_organisms
                 => Fits(v, living \cup {w.nextOrganism})
              /\ Dry(w, living) /\ Passable(w, cell) => Dry(v, living \cup {w.nextOrganism})
<1> DEFINE u == Joined(w, c)
           v == Born(u, c, cell)
           new == w.nextOrganism
           more == [w.clades EXCEPT ![c].living = @ + 1,
                                    ![c].peak = IF w.clades[c].living + 1 > @
                                                THEN w.clades[c].living + 1 ELSE @]
<1>1. /\ DOMAIN w.clades \in SUBSET Nat /\ IsFiniteSet(DOMAIN w.clades)
      /\ w.clades \in [DOMAIN w.clades -> Clade] /\ c \in Nat /\ w.clades[c] \in Clade
    BY WorldRecord, OfTable
<1>2. u = [w EXCEPT !.clades = more]
    BY DEF Joined, Worlds
<1>3. /\ more \in [DOMAIN w.clades -> Clade] /\ DOMAIN more = DOMAIN w.clades
      /\ more[c].living = w.clades[c].living + 1
      /\ (w.clades[c].peak >= w.clades[c].living => more[c].peak >= more[c].living)
      /\ \A d \in DOMAIN w.clades : d # c => more[d] = w.clades[d]
    BY <1>1 DEF Clade
<1> HIDE DEF more
<1>4. more \in Table(Clade)
    BY <1>1, <1>3, IsTable
<1>5. /\ u \in Worlds /\ SameGround(w, u) /\ SameMarks(w, u) /\ u.organisms = w.organisms
      /\ u.clades = more /\ u.museum = w.museum
      /\ u.nextOrganism = new /\ u.nextClade = w.nextClade
    BY <1>2, <1>4 DEF Worlds, SameGround, SameMarks
<1> HIDE DEF u
<1>6. \A o \in DOMAIN u.organisms : o < u.nextOrganism
    BY <1>5 DEF Booked
<1>7. /\ v \in Worlds /\ SameGround(u, v) /\ SameMarks(u, v)
      /\ v.clades = u.clades /\ v.museum = u.museum /\ v.nextClade = u.nextClade
      /\ v.nextOrganism = u.nextOrganism + 1
      /\ DOMAIN v.organisms = DOMAIN u.organisms \cup {u.nextOrganism}
      /\ \A o \in DOMAIN u.organisms : v.organisms[o] = u.organisms[o]
      /\ v.organisms[u.nextOrganism] = [clade |-> c, cell |-> cell]
      /\ \A left \in SUBSET DOMAIN u.organisms :
            /\ Fits(u, left)
            /\ Cardinality(Standing(u, left, cell)) < Rules.max_per_cell
            /\ Cardinality(left) < Rules.max_organisms
            => Fits(v, left \cup {u.nextOrganism})
      /\ \A left \in SUBSET DOMAIN u.organisms :
            Dry(u, left) /\ Passable(u, cell) => Dry(v, left \cup {u.nextOrganism})
    BY <1>1, <1>5, <1>6, BornKeeps
<1> HIDE DEF v
<1>8. /\ new \in Nat /\ \A o \in DOMAIN w.organisms : o \in Nat /\ o < new
    <2>1. DOMAIN w.organisms \in SUBSET Nat /\ new \in Nat
        BY WorldRecord, OfTable
    <2> QED BY <2>1 DEF Booked
<1>9. new \notin DOMAIN w.organisms /\ new \notin living
    BY <1>8
<1>10. MembersIn(v, living \cup {new}, c) = MembersIn(w, living, c) \cup {new}
    <2>1. v.organisms[new].clade = c
        BY <1>5, <1>7
    <2>2. \A o \in living : v.organisms[o] = w.organisms[o]
        BY <1>5, <1>7
    <2> QED BY <2>1, <2>2 DEF MembersIn
<1>11. \A d : d # c => MembersIn(v, living \cup {new}, d) = MembersIn(w, living, d)
    <2>1. v.organisms[new].clade = c
        BY <1>5, <1>7
    <2>2. \A o \in living : v.organisms[o] = w.organisms[o]
        BY <1>5, <1>7
    <2> QED BY <2>1, <2>2 DEF MembersIn
<1>12. Cardinality(MembersIn(v, living \cup {new}, c)) = Cardinality(MembersIn(w, living, c)) + 1
    <2> DEFINE M == MembersIn(w, living, c)
    <2>1. IsFiniteSet(M) /\ new \notin M
        BY <1>9, MembersAreFinite DEF MembersIn
    <2> HIDE DEF M, new
    <2>2. Cardinality(M \cup {new}) = Cardinality(M) + 1
        BY <2>1, FS_AddElement
    <2> QED BY <1>10, <2>2 DEF M
<1>13. ASSUME NEW d \in DOMAIN more
       PROVE  /\ d < v.nextClade
              /\ more[d].living = Cardinality(MembersIn(v, living \cup {new}, d))
              /\ more[d].peak >= more[d].living
    <2>1. /\ d \in DOMAIN w.clades /\ d < w.nextClade
          /\ w.clades[d].living = Cardinality(MembersIn(w, living, d))
          /\ w.clades[d].peak >= w.clades[d].living
        BY <1>3 DEF Booked
    <2>2. CASE d = c
        BY <1>3, <1>5, <1>7, <1>12, <2>1, <2>2
    <2>3. CASE d # c
        BY <1>3, <1>5, <1>7, <1>11, <2>1, <2>3
    <2> QED BY <2>2, <2>3
<1>14. ASSUME NEW o \in DOMAIN v.organisms
       PROVE  o < v.nextOrganism /\ v.organisms[o].clade \in DOMAIN more
    <2>1. CASE o \in DOMAIN w.organisms
        <3>1. w.organisms[o].clade \in DOMAIN w.clades
            BY <2>1 DEF Booked
        <3> QED BY <1>3, <1>5, <1>7, <1>8, <2>1, <3>1
    <2>2. CASE o = new
        BY <1>3, <1>5, <1>7, <1>8, <2>2
    <2> QED BY <1>5, <1>7, <2>1, <2>2
<1>15. Booked(v, living \cup {new})
    <2>1. /\ \A i \in DOMAIN v.museum :
                v.museum[i].clade \notin DOMAIN v.clades /\ v.museum[i].clade < v.nextClade
          /\ \A i, j \in DOMAIN v.museum : i # j => v.museum[i].clade # v.museum[j].clade
        BY <1>3, <1>5, <1>7 DEF Booked
    <2>2. v.clades = more
        BY <1>5, <1>7
    <2> QED BY <1>13, <1>14, <2>1, <2>2 DEF Booked
<1>16. Fits(w, living) => Fits(u, living)
    <2>1. \A o \in living : u.organisms[o] = w.organisms[o]
        BY <1>5
    <2>2. living \in SUBSET living
        OBVIOUS
    <2> QED BY <2>1, <2>2, FewerFit
<1>17. Standing(u, living, cell) = Standing(w, living, cell)
    BY <1>5 DEF Standing
<1>18. /\ Fits(w, living) /\ Cardinality(Standing(w, living, cell)) < Rules.max_per_cell
       /\ Cardinality(living) < Rules.max_organisms
       => Fits(v, living \cup {new})
    BY <1>5, <1>7, <1>16, <1>17
<1>19. Dry(w, living) /\ Passable(w, cell) => Dry(v, living \cup {new})
    <2>1. Dry(w, living) => Dry(u, living)
        BY <1>5 DEF Dry, Passable, SameGround
    <2>2. Passable(w, cell) => Passable(u, cell)
        BY <1>5 DEF Passable, SameGround
    <2> QED BY <1>5, <1>7, <2>1, <2>2
<1>20. SameGround(w, v) /\ SameMarks(w, v) /\ DOMAIN v.organisms = DOMAIN w.organisms \cup {new}
    BY <1>5, <1>7 DEF SameGround, SameMarks
<1> QED BY <1>7, <1>9, <1>15, <1>18, <1>19, <1>20 DEF v, u, new
-----------------------------------------------------------------------------
(* The invariant over any values of the variables. *)

Held(w, ph, t, living, turns, ends) ==
    /\ /\ w \in Worlds
       /\ ph \in Phases
       /\ t \in 0..(Rules.ticks_per_epoch - 1)
       /\ ph \notin {"environment", "turns", "births"} => t = 0
       /\ living \in SUBSET DOMAIN w.organisms /\ turns \in SUBSET DOMAIN w.organisms
       /\ ends \in Table(Nat)
    /\ ph \notin {"turns", "births"} => living = DOMAIN w.organisms /\ turns = {} /\ AllLive(w)
    /\ Fits(w, living) /\ Dry(w, living) /\ Booked(w, living)
    /\ RiftsBehind(w) /\ (ph # "rifts" => RiftsThere(w))
    /\ Resting(w, IF ph \notin {"turns", "births"} THEN t ELSE t + 1, ends)

\* The invariant, of the values now.
LEMMA HeldNow ==
    ASSUME IInv
    PROVE  Held(world, phase, tick, alive, todo, harmEnd)
BY DEF IInv, Held, TypesHold, Settled, AtBoundary, Past

\* The invariant, of the values next.
LEMMA HeldNext ==
    ASSUME Held(world', phase', tick', alive', todo', harmEnd')
    PROVE  IInv'
<1>1. TypesHold'
    BY DEF Held, TypesHold, AtBoundary
<1>2. (Settled => alive = DOMAIN world.organisms /\ todo = {} /\ AllLive(world))'
    BY DEF Held, Settled, AllLive
<1>3. Fits(world, alive)'
    BY DEF Held, Fits, Standing
<1>4. Dry(world, alive)'
    BY DEF Held, Dry, Passable
<1>5. Booked(world, alive)'
    BY DEF Held, Booked, MembersIn
<1>6. RiftsBehind(world)' /\ (phase # "rifts" => RiftsThere(world))'
    BY DEF Held, RiftsBehind, RiftsThere, phase_at
<1>7. OneHarm(world)'
    BY DEF Held, Resting, OneHarm, Harms
<1>8. HarmedRest(world, Past)'
    BY DEF Held, Resting, HarmedRest, Harms, RestsUntil, RunsOut, Past, Settled
<1>9. HealedRest(world, harmEnd)'
    BY DEF Held, Resting, HealedRest, RestsUntil
<1> QED BY <1>1, <1>2, <1>3, <1>4, <1>5, <1>6, <1>7, <1>8, <1>9 DEF IInv, Resting
-----------------------------------------------------------------------------
(* The steps of the epoch boundary. *)

\* At the boundary the world is sound.
LEMMA AtRest ==
    ASSUME IInv, AtBoundary
    PROVE  /\ Sound(world) /\ Resting(world, 0, harmEnd) /\ RiftsBehind(world)
           /\ phase # "rifts" => RiftsThere(world)
           /\ tick = 0 /\ todo = {} /\ alive = DOMAIN world.organisms
           /\ harmEnd \in Table(Nat)
BY DEF IInv, TypesHold, AtBoundary, Settled, Past, Sound

\* A sound world with its rifts on schedule, at the boundary.
LEMMA BoundaryHeld ==
    ASSUME NEW v, Sound(v), RiftsBehind(v), RiftsThere(v), NEW ends \in Table(Nat),
           Resting(v, 0, ends),
           NEW ph \in {"nature", "plague", "weather", "miracles", "revival", "environment"}
    PROVE  Held(v, ph, 0, DOMAIN v.organisms, {}, ends)
<1>1. 0 \in 0..(Rules.ticks_per_epoch - 1)
    BY RulesAreNumbers
<1> QED BY <1>1 DEF Held, Sound, Phases

\* A world that has been worked on, at the boundary.
LEMMA WorkedHeld ==
    ASSUME NEW w, NEW ends \in Table(Nat), NEW v \in Worked(w, ends),
           RiftsBehind(w), RiftsThere(w),
           NEW ph \in {"nature", "plague", "weather", "miracles", "revival", "environment"}
    PROVE  Held(v, ph, 0, DOMAIN v.organisms, {}, ends)
<1>1. Sound(v) /\ SameGround(w, v) /\ Resting(v, 0, ends)
    BY DEF Worked
<1>2. RiftsBehind(v) /\ RiftsThere(v)
    BY <1>1, SameGroundRifts
<1> QED BY <1>1, <1>2, BoundaryHeld

\* The rifts.
LEMMA RiftChangesHolds ==
    ASSUME IInv, rift_changes
    PROVE  IInv' /\ HarmedNow(world') \subseteq HarmedNow(world)
<1> DEFINE v == RiftsMove(world)
<1>1. /\ phase = "rifts" /\ world' = v /\ phase' = "nature" /\ alive' = DOMAIN world'.organisms
      /\ tick' = tick /\ todo' = todo /\ harmEnd' = harmEnd
    BY DEF rift_changes
<1>2. AtBoundary
    BY <1>1 DEF AtBoundary
<1>3. /\ Sound(world) /\ Resting(world, 0, harmEnd) /\ RiftsBehind(world) /\ tick = 0
      /\ todo = {} /\ harmEnd \in Table(Nat)
    BY <1>2, AtRest
<1>4. /\ Sound(v) /\ SameMarks(world, v) /\ v.epoch = world.epoch
      /\ RiftsBehind(v) /\ RiftsThere(v)
    BY <1>3, RiftsMoveKeeps
<1> HIDE DEF v
<1>5. world \in Worlds /\ v \in Worlds
    BY <1>3, <1>4 DEF Sound
<1>6. Resting(v, 0, harmEnd)
    BY <1>3, <1>4, <1>5, SameMarksRest, RestingStays
<1>7. Held(v, "nature", 0, DOMAIN v.organisms, {}, harmEnd)
    BY <1>3, <1>4, <1>6, BoundaryHeld
<1>8. IInv'
    BY <1>1, <1>3, <1>7, HeldNext
<1>9. HarmedNow(world') = HarmedNow(world)
    BY <1>1, <1>4 DEF HarmedNow, SameMarks
<1> QED BY <1>8, <1>9

\* The natural events.
LEMMA NaturalEventsHolds ==
    ASSUME IInv, natural_events
    PROVE  IInv' /\ HarmedNow(world') \subseteq HarmedNow(world)
<1>1. PICK v \in Natural(world) : world' = v
    BY DEF natural_events
<1>2. /\ phase = "nature" /\ phase' = "plague" /\ alive' = alive
      /\ tick' = tick /\ todo' = todo /\ harmEnd' = harmEnd
    BY DEF natural_events
<1>3. AtBoundary
    BY <1>2 DEF AtBoundary
<1>4. /\ Sound(world) /\ Resting(world, 0, harmEnd) /\ RiftsBehind(world) /\ RiftsThere(world)
      /\ tick = 0 /\ todo = {} /\ harmEnd \in Table(Nat) /\ alive = DOMAIN world.organisms
    BY <1>2, <1>3, AtRest
<1>5. world \in Worlds
    BY <1>4 DEF Sound
<1>6. v \in Aired(world)
    BY <1>5, NaturalKeeps
<1>7. /\ v \in Worlds /\ SameGround(world, v) /\ SameMarks(world, v)
      /\ v.organisms = world.organisms
    BY <1>6 DEF Aired, SameLife
<1>8. Sound(v)
    BY <1>4, <1>6, AiredIsSound
<1>9. RiftsBehind(v) /\ RiftsThere(v)
    BY <1>4, <1>7, SameGroundRifts
<1>10. v.epoch = world.epoch
    BY <1>7 DEF SameGround
<1>11. Resting(v, 0, harmEnd)
    BY <1>4, <1>5, <1>7, <1>10, SameMarksRest, RestingStays
<1>12. Held(v, "plague", 0, DOMAIN v.organisms, {}, harmEnd)
    BY <1>4, <1>8, <1>9, <1>11, BoundaryHeld
<1>13. IInv'
    BY <1>1, <1>2, <1>4, <1>7, <1>12, HeldNext
<1>14. HarmedNow(world') = HarmedNow(world)
    BY <1>1, <1>7 DEF HarmedNow, SameMarks
<1> QED BY <1>13, <1>14

\* The plague.
LEMMA PlagueHolds ==
    ASSUME IInv, plague
    PROVE  IInv' /\ HarmedNow(world') \subseteq HarmedNow(world)
<1>1. /\ phase = "plague" /\ phase' = "weather"
      /\ tick' = tick /\ todo' = todo /\ harmEnd' = harmEnd
    BY DEF plague
<1>2. AtBoundary
    BY <1>1 DEF AtBoundary
<1>3. /\ Sound(world) /\ Resting(world, 0, harmEnd) /\ RiftsBehind(world) /\ RiftsThere(world)
      /\ tick = 0 /\ todo = {} /\ harmEnd \in Table(Nat) /\ alive = DOMAIN world.organisms
    BY <1>1, <1>2, AtRest
<1>4. CASE world' = world /\ alive' = alive
    <2>1. Held(world, "weather", 0, DOMAIN world.organisms, {}, harmEnd)
        BY <1>3, BoundaryHeld
    <2> QED BY <1>1, <1>3, <1>4, <2>1, HeldNext
<1>5. CASE /\ \E dead \in Struck(world) : world' = close_extinct_clades(Without(world, dead))
           /\ alive' = DOMAIN world'.organisms
    <2>1. PICK dead \in Struck(world) : world' = close_extinct_clades(Without(world, dead))
        BY <1>5
    <2> DEFINE v == close_extinct_clades(Without(world, dead))
    <2>2. Sound(v) /\ SameGround(world, v) /\ SameMarks(world, v)
        BY <1>3, PlagueKeeps
    <2>3. world' = v /\ alive' = DOMAIN v.organisms
        BY <1>5, <2>1
    <2> HIDE DEF v
    <2>4. RiftsBehind(v) /\ RiftsThere(v)
        BY <1>3, <2>2, SameGroundRifts
    <2>5. world \in Worlds /\ v \in Worlds /\ v.epoch = world.epoch
        BY <1>3, <2>2 DEF Sound, SameGround
    <2>6. Resting(v, 0, harmEnd)
        BY <1>3, <2>2, <2>5, SameMarksRest, RestingStays
    <2>7. Held(v, "weather", 0, DOMAIN v.organisms, {}, harmEnd)
        BY <1>3, <2>2, <2>4, <2>6, BoundaryHeld
    <2>8. IInv'
        BY <1>1, <1>3, <2>3, <2>7, HeldNext
    <2>9. HarmedNow(world') = HarmedNow(world)
        BY <2>2, <2>3 DEF HarmedNow, SameMarks
    <2> QED BY <2>8, <2>9
<1> QED BY <1>4, <1>5 DEF plague
\* What works on the world at the boundary keeps the invariant, and harms a
\* clade only when it may.
LEMMA WorkHolds ==
    ASSUME IInv, AtBoundary, phase # "rifts", NEW v \in Worked(world, harmEnd), world' = v,
           phase' \in {"plague", "weather", "miracles", "revival", "environment"},
           alive' = DOMAIN v.organisms, tick' = tick, todo' = todo, harmEnd' = harmEnd
    PROVE  IInv' /\ \A c \in HarmedNow(world') : Allowed(world, harmEnd, c)
<1>1. /\ RiftsBehind(world) /\ RiftsThere(world) /\ tick = 0 /\ todo = {}
      /\ harmEnd \in Table(Nat)
    BY AtRest
<1>2. Held(v, phase', 0, DOMAIN v.organisms, {}, harmEnd)
    BY <1>1, WorkedHeld
<1>3. IInv'
    BY <1>1, <1>2, HeldNext
<1>4. v \in Worlds /\ \A i \in Harms(v) : Allowed(world, harmEnd, v.cladeEffects[i].clade)
    BY DEF Worked
<1>5. \A c \in HarmedNow(v) : Allowed(world, harmEnd, c)
    BY <1>4, HarmedClades
<1>6. HarmedNow(world') = HarmedNow(v)
    BY DEF HarmedNow
<1> QED BY <1>3, <1>5, <1>6

\* The weather.
LEMMA NaturalWeatherHolds ==
    ASSUME IInv, natural_weather
    PROVE  IInv' /\ \A c \in HarmedNow(world') : Allowed(world, harmEnd, c)
<1>1. /\ phase = "weather" /\ phase' = "miracles" /\ alive' = alive
      /\ tick' = tick /\ todo' = todo /\ harmEnd' = harmEnd
    BY DEF natural_weather
<1>2. AtBoundary
    BY <1>1 DEF AtBoundary
<1>3. /\ Sound(world) /\ Resting(world, 0, harmEnd) /\ harmEnd \in Table(Nat)
      /\ alive = DOMAIN world.organisms
    BY <1>2, AtRest
<1> DEFINE S == Rained(world, harmEnd)
<1>4. world \in S
    BY <1>3, WorkBegins DEF Rained
<1>5. WeatherStays(S)
    BY <1>3, FallWorks
<1>6. NaturalWeather[Len(Rules.weather_regions)] \subseteq S
    <2> HIDE DEF S
    <2> QED BY <1>4, <1>5, NaturalWeatherKeeps DEF S
<1>7. world' \in S
    BY <1>4, <1>6 DEF natural_weather
<1> HIDE DEF S
<1>8. PICK v \in S : world' = v
    BY <1>7
<1>9. v \in Worked(world, harmEnd) /\ DOMAIN v.organisms = DOMAIN world.organisms
    BY DEF S, Rained
<1> QED BY <1>1, <1>2, <1>3, <1>8, <1>9, WorkHolds

\* The miracles.
LEMMA MiraclesHolds ==
    ASSUME IInv, miracles
    PROVE  IInv' /\ \A c \in HarmedNow(world') : Allowed(world, harmEnd, c)
<1>1. /\ phase = "miracles" /\ phase' = "revival" /\ alive' = DOMAIN world'.organisms
      /\ tick' = tick /\ todo' = todo /\ harmEnd' = harmEnd
    BY DEF miracles
<1>2. AtBoundary
    BY <1>1 DEF AtBoundary
<1>3. Sound(world) /\ Resting(world, 0, harmEnd) /\ harmEnd \in Table(Nat)
    BY <1>2, AtRest
<1>4. PICK n \in 0..MaxSelected : \E selected \in [1..n -> Wishes] :
                                     world' = apply(world, selected)
    BY DEF miracles
<1>5. PICK selected \in [1..n -> Wishes] : world' = apply(world, selected)
    BY <1>4
<1>6. MaxSelected \in Nat
    BY WorldAssumption
<1>7. selected \in Seq(Wishes)
    BY <1>6
<1>8. apply(world, selected) \in Worked(world, harmEnd)
    BY <1>3, <1>7, ApplyWorks
<1>9. PICK v \in Worked(world, harmEnd) : world' = v
    BY <1>5, <1>8
<1>10. alive' = DOMAIN v.organisms
    BY <1>1, <1>9
<1> QED BY <1>1, <1>2, <1>9, <1>10, WorkHolds

\* The spore bank.
LEMMA NaturalRevivalHolds ==
    ASSUME IInv, natural_revival
    PROVE  IInv' /\ \A c \in HarmedNow(world') : Allowed(world, harmEnd, c)
<1>1. /\ phase = "revival" /\ phase' = "environment" /\ alive' = DOMAIN world'.organisms
      /\ tick' = tick /\ todo' = todo /\ harmEnd' = harmEnd
    BY DEF natural_revival
<1>2. AtBoundary
    BY <1>1 DEF AtBoundary
<1>3. Sound(world) /\ Resting(world, 0, harmEnd) /\ harmEnd \in Table(Nat)
    BY <1>2, AtRest
<1> DEFINE S == Worked(world, harmEnd)
<1>4. world \in S /\ SowingStays(S) /\ \A v \in S : Counted(v) \in S
    BY <1>3, WorkBegins, SowingWorks, CountedWorks
<1>5. Revived(world) \subseteq S
    <2> HIDE DEF S
    <2> QED BY <1>4, RevivedKeeps
<1>6. world' \in S
    BY <1>4, <1>5 DEF natural_revival
<1>7. PICK v \in S : world' = v
    BY <1>6
<1>8. alive' = DOMAIN v.organisms
    BY <1>1, <1>7
<1> QED BY <1>1, <1>2, <1>7, <1>8, WorkHolds

-----------------------------------------------------------------------------
(* The steps of a tick. *)

\* What holds at every step.
LEMMA InTick ==
    ASSUME IInv
    PROVE  /\ world \in Worlds /\ alive \in SUBSET DOMAIN world.organisms
           /\ todo \in SUBSET DOMAIN world.organisms
           /\ tick \in 0..(Rules.ticks_per_epoch - 1) /\ harmEnd \in Table(Nat)
           /\ Fits(world, alive) /\ Dry(world, alive) /\ Booked(world, alive)
           /\ RiftsBehind(world) /\ (phase # "rifts" => RiftsThere(world))
           /\ Resting(world, Past, harmEnd)
BY DEF IInv, TypesHold

\* The countdown at the beginning of a tick.
LEMMA EnvironmentHolds ==
    ASSUME IInv, environment
    PROVE  IInv' /\ HarmedNow(world') \subseteq HarmedNow(world)
<1> DEFINE v == Aged(world)
           ends == Ended(world, harmEnd)
<1>1. /\ phase = "environment" /\ phase' = "turns" /\ alive' = alive /\ tick' = tick
      /\ todo' = alive
    BY DEF environment
<1>2. world' = v
    BY DEF environment, Aged
<1>3. harmEnd' = ends
    <2>1. HarmedNow(world') = HarmedNow(v)
        BY <1>2 DEF HarmedNow
    <2>2. harmEnd' = [c \in (HarmedNow(world) \ HarmedNow(world')) \cup DOMAIN harmEnd |->
                         IF c \in HarmedNow(world) \ HarmedNow(world') THEN world.epoch
                         ELSE harmEnd[c]]
        BY DEF environment
    <2> QED BY <2>1, <2>2 DEF Ended, Over
<1>4. /\ world \in Worlds /\ alive \in SUBSET DOMAIN world.organisms
      /\ tick \in 0..(Rules.ticks_per_epoch - 1) /\ harmEnd \in Table(Nat)
      /\ Fits(world, alive) /\ Dry(world, alive) /\ Booked(world, alive)
      /\ RiftsBehind(world) /\ RiftsThere(world) /\ Resting(world, tick, harmEnd)
    BY <1>1, InTick DEF Past, Settled
<1>5. v \in Worlds /\ SameGround(world, v) /\ SameLife(world, v)
    BY <1>4, AgedType
<1>6. ends \in Table(Nat)
    BY <1>4, EndedType
<1>7. Resting(v, tick + 1, ends) /\ HarmedNow(v) \subseteq HarmedNow(world)
    BY <1>4, AgingRests
<1> HIDE DEF v, ends
<1>8. RiftsBehind(v) /\ RiftsThere(v) /\ Dry(v, alive)
    BY <1>4, <1>5, SameGroundRifts
<1>9. Fits(v, alive) /\ Booked(v, alive) /\ alive \in SUBSET DOMAIN v.organisms
    BY <1>4, <1>5, SameLifeFits DEF SameLife
<1>10. Held(v, "turns", tick, alive, alive, ends)
    BY <1>4, <1>5, <1>6, <1>7, <1>8, <1>9 DEF Held, Phases
<1>11. IInv'
    BY <1>1, <1>2, <1>3, <1>10, HeldNext
<1>12. HarmedNow(world') = HarmedNow(v)
    BY <1>2 DEF HarmedNow
<1> QED BY <1>7, <1>11, <1>12

\* Turns and births change neither the ground nor the effects.
LEMMA TickHolds ==
    ASSUME IInv, phase \in {"turns", "births"},
           NEW v \in Worlds, SameGround(world, v), SameMarks(world, v),
           NEW living \in SUBSET DOMAIN v.organisms, NEW turns \in SUBSET DOMAIN v.organisms,
           Fits(v, living), Dry(v, living), Booked(v, living),
           world' = v, alive' = living, todo' = turns, phase' \in {"turns", "births"},
           tick' = tick, harmEnd' = harmEnd
    PROVE  IInv' /\ HarmedNow(world') \subseteq HarmedNow(world)
<1>1. /\ world \in Worlds /\ tick \in 0..(Rules.ticks_per_epoch - 1) /\ harmEnd \in Table(Nat)
      /\ RiftsBehind(world) /\ RiftsThere(world) /\ Resting(world, tick + 1, harmEnd)
    BY InTick DEF Past, Settled
<1>2. RiftsBehind(v) /\ RiftsThere(v)
    BY <1>1, SameGroundRifts
<1>3. v.epoch = world.epoch /\ tick + 1 \in Nat
    BY <1>1 DEF SameGround
<1>4. Resting(v, tick + 1, harmEnd)
    BY <1>1, <1>3, SameMarksRest, RestingStays
<1>5. Held(v, phase', tick, living, turns, harmEnd)
    BY <1>1, <1>2, <1>4 DEF Held, Phases
<1>6. IInv'
    BY <1>5, HeldNext
<1>7. HarmedNow(world') = HarmedNow(world)
    BY DEF HarmedNow, SameMarks
<1> QED BY <1>6, <1>7

\* Kills and deaths of those who live.
LEMMA DeathsHold ==
    ASSUME NEW w \in Worlds, NEW living \in SUBSET DOMAIN w.organisms,
           Fits(w, living), Dry(w, living), Booked(w, living), NEW dead \in SUBSET living
    PROVE  LET v == kill(w, dead)
           IN /\ v \in Worlds /\ SameGround(w, v) /\ SameMarks(w, v)
              /\ v.organisms = w.organisms
              /\ Fits(v, living \ dead) /\ Dry(v, living \ dead) /\ Booked(v, living \ dead)
<1> DEFINE v == kill(w, dead)
<1>1. /\ v \in Worlds /\ SameGround(w, v) /\ SameMarks(w, v) /\ v.organisms = w.organisms
      /\ Booked(v, living \ dead)
    BY KillKeeps
<1> HIDE DEF v
<1>2. Fits(v, living \ dead)
    BY <1>1, FewerFit
<1>3. Dry(v, living \ dead)
    BY <1>1 DEF Dry, Passable, SameGround
<1> QED BY <1>1, <1>2, <1>3 DEF v

\* A walk over cells with room.
LEMMA WalksHold ==
    ASSUME IInv, NEW o \in alive, NEW pos \in Reach(world.organisms[o].cell)
    PROVE  LET v == [world EXCEPT !.organisms[o].cell = pos]
           IN /\ v \in Worlds /\ SameGround(world, v) /\ SameMarks(world, v)
              /\ DOMAIN v.organisms = DOMAIN world.organisms
              /\ Fits(v, alive) /\ Dry(v, alive) /\ Booked(v, alive)
<1> DEFINE v == [world EXCEPT !.organisms[o].cell = pos]
           from == world.organisms[o].cell
<1>1. /\ world \in Worlds /\ alive \in SUBSET DOMAIN world.organisms
      /\ Fits(world, alive) /\ Dry(world, alive) /\ Booked(world, alive)
    BY InTick
<1>2. from \in Cells
    BY <1>1, HomeIsACell
<1>3. pos = from \/ (pos \in Cells /\ Open(pos))
    BY ReachIsOpen
<1>4. pos \in Cells
    BY <1>2, <1>3
<1>5. /\ v \in Worlds /\ SameGround(world, v) /\ SameMarks(world, v)
      /\ DOMAIN v.organisms = DOMAIN world.organisms
      /\ v.organisms[o].cell = pos
      /\ \A p \in DOMAIN world.organisms :
             /\ v.organisms[p].clade = world.organisms[p].clade
             /\ p # o => v.organisms[p] = world.organisms[p]
      /\ Booked(world, alive) => Booked(v, alive)
      /\ /\ Fits(world, alive)
         /\ Cardinality(Standing(world, alive, pos)) < Rules.max_per_cell
         => Fits(v, alive)
    <2>1. \A cell \in Cells :
              LET u == [world EXCEPT !.organisms[o].cell = cell]
              IN /\ u \in Worlds /\ SameGround(world, u) /\ SameMarks(world, u)
                 /\ DOMAIN u.organisms = DOMAIN world.organisms
                 /\ u.organisms[o].cell = cell
                 /\ \A p \in DOMAIN world.organisms :
                        /\ u.organisms[p].clade = world.organisms[p].clade
                        /\ p # o => u.organisms[p] = world.organisms[p]
                 /\ Booked(world, alive) => Booked(u, alive)
                 /\ /\ Fits(world, alive)
                    /\ Cardinality(Standing(world, alive, cell)) < Rules.max_per_cell
                    => Fits(u, alive)
        BY <1>1, MoveKeeps
    <2> QED BY <1>4, <2>1
<1> HIDE DEF v
<1>6. CASE pos = from
    <2>1. \A p \in alive : v.organisms[p].cell = world.organisms[p].cell
        BY <1>1, <1>5, <1>6
    <2>2. \A c : Standing(v, alive, c) = Standing(world, alive, c)
        BY <2>1 DEF Standing
    <2>3. Fits(v, alive)
        BY <1>1, <2>2 DEF Fits
    <2>4. Dry(v, alive)
        BY <1>1, <1>5, <2>1 DEF Dry, Passable, SameGround
    <2> QED BY <1>1, <1>5, <2>3, <2>4 DEF v
<1>7. CASE Open(pos)
    <2>1. Passable(world, pos) /\ Cardinality(Standing(world, alive, pos)) < Rules.max_per_cell
        BY <1>7 DEF Open, Crowd, Standing
    <2>2. Fits(v, alive)
        BY <1>1, <1>5, <2>1
    <2>3. Dry(v, alive)
        BY <1>1, <1>5, <2>1 DEF Dry, Passable, SameGround
    <2> QED BY <1>1, <1>5, <2>2, <2>3 DEF v
<1> QED BY <1>3, <1>6, <1>7

\* A turn.
LEMMA ActHolds ==
    ASSUME IInv, NEW o \in alive, act(o)
    PROVE  IInv' /\ HarmedNow(world') \subseteq HarmedNow(world)
<1>1. /\ phase = "turns" /\ phase' = phase /\ todo' = todo \ {o} /\ tick' = tick
      /\ harmEnd' = harmEnd
    BY DEF act
<1>2. PICK pos \in Reach(world.organisms[o].cell) :
          \E prey \in {{}} \cup {{j} : j \in {j \in alive \ {o} :
                                     chebyshev(world.organisms[j].cell, pos) <= 1}} :
              /\ world' = kill([world EXCEPT !.organisms[o].cell = pos], prey)
              /\ alive' = alive \ prey
    BY DEF act
<1>3. PICK prey \in SUBSET alive :
              /\ world' = kill([world EXCEPT !.organisms[o].cell = pos], prey)
              /\ alive' = alive \ prey
    BY <1>2
<1> DEFINE w == [world EXCEPT !.organisms[o].cell = pos]
           v == kill(w, prey)
<1>4. /\ w \in Worlds /\ SameGround(world, w) /\ SameMarks(world, w)
      /\ DOMAIN w.organisms = DOMAIN world.organisms
      /\ Fits(w, alive) /\ Dry(w, alive) /\ Booked(w, alive)
    BY WalksHold
<1>5. world' = v
    BY <1>3
<1> HIDE DEF w
<1>6. alive \in SUBSET DOMAIN w.organisms /\ todo \in SUBSET DOMAIN w.organisms
    BY <1>4, InTick
<1>7. /\ v \in Worlds /\ SameGround(w, v) /\ SameMarks(w, v) /\ v.organisms = w.organisms
      /\ Fits(v, alive \ prey) /\ Dry(v, alive \ prey) /\ Booked(v, alive \ prey)
    BY <1>4, <1>6, DeathsHold
<1> HIDE DEF v
<1>8. SameGround(world, v) /\ SameMarks(world, v)
    BY <1>4, <1>7 DEF SameGround, SameMarks
<1>9. alive \ prey \in SUBSET DOMAIN v.organisms /\ todo \ {o} \in SUBSET DOMAIN v.organisms
    BY <1>6, <1>7
<1> QED BY <1>1, <1>3, <1>5, <1>7, <1>8, <1>9, TickHolds

\* Hunger and age.
LEMMA EnergyHolds ==
    ASSUME IInv, energy
    PROVE  IInv' /\ HarmedNow(world') \subseteq HarmedNow(world)
<1>1. /\ phase = "turns" /\ phase' = "births" /\ todo' = alive' /\ tick' = tick
      /\ harmEnd' = harmEnd
    BY DEF energy
<1>2. PICK dead \in SUBSET alive : world' = kill(world, dead) /\ alive' = alive \ dead
    BY DEF energy
<1> DEFINE v == kill(world, dead)
<1>3. /\ world \in Worlds /\ alive \in SUBSET DOMAIN world.organisms
      /\ Fits(world, alive) /\ Dry(world, alive) /\ Booked(world, alive)
    BY InTick
<1>4. /\ v \in Worlds /\ SameGround(world, v) /\ SameMarks(world, v)
      /\ v.organisms = world.organisms
      /\ Fits(v, alive \ dead) /\ Dry(v, alive \ dead) /\ Booked(v, alive \ dead)
    BY <1>3, DeathsHold
<1>5. world' = v
    BY <1>2
<1> HIDE DEF v
<1>6. alive \ dead \in SUBSET DOMAIN v.organisms
    BY <1>3, <1>4
<1> QED BY <1>1, <1>2, <1>4, <1>5, <1>6, TickHolds

\* Where a child can come to there is room and no deep water.
LEMMA BirthSitesOpen ==
    ASSUME IInv, NEW o \in alive, NEW cell \in BirthSites(world.organisms[o].cell)
    PROVE  /\ cell \in Cells /\ Passable(world, cell)
           /\ Cardinality(Standing(world, alive, cell)) < Rules.max_per_cell
<1> DEFINE home == world.organisms[o].cell
<1>1. home \in Cells
    BY InTick, HomeIsACell
<1>2. Passable(world, home)
    BY InTick DEF Dry
<1>3. \A c : Crowd(c) = Cardinality(Standing(world, alive, c))
    BY DEF Crowd, Standing
<1> QED BY <1>1, <1>2, <1>3 DEF BirthSites, Open

\* A birth.
LEMMA BirthHolds ==
    ASSUME IInv, NEW o \in alive, birth(o)
    PROVE  IInv' /\ HarmedNow(world') \subseteq HarmedNow(world)
<1>1. /\ phase = "births" /\ phase' = phase /\ tick' = tick /\ harmEnd' = harmEnd
      /\ alive' = alive \cup {world.nextOrganism} /\ todo' = {p \in todo : p > o}
      /\ Cardinality(alive) < Rules.max_organisms
    BY DEF birth
<1>2. PICK cell \in BirthSites(world.organisms[o].cell), split \in BOOLEAN :
          LET c == IF split THEN world.nextClade ELSE world.organisms[o].clade
              w == IF split THEN Split(world, world.organisms[o].clade) ELSE world
          IN world' = Born(Joined(w, c), c, cell)
    BY DEF birth
<1> DEFINE c == IF split THEN world.nextClade ELSE world.organisms[o].clade
           w == IF split THEN Split(world, world.organisms[o].clade) ELSE world
           v == Born(Joined(w, c), c, cell)
           living == alive \cup {world.nextOrganism}
<1>3. world' = v
    BY <1>2
<1>4. /\ world \in Worlds /\ alive \in SUBSET DOMAIN world.organisms
      /\ todo \in SUBSET DOMAIN world.organisms
      /\ Fits(world, alive) /\ Dry(world, alive) /\ Booked(world, alive)
    BY InTick
<1>5. world.organisms[o].clade \in Nat /\ world.organisms[o].clade \in DOMAIN world.clades
    BY <1>4, WorldRecord, OfTable DEF Organism, Booked
<1>6. /\ w \in Worlds /\ SameGround(world, w) /\ SameMarks(world, w)
      /\ w.organisms = world.organisms /\ w.nextOrganism = world.nextOrganism
      /\ c \in DOMAIN w.clades /\ Booked(w, alive)
    <2>1. CASE split
        BY <1>4, <1>5, <2>1, SplitKeeps
    <2>2. CASE ~split
        BY <1>4, <1>5, <2>2 DEF SameGround, SameMarks
    <2> QED BY <2>1, <2>2
<1> HIDE DEF w, c
<1>7. /\ cell \in Cells /\ Passable(world, cell)
      /\ Cardinality(Standing(world, alive, cell)) < Rules.max_per_cell
    BY BirthSitesOpen
<1>8. Fits(w, alive) /\ Dry(w, alive) /\ Passable(w, cell)
      /\ Cardinality(Standing(w, alive, cell)) < Rules.max_per_cell
    BY <1>4, <1>6, <1>7 DEF Fits, Standing, Dry, Passable, SameGround
<1>9. alive \in SUBSET DOMAIN w.organisms
    BY <1>4, <1>6
<1>10. /\ v \in Worlds /\ SameGround(w, v) /\ SameMarks(w, v)
       /\ DOMAIN v.organisms = DOMAIN w.organisms \cup {w.nextOrganism}
       /\ Booked(v, alive \cup {w.nextOrganism})
       /\ Fits(v, alive \cup {w.nextOrganism}) /\ Dry(v, alive \cup {w.nextOrganism})
    BY <1>1, <1>6, <1>7, <1>8, <1>9, JoinedKeeps
<1> HIDE DEF v
<1>11. SameGround(world, v) /\ SameMarks(world, v)
    BY <1>6, <1>10 DEF SameGround, SameMarks
<1>12. /\ living \in SUBSET DOMAIN v.organisms
       /\ {p \in todo : p > o} \in SUBSET DOMAIN v.organisms
    BY <1>4, <1>6, <1>10
<1>13. Fits(v, living) /\ Dry(v, living) /\ Booked(v, living)
    BY <1>6, <1>10
<1> DEFINE turns == {p \in todo : p > o}
<1> HIDE DEF living, turns
<1>14. alive' = living /\ todo' = turns
    BY <1>1 DEF living, turns
<1>15. turns \in SUBSET DOMAIN v.organisms
    BY <1>12 DEF turns
<1> QED BY <1>1, <1>3, <1>10, <1>11, <1>12, <1>13, <1>14, <1>15, TickHolds
\* A rift that is not ahead of an epoch is not ahead of the next one.
LEMMA RiftsStayBehind ==
    ASSUME NEW w \in Worlds, RiftsBehind(w), NEW v, v.epoch = w.epoch + 1,
           v.rift = w.rift, v.biome = w.biome
    PROVE  RiftsBehind(v)
<1> SUFFICES ASSUME NEW c \in DOMAIN Rifts
             PROVE  Rank[w.rift[c]] <= Rank[phase_at(c, v.epoch)]
    BY DEF RiftsBehind
<1>1. w.epoch \in Nat /\ w.rift \in [Cells -> DOMAIN Rank]
    BY WorldRecord
<1>2. phase_at(c, w.epoch) \in Reached /\ phase_at(c, v.epoch) \in Reached
      /\ Rank[phase_at(c, w.epoch)] <= Rank[phase_at(c, v.epoch)]
    BY <1>1, SchedulesRise
<1>3. w.rift[c] \in DOMAIN Rank
    BY <1>1, RulesAssumption
<1>4. /\ Rank[w.rift[c]] \in 0..4 /\ Rank[phase_at(c, w.epoch)] \in 0..4
      /\ Rank[phase_at(c, v.epoch)] \in 0..4
    BY <1>2, <1>3, RanksAreNumbers
<1>5. Rank[w.rift[c]] <= Rank[phase_at(c, w.epoch)]
    BY DEF RiftsBehind
<1> QED BY <1>2, <1>4, <1>5

\* Another epoch changes nothing else.
At(w, epoch) == [w EXCEPT !.epoch = epoch]

LEMMA AnotherEpoch ==
    ASSUME NEW w, Sound(w), NEW epoch \in Nat
    PROVE  /\ Sound(At(w, epoch)) /\ At(w, epoch).epoch = epoch
           /\ SameMarks(w, At(w, epoch)) /\ SameLife(w, At(w, epoch))
           /\ At(w, epoch).rift = w.rift /\ At(w, epoch).biome = w.biome
<1> DEFINE v == At(w, epoch)
<1>1. /\ v \in Worlds /\ v.epoch = epoch /\ SameMarks(w, v) /\ SameLife(w, v)
      /\ v.rift = w.rift /\ v.biome = w.biome
    BY DEF At, Sound, Worlds, SameMarks, SameLife
<1> HIDE DEF v
<1>2. v.organisms = w.organisms
    BY <1>1 DEF SameLife
<1>3. Fits(v, DOMAIN v.organisms) /\ Booked(v, DOMAIN v.organisms) /\ AllLive(v)
    BY <1>1, <1>2, SameLifeFits DEF Sound
<1>4. Dry(v, DOMAIN v.organisms)
    BY <1>1, <1>2 DEF Dry, Passable, Sound
<1> QED BY <1>1, <1>3, <1>4 DEF Sound, v

\* The dead are dropped, and with the last of a clade the clade.
LEMMA CleaningHolds ==
    ASSUME IInv
    PROVE  LET w == close_extinct_clades(Dropping(world, alive))
           IN Sound(w) /\ DOMAIN w.organisms = alive /\ SameGround(world, w) /\ SameMarks(world, w)
<1> DEFINE u == Dropping(world, alive)
           w == close_extinct_clades(u)
<1>1. /\ world \in Worlds /\ alive \in SUBSET DOMAIN world.organisms
      /\ Fits(world, alive) /\ Dry(world, alive) /\ Booked(world, alive)
    BY InTick
<1>2. /\ u \in Worlds /\ SameGround(world, u) /\ SameMarks(world, u)
      /\ DOMAIN u.organisms = alive
      /\ \A o \in alive : u.organisms[o] = world.organisms[o]
      /\ Booked(u, DOMAIN u.organisms)
    BY <1>1, DroppingKeeps
<1> HIDE DEF u
<1>3. /\ w \in Worlds /\ SameGround(u, w) /\ SameMarks(u, w) /\ w.organisms = u.organisms
      /\ Booked(w, alive) /\ AllLive(w)
    BY <1>2, CloseKeeps
<1> HIDE DEF w
<1>4. \A o \in alive : w.organisms[o] = world.organisms[o]
    BY <1>2, <1>3
<1>5. Fits(w, alive)
    BY <1>1, <1>4, FewerFit
<1>6. SameGround(world, w) /\ SameMarks(world, w)
    BY <1>2, <1>3 DEF SameGround, SameMarks
<1>7. Dry(w, alive)
    BY <1>1, <1>4, <1>6 DEF Dry, Passable, SameGround
<1>8. DOMAIN w.organisms = alive
    BY <1>2, <1>3
<1>9. Sound(w)
    BY <1>3, <1>5, <1>7, <1>8 DEF Sound
<1> QED BY <1>6, <1>8, <1>9 DEF w, u

\* The end of a tick, and of an epoch.
LEMMA EndTickHolds ==
    ASSUME IInv, end_tick
    PROVE  IInv' /\ HarmedNow(world') \subseteq HarmedNow(world)
<1> DEFINE w == close_extinct_clades(Dropping(world, alive))
           next == IF LastTick THEN w.epoch + 1 ELSE w.epoch
           v == At(w, next)
<1>1. /\ phase = "births" /\ phase' = (IF LastTick THEN "rifts" ELSE "environment")
      /\ tick' = (IF LastTick THEN 0 ELSE tick + 1) /\ todo' = {} /\ alive' = alive
      /\ harmEnd' = harmEnd
    BY DEF end_tick
<1>2. /\ Sound(w) /\ DOMAIN w.organisms = alive /\ SameGround(world, w) /\ SameMarks(world, w)
    BY CleaningHolds
<1>3. world' = v
    BY <1>2 DEF end_tick, Dropping, At, Sound, Worlds
<1> HIDE DEF w
<1>4. /\ world \in Worlds /\ tick \in 0..(Rules.ticks_per_epoch - 1) /\ harmEnd \in Table(Nat)
      /\ RiftsBehind(world) /\ RiftsThere(world) /\ Resting(world, tick + 1, harmEnd)
    BY <1>1, InTick DEF Past, Settled
<1>5. /\ w \in Worlds /\ w.epoch = world.epoch /\ w.epoch \in Nat
      /\ RiftsBehind(w) /\ RiftsThere(w)
    BY <1>2, <1>4, SameGroundRifts, WorldRecord DEF Sound, SameGround
<1>6. next \in Nat
    BY <1>5
<1>7. /\ Sound(v) /\ v.epoch = next /\ SameMarks(w, v) /\ SameLife(w, v)
      /\ v.rift = w.rift /\ v.biome = w.biome
    BY <1>2, <1>6, AnotherEpoch
<1> HIDE DEF v
<1>8. SameMarks(world, v) /\ v \in Worlds /\ DOMAIN v.organisms = alive
    BY <1>2, <1>7 DEF SameMarks, SameLife, Sound
<1>9. HarmedNow(world') = HarmedNow(world)
    BY <1>3, <1>8 DEF HarmedNow, SameMarks
<1>10. Rules.ticks_per_epoch \in Nat \ {0}
    BY RulesAreNumbers
<1>11. CASE LastTick
    <2>1. v.epoch = world.epoch + 1
        BY <1>5, <1>7, <1>11
    <2>2. tick + 1 = Rules.ticks_per_epoch
        BY <1>4, <1>10, <1>11 DEF LastTick
    <2>3. Resting(v, 0, harmEnd)
        BY <1>4, <1>8, <2>1, <2>2, TurningRests
    <2>4. RiftsBehind(v)
        BY <1>5, <1>7, <2>1, RiftsStayBehind
    <2>5. Held(v, "rifts", 0, alive, {}, harmEnd)
        BY <1>4, <1>7, <1>8, <1>10, <2>3, <2>4 DEF Held, Phases, Sound
    <2>6. IInv'
        BY <1>1, <1>3, <1>11, <2>5, HeldNext
    <2> QED BY <1>9, <2>6
<1>12. CASE ~LastTick
    <2>1. v.epoch = world.epoch /\ v.epoch = w.epoch
        BY <1>5, <1>7, <1>12
    <2>2. tick + 1 \in 0..(Rules.ticks_per_epoch - 1) /\ tick + 1 \in Nat
        BY <1>4, <1>10, <1>12 DEF LastTick
    <2>3. Resting(v, tick + 1, harmEnd)
        BY <1>4, <1>8, <2>1, <2>2, SameMarksRest, RestingStays
    <2>4. SameGround(w, v)
        BY <1>7, <2>1 DEF SameGround
    <2>5. RiftsBehind(v) /\ RiftsThere(v)
        BY <1>5, <2>4, SameGroundRifts
    <2>6. Held(v, "environment", tick + 1, alive, {}, harmEnd)
        BY <1>4, <1>7, <1>8, <2>2, <2>3, <2>5 DEF Held, Phases, Sound
    <2>7. IInv'
        BY <1>1, <1>3, <1>12, <2>6, HeldNext
    <2> QED BY <1>9, <2>7
<1> QED BY <1>11, <1>12
-----------------------------------------------------------------------------
(* The beginning. *)

\* A finite set of numbers has a greatest.
LEMMA GreatestOfNats ==
    ASSUME NEW S \in SUBSET Nat, IsFiniteSet(S), S # {}
    PROVE  Max(S) \in S /\ \A y \in S : y <= Max(S)
<1> DEFINE N == Cardinality(S)
           left == {(N - 1) - Before(x, S) : x \in S}
<1>1. N \in Nat /\ \A x \in S : Before(x, S) \in 0..(N - 1)
    BY BeforeType
<1> HIDE DEF N
<1>2. left \in SUBSET Nat /\ left # {}
    BY <1>1
<1> HIDE DEF left
<1>3. PICK m \in left : \A n \in left : m <= n
    BY <1>2, LeastNumber
<1>4. PICK x \in S : m = (N - 1) - Before(x, S)
    BY DEF left
<1>5. \A y \in S : y <= x
    <2> SUFFICES ASSUME NEW y \in S, x < y PROVE FALSE
        OBVIOUS
    <2>1. Before(x, S) < Before(y, S)
        BY BeforeRises
    <2>2. (N - 1) - Before(y, S) \in left
        BY DEF left
    <2>3. (N - 1) - Before(x, S) <= (N - 1) - Before(y, S)
        BY <1>3, <1>4, <2>2
    <2> QED BY <1>1, <2>1, <2>3
<1>6. \E g \in S : \A y \in S : g >= y
    BY <1>5
<1>7. Max(S) \in S /\ \A y \in S : Max(S) >= y
    BY <1>6 DEF Max
<1> QED BY <1>7

StartingClades == {Founders[i].clade : i \in DOMAIN Founders}
StartingSize(c) == Cardinality({i \in DOMAIN Founders : Founders[i].clade = c})
Genesis ==
    [epoch |-> 0, biome |-> Terrain,
     rift |-> [c \in Cells |-> IF c \in DOMAIN Rifts THEN "crack" ELSE "none"],
     organisms |-> [i \in DOMAIN Founders |-> Founders[i]],
     clades |-> [c \in StartingClades |-> [parent |-> 0, second |-> 0, founded |-> 0,
                                           living |-> StartingSize(c), peak |-> StartingSize(c)]],
     effects |-> <<>>, cladeEffects |-> <<>>, cooldowns |-> <<>>,
     museum |-> <<>>, revivals |-> <<>>, ended |-> FALSE,
     nextOrganism |-> Len(Founders) + 1, nextClade |-> Max(StartingClades) + 1]

\* The founders and their clades.
LEMMA FoundersStart ==
    /\ Len(Founders) \in Nat /\ DOMAIN Founders = 1..Len(Founders) /\ DOMAIN Founders # {}
    /\ DOMAIN Founders \in SUBSET Nat /\ IsFiniteSet(DOMAIN Founders)
    /\ Cardinality(DOMAIN Founders) = Len(Founders)
    /\ \A i \in DOMAIN Founders : /\ Founders[i] \in Organism
                                  /\ Founders[i].clade \in Nat /\ Founders[i].cell \in Cells
    /\ StartingClades \in SUBSET Nat /\ IsFiniteSet(StartingClades) /\ StartingClades # {}
    /\ \A c : StartingSize(c) \in Nat
    /\ \A c \in StartingClades : StartingSize(c) > 0
<1>1. Founders \in Seq([clade : Nat \ {0}, cell : Cells]) /\ Founders # <<>>
    BY WorldAssumption
<1>2. /\ Len(Founders) \in Nat /\ DOMAIN Founders = 1..Len(Founders) /\ DOMAIN Founders # {}
      /\ \A i \in DOMAIN Founders : Founders[i] \in [clade : Nat \ {0}, cell : Cells]
    <2> DEFINE T == [clade : Nat \ {0}, cell : Cells]
    <2> HIDE DEF T
    <2>1. Founders \in Seq(T) /\ Founders # <<>>
        BY <1>1 DEF T
    <2>2. Len(Founders) \in Nat /\ DOMAIN Founders = 1..Len(Founders)
          /\ \A i \in DOMAIN Founders : Founders[i] \in T
        BY <2>1
    <2>3. Len(Founders) # 0
        BY <2>1, EmptySeq
    <2>4. 1 \in DOMAIN Founders
        BY <2>2, <2>3
    <2> QED BY <2>2, <2>4 DEF T
<1>3. /\ \A i \in DOMAIN Founders : /\ Founders[i] \in Organism
                                    /\ Founders[i].clade \in Nat /\ Founders[i].cell \in Cells
    BY <1>2 DEF Organism
<1>4. DOMAIN Founders \in SUBSET Nat /\ IsFiniteSet(DOMAIN Founders)
      /\ Cardinality(DOMAIN Founders) = Len(Founders)
    <2> DEFINE n == Len(Founders)
    <2> HIDE DEF n
    <2>1. n \in Nat /\ n \in Int /\ 1 \in Int /\ DOMAIN Founders = 1..n
        BY <1>2 DEF n
    <2>2. IsFiniteSet(1..n) /\ Cardinality(1..n) = IF 1 > n THEN 0 ELSE n - 1 + 1
        BY <2>1, FS_Interval
    <2> QED BY <2>1, <2>2 DEF n
<1> DEFINE f == [i \in DOMAIN Founders |-> Founders[i].clade]
<1>5. f \in Surjection(DOMAIN Founders, StartingClades)
    BY DEF Surjection, StartingClades
<1>6. IsFiniteSet(StartingClades)
    BY <1>4, <1>5, FS_Surjection
<1>7. StartingClades \in SUBSET Nat /\ StartingClades # {}
    BY <1>2, <1>3 DEF StartingClades
<1>8. ASSUME NEW c
      PROVE  /\ StartingSize(c) \in Nat
             /\ c \in StartingClades => StartingSize(c) > 0
    <2> DEFINE T == {i \in DOMAIN Founders : Founders[i].clade = c}
    <2>1. IsFiniteSet(T) /\ Cardinality(T) \in Nat
        BY <1>4, FS_Subset, FS_CardinalityType
    <2>2. c \in StartingClades => T # {}
        BY DEF StartingClades
    <2>3. T # {} => Cardinality(T) # 0
        BY <2>1, FS_EmptySet
    <2> QED BY <2>1, <2>2, <2>3 DEF StartingSize
<1> QED BY <1>2, <1>3, <1>4, <1>6, <1>7, <1>8

\* The next clade comes after the founders' clades.
LEMMA LatestStart ==
    /\ Max(StartingClades) \in Nat
    /\ \A c \in StartingClades : c \in Nat /\ c < Max(StartingClades) + 1
<1> DEFINE m == Max(StartingClades)
<1>1. StartingClades \in SUBSET Nat /\ IsFiniteSet(StartingClades) /\ StartingClades # {}
    BY FoundersStart
<1>2. m \in StartingClades /\ \A c \in StartingClades : c <= m
    BY <1>1, GreatestOfNats
<1> HIDE DEF m
<1>3. m \in Nat /\ \A c \in StartingClades : c \in Nat /\ c < m + 1
    BY <1>1, <1>2
<1> QED BY <1>3 DEF m

\* The first world is a world.
LEMMA GenesisIsAWorld == Genesis \in Worlds
<1>1. Terrain \in [Cells -> Biome]
    BY WorldAssumption
<1>2. [c \in Cells |-> IF c \in DOMAIN Rifts THEN "crack" ELSE "none"] \in [Cells -> DOMAIN Rank]
    BY DEF Rank
<1> DEFINE organisms == [i \in DOMAIN Founders |-> Founders[i]]
           one(c) == [parent |-> 0, second |-> 0, founded |-> 0,
                      living |-> StartingSize(c), peak |-> StartingSize(c)]
           clades == [c \in StartingClades |-> one(c)]
<1>3. organisms \in Table(Organism)
    <2>1. organisms \in [DOMAIN Founders -> Organism]
        BY FoundersStart
    <2> HIDE DEF organisms
    <2> QED BY <2>1, FoundersStart, IsTable
<1>4. clades \in Table(Clade)
    <2>1. \A c \in StartingClades : one(c) \in Clade
        BY FoundersStart DEF Clade
    <2> HIDE DEF one
    <2>2. clades \in [StartingClades -> Clade]
        BY <2>1
    <2> HIDE DEF clades
    <2> QED BY <2>2, FoundersStart, IsTable
<1>5. Len(Founders) + 1 \in Nat /\ Max(StartingClades) + 1 \in Nat
    BY FoundersStart, LatestStart
<1>6. <<>> \in Seq(AreaEffect) /\ <<>> \in Seq(CladeEffect) /\ <<>> \in Seq(Cooldown)
      /\ <<>> \in Seq(Exhibit) /\ <<>> \in Seq(Nat)
    OBVIOUS
<1> HIDE DEF organisms, clades
<1> QED BY <1>1, <1>2, <1>3, <1>4, <1>5, <1>6 DEF Worlds, Genesis, organisms, clades

\* It is sound, its rifts are on schedule, and nobody is harmed.
LEMMA GenesisHeld == Held(Genesis, "rifts", 0, DOMAIN Founders, {}, [c \in {} |-> 0])
<1> DEFINE D == DOMAIN Founders
           g == Genesis
           ends == [c \in {} |-> 0]
<1>1. g \in Worlds
    BY GenesisIsAWorld
<1>2. /\ DOMAIN g.organisms = D /\ \A i \in D : g.organisms[i] = Founders[i]
      /\ g.nextOrganism = Len(Founders) + 1 /\ g.nextClade = Max(StartingClades) + 1
      /\ g.museum = <<>> /\ g.cladeEffects = <<>> /\ g.epoch = 0 /\ g.biome = Terrain
    BY DEF Genesis
<1>3. /\ DOMAIN g.clades = StartingClades
      /\ \A c \in StartingClades :
            g.clades[c].living = StartingSize(c) /\ g.clades[c].peak = StartingSize(c)
    BY DEF Genesis
<1>4. g.rift = [c \in Cells |-> IF c \in DOMAIN Rifts THEN "crack" ELSE "none"]
    BY DEF Genesis
<1> HIDE DEF g
<1>5. ends \in Table(Nat) /\ DOMAIN ends = {}
    <2>1. ends \in [{} -> Nat] /\ {} \in SUBSET Nat /\ IsFiniteSet({})
        BY FS_EmptySet
    <2> HIDE DEF ends
    <2>2. ends \in Table(Nat)
        BY <2>1, IsTable
    <2> QED BY <2>1, <2>2
<1> HIDE DEF ends
<1>6. Fits(g, D)
    <2>1. \A c : Standing(g, D, c) = {i \in D : Founders[i].cell = c}
        BY <1>2 DEF Standing
    <2>2. \A c \in Cells : Cardinality({i \in D : Founders[i].cell = c}) <= Rules.max_per_cell
        BY WorldAssumption
    <2>3. Cardinality(D) <= Rules.max_organisms
        BY WorldAssumption, FoundersStart
    <2> QED BY <2>1, <2>2, <2>3 DEF Fits
<1>7. Dry(g, D)
    BY <1>2, WorldAssumption DEF Dry, Passable
<1>8. Booked(g, D) /\ AllLive(g)
    <2>1. \A o \in D : o < g.nextOrganism /\ g.organisms[o].clade \in DOMAIN g.clades
        BY <1>2, <1>3, FoundersStart DEF StartingClades
    <2>2. \A c : Cardinality(MembersIn(g, D, c)) = StartingSize(c)
        <3>1. \A c : MembersIn(g, D, c) = {i \in D : Founders[i].clade = c}
            BY <1>2 DEF MembersIn
        <3> QED BY <3>1 DEF StartingSize
    <2>3. \A c \in StartingClades : c < g.nextClade
        BY <1>2, LatestStart
    <2>4. DOMAIN g.museum = {}
        BY <1>2
    <2>5. AllLive(g)
        BY <1>3, FoundersStart DEF AllLive
    <2>6. \A c \in DOMAIN g.clades :
              /\ c < g.nextClade
              /\ g.clades[c].living = Cardinality(MembersIn(g, D, c))
              /\ g.clades[c].peak >= g.clades[c].living
        <3>1. \A c : StartingSize(c) \in Nat /\ StartingSize(c) >= StartingSize(c)
            BY FoundersStart
        <3> QED BY <1>3, <2>2, <2>3, <3>1
    <2> QED BY <1>2, <2>1, <2>4, <2>5, <2>6 DEF Booked
<1>9. RiftsBehind(g)
    <2> SUFFICES ASSUME NEW c \in DOMAIN Rifts
                 PROVE  /\ g.rift[c] = "crack" /\ Terrain[c] # "deep"
                        /\ Rank["crack"] <= Rank[phase_at(c, 0)]
        BY <1>2 DEF RiftsBehind
    <2>1. g.rift[c] = "crack"
        BY <1>4, RulesAssumption
    <2>2. Terrain[c] # "deep"
        BY WorldAssumption
    <2>3. Rank["crack"] <= Rank[phase_at(c, 0)]
        <3>1. phase_at(c, 0) \in Reached
            BY SchedulesRise
        <3> QED BY <3>1, RanksAreNumbers DEF Reached
    <2> QED BY <2>1, <2>2, <2>3
<1>10. Resting(g, 0, ends)
    <2>1. Harms(g) = {}
        BY <1>2 DEF Harms
    <2> QED BY <1>5, <2>1 DEF Resting, OneHarm, HarmedRest, HealedRest
<1>11. 0 \in 0..(Rules.ticks_per_epoch - 1)
    BY RulesAreNumbers
<1> QED BY <1>1, <1>2, <1>5, <1>6, <1>7, <1>8, <1>9, <1>10, <1>11 DEF Held, Phases, g, ends
-----------------------------------------------------------------------------
(* Every step. *)

\* The invariant holds at the beginning.
LEMMA InitHolds == Init => IInv
<1> SUFFICES ASSUME Init PROVE IInv
    OBVIOUS
<1>1. world = Genesis
    BY DEF Init, Genesis, StartingClades, StartingSize
<1>2. phase = "rifts" /\ tick = 0 /\ alive = DOMAIN Founders /\ todo = {}
      /\ harmEnd = [c \in {} |-> 0]
    BY DEF Init
<1>3. Held(world, phase, tick, alive, todo, harmEnd)
    BY <1>1, <1>2, GenesisHeld
<1> QED BY <1>2, <1>3 DEF Held, IInv, TypesHold, Settled, AtBoundary, Past

\* A step that changes nothing.
LEMMA StutterHolds ==
    ASSUME IInv, UNCHANGED vars
    PROVE  IInv' /\ HarmedNow(world') \subseteq HarmedNow(world)
<1>1. /\ world' = world /\ phase' = phase /\ tick' = tick /\ alive' = alive /\ todo' = todo
      /\ harmEnd' = harmEnd
    BY DEF vars
<1>2. IInv'
    BY <1>1, HeldNow, HeldNext
<1> QED BY <1>1, <1>2

\* Harms that ran before are no news.
LEMMA OldHarmsAllowed ==
    ASSUME IInv, HarmedNow(world') \subseteq HarmedNow(world)
    PROVE  \A c \in HarmedNow(world') : Allowed(world, harmEnd, c)
BY InTick, HarmedClades DEF Allowed

\* Every step keeps the invariant, and harms a clade only when it may.
LEMMA StepHolds ==
    ASSUME IInv, [Next]_vars
    PROVE  IInv' /\ \A c \in HarmedNow(world') : Allowed(world, harmEnd, c)
<1>1. CASE rift_changes
    BY <1>1, RiftChangesHolds, OldHarmsAllowed
<1>2. CASE natural_events
    BY <1>2, NaturalEventsHolds, OldHarmsAllowed
<1>3. CASE plague
    BY <1>3, PlagueHolds, OldHarmsAllowed
<1>4. CASE natural_weather
    BY <1>4, NaturalWeatherHolds
<1>5. CASE miracles
    BY <1>5, MiraclesHolds
<1>6. CASE natural_revival
    BY <1>6, NaturalRevivalHolds
<1>7. CASE environment
    BY <1>7, EnvironmentHolds, OldHarmsAllowed
<1>8. ASSUME NEW o \in alive, act(o) PROVE IInv' /\ HarmedNow(world') \subseteq HarmedNow(world)
    BY <1>8, ActHolds
<1>9. ASSUME NEW o \in alive, birth(o) PROVE IInv' /\ HarmedNow(world') \subseteq HarmedNow(world)
    BY <1>9, BirthHolds
<1>10. CASE energy
    BY <1>10, EnergyHolds, OldHarmsAllowed
<1>11. CASE end_tick
    BY <1>11, EndTickHolds, OldHarmsAllowed
<1>12. CASE UNCHANGED vars
    BY <1>12, StutterHolds, OldHarmsAllowed
<1> QED BY <1>1, <1>2, <1>3, <1>4, <1>5, <1>6, <1>7, <1>8, <1>9, <1>10, <1>11, <1>12,
           OldHarmsAllowed
        DEF Next, step_epoch, run_tick, wait

\* The invariant holds at every step.
THEOREM WorldIsSound == Spec => []IInv
<1>1. Init => IInv
    BY InitHolds
<1>2. IInv /\ [Next]_vars => IInv'
    BY StepHolds
<1> QED BY <1>1, <1>2, PTL DEF Spec

\* Once the rifts of an epoch have moved every cell of the schedule is in its
\* phase, and its biome agrees.
THEOREM RiftsKeepTheirSchedule == Spec => []RiftsOnSchedule
<1>1. IInv => RiftsOnSchedule
    BY DEF IInv, RiftsOnSchedule, RiftsBehind, RiftsThere
<1> QED BY <1>1, WorldIsSound, PTL

\* Each clade knows how many of its members live, nobody outlives its clade,
\* and an extinct clade is gone for good.
THEOREM CladesAreCounted == Spec => []CladesCount
<1>1. IInv => CladesCount
    <2> SUFFICES ASSUME IInv PROVE CladesCount
        OBVIOUS
    <2>1. Booked(world, alive) /\ (Settled => AllLive(world))
        BY DEF IInv
    <2>2. \A c : Members(c) = MembersIn(world, alive, c)
        BY DEF Members, MembersIn
    <2> QED BY <2>1, <2>2 DEF CladesCount, Booked, AllLive
<1> QED BY <1>1, WorldIsSound, PTL

\* No cell and no world is ever too full, and nobody lives in deep water.
THEOREM ThereIsRoomForAll == Spec => []RoomForAll
<1>1. IInv => RoomForAll
    BY DEF IInv, RoomForAll, Fits, Standing, Crowd, Dry
<1> QED BY <1>1, WorldIsSound, PTL

\* One harm at a time runs against a clade, and after it the clade has its rest.
THEOREM HarmsLeaveARest == Spec => HarmRests
<1> DEFINE Step == /\ \A c \in NewHarm \cap DOMAIN harmEnd :
                          world.epoch >= harmEnd[c] + 1 + Rules.harm_respite_epochs
                   /\ \A c \in HarmedNow(world') :
                          Cardinality({i \in DOMAIN world'.cladeEffects :
                              /\ world'.cladeEffects[i].clade = c
                              /\ is_harm(world'.cladeEffects[i].kind)}) = 1
<1>1. IInv /\ [Next]_vars => Step
    <2> SUFFICES ASSUME IInv, [Next]_vars PROVE Step
        OBVIOUS
    <2>1. IInv' /\ \A c \in HarmedNow(world') : Allowed(world, harmEnd, c)
        BY StepHolds
    <2>2. world \in Worlds
        BY InTick
    <2>3. ASSUME NEW c \in NewHarm \cap DOMAIN harmEnd
          PROVE  world.epoch >= harmEnd[c] + 1 + Rules.harm_respite_epochs
        BY <2>1, <2>2, HarmedClades DEF NewHarm, Allowed
    <2>4. ASSUME NEW c \in HarmedNow(world')
          PROVE  Cardinality({i \in DOMAIN world'.cladeEffects :
                                 /\ world'.cladeEffects[i].clade = c
                                 /\ is_harm(world'.cladeEffects[i].kind)}) = 1
        <3> DEFINE those == {i \in DOMAIN world'.cladeEffects :
                                 /\ world'.cladeEffects[i].clade = c
                                 /\ is_harm(world'.cladeEffects[i].kind)}
        <3>1. PICK i \in Harms(world') : world'.cladeEffects[i].clade = c
            BY <2>4 DEF HarmedNow, Harms
        <3>2. \A j \in Harms(world') : world'.cladeEffects[j].clade = c => j = i
            BY <2>1, <3>1 DEF IInv, Resting, OneHarm, Harms
        <3>3. those = {i}
            BY <3>1, <3>2 DEF Harms
        <3> HIDE DEF those
        <3>4. Cardinality(those) = 1
            BY <3>3, FS_Singleton
        <3> QED BY <3>4 DEF those
    <2> QED BY <2>3, <2>4
<1>2. Spec => [][Step]_vars
    <2> HIDE DEF Step
    <2> QED BY <1>1, WorldIsSound, PTL DEF Spec
<1> QED BY <1>2, PTL DEF HarmRests
-----------------------------------------------------------------------------
(* The price and the check of a patron's action. *)

\* The reason of a refusal is the first that holds.
LEMMA FirstIsLeast ==
    ASSUME NEW reasons, DOMAIN reasons \in SUBSET Nat
    PROVE  \/ FirstOf(reasons) = OK /\ \A i \in DOMAIN reasons : ~reasons[i][1]
           \/ \E i \in DOMAIN reasons :
                 /\ reasons[i][1] /\ FirstOf(reasons) = reasons[i][2]
                 /\ \A j \in DOMAIN reasons : j < i => ~reasons[j][1]
<1> DEFINE hit == {i \in DOMAIN reasons : reasons[i][1]}
<1>1. FirstOf(reasons) = IF hit = {} THEN OK ELSE reasons[Min(hit)][2]
    BY DEF FirstOf
<1>2. hit \in SUBSET Nat
    OBVIOUS
<1>3. CASE hit = {}
    BY <1>1, <1>3
<1>4. CASE hit # {}
    <2>1. Min(hit) \in hit /\ \A j \in hit : Min(hit) <= j
        <3> HIDE DEF hit
        <3> QED BY <1>2, <1>4, LeastNumber DEF Min
    <2>2. \A j \in DOMAIN reasons : j < Min(hit) => ~reasons[j][1]
        <3> SUFFICES ASSUME NEW j \in DOMAIN reasons, j < Min(hit), reasons[j][1] PROVE FALSE
            OBVIOUS
        <3>1. j \in hit
            OBVIOUS
        <3> HIDE DEF hit
        <3>2. Min(hit) <= j /\ j \in Nat /\ Min(hit) \in Nat
            BY <1>2, <2>1, <3>1
        <3> QED BY <3>2
    <2>3. Min(hit) \in DOMAIN reasons /\ reasons[Min(hit)][1]
        BY <2>1
    <2>4. FirstOf(reasons) = reasons[Min(hit)][2]
        BY <1>1, <1>4
    <2> HIDE DEF hit
    <2> QED BY <2>2, <2>3, <2>4
<1> QED BY <1>3, <1>4

Near(w, c, place) ==
    Cardinality(members_near(w, c, place, Rules.target_radius)) >= Rules.min_members

\* What the check says of an action on a clade that lives around the place.
LEMMA VerdictOnPatrons ==
    ASSUME NEW w \in Worlds, NEW m, m.kind \in CladeActions, m.at \in Cells,
           LivingOf(w, m.clade) # 0, Near(w, m.clade, m.at)
    PROVE  /\ ~Rules.patrons => CheckClade(w, m) = "no patrons in these rules"
           /\ Rules.patrons =>
                 /\ CheckClade(w, m) \in {OK, "the clade was cured recently",
                                          "the area overlaps an active effect",
                                          "the clade is protected",
                                          "the clade rests from harm",
                                          "the clade was gifted recently"}
                 /\ m.kind \in Harm => (CheckClade(w, m) = "the clade is protected"
                                            <=> Protected(w, m.clade))
           /\ CheckClade(w, m) = "the clade is protected" => m.kind \in Harm
<1> DEFINE A1 == ~Rules.patrons
           A2 == m.at \notin Cells
           A3 == LivingOf(w, m.clade) = 0
           A4 == Cardinality(members_near(w, m.clade, m.at, Rules.target_radius))
                     < Rules.min_members
           A5 == m.kind = "cure" /\ CoolingKey(w, "cure", m.clade)
           A6 == m.kind \in Easing /\ EasedNearby(w, m)
           A7 == is_harm(m.kind) /\ Protected(w, m.clade)
           A8 == is_harm(m.kind) /\ CoolingKey(w, "respite", m.clade)
           A9 == m.kind = "gift" /\ CoolingKey(w, "gift", m.clade)
           list == << <<A1, "no patrons in these rules">>,
                      <<A2, "outside the map">>,
                      <<A3, "no such living clade">>,
                      <<A4, "too few of the clade in the area">>,
                      <<A5, "the clade was cured recently">>,
                      <<A6, "the area overlaps an active effect">>,
                      <<A7, "the clade is protected">>,
                      <<A8, "the clade rests from harm">>,
                      <<A9, "the clade was gifted recently">> >>
<1>1. CheckClade(w, m) = FirstOf(list)
    BY DEF CheckClade
<1>2. ~A2 /\ ~A3
    OBVIOUS
<1>3. ~A4
    <2>1. IsFiniteSet(DOMAIN w.organisms)
        BY MembersAreFinite
    <2>2. members_near(w, m.clade, m.at, Rules.target_radius) \in SUBSET DOMAIN w.organisms
        BY DEF members_near
    <2>3. Cardinality(members_near(w, m.clade, m.at, Rules.target_radius)) \in Nat
        BY <2>1, <2>2, NoMore
    <2>4. Rules.min_members \in Nat
        BY RulesAssumption DEF Unsigned
    <2> QED BY <2>3, <2>4 DEF Near
<1>4. m.kind \in Harm => (A7 <=> Protected(w, m.clade)) /\ ~A5 /\ ~A6
    BY DEF is_harm, Harm, Easing
<1>5. A7 => Protected(w, m.clade) /\ m.kind \in Harm
    BY DEF is_harm
<1>6. A1 <=> ~Rules.patrons
    OBVIOUS
<1> HIDE DEF A1, A2, A3, A4, A5, A6, A7, A8, A9
<1>7. DOMAIN list \in SUBSET Nat /\ DOMAIN list = 1..9 /\ 1 \in DOMAIN list /\ 7 \in DOMAIN list
    OBVIOUS
<1>8. /\ (list[1][1] <=> A1) /\ list[1][2] = "no patrons in these rules"
      /\ (list[2][1] <=> A2) /\ list[2][2] = "outside the map"
      /\ (list[3][1] <=> A3) /\ list[3][2] = "no such living clade"
      /\ (list[4][1] <=> A4) /\ list[4][2] = "too few of the clade in the area"
      /\ (list[5][1] <=> A5) /\ list[5][2] = "the clade was cured recently"
      /\ (list[6][1] <=> A6) /\ list[6][2] = "the area overlaps an active effect"
      /\ (list[7][1] <=> A7) /\ list[7][2] = "the clade is protected"
      /\ (list[8][1] <=> A8) /\ list[8][2] = "the clade rests from harm"
      /\ (list[9][1] <=> A9) /\ list[9][2] = "the clade was gifted recently"
    OBVIOUS
<1> HIDE DEF list
<1>9. \A i \in 1..9 : i = 1 \/ i = 2 \/ i = 3 \/ i = 4 \/ i = 5
                    \/ i = 6 \/ i = 7 \/ i = 8 \/ i = 9
    OBVIOUS
<1>10. CASE FirstOf(list) = OK /\ \A i \in DOMAIN list : ~list[i][1]
    <2>1. ~list[1][1] /\ ~list[7][1]
        BY <1>7, <1>10
    <2>3. ~A1 /\ ~A7
        BY <1>8, <2>1
    <2>2. OK # "the clade is protected"
        BY DEF OK
    <2> QED BY <1>1, <1>4, <1>6, <1>10, <2>2, <2>3
<1>11. CASE \E i \in DOMAIN list :
               /\ list[i][1] /\ FirstOf(list) = list[i][2]
               /\ \A j \in DOMAIN list : j < i => ~list[j][1]
    <2>1. PICK i \in DOMAIN list :
               /\ list[i][1] /\ FirstOf(list) = list[i][2]
               /\ \A j \in DOMAIN list : j < i => ~list[j][1]
        BY <1>11
    <2>2. i \in 1..9 /\ (i = 1 \/ i = 5 \/ i = 6 \/ i = 7 \/ i = 8 \/ i = 9)
        BY <1>2, <1>3, <1>7, <1>8, <1>9, <2>1
    <2>3. ~Rules.patrons => i = 1
        <3>1. 1 < i => ~list[1][1]
            BY <1>7, <2>1
        <3>2. ~(1 < i) => i = 1
            BY <2>2
        <3> QED BY <1>6, <1>8, <3>1, <3>2
    <2>4. Rules.patrons => i \in {5, 6, 7, 8, 9}
        <3>1. i = 1 => list[1][1]
            BY <2>1
        <3> QED BY <1>6, <1>8, <2>2, <3>1
    <2>5. Rules.patrons /\ m.kind \in Harm =>
              (FirstOf(list) = "the clade is protected" <=> Protected(w, m.clade))
        <3> SUFFICES ASSUME Rules.patrons, m.kind \in Harm
                     PROVE  FirstOf(list) = "the clade is protected" <=> Protected(w, m.clade)
            OBVIOUS
        <3>1. i \in {7, 8, 9}
            BY <1>4, <1>8, <2>1, <2>4
        <3>2. A7 => i = 7
            <4>1. 7 < i => ~list[7][1]
                BY <1>7, <2>1
            <4>2. ~(7 < i) => i = 7
                BY <3>1
            <4> QED BY <1>8, <4>1, <4>2
        <3>3. i = 7 => A7
            BY <1>8, <2>1
        <3>4. FirstOf(list) = "the clade is protected" <=> i = 7
            BY <1>8, <2>1, <3>1
        <3> QED BY <1>4, <3>2, <3>3, <3>4
    <2>6. Rules.patrons =>
              FirstOf(list) \in {"the clade was cured recently",
                                 "the area overlaps an active effect",
                                 "the clade is protected", "the clade rests from harm",
                                 "the clade was gifted recently"}
        BY <1>8, <2>1, <2>4
    <2>7. ~Rules.patrons => FirstOf(list) = "no patrons in these rules"
        BY <1>8, <2>1, <2>3
    <2>8. FirstOf(list) = "the clade is protected" => m.kind \in Harm
        BY <1>5, <1>8, <2>1, <2>2
    <2> QED BY <1>1, <2>5, <2>6, <2>7, <2>8
<1> QED BY <1>7, <1>10, <1>11, FirstIsLeast
\* A share rounded down and a product draw the line at the same place.
LEMMA ShareOrProduct ==
    ASSUME NEW a \in Nat, NEW p \in Nat \ {0}, NEW k \in Nat
    PROVE  (a \div p) \in Nat /\ (a \div p < k <=> a < k * p)
<1> DEFINE q == a \div p
           r == a % p
<1>1. q \in Nat /\ r \in Nat /\ r < p /\ a = p * q + r
    OBVIOUS
<1> HIDE DEF q, r
<1>2. ASSUME q < k PROVE a < k * p
    <2> DEFINE d == k - q - 1
    <2>1. d \in Nat /\ k = q + 1 + d
        BY <1>1, <1>2
    <2> HIDE DEF d
    <2>2. k * p = p * q + p + p * d
        BY <1>1, <2>1
    <2>3. p * d \in Nat /\ p * q \in Nat
        BY <1>1, <2>1
    <2> DEFINE x == p * q
               y == p * d
    <2>4. x \in Nat /\ y \in Nat /\ a = x + r /\ k * p = x + p + y
        BY <1>1, <2>2, <2>3
    <2> HIDE DEF x, y
    <2>5. a < x + p + y
        BY <1>1, <2>4
    <2> QED BY <2>4, <2>5
<1>3. ASSUME ~(q < k) PROVE ~(a < k * p)
    <2> DEFINE d == q - k
    <2>1. d \in Nat /\ q = k + d
        BY <1>1, <1>3
    <2> HIDE DEF d
    <2>2. p * q = k * p + p * d
        BY <1>1, <2>1
    <2>3. p * d \in Nat /\ k * p \in Nat
        BY <1>1, <2>1
    <2> DEFINE x == k * p
               y == p * d
    <2>4. x \in Nat /\ y \in Nat /\ a = x + y + r
        BY <1>1, <2>2, <2>3
    <2> HIDE DEF y
    <2> HIDE DEF x
    <2>5. ~(a < x)
        BY <1>1, <2>4
    <2> QED BY <2>5 DEF x
<1> QED BY <1>1, <1>2, <1>3 DEF q

\* A harm has a price exactly when its clade is not protected.
LEMMA PriceOfHarm ==
    ASSUME NEW w \in Worlds, NEW m, m.kind \in Harm, Rules.patrons,
           LivingOf(w, m.clade) \in Nat, Population(w) \in Nat \ {0}
    PROVE  price_share(w, m) # 0 <=> ~Protected(w, m.clade)
<1> DEFINE living == LivingOf(w, m.clade)
           p == Population(w)
           share == ShareOf(w, m.clade)
           k == Rules.protect_min_permille
           low == Rules.protect_min_living
<1>1. k \in Nat /\ low \in Nat
    BY RulesAssumption DEF Unsigned
<1>2. living * 1000 \in Nat
    OBVIOUS
<1>3. share = (living * 1000) \div p
    BY DEF ShareOf
<1> HIDE DEF k, p, living, low, share
<1>4. living \in Nat /\ p \in Nat \ {0}
    BY DEF living, p
<1>5. share \in Nat /\ (share < k <=> living * 1000 < k * p)
    BY <1>1, <1>2, <1>3, <1>4, ShareOrProduct
<1>6. Protected(w, m.clade) <=> (living < low \/ share < k)
    BY <1>5 DEF Protected, living, k, p, low
<1>7. price_share(w, m) = share_mult(m.kind, share, living)
    <2>1. m.kind \notin {"weather", "migrate", "revive", "hybrid"}
        BY DEF Harm
    <2> QED BY <2>1 DEF price_share, share, living
<1>8. share_mult(m.kind, share, living) # 0 <=> ~(living < low \/ share < k)
    <2>1. is_harm(m.kind)
        BY DEF is_harm
    <2>2. CASE living < low \/ share < k
        BY <2>1, <2>2 DEF share_mult, low, k
    <2>3. CASE ~(living < low \/ share < k)
        <3> DEFINE price == CASE share < 50 -> 400
                              [] share \in 50..99 -> 200
                              [] share \in 100..199 -> 100
                              [] OTHER -> 75
        <3>1. share_mult(m.kind, share, living) = price
            BY <2>1, <2>3 DEF share_mult, low, k
        <3>2. price # 0
            <4>1. CASE share < 50
                <5>1. share \notin 50..99 /\ share \notin 100..199
                    BY <1>5, <4>1
                <5> QED BY <4>1, <5>1
            <4>2. CASE share \in 50..99
                <5>1. ~(share < 50) /\ share \notin 100..199
                    BY <1>5, <4>2
                <5> QED BY <4>2, <5>1
            <4>3. CASE share \in 100..199
                <5>1. ~(share < 50) /\ share \notin 50..99
                    BY <1>5, <4>3
                <5> QED BY <4>3, <5>1
            <4>4. CASE ~(share < 50) /\ share \notin 50..99 /\ share \notin 100..199
                BY <4>4
            <4> QED BY <4>1, <4>2, <4>3, <4>4
        <3> QED BY <2>3, <3>1, <3>2
    <2> QED BY <2>2, <2>3
<1> QED BY <1>6, <1>7, <1>8

\* Without patrons their actions have no price.
LEMMA NoPatronsNoPrice ==
    ASSUME NEW w, NEW m, m.kind \in CladeActions, ~Rules.patrons
    PROVE  price_share(w, m) = 0
<1>1. m.kind \notin {"weather", "migrate", "revive", "hybrid"}
    BY DEF CladeActions, Easing, Harm
<1> QED BY <1>1 DEF price_share

\* A clade of a sound world has living members.
LEMMA CladesLiveOn ==
    ASSUME NEW w, Sound(w), NEW c \in DOMAIN w.clades
    PROVE  /\ LivingOf(w, c) \in Nat /\ LivingOf(w, c) # 0
           /\ Population(w) \in Nat \ {0}
<1> DEFINE D == DOMAIN w.organisms
           M == MembersIn(w, D, c)
<1>1. LivingOf(w, c) = Cardinality(M) /\ w.clades[c].living > 0
    BY DEF Sound, Booked, AllLive, LivingOf
<1>2. IsFiniteSet(D) /\ M \in SUBSET D
    BY MembersAreFinite DEF Sound, MembersIn
<1> HIDE DEF M, D
<1>3. Cardinality(M) \in Nat /\ Cardinality(D) \in Nat /\ Cardinality(M) <= Cardinality(D)
    BY <1>2, NoMore
<1>4. LivingOf(w, c) # 0
    BY <1>1, <1>3 DEF LivingOf
<1>5. Cardinality(D) # 0
    BY <1>1, <1>3, <1>4
<1> QED BY <1>1, <1>3, <1>4, <1>5 DEF Population, D

\* Between epochs the price and the check agree on who is protected, and what
\* has a price is refused at most for now.
THEOREM PriceAndCheckAgree == Spec => []PricedIffOpen
<1>1. IInv => PricedIffOpen
    <2> SUFFICES ASSUME IInv, phase = "rifts",
                        NEW c \in DOMAIN world.clades, NEW place \in Cells,
                        Cardinality(members_near(world, c, place, Rules.target_radius))
                            >= Rules.min_members,
                        NEW kind \in CladeActions
                 PROVE  LET deed == [kind |-> kind, clade |-> c, at |-> place]
                            refusal == check_wish(world, deed)
                            priced == price_share(world, deed) # 0
                        IN /\ kind \in Harm =>
                                  (priced <=> refusal \notin {"no patrons in these rules",
                                                            "the clade is protected"})
                           /\ priced => refusal = OK \/ is_transient(refusal)
        BY DEF PricedIffOpen
    <2> DEFINE deed == [kind |-> kind, clade |-> c, at |-> place]
               refusal == check_wish(world, deed)
               priced == price_share(world, deed) # 0
    <2>1. deed.kind = kind /\ deed.clade = c /\ deed.at = place
        OBVIOUS
    <2>2. Sound(world)
        BY AtRest DEF AtBoundary
    <2>3. /\ LivingOf(world, c) \in Nat /\ LivingOf(world, c) # 0
          /\ Population(world) \in Nat \ {0}
        BY <2>2, CladesLiveOn
    <2>4. refusal = CheckClade(world, deed)
        <3>1. kind \notin {"weather", "migrate", "revive", "hybrid"}
            BY DEF CladeActions, Easing, Harm
        <3> QED BY <2>1, <3>1 DEF check_wish, check
    <2> HIDE DEF deed, refusal
    <2>5. /\ ~Rules.patrons => refusal = "no patrons in these rules"
          /\ Rules.patrons =>
                 /\ refusal \in {OK, "the clade was cured recently",
                                 "the area overlaps an active effect",
                                 "the clade is protected",
                                 "the clade rests from harm",
                                 "the clade was gifted recently"}
                 /\ kind \in Harm => (refusal = "the clade is protected" <=> Protected(world, c))
          /\ refusal = "the clade is protected" => kind \in Harm
        BY <2>1, <2>2, <2>3, <2>4, VerdictOnPatrons DEF Near, Sound
    <2>6. CASE ~Rules.patrons
        <3>1. ~priced
            BY <2>1, <2>6, NoPatronsNoPrice
        <3> QED BY <2>5, <2>6, <3>1 DEF deed, refusal
    <2>7. CASE Rules.patrons
        <3>1. kind \in Harm => (priced <=> ~Protected(world, c))
            BY <2>1, <2>2, <2>3, <2>7, PriceOfHarm DEF Sound
        <3>2. kind \in Harm \/ kind \notin Harm
            OBVIOUS
        <3> HIDE DEF priced
        <3>3. refusal # "no patrons in these rules"
            BY <2>5, <2>7 DEF OK
        <3>4. kind \notin Harm => refusal # "the clade is protected"
            BY <2>5
        <3>5. kind \in Harm => (priced <=> refusal \notin {"no patrons in these rules",
                                                         "the clade is protected"})
            BY <2>5, <2>7, <3>1, <3>3
        <3>6. priced => refusal # "the clade is protected"
            BY <3>4, <3>5
        <3>7. priced => refusal = OK \/ is_transient(refusal)
            BY <2>5, <2>7, <3>6 DEF is_transient
        <3> QED BY <3>5, <3>7 DEF priced, deed, refusal
    <2> QED BY <2>6, <2>7
<1> QED BY <1>1, WorldIsSound, PTL
=============================================================================
