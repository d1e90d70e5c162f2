--------------------------- MODULE HistoryProofs ---------------------------
(***************************************************************************)
(* Proofs about module History, for every value of its constants, any      *)
(* genomes, any courses of epochs and any restarts:                        *)
(*                                                                         *)
(*   RestartsUndo        a rollback undoes what record_epoch wrote         *)
(*   TablesShowTheWorld  the tables show the world that runs               *)
(*   NamesStayForever    a saved name never changes                        *)
(*   NewsTellsAll        the feed tells of every new leader, and the bot   *)
(*                       of every event its cursor has passed              *)
(*   NoStoryTwice        what comes once is told once                      *)
(*                                                                         *)
(* The first three rest on one inductive invariant, IInv: the tables a     *)
(* snapshot was saved with are Good, they show its world; the tables now,  *)
(* rolled back, would be those; and wherever the loop works on a world,    *)
(* the tables are Good for it.  The lemmas follow an epoch through the     *)
(* simulation (Follows), record_epoch (EpochGood), rollback_after and      *)
(* backfill_names (Backfilled).                                            *)
(*                                                                         *)
(* The last two rest on a second one, NewsInv, which needs the first: the  *)
(* tables Hold (they tell of leaders as the headers do, and nothing        *)
(* twice), the detectors' memory GoesOn from them (it has the leader of    *)
(* the last hour, and knows what was told of whoever lives), so do the     *)
(* kept tables and the snapshot's memory, and the bot has told what its    *)
(* cursor has passed.  The lemmas are of an epoch (FeedAfterEpoch,         *)
(* StoriesAfterEpoch, NumbersGoOn) and of a page (PageIsComplete).         *)
(***************************************************************************)
EXTENDS History, Induction, FiniteSetTheorems, SequenceTheorems

-----------------------------------------------------------------------------
(* What an epoch does to the world. *)

\* The clades of an epoch, living or not at its end.
All(v, report) == [c \in DOMAIN v.clades \cup DOMAIN report.extinct |->
                      IF c \in DOMAIN v.clades THEN v.clades[c] ELSE report.extinct[c]]

\* Who was there lives or has died, and who has come has the next numbers.
Population(w, v, report) ==
    LET all == v.organisms \cup report.died
    IN /\ w.next_organism_id <= v.next_organism_id
       /\ w.organisms \subseteq all /\ v.organisms \cap report.died = {}
       /\ \A o \in all : o \in w.organisms \/ o.id \in w.next_organism_id..(v.next_organism_id - 1)
       /\ \A i \in w.next_organism_id..(v.next_organism_id - 1) : \E o \in all : o.id = i
       /\ \A o, p \in all : o.id = p.id => o = p

\* New clades have the next numbers; the others are the same, but for their counts.
Genealogy(w, v, founded, clades) ==
    /\ w.next_clade_id <= v.next_clade_id
    /\ founded = w.next_clade_id..(v.next_clade_id - 1)
    /\ DOMAIN clades = DOMAIN w.clades \cup founded
    /\ \A c \in founded : clades[c].founded = w.epoch
    /\ \A c \in DOMAIN w.clades :
          /\ clades[c].parent = w.clades[c].parent
          /\ clades[c].founded = w.clades[c].founded
          /\ clades[c].reference = w.clades[c].reference
          /\ w.clades[c].peak <= clades[c].peak

\* An epoch that has begun.
Underway(w, st) ==
    /\ st = [world |-> st.world, dying |-> st.dying, report |-> st.report]
    /\ st.report = [founded |-> st.report.founded, extinct |-> <<>>, died |-> st.report.died,
                    bridges_closed |-> st.report.bridges_closed, revival |-> st.report.revival]
    /\ Sound(st.world) /\ st.world.epoch = w.epoch
    /\ Population(w, st.world, st.report)
    /\ Genealogy(w, st.world, st.report.founded, st.world.clades)

\* Who lives of a clade.
Of(w, c) == {o \in w.organisms : o.clade = c}

\* A clade of the simulation in epoch e.
CladeRecord(e) == [parent : Nat, founded : 0..e, reference : DOMAIN Combo, living : Nat, peak : Nat]

\* The members of a clade can be counted (state.rs: the organisms are a vector).
LEMMA CladesLive ==
    ASSUME NEW w, Sound(w), NEW c
    PROVE  IsFiniteSet(Of(w, c)) /\ Cardinality(Of(w, c)) \in Nat
<1>1. Of(w, c) \in SUBSET w.organisms /\ IsFiniteSet(w.organisms)
    BY DEF Of, Sound
<1> QED BY <1>1, FS_Subset, FS_CardinalityType

\* The members of a clade without some organisms.
LEMMA Fewer ==
    ASSUME NEW S, IsFiniteSet(S), NEW T
    PROVE  /\ IsFiniteSet(S \ T) /\ Cardinality(S \ T) \in Nat
           /\ Cardinality(S \ T) = Cardinality(S) - Cardinality(S \cap T)
           /\ Cardinality(S \cap T) \in Nat
<1>1. S \cap T \in SUBSET S
    OBVIOUS
<1>2. IsFiniteSet(S \cap T)
    BY <1>1, FS_Subset
<1> QED BY <1>2, FS_Difference, FS_CardinalityType

\* A world and a report with other fields.
IsWorld(w) == w = [epoch |-> w.epoch, organisms |-> w.organisms, clades |-> w.clades,
                   next_organism_id |-> w.next_organism_id, next_clade_id |-> w.next_clade_id]
IsReport(r) == r = [founded |-> r.founded, extinct |-> r.extinct, died |-> r.died,
                    bridges_closed |-> r.bridges_closed, revival |-> r.revival]

\* A world after an assignment to its organisms and clades.
LEMMA OtherWorld ==
    ASSUME NEW u, IsWorld(u), NEW organisms, NEW clades, NEW v,
           v = [u EXCEPT !.organisms = organisms, !.clades = clades]
    PROVE  v = [epoch |-> u.epoch, organisms |-> organisms, clades |-> clades,
                next_organism_id |-> u.next_organism_id, next_clade_id |-> u.next_clade_id]
BY DEF IsWorld

\* A report after an assignment to its dead.
LEMMA OtherReport ==
    ASSUME NEW r, IsReport(r), NEW died, NEW v, v = [r EXCEPT !.died = died]
    PROVE  v = [founded |-> r.founded, extinct |-> r.extinct, died |-> died,
                bridges_closed |-> r.bridges_closed, revival |-> r.revival]
BY DEF IsReport

\* A death changes who lives, and how many of a clade.
LEMMA DieStaysUnderway ==
    ASSUME NEW w, NEW st, Underway(w, st), NEW ids
    PROVE  Underway(w, Die(st, ids))
<1> DEFINE u == st.world
           dead == {o \in u.organisms : o.id \in ids}
           clades == [c \in DOMAIN u.clades |->
                        [u.clades[c] EXCEPT !.living = @ - Cardinality({o \in dead : o.clade = c})]]
           v == [epoch |-> w.epoch, organisms |-> u.organisms \ dead, clades |-> clades,
                 next_organism_id |-> u.next_organism_id, next_clade_id |-> u.next_clade_id]
           report == [founded |-> st.report.founded, extinct |-> <<>>, died |-> st.report.died \cup dead,
                      bridges_closed |-> st.report.bridges_closed, revival |-> st.report.revival]
<1>1. /\ st = [world |-> u, dying |-> st.dying, report |-> st.report]
      /\ u = [epoch |-> w.epoch, organisms |-> u.organisms, clades |-> u.clades,
              next_organism_id |-> u.next_organism_id, next_clade_id |-> u.next_clade_id]
      /\ st.report = [founded |-> st.report.founded, extinct |-> <<>>, died |-> st.report.died,
                      bridges_closed |-> st.report.bridges_closed, revival |-> st.report.revival]
    BY DEF Underway, Sound
<1>2. Die(st, ids) = [world |-> v, dying |-> st.dying, report |-> report]
    <2> HIDE DEF dead, clades
    <2>1. Die(st, ids) = [st EXCEPT !.world.organisms = @ \ dead,
                                    !.world.clades = clades,
                                    !.report.died = @ \cup dead]
        BY DEF Die, dead, clades
    <2> DEFINE next == Die(st, ids)
    <2>2. next = [world |-> [st.world EXCEPT !.organisms = @ \ dead, !.clades = clades],
                  dying |-> st.dying, report |-> [st.report EXCEPT !.died = @ \cup dead]]
        <3> HIDE DEF u, next
        <3> QED BY <1>1, <2>1 DEF next
    <2>3. /\ next = [world |-> next.world, dying |-> st.dying, report |-> next.report]
          /\ next.world = [u EXCEPT !.organisms = @ \ dead, !.clades = clades]
          /\ next.report = [st.report EXCEPT !.died = @ \cup dead]
        BY <2>2
    <2> HIDE DEF next, u
    <2>4. next.world = v
        <3>1. IsWorld(u) /\ u.epoch = w.epoch
            BY <1>1 DEF IsWorld
        <3>2. PICK x : x = next.world
            OBVIOUS
        <3>3. x = [u EXCEPT !.organisms = @ \ dead, !.clades = clades]
            BY <2>3, <3>2
        <3>4. x = v
            BY <3>1, <3>3, OtherWorld
        <3> QED BY <3>2, <3>4
    <2>5. next.report = report
        <3>1. PICK r : r = st.report
            OBVIOUS
        <3>2. PICK x : x = next.report
            OBVIOUS
        <3>3. IsReport(r) /\ r.extinct = <<>>
            BY <1>1, <3>1 DEF IsReport
        <3>4. x = [r EXCEPT !.died = @ \cup dead]
            BY <2>3, <3>1, <3>2
        <3>5. x = [founded |-> r.founded, extinct |-> <<>>, died |-> r.died \cup dead,
                   bridges_closed |-> r.bridges_closed, revival |-> r.revival]
            BY <3>3, <3>4, OtherReport
        <3> QED BY <3>1, <3>2, <3>5
    <2> HIDE DEF v, report
    <2> QED BY <2>3, <2>4, <2>5 DEF next
<1>3. u.clades \in [DOMAIN u.clades -> CladeRecord(w.epoch)]
    BY DEF Underway, Sound, CladeRecord
<1>4. ASSUME NEW c \in DOMAIN u.clades
      PROVE  /\ clades[c].living = Cardinality(Of(v, c))
             /\ clades[c] = [u.clades[c] EXCEPT !.living = Cardinality(Of(v, c))]
             /\ clades[c] \in CladeRecord(w.epoch)
    <2>1. IsFiniteSet(Of(u, c)) /\ Cardinality(Of(u, c)) \in Nat
        BY CladesLive DEF Underway
    <2>2. Of(v, c) = Of(u, c) \ dead /\ {o \in dead : o.clade = c} = Of(u, c) \cap dead
        BY DEF Of
    <2>3. /\ Cardinality(Of(v, c)) \in Nat
          /\ Cardinality(Of(v, c)) = Cardinality(Of(u, c)) - Cardinality(Of(u, c) \cap dead)
        BY <2>1, <2>2, Fewer
    <2>4. u.clades[c].living = Cardinality(Of(u, c))
        BY DEF Underway, Sound, Of
    <2>5. u.clades[c] \in CladeRecord(w.epoch)
        BY <1>3
    <2>6. clades[c] = [u.clades[c] EXCEPT !.living = @ - Cardinality(Of(u, c) \cap dead)]
        BY <2>2
    <2>7. clades[c] = [u.clades[c] EXCEPT !.living = Cardinality(Of(v, c))]
        <3> HIDE DEF v, u, clades, dead
        <3> QED BY <2>3, <2>4, <2>6
    <2> HIDE DEF v, u, clades, dead
    <2> QED BY <2>3, <2>5, <2>7 DEF CladeRecord
<1>5. DOMAIN clades = DOMAIN u.clades /\ v.clades = clades
    OBVIOUS
<1>6. Sound(v)
    <2>1. Sound(u) /\ u.epoch = w.epoch
        BY DEF Underway
    <2>2. IsFiniteSet(u.organisms \ dead)
        BY <2>1, Fewer DEF Sound
    <2>3. clades \in [DOMAIN clades -> CladeRecord(w.epoch)]
        BY <1>4
    <2>4. \A c \in DOMAIN clades : clades[c].living = Cardinality({o \in v.organisms : o.clade = c})
        <3> HIDE DEF v, u, dead, clades
        <3> QED BY <1>4, <1>5 DEF Of
    <2>5. \A o \in v.organisms : o \in u.organisms
        OBVIOUS
    <2>6. v = [epoch |-> w.epoch, organisms |-> v.organisms, clades |-> clades,
               next_organism_id |-> u.next_organism_id, next_clade_id |-> u.next_clade_id]
          /\ v.organisms = u.organisms \ dead
        OBVIOUS
    <2> HIDE DEF v, u, dead, clades
    <2> QED BY <1>5, <2>1, <2>2, <2>3, <2>4, <2>5, <2>6 DEF Sound, CladeRecord
<1>7. Population(w, v, report)
    BY DEF Underway, Population
<1>8. Genealogy(w, v, report.founded, clades)
    <2>1. Genealogy(w, u, st.report.founded, u.clades)
        BY DEF Underway
    <2>2. report.founded = st.report.founded /\ v.next_clade_id = u.next_clade_id
        OBVIOUS
    <2>3. \A c \in DOMAIN u.clades : u.clades[c] \in CladeRecord(w.epoch)
        BY <1>3
    <2>4. ASSUME NEW c \in DOMAIN u.clades
          PROVE  /\ clades[c].parent = u.clades[c].parent /\ clades[c].founded = u.clades[c].founded
                 /\ clades[c].reference = u.clades[c].reference /\ clades[c].peak = u.clades[c].peak
        <3>1. clades[c] = [u.clades[c] EXCEPT !.living = Cardinality(Of(v, c))]
            BY <1>4
        <3> HIDE DEF v, u, clades
        <3> QED BY <2>3, <3>1 DEF CladeRecord
    <2> HIDE DEF v, u, clades, report
    <2> QED BY <1>5, <2>1, <2>2, <2>4 DEF Genealogy
<1> DEFINE next == [world |-> v, dying |-> st.dying, report |-> report]
<1>9. next.world = v /\ next.report = report /\ v.epoch = w.epoch /\ v.clades = clades
       /\ next = [world |-> next.world, dying |-> next.dying, report |-> next.report]
    OBVIOUS
<1>10. report = [founded |-> report.founded, extinct |-> <<>>, died |-> report.died,
                 bridges_closed |-> report.bridges_closed, revival |-> report.revival]
    OBVIOUS
<1> HIDE DEF v, report, next, clades
<1>11. Underway(w, next)
    BY <1>6, <1>7, <1>8, <1>9, <1>10 DEF Underway
<1> QED BY <1>2, <1>11 DEF next

\* A birth from a clade, or from the spores: clade 0.
IsBirth(b) == b.parent \in Nat /\ b.genome \in DOMAIN Combo

\* A birth adds an organism, to its parent's clade or to a new one.
LEMMA BornStaysUnderway ==
    ASSUME NEW w, Sound(w), NEW st, Underway(w, st), NEW b, IsBirth(b), Bears(st.world, b.parent)
    PROVE  Underway(w, Born(st, b))
<1> DEFINE u == st.world
           r == st.report
           id == u.next_organism_id
           founds == b.parent = 0 \/ b.genome # u.clades[b.parent].reference
           c == IF founds THEN u.next_clade_id ELSE b.parent
           living == IF founds THEN 1 ELSE u.clades[c].living + 1
           clade == IF founds THEN [parent |-> b.parent, founded |-> u.epoch, reference |-> b.genome,
                                    living |-> 1, peak |-> 1]
                    ELSE [u.clades[c] EXCEPT !.living = living, !.peak = IF @ > living THEN @ ELSE living]
           baby == Organism(id, c, b.plate, b.genome)
           organisms == u.organisms \cup {baby}
           clades == Put(u.clades, c, clade)
           m == IF founds THEN u.next_clade_id + 1 ELSE u.next_clade_id
           founded == IF founds THEN r.founded \cup {c} ELSE r.founded
           revival == r.revival \/ b.parent = 0
           dying == IF b.dies THEN st.dying \cup {id} ELSE st.dying
           v == [epoch |-> u.epoch, organisms |-> organisms, clades |-> clades,
                 next_organism_id |-> id + 1, next_clade_id |-> m]
           report == [founded |-> founded, extinct |-> <<>>, died |-> r.died,
                      bridges_closed |-> r.bridges_closed, revival |-> revival]
<1>1. /\ st = [world |-> u, dying |-> st.dying, report |-> r]
      /\ IsWorld(u) /\ IsReport(r) /\ r.extinct = <<>>
      /\ Sound(u) /\ u.epoch = w.epoch
    <2>1. st = [world |-> u, dying |-> st.dying, report |-> r] /\ Sound(u) /\ u.epoch = w.epoch
        BY DEF Underway
    <2>2. IsWorld(u)
        BY <2>1 DEF Sound, IsWorld
    <2>3. IsReport(r) /\ r.extinct = <<>>
        BY DEF Underway, IsReport
    <2> QED BY <2>1, <2>2, <2>3
<1>2. Born(st, b) = [world |-> v, dying |-> dying, report |-> report]
    <2>1. PICK next : next = Born(st, b)
        OBVIOUS
    <2>2. next = [st EXCEPT !.world.organisms = organisms, !.world.clades = clades,
                            !.world.next_organism_id = id + 1, !.world.next_clade_id = m,
                            !.report.founded = founded, !.report.revival = revival,
                            !.dying = dying]
        BY <2>1 DEF Born
    <2> HIDE DEF organisms, clades, id, m, founded, revival, dying, u, r
    <2>3. next = [world |-> [epoch |-> u.epoch, organisms |-> organisms, clades |-> clades,
                             next_organism_id |-> id + 1, next_clade_id |-> m],
                  dying |-> dying,
                  report |-> [founded |-> founded, extinct |-> r.extinct, died |-> r.died,
                              bridges_closed |-> r.bridges_closed, revival |-> revival]]
        <3> HIDE DEF v, report
        <3>1. PICK k : k = id + 1
            OBVIOUS
        <3>2. PICK d : d = st.dying
            OBVIOUS
        <3>3. next = [st EXCEPT !.world.organisms = organisms, !.world.clades = clades,
                                !.world.next_organism_id = k, !.world.next_clade_id = m,
                                !.report.founded = founded, !.report.revival = revival,
                                !.dying = dying]
            BY <2>2, <3>1
        <3>4. st = [world |-> u, dying |-> d, report |-> r] /\ IsWorld(u) /\ IsReport(r)
            BY <1>1, <3>2
        <3>5. PICK x : x = [u EXCEPT !.organisms = organisms, !.clades = clades,
                                     !.next_organism_id = k, !.next_clade_id = m]
            OBVIOUS
        <3>6. PICK y : y = [r EXCEPT !.founded = founded, !.revival = revival]
            OBVIOUS
        <3>7. next = [world |-> x, dying |-> dying, report |-> y]
            BY <3>3, <3>4, <3>5, <3>6
        <3>8. x = [epoch |-> u.epoch, organisms |-> organisms, clades |-> clades,
                   next_organism_id |-> k, next_clade_id |-> m]
            BY <3>4, <3>5 DEF IsWorld
        <3>9. y = [founded |-> founded, extinct |-> r.extinct, died |-> r.died,
                   bridges_closed |-> r.bridges_closed, revival |-> revival]
            BY <3>4, <3>6 DEF IsReport
        <3> QED BY <3>1, <3>7, <3>8, <3>9
    <2>4. r.extinct = <<>>
        BY <1>1
    <2> QED BY <2>1, <2>3, <2>4
<1>3. /\ u.epoch \in Nat /\ {u.next_organism_id, u.next_clade_id} \subseteq Nat \ {0}
      /\ DOMAIN u.clades \subseteq 1..(u.next_clade_id - 1)
      /\ u.clades \in [DOMAIN u.clades -> CladeRecord(u.epoch)]
      /\ \A o \in u.organisms : o.id \in 1..(u.next_organism_id - 1) /\ o.clade \in DOMAIN u.clades
      /\ \A d \in DOMAIN u.clades : u.clades[d].living = Cardinality(Of(u, d))
    BY <1>1 DEF Sound, CladeRecord, Of
<1>4. b.parent # 0 => b.parent \in DOMAIN u.clades
    BY <1>3 DEF Bears
<1>5. /\ founds => c = u.next_clade_id /\ c \notin DOMAIN u.clades
      /\ ~founds => c = b.parent /\ c \in DOMAIN u.clades
      /\ c \in Nat \ {0} /\ id \in Nat \ {0}
    BY <1>3, <1>4
<1>6. /\ baby = [id |-> id, clade |-> c, plate |-> b.plate, genome |-> b.genome]
      /\ baby \notin u.organisms
    BY <1>3 DEF Organism
<1>7. \A d : /\ d # c => Of(v, d) = Of(u, d)
             /\ d = c => Of(v, d) = Of(u, d) \cup {baby}
    BY <1>6 DEF Of
<1>8. Cardinality(Of(v, c)) = living /\ living \in Nat \ {0}
    <2>1. IsFiniteSet(Of(u, c)) /\ Cardinality(Of(u, c)) \in Nat
        BY <1>1, CladesLive
    <2>2. Cardinality(Of(v, c)) = Cardinality(Of(u, c)) + 1
        <3>1. baby \notin Of(u, c) /\ Of(v, c) = Of(u, c) \cup {baby}
            BY <1>6, <1>7 DEF Of
        <3> HIDE DEF u, v, c, baby
        <3> QED BY <2>1, <3>1, FS_AddElement
    <2>3. CASE founds
        <3>1. Of(u, c) = {}
            BY <1>3, <1>5, <2>3 DEF Of
        <3>2. Cardinality(Of(u, c)) = 0
            BY <3>1, FS_EmptySet
        <3> QED BY <2>2, <2>3, <3>2
    <2>4. CASE ~founds
        BY <1>3, <1>5, <2>1, <2>2, <2>4
    <2> QED BY <2>3, <2>4
<1>9. /\ clade \in CladeRecord(u.epoch) /\ clade.living = living
      /\ founds => clade.founded = u.epoch
      /\ ~founds => /\ clade.parent = u.clades[c].parent /\ clade.founded = u.clades[c].founded
                    /\ clade.reference = u.clades[c].reference /\ u.clades[c].peak <= clade.peak
    <2>1. CASE founds
        <3>1. clade = [parent |-> b.parent, founded |-> u.epoch, reference |-> b.genome,
                       living |-> 1, peak |-> 1]
            BY <2>1
        <3>2. living = 1
            BY <2>1
        <3> HIDE DEF clade, living, founds
        <3> QED BY <1>3, <2>1, <3>1, <3>2 DEF IsBirth, CladeRecord
    <2>2. CASE ~founds
        <3>1. PICK old : old = u.clades[c]
            OBVIOUS
        <3>2. old \in CladeRecord(u.epoch)
            BY <1>3, <1>5, <2>2, <3>1
        <3>3. clade = [old EXCEPT !.living = living, !.peak = IF @ > living THEN @ ELSE living]
            BY <2>2, <3>1
        <3> HIDE DEF clade, living, founds, c, u
        <3>4. clade \in CladeRecord(u.epoch)
            BY <1>8, <3>2, <3>3 DEF CladeRecord
        <3>5. clade.living = living /\ clade.parent = old.parent /\ clade.founded = old.founded
              /\ clade.reference = old.reference /\ old.peak <= clade.peak
            BY <1>8, <3>2, <3>3 DEF CladeRecord
        <3> QED BY <2>2, <3>1, <3>4, <3>5
    <2> QED BY <2>1, <2>2
<1>10. /\ DOMAIN clades = DOMAIN u.clades \cup {c} /\ clades[c] = clade
       /\ \A d \in DOMAIN u.clades : d # c => clades[d] = u.clades[d]
    <2> HIDE DEF clade, c, u
    <2> QED BY DEF Put
<1>11. v.epoch = u.epoch /\ v.organisms = organisms /\ v.clades = clades
       /\ v.next_organism_id = id + 1 /\ v.next_clade_id = m /\ IsWorld(v)
    BY DEF IsWorld
<1>12. m \in Nat /\ u.next_clade_id <= m /\ (founds => m = c + 1) /\ (~founds => m = u.next_clade_id)
    BY <1>3
<1> HIDE DEF v, clade, living
<1>13. Sound(v)
    <2>1. IsFiniteSet(organisms)
        BY <1>1, FS_AddElement DEF Sound
    <2>2. \A o \in organisms : o.id \in 1..id /\ o.clade \in DOMAIN clades
        <3>1. /\ baby.id = id /\ baby.clade = c /\ id \in Nat \ {0} /\ c \in DOMAIN clades
              /\ \A o \in u.organisms : o.id \in 1..(id - 1) /\ o.clade \in DOMAIN clades
            <4> HIDE DEF u, c, clades, baby
            <4> QED BY <1>3, <1>5, <1>6, <1>10 DEF id
        <3> HIDE DEF u, c, clades, baby, id
        <3> QED BY <3>1 DEF organisms
    <2>3. \A o, p \in organisms : o.id = p.id => o = p
        BY <1>1, <1>3, <1>6 DEF Sound
    <2>4. DOMAIN clades \subseteq 1..(m - 1)
        <3> DEFINE n == u.next_clade_id
        <3>1. /\ n \in Nat \ {0} /\ m \in Nat /\ n <= m /\ c \in Nat \ {0}
              /\ (founds => c = n /\ m = n + 1) /\ (~founds => c \in DOMAIN u.clades)
              /\ DOMAIN u.clades \subseteq 1..(n - 1) /\ DOMAIN clades = DOMAIN u.clades \cup {c}
            BY <1>3, <1>5, <1>10, <1>12
        <3> HIDE DEF u, c, clades, m, founds, n
        <3> QED BY <3>1
    <2>5. clades \in [DOMAIN clades -> CladeRecord(u.epoch)]
        <3>1. \A d \in DOMAIN clades : clades[d] \in CladeRecord(u.epoch)
            <4> HIDE DEF u, c, clades
            <4> QED BY <1>3, <1>9, <1>10
        <3>2. clades = [d \in DOMAIN clades |-> clades[d]]
            BY DEF Put
        <3> HIDE DEF clades
        <3> QED BY <3>1, <3>2
    <2>6. \A d \in DOMAIN clades : clades[d].living = Cardinality({o \in organisms : o.clade = d})
        <3>1. \A d \in DOMAIN clades : clades[d].living = Cardinality(Of(v, d))
            <4> HIDE DEF u, c, clades
            <4> QED BY <1>3, <1>7, <1>8, <1>9, <1>10
        <3> QED BY <1>11, <3>1 DEF Of
    <2>7. (id + 1) - 1 = id /\ id + 1 \in Nat \ {0} /\ m \in Nat \ {0}
        BY <1>3
    <2> HIDE DEF u, c, clades, organisms, m, id
    <2> QED BY <1>3, <1>11, <1>12, <2>1, <2>2, <2>3, <2>4, <2>5, <2>6, <2>7
            DEF Sound, IsWorld, CladeRecord
<1>14. Population(w, v, report)
    <2>1. Population(w, u, r)
        BY DEF Underway
    <2>2. report.died = r.died
        OBVIOUS
    <2>3. w.next_organism_id \in Nat /\ id \in Nat /\ w.next_organism_id <= id
        BY <1>3, <2>1 DEF Population, Sound
    <2>4. \A o \in u.organisms \cup r.died : o.id # id
        <3>1. \A o \in w.organisms : o.id \in 1..(w.next_organism_id - 1)
            BY DEF Sound
        <3>2. \A o \in u.organisms \cup r.died :
                 o \in w.organisms \/ o.id \in w.next_organism_id..(id - 1)
            BY <2>1 DEF Population
        <3> HIDE DEF u, r, id
        <3> QED BY <2>3, <3>1, <3>2
    <2>5. baby.id = id /\ baby \notin r.died
        BY <1>6, <2>4
    <2>6. organisms \cup r.died = (u.organisms \cup r.died) \cup {baby}
        OBVIOUS
    <2>7. \A i \in w.next_organism_id..((id + 1) - 1) : i = id \/ i \in w.next_organism_id..(id - 1)
        BY <2>3
    <2>8. \A i \in w.next_organism_id..(id - 1) : i \in w.next_organism_id..((id + 1) - 1)
        BY <2>3
    <2>9. id \in w.next_organism_id..((id + 1) - 1) /\ w.next_organism_id <= id + 1
        BY <2>3
    <2>10. organisms \cap r.died = {}
        BY <2>1, <2>5 DEF Population
    <2>11. id = u.next_organism_id
        OBVIOUS
    <2> DEFINE all == u.organisms \cup r.died
    <2>12. /\ w.organisms \subseteq all
           /\ \A o \in all : o \in w.organisms \/ o.id \in w.next_organism_id..(id - 1)
           /\ \A i \in w.next_organism_id..(id - 1) : \E o \in all : o.id = i
           /\ \A o, p \in all : o.id = p.id => o = p
        BY <2>1 DEF Population
    <2> HIDE DEF u, r, id, baby, report, organisms, all
    <2>13. /\ w.organisms \subseteq all \cup {baby}
           /\ \A o \in all \cup {baby} :
                 o \in w.organisms \/ o.id \in w.next_organism_id..((id + 1) - 1)
           /\ \A i \in w.next_organism_id..((id + 1) - 1) : \E o \in all \cup {baby} : o.id = i
           /\ \A o, p \in all \cup {baby} : o.id = p.id => o = p
        BY <2>4, <2>5, <2>7, <2>8, <2>9, <2>12 DEF all
    <2> QED BY <1>11, <2>2, <2>6, <2>9, <2>10, <2>13 DEF Population, all
<1>15. Genealogy(w, v, founded, clades)
    <2>1. Genealogy(w, u, r.founded, u.clades)
        BY DEF Underway
    <2>2. DOMAIN w.clades \subseteq 1..(w.next_clade_id - 1) /\ w.next_clade_id \in Nat
        BY DEF Sound
    <2>3. r.founded = w.next_clade_id..(u.next_clade_id - 1) /\ w.next_clade_id <= u.next_clade_id
        BY <2>1 DEF Genealogy
    <2>4. founded = w.next_clade_id..(m - 1)
        <3>1. CASE founds
            <4>1. founded = r.founded \cup {u.next_clade_id} /\ m = u.next_clade_id + 1
                BY <1>5, <3>1
            <4> HIDE DEF u, r, founded, m
            <4> QED BY <1>3, <2>2, <2>3, <4>1
        <3>2. CASE ~founds
            BY <2>3, <3>2
        <3> QED BY <3>1, <3>2
    <2>5. /\ founds => founded = r.founded \cup {c} /\ c \notin DOMAIN w.clades
          /\ ~founds => founded = r.founded
        BY <1>3, <1>5, <2>1, <2>2 DEF Genealogy
    <2>6. DOMAIN clades = DOMAIN w.clades \cup founded
        <3> HIDE DEF u, r, c, clades, founded, founds
        <3> QED BY <1>5, <1>10, <2>1, <2>5 DEF Genealogy
    <2>7. \A d \in founded : clades[d].founded = w.epoch
        <3>1. \A d \in r.founded : d \in DOMAIN u.clades /\ u.clades[d].founded = w.epoch
            BY <2>1 DEF Genealogy
        <3> HIDE DEF u, r, c, clades, founded, founds
        <3> QED BY <1>1, <1>5, <1>9, <1>10, <2>5, <3>1
    <2>8. \A d \in DOMAIN w.clades :
             /\ clades[d].parent = w.clades[d].parent /\ clades[d].founded = w.clades[d].founded
             /\ clades[d].reference = w.clades[d].reference /\ w.clades[d].peak <= clades[d].peak
        <3> SUFFICES ASSUME NEW d \in DOMAIN w.clades
                     PROVE  /\ clades[d].parent = w.clades[d].parent
                            /\ clades[d].founded = w.clades[d].founded
                            /\ clades[d].reference = w.clades[d].reference
                            /\ w.clades[d].peak <= clades[d].peak
            OBVIOUS
        <3>1. /\ d \in DOMAIN u.clades
              /\ u.clades[d].parent = w.clades[d].parent /\ u.clades[d].founded = w.clades[d].founded
              /\ u.clades[d].reference = w.clades[d].reference
              /\ w.clades[d].peak <= u.clades[d].peak
            BY <2>1 DEF Genealogy
        <3>2. w.clades[d].peak \in Nat /\ u.clades[d].peak \in Nat
            BY <1>3, <3>1 DEF Sound, CladeRecord
        <3>3. CASE d # c
            BY <1>10, <3>1, <3>3
        <3>4. CASE d = c
            <4>1. ~founds /\ clades[d] = clade
                BY <1>10, <2>5, <3>4
            <4>2. clade.peak \in Nat
                BY <1>9 DEF CladeRecord
            <4> HIDE DEF u, r, c, clades, founded, founds
            <4> QED BY <1>9, <3>1, <3>2, <3>4, <4>1, <4>2
        <3> QED BY <3>3, <3>4
    <2>9. w.next_clade_id <= m
        BY <1>3, <1>12, <2>2, <2>3
    <2> HIDE DEF u, r, c, clades, founded, founds, m
    <2> QED BY <1>11, <2>4, <2>6, <2>7, <2>8, <2>9 DEF Genealogy
<1> DEFINE next == [world |-> v, dying |-> dying, report |-> report]
<1>16. next.world = v /\ next.report = report
       /\ next = [world |-> next.world, dying |-> next.dying, report |-> next.report]
    OBVIOUS
<1>17. report.founded = founded /\ IsReport(report) /\ report.extinct = <<>>
    BY DEF IsReport
<1> HIDE DEF report, next, clades, dying, founded
<1>18. Underway(w, next)
    BY <1>1, <1>11, <1>13, <1>14, <1>15, <1>16, <1>17 DEF Underway, IsReport
<1> QED BY <1>2, <1>18 DEF next

\* The world at the end of an epoch, after it.
Follows(w, v, report) ==
    /\ Sound(v) /\ v.epoch = w.epoch + 1
    /\ Population(w, v, report)
    /\ Genealogy(w, v, report.founded, All(v, report))
    /\ All(v, report) \in [DOMAIN All(v, report) -> CladeRecord(w.epoch)]
    /\ DOMAIN v.clades \cap DOMAIN report.extinct = {}
    /\ \A c \in DOMAIN v.clades : v.clades[c].living # 0

\* A clade without members is closed.
LEMMA ClosedFollows ==
    ASSUME NEW w, Sound(w), NEW st, Underway(w, st)
    PROVE  Follows(w, [Closed(st).world EXCEPT !.epoch = w.epoch + 1], Closed(st).report)
<1> DEFINE u == st.world
           r == st.report
           gone == {c \in DOMAIN u.clades : u.clades[c].living = 0}
           clades == [c \in DOMAIN u.clades \ gone |-> u.clades[c]]
           extinct == [c \in gone |-> u.clades[c]]
           v == [epoch |-> w.epoch + 1, organisms |-> u.organisms, clades |-> clades,
                 next_organism_id |-> u.next_organism_id, next_clade_id |-> u.next_clade_id]
           report == [founded |-> r.founded, extinct |-> extinct, died |-> r.died,
                      bridges_closed |-> r.bridges_closed, revival |-> r.revival]
<1>1. /\ st = [world |-> u, dying |-> st.dying, report |-> r] /\ Sound(u) /\ u.epoch = w.epoch
      /\ IsWorld(u) /\ IsReport(r)
    <2>1. st = [world |-> u, dying |-> st.dying, report |-> r] /\ Sound(u) /\ u.epoch = w.epoch
        BY DEF Underway
    <2>2. IsWorld(u)
        BY <2>1 DEF Sound, IsWorld
    <2>3. IsReport(r)
        BY DEF Underway, IsReport
    <2> QED BY <2>1, <2>2, <2>3
<1>2. [Closed(st).world EXCEPT !.epoch = w.epoch + 1] = v /\ Closed(st).report = report
    <2>1. PICK next : next = Closed(st)
        OBVIOUS
    <2>2. next = [st EXCEPT !.world.clades = clades, !.report.extinct = extinct]
        BY <2>1 DEF Closed
    <2>3. PICK x : x = [u EXCEPT !.clades = clades]
        OBVIOUS
    <2>4. PICK y : y = [r EXCEPT !.extinct = extinct]
        OBVIOUS
    <2>5. PICK d : d = st.dying
        OBVIOUS
    <2>6. st = [world |-> u, dying |-> d, report |-> r]
        BY <1>1, <2>5
    <2>7. PICK z : z = [x EXCEPT !.epoch = w.epoch + 1]
        OBVIOUS
    <2> HIDE DEF clades, extinct, u, r
    <2>8. next = [world |-> x, dying |-> d, report |-> y]
        BY <2>2, <2>3, <2>4, <2>6
    <2>9. x = [epoch |-> u.epoch, organisms |-> u.organisms, clades |-> clades,
               next_organism_id |-> u.next_organism_id, next_clade_id |-> u.next_clade_id]
        BY <1>1, <2>3 DEF IsWorld
    <2>10. y = report
        BY <1>1, <2>4 DEF IsReport
    <2>11. z = v
        BY <2>7, <2>9
    <2> HIDE DEF v, report
    <2>12. Closed(st).world = x /\ Closed(st).report = report
        BY <2>1, <2>8, <2>10
    <2> QED BY <2>7, <2>11, <2>12
<1>3. /\ u.epoch \in Nat
      /\ DOMAIN u.clades \subseteq 1..(u.next_clade_id - 1)
      /\ u.clades \in [DOMAIN u.clades -> CladeRecord(w.epoch)]
    BY <1>1 DEF Sound, CladeRecord
<1>4. All(v, report) = u.clades
    <2>1. v.clades = clades /\ report.extinct = extinct
        OBVIOUS
    <2>2. DOMAIN clades \cup DOMAIN extinct = DOMAIN u.clades
        OBVIOUS
    <2>3. All(v, report) = [c \in DOMAIN u.clades |-> u.clades[c]]
        BY <2>1, <2>2 DEF All
    <2> HIDE DEF u, v, report
    <2> QED BY <1>3, <2>3
<1>5. /\ DOMAIN v.clades \cap DOMAIN report.extinct = {}
      /\ \A c \in DOMAIN v.clades : v.clades[c].living # 0
    OBVIOUS
<1>6. \A o \in u.organisms : o.clade \in DOMAIN clades
    <2> SUFFICES ASSUME NEW o \in u.organisms PROVE o.clade \in DOMAIN clades
        OBVIOUS
    <2>1. o.clade \in DOMAIN u.clades /\ o \in Of(u, o.clade)
        BY <1>1 DEF Sound, Of
    <2>2. IsFiniteSet(Of(u, o.clade)) /\ Cardinality(Of(u, o.clade)) \in Nat
        BY <1>1, CladesLive
    <2>3. Cardinality(Of(u, o.clade)) # 0
        BY <2>1, <2>2, FS_EmptySet
    <2>4. u.clades[o.clade].living # 0
        BY <1>1, <2>1, <2>3 DEF Sound, Of
    <2> QED BY <2>1, <2>4
<1>7. Sound(v)
    <2>1. \A c \in DOMAIN clades : c \in DOMAIN u.clades /\ clades[c] = u.clades[c]
        OBVIOUS
    <2>2. \A c \in DOMAIN clades : clades[c].living = Cardinality({o \in u.organisms : o.clade = c})
        BY <1>1, <2>1 DEF Sound
    <2>3. 0..w.epoch \subseteq 0..(w.epoch + 1) /\ w.epoch + 1 \in Nat
        BY <1>1, <1>3
    <2>4. clades \in [DOMAIN clades -> CladeRecord(w.epoch + 1)]
        BY <1>3, <2>1, <2>3 DEF CladeRecord
    <2>5. DOMAIN clades \subseteq DOMAIN u.clades
        OBVIOUS
    <2>6. /\ v.epoch = w.epoch + 1 /\ v.organisms = u.organisms /\ v.clades = clades
          /\ v.next_organism_id = u.next_organism_id /\ v.next_clade_id = u.next_clade_id
          /\ IsWorld(v)
        BY DEF IsWorld
    <2> HIDE DEF u, v, clades
    <2> QED BY <1>1, <1>6, <2>2, <2>3, <2>4, <2>5, <2>6 DEF Sound, IsWorld, CladeRecord
<1>8. Population(w, v, report) /\ Genealogy(w, v, report.founded, u.clades)
    BY DEF Underway, Population, Genealogy
<1>9. v.epoch = w.epoch + 1
    OBVIOUS
<1> HIDE DEF v, report, u
<1> QED BY <1>2, <1>3, <1>4, <1>5, <1>7, <1>8, <1>9 DEF Follows

\* The births of a course, one after the other.
IsRunOfBirths(f, N, start, births) ==
    f = [n \in 0..N |-> IF n = 0 THEN start ELSE Born(f[n - 1], births[n])]

\* The births of an epoch follow one another (sim.rs, births).
LEMMA BirthsRun ==
    ASSUME NEW N \in Nat, NEW start, NEW births
    PROVE  \E f : IsRunOfBirths(f, N, start, births)
<1> DEFINE Good == {k \in 0..N : \E f : IsRunOfBirths(f, k, start, births)}
<1>1. 0 \in Good
    <2>1. PICK f : f = [n \in 0..0 |-> start]
        OBVIOUS
    <2>2. f = [n \in 0..0 |-> IF n = 0 THEN start ELSE Born(f[n - 1], births[n])]
        BY <2>1
    <2> QED BY <2>2 DEF IsRunOfBirths
<1>2. ASSUME NEW k \in 0..(N - 1), k \in Good
      PROVE  k + 1 \in Good
    <2>1. PICK f : IsRunOfBirths(f, k, start, births)
        BY <1>2
    <2>2. PICK g : g = [n \in 0..(k + 1) |-> IF n = k + 1 THEN Born(f[k], births[k + 1]) ELSE f[n]]
        OBVIOUS
    <2>3. ASSUME NEW n \in 0..(k + 1)
          PROVE  g[n] = IF n = 0 THEN start ELSE Born(g[n - 1], births[n])
        <3>1. CASE n = k + 1
            <4>1. n - 1 = k /\ n # 0 /\ k \in 0..(k + 1) /\ k # k + 1
                BY <3>1
            <4>2. g[n - 1] = f[k] /\ g[n] = Born(f[k], births[n])
                BY <2>2, <3>1, <4>1
            <4> QED BY <4>1, <4>2
        <3>2. CASE n # k + 1
            <4>1. n \in 0..k /\ (n # 0 => n - 1 \in 0..(k + 1) /\ n - 1 # k + 1)
                BY <3>2
            <4>2. g[n] = f[n] /\ (n # 0 => g[n - 1] = f[n - 1])
                BY <2>2, <3>2, <4>1
            <4>3. f[n] = IF n = 0 THEN start ELSE Born(f[n - 1], births[n])
                BY <2>1, <4>1 DEF IsRunOfBirths
            <4> QED BY <4>2, <4>3
        <3> QED BY <3>1, <3>2
    <2>4. IsRunOfBirths(g, k + 1, start, births)
        BY <2>2, <2>3 DEF IsRunOfBirths
    <2> QED BY <2>4
<1>3. N \in Good
    <2> HIDE DEF Good
    <2>1. 0..N \subseteq Good
        BY <1>1, <1>2, NatSetInduction
    <2> QED BY <2>1
<1> QED BY <1>3

\* What a course may be: births from numbers of clades, and any deaths.
IsCourse(course) ==
    /\ Len(course.births) \in Nat
    /\ \A n \in 1..Len(course.births) : IsBirth(course.births[n])

\* The courses the model chooses from are such courses.
LEMMA CoursesAreCourses ==
    ASSUME NEW w, Sound(w), NEW course \in Courses(w)
    PROVE  IsCourse(course)
<1>1. PICK N \in 0..MaxBirths : course.births \in [1..N -> Births(w)]
    BY DEF Courses
<1>2. N \in Nat
    BY <1>1, HistoryAssumption
<1>3. course.births \in Seq(Births(w)) /\ Len(course.births) = N
    BY <1>1, <1>2, SeqDef, LenProperties
<1>4. Founders(w) \subseteq Nat
    <2>1. \A o \in w.organisms : o.clade \in Nat
        BY DEF Sound
    <2>2. w.next_clade_id..(w.next_clade_id + MaxBirths - 2) \subseteq Nat
        BY HistoryAssumption DEF Sound
    <2> QED BY <2>1, <2>2 DEF Founders
<1>5. \A b \in Births(w) : IsBirth(b)
    BY <1>4, HistoryAssumption DEF Births, IsBirth
<1> QED BY <1>1, <1>2, <1>3, <1>5 DEF IsCourse

\* A birth whose parents have died in the meantime is no birth (births).
LEMMA BirthStaysUnderway ==
    ASSUME NEW w, Sound(w), NEW st, Underway(w, st), NEW b, IsBirth(b)
    PROVE  Underway(w, Born(st, b))
<1>1. CASE Bears(st.world, b.parent)
    BY <1>1, BornStaysUnderway
<1>2. CASE ~Bears(st.world, b.parent)
    BY <1>2 DEF Born
<1> QED BY <1>1, <1>2

\* Whatever the course of an epoch, the world and the report at its end are those of
\* its beginning with births, deaths and new clades (step_epoch_with).
LEMMA LivedFollows ==
    ASSUME NEW w, Sound(w), NEW course, IsCourse(course)
    PROVE  Follows(w, Lived(w, course).world, Lived(w, course).report)
<1> DEFINE next == w.epoch + 1
           begin == [world |-> w, dying |-> {},
                     report |-> [NoReport EXCEPT !.bridges_closed = next \in BridgesClose]]
           before == IF course.early THEN Die(begin, course.deaths) ELSE begin
           N == Len(course.births)
           born == CHOOSE f : IsRunOfBirths(f, N, before, course.births)
           after == Die(born[N], born[N].dying \cup IF course.early THEN {} ELSE course.deaths)
           end == Closed(after)
<1>1. Lived(w, course) = [world |-> [end.world EXCEPT !.epoch = next], report |-> end.report]
    BY DEF Lived, IsRunOfBirths
<1>2. Underway(w, begin)
    <2>1. PICK r : r = [NoReport EXCEPT !.bridges_closed = next \in BridgesClose]
        OBVIOUS
    <2>2. r = [founded |-> {}, extinct |-> <<>>, died |-> {},
               bridges_closed |-> next \in BridgesClose, revival |-> FALSE]
        BY <2>1 DEF NoReport
    <2>3. begin = [world |-> w, dying |-> {}, report |-> r]
        BY <2>1
    <2>4. /\ r.founded = {} /\ r.died = {}
          /\ r = [founded |-> r.founded, extinct |-> <<>>, died |-> r.died,
                  bridges_closed |-> r.bridges_closed, revival |-> r.revival]
        BY <2>2
    <2>5. Population(w, w, r)
        BY <2>4 DEF Population, Sound
    <2>6. Genealogy(w, w, r.founded, w.clades)
        <3>1. \A c \in DOMAIN w.clades : w.clades[c].peak \in Nat
            BY DEF Sound
        <3>2. w.next_clade_id \in Nat /\ w.next_clade_id..(w.next_clade_id - 1) = {}
            BY DEF Sound
        <3> QED BY <2>4, <3>1, <3>2 DEF Genealogy
    <2> HIDE DEF begin
    <2>7. begin.world = w /\ begin.report = r
          /\ begin = [world |-> begin.world, dying |-> begin.dying, report |-> begin.report]
        BY <2>3
    <2> QED BY <2>4, <2>5, <2>6, <2>7 DEF Underway
<1> HIDE DEF begin
<1>3. Underway(w, before)
    BY <1>2, DieStaysUnderway
<1> HIDE DEF before
<1>4. N \in Nat /\ \A n \in 1..N : IsBirth(course.births[n])
    BY DEF IsCourse
<1>5. IsRunOfBirths(born, N, before, course.births)
    <2> HIDE DEF N
    <2> QED BY <1>4, BirthsRun
<1> HIDE DEF born, N
<1>6. born[0] = before /\ \A n \in 1..N : born[n] = Born(born[n - 1], course.births[n])
    <2>1. \A n \in 1..N : n \in 0..N /\ n # 0
        BY <1>4
    <2> QED BY <1>4, <1>5, <2>1 DEF IsRunOfBirths
<1> DEFINE S == {st \in {born[n] : n \in 0..N} : Underway(w, st)}
<1>7. born[N] \in S
    <2>1. born[0] \in S
        BY <1>3, <1>4, <1>6
    <2>2. ASSUME NEW n \in 1..N, born[n - 1] \in S
          PROVE  born[n] \in S
        BY <1>4, <1>6, <2>2, BirthStaysUnderway
    <2> HIDE DEF S
    <2> QED BY <1>4, <2>1, <2>2, LoopKeeps
<1>8. Underway(w, after)
    BY <1>7, DieStaysUnderway
<1> HIDE DEF after
<1>9. Follows(w, [end.world EXCEPT !.epoch = w.epoch + 1], end.report)
    BY <1>8, ClosedFollows
<1> HIDE DEF end
<1> QED BY <1>1, <1>9
-----------------------------------------------------------------------------
(* The tables. *)

\* The tables are a record.
IsTables(t) ==
    t = [epochs |-> t.epochs, events |-> t.events, last_event |-> t.last_event,
         clades |-> t.clades, organisms |-> t.organisms, frames |-> t.frames,
         stories |-> t.stories, muller |-> t.muller]

\* A table is a function.
IsTable(f) == f = [x \in DOMAIN f |-> f[x]]

\* The columns of an organism.
IsOrganismRow(r) == r = [clade |-> r.clade, genome |-> r.genome, born |-> r.born, died |-> r.died]

\* The columns of a clade.
IsCladeRow(r) ==
    r = [parent |-> r.parent, founded |-> r.founded, reference |-> r.reference,
         living |-> r.living, peak |-> r.peak, extinct |-> r.extinct,
         name |-> r.name, named |-> r.named]

\* A table of clades.
AreRows(rows) == IsTable(rows) /\ \A c \in DOMAIN rows : IsCladeRow(rows[c])

\* Rows of clades founded up to epoch f, and of an end and a name up to epoch e.
CladeRows(rows, f, e) ==
    /\ AreRows(rows) /\ IsFiniteSet(DOMAIN rows) /\ DOMAIN rows \subseteq Nat
    /\ \A c \in DOMAIN rows :
          /\ rows[c].founded \in 0..f /\ rows[c].reference \in DOMAIN Combo
          /\ rows[c].extinct \in {NULL} \cup 0..e
          /\ rows[c].named \in {NULL} \cup 0..e
          /\ rows[c].named = NULL <=> rows[c].name = NULL

\* Rows of organisms that were born and died up to epoch e.
OrganismRows(t, e) ==
    /\ IsTable(t.organisms)
    /\ \A i \in DOMAIN t.organisms :
          /\ IsOrganismRow(t.organisms[i])
          /\ t.organisms[i].born \in 0..e /\ t.organisms[i].died \in {NULL} \cup 0..e

\* Nothing in the tables is later than an epoch e, and no clade founded after f.
NothingLater(t, f, e) ==
    /\ IsTables(t)
    /\ IsTable(t.epochs) /\ IsTable(t.muller)
    /\ DOMAIN t.epochs \cup DOMAIN t.muller \cup t.frames \subseteq 0..e
    /\ \A x \in t.events : x.epoch \in 0..e
    /\ \A s \in t.stories : s.epoch \in 0..e
    /\ OrganismRows(t, e)
    /\ CladeRows(t.clades, f, e)

\* Rows with the same columns are the same row.
LEMMA SameRow ==
    ASSUME NEW r, NEW q, IsCladeRow(r), IsCladeRow(q),
           r.parent = q.parent, r.founded = q.founded, r.reference = q.reference,
           r.living = q.living, r.peak = q.peak, r.extinct = q.extinct,
           r.name = q.name, r.named = q.named
    PROVE  r = q
BY DEF IsCladeRow

\* A rollback takes those who have come, and gives the dead their lives back.
OrganismsBefore(rows, e) ==
    [i \in {j \in DOMAIN rows : rows[j].born <= e} |-> Revived(rows[i], e)]

\* Events and stories up to an epoch.
Until(S, e) == {x \in S : x.epoch <= e}

\* What rollback_after does to each table.
LEMMA RollbackFields ==
    ASSUME NEW t, IsTables(t), NEW w
    PROVE  LET e == w.epoch
               r == rollback_after(t, w)
               founded == {c \in DOMAIN t.clades : t.clades[c].founded <= e}
           IN /\ IsTables(r)
              /\ r.epochs = UpTo(t.epochs, e) /\ r.muller = UpTo(t.muller, e)
              /\ r.events = Until(t.events, e) /\ r.stories = Until(t.stories, e)
              /\ r.frames = {f \in t.frames : f <= e}
              /\ r.last_event = t.last_event
              /\ r.organisms = OrganismsBefore(t.organisms, e)
              /\ r.clades = Counted([c \in founded |-> NotYetNamed(Unended(t.clades[c], e), e)], w.clades)
<1> DEFINE e == w.epoch
           founded == {c \in DOMAIN t.clades : t.clades[c].founded <= e}
           epochs == UpTo(t.epochs, e)
           muller == UpTo(t.muller, e)
           events == {x \in t.events : x.epoch <= e}
           stories == {s \in t.stories : s.epoch <= e}
           frames == {f \in t.frames : f <= e}
           born == {i \in DOMAIN t.organisms : t.organisms[i].born <= e}
           organisms == [i \in born |-> Revived(t.organisms[i], e)]
           clades == Counted([c \in founded |-> NotYetNamed(Unended(t.clades[c], e), e)], w.clades)
<1>1. PICK r : r = rollback_after(t, w)
    OBVIOUS
<1>2. r = [t EXCEPT !.epochs = epochs, !.events = events, !.stories = stories, !.frames = frames,
                    !.muller = muller, !.organisms = organisms, !.clades = clades]
    BY <1>1 DEF rollback_after
<1>3. events = Until(t.events, e) /\ stories = Until(t.stories, e)
      /\ organisms = OrganismsBefore(t.organisms, e)
    BY DEF Until, OrganismsBefore
<1> HIDE DEF epochs, events, stories, frames, muller, organisms, clades
<1>4. r = [epochs |-> epochs, events |-> events, last_event |-> t.last_event,
           clades |-> clades, organisms |-> organisms, frames |-> frames,
           stories |-> stories, muller |-> muller]
    BY <1>2 DEF IsTables
<1>5. /\ IsTables(r)
      /\ r.epochs = epochs /\ r.muller = muller /\ r.events = events /\ r.stories = stories
      /\ r.frames = frames /\ r.last_event = t.last_event
      /\ r.organisms = organisms /\ r.clades = clades
    BY <1>4 DEF IsTables
<1> HIDE DEF e
<1> QED BY <1>1, <1>3, <1>5 DEF epochs, frames, muller, clades, e

\* The rows of record_epoch.
RowsOf(t, v, report) ==
    Ended(Counted(insert_clade(t.clades, report.founded, All(v, report)), v.clades),
          report.extinct, v.epoch)

\* The organisms of record_epoch.
OrganismsOf(t, w, v, report) ==
    LET newborn == Newborn(w, v, report)
        inserted == [i \in DOMAIN t.organisms \cup {o.id : o \in newborn} |->
                        IF i \in {o.id : o \in newborn}
                        THEN insert_organism(CHOOSE o \in newborn : o.id = i, v.epoch)
                        ELSE t.organisms[i]]
    IN [i \in DOMAIN inserted |->
          IF i \in {o.id : o \in report.died} THEN [inserted[i] EXCEPT !.died = v.epoch]
          ELSE inserted[i]]

\* What record_epoch does to each table.
LEMMA RecordFields ==
    ASSUME NEW t, IsTables(t), NEW w, NEW v, NEW report, NEW events, NEW stories
    PROVE  LET e == v.epoch
               r == record_epoch(t, w, v, report, events, stories)
           IN /\ IsTables(r)
              /\ r.epochs = Put(t.epochs, e, Header(v))
              /\ \/ r.muller = t.muller
                 \/ r.muller = Put(t.muller, e, [c \in DOMAIN v.clades |-> v.clades[c].living])
              /\ r.events = WithEvents(t, e, events).events
              /\ r.last_event = WithEvents(t, e, events).last_event
              /\ r.stories = t.stories \cup stories
              /\ r.frames = Frames(t.frames, e)
              /\ r.organisms = OrganismsOf(t, w, v, report)
              /\ r.clades = name_new(RowsOf(t, v, report), All(v, report), e)
<1> DEFINE e == v.epoch
           epochs == Put(t.epochs, e, Header(v))
           muller == Put(t.muller, e, [c \in DOMAIN v.clades |-> v.clades[c].living])
           organisms == OrganismsOf(t, w, v, report)
           clades == name_new(RowsOf(t, v, report), All(v, report), e)
           frames == Frames(t.frames, e)
<1>1. PICK r : r = record_epoch(t, w, v, report, events, stories)
    OBVIOUS
<1>2. PICK q : q = WithEvents(t, e, events)
    OBVIOUS
<1>3. PICK x : x = [q EXCEPT !.epochs = Put(@, e, Header(v)), !.clades = clades,
                             !.organisms = organisms,
                             !.stories = @ \cup stories,
                             !.frames = Frames(@, e)]
    OBVIOUS
<1>4. r = Muller(x, v)
    BY <1>1, <1>2, <1>3 DEF record_epoch, All, RowsOf, OrganismsOf
<1>5. q = [epochs |-> t.epochs, events |-> q.events, last_event |-> q.last_event,
           clades |-> t.clades, organisms |-> t.organisms, frames |-> t.frames,
           stories |-> t.stories, muller |-> t.muller]
    BY <1>2 DEF WithEvents, IsTables
<1> HIDE DEF muller, organisms, clades
<1>6. x = [epochs |-> epochs, events |-> q.events, last_event |-> q.last_event,
           clades |-> clades, organisms |-> organisms, frames |-> frames,
           stories |-> t.stories \cup stories, muller |-> t.muller]
    <2>1. q.epochs = t.epochs /\ q.stories = t.stories /\ q.frames = t.frames
        BY <1>5
    <2>2. x = [q EXCEPT !.epochs = epochs, !.clades = clades, !.organisms = organisms,
                        !.stories = t.stories \cup stories, !.frames = frames]
        BY <1>3, <2>1
    <2>3. IsTables(q) /\ q.muller = t.muller
        BY <1>5 DEF IsTables
    <2>4. PICK s : s = t.stories \cup stories
        OBVIOUS
    <2> HIDE DEF epochs, frames, e
    <2>5. x = [q EXCEPT !.epochs = epochs, !.clades = clades, !.organisms = organisms,
                        !.stories = s, !.frames = frames]
        BY <2>2, <2>4
    <2>6. x = [epochs |-> epochs, events |-> q.events, last_event |-> q.last_event,
               clades |-> clades, organisms |-> organisms, frames |-> frames,
               stories |-> s, muller |-> q.muller]
        BY <2>3, <2>5 DEF IsTables
    <2> QED BY <2>3, <2>4, <2>6
<1> HIDE DEF epochs, frames
<1>7. r = x \/ r = [x EXCEPT !.muller = Put(@, v.epoch, [c \in DOMAIN v.clades |-> v.clades[c].living])]
    BY <1>4 DEF Muller
<1>8. x.muller = t.muller
    BY <1>6
<1>9. r = x \/ r = [x EXCEPT !.muller = muller]
    BY <1>7, <1>8 DEF muller
<1>10. /\ IsTables(r)
       /\ r.epochs = epochs /\ (r.muller = t.muller \/ r.muller = muller)
       /\ r.events = q.events /\ r.last_event = q.last_event /\ r.stories = t.stories \cup stories
       /\ r.frames = frames /\ r.organisms = organisms /\ r.clades = clades
    BY <1>6, <1>9 DEF IsTables
<1> HIDE DEF e
<1> QED BY <1>1, <1>2, <1>10 DEF epochs, frames, muller, organisms, clades, e
-----------------------------------------------------------------------------
(* The rows of clades. *)

\* Two rows with one history and one name.
SameClade(r, q) == r.parent = q.parent /\ r.founded = q.founded /\ r.reference = q.reference
SameName(r, q) == r.name = q.name /\ r.named = q.named

\* A clade's row after an epoch, before names are given.
IsUnnamedRow(row, t, v, report, c) ==
    LET clade == All(v, report)[c]
        was == t.clades[c]
    IN /\ c \in DOMAIN t.clades => SameClade(row, was) /\ SameName(row, was)
       /\ c \notin DOMAIN t.clades => SameClade(row, clade) /\ row.name = NULL /\ row.named = NULL
       /\ c \in DOMAIN All(v, report) => row.peak = clade.peak
       /\ c \in DOMAIN v.clades =>
             /\ row.living = v.clades[c].living
             /\ c \in DOMAIN t.clades => row.extinct = was.extinct
             /\ c \notin DOMAIN t.clades => row.extinct = NULL
       /\ c \in DOMAIN report.extinct => row.living = 0 /\ row.extinct = v.epoch
       /\ c \notin DOMAIN All(v, report) => row = was

\* What insert_clade, the counts and the ends make of the rows of clades.
LEMMA EpochRows ==
    ASSUME NEW t, AreRows(t.clades), NEW v, NEW report, report.founded \subseteq DOMAIN All(v, report),
           DOMAIN v.clades \cap DOMAIN report.extinct = {}
    PROVE  /\ AreRows(RowsOf(t, v, report))
           /\ DOMAIN RowsOf(t, v, report) = DOMAIN t.clades \cup report.founded
           /\ \A c \in DOMAIN RowsOf(t, v, report) :
                 IsUnnamedRow(RowsOf(t, v, report)[c], t, v, report, c)
<1> DEFINE clades == All(v, report)
           inserted == insert_clade(t.clades, report.founded, clades)
           counted == Counted(inserted, v.clades)
           rows == RowsOf(t, v, report)
           D == DOMAIN t.clades \cup report.founded
<1>1. DOMAIN inserted = D /\ DOMAIN counted = D /\ DOMAIN rows = D
    BY DEF insert_clade, Counted, Ended, RowsOf
<1>2. IsTable(rows)
    BY DEF Ended, RowsOf, IsTable
<1>3. /\ DOMAIN clades = DOMAIN v.clades \cup DOMAIN report.extinct
      /\ \A c \in DOMAIN v.clades : clades[c] = v.clades[c]
      /\ \A c \in DOMAIN report.extinct : clades[c] = report.extinct[c]
    BY DEF All
<1>4. ASSUME NEW c \in D
      PROVE  IsCladeRow(rows[c]) /\ IsUnnamedRow(rows[c], t, v, report, c)
    <2>1. PICK was : was = t.clades[c]
        OBVIOUS
    <2>2. PICK clade : clade = clades[c]
        OBVIOUS
    <2>3. PICK new : new = inserted[c]
        OBVIOUS
    <2>4. PICK next : next = counted[c]
        OBVIOUS
    <2>5. PICK row : row = rows[c]
        OBVIOUS
    <2>6. c \in DOMAIN t.clades => IsCladeRow(was)
        BY <2>1 DEF AreRows
    <2>7. /\ IsCladeRow(new)
          /\ c \in DOMAIN t.clades =>
                SameClade(new, was) /\ SameName(new, was) /\ new.extinct = was.extinct
          /\ c \notin DOMAIN t.clades =>
                /\ SameClade(new, clade) /\ new.name = NULL /\ new.named = NULL
                /\ new.extinct = NULL
          /\ c \in report.founded => new.peak = clade.peak
          /\ c \notin report.founded => new = was
        <3>1. CASE c \notin report.founded
            <4>1. new = was /\ c \in DOMAIN t.clades
                BY <2>1, <2>3, <3>1 DEF insert_clade
            <4> QED BY <2>6, <3>1, <4>1 DEF SameClade, SameName
        <3>2. CASE c \in report.founded /\ c \in DOMAIN t.clades
            <4>1. new = [was EXCEPT !.living = clade.living, !.peak = clade.peak]
                BY <2>1, <2>2, <2>3, <3>2 DEF insert_clade
            <4> HIDE DEF clades, inserted, counted, rows
            <4> QED BY <2>6, <3>2, <4>1 DEF SameClade, SameName, IsCladeRow
        <3>3. CASE c \in report.founded /\ c \notin DOMAIN t.clades
            <4>1. new = [parent |-> clade.parent, founded |-> clade.founded,
                         reference |-> clade.reference, living |-> clade.living,
                         peak |-> clade.peak, extinct |-> NULL, name |-> NULL, named |-> NULL]
                BY <2>2, <2>3, <3>3 DEF insert_clade
            <4> HIDE DEF clades, inserted, counted, rows
            <4> QED BY <3>3, <4>1 DEF SameClade, SameName, IsCladeRow
        <3> QED BY <3>1, <3>2, <3>3
    <2>8. /\ c \in DOMAIN v.clades =>
                next = [new EXCEPT !.living = v.clades[c].living, !.peak = v.clades[c].peak]
          /\ c \notin DOMAIN v.clades => next = new
        BY <1>1, <2>3, <2>4 DEF Counted
    <2>9. /\ c \in DOMAIN report.extinct =>
                row = [next EXCEPT !.living = 0, !.peak = report.extinct[c].peak, !.extinct = v.epoch]
          /\ c \notin DOMAIN report.extinct => row = next
        BY <1>1, <2>4, <2>5 DEF Ended, RowsOf
    <2> HIDE DEF clades, inserted, counted, rows, D
    <2>10. CASE c \in DOMAIN v.clades
        <3>1. row = [new EXCEPT !.living = v.clades[c].living, !.peak = v.clades[c].peak]
            BY <2>8, <2>9, <2>10
        <3>2. /\ IsCladeRow(row) /\ SameClade(row, new) /\ SameName(row, new) /\ row.extinct = new.extinct
              /\ row.living = v.clades[c].living /\ row.peak = v.clades[c].peak
            BY <2>7, <3>1 DEF SameClade, SameName, IsCladeRow
        <3>3. row.peak = clade.peak /\ c \in DOMAIN clades /\ c \notin DOMAIN report.extinct
            BY <1>3, <2>2, <2>10, <3>2
        <3> QED BY <2>1, <2>2, <2>5, <2>7, <2>10, <3>2, <3>3
                DEF SameClade, SameName, IsUnnamedRow, clades
    <2>11. CASE c \in DOMAIN report.extinct
        <3>1. row = [new EXCEPT !.living = 0, !.peak = report.extinct[c].peak, !.extinct = v.epoch]
            BY <2>8, <2>9, <2>11
        <3>2. /\ IsCladeRow(row) /\ SameClade(row, new) /\ SameName(row, new) /\ row.extinct = v.epoch
              /\ row.living = 0 /\ row.peak = report.extinct[c].peak
            BY <2>7, <3>1 DEF SameClade, SameName, IsCladeRow
        <3>3. row.peak = clade.peak /\ c \in DOMAIN clades /\ c \notin DOMAIN v.clades
            BY <1>3, <2>2, <2>11, <3>2
        <3> QED BY <2>1, <2>2, <2>5, <2>7, <2>11, <3>2, <3>3
                DEF SameClade, SameName, IsUnnamedRow, clades
    <2>12. CASE c \notin DOMAIN clades
        <3>1. row = new /\ c \notin report.founded
            BY <1>3, <2>8, <2>9, <2>12 DEF clades
        <3> QED BY <1>3, <2>1, <2>2, <2>5, <2>6, <2>7, <2>12, <3>1 DEF D, IsUnnamedRow, clades
    <2> QED BY <1>3, <2>10, <2>11, <2>12
<1> QED BY <1>1, <1>2, <1>4 DEF AreRows

\* A clade's row after names are given.
LEMMA NamedRows ==
    ASSUME NEW rows, AreRows(rows), NEW genome, NEW given
    PROVE  LET named == give_name(rows, genome, given)
           IN /\ AreRows(named) /\ DOMAIN named = DOMAIN rows
              /\ \A c \in DOMAIN rows :
                    /\ SameClade(named[c], rows[c]) /\ named[c].living = rows[c].living
                    /\ named[c].peak = rows[c].peak /\ named[c].extinct = rows[c].extinct
                    /\ c \in DOMAIN given => named[c].named = given[c]
                    /\ c \notin DOMAIN given => named[c] = rows[c]
<1> DEFINE named == give_name(rows, genome, given)
<1>1. IsTable(named) /\ DOMAIN named = DOMAIN rows
    BY DEF give_name, IsTable
<1>2. ASSUME NEW c \in DOMAIN rows
      PROVE  /\ IsCladeRow(named[c])
             /\ SameClade(named[c], rows[c]) /\ named[c].living = rows[c].living
             /\ named[c].peak = rows[c].peak /\ named[c].extinct = rows[c].extinct
             /\ c \in DOMAIN given => named[c].named = given[c]
             /\ c \notin DOMAIN given => named[c] = rows[c]
    <2>1. PICK row : row = rows[c]
        OBVIOUS
    <2>2. PICK new : new = named[c]
        OBVIOUS
    <2>3. IsCladeRow(row)
        BY <2>1 DEF AreRows
    <2>4. CASE c \notin DOMAIN given
        <3>1. new = row
            BY <2>1, <2>2, <2>4 DEF give_name
        <3> HIDE DEF named
        <3> QED BY <2>1, <2>2, <2>3, <2>4, <3>1 DEF SameClade
    <2>5. CASE c \in DOMAIN given
        <3>1. PICK name : new = [row EXCEPT !.name = name, !.named = given[c]]
            BY <2>1, <2>2, <2>5 DEF give_name
        <3> HIDE DEF named
        <3>2. /\ IsCladeRow(new) /\ SameClade(new, row) /\ new.living = row.living
              /\ new.peak = row.peak /\ new.extinct = row.extinct /\ new.named = given[c]
            BY <2>3, <3>1 DEF SameClade, IsCladeRow
        <3> QED BY <2>1, <2>2, <2>5, <3>2
    <2> QED BY <2>4, <2>5
<1> HIDE DEF named
<1>3. AreRows(named)
    BY <1>1, <1>2 DEF AreRows
<1> QED BY <1>1, <1>2, <1>3 DEF named
-----------------------------------------------------------------------------
(* Names. *)

\* No two clades have one name, and no number of a combination is skipped.
NamesInOrder(rows) ==
    /\ IsInjective([c \in Named(rows) |-> rows[c].name])
    /\ \A c \in Named(rows) : rows[c].name.k \in 0..(Taken(rows, rows[c].name.combo) - 1)

\* Those of a clade's combination that get a name before it (give_name: by epoch, then id).
EarlierOf(genome, given, c) ==
    {d \in DOMAIN given : /\ Combo[genome[d]] = Combo[genome[c]]
                          /\ given[d] < given[c] \/ (given[d] = given[c] /\ d < c)}

\* Those of a combination that get a name.
OfCombo(genome, given, b) == {d \in DOMAIN given : Combo[genome[d]] = b}

\* Clades with no name, of genomes that have a combination.
IsGiven(rows, genome, given) ==
    /\ DOMAIN given \subseteq DOMAIN rows
    /\ \A c \in DOMAIN given : rows[c].name = NULL /\ given[c] \in Nat /\ genome[c] \in DOMAIN Combo

\* A proper part of a finite set is smaller.
LEMMA Smaller ==
    ASSUME NEW S, IsFiniteSet(S), NEW T, NEW x \in S, x \notin T, T \subseteq S
    PROVE  Cardinality(T) \in Nat /\ Cardinality(S) \in Nat /\ Cardinality(T) < Cardinality(S)
<1>1. IsFiniteSet(T) /\ T \cup {x} \in SUBSET S
    BY FS_Subset
<1>2. Cardinality(T \cup {x}) = Cardinality(T) + 1 /\ Cardinality(T \cup {x}) <= Cardinality(S)
    BY <1>1, FS_AddElement, FS_Subset
<1> QED BY <1>1, <1>2, FS_CardinalityType

\* give_name gives every clade of its list a name that no other has: it counts on
\* from the names taken of the same combination.
LEMMA GiveNames ==
    ASSUME NEW rows, AreRows(rows), IsFiniteSet(DOMAIN rows), DOMAIN rows \subseteq Nat,
           NamesInOrder(rows), NEW genome, NEW given, IsGiven(rows, genome, given)
    PROVE  /\ NamesInOrder(give_name(rows, genome, given))
           /\ Named(give_name(rows, genome, given)) = Named(rows) \cup DOMAIN given
<1> DEFINE named == give_name(rows, genome, given)
           T(b) == {c \in DOMAIN rows : rows[c].name # NULL /\ rows[c].name.combo = b}
           G(b) == OfCombo(genome, given, b)
           rank(c) == Cardinality(EarlierOf(genome, given, c))
           of(c) == Combo[genome[c]]
<1>1. DOMAIN named = DOMAIN rows /\ \A c \in DOMAIN rows \ DOMAIN given : named[c] = rows[c]
    BY DEF give_name
<1>2. ASSUME NEW c \in DOMAIN given
      PROVE  named[c].name = [combo |-> of(c), k |-> Taken(rows, of(c)) + rank(c)]
    <2>1. c \in DOMAIN rows
        BY DEF IsGiven
    <2>2. PICK row : row = rows[c]
        OBVIOUS
    <2>3. PICK name : name = [combo |-> of(c), k |-> Taken(rows, of(c)) + rank(c)]
        OBVIOUS
    <2>4. PICK new : new = named[c]
        OBVIOUS
    <2>5. new = [row EXCEPT !.name = name, !.named = given[c]]
        BY <2>1, <2>2, <2>3, <2>4 DEF give_name, EarlierOf
    <2>6. IsCladeRow(row)
        BY <2>1, <2>2 DEF AreRows
    <2> HIDE DEF named
    <2>7. new.name = name
        BY <2>5, <2>6 DEF IsCladeRow
    <2> QED BY <2>3, <2>4, <2>7
<1>3. ASSUME NEW c \in DOMAIN given, NEW b, b = of(c)
      PROVE  rank(c) \in Nat /\ rank(c) < Cardinality(G(b)) /\ Cardinality(G(b)) \in Nat
    <2>1. IsFiniteSet(G(b))
        BY FS_Subset DEF OfCombo, IsGiven
    <2>2. c \in G(b) /\ EarlierOf(genome, given, c) \subseteq G(b)
        BY <1>3 DEF OfCombo, EarlierOf
    <2>3. c \notin EarlierOf(genome, given, c)
        BY DEF EarlierOf, IsGiven
    <2> HIDE DEF G
    <2> QED BY <2>1, <2>2, <2>3, Smaller
<1>4. ASSUME NEW c \in DOMAIN given, NEW d \in DOMAIN given, c \in EarlierOf(genome, given, d)
      PROVE  rank(c) # rank(d)
    <2>1. given[c] \in Nat /\ given[d] \in Nat /\ c \in Nat /\ d \in Nat
        BY DEF IsGiven
    <2>2. EarlierOf(genome, given, c) \subseteq EarlierOf(genome, given, d)
        <3> SUFFICES ASSUME NEW x \in EarlierOf(genome, given, c)
                     PROVE  x \in EarlierOf(genome, given, d)
            OBVIOUS
        <3>1. x \in Nat /\ given[x] \in Nat /\ x \in DOMAIN given
            BY DEF EarlierOf, IsGiven
        <3>2. /\ of(x) = of(c) /\ of(c) = of(d)
              /\ given[x] < given[c] \/ (given[x] = given[c] /\ x < c)
              /\ given[c] < given[d] \/ (given[c] = given[d] /\ c < d)
            BY <1>4 DEF EarlierOf
        <3>3. given[x] < given[d] \/ (given[x] = given[d] /\ x < d)
            BY <2>1, <3>1, <3>2
        <3> QED BY <3>1, <3>2, <3>3 DEF EarlierOf
    <2>3. c \notin EarlierOf(genome, given, c)
        BY <2>1 DEF EarlierOf
    <2>4. IsFiniteSet(EarlierOf(genome, given, d))
        BY FS_Subset DEF EarlierOf, IsGiven
    <2>5. rank(c) \in Nat /\ rank(d) \in Nat /\ rank(c) < rank(d)
        BY <1>4, <2>2, <2>3, <2>4, Smaller
    <2> QED BY <2>5
<1>5. ASSUME NEW c \in DOMAIN given, NEW d \in DOMAIN given, c # d, of(c) = of(d)
      PROVE  rank(c) # rank(d)
    <2>1. given[c] \in Nat /\ given[d] \in Nat /\ c \in Nat /\ d \in Nat
        BY DEF IsGiven
    <2>2. \/ given[c] < given[d] \/ (given[c] = given[d] /\ c < d)
          \/ given[d] < given[c] \/ (given[d] = given[c] /\ d < c)
        BY <1>5, <2>1
    <2>3. c \in EarlierOf(genome, given, d) \/ d \in EarlierOf(genome, given, c)
        BY <1>5, <2>2 DEF EarlierOf
    <2> HIDE DEF rank
    <2> QED BY <1>4, <2>3
<1>6. ASSUME NEW c \in DOMAIN given
      PROVE  named[c].name # NULL /\ named[c].name.combo = of(c)
             /\ named[c].name.k = Taken(rows, of(c)) + rank(c) /\ Taken(rows, of(c)) \in Nat
    <2>1. IsFiniteSet(T(of(c)))
        BY FS_Subset
    <2>2. Taken(rows, of(c)) \in Nat
        BY <2>1, FS_CardinalityType DEF Taken
    <2>3. Taken(rows, of(c)) + rank(c) \in Nat
        BY <1>3, <2>2
    <2>4. PICK name : name = named[c].name
        OBVIOUS
    <2>5. PICK k : k = Taken(rows, of(c)) + rank(c)
        OBVIOUS
    <2>6. name = [combo |-> of(c), k |-> k]
        BY <1>2, <2>4, <2>5
    <2>7. of(c) \in {Combo[g] : g \in DOMAIN Combo} /\ k \in Nat
        BY <2>3, <2>5 DEF IsGiven
    <2>8. name \in [combo : {Combo[g] : g \in DOMAIN Combo}, k : Nat]
        <3> HIDE DEF of
        <3> QED BY <2>6, <2>7
    <2>9. name # NULL
        BY <2>8, HistoryAssumption
    <2> HIDE DEF rank, named, of
    <2> QED BY <2>2, <2>4, <2>5, <2>6, <2>9
<1>7. Named(named) = Named(rows) \cup DOMAIN given
    <2> HIDE DEF named, rank
    <2> QED BY <1>1, <1>6 DEF Named, IsGiven
<1>8. ASSUME NEW b
      PROVE  Taken(named, b) = Taken(rows, b) + Cardinality(G(b))
             /\ Taken(rows, b) \in Nat /\ Cardinality(G(b)) \in Nat
    <2> DEFINE U == {c \in DOMAIN named : named[c].name # NULL /\ named[c].name.combo = b}
    <2>1. U = T(b) \cup G(b)
        <3> HIDE DEF named, rank
        <3> QED BY <1>1, <1>6 DEF OfCombo, IsGiven
    <2>2. T(b) \cap G(b) = {}
        BY DEF OfCombo, IsGiven
    <2>3. IsFiniteSet(T(b)) /\ IsFiniteSet(G(b))
        BY FS_Subset DEF OfCombo, IsGiven
    <2>4. Taken(named, b) = Cardinality(U) /\ Taken(rows, b) = Cardinality(T(b))
        BY DEF Taken
    <2> HIDE DEF T, G, U, named
    <2>5. Cardinality(T(b)) \in Nat /\ Cardinality(G(b)) \in Nat
        BY <2>3, FS_CardinalityType
    <2>6. Cardinality(U) = Cardinality(T(b)) + Cardinality(G(b)) - Cardinality({})
        BY <2>1, <2>2, <2>3, FS_Union
    <2>7. Cardinality({}) = 0
        BY FS_EmptySet
    <2> QED BY <2>4, <2>5, <2>6, <2>7
<1>9. ASSUME NEW c \in Named(named)
      PROVE  named[c].name.k \in 0..(Taken(named, named[c].name.combo) - 1)
    <2>1. CASE c \in DOMAIN given
        <3>1. /\ Taken(named, of(c)) = Taken(rows, of(c)) + Cardinality(G(of(c)))
              /\ Taken(rows, of(c)) \in Nat /\ Cardinality(G(of(c))) \in Nat
            BY <1>8
        <3>2. rank(c) \in Nat /\ rank(c) < Cardinality(G(of(c)))
            BY <1>3, <2>1
        <3>3. named[c].name.combo = of(c) /\ named[c].name.k = Taken(rows, of(c)) + rank(c)
            BY <1>6, <2>1
        <3> HIDE DEF named, rank, of, G
        <3> QED BY <3>1, <3>2, <3>3
    <2>2. CASE c \notin DOMAIN given
        <3>1. c \in Named(rows) /\ named[c] = rows[c]
            <4> HIDE DEF named
            <4> QED BY <1>1, <1>7, <2>2 DEF Named
        <3> DEFINE b == rows[c].name.combo
        <3>2. rows[c].name.k \in 0..(Taken(rows, b) - 1)
            BY <3>1 DEF NamesInOrder
        <3>3. Taken(named, b) = Taken(rows, b) + Cardinality(G(b))
              /\ Taken(rows, b) \in Nat /\ Cardinality(G(b)) \in Nat
            BY <1>8
        <3> HIDE DEF named, G
        <3> QED BY <3>1, <3>2, <3>3
    <2> QED BY <2>1, <2>2
<1>10. ASSUME NEW c \in Named(named), NEW d \in Named(named), named[c].name = named[d].name
       PROVE  c = d
    <2>1. ASSUME NEW x \in DOMAIN given, NEW y \in Named(named) \ DOMAIN given
          PROVE  named[x].name # named[y].name
        <3>1. y \in Named(rows) /\ named[y] = rows[y]
            <4> HIDE DEF named
            <4> QED BY <1>1, <1>7, <2>1 DEF Named
        <3>2. rows[y].name.k \in 0..(Taken(rows, rows[y].name.combo) - 1)
            BY <3>1 DEF NamesInOrder
        <3>3. named[x].name.combo = of(x) /\ named[x].name.k = Taken(rows, of(x)) + rank(x)
              /\ Taken(rows, of(x)) \in Nat /\ rank(x) \in Nat
            BY <1>3, <1>6
        <3> HIDE DEF named, rank, of
        <3>4. ASSUME named[x].name = named[y].name
              PROVE  FALSE
            <4>1. rows[y].name.combo = of(x) /\ rows[y].name.k = Taken(rows, of(x)) + rank(x)
                BY <3>1, <3>3, <3>4
            <4> QED BY <3>2, <3>3, <4>1
        <3> QED BY <3>4
    <2>2. CASE c \in DOMAIN given /\ d \in DOMAIN given
        <3>1. of(c) = of(d) /\ Taken(rows, of(c)) + rank(c) = Taken(rows, of(d)) + rank(d)
            <4> HIDE DEF named, rank, of
            <4> QED BY <1>6, <1>10, <2>2
        <3>2. Taken(rows, of(c)) \in Nat /\ rank(c) \in Nat /\ rank(d) \in Nat
            BY <1>3, <1>6, <2>2
        <3>3. rank(c) = rank(d)
            <4> HIDE DEF rank, of
            <4> QED BY <3>1, <3>2
        <3> HIDE DEF rank, of
        <3> QED BY <1>5, <2>2, <3>1, <3>3
    <2>3. CASE c \notin DOMAIN given /\ d \notin DOMAIN given
        <3>1. c \in Named(rows) /\ d \in Named(rows) /\ rows[c].name = rows[d].name
            <4> HIDE DEF named
            <4> QED BY <1>1, <1>7, <1>10, <2>3 DEF Named
        <3> QED BY <3>1 DEF NamesInOrder, IsInjective
    <2> HIDE DEF named
    <2> QED BY <1>10, <2>1, <2>2, <2>3
<1>11. NamesInOrder(named)
    <2> HIDE DEF named
    <2> QED BY <1>9, <1>10 DEF NamesInOrder, IsInjective
<1> QED BY <1>7, <1>11
-----------------------------------------------------------------------------
(* The rows of organisms. *)

\* The ids of organisms.
Ids(S) == {o.id : o \in S}

\* Those who have come have higher numbers than all who lived (Newborn).
LEMMA NewbornAreNew ==
    ASSUME NEW w, Sound(w), NEW v, NEW report, Follows(w, v, report)
    PROVE  /\ Newborn(w, v, report) =
                {o \in v.organisms \cup report.died :
                    o.id \in w.next_organism_id..(v.next_organism_id - 1)}
           /\ Ids(Newborn(w, v, report)) = w.next_organism_id..(v.next_organism_id - 1)
           /\ Ids(v.organisms \cup report.died) \ Ids(Newborn(w, v, report)) = Ids(w.organisms)
<1> DEFINE all == v.organisms \cup report.died
           n == w.next_organism_id
           m == v.next_organism_id
<1>1. /\ n \in Nat \ {0} /\ m \in Nat \ {0} /\ n <= m
      /\ \A o \in w.organisms : o.id \in 1..(n - 1)
      /\ w.organisms \subseteq all
      /\ \A o \in all : o \in w.organisms \/ o.id \in n..(m - 1)
      /\ \A i \in n..(m - 1) : \E o \in all : o.id = i
      /\ \A o, p \in all : o.id = p.id => o = p
    BY DEF Sound, Follows, Population
<1> HIDE DEF all, n, m
<1>2. \A o \in all : (\A a \in w.organisms : o.id > a.id) <=> o.id \in n..(m - 1)
    <2> SUFFICES ASSUME NEW o \in all
                 PROVE  (\A a \in w.organisms : o.id > a.id) <=> o.id \in n..(m - 1)
        OBVIOUS
    <2>1. CASE o \in w.organisms
        <3>1. ~(o.id > o.id) /\ o.id \notin n..(m - 1)
            BY <1>1, <2>1
        <3> QED BY <2>1, <3>1
    <2>2. CASE o \notin w.organisms
        BY <1>1, <2>2
    <2> QED BY <2>1, <2>2
<1>3. Newborn(w, v, report) = {o \in all : o.id \in n..(m - 1)}
    BY <1>2 DEF Newborn, all
<1>4. Ids(Newborn(w, v, report)) = n..(m - 1)
    BY <1>1, <1>3 DEF Ids
<1>5. Ids(all) \ Ids(Newborn(w, v, report)) = Ids(w.organisms)
    <2>1. \A o \in all : o.id \notin n..(m - 1) => o \in w.organisms
        BY <1>1
    <2>2. \A o \in w.organisms : o \in all /\ o.id \notin n..(m - 1)
        BY <1>1
    <2> QED BY <1>4, <2>1, <2>2 DEF Ids
<1> QED BY <1>3, <1>4, <1>5 DEF all, n, m

\* The rows of organisms show a world.
OrganismsShow(t, w) ==
    /\ DOMAIN t.organisms = 1..(w.next_organism_id - 1)
    /\ {i \in DOMAIN t.organisms : t.organisms[i].died = NULL} = Ids(w.organisms)
    /\ \A o \in w.organisms : t.organisms[o.id].clade = o.clade

\* An organism's row after an epoch.
LEMMA EpochOrganisms ==
    ASSUME NEW w, Sound(w), NEW v, NEW report, Follows(w, v, report),
           NEW t, OrganismRows(t, w.epoch), OrganismsShow(t, w)
    PROVE  LET rows == OrganismsOf(t, w, v, report)
           IN /\ IsTable(rows) /\ DOMAIN rows = 1..(v.next_organism_id - 1)
              /\ \A i \in DOMAIN rows :
                    /\ IsOrganismRow(rows[i])
                    /\ i \in DOMAIN t.organisms =>
                          /\ rows[i].clade = t.organisms[i].clade
                          /\ rows[i].genome = t.organisms[i].genome
                          /\ rows[i].born = t.organisms[i].born
                          /\ IF i \in Ids(report.died)
                             THEN rows[i].died = v.epoch /\ t.organisms[i].died = NULL
                             ELSE rows[i].died = t.organisms[i].died
                    /\ i \notin DOMAIN t.organisms =>
                          /\ rows[i].born = v.epoch
                          /\ rows[i].died = IF i \in Ids(report.died) THEN v.epoch ELSE NULL
                          /\ \A o \in v.organisms : o.id = i => rows[i].clade = o.clade
<1> DEFINE newborn == Newborn(w, v, report)
           inserted == [i \in DOMAIN t.organisms \cup {o.id : o \in newborn} |->
                          IF i \in {o.id : o \in newborn}
                          THEN insert_organism(CHOOSE o \in newborn : o.id = i, v.epoch)
                          ELSE t.organisms[i]]
           rows == OrganismsOf(t, w, v, report)
           n == w.next_organism_id
           m == v.next_organism_id
<1>1. /\ n \in Nat \ {0} /\ m \in Nat \ {0} /\ n <= m
      /\ \A o, p \in v.organisms \cup report.died : o.id = p.id => o = p
      /\ DOMAIN t.organisms = 1..(n - 1)
    BY DEF Sound, Follows, Population, OrganismsShow
<1>2. /\ newborn \subseteq v.organisms \cup report.died
      /\ {o.id : o \in newborn} = n..(m - 1)
      /\ \A o \in report.died : o.id \in 1..(n - 1) => o.id \in Ids(w.organisms)
    <2>1. newborn \subseteq v.organisms \cup report.died /\ {o.id : o \in newborn} = n..(m - 1)
        BY NewbornAreNew DEF Ids
    <2>2. ASSUME NEW o \in report.died, o.id \in 1..(n - 1)
          PROVE  o.id \in Ids(w.organisms)
        <3>1. o.id \notin n..(m - 1)
            BY <1>1, <2>2
        <3>2. Ids(newborn) = n..(m - 1) /\ Ids(v.organisms \cup report.died) \ Ids(newborn) = Ids(w.organisms)
            BY NewbornAreNew
        <3>3. o.id \in Ids(v.organisms \cup report.died)
            BY DEF Ids
        <3> QED BY <3>1, <3>2, <3>3
    <2> QED BY <2>1, <2>2
<1>3. DOMAIN inserted = 1..(m - 1)
    <2>1. DOMAIN inserted = (1..(n - 1)) \cup (n..(m - 1))
        BY <1>1, <1>2
    <2> HIDE DEF inserted, n, m
    <2> QED BY <1>1, <2>1
<1>4. rows = [i \in DOMAIN inserted |->
                IF i \in Ids(report.died) THEN [inserted[i] EXCEPT !.died = v.epoch] ELSE inserted[i]]
    BY DEF OrganismsOf, Ids
<1>5. ASSUME NEW i \in n..(m - 1)
      PROVE  \E o \in newborn : o.id = i /\ inserted[i] = insert_organism(o, v.epoch)
    <2>1. \E o \in newborn : o.id = i
        BY <1>2
    <2>2. PICK o : o = CHOOSE x \in newborn : x.id = i
        OBVIOUS
    <2>3. o \in newborn /\ o.id = i
        BY <2>1, <2>2
    <2>4. i \in {x.id : x \in newborn}
        BY <1>2
    <2>5. inserted[i] = insert_organism(CHOOSE x \in newborn : x.id = i, v.epoch)
        <3> HIDE DEF newborn
        <3> QED BY <2>4
    <2> QED BY <2>2, <2>3, <2>5
<1>6. \A i \in 1..(n - 1) : inserted[i] = t.organisms[i]
    <2> SUFFICES ASSUME NEW i \in 1..(n - 1) PROVE inserted[i] = t.organisms[i]
        OBVIOUS
    <2>1. i \in DOMAIN t.organisms /\ i \notin n..(m - 1)
        <3> HIDE DEF n, m, newborn
        <3> QED BY <1>1
    <2>2. i \notin {o.id : o \in newborn}
        BY <1>2, <2>1
    <2> HIDE DEF newborn
    <2> QED BY <2>1, <2>2
<1> HIDE DEF inserted, newborn
<1>7. ASSUME NEW i \in 1..(n - 1)
      PROVE  /\ IsOrganismRow(rows[i])
             /\ rows[i].clade = t.organisms[i].clade
             /\ rows[i].genome = t.organisms[i].genome
             /\ rows[i].born = t.organisms[i].born
             /\ IF i \in Ids(report.died)
                THEN rows[i].died = v.epoch /\ t.organisms[i].died = NULL
                ELSE rows[i].died = t.organisms[i].died
    <2>1. PICK was : was = t.organisms[i]
        OBVIOUS
    <2>2. PICK row : row = rows[i]
        OBVIOUS
    <2>3. IsOrganismRow(was) /\ i \in 1..(m - 1)
        BY <1>1, <2>1 DEF OrganismRows
    <2>4. CASE i \in Ids(report.died)
        <3>1. row = [was EXCEPT !.died = v.epoch]
            BY <1>3, <1>4, <1>6, <2>1, <2>2, <2>3, <2>4
        <3>2. was.died = NULL
            <4>1. i \in Ids(w.organisms)
                BY <1>2, <2>4 DEF Ids
            <4> QED BY <2>1, <4>1 DEF OrganismsShow
        <3> HIDE DEF rows
        <3>3. /\ IsOrganismRow(row) /\ row.clade = was.clade /\ row.genome = was.genome
              /\ row.born = was.born /\ row.died = v.epoch
            BY <2>3, <3>1 DEF IsOrganismRow
        <3> QED BY <2>1, <2>2, <2>4, <3>2, <3>3
    <2>5. CASE i \notin Ids(report.died)
        <3>1. row = was
            BY <1>3, <1>4, <1>6, <2>1, <2>2, <2>3, <2>5
        <3> HIDE DEF rows
        <3> QED BY <2>1, <2>2, <2>3, <2>5, <3>1
    <2> QED BY <2>4, <2>5
<1>8. ASSUME NEW i \in n..(m - 1)
      PROVE  /\ IsOrganismRow(rows[i])
             /\ rows[i].born = v.epoch
             /\ rows[i].died = IF i \in Ids(report.died) THEN v.epoch ELSE NULL
             /\ \A o \in v.organisms : o.id = i => rows[i].clade = o.clade
    <2>1. PICK o \in newborn : o.id = i /\ inserted[i] = insert_organism(o, v.epoch)
        BY <1>5
    <2>2. PICK was : was = inserted[i]
        OBVIOUS
    <2>3. PICK row : row = rows[i]
        OBVIOUS
    <2>4. was = [clade |-> o.clade, genome |-> o.genome, born |-> v.epoch, died |-> NULL]
        BY <2>1, <2>2 DEF insert_organism
    <2>5. row = IF i \in Ids(report.died) THEN [was EXCEPT !.died = v.epoch] ELSE was
        <3>1. i \in DOMAIN inserted
            BY <1>1, <1>3
        <3> QED BY <1>4, <2>2, <2>3, <3>1
    <2> HIDE DEF rows
    <2>6. IsOrganismRow(row) /\ row.clade = o.clade /\ row.born = v.epoch
          /\ row.died = IF i \in Ids(report.died) THEN v.epoch ELSE NULL
        BY <2>4, <2>5 DEF IsOrganismRow
    <2>7. \A x \in v.organisms : x.id = i => x = o
        BY <1>1, <1>2, <2>1
    <2> QED BY <2>3, <2>6, <2>7
<1>9. IsTable(rows) /\ DOMAIN rows = 1..(m - 1)
    BY <1>3, <1>4 DEF IsTable
<1> HIDE DEF rows
<1>10. \A i \in 1..(m - 1) : i \in 1..(n - 1) \/ (i \in n..(m - 1) /\ i \notin 1..(n - 1))
    BY <1>1
<1>11. DOMAIN t.organisms = 1..(n - 1)
    BY <1>1
<1> HIDE DEF n, m
<1>12. ASSUME NEW i \in DOMAIN rows
       PROVE  /\ IsOrganismRow(rows[i])
              /\ i \in DOMAIN t.organisms =>
                    /\ rows[i].clade = t.organisms[i].clade
                    /\ rows[i].genome = t.organisms[i].genome
                    /\ rows[i].born = t.organisms[i].born
                    /\ IF i \in Ids(report.died)
                       THEN rows[i].died = v.epoch /\ t.organisms[i].died = NULL
                       ELSE rows[i].died = t.organisms[i].died
              /\ i \notin DOMAIN t.organisms =>
                    /\ rows[i].born = v.epoch
                    /\ rows[i].died = IF i \in Ids(report.died) THEN v.epoch ELSE NULL
                    /\ \A o \in v.organisms : o.id = i => rows[i].clade = o.clade
    <2>1. CASE i \in 1..(n - 1)
        BY <1>7, <1>11, <2>1
    <2>2. CASE i \in n..(m - 1) /\ i \notin 1..(n - 1)
        BY <1>8, <1>11, <2>2
    <2> QED BY <1>9, <1>10, <2>1, <2>2
<1> QED BY <1>9, <1>12 DEF rows, m

\* After an epoch the rows of organisms show its world.
LEMMA OrganismsShown ==
    ASSUME NEW w, Sound(w), NEW v, NEW report, Follows(w, v, report),
           NEW t, OrganismRows(t, w.epoch), OrganismsShow(t, w),
           NEW r, r.organisms = OrganismsOf(t, w, v, report)
    PROVE  OrganismRows(r, v.epoch) /\ OrganismsShow(r, v)
<1> DEFINE n == w.next_organism_id
           m == v.next_organism_id
           rows == r.organisms
<1>1. /\ n \in Nat \ {0} /\ m \in Nat \ {0} /\ n <= m
      /\ \A o \in w.organisms : o.id \in 1..(n - 1)
      /\ w.organisms \subseteq v.organisms \cup report.died /\ v.organisms \cap report.died = {}
      /\ \A o \in v.organisms \cup report.died : o \in w.organisms \/ o.id \in n..(m - 1)
      /\ \A i \in n..(m - 1) : \E o \in v.organisms \cup report.died : o.id = i
      /\ \A o, p \in v.organisms \cup report.died : o.id = p.id => o = p
      /\ DOMAIN t.organisms = 1..(n - 1)
      /\ w.epoch \in Nat /\ v.epoch = w.epoch + 1
    BY DEF Sound, Follows, Population, OrganismsShow
<1>2. /\ IsTable(rows) /\ DOMAIN rows = 1..(m - 1)
      /\ \A i \in DOMAIN rows :
            /\ IsOrganismRow(rows[i])
            /\ i \in DOMAIN t.organisms =>
                  /\ rows[i].clade = t.organisms[i].clade
                  /\ rows[i].genome = t.organisms[i].genome
                  /\ rows[i].born = t.organisms[i].born
                  /\ IF i \in Ids(report.died)
                     THEN rows[i].died = v.epoch /\ t.organisms[i].died = NULL
                     ELSE rows[i].died = t.organisms[i].died
            /\ i \notin DOMAIN t.organisms =>
                  /\ rows[i].born = v.epoch
                  /\ rows[i].died = IF i \in Ids(report.died) THEN v.epoch ELSE NULL
                  /\ \A o \in v.organisms : o.id = i => rows[i].clade = o.clade
    BY EpochOrganisms
<1>3. \A i \in DOMAIN t.organisms :
         t.organisms[i].born \in 0..w.epoch /\ t.organisms[i].died \in {NULL} \cup 0..w.epoch
    BY DEF OrganismRows
<1>4. \A i \in DOMAIN t.organisms : t.organisms[i].died = NULL <=> i \in Ids(w.organisms)
    BY DEF OrganismsShow
<1>5. \A o \in w.organisms : t.organisms[o.id].clade = o.clade
    BY DEF OrganismsShow
<1>6. v.epoch # NULL /\ v.epoch \in 0..v.epoch
    BY <1>1, HistoryAssumption
<1>7. ASSUME NEW o \in v.organisms
      PROVE  o.id \in DOMAIN rows /\ o.id \notin Ids(report.died)
             /\ rows[o.id].clade = o.clade /\ rows[o.id].died = NULL
    <2>1. o.id \notin Ids(report.died)
        BY <1>1 DEF Ids
    <2>2. o \in w.organisms \/ o.id \in n..(m - 1)
        BY <1>1
    <2>3. CASE o \in w.organisms
        <3>1. o.id \in 1..(n - 1) /\ o.id \in 1..(m - 1) /\ o.id \in Ids(w.organisms)
            BY <1>1, <2>3 DEF Ids
        <3> HIDE DEF n, m, rows
        <3> QED BY <1>1, <1>2, <1>4, <1>5, <2>1, <2>3, <3>1
    <2>4. CASE o.id \in n..(m - 1)
        <3>1. o.id \notin 1..(n - 1) /\ o.id \in 1..(m - 1)
            BY <1>1, <2>4
        <3> HIDE DEF n, m, rows
        <3> QED BY <1>1, <1>2, <2>1, <3>1
    <2> QED BY <2>2, <2>3, <2>4
<1>8. ASSUME NEW i \in DOMAIN rows, rows[i].died = NULL
      PROVE  i \in Ids(v.organisms)
    <2>1. i \notin Ids(report.died)
        BY <1>2, <1>6, <1>8
    <2>2. \E o \in v.organisms \cup report.died : o.id = i
        <3>1. CASE i \in DOMAIN t.organisms
            <4>1. i \in Ids(w.organisms)
                BY <1>2, <1>4, <1>8, <2>1, <3>1
            <4> QED BY <1>1, <4>1 DEF Ids
        <3>2. CASE i \notin DOMAIN t.organisms
            <4>1. i \in n..(m - 1)
                <5> HIDE DEF n, m, rows
                <5> QED BY <1>1, <1>2, <3>2
            <4> QED BY <1>1, <4>1
        <3> QED BY <3>1, <3>2
    <2> QED BY <2>1, <2>2 DEF Ids
<1>9. {i \in DOMAIN rows : rows[i].died = NULL} = Ids(v.organisms)
    <2> HIDE DEF rows
    <2> QED BY <1>7, <1>8 DEF Ids
<1>10. ASSUME NEW i \in DOMAIN rows
       PROVE  rows[i].born \in 0..v.epoch /\ rows[i].died \in {NULL} \cup 0..v.epoch
    <2>1. 0..w.epoch \subseteq 0..v.epoch
        BY <1>1
    <2> HIDE DEF rows
    <2>2. CASE i \in DOMAIN t.organisms
        BY <1>2, <1>3, <1>6, <2>1, <2>2
    <2>3. CASE i \notin DOMAIN t.organisms
        BY <1>2, <1>6, <2>3
    <2> QED BY <2>2, <2>3
<1> HIDE DEF n
<1> QED BY <1>2, <1>7, <1>9, <1>10 DEF OrganismRows, OrganismsShow

\* A rollback gives the organisms back as they were before the epoch.
LEMMA OrganismsUndone ==
    ASSUME NEW w, Sound(w), NEW v, NEW report, Follows(w, v, report),
           NEW t, OrganismRows(t, w.epoch), OrganismsShow(t, w)
    PROVE  OrganismsBefore(OrganismsOf(t, w, v, report), w.epoch) = t.organisms
<1> DEFINE rows == OrganismsOf(t, w, v, report)
           n == w.next_organism_id
           m == v.next_organism_id
           e == w.epoch
<1>1. /\ n \in Nat \ {0} /\ m \in Nat \ {0} /\ n <= m
      /\ DOMAIN t.organisms = 1..(n - 1)
      /\ e \in Nat /\ v.epoch = e + 1
    BY DEF Sound, Follows, Population, OrganismsShow
<1>2. /\ DOMAIN rows = 1..(m - 1)
      /\ \A i \in DOMAIN rows :
            /\ IsOrganismRow(rows[i])
            /\ i \in DOMAIN t.organisms =>
                  /\ rows[i].clade = t.organisms[i].clade
                  /\ rows[i].genome = t.organisms[i].genome
                  /\ rows[i].born = t.organisms[i].born
                  /\ IF i \in Ids(report.died)
                     THEN rows[i].died = v.epoch /\ t.organisms[i].died = NULL
                     ELSE rows[i].died = t.organisms[i].died
            /\ i \notin DOMAIN t.organisms => rows[i].born = v.epoch
    BY EpochOrganisms
<1> HIDE DEF rows
<1>3. \A i \in DOMAIN t.organisms :
         /\ IsOrganismRow(t.organisms[i]) /\ t.organisms[i].born \in 0..e
         /\ t.organisms[i].died \in {NULL} \cup 0..e
    BY DEF OrganismRows
<1>4. {j \in DOMAIN rows : rows[j].born <= e} = DOMAIN t.organisms
    <2> HIDE DEF n, m, e
    <2>1. DOMAIN t.organisms \subseteq DOMAIN rows
        BY <1>1, <1>2
    <2>2. \A j \in DOMAIN t.organisms : rows[j].born <= e
        BY <1>1, <1>2, <1>3, <2>1
    <2>3. \A j \in DOMAIN rows \ DOMAIN t.organisms : ~(rows[j].born <= e)
        BY <1>1, <1>2
    <2> QED BY <2>1, <2>2, <2>3
<1>5. ASSUME NEW i \in DOMAIN t.organisms
      PROVE  Revived(rows[i], e) = t.organisms[i]
    <2>1. PICK was : was = t.organisms[i]
        OBVIOUS
    <2>2. PICK row : row = rows[i]
        OBVIOUS
    <2>3. PICK back : back = Revived(row, e)
        OBVIOUS
    <2>4. i \in DOMAIN rows
        BY <1>4
    <2>5. /\ IsOrganismRow(row) /\ IsOrganismRow(was)
          /\ row.clade = was.clade /\ row.genome = was.genome /\ row.born = was.born
          /\ was.died \in {NULL} \cup 0..e
          /\ \/ row.died = v.epoch /\ was.died = NULL
             \/ row.died = was.died
        BY <1>2, <1>3, <2>1, <2>2, <2>4
    <2> HIDE DEF e
    <2>6. CASE row.died = v.epoch /\ was.died = NULL
        <3>1. row.died # NULL /\ row.died > e
            BY <1>1, <2>6, HistoryAssumption
        <3>2. back = [row EXCEPT !.died = NULL]
            BY <2>3, <3>1 DEF Revived
        <3>3. IsOrganismRow(back) /\ back.clade = row.clade /\ back.genome = row.genome
              /\ back.born = row.born /\ back.died = NULL
            BY <2>5, <3>2 DEF IsOrganismRow
        <3>4. back = was
            BY <2>5, <2>6, <3>3 DEF IsOrganismRow
        <3> QED BY <2>1, <2>2, <2>3, <3>4
    <2>7. CASE row.died = was.died
        <3>1. ~(row.died # NULL /\ row.died > e)
            BY <1>1, <2>5, <2>7
        <3>2. back = row
            BY <2>3, <3>1 DEF Revived
        <3>3. back = was
            BY <2>5, <2>7, <3>2 DEF IsOrganismRow
        <3> QED BY <2>1, <2>2, <2>3, <3>3
    <2> QED BY <2>5, <2>6, <2>7
<1>6. IsTable(t.organisms)
    BY DEF OrganismRows
<1> HIDE DEF e
<1>7. OrganismsBefore(rows, e) = [i \in DOMAIN t.organisms |-> t.organisms[i]]
    BY <1>4, <1>5 DEF OrganismsBefore
<1> QED BY <1>6, <1>7 DEF IsTable, rows, e
-----------------------------------------------------------------------------
(* What an epoch does to the rows of clades. *)

\* The rows of clades show a world.
CladesShow(rows, w, gone) ==
    \A c \in (1..(w.next_clade_id - 1)) \ gone :
        /\ c \in DOMAIN rows
        /\ c \in DOMAIN w.clades =>
              /\ rows[c].extinct = NULL /\ SameClade(rows[c], w.clades[c])
              /\ rows[c].living = w.clades[c].living /\ rows[c].peak = w.clades[c].peak
        /\ c \notin DOMAIN w.clades => rows[c].extinct # NULL /\ rows[c].living = 0

\* Clades have the numbers that were given, or are of a lost epoch.
InRange(rows, w, gone) == DOMAIN rows \subseteq (1..(w.next_clade_id - 1)) \cup gone

\* The rows of clades after an epoch.
RowsAfter(t, v, report) == name_new(RowsOf(t, v, report), All(v, report), v.epoch)

\* What record_epoch changes in the row of a clade that was there, and writes
\* into a new one.
Later(row, was, e) ==
    /\ SameClade(row, was)
    /\ SameName(row, was) \/ (was.name = NULL /\ row.name # NULL /\ row.named = e)
    /\ row.extinct = was.extinct \/ row.extinct = e

\* A clade's row after an epoch.
IsLaterRow(row, t, v, report, c) ==
    LET was == t.clades[c]
        clade == All(v, report)[c]
    IN /\ c \in DOMAIN t.clades => Later(row, was, v.epoch)
       /\ c \notin DOMAIN t.clades => SameClade(row, clade) /\ row.named \in {NULL, v.epoch}
       /\ c \in DOMAIN All(v, report) =>
             /\ row.peak = clade.peak
             /\ IsNamed(row.peak) => row.name # NULL
       /\ c \in DOMAIN v.clades =>
             /\ row.living = v.clades[c].living
             /\ c \in DOMAIN t.clades => row.extinct = was.extinct
             /\ c \notin DOMAIN t.clades => row.extinct = NULL
       /\ c \in DOMAIN report.extinct => row.living = 0 /\ row.extinct = v.epoch
       /\ c \notin DOMAIN All(v, report) => row = was
       /\ row.name # NULL => \/ c \in DOMAIN t.clades /\ was.name # NULL
                             \/ IsNamed(row.peak)

\* What record_epoch makes of the rows of clades: names are given once, in the
\* epoch that is recorded.
LEMMA EpochClades ==
    ASSUME NEW w, Sound(w), NEW v, NEW report, Follows(w, v, report),
           NEW t, CladeRows(t.clades, w.epoch, w.epoch), NamesInOrder(t.clades)
    PROVE  LET rows == RowsAfter(t, v, report)
           IN /\ CladeRows(rows, w.epoch, v.epoch)
              /\ NamesInOrder(rows)
              /\ DOMAIN rows = DOMAIN t.clades \cup report.founded
              /\ \A c \in DOMAIN rows : IsLaterRow(rows[c], t, v, report, c)
<1> DEFINE clades == All(v, report)
           before == RowsOf(t, v, report)
           new == {c \in DOMAIN clades : IsNamed(clades[c].peak) /\ Unnamed(before, c)}
           genome == [c \in new |-> clades[c].reference]
           given == [c \in new |-> v.epoch]
           rows == RowsAfter(t, v, report)
<1>1. /\ w.epoch \in Nat /\ v.epoch = w.epoch + 1
      /\ report.founded \subseteq DOMAIN clades
      /\ DOMAIN clades = DOMAIN v.clades \cup DOMAIN report.extinct
      /\ \A c \in report.founded : clades[c].founded = w.epoch
      /\ DOMAIN v.clades \cap DOMAIN report.extinct = {}
      /\ clades \in [DOMAIN clades -> CladeRecord(w.epoch)]
      /\ report.founded = w.next_clade_id..(v.next_clade_id - 1)
      /\ w.next_clade_id \in Nat \ {0} /\ v.next_clade_id \in Nat \ {0}
    BY DEF Sound, Follows, Genealogy, All
<1>2. /\ AreRows(before)
      /\ DOMAIN before = DOMAIN t.clades \cup report.founded
      /\ \A c \in DOMAIN before : IsUnnamedRow(before[c], t, v, report, c)
    <2>1. AreRows(t.clades)
        BY DEF CladeRows
    <2>2. report.founded \subseteq DOMAIN All(v, report) /\ DOMAIN v.clades \cap DOMAIN report.extinct = {}
        BY <1>1
    <2> QED BY <2>1, <2>2, EpochRows
<1>3. \A c \in DOMAIN before :
          /\ c \in DOMAIN t.clades =>
                SameClade(before[c], t.clades[c]) /\ SameName(before[c], t.clades[c])
          /\ c \notin DOMAIN t.clades =>
                SameClade(before[c], clades[c]) /\ before[c].name = NULL /\ before[c].named = NULL
          /\ c \in DOMAIN clades => before[c].peak = clades[c].peak
          /\ c \in DOMAIN v.clades =>
                /\ before[c].living = v.clades[c].living
                /\ c \in DOMAIN t.clades => before[c].extinct = t.clades[c].extinct
                /\ c \notin DOMAIN t.clades => before[c].extinct = NULL
          /\ c \in DOMAIN report.extinct => before[c].living = 0 /\ before[c].extinct = v.epoch
          /\ c \notin DOMAIN clades => before[c] = t.clades[c]
    BY <1>2 DEF IsUnnamedRow
<1> HIDE DEF clades, before
<1>4. rows = give_name(before, genome, given)
    BY DEF name_new, RowsAfter, clades, before
<1>5. IsFiniteSet(DOMAIN before) /\ DOMAIN before \subseteq Nat
    <2>1. IsFiniteSet(report.founded) /\ report.founded \subseteq Nat
        <3>1. w.next_clade_id \in Int /\ v.next_clade_id - 1 \in Int
            BY <1>1
        <3> QED BY <1>1, <3>1, FS_Interval
    <2>2. IsFiniteSet(DOMAIN t.clades) /\ DOMAIN t.clades \subseteq Nat
        BY DEF CladeRows
    <2>3. IsFiniteSet(DOMAIN t.clades \cup report.founded)
        BY <2>1, <2>2, FS_Union
    <2> QED BY <1>2, <2>1, <2>2, <2>3
<1>6. NamesInOrder(before)
    <2>1. \A c \in Named(t.clades) : c \in DOMAIN before /\ before[c].name = t.clades[c].name
        BY <1>2, <1>3 DEF Named, SameName
    <2>2. Named(before) = Named(t.clades)
        BY <1>2, <1>3 DEF Named, SameName
    <2>3. \A b : {c \in DOMAIN before : before[c].name # NULL /\ before[c].name.combo = b}
                 = {c \in DOMAIN t.clades : t.clades[c].name # NULL /\ t.clades[c].name.combo = b}
        BY <1>2, <1>3 DEF SameName
    <2>4. \A b : Taken(before, b) = Taken(t.clades, b)
        BY <2>3 DEF Taken
    <2> QED BY <2>1, <2>2, <2>4 DEF NamesInOrder, IsInjective
<1>7. IsGiven(before, genome, given)
    <2>1. v.epoch \in Nat
        BY <1>1
    <2>2. \A c \in DOMAIN clades : clades[c].reference \in DOMAIN Combo
        BY <1>1 DEF CladeRecord
    <2> QED BY <2>1, <2>2 DEF IsGiven, Unnamed
<1>8. /\ NamesInOrder(rows)
      /\ Named(rows) = Named(before) \cup new
    <2>1. DOMAIN given = new
        OBVIOUS
    <2> HIDE DEF genome, given, new, rows
    <2> QED BY <1>2, <1>4, <1>5, <1>6, <1>7, <2>1, GiveNames
<1>9. /\ AreRows(rows) /\ DOMAIN rows = DOMAIN before
      /\ \A c \in DOMAIN before :
            /\ SameClade(rows[c], before[c]) /\ rows[c].living = before[c].living
            /\ rows[c].peak = before[c].peak /\ rows[c].extinct = before[c].extinct
            /\ c \in new => rows[c].named = v.epoch
            /\ c \notin new => rows[c] = before[c]
    <2>1. DOMAIN given = new /\ \A c \in new : given[c] = v.epoch
        OBVIOUS
    <2> HIDE DEF genome, given, new, rows
    <2> QED BY <1>2, <1>4, <2>1, NamedRows
<1> HIDE DEF rows
<1>10. \A c \in DOMAIN before : rows[c].name # NULL <=> (before[c].name # NULL \/ c \in new)
    <2> HIDE DEF new
    <2> QED BY <1>8, <1>9 DEF Named
<1>11. \A c \in new : c \in DOMAIN clades /\ c \in DOMAIN before /\ before[c].name = NULL
                      /\ IsNamed(clades[c].peak)
    BY DEF Unnamed
<1>12. \A c \in DOMAIN clades :
          c \in DOMAIN before /\ IsNamed(clades[c].peak) => before[c].name # NULL \/ c \in new
    BY DEF Unnamed
<1> HIDE DEF new
<1>13. ASSUME NEW c \in DOMAIN rows
       PROVE  /\ c \in DOMAIN t.clades => Later(rows[c], t.clades[c], v.epoch)
              /\ c \notin DOMAIN t.clades =>
                    SameClade(rows[c], clades[c]) /\ rows[c].named \in {NULL, v.epoch}
              /\ c \in DOMAIN clades =>
                    /\ rows[c].peak = clades[c].peak
                    /\ IsNamed(rows[c].peak) => rows[c].name # NULL
              /\ c \in DOMAIN v.clades =>
                    /\ rows[c].living = v.clades[c].living
                    /\ c \in DOMAIN t.clades => rows[c].extinct = t.clades[c].extinct
                    /\ c \notin DOMAIN t.clades => rows[c].extinct = NULL
              /\ c \in DOMAIN report.extinct => rows[c].living = 0 /\ rows[c].extinct = v.epoch
              /\ c \notin DOMAIN clades => rows[c] = t.clades[c]
              /\ rows[c].name # NULL =>
                    (c \in DOMAIN t.clades /\ t.clades[c].name # NULL) \/ IsNamed(rows[c].peak)
    <2>1. CASE c \in new
        BY <1>1, <1>2, <1>3, <1>9, <1>10, <1>11, <2>1 DEF Later, SameClade, SameName
    <2>2. CASE c \notin new
        BY <1>1, <1>2, <1>3, <1>9, <1>10, <1>12, <2>2 DEF Later, SameClade, SameName
    <2> QED BY <2>1, <2>2
<1>14. CladeRows(rows, w.epoch, v.epoch)
    <2>1. 0..w.epoch \subseteq 0..v.epoch /\ v.epoch \in 0..v.epoch /\ v.epoch # NULL
          /\ w.epoch \in 0..w.epoch
        BY <1>1, HistoryAssumption
    <2>2. ASSUME NEW c \in DOMAIN rows
          PROVE  /\ rows[c].founded \in 0..w.epoch /\ rows[c].reference \in DOMAIN Combo
                 /\ rows[c].extinct \in {NULL} \cup 0..v.epoch
                 /\ rows[c].named \in {NULL} \cup 0..v.epoch
                 /\ rows[c].named = NULL <=> rows[c].name = NULL
        <3>1. c \in DOMAIN before
            BY <1>9
        <3>2. CASE c \in DOMAIN t.clades
            <4>1. /\ t.clades[c].founded \in 0..w.epoch /\ t.clades[c].reference \in DOMAIN Combo
                  /\ t.clades[c].extinct \in {NULL} \cup 0..w.epoch
                  /\ t.clades[c].named \in {NULL} \cup 0..w.epoch
                  /\ t.clades[c].named = NULL <=> t.clades[c].name = NULL
                BY <3>2 DEF CladeRows
            <4> QED BY <1>13, <2>1, <3>2, <4>1 DEF Later, SameClade, SameName
        <3>3. CASE c \notin DOMAIN t.clades
            <4>1. c \in report.founded /\ c \in DOMAIN clades
                BY <1>1, <1>2, <3>1, <3>3
            <4>2. clades[c].founded = w.epoch /\ clades[c].reference \in DOMAIN Combo
                BY <1>1, <4>1 DEF CladeRecord
            <4>3. rows[c].extinct = NULL \/ rows[c].extinct = v.epoch
                BY <1>1, <1>13, <3>3, <4>1
            <4>4. rows[c].named = NULL <=> rows[c].name = NULL
                BY <1>2, <1>3, <1>9, <1>10, <2>1, <3>1, <3>3
            <4>5. rows[c].named \in {NULL, v.epoch} /\ SameClade(rows[c], clades[c])
                BY <1>13, <3>3
            <4> QED BY <2>1, <4>2, <4>3, <4>4, <4>5 DEF SameClade
        <3> QED BY <3>2, <3>3
    <2> QED BY <1>5, <1>9, <2>2 DEF CladeRows
<1>15. \A c \in DOMAIN rows : IsLaterRow(rows[c], t, v, report, c)
    BY <1>13 DEF IsLaterRow, clades
<1> QED BY <1>2, <1>8, <1>9, <1>14, <1>15 DEF rows

-----------------------------------------------------------------------------
(* Rolled back. *)

\* A row after a rollback to world w.
IsRolled(row, was, w, c) ==
    /\ SameClade(row, was)
    /\ IF was.named # NULL /\ was.named > w.epoch
       THEN row.name = NULL /\ row.named = NULL ELSE SameName(row, was)
    /\ row.extinct = IF was.extinct # NULL /\ was.extinct > w.epoch THEN NULL ELSE was.extinct
    /\ IF c \in DOMAIN w.clades
       THEN row.living = w.clades[c].living /\ row.peak = w.clades[c].peak
       ELSE row.living = was.living /\ row.peak = was.peak

\* No row of a clade is lost by a rollback: the clade was founded in an epoch
\* that had begun.
LEMMA RolledClades ==
    ASSUME NEW t, IsTables(t), NEW w, w.epoch \in Nat, NEW e, CladeRows(t.clades, w.epoch, e)
    PROVE  LET rows == rollback_after(t, w).clades
           IN /\ DOMAIN rows = DOMAIN t.clades
              /\ AreRows(rows)
              /\ \A c \in DOMAIN rows : IsRolled(rows[c], t.clades[c], w, c)
<1> DEFINE was == t.clades
           m == w.epoch
           founded == {c \in DOMAIN was : was[c].founded <= m}
           undone == [c \in founded |-> NotYetNamed(Unended(was[c], m), m)]
           rows == rollback_after(t, w).clades
<1>1. rows = Counted(undone, w.clades)
    BY RollbackFields
<1>2. founded = DOMAIN was
    <2>1. \A c \in DOMAIN was : was[c].founded \in 0..m
        BY DEF CladeRows
    <2> HIDE DEF was, m
    <2>2. \A c \in DOMAIN was : was[c].founded <= m
        BY <2>1
    <2> QED BY <2>2 DEF founded
<1>3. DOMAIN undone = DOMAIN was /\ \A c \in DOMAIN was : undone[c] = NotYetNamed(Unended(was[c], m), m)
    BY <1>2
<1> HIDE DEF undone, rows
<1>4. DOMAIN rows = DOMAIN was /\ IsTable(rows)
    BY <1>1, <1>3 DEF Counted, IsTable
<1>5. ASSUME NEW c \in DOMAIN was
      PROVE  IsCladeRow(rows[c]) /\ IsRolled(rows[c], was[c], w, c)
    <2>1. PICK q : q = was[c]
        OBVIOUS
    <2>2. PICK x : x = Unended(q, m)
        OBVIOUS
    <2>3. PICK y : y = NotYetNamed(x, m)
        OBVIOUS
    <2>4. PICK row : row = rows[c]
        OBVIOUS
    <2>5. IsCladeRow(q)
        BY <2>1 DEF CladeRows, AreRows
    <2>6. row = IF c \in DOMAIN w.clades
                THEN [y EXCEPT !.living = w.clades[c].living, !.peak = w.clades[c].peak] ELSE y
        BY <1>1, <1>3, <2>1, <2>2, <2>3, <2>4 DEF Counted
    <2> HIDE DEF was, m
    <2>7. /\ IsCladeRow(x) /\ SameClade(x, q) /\ SameName(x, q)
          /\ x.extinct = IF q.extinct # NULL /\ q.extinct > m THEN NULL ELSE q.extinct
          /\ x.living = q.living /\ x.peak = q.peak
        BY <2>2, <2>5 DEF Unended, IsCladeRow, SameClade, SameName
    <2>8. /\ IsCladeRow(y) /\ SameClade(y, x) /\ y.extinct = x.extinct
          /\ y.living = x.living /\ y.peak = x.peak
          /\ IF x.named # NULL /\ x.named > m
             THEN y.name = NULL /\ y.named = NULL ELSE SameName(y, x)
        BY <2>3, <2>7 DEF NotYetNamed, IsCladeRow, SameClade, SameName
    <2>9. /\ IsCladeRow(row) /\ SameClade(row, y) /\ SameName(row, y) /\ row.extinct = y.extinct
          /\ IF c \in DOMAIN w.clades
             THEN row.living = w.clades[c].living /\ row.peak = w.clades[c].peak
             ELSE row.living = y.living /\ row.peak = y.peak
        <3>1. PICK n : n = w.clades[c]
            OBVIOUS
        <3>2. row = IF c \in DOMAIN w.clades
                    THEN [y EXCEPT !.living = n.living, !.peak = n.peak] ELSE y
            BY <2>6, <3>1
        <3> QED BY <2>8, <3>1, <3>2 DEF IsCladeRow, SameClade, SameName
    <2>10. IsRolled(row, q, w, c)
        <3>1. SameClade(row, q)
            BY <2>7, <2>8, <2>9 DEF SameClade
        <3>2. row.extinct = IF q.extinct # NULL /\ q.extinct > m THEN NULL ELSE q.extinct
            BY <2>7, <2>8, <2>9
        <3>3. IF q.named # NULL /\ q.named > m
              THEN row.name = NULL /\ row.named = NULL ELSE SameName(row, q)
            BY <2>7, <2>8, <2>9 DEF SameName
        <3> QED BY <2>7, <2>8, <2>9, <3>1, <3>2, <3>3 DEF IsRolled, m
    <2> QED BY <2>1, <2>4, <2>9, <2>10
<1> QED BY <1>4, <1>5 DEF rows, AreRows

\* Nothing is left of what came after the world.
LEMMA RolledBack ==
    ASSUME NEW t, NEW w, w.epoch \in Nat, NEW e, e \in Nat, NothingLater(t, w.epoch, e)
    PROVE  NothingLater(rollback_after(t, w), w.epoch, w.epoch)
<1> DEFINE m == w.epoch
           r == rollback_after(t, w)
<1>1. /\ IsTables(r)
      /\ r.epochs = UpTo(t.epochs, m) /\ r.muller = UpTo(t.muller, m)
      /\ r.events = Until(t.events, m) /\ r.stories = Until(t.stories, m)
      /\ r.frames = {f \in t.frames : f <= m}
      /\ r.organisms = OrganismsBefore(t.organisms, m)
    <2>1. IsTables(t)
        BY DEF NothingLater
    <2> QED BY <2>1, RollbackFields
<1>2. /\ DOMAIN r.clades = DOMAIN t.clades /\ AreRows(r.clades)
      /\ \A c \in DOMAIN r.clades : IsRolled(r.clades[c], t.clades[c], w, c)
    BY RolledClades DEF NothingLater
<1> HIDE DEF r
<1>3. \A x \in 0..e : x <= m => x \in 0..m
    OBVIOUS
<1> HIDE DEF m
<1>4. /\ IsTable(r.epochs) /\ IsTable(r.muller)
      /\ DOMAIN r.epochs \cup DOMAIN r.muller \cup r.frames \subseteq 0..m
    <2>1. /\ IsTable(r.epochs) /\ IsTable(r.muller)
          /\ DOMAIN r.epochs = {d \in DOMAIN t.epochs : d <= m}
          /\ DOMAIN r.muller = {d \in DOMAIN t.muller : d <= m}
        BY <1>1 DEF UpTo, IsTable
    <2>2. DOMAIN t.epochs \subseteq 0..e /\ DOMAIN t.muller \subseteq 0..e /\ t.frames \subseteq 0..e
        BY DEF NothingLater
    <2> QED BY <1>1, <1>3, <2>1, <2>2
<1>5. (\A x \in r.events : x.epoch \in 0..m) /\ (\A s \in r.stories : s.epoch \in 0..m)
    BY <1>1, <1>3 DEF NothingLater, Until
<1>6. OrganismRows(r, m)
    <2>1. ASSUME NEW i \in DOMAIN t.organisms, t.organisms[i].born <= m
          PROVE  LET row == Revived(t.organisms[i], m)
                 IN IsOrganismRow(row) /\ row.born \in 0..m /\ row.died \in {NULL} \cup 0..m
        <3>1. PICK was : was = t.organisms[i]
            OBVIOUS
        <3>2. PICK row : row = Revived(was, m)
            OBVIOUS
        <3>3. IsOrganismRow(was) /\ was.born \in 0..e /\ was.born <= m /\ was.died \in {NULL} \cup 0..e
            BY <2>1, <3>1 DEF NothingLater, OrganismRows
        <3>4. CASE was.died # NULL /\ was.died > m
            <4>1. IsOrganismRow(row) /\ row.born = was.born /\ row.died = NULL
                BY <3>2, <3>3, <3>4 DEF Revived, IsOrganismRow
            <4> QED BY <1>3, <3>1, <3>2, <3>3, <4>1
        <3>5. CASE ~(was.died # NULL /\ was.died > m)
            <4>1. row = was
                BY <3>2, <3>5 DEF Revived
            <4>2. was.died \in {NULL} \cup 0..m
                <5>1. CASE was.died = NULL
                    BY <5>1
                <5>2. CASE was.died \in 0..e /\ was.died # NULL
                    <6>1. m \in Nat
                        BY DEF m
                    <6>2. was.died <= m
                        BY <3>5, <5>2, <6>1
                    <6> QED BY <1>3, <5>2, <6>2
                <5> QED BY <3>3, <5>1, <5>2
            <4> QED BY <1>3, <3>1, <3>2, <3>3, <4>1, <4>2
        <3> QED BY <3>4, <3>5
    <2>2. r.organisms = [i \in {j \in DOMAIN t.organisms : t.organisms[j].born <= m} |->
                            Revived(t.organisms[i], m)]
        BY <1>1 DEF OrganismsBefore
    <2> QED BY <2>1, <2>2 DEF OrganismRows, IsTable
<1>7. CladeRows(r.clades, m, m)
    <2>1. ASSUME NEW c \in DOMAIN r.clades
          PROVE  /\ r.clades[c].founded \in 0..m /\ r.clades[c].reference \in DOMAIN Combo
                 /\ r.clades[c].extinct \in {NULL} \cup 0..m
                 /\ r.clades[c].named \in {NULL} \cup 0..m
                 /\ r.clades[c].named = NULL <=> r.clades[c].name = NULL
        <3>1. PICK was : was = t.clades[c]
            OBVIOUS
        <3>2. PICK row : row = r.clades[c]
            OBVIOUS
        <3>3. /\ was.founded \in 0..m /\ was.reference \in DOMAIN Combo
              /\ was.extinct \in {NULL} \cup 0..e /\ was.named \in {NULL} \cup 0..e
              /\ was.named = NULL <=> was.name = NULL
            BY <1>2, <3>1 DEF NothingLater, CladeRows, m
        <3>4. IsRolled(row, was, w, c) /\ m = w.epoch /\ m \in Nat
            BY <1>2, <3>1, <3>2 DEF m
        <3>5. row.founded \in 0..m /\ row.reference \in DOMAIN Combo
            BY <3>3, <3>4 DEF IsRolled, SameClade
        <3>6. row.extinct \in {NULL} \cup 0..m
            BY <3>3, <3>4 DEF IsRolled
        <3>7. row.named \in {NULL} \cup 0..m /\ (row.named = NULL <=> row.name = NULL)
            BY <3>3, <3>4 DEF IsRolled, SameName
        <3> QED BY <3>2, <3>5, <3>6, <3>7
    <2>2. IsFiniteSet(DOMAIN r.clades) /\ DOMAIN r.clades \subseteq Nat
        BY <1>2 DEF NothingLater, CladeRows
    <2> QED BY <1>2, <2>1, <2>2 DEF CladeRows
<1> QED BY <1>1, <1>4, <1>5, <1>6, <1>7 DEF NothingLater, r, m

\* Rows with the names of others, and no more.
NamesOf(rows, was) ==
    /\ DOMAIN was \subseteq DOMAIN rows
    /\ \A c \in DOMAIN was : SameName(rows[c], was[c])
    /\ \A c \in DOMAIN rows \ DOMAIN was : rows[c].name = NULL

\* Rows with the same names are as much in order.
LEMMA SameNamesInOrder ==
    ASSUME NEW rows, NEW was, NamesOf(rows, was), NamesInOrder(was)
    PROVE  NamesInOrder(rows) /\ Named(rows) = Named(was)
<1>1. \A c \in Named(was) : c \in DOMAIN rows /\ rows[c].name = was[c].name
    BY DEF Named, SameName, NamesOf
<1>2. Named(rows) = Named(was)
    BY DEF Named, SameName, NamesOf
<1>3. \A b : {c \in DOMAIN rows : rows[c].name # NULL /\ rows[c].name.combo = b}
             = {c \in DOMAIN was : was[c].name # NULL /\ was[c].name.combo = b}
    BY DEF SameName, NamesOf
<1>4. \A b : Taken(rows, b) = Taken(was, b)
    BY <1>3 DEF Taken
<1> QED BY <1>1, <1>2, <1>4 DEF NamesInOrder, IsInjective

\* What RollbackUndoes says of tables and of those a snapshot was saved with.
Undone(t, k, gone, e) ==
    /\ t.epochs = k.epochs /\ t.events = k.events /\ t.stories = k.stories
    /\ t.muller = k.muller /\ t.organisms = k.organisms
    /\ Without(t.clades, gone) = Without(k.clades, gone)
    /\ t.frames \subseteq k.frames
    /\ \A f \in k.frames \ t.frames : f <= e - FRAMES_KEPT

\* Tables that agree but for some rows agree but for more.
LEMMA WithoutMore ==
    ASSUME NEW f, NEW g, NEW S, Without(f, S) = Without(g, S), NEW T, S \subseteq T
    PROVE  Without(f, T) = Without(g, T)
<1>1. DOMAIN f \ S = DOMAIN g \ S
    <2>1. DOMAIN Without(f, S) = DOMAIN f \ S /\ DOMAIN Without(g, S) = DOMAIN g \ S
        BY DEF Without
    <2> QED BY <2>1
<1>2. \A x \in DOMAIN f \ S : f[x] = g[x]
    <2> SUFFICES ASSUME NEW x \in DOMAIN f \ S PROVE f[x] = g[x]
        OBVIOUS
    <2>1. Without(f, S)[x] = f[x] /\ Without(g, S)[x] = g[x]
        BY <1>1 DEF Without
    <2> QED BY <2>1
<1>3. DOMAIN f \ T = DOMAIN g \ T /\ \A x \in DOMAIN f \ T : f[x] = g[x]
    BY <1>1, <1>2
<1> QED BY <1>3 DEF Without

\* Tables that agree but for some rows have the same others.
LEMMA WithoutSame ==
    ASSUME NEW f, NEW g, NEW S, Without(f, S) = Without(g, S)
    PROVE  /\ DOMAIN f \ S = DOMAIN g \ S
           /\ \A x \in DOMAIN f \ S : f[x] = g[x]
<1>1. DOMAIN f \ S = DOMAIN g \ S
    <2>1. DOMAIN Without(f, S) = DOMAIN f \ S /\ DOMAIN Without(g, S) = DOMAIN g \ S
        BY DEF Without
    <2> QED BY <2>1
<1>2. \A x \in DOMAIN f \ S : f[x] = g[x]
    <2> SUFFICES ASSUME NEW x \in DOMAIN f \ S PROVE f[x] = g[x]
        OBVIOUS
    <2>1. Without(f, S)[x] = f[x] /\ Without(g, S)[x] = g[x]
        BY <1>1 DEF Without
    <2> QED BY <2>1
<1> QED BY <1>1, <1>2

\* A rollback that brought back all but some clades brought back all but more.
LEMMA UndoneMore ==
    ASSUME NEW t, NEW k, NEW gone, NEW e, Undone(t, k, gone, e), NEW more, gone \subseteq more
    PROVE  Undone(t, k, more, e)
<1>1. Without(t.clades, more) = Without(k.clades, more)
    BY WithoutMore DEF Undone
<1> QED BY <1>1 DEF Undone

\* Two rollbacks, one after the other.
LEMMA UndoneTwice ==
    ASSUME NEW r, NEW t, NEW k, NEW gone, NEW e, Undone(r, t, gone, e), Undone(t, k, gone, e)
    PROVE  Undone(r, k, gone, e)
BY DEF Undone

\* A row put in for the next epoch goes with the rollback.
LEMMA PutUndone ==
    ASSUME NEW f, NEW e \in Nat, IsTable(f), DOMAIN f \subseteq 0..e, NEW y
    PROVE  UpTo(f, e) = f /\ UpTo(Put(f, e + 1, y), e) = f
<1>1. {d \in DOMAIN f : d <= e} = DOMAIN f
    OBVIOUS
<1>2. UpTo(f, e) = f
    BY <1>1 DEF UpTo, IsTable
<1>3. DOMAIN Put(f, e + 1, y) = DOMAIN f \cup {e + 1}
    BY DEF Put
<1>4. {d \in DOMAIN Put(f, e + 1, y) : d <= e} = DOMAIN f
    BY <1>3
<1>5. \A d \in DOMAIN f : Put(f, e + 1, y)[d] = f[d]
    <2>1. \A d \in DOMAIN f : d # e + 1
        OBVIOUS
    <2> QED BY <2>1 DEF Put
<1>6. UpTo(Put(f, e + 1, y), e) = [d \in DOMAIN f |-> f[d]]
    BY <1>4, <1>5 DEF UpTo
<1> QED BY <1>2, <1>6 DEF IsTable

\* Rolling back what is not later than the world changes nothing.
LEMMA RollbackIdle ==
    ASSUME NEW w, Sound(w), NEW t, NothingLater(t, w.epoch, w.epoch), NEW gone, CladesShow(t.clades, w, gone)
    PROVE  /\ Undone(rollback_after(t, w), t, gone, w.epoch)
           /\ NamesOf(rollback_after(t, w).clades, t.clades)
<1> DEFINE e == w.epoch
           r == rollback_after(t, w)
<1>1. /\ e \in Nat /\ IsTables(t) /\ CladeRows(t.clades, e, e)
      /\ DOMAIN w.clades \subseteq 1..(w.next_clade_id - 1)
    BY DEF Sound, NothingLater
<1>2. /\ r.epochs = UpTo(t.epochs, e) /\ r.muller = UpTo(t.muller, e)
      /\ r.events = Until(t.events, e) /\ r.stories = Until(t.stories, e)
      /\ r.frames = {f \in t.frames : f <= e}
      /\ r.organisms = OrganismsBefore(t.organisms, e)
    BY <1>1, RollbackFields
<1>3. /\ DOMAIN r.clades = DOMAIN t.clades /\ AreRows(r.clades)
      /\ \A c \in DOMAIN r.clades : IsRolled(r.clades[c], t.clades[c], w, c)
    BY <1>1, RolledClades
<1> HIDE DEF r
<1>4. r.epochs = t.epochs /\ r.muller = t.muller
    <2>1. IsTable(t.epochs) /\ IsTable(t.muller) /\ DOMAIN t.epochs \subseteq 0..e /\ DOMAIN t.muller \subseteq 0..e
        BY DEF NothingLater
    <2> HIDE DEF e
    <2> QED BY <1>1, <1>2, <2>1, PutUndone
<1>5. r.events = t.events /\ r.stories = t.stories
    <2>1. (\A x \in t.events : x.epoch <= e) /\ (\A x \in t.stories : x.epoch <= e)
        BY <1>1 DEF NothingLater
    <2> QED BY <1>2, <2>1 DEF Until
<1>6. r.frames = t.frames
    <2>1. t.frames \subseteq 0..e
        BY DEF NothingLater
    <2> HIDE DEF e
    <2> QED BY <1>1, <1>2, <2>1
<1>7. r.organisms = t.organisms
    <2>1. IsTable(t.organisms) /\ \A i \in DOMAIN t.organisms :
             t.organisms[i].born \in 0..e /\ t.organisms[i].died \in {NULL} \cup 0..e
        BY DEF NothingLater, OrganismRows
    <2> HIDE DEF e
    <2>2. {j \in DOMAIN t.organisms : t.organisms[j].born <= e} = DOMAIN t.organisms
        BY <1>1, <2>1
    <2>3. \A i \in DOMAIN t.organisms : Revived(t.organisms[i], e) = t.organisms[i]
        BY <1>1, <2>1 DEF Revived
    <2>4. OrganismsBefore(t.organisms, e) = [i \in DOMAIN t.organisms |-> t.organisms[i]]
        BY <2>2, <2>3 DEF OrganismsBefore
    <2> QED BY <1>2, <2>1, <2>4 DEF IsTable
<1>8. ASSUME NEW c \in DOMAIN t.clades
      PROVE  /\ SameName(r.clades[c], t.clades[c])
             /\ c \notin gone => r.clades[c] = t.clades[c]
    <2>1. PICK row : row = r.clades[c]
        OBVIOUS
    <2>2. PICK was : was = t.clades[c]
        OBVIOUS
    <2>3. /\ IsCladeRow(was) /\ was.named \in {NULL} \cup 0..e /\ was.extinct \in {NULL} \cup 0..e
        BY <1>1, <2>2 DEF CladeRows, AreRows
    <2>4. IsCladeRow(row) /\ IsRolled(row, was, w, c)
        BY <1>3, <2>1, <2>2 DEF AreRows
    <2>5. SameName(row, was) /\ row.extinct = was.extinct
        <3>1. ~(was.named # NULL /\ was.named > e) /\ ~(was.extinct # NULL /\ was.extinct > e)
            BY <1>1, <2>3
        <3> QED BY <2>4, <3>1 DEF IsRolled
    <2>6. ASSUME c \notin gone PROVE row.living = was.living /\ row.peak = was.peak
        <3>1. CASE c \in DOMAIN w.clades
            <4>1. c \in (1..(w.next_clade_id - 1)) \ gone
                BY <1>1, <2>6, <3>1
            <4>2. was.living = w.clades[c].living /\ was.peak = w.clades[c].peak
                BY <2>2, <3>1, <4>1 DEF CladesShow
            <4> QED BY <2>4, <3>1, <4>2 DEF IsRolled
        <3>2. CASE c \notin DOMAIN w.clades
            BY <2>4, <3>2 DEF IsRolled
        <3> QED BY <3>1, <3>2
    <2>7. ASSUME c \notin gone PROVE row = was
        <3>1. SameClade(row, was)
            BY <2>4 DEF IsRolled
        <3> QED BY <2>3, <2>4, <2>5, <2>6, <2>7, <3>1, SameRow DEF SameClade, SameName
    <2> QED BY <2>1, <2>2, <2>5, <2>7
<1>9. Without(r.clades, gone) = Without(t.clades, gone)
    BY <1>3, <1>8 DEF Without
<1>10. NamesOf(r.clades, t.clades)
    BY <1>3, <1>8 DEF NamesOf
<1>11. Undone(r, t, gone, e)
    BY <1>4, <1>5, <1>6, <1>7, <1>9 DEF Undone
<1> QED BY <1>10, <1>11 DEF r

-----------------------------------------------------------------------------
(* The tables after an epoch. *)

\* Tables that show their world, but for the clades of lost epochs.
Good(t, w, gone) ==
    /\ Sound(w)
    /\ NothingLater(t, w.epoch, w.epoch)
    /\ OrganismsShow(t, w)
    /\ CladesShow(t.clades, w, gone) /\ InRange(t.clades, w, gone)
    /\ NamesInOrder(t.clades) /\ NamesTheLarge(t.clades, gone)
    /\ FramesOf(t, w.epoch)

\* The rows of clades show the world of an epoch after it.
LEMMA CladesShown ==
    ASSUME NEW w, NEW t, NEW gone, Good(t, w, gone), NEW v, NEW report, Follows(w, v, report)
    PROVE  LET rows == RowsAfter(t, v, report)
           IN CladesShow(rows, v, gone) /\ InRange(rows, v, gone) /\ NamesTheLarge(rows, gone)
<1> DEFINE n == w.next_clade_id
           m == v.next_clade_id
           clades == All(v, report)
           rows == RowsAfter(t, v, report)
<1>1. /\ n \in Nat \ {0} /\ m \in Nat \ {0} /\ n <= m
      /\ report.founded = n..(m - 1)
      /\ DOMAIN clades = DOMAIN w.clades \cup report.founded
      /\ DOMAIN clades = DOMAIN v.clades \cup DOMAIN report.extinct
      /\ DOMAIN w.clades \subseteq 1..(n - 1)
      /\ \A c \in DOMAIN v.clades : clades[c] = v.clades[c]
      /\ \A c \in DOMAIN w.clades : SameClade(clades[c], w.clades[c]) /\ w.clades[c].peak <= clades[c].peak
      /\ \A c \in DOMAIN clades : clades[c].peak \in Nat
      /\ \A c \in DOMAIN w.clades : w.clades[c].peak \in Nat
    <2>1. /\ n \in Nat \ {0} /\ m \in Nat \ {0} /\ n <= m
          /\ report.founded = n..(m - 1)
          /\ DOMAIN clades = DOMAIN w.clades \cup report.founded
          /\ DOMAIN w.clades \subseteq 1..(n - 1)
        BY DEF Good, Sound, Follows, Genealogy
    <2>2. /\ DOMAIN clades = DOMAIN v.clades \cup DOMAIN report.extinct
          /\ \A c \in DOMAIN v.clades : clades[c] = v.clades[c]
        BY DEF All
    <2>3. \A c \in DOMAIN w.clades : SameClade(clades[c], w.clades[c]) /\ w.clades[c].peak <= clades[c].peak
        BY DEF Follows, Genealogy, SameClade
    <2>4. \A c \in DOMAIN clades : clades[c].peak \in Nat
        BY DEF Follows, CladeRecord
    <2>5. \A c \in DOMAIN w.clades : w.clades[c].peak \in Nat
        BY DEF Good, Sound
    <2> QED BY <2>1, <2>2, <2>3, <2>4, <2>5
<1>2. /\ Sound(w) /\ CladeRows(t.clades, w.epoch, w.epoch) /\ NamesInOrder(t.clades)
      /\ CladesShow(t.clades, w, gone) /\ InRange(t.clades, w, gone) /\ NamesTheLarge(t.clades, gone)
    BY DEF Good, NothingLater
<1>3. /\ DOMAIN rows = DOMAIN t.clades \cup report.founded
      /\ \A c \in DOMAIN rows :
            /\ c \in DOMAIN t.clades => Later(rows[c], t.clades[c], v.epoch)
            /\ c \notin DOMAIN t.clades => SameClade(rows[c], clades[c])
            /\ c \in DOMAIN clades =>
                  /\ rows[c].peak = clades[c].peak
                  /\ IsNamed(rows[c].peak) => rows[c].name # NULL
            /\ c \in DOMAIN v.clades =>
                  /\ rows[c].living = v.clades[c].living
                  /\ c \in DOMAIN t.clades => rows[c].extinct = t.clades[c].extinct
                  /\ c \notin DOMAIN t.clades => rows[c].extinct = NULL
            /\ c \in DOMAIN report.extinct => rows[c].living = 0 /\ rows[c].extinct = v.epoch
            /\ c \notin DOMAIN clades => rows[c] = t.clades[c]
            /\ rows[c].name # NULL =>
                  (c \in DOMAIN t.clades /\ t.clades[c].name # NULL) \/ IsNamed(rows[c].peak)
    <2>1. /\ DOMAIN rows = DOMAIN t.clades \cup report.founded
          /\ \A c \in DOMAIN rows : IsLaterRow(rows[c], t, v, report, c)
        BY <1>2, EpochClades
    <2> HIDE DEF rows
    <2> QED BY <2>1 DEF IsLaterRow
<1> HIDE DEF rows, clades
<1>4. v.epoch # NULL
    BY HistoryAssumption DEF Follows, Sound
<1>5. \A c : c \in (1..(m - 1)) \ gone =>
              \/ c \in 1..(n - 1) /\ c \notin report.founded
              \/ c \in report.founded /\ c \notin DOMAIN t.clades
    <2>1. \A c : c \in DOMAIN t.clades => c \in 1..(n - 1) \/ c \in gone
        BY <1>2 DEF InRange
    <2> HIDE DEF n, m
    <2>2. \A c \in 1..(m - 1) : c \in 1..(n - 1) \/ c \in n..(m - 1)
        BY <1>1
    <2>3. \A c \in n..(m - 1) : c \notin 1..(n - 1)
        BY <1>1
    <2> QED BY <1>1, <2>1, <2>2, <2>3
<1>6. ASSUME NEW c \in (1..(m - 1)) \ gone
      PROVE  /\ c \in DOMAIN rows
             /\ c \in DOMAIN v.clades =>
                   /\ rows[c].extinct = NULL /\ SameClade(rows[c], v.clades[c])
                   /\ rows[c].living = v.clades[c].living /\ rows[c].peak = v.clades[c].peak
             /\ c \notin DOMAIN v.clades => rows[c].extinct # NULL /\ rows[c].living = 0
    <2>1. CASE c \in 1..(n - 1) /\ c \notin report.founded
        <3>1. /\ c \in DOMAIN t.clades
              /\ c \in DOMAIN w.clades =>
                    t.clades[c].extinct = NULL /\ SameClade(t.clades[c], w.clades[c])
              /\ c \notin DOMAIN w.clades => t.clades[c].extinct # NULL /\ t.clades[c].living = 0
            BY <1>2, <2>1 DEF CladesShow
        <3>2. CASE c \in DOMAIN v.clades
            <4>1. c \in DOMAIN w.clades
                BY <1>1, <2>1, <3>2
            <4> QED BY <1>1, <1>3, <3>1, <3>2, <4>1 DEF SameClade, Later
        <3>3. CASE c \notin DOMAIN v.clades
            BY <1>1, <1>3, <1>4, <2>1, <3>1, <3>3
        <3> QED BY <3>2, <3>3
    <2>2. CASE c \in report.founded /\ c \notin DOMAIN t.clades
        BY <1>1, <1>3, <1>4, <2>2
    <2> QED BY <1>5, <2>1, <2>2
<1>7. CladesShow(rows, v, gone)
    BY <1>6 DEF CladesShow
<1>8. InRange(rows, v, gone)
    <2>1. 1..(n - 1) \subseteq 1..(m - 1) /\ n..(m - 1) \subseteq 1..(m - 1)
        BY <1>1
    <2>2. DOMAIN t.clades \subseteq 1..(n - 1) \cup gone
        BY <1>2 DEF InRange
    <2>3. DOMAIN rows \subseteq 1..(m - 1) \cup gone
        <3> HIDE DEF n, m
        <3> QED BY <1>1, <1>3, <2>1, <2>2
    <2> QED BY <2>3 DEF InRange
<1>9. NamesTheLarge(rows, gone)
    <2>1. ASSUME NEW c \in DOMAIN rows, IsNamed(rows[c].peak) PROVE rows[c].name # NULL
        <3>1. CASE c \in DOMAIN clades
            BY <1>3, <2>1, <3>1
        <3>2. CASE c \notin DOMAIN clades
            <4>1. c \in DOMAIN t.clades /\ rows[c] = t.clades[c]
                BY <1>1, <1>3, <3>2
            <4> QED BY <1>2, <2>1, <4>1 DEF NamesTheLarge, Named
        <3> QED BY <3>1, <3>2
    <2>2. ASSUME NEW c \in DOMAIN rows, rows[c].name # NULL, c \notin gone
          PROVE  IsNamed(rows[c].peak)
        <3>1. CASE c \in DOMAIN t.clades /\ t.clades[c].name # NULL
            <4>1. IsNamed(t.clades[c].peak)
                BY <1>2, <2>2, <3>1 DEF NamesTheLarge, Named
            <4>2. CASE c \in DOMAIN clades
                <5>1. c \in (1..(n - 1)) \ gone
                    BY <1>2, <2>2, <3>1 DEF InRange
                <5>2. c \in DOMAIN w.clades
                    <6>1. c \notin n..(m - 1)
                        BY <1>1, <5>1
                    <6> QED BY <1>1, <4>2, <6>1
                <5>3. t.clades[c].peak = w.clades[c].peak
                    BY <1>2, <5>1, <5>2 DEF CladesShow
                <5>4. t.clades[c].peak <= rows[c].peak /\ t.clades[c].peak \in Nat /\ rows[c].peak \in Nat
                    BY <1>1, <1>3, <4>2, <5>2, <5>3
                <5> QED BY <4>1, <5>4, HistoryAssumption DEF IsNamed
            <4>3. CASE c \notin DOMAIN clades
                BY <1>3, <4>1, <4>3
            <4> QED BY <4>2, <4>3
        <3> QED BY <1>3, <2>2, <3>1
    <2> QED BY <2>1, <2>2 DEF NamesTheLarge, Named
<1> QED BY <1>7, <1>8, <1>9 DEF rows

\* A rollback gives the clades back the ends and the names they had.
LEMMA CladesUndone ==
    ASSUME NEW w, NEW t, NEW gone, Good(t, w, gone), NEW v, NEW report, Follows(w, v, report),
           NEW r, IsTables(r), r.clades = RowsAfter(t, v, report)
    PROVE  LET more == gone \cup {c \in DOMAIN r.clades : c >= w.next_clade_id}
               rows == rollback_after(r, w).clades
           IN Without(rows, more) = Without(t.clades, more) /\ NamesOf(rows, t.clades)
<1> DEFINE n == w.next_clade_id
           e == w.epoch
           clades == All(v, report)
           more == gone \cup {c \in DOMAIN r.clades : c >= n}
           rows == rollback_after(r, w).clades
<1>1. /\ e \in Nat /\ v.epoch = e + 1 /\ n \in Nat \ {0}
      /\ report.founded = n..(v.next_clade_id - 1)
      /\ DOMAIN clades = DOMAIN w.clades \cup report.founded
      /\ DOMAIN clades = DOMAIN v.clades \cup DOMAIN report.extinct
      /\ DOMAIN w.clades \subseteq 1..(n - 1)
    <2>1. /\ e \in Nat /\ v.epoch = e + 1 /\ n \in Nat \ {0}
          /\ report.founded = n..(v.next_clade_id - 1)
          /\ DOMAIN clades = DOMAIN w.clades \cup report.founded
          /\ DOMAIN w.clades \subseteq 1..(n - 1)
        BY DEF Good, Sound, Follows, Genealogy
    <2>2. DOMAIN clades = DOMAIN v.clades \cup DOMAIN report.extinct
        BY DEF All
    <2> QED BY <2>1, <2>2
<1>2. /\ Sound(w) /\ CladeRows(t.clades, e, e) /\ NamesInOrder(t.clades)
      /\ CladesShow(t.clades, w, gone) /\ InRange(t.clades, w, gone)
    BY DEF Good, NothingLater
<1>3. /\ DOMAIN r.clades = DOMAIN t.clades \cup report.founded
      /\ CladeRows(r.clades, e, v.epoch)
      /\ \A c \in DOMAIN r.clades :
            /\ c \in DOMAIN t.clades => Later(r.clades[c], t.clades[c], v.epoch)
            /\ c \notin DOMAIN t.clades => r.clades[c].named \in {NULL, v.epoch}
            /\ c \in DOMAIN v.clades /\ c \in DOMAIN t.clades => r.clades[c].extinct = t.clades[c].extinct
            /\ c \notin DOMAIN clades => r.clades[c] = t.clades[c]
    <2> DEFINE after == RowsAfter(t, v, report)
    <2>1. /\ DOMAIN after = DOMAIN t.clades \cup report.founded
          /\ CladeRows(after, w.epoch, v.epoch)
          /\ \A c \in DOMAIN after : IsLaterRow(after[c], t, v, report, c)
        BY <1>2, EpochClades
    <2>2. r.clades = after
        OBVIOUS
    <2> HIDE DEF after
    <2>3. /\ DOMAIN r.clades = DOMAIN t.clades \cup report.founded
          /\ CladeRows(r.clades, e, v.epoch)
          /\ \A c \in DOMAIN r.clades : IsLaterRow(r.clades[c], t, v, report, c)
        BY <2>1, <2>2
    <2> HIDE DEF e
    <2> QED BY <2>3 DEF IsLaterRow
<1>4. /\ DOMAIN rows = DOMAIN r.clades /\ AreRows(rows)
      /\ \A c \in DOMAIN rows : IsRolled(rows[c], r.clades[c], w, c)
    BY <1>1, <1>3, RolledClades
<1> HIDE DEF rows, clades
<1>5. v.epoch # NULL /\ v.epoch > e /\ v.epoch \notin 0..e /\ \A x \in 0..e : ~(x > e)
    BY <1>1, HistoryAssumption
<1>6. ASSUME NEW c \in DOMAIN t.clades
      PROVE  /\ SameName(rows[c], t.clades[c])
             /\ c \notin more => rows[c] = t.clades[c]
    <2>1. PICK row : row = rows[c]
        OBVIOUS
    <2>2. PICK mid : mid = r.clades[c]
        OBVIOUS
    <2>3. PICK was : was = t.clades[c]
        OBVIOUS
    <2>4. /\ IsCladeRow(was) /\ was.named \in {NULL} \cup 0..e /\ was.extinct \in {NULL} \cup 0..e
          /\ was.named = NULL <=> was.name = NULL
        BY <1>2, <2>3 DEF CladeRows, AreRows
    <2>5. Later(mid, was, v.epoch) /\ IsRolled(row, mid, w, c) /\ IsCladeRow(row)
        BY <1>3, <1>4, <2>1, <2>2, <2>3 DEF AreRows
    <2>6. SameName(row, was)
        <3>1. CASE SameName(mid, was)
            BY <1>5, <2>4, <2>5, <3>1 DEF IsRolled, SameName, e
        <3>2. CASE was.name = NULL /\ mid.name # NULL /\ mid.named = v.epoch
            BY <1>5, <2>4, <2>5, <3>2 DEF IsRolled, SameName, e
        <3> QED BY <2>5, <3>1, <3>2 DEF Later
    <2>7. ASSUME c \notin more PROVE row = was
        <3>1. c \in (1..(n - 1)) \ gone /\ c \notin report.founded
            <4>1. c \notin gone /\ c \in DOMAIN r.clades /\ ~(c >= n)
                BY <1>3, <2>7
            <4>2. c \in 1..(n - 1)
                BY <1>2, <4>1 DEF InRange
            <4>3. c \notin n..(v.next_clade_id - 1)
                BY <1>1, <4>2
            <4> QED BY <1>1, <4>1, <4>2, <4>3
        <3>2. /\ c \in DOMAIN w.clades =>
                    was.extinct = NULL /\ was.living = w.clades[c].living /\ was.peak = w.clades[c].peak
            BY <1>2, <2>3, <3>1 DEF CladesShow
        <3>3. CASE c \in DOMAIN w.clades
            <4>1. row.living = was.living /\ row.peak = was.peak
                BY <2>5, <3>2, <3>3 DEF IsRolled
            <4>2. row.extinct = was.extinct
                BY <1>5, <2>5, <3>2, <3>3 DEF IsRolled, Later, e
            <4>3. SameClade(row, was)
                BY <2>5 DEF IsRolled, Later, SameClade
            <4> QED BY <2>4, <2>5, <2>6, <4>1, <4>2, <4>3, SameRow DEF SameClade, SameName
        <3>4. CASE c \notin DOMAIN w.clades
            <4>1. mid = was
                BY <1>1, <1>3, <2>2, <2>3, <3>1, <3>4
            <4>2. row.living = was.living /\ row.peak = was.peak
                BY <2>5, <3>4, <4>1 DEF IsRolled
            <4>3. row.extinct = was.extinct
                BY <1>5, <2>4, <2>5, <4>1 DEF IsRolled, e
            <4>4. SameClade(row, was)
                BY <2>5, <4>1 DEF IsRolled
            <4> QED BY <2>4, <2>5, <2>6, <4>2, <4>3, <4>4, SameRow DEF SameClade, SameName
        <3> QED BY <3>3, <3>4
    <2> QED BY <2>1, <2>3, <2>6, <2>7
<1>7. ASSUME NEW c \in DOMAIN rows, c \notin DOMAIN t.clades
      PROVE  rows[c].name = NULL /\ c \in more
    <2>1. /\ r.clades[c].named \in {NULL, v.epoch}
          /\ r.clades[c].named = NULL <=> r.clades[c].name = NULL
          /\ IsRolled(rows[c], r.clades[c], w, c)
        BY <1>3, <1>4, <1>7 DEF CladeRows
    <2>2. rows[c].name = NULL
        BY <1>5, <2>1 DEF IsRolled, SameName, e
    <2>3. c \in n..(v.next_clade_id - 1) /\ c \in DOMAIN r.clades
        BY <1>1, <1>3, <1>4, <1>7
    <2>4. c >= n
        BY <1>1, <2>3
    <2> QED BY <2>2, <2>3, <2>4
<1>8. DOMAIN t.clades \subseteq DOMAIN rows
    BY <1>3, <1>4
<1> HIDE DEF more
<1>9. Without(rows, more) = Without(t.clades, more)
    <2>1. DOMAIN rows \ more = DOMAIN t.clades \ more
        BY <1>7, <1>8
    <2>2. \A c \in DOMAIN rows \ more : rows[c] = t.clades[c]
        BY <1>6, <2>1
    <2> QED BY <2>1, <2>2 DEF Without
<1>10. NamesOf(rows, t.clades)
    BY <1>6, <1>7, <1>8 DEF NamesOf
<1> QED BY <1>9, <1>10 DEF rows, more, n

\* The events of an epoch are of that epoch.
LEMMA EventsAdded ==
    ASSUME NEW t, IsTables(t), NEW e, NEW events
    PROVE  \E new : /\ WithEvents(t, e, events).events = t.events \cup new
                    /\ \A x \in new : x.epoch = e
<1> DEFINE new == {[id |-> LastEventId(t) + i, epoch |-> e, kind |-> events[i].kind,
                    clade |-> events[i].clade, from |-> events[i].from] : i \in DOMAIN events}
<1>1. \A x \in new : x.epoch = e
    OBVIOUS
<1>2. PICK q : q = WithEvents(t, e, events)
    OBVIOUS
<1>3. q = [t EXCEPT !.events = @ \cup new, !.last_event = LastEventId(t) + Len(events)]
    BY <1>2 DEF WithEvents
<1> HIDE DEF new
<1>4. q.events = t.events \cup new
    BY <1>3 DEF IsTables
<1> QED BY <1>1, <1>2, <1>4

\* The tables after an epoch show its world, and rolled back they are what they
\* were.
LEMMA EpochGood ==
    ASSUME NEW w, NEW t, NEW gone, Good(t, w, gone), NEW v, NEW report, Follows(w, v, report),
           NEW events, NEW stories, \A s \in stories : s.epoch = v.epoch,
           NEW r, r = record_epoch(t, w, v, report, events, stories)
    PROVE  /\ Good(r, v, gone)
           /\ NothingLater(r, w.epoch, v.epoch)
           /\ Undone(rollback_after(r, w), t,
                     gone \cup {c \in DOMAIN r.clades : c >= w.next_clade_id}, w.epoch)
           /\ NamesOf(rollback_after(r, w).clades, t.clades)
           /\ \A c \in Named(t.clades) : c \in DOMAIN r.clades /\ SameName(r.clades[c], t.clades[c])
<1> DEFINE e == w.epoch
           b == rollback_after(r, w)
<1>1. /\ Sound(w) /\ e \in Nat /\ v.epoch = e + 1 /\ Sound(v)
      /\ NothingLater(t, e, e) /\ IsTables(t) /\ NamesInOrder(t.clades)
      /\ CladeRows(t.clades, e, e) /\ OrganismRows(t, e) /\ OrganismsShow(t, w)
    BY DEF Good, Follows, Sound, NothingLater
<1>2. /\ IsTables(r)
      /\ r.epochs = Put(t.epochs, v.epoch, Header(v))
      /\ \/ r.muller = t.muller
         \/ r.muller = Put(t.muller, v.epoch, [c \in DOMAIN v.clades |-> v.clades[c].living])
      /\ r.events = WithEvents(t, v.epoch, events).events
      /\ r.stories = t.stories \cup stories
      /\ r.frames = Frames(t.frames, v.epoch)
      /\ r.organisms = OrganismsOf(t, w, v, report)
      /\ r.clades = RowsAfter(t, v, report)
    BY <1>1, RecordFields DEF RowsAfter
<1>3. PICK new : r.events = t.events \cup new /\ \A x \in new : x.epoch = v.epoch
    <2>1. \E new : /\ WithEvents(t, v.epoch, events).events = t.events \cup new
                   /\ \A x \in new : x.epoch = v.epoch
        <3>1. IsTables(t)
            BY <1>1
        <3>2. PICK m : m = v.epoch
            OBVIOUS
        <3>3. \E new : WithEvents(t, m, events).events = t.events \cup new /\ \A x \in new : x.epoch = m
            BY <3>1, EventsAdded
        <3> QED BY <3>2, <3>3
    <2> QED BY <1>2, <2>1
<1>4. /\ IsTable(t.epochs) /\ IsTable(t.muller)
      /\ DOMAIN t.epochs \subseteq 0..e /\ DOMAIN t.muller \subseteq 0..e /\ t.frames \subseteq 0..e
      /\ \A x \in t.events : x.epoch \in 0..e
      /\ \A x \in t.stories : x.epoch \in 0..e
    BY <1>1 DEF NothingLater
<1>5. 0..e \subseteq 0..v.epoch /\ v.epoch \in 0..v.epoch /\ v.epoch \notin 0..e
    BY <1>1
<1>6. OrganismRows(r, v.epoch) /\ OrganismsShow(r, v)
    BY <1>1, <1>2, OrganismsShown
<1>7. /\ CladeRows(r.clades, e, v.epoch) /\ NamesInOrder(r.clades)
      /\ \A c \in DOMAIN t.clades : c \in DOMAIN r.clades /\ Later(r.clades[c], t.clades[c], v.epoch)
    <2> DEFINE after == RowsAfter(t, v, report)
    <2>1. /\ CladeRows(after, w.epoch, v.epoch) /\ NamesInOrder(after)
          /\ DOMAIN after = DOMAIN t.clades \cup report.founded
          /\ \A c \in DOMAIN after : IsLaterRow(after[c], t, v, report, c)
        BY <1>1, EpochClades
    <2>2. r.clades = after
        BY <1>2
    <2> HIDE DEF after
    <2> QED BY <2>1, <2>2 DEF IsLaterRow
<1>8. CladesShow(r.clades, v, gone) /\ InRange(r.clades, v, gone) /\ NamesTheLarge(r.clades, gone)
    BY <1>2, CladesShown
<1>9. NothingLater(r, e, v.epoch)
    <2>1. /\ IsTable(r.epochs) /\ DOMAIN r.epochs = DOMAIN t.epochs \cup {v.epoch}
        BY <1>2 DEF Put, IsTable
    <2>2. /\ IsTable(r.muller) /\ DOMAIN r.muller \subseteq DOMAIN t.muller \cup {v.epoch}
        <3>1. CASE r.muller = t.muller
            BY <1>4, <3>1
        <3>2. CASE r.muller = Put(t.muller, v.epoch, [c \in DOMAIN v.clades |-> v.clades[c].living])
            BY <3>2 DEF Put, IsTable
        <3> QED BY <1>2, <3>1, <3>2
    <2>3. r.frames \subseteq t.frames \cup {v.epoch}
        BY <1>2 DEF Frames
    <2>4. \A x \in r.events : x.epoch \in 0..v.epoch
        BY <1>3, <1>4, <1>5
    <2>5. \A x \in r.stories : x.epoch \in 0..v.epoch
        BY <1>2, <1>4, <1>5
    <2> HIDE DEF e
    <2>6. DOMAIN r.epochs \cup DOMAIN r.muller \cup r.frames \subseteq 0..v.epoch
        BY <1>4, <1>5, <2>1, <2>2, <2>3
    <2> QED BY <1>2, <1>6, <1>7, <2>1, <2>2, <2>4, <2>5, <2>6 DEF NothingLater
<1>10. NothingLater(r, v.epoch, v.epoch)
    <2>1. CladeRows(r.clades, v.epoch, v.epoch)
        <3> HIDE DEF e
        <3> QED BY <1>5, <1>7 DEF CladeRows
    <2> QED BY <1>9, <2>1 DEF NothingLater
<1>11. FramesOf(r, v.epoch)
    <2>1. /\ {f \in 1..e : f > e - FRAMES_KEPT} \subseteq t.frames
          /\ FRAMES_KEPT \in Nat \ {0}
        BY HistoryAssumption DEF Good, FramesOf
    <2>2. \A f : f \in r.frames <=> (f \in t.frames \cup {v.epoch} /\ f >= v.epoch - FRAMES_KEPT)
        BY <1>2 DEF Frames
    <2> HIDE DEF e
    <2>3. ASSUME NEW f \in 1..v.epoch, f > v.epoch - FRAMES_KEPT PROVE f \in r.frames
        <3>1. f \in t.frames \cup {v.epoch}
            BY <1>1, <2>1, <2>3
        <3> QED BY <1>1, <2>1, <2>2, <2>3, <3>1
    <2> QED BY <2>2, <2>3 DEF FramesOf
<1>12. Good(r, v, gone)
    BY <1>1, <1>6, <1>7, <1>8, <1>10, <1>11 DEF Good
<1>13. /\ b.epochs = UpTo(r.epochs, e) /\ b.muller = UpTo(r.muller, e)
       /\ b.events = Until(r.events, e) /\ b.stories = Until(r.stories, e)
       /\ b.frames = {f \in r.frames : f <= e}
       /\ b.organisms = OrganismsBefore(r.organisms, e)
    <2>1. IsTables(r)
        BY <1>2
    <2> QED BY <2>1, RollbackFields
<1> DEFINE more == gone \cup {c \in DOMAIN r.clades : c >= w.next_clade_id}
<1>14. Without(b.clades, more) = Without(t.clades, more) /\ NamesOf(b.clades, t.clades)
    BY <1>2, CladesUndone
<1> HIDE DEF b, more
<1>15. b.epochs = t.epochs /\ b.muller = t.muller
    <2> HIDE DEF e
    <2>1. UpTo(t.muller, e) = t.muller /\ \A y : UpTo(Put(t.epochs, e + 1, y), e) = t.epochs
        BY <1>1, <1>4, PutUndone
    <2>2. \A y : UpTo(Put(t.muller, e + 1, y), e) = t.muller
        BY <1>1, <1>4, PutUndone
    <2>3. r.epochs = Put(t.epochs, e + 1, Header(v))
        BY <1>1, <1>2
    <2>4. r.muller = t.muller \/ \E y : r.muller = Put(t.muller, e + 1, y)
        BY <1>1, <1>2
    <2> QED BY <1>13, <2>1, <2>2, <2>3, <2>4
<1>16. b.events = t.events /\ b.stories = t.stories
    <2>1. \A x : x.epoch = v.epoch => ~(x.epoch <= e)
        BY <1>1
    <2>2. \A x : x.epoch \in 0..e => x.epoch <= e
        BY <1>1
    <2> HIDE DEF e
    <2> QED BY <1>2, <1>3, <1>4, <1>13, <2>1, <2>2 DEF Until
<1>17. /\ b.frames \subseteq t.frames
       /\ \A f \in t.frames \ b.frames : f <= e - FRAMES_KEPT
    <2>1. \A f : f \in b.frames <=>
                   (f \in t.frames \cup {v.epoch} /\ f >= v.epoch - FRAMES_KEPT /\ f <= e)
        BY <1>2, <1>13 DEF Frames
    <2>2. FRAMES_KEPT \in Nat
        BY HistoryAssumption
    <2> HIDE DEF e
    <2>3. ~(v.epoch <= e) /\ \A f \in 0..e : f <= e /\ (~(f >= v.epoch - FRAMES_KEPT) => f <= e - FRAMES_KEPT)
        BY <1>1, <2>2
    <2> QED BY <1>4, <2>1, <2>3
<1>18. b.organisms = t.organisms
    BY <1>1, <1>2, <1>13, OrganismsUndone
<1>19. Undone(b, t, more, e)
    BY <1>14, <1>15, <1>16, <1>17, <1>18 DEF Undone
<1>20. \A c \in Named(t.clades) : c \in DOMAIN r.clades /\ SameName(r.clades[c], t.clades[c])
    BY <1>7 DEF Named, Later
<1> QED BY <1>9, <1>12, <1>14, <1>19, <1>20 DEF b, more

\* The tracks of clades as observe goes through them.
Seen(mem, w) ==
    [c \in DOMAIN mem.clades \cup DOMAIN w.clades |->
        IF c \in DOMAIN w.clades THEN Followed(Track(mem, c), w, c) ELSE mem.clades[c]]
Still(mem, w, report) == [c \in DOMAIN Seen(mem, w) \ DOMAIN report.extinct |-> Seen(mem, w)[c]]
Split(mem, w, report) == SplitNow(Still(mem, w, report), w, report)
TracksAfter(mem, w, report) ==
    [c \in DOMAIN Still(mem, w, report) |->
        IF c \in Split(mem, w, report) THEN [Still(mem, w, report)[c] EXCEPT !.split_told = TRUE]
        ELSE Still(mem, w, report)[c]]

\* The stories of an epoch, and what is remembered of it.
LEMMA Observed ==
    ASSUME NEW mem, NEW w, NEW report
    PROVE  LET seen == observe(mem, w, report)
               hour == w.epoch % HOUR = 0
           IN /\ seen.detectors.clades = TracksAfter(mem, w, report)
              /\ seen.detectors.world_leader = IF hour /\ LeaderOf(w) # NULL THEN LeaderOf(w)
                                               ELSE mem.world_leader
              /\ hour => GuardChanges(mem, w) \subseteq seen.stories
              /\ \A s \in seen.stories :
                    \/ \E c \in DOMAIN w.clades : s \in CladeStories(Track(mem, c), w, c)
                    \/ s \in Falls(Seen(mem, w), w, report)
                    \/ \E c \in Split(mem, w, report) : s = Story("split_by_sea", w, c, NULL, NULL)
                    \/ hour /\ s \in GuardChanges(mem, w)
                    \/ hour /\ s \in Invasions(mem, TracksAfter(mem, w, report), w)
                    \/ s = Story("arms_race", w, NULL, NULL, NULL)
<1> DEFINE followed == Seen(mem, w)
           still == Still(mem, w, report)
           split == Split(mem, w, report)
           tracks == TracksAfter(mem, w, report)
           day == w.epoch % DAY = 0 /\ w.epoch > 0
           days == IF day THEN Days(mem, w) ELSE mem.arms_days
           race == day /\ IsArmsRace(days)
           leader == IF w.epoch % HOUR = 0 /\ LeaderOf(w) # NULL THEN LeaderOf(w) ELSE mem.world_leader
           remembered ==
             [clades |-> tracks,
              world_leader |-> leader,
              plate_leaders |-> [p \in Plates |->
                                   IF w.epoch % HOUR = 0 /\ w.epoch >= APART /\ PlateLeader(w, p) # NULL
                                   THEN PlateLeader(w, p) ELSE mem.plate_leaders[p]],
              arms_days |-> IF race THEN <<>> ELSE days]
           A == UNION {CladeStories(Track(mem, c), w, c) : c \in DOMAIN w.clades}
           B == Falls(followed, w, report)
           C == {Story("split_by_sea", w, c, NULL, NULL) : c \in split}
           D == IF w.epoch % HOUR = 0 THEN GuardChanges(mem, w) \cup Invasions(mem, tracks, w) ELSE {}
           E == IF race THEN {Story("arms_race", w, NULL, NULL, NULL)} ELSE {}
<1>1. observe(mem, w, report) = [stories |-> A \cup B \cup C \cup D \cup E, detectors |-> remembered]
    BY DEF observe, Seen, Still, Split, TracksAfter
<1>2. PICK seen : seen = observe(mem, w, report)
    OBVIOUS
<1> HIDE DEF A, B, C, D, E, remembered
<1>3. seen.stories = A \cup B \cup C \cup D \cup E /\ seen.detectors = remembered
    BY <1>1, <1>2
<1>4. seen.detectors.clades = tracks /\ seen.detectors.world_leader = leader
    <2> HIDE DEF tracks, leader, race
    <2> QED BY <1>3 DEF remembered
<1>5. w.epoch % HOUR = 0 => GuardChanges(mem, w) \subseteq seen.stories
    BY <1>3 DEF D
<1> HIDE DEF followed, still, split, tracks, race
<1>6. \A s \in A : \E c \in DOMAIN w.clades : s \in CladeStories(Track(mem, c), w, c)
    BY DEF A
<1>7. \A s \in C : \E c \in split : s = Story("split_by_sea", w, c, NULL, NULL)
    BY DEF C
<1>8. \A s \in D : w.epoch % HOUR = 0 /\ (s \in GuardChanges(mem, w) \/ s \in Invasions(mem, tracks, w))
    BY DEF D
<1>9. \A s \in E : s = Story("arms_race", w, NULL, NULL, NULL)
    BY DEF E
<1>10. ASSUME NEW s \in seen.stories
       PROVE  \/ \E c \in DOMAIN w.clades : s \in CladeStories(Track(mem, c), w, c)
              \/ s \in B
              \/ \E c \in split : s = Story("split_by_sea", w, c, NULL, NULL)
              \/ w.epoch % HOUR = 0 /\ s \in GuardChanges(mem, w)
              \/ w.epoch % HOUR = 0 /\ s \in Invasions(mem, tracks, w)
              \/ s = Story("arms_race", w, NULL, NULL, NULL)
    BY <1>3, <1>6, <1>7, <1>8, <1>9
<1> QED BY <1>2, <1>4, <1>5, <1>10 DEF B, followed, split, tracks, leader

\* The stories of an epoch are of that epoch.
LEMMA StoriesAreOfTheEpoch ==
    ASSUME NEW mem, NEW w, NEW report
    PROVE  \A s \in observe(mem, w, report).stories : s.epoch = w.epoch
<1>1. \A kind, clade, other, plate : Story(kind, w, clade, other, plate).epoch = w.epoch
    BY DEF Story
<1>2. \A c : \A s \in CladeStories(Track(mem, c), w, c) : s.epoch = w.epoch
    BY <1>1 DEF CladeStories
<1>3. \A s \in Falls(Seen(mem, w), w, report) : s.epoch = w.epoch
    BY <1>1 DEF Falls
<1>4. \A s \in GuardChanges(mem, w) : s.epoch = w.epoch
    BY <1>1 DEF GuardChanges
<1>5. \A s \in Invasions(mem, TracksAfter(mem, w, report), w) : s.epoch = w.epoch
    BY <1>1 DEF Invasions
<1>6. PICK seen : seen = observe(mem, w, report)
    OBVIOUS
<1>7. \A s \in seen.stories :
         \/ \E c \in DOMAIN w.clades : s \in CladeStories(Track(mem, c), w, c)
         \/ s \in Falls(Seen(mem, w), w, report)
         \/ \E c \in Split(mem, w, report) : s = Story("split_by_sea", w, c, NULL, NULL)
         \/ w.epoch % HOUR = 0 /\ s \in GuardChanges(mem, w)
         \/ w.epoch % HOUR = 0 /\ s \in Invasions(mem, TracksAfter(mem, w, report), w)
         \/ s = Story("arms_race", w, NULL, NULL, NULL)
    BY <1>6, Observed
<1> QED BY <1>1, <1>2, <1>3, <1>4, <1>5, <1>6, <1>7

-----------------------------------------------------------------------------
(* Genesis. *)

\* The empty table.
LEMMA NoTable == IsTable(<<>>) /\ DOMAIN <<>> = {}
<1>1. DOMAIN <<>> = {}
    OBVIOUS
<1>2. <<>> = [x \in {} |-> <<>>[x]]
    OBVIOUS
<1> QED BY <1>1, <1>2 DEF IsTable

\* The organisms of record_genesis.
FirstOrganisms(w) ==
    [i \in {o.id : o \in w.organisms} |-> insert_organism(CHOOSE o \in w.organisms : o.id = i, 0)]

\* What record_genesis writes into each table.
LEMMA GenesisFields ==
    ASSUME NEW w, NEW r, r = record_genesis(Empty, w)
    PROVE  /\ IsTables(r)
           /\ r.epochs = Put(<<>>, 0, Header(w))
           /\ r.muller = <<>> \/ \E y : r.muller = Put(<<>>, w.epoch, y)
           /\ r.events = {} /\ r.stories = {} /\ r.frames = {}
           /\ r.organisms = FirstOrganisms(w)
           /\ r.clades = name_new(insert_clade(<<>>, DOMAIN w.clades, w.clades), w.clades, 0)
<1> DEFINE epochs == Put(<<>>, 0, Header(w))
           clades == name_new(insert_clade(<<>>, DOMAIN w.clades, w.clades), w.clades, 0)
           organisms == FirstOrganisms(w)
           count == [c \in DOMAIN w.clades |-> w.clades[c].living]
           x == [epochs |-> epochs, events |-> {}, last_event |-> 0, clades |-> clades,
                 organisms |-> organisms, frames |-> {}, stories |-> {}, muller |-> <<>>]
<1>1. [Empty EXCEPT !.epochs = Put(@, 0, Header(w)), !.clades = clades, !.organisms = organisms] = x
    <2>1. Empty.epochs = <<>>
        BY DEF Empty
    <2>2. PICK y : y = [Empty EXCEPT !.epochs = Put(@, 0, Header(w)), !.clades = clades,
                                     !.organisms = organisms]
        OBVIOUS
    <2>3. y = [Empty EXCEPT !.epochs = epochs, !.clades = clades, !.organisms = organisms]
        BY <2>1, <2>2
    <2> HIDE DEF epochs, clades, organisms
    <2>4. y = x
        BY <2>3 DEF Empty
    <2> QED BY <2>1, <2>2, <2>4 DEF epochs
<1>2. Empty.clades = <<>>
    BY DEF Empty
<1>3. r = Muller(x, w)
    BY <1>1, <1>2 DEF record_genesis, FirstOrganisms
<1> HIDE DEF epochs, clades, organisms, count
<1>4. x.muller = <<>> /\ IsTables(x)
    BY DEF IsTables
<1>5. r = x \/ r = [x EXCEPT !.muller = Put(@, w.epoch, count)]
    BY <1>3 DEF Muller, count
<1>6. r = x \/ r = [x EXCEPT !.muller = Put(<<>>, w.epoch, count)]
    BY <1>4, <1>5
<1>7. PICK m : m = Put(<<>>, w.epoch, count)
    OBVIOUS
<1>8. r = x \/ r = [x EXCEPT !.muller = m]
    BY <1>6, <1>7
<1>9. /\ IsTables(r) /\ r.epochs = epochs /\ r.events = {} /\ r.stories = {} /\ r.frames = {}
      /\ r.muller = <<>> \/ r.muller = m
      /\ r.organisms = organisms /\ r.clades = clades
    BY <1>8 DEF IsTables
<1> QED BY <1>7, <1>9 DEF epochs, clades, organisms

\* Genesis is recorded as any epoch: its tables show the first world.
LEMMA GenesisGood ==
    ASSUME NEW w \in FirstWorlds, NEW n, NEW t, t = [record_genesis(Empty, w) EXCEPT !.last_event = n]
    PROVE  Good(t, w, {})
<1>1. /\ Sound(w) /\ w.epoch = 0
      /\ Ids(w.organisms) = 1..(w.next_organism_id - 1)
      /\ DOMAIN w.clades = 1..(w.next_clade_id - 1)
      /\ w.next_clade_id \in Nat \ {0}
    BY FirstWorldsAssumption DEF Ids, Sound
<1>2. PICK r : r = record_genesis(Empty, w)
    OBVIOUS
<1> DEFINE before == insert_clade(<<>>, DOMAIN w.clades, w.clades)
           new == {c \in DOMAIN w.clades : IsNamed(w.clades[c].peak) /\ Unnamed(before, c)}
           genome == [c \in new |-> w.clades[c].reference]
           given == [c \in new |-> 0]
<1>3. /\ IsTables(r)
      /\ r.epochs = Put(<<>>, 0, Header(w))
      /\ r.muller = <<>> \/ \E y : r.muller = Put(<<>>, w.epoch, y)
      /\ r.events = {} /\ r.stories = {} /\ r.frames = {}
      /\ r.organisms = FirstOrganisms(w)
      /\ r.clades = name_new(before, w.clades, 0)
    BY <1>2, GenesisFields
<1>4. /\ IsTables(t) /\ t.epochs = r.epochs /\ t.muller = r.muller /\ t.events = r.events
      /\ t.stories = r.stories /\ t.frames = r.frames /\ t.organisms = r.organisms
      /\ t.clades = r.clades
    <2>1. t = [r EXCEPT !.last_event = n]
        BY <1>2
    <2> HIDE DEF before
    <2> QED BY <1>3, <2>1 DEF IsTables
<1>5. t.clades = give_name(before, genome, given)
    BY <1>3, <1>4 DEF name_new
<1>6. DOMAIN before = DOMAIN w.clades /\ IsTable(before)
    BY NoTable DEF insert_clade, IsTable
<1>7. ASSUME NEW c \in DOMAIN w.clades
      PROVE  /\ IsCladeRow(before[c]) /\ SameClade(before[c], w.clades[c])
             /\ before[c].living = w.clades[c].living /\ before[c].peak = w.clades[c].peak
             /\ before[c].extinct = NULL /\ before[c].name = NULL /\ before[c].named = NULL
    <2>1. PICK row : row = before[c]
        OBVIOUS
    <2>2. PICK q : q = w.clades[c]
        OBVIOUS
    <2>3. row = [parent |-> q.parent, founded |-> q.founded, reference |-> q.reference,
                 living |-> q.living, peak |-> q.peak, extinct |-> NULL, name |-> NULL, named |-> NULL]
        BY <2>1, <2>2, NoTable DEF insert_clade
    <2>4. /\ IsCladeRow(row) /\ SameClade(row, q) /\ row.living = q.living /\ row.peak = q.peak
          /\ row.extinct = NULL /\ row.name = NULL /\ row.named = NULL
        BY <2>3 DEF IsCladeRow, SameClade
    <2> HIDE DEF before
    <2> QED BY <2>1, <2>2, <2>4
<1> HIDE DEF before
<1>8. AreRows(before)
    BY <1>6, <1>7 DEF AreRows
<1>9. IsFiniteSet(DOMAIN before) /\ DOMAIN before \subseteq Nat
    <2>1. 1 \in Int /\ w.next_clade_id - 1 \in Int
        BY <1>1
    <2>2. PICK k \in Int : k = w.next_clade_id - 1
        BY <2>1
    <2>3. IsFiniteSet(1..k)
        BY <2>1, FS_Interval
    <2>4. DOMAIN before = 1..k
        BY <1>1, <1>6, <2>2
    <2> QED BY <2>3, <2>4
<1>10. NamesInOrder(before)
    <2>1. Named(before) = {}
        BY <1>6, <1>7 DEF Named
    <2> QED BY <2>1 DEF NamesInOrder, IsInjective
<1>11. \A c \in DOMAIN w.clades : /\ w.clades[c].founded = 0 /\ w.clades[c].reference \in DOMAIN Combo
    BY <1>1 DEF Sound
<1>12. IsGiven(before, genome, given)
    BY <1>6, <1>11 DEF IsGiven, Unnamed
<1>13. NamesInOrder(t.clades) /\ Named(t.clades) = new
    <2>1. DOMAIN given = new /\ Named(before) = {}
        BY <1>6, <1>7 DEF Named
    <2> HIDE DEF genome, given, new
    <2> QED BY <1>5, <1>8, <1>9, <1>10, <1>12, <2>1, GiveNames
<1>14. /\ AreRows(t.clades) /\ DOMAIN t.clades = DOMAIN before
       /\ \A c \in DOMAIN before :
             /\ SameClade(t.clades[c], before[c]) /\ t.clades[c].living = before[c].living
             /\ t.clades[c].peak = before[c].peak /\ t.clades[c].extinct = before[c].extinct
             /\ c \in new => t.clades[c].named = 0
             /\ c \notin new => t.clades[c] = before[c]
    <2>1. DOMAIN given = new /\ \A c \in new : given[c] = 0
        OBVIOUS
    <2> HIDE DEF genome, given, new
    <2> QED BY <1>5, <1>8, <2>1, NamedRows
<1>15. new = {c \in DOMAIN t.clades : IsNamed(t.clades[c].peak)}
    <2>1. \A c \in DOMAIN w.clades : t.clades[c].peak = w.clades[c].peak /\ before[c].name = NULL
        BY <1>6, <1>7, <1>14
    <2> QED BY <1>6, <1>14, <2>1 DEF Unnamed
<1> HIDE DEF new
<1>16. NamesTheLarge(t.clades, {})
    BY <1>13, <1>15 DEF NamesTheLarge
<1>17. ASSUME NEW c \in DOMAIN w.clades
       PROVE  /\ c \in DOMAIN t.clades /\ SameClade(t.clades[c], w.clades[c])
              /\ t.clades[c].extinct = NULL
              /\ t.clades[c].living = w.clades[c].living /\ t.clades[c].peak = w.clades[c].peak
    BY <1>6, <1>7, <1>14 DEF SameClade
<1>18. CladesShow(t.clades, w, {})
    BY <1>1, <1>17 DEF CladesShow
<1>19. InRange(t.clades, w, {})
    BY <1>1, <1>6, <1>14 DEF InRange
<1>20. CladeRows(t.clades, 0, 0)
    <2>1. 0 # NULL
        BY HistoryAssumption
    <2>2. ASSUME NEW c \in DOMAIN t.clades
          PROVE  /\ t.clades[c].founded \in 0..0 /\ t.clades[c].reference \in DOMAIN Combo
                 /\ t.clades[c].extinct \in {NULL} \cup 0..0
                 /\ t.clades[c].named \in {NULL} \cup 0..0
                 /\ t.clades[c].named = NULL <=> t.clades[c].name = NULL
        <3>1. c \in DOMAIN w.clades
            BY <1>6, <1>14
        <3>2. t.clades[c].name # NULL <=> c \in new
            BY <1>13 DEF Named
        <3>3. c \notin new => t.clades[c].named = NULL
            BY <1>7, <1>14, <3>1, <1>6
        <3>4. c \in new => t.clades[c].named = 0
            BY <1>6, <1>14, <3>1
        <3> QED BY <1>11, <1>17, <2>1, <3>1, <3>2, <3>3, <3>4 DEF SameClade
    <2> QED BY <1>9, <1>14, <2>2 DEF CladeRows
<1>21. ASSUME NEW o \in w.organisms
       PROVE  /\ o.id \in DOMAIN t.organisms
              /\ t.organisms[o.id] = [clade |-> o.clade, genome |-> o.genome, born |-> 0, died |-> NULL]
    <2>1. PICK p : p = CHOOSE q \in w.organisms : q.id = o.id
        OBVIOUS
    <2>2. p \in w.organisms /\ p.id = o.id
        BY <2>1
    <2>3. p = o
        BY <1>1, <2>2 DEF Sound
    <2>4. o.id \in DOMAIN t.organisms /\ t.organisms[o.id] = insert_organism(p, 0)
        BY <1>3, <1>4, <2>1 DEF FirstOrganisms
    <2> QED BY <2>3, <2>4 DEF insert_organism
<1>22. DOMAIN t.organisms = Ids(w.organisms) /\ IsTable(t.organisms)
    BY <1>3, <1>4 DEF Ids, IsTable, FirstOrganisms
<1>23. \A i \in DOMAIN t.organisms : \E o \in w.organisms : o.id = i
    BY <1>22 DEF Ids
<1>24. OrganismsShow(t, w) /\ OrganismRows(t, 0)
    <2>1. ASSUME NEW i \in DOMAIN t.organisms
          PROVE  /\ IsOrganismRow(t.organisms[i]) /\ t.organisms[i].born = 0 /\ t.organisms[i].died = NULL
        <3>1. PICK o \in w.organisms : o.id = i
            BY <1>23
        <3>2. PICK row : row = t.organisms[i]
            OBVIOUS
        <3>3. row = [clade |-> o.clade, genome |-> o.genome, born |-> 0, died |-> NULL]
            BY <1>21, <3>1, <3>2
        <3>4. IsOrganismRow(row) /\ row.born = 0 /\ row.died = NULL
            BY <3>3 DEF IsOrganismRow
        <3> QED BY <3>2, <3>4
    <2>2. OrganismRows(t, 0)
        BY <1>22, <2>1 DEF OrganismRows
    <2>3. ASSUME NEW o \in w.organisms PROVE t.organisms[o.id].clade = o.clade
        <3>1. PICK row : row = t.organisms[o.id]
            OBVIOUS
        <3>2. row = [clade |-> o.clade, genome |-> o.genome, born |-> 0, died |-> NULL]
            BY <1>21, <3>1
        <3>3. row.clade = o.clade
            BY <3>2
        <3> QED BY <3>1, <3>3
    <2>4. {i \in DOMAIN t.organisms : t.organisms[i].died = NULL} = DOMAIN t.organisms
        BY <2>1
    <2> QED BY <1>1, <1>22, <2>2, <2>3, <2>4 DEF OrganismsShow
<1>25. NothingLater(t, 0, 0)
    <2>1. IsTable(t.epochs) /\ DOMAIN t.epochs = {0}
        BY <1>3, <1>4, NoTable DEF Put, IsTable
    <2>2. IsTable(t.muller) /\ DOMAIN t.muller \subseteq {0}
        <3>1. CASE t.muller = <<>>
            BY <3>1, NoTable
        <3>2. CASE \E y : t.muller = Put(<<>>, w.epoch, y)
            BY <1>1, <3>2, NoTable DEF Put, IsTable
        <3> QED BY <1>3, <1>4, <3>1, <3>2
    <2> QED BY <1>3, <1>4, <1>20, <1>24, <2>1, <2>2 DEF NothingLater
<1>26. FramesOf(t, 0)
    <2>1. {f \in 1..0 : f > 0 - FRAMES_KEPT} = {}
        OBVIOUS
    <2> QED BY <1>3, <1>4, <2>1 DEF FramesOf
<1> QED BY <1>1, <1>13, <1>16, <1>18, <1>19, <1>24, <1>25, <1>26 DEF Good

-----------------------------------------------------------------------------
(* A restart. *)

\* The names that are given at a restart are of clades of lost epochs, and the
\* tables show the world that goes on.
LEMMA Backfilled ==
    ASSUME NEW w, NEW k, NEW gone, Good(k, w, gone), NEW t, NothingLater(t, w.epoch, w.epoch),
           NamesInOrder(t.clades), Undone(t, k, gone, w.epoch), NEW r, r = backfill_names(t)
    PROVE  /\ Good(r, w, gone)
           /\ Undone(r, k, gone, w.epoch)
           /\ \A c \in Named(t.clades) : c \in DOMAIN r.clades /\ SameName(r.clades[c], t.clades[c])
<1> DEFINE e == w.epoch
           pending == {c \in DOMAIN t.clades : t.clades[c].name = NULL /\ IsNamed(t.clades[c].peak)}
           announced(c) == {x.epoch : x \in {y \in t.events : y.kind = "clade_named" /\ y.clade = c}}
           given == [c \in pending |-> IF announced(c) # {} THEN Min(announced(c)) ELSE t.clades[c].founded]
           genome == [c \in pending |-> t.clades[c].reference]
<1>1. /\ IsTables(t) /\ CladeRows(t.clades, e, e) /\ e \in Nat /\ Sound(w)
      /\ \A x \in t.events : x.epoch \in 0..e
    BY DEF NothingLater, Good, Sound
<1>2. /\ IsTables(r) /\ r.clades = give_name(t.clades, genome, given)
      /\ r.epochs = t.epochs /\ r.muller = t.muller /\ r.events = t.events /\ r.stories = t.stories
      /\ r.frames = t.frames /\ r.organisms = t.organisms
    <2>1. PICK rows : rows = give_name(t.clades, genome, given)
        OBVIOUS
    <2>2. r = [t EXCEPT !.clades = rows]
        BY <2>1 DEF backfill_names
    <2> HIDE DEF genome, given
    <2> QED BY <1>1, <2>1, <2>2 DEF IsTables
<1>3. ASSUME NEW c \in pending PROVE given[c] \in 0..e
    <2>1. CASE announced(c) # {}
        <3>1. announced(c) \subseteq 0..e /\ announced(c) \in SUBSET Nat
            BY <1>1
        <3>2. \E x \in announced(c) : \A y \in announced(c) : x <= y
            <4> HIDE DEF announced
            <4> QED BY <2>1, <3>1, LeastNumber
        <3>3. Min(announced(c)) \in announced(c)
            <4> HIDE DEF announced
            <4> QED BY <3>2 DEF Min
        <3> QED BY <2>1, <3>1, <3>3
    <2>2. CASE announced(c) = {}
        BY <1>1, <2>2 DEF CladeRows
    <2> QED BY <2>1, <2>2
<1>4. DOMAIN given = pending /\ pending \subseteq DOMAIN t.clades
    OBVIOUS
<1>5. IsGiven(t.clades, genome, given)
    <2>1. \A c \in pending : t.clades[c].name = NULL /\ genome[c] \in DOMAIN Combo
        BY <1>1 DEF CladeRows
    <2>2. \A c \in pending : given[c] \in Nat
        <3>1. 0..e \subseteq Nat
            BY <1>1
        <3> HIDE DEF given, pending, e
        <3> QED BY <1>3, <3>1
    <2> HIDE DEF given, pending, genome
    <2> QED BY <1>4, <2>1, <2>2 DEF IsGiven
<1>6. NamesInOrder(r.clades) /\ Named(r.clades) = Named(t.clades) \cup pending
    <2> HIDE DEF given, pending, genome
    <2> QED BY <1>1, <1>2, <1>4, <1>5, GiveNames DEF CladeRows
<1>7. /\ AreRows(r.clades) /\ DOMAIN r.clades = DOMAIN t.clades
      /\ \A c \in DOMAIN t.clades :
            /\ SameClade(r.clades[c], t.clades[c]) /\ r.clades[c].living = t.clades[c].living
            /\ r.clades[c].peak = t.clades[c].peak /\ r.clades[c].extinct = t.clades[c].extinct
            /\ c \in pending => r.clades[c].named = given[c]
            /\ c \notin pending => r.clades[c] = t.clades[c]
    <2> HIDE DEF given, pending, genome
    <2> QED BY <1>1, <1>2, <1>4, NamedRows DEF CladeRows
<1>8. \A c \in DOMAIN t.clades : r.clades[c].name # NULL <=> (t.clades[c].name # NULL \/ c \in pending)
    <2> HIDE DEF pending
    <2> QED BY <1>6, <1>7 DEF Named
<1>9. /\ DOMAIN t.clades \ gone = DOMAIN k.clades \ gone
      /\ \A c \in DOMAIN t.clades \ gone : t.clades[c] = k.clades[c]
    BY WithoutSame DEF Undone
<1>10. pending \subseteq gone
    <2>1. ASSUME NEW c \in pending, c \notin gone PROVE FALSE
        <3>1. c \in DOMAIN k.clades /\ k.clades[c].name = NULL /\ IsNamed(k.clades[c].peak)
            BY <1>9, <2>1
        <3> QED BY <3>1 DEF Good, NamesTheLarge, Named
    <2> QED BY <2>1
<1>11. CladeRows(r.clades, e, e)
    <2>1. ASSUME NEW c \in DOMAIN r.clades
          PROVE  /\ r.clades[c].founded \in 0..e /\ r.clades[c].reference \in DOMAIN Combo
                 /\ r.clades[c].extinct \in {NULL} \cup 0..e
                 /\ r.clades[c].named \in {NULL} \cup 0..e
                 /\ r.clades[c].named = NULL <=> r.clades[c].name = NULL
        <3>1. /\ t.clades[c].founded \in 0..e /\ t.clades[c].reference \in DOMAIN Combo
              /\ t.clades[c].extinct \in {NULL} \cup 0..e
              /\ t.clades[c].named \in {NULL} \cup 0..e
              /\ t.clades[c].named = NULL <=> t.clades[c].name = NULL
            BY <1>1, <1>7 DEF CladeRows
        <3>2. CASE c \in pending
            <4>1. r.clades[c].named \in 0..e /\ r.clades[c].name # NULL
                BY <1>3, <1>7, <1>8, <3>2
            <4>2. r.clades[c].named # NULL
                BY <4>1, HistoryAssumption
            <4> HIDE DEF pending, given
            <4> QED BY <1>7, <3>1, <4>1, <4>2 DEF SameClade
        <3>3. CASE c \notin pending
            BY <1>7, <3>1, <3>3
        <3> QED BY <3>2, <3>3
    <2> QED BY <1>1, <1>7, <2>1 DEF CladeRows
<1> HIDE DEF given, genome, announced
<1>12. NothingLater(r, e, e)
    BY <1>2, <1>11 DEF NothingLater, OrganismRows
<1>13. OrganismsShow(r, w)
    BY <1>2 DEF Undone, Good, OrganismsShow
<1>14. \A c \in DOMAIN r.clades \ gone : c \in DOMAIN k.clades /\ r.clades[c] = k.clades[c]
    BY <1>7, <1>9, <1>10
<1>15. DOMAIN r.clades \ gone = DOMAIN k.clades \ gone
    BY <1>7, <1>9
<1>16. CladesShow(r.clades, w, gone)
    <2>1. CladesShow(k.clades, w, gone)
        BY DEF Good
    <2> QED BY <1>14, <1>15, <2>1 DEF CladesShow
<1>17. InRange(r.clades, w, gone)
    BY <1>14 DEF Good, InRange
<1>18. NamesTheLarge(r.clades, gone)
    <2>1. ASSUME NEW c \in DOMAIN r.clades, IsNamed(r.clades[c].peak) PROVE r.clades[c].name # NULL
        BY <1>7, <1>8, <2>1
    <2>2. ASSUME NEW c \in DOMAIN r.clades, c \notin gone, r.clades[c].name # NULL
          PROVE  IsNamed(r.clades[c].peak)
        BY <1>14, <2>2 DEF Good, NamesTheLarge, Named
    <2> QED BY <2>1, <2>2 DEF NamesTheLarge, Named
<1>19. FramesOf(r, e)
    <2>1. /\ r.frames \subseteq k.frames
          /\ \A f \in k.frames \ r.frames : f <= e - FRAMES_KEPT
        BY <1>2 DEF Undone
    <2>2. /\ {f \in 1..e : f > e - FRAMES_KEPT} \subseteq k.frames
          /\ \A f \in k.frames : f >= e - FRAMES_KEPT
          /\ FRAMES_KEPT \in Nat
        BY HistoryAssumption DEF Good, FramesOf
    <2> HIDE DEF e
    <2>3. \A f \in 1..e : f > e - FRAMES_KEPT => ~(f <= e - FRAMES_KEPT)
        BY <1>1, <2>2
    <2> QED BY <2>1, <2>2, <2>3 DEF FramesOf
<1>20. Good(r, w, gone)
    BY <1>1, <1>6, <1>12, <1>13, <1>16, <1>17, <1>18, <1>19 DEF Good
<1>21. Undone(r, k, gone, e)
    <2>1. Without(r.clades, gone) = Without(k.clades, gone)
        BY <1>14, <1>15 DEF Without
    <2> QED BY <1>2, <2>1 DEF Undone
<1>22. \A c \in Named(t.clades) : c \in DOMAIN r.clades /\ SameName(r.clades[c], t.clades[c])
    <2>1. \A c \in Named(t.clades) : c \in DOMAIN t.clades /\ c \notin pending
        BY DEF Named
    <2> HIDE DEF pending
    <2> QED BY <1>7, <2>1 DEF SameName
<1> QED BY <1>20, <1>21, <1>22

\* What is not later than an epoch is not later than the next.
LEMMA NothingEvenLater ==
    ASSUME NEW t, NEW f, NEW e \in Nat, NothingLater(t, f, e)
    PROVE  NothingLater(t, f, e + 1)
<1>1. 0..e \subseteq 0..(e + 1)
    OBVIOUS
<1>2. PICK m : m = e + 1
    OBVIOUS
<1>3. 0..e \subseteq 0..m
    BY <1>1, <1>2
<1>4. OrganismRows(t, m)
    BY <1>3 DEF NothingLater, OrganismRows
<1>5. CladeRows(t.clades, f, m)
    BY <1>3 DEF NothingLater, CladeRows
<1>6. NothingLater(t, f, m)
    BY <1>3, <1>4, <1>5 DEF NothingLater
<1> QED BY <1>2, <1>6

-----------------------------------------------------------------------------
(* The inductive invariant. *)

\* What the first server may find: nothing, or tables that show the world saved
\* with them and have no row of a lost epoch.  A saved world is not nothing.
SavedBefore ==
    /\ \A w, d : [world |-> w, detectors |-> d] # NULL
    /\ \A st \in Beginnings \ {NULL} : Good(st.tables, st.world, {})

\* The clades that a restart will find lost.
LostBy(t, w) == {c \in DOMAIN t.clades : c >= w.next_clade_id}

\* A rollback would bring the saved tables back, and the names they had.
CanBeUndone(t, w, k, gone) ==
    /\ NothingLater(t, w.epoch, w.epoch + 1)
    /\ Undone(rollback_after(t, w), k, gone \cup LostBy(t, w), w.epoch)
    /\ NamesInOrder(rollback_after(t, w).clades)
    /\ \A c \in Named(k.clades) : c \in DOMAIN t.clades /\ SameName(t.clades[c], k.clades[c])

\* Nothing saved yet.
New == pc \in {"down", "born"} /\ lost = {} /\ DOMAIN kept.clades = {}

\* A snapshot is saved: its tables show its world, and a rollback would bring them back.
HasSaved ==
    /\ pc \in {"down", "undone", "wait", "recorded", "shown", "archiving"}
    /\ Good(kept, snapshot.world, lost)
    /\ CanBeUndone(tables, snapshot.world, kept, lost)

\* The world of the snapshot runs, on its tables.
AtTheSnapshot ==
    /\ world = snapshot.world
    /\ NothingLater(tables, world.epoch, world.epoch)
    /\ NamesInOrder(tables.clades)
    /\ Undone(tables, kept, lost, world.epoch)

\* The tables show the world that runs.
InStep == Good(tables, world, lost)

\* What holds at every step of the server, and is kept by every step.
IInv ==
    /\ pc \in {"down", "born", "undone", "wait", "recorded", "shown", "archiving"}
    /\ snapshot = NULL => New
    /\ snapshot # NULL => HasSaved
    /\ pc \in {"undone", "wait", "archiving"} => AtTheSnapshot
    /\ pc \in {"recorded", "shown"} => world.epoch = snapshot.world.epoch + 1
    /\ pc \in {"born", "wait", "recorded", "shown", "archiving"} => InStep

\* Saved tables can be brought back.
LEMMA SavedCanBeUndone ==
    ASSUME NEW w, NEW t, NEW gone, Good(t, w, gone)
    PROVE  CanBeUndone(t, w, t, gone)
<1>1. Sound(w) /\ NothingLater(t, w.epoch, w.epoch) /\ CladesShow(t.clades, w, gone)
      /\ NamesInOrder(t.clades) /\ w.epoch \in Nat
    BY DEF Good, Sound
<1>2. Undone(rollback_after(t, w), t, gone, w.epoch) /\ NamesOf(rollback_after(t, w).clades, t.clades)
    BY <1>1, RollbackIdle
<1>3. Undone(rollback_after(t, w), t, gone \cup LostBy(t, w), w.epoch)
    BY <1>2, UndoneMore
<1>4. NamesInOrder(rollback_after(t, w).clades)
    BY <1>1, <1>2, SameNamesInOrder
<1>5. NothingLater(t, w.epoch, w.epoch + 1)
    BY <1>1, NothingEvenLater
<1>6. \A c \in Named(t.clades) : c \in DOMAIN t.clades /\ SameName(t.clades[c], t.clades[c])
    BY DEF Named, SameName
<1> QED BY <1>3, <1>4, <1>5, <1>6 DEF CanBeUndone

\* What is not later than the snapshot can be undone: nothing is to be undone.
LEMMA UndoneCanBeUndone ==
    ASSUME NEW w, NEW k, NEW gone, Good(k, w, gone),
           NEW t, NothingLater(t, w.epoch, w.epoch), NamesInOrder(t.clades), Undone(t, k, gone, w.epoch),
           \A c \in Named(k.clades) : c \in DOMAIN t.clades /\ SameName(t.clades[c], k.clades[c])
    PROVE  CanBeUndone(t, w, k, gone)
<1>1. Sound(w) /\ w.epoch \in Nat /\ CladesShow(k.clades, w, gone)
    BY DEF Good, Sound
<1>2. /\ DOMAIN t.clades \ gone = DOMAIN k.clades \ gone
      /\ \A c \in DOMAIN t.clades \ gone : t.clades[c] = k.clades[c]
    BY WithoutSame DEF Undone
<1>3. CladesShow(t.clades, w, gone)
    BY <1>1, <1>2 DEF CladesShow
<1>4. Undone(rollback_after(t, w), t, gone, w.epoch) /\ NamesOf(rollback_after(t, w).clades, t.clades)
    BY <1>1, <1>3, RollbackIdle
<1>5. Undone(rollback_after(t, w), k, gone \cup LostBy(t, w), w.epoch)
    <2>1. Undone(rollback_after(t, w), k, gone, w.epoch)
        BY <1>4, UndoneTwice
    <2> QED BY <2>1, UndoneMore
<1>6. NamesInOrder(rollback_after(t, w).clades)
    BY <1>4, SameNamesInOrder
<1>7. NothingLater(t, w.epoch, w.epoch + 1)
    BY <1>1, NothingEvenLater
<1> QED BY <1>5, <1>6, <1>7 DEF CanBeUndone

\* Clades may be lost.
LEMMA GoodWithMoreLost ==
    ASSUME NEW w, NEW t, NEW gone, Good(t, w, gone), NEW more, gone \subseteq more
    PROVE  Good(t, w, more)
<1>1. CladesShow(t.clades, w, more)
    BY DEF Good, CladesShow
<1>2. InRange(t.clades, w, more)
    BY DEF Good, InRange
<1>3. NamesTheLarge(t.clades, more)
    BY DEF Good, NamesTheLarge
<1> QED BY <1>1, <1>2, <1>3 DEF Good

\* What the first server finds.
LEMMA Initially ==
    ASSUME SavedBefore, Init
    PROVE  IInv
<1>1. PICK st \in Beginnings :
         /\ snapshot = IF st = NULL THEN NULL ELSE [world |-> st.world, detectors |-> st.detectors]
         /\ tables = IF st = NULL THEN Empty ELSE st.tables
    BY DEF Init
<1>2. kept = tables /\ pc = "down" /\ lost = {}
    BY DEF Init
<1>3. CASE st = NULL
    <2>1. DOMAIN kept.clades = {}
        BY <1>1, <1>2, <1>3, NoTable DEF Empty
    <2> QED BY <1>1, <1>2, <1>3, <2>1 DEF IInv, New
<1>4. CASE st # NULL
    <2>1. snapshot # NULL /\ snapshot.world = st.world
        BY <1>1, <1>4 DEF SavedBefore
    <2>2. Good(kept, snapshot.world, lost)
        BY <1>1, <1>2, <1>4, <2>1 DEF SavedBefore
    <2>3. CanBeUndone(tables, snapshot.world, kept, lost)
        BY <1>2, <2>2, SavedCanBeUndone
    <2> QED BY <1>2, <2>1, <2>2, <2>3 DEF IInv, HasSaved
<1> QED BY <1>3, <1>4

\* Saving: the tables are those that a restart brings back.
LEMMA SavingKeepsIInv ==
    ASSUME SavedBefore, InStep,
           snapshot' = [world |-> world, detectors |-> detectors], kept' = tables,
           UNCHANGED <<tables, world, lost>>, pc' \in {"wait", "archiving"}
    PROVE  IInv'
<1>1. snapshot' # NULL /\ snapshot'.world = world
    BY DEF SavedBefore
<1>2. Good(tables, world, lost)
    BY DEF InStep
<1>3. Good(kept', snapshot'.world, lost')
    BY <1>1, <1>2
<1>4. CanBeUndone(tables', snapshot'.world, kept', lost')
    BY <1>1, <1>2, SavedCanBeUndone
<1>5. AtTheSnapshot'
    <2>1. Undone(tables, tables, lost, world.epoch)
        BY DEF Undone
    <2>2. NothingLater(tables, world.epoch, world.epoch) /\ NamesInOrder(tables.clades)
        BY <1>2 DEF Good
    <2>3. world' = snapshot'.world
        BY <1>1
    <2> QED BY <2>1, <2>2, <2>3 DEF AtTheSnapshot
<1>6. InStep'
    BY <1>2 DEF InStep
<1>7. HasSaved'
    BY <1>3, <1>4 DEF HasSaved
<1> QED BY <1>1, <1>5, <1>6, <1>7 DEF IInv

\* Genesis.
LEMMA CreateKeepsIInv ==
    ASSUME IInv, NEW w \in FirstWorlds, Create(w)
    PROVE  IInv'
<1>1. /\ pc' = "born" /\ snapshot' = NULL /\ snapshot = NULL /\ kept' = kept /\ lost' = lost /\ world' = w
      /\ tables' = [record_genesis(Empty, w) EXCEPT !.last_event = tables.last_event]
    BY DEF Create
<1>2. lost' = {} /\ DOMAIN kept'.clades = {}
    BY <1>1 DEF IInv, New
<1>3. Good(tables', world', lost')
    <2>1. Good(tables', w, {})
        BY <1>1, GenesisGood
    <2> QED BY <1>1, <1>2, <2>1
<1> QED BY <1>1, <1>2, <1>3 DEF IInv, New, InStep

\* A restart rolls the tables back to the world of the snapshot.
LEMMA RollbackKeepsIInv ==
    ASSUME IInv, Rollback
    PROVE  IInv'
<1> DEFINE w == snapshot.world
           gone == lost \cup LostBy(tables, w)
           r == rollback_after(tables, w)
<1>1. /\ snapshot # NULL /\ snapshot' = snapshot /\ kept' = kept /\ pc' = "undone"
      /\ world' = w /\ tables' = r /\ lost' = gone
    BY DEF Rollback, LostBy
<1>2. Good(kept, w, lost) /\ CanBeUndone(tables, w, kept, lost)
    BY <1>1 DEF IInv, HasSaved
<1>3. /\ w.epoch \in Nat /\ w.epoch + 1 \in Nat
      /\ NothingLater(tables, w.epoch, w.epoch + 1)
      /\ Undone(r, kept, gone, w.epoch)
      /\ NamesInOrder(r.clades)
    BY <1>2 DEF Good, Sound, CanBeUndone
<1>4. NothingLater(r, w.epoch, w.epoch)
    BY <1>3, RolledBack
<1>5. Good(kept, w, gone)
    BY <1>2, GoodWithMoreLost
<1>6. ASSUME NEW c \in Named(kept.clades)
      PROVE  c \in DOMAIN r.clades /\ SameName(r.clades[c], kept.clades[c])
    <2>1. c \in DOMAIN tables.clades /\ SameName(tables.clades[c], kept.clades[c])
        BY <1>2 DEF CanBeUndone
    <2>2. /\ DOMAIN r.clades = DOMAIN tables.clades
          /\ \A d \in DOMAIN r.clades : IsRolled(r.clades[d], tables.clades[d], w, d)
        BY <1>3, RolledClades DEF NothingLater
    <2>3. kept.clades[c].named \in {NULL} \cup 0..w.epoch
        BY <1>2 DEF Good, NothingLater, CladeRows, Named
    <2>4. ~(tables.clades[c].named # NULL /\ tables.clades[c].named > w.epoch)
        <3>1. \A x \in 0..w.epoch : ~(x > w.epoch)
            BY <1>3
        <3> QED BY <2>1, <2>3, <3>1 DEF SameName
    <2> QED BY <2>1, <2>2, <2>4 DEF IsRolled, SameName
<1> HIDE DEF r, gone
<1>7. CanBeUndone(r, w, kept, gone)
    BY <1>3, <1>4, <1>5, <1>6, UndoneCanBeUndone
<1> HIDE DEF w
<1>8. w = snapshot.world /\ snapshot'.world = w
    BY <1>1 DEF w
<1>9. HasSaved'
    BY <1>1, <1>5, <1>7, <1>8 DEF HasSaved
<1>10. AtTheSnapshot'
    BY <1>1, <1>3, <1>4, <1>8 DEF AtTheSnapshot
<1> QED BY <1>1, <1>9, <1>10 DEF IInv

\* Names are given at the restart, and the loop goes on.
LEMMA ResumeKeepsIInv ==
    ASSUME IInv, Resume
    PROVE  IInv'
<1> DEFINE w == snapshot.world
           r == backfill_names(tables)
<1>1. /\ pc = "undone" /\ pc' = "wait" /\ snapshot' = snapshot /\ kept' = kept /\ lost' = lost
      /\ world' = world /\ tables' = r
    BY DEF Resume
<1>2. snapshot # NULL
    BY <1>1 DEF IInv, New
<1>3. /\ Good(kept, w, lost) /\ CanBeUndone(tables, w, kept, lost) /\ AtTheSnapshot
    BY <1>1, <1>2 DEF IInv, HasSaved
<1>4. /\ world = w /\ NothingLater(tables, w.epoch, w.epoch) /\ NamesInOrder(tables.clades)
      /\ Undone(tables, kept, lost, w.epoch)
    BY <1>3 DEF AtTheSnapshot
<1>5. /\ Good(r, w, lost) /\ Undone(r, kept, lost, w.epoch)
      /\ \A c \in Named(tables.clades) : c \in DOMAIN r.clades /\ SameName(r.clades[c], tables.clades[c])
    BY <1>3, <1>4, Backfilled
<1> HIDE DEF r, w
<1>6. \A c \in Named(kept.clades) : c \in DOMAIN r.clades /\ SameName(r.clades[c], kept.clades[c])
    <2>1. \A c \in Named(kept.clades) :
             c \in DOMAIN tables.clades /\ SameName(tables.clades[c], kept.clades[c])
        BY <1>3 DEF CanBeUndone
    <2>2. \A c \in Named(kept.clades) : c \in Named(tables.clades)
        BY <2>1 DEF Named, SameName
    <2> QED BY <1>5, <2>1, <2>2 DEF SameName
<1>7. NothingLater(r, w.epoch, w.epoch) /\ NamesInOrder(r.clades)
    BY <1>5 DEF Good
<1>8. CanBeUndone(r, w, kept, lost)
    BY <1>3, <1>5, <1>6, <1>7, UndoneCanBeUndone
<1>9. w = snapshot.world
    BY DEF w
<1>10. HasSaved'
    BY <1>1, <1>3, <1>8, <1>9 DEF HasSaved
<1>11. AtTheSnapshot'
    BY <1>1, <1>4, <1>5, <1>7, <1>9 DEF AtTheSnapshot
<1>12. InStep'
    BY <1>1, <1>4, <1>5 DEF InStep
<1> QED BY <1>1, <1>2, <1>10, <1>11, <1>12 DEF IInv

\* An epoch is recorded: rolled back, its tables would be those that were saved.
LEMMA StepKeepsIInv ==
    ASSUME IInv, Step
    PROVE  IInv'
<1> DEFINE w == world
<1>1. /\ pc = "wait" /\ pc' = "recorded" /\ snapshot' = snapshot /\ kept' = kept /\ lost' = lost
    BY DEF Step
<1>2. PICK course \in Courses(world) :
         LET next == Recorded([world |-> world, detectors |-> detectors, tables |-> tables,
                               hour_dominant |-> hour_dominant], course)
         IN world' = next.world /\ tables' = next.tables
    BY DEF Step
<1> DEFINE v == Lived(world, course).world
           report == Lived(world, course).report
           seen == observe(detectors, v, report)
           events == Events(world, hour_dominant, v, report)
           r == record_epoch(tables, world, v, report, events, seen.stories)
<1>3. world' = v /\ tables' = r
    <2> HIDE DEF v, report, seen, events
    <2> QED BY <1>2 DEF Recorded, v, report, seen, events
<1>4. snapshot # NULL
    BY <1>1 DEF IInv, New
<1>5. /\ Good(kept, snapshot.world, lost) /\ CanBeUndone(tables, snapshot.world, kept, lost)
      /\ AtTheSnapshot /\ Good(tables, w, lost)
    BY <1>1, <1>4 DEF IInv, HasSaved, InStep
<1>6. Follows(w, v, report)
    <2>1. Sound(w)
        BY <1>5 DEF Good
    <2> QED BY <2>1, CoursesAreCourses, LivedFollows
<1>7. \A s \in seen.stories : s.epoch = v.epoch
    <2> HIDE DEF v, report
    <2> QED BY StoriesAreOfTheEpoch
<1> HIDE DEF v, report, seen, events
<1>8. /\ Good(r, v, lost)
      /\ NothingLater(r, w.epoch, v.epoch)
      /\ Undone(rollback_after(r, w), tables, lost \cup LostBy(r, w), w.epoch)
      /\ NamesOf(rollback_after(r, w).clades, tables.clades)
      /\ \A c \in Named(tables.clades) : c \in DOMAIN r.clades /\ SameName(r.clades[c], tables.clades[c])
    <2>1. PICK q : q = r
        OBVIOUS
    <2>2. /\ Good(q, v, lost)
          /\ NothingLater(q, w.epoch, v.epoch)
          /\ Undone(rollback_after(q, w), tables,
                    lost \cup {c \in DOMAIN q.clades : c >= w.next_clade_id}, w.epoch)
          /\ NamesOf(rollback_after(q, w).clades, tables.clades)
          /\ \A c \in Named(tables.clades) : c \in DOMAIN q.clades /\ SameName(q.clades[c], tables.clades[c])
        BY <1>5, <1>6, <1>7, <2>1, EpochGood
    <2> HIDE DEF r
    <2> QED BY <2>1, <2>2 DEF LostBy
<1> HIDE DEF r
<1>9. v.epoch = w.epoch + 1
    BY <1>6 DEF Follows
<1>10. /\ w = snapshot.world /\ Undone(tables, kept, lost, w.epoch) /\ NamesInOrder(tables.clades)
    BY <1>5 DEF AtTheSnapshot
<1>11. CanBeUndone(r, w, kept, lost)
    <2>1. Undone(tables, kept, lost \cup LostBy(r, w), w.epoch)
        BY <1>10, UndoneMore
    <2>2. Undone(rollback_after(r, w), kept, lost \cup LostBy(r, w), w.epoch)
        BY <1>8, <2>1, UndoneTwice
    <2>3. NamesInOrder(rollback_after(r, w).clades)
        BY <1>8, <1>10, SameNamesInOrder
    <2>4. \A c \in Named(kept.clades) : c \in DOMAIN r.clades /\ SameName(r.clades[c], kept.clades[c])
        <3>1. \A c \in Named(kept.clades) :
                 c \in DOMAIN tables.clades /\ SameName(tables.clades[c], kept.clades[c])
            BY <1>5 DEF CanBeUndone
        <3>2. \A c \in Named(kept.clades) : c \in Named(tables.clades)
            BY <3>1 DEF Named, SameName
        <3> QED BY <1>8, <3>1, <3>2 DEF SameName
    <2> QED BY <1>8, <1>9, <2>2, <2>3, <2>4 DEF CanBeUndone
<1>12. HasSaved'
    <2> HIDE DEF w
    <2>1. kept' = kept /\ lost' = lost /\ tables' = r /\ snapshot'.world = w
        BY <1>1, <1>3, <1>10
    <2> QED BY <1>1, <1>5, <1>10, <1>11, <2>1 DEF HasSaved
<1>13. InStep'
    BY <1>1, <1>3, <1>8 DEF InStep
<1>14. world'.epoch = snapshot'.world.epoch + 1
    BY <1>1, <1>3, <1>9, <1>10
<1> QED BY <1>1, <1>4, <1>12, <1>13, <1>14 DEF IInv

\* The tables are not written: but for a crash, the process goes on.
LEMMA SameTablesKeepIInv ==
    ASSUME IInv, UNCHANGED <<tables, snapshot, kept, lost>>,
           \/ pc' = "down" /\ pc # "down"
           \/ UNCHANGED <<pc, world>>
           \/ pc = "recorded" /\ pc' = "shown" /\ UNCHANGED world
           \/ pc = "archiving" /\ pc' \in {"undone", "wait"} /\ UNCHANGED world
    PROVE  IInv'
<1>1. (New /\ pc' \in {pc, "down"} => New') /\ (HasSaved /\ pc' # "born" => HasSaved')
      /\ (AtTheSnapshot /\ world' = world => AtTheSnapshot') /\ (InStep /\ world' = world => InStep')
    BY DEF IInv, New, HasSaved, AtTheSnapshot, InStep
<1>2. CASE pc' = "down" /\ pc # "down"
    BY <1>1, <1>2 DEF IInv
<1>3. CASE UNCHANGED <<pc, world>>
    BY <1>1, <1>3 DEF IInv, HasSaved
<1>4. CASE pc = "recorded" /\ pc' = "shown" /\ UNCHANGED world
    BY <1>1, <1>4 DEF IInv, New
<1>5. CASE pc = "archiving" /\ pc' \in {"undone", "wait"} /\ UNCHANGED world
    BY <1>1, <1>5 DEF IInv, New
<1> QED BY <1>2, <1>3, <1>4, <1>5

\* Every step keeps the invariant.
LEMMA NextKeepsIInv ==
    ASSUME SavedBefore, IInv, [Next]_vars
    PROVE  IInv'
<1>1. ASSUME NEW w \in FirstWorlds, Create(w) PROVE IInv'
    BY <1>1, CreateKeepsIInv
<1>2. CASE SaveGenesis
    <2>1. InStep
        BY <1>2 DEF SaveGenesis, IInv
    <2> QED BY <1>2, <2>1, SavingKeepsIInv DEF SaveGenesis
<1>3. CASE Rollback
    BY <1>3, RollbackKeepsIInv
<1>4. CASE Resume
    BY <1>4, ResumeKeepsIInv
<1>5. CASE Step
    BY <1>5, StepKeepsIInv
<1>6. CASE Publish
    BY <1>6, SameTablesKeepIInv DEF Publish
<1>7. CASE Save
    <2>1. InStep /\ pc' \in {"wait", "archiving"}
        BY <1>7 DEF Save, IInv
    <2> QED BY <1>7, <2>1, SavingKeepsIInv DEF Save
<1>8. CASE Archive
    BY <1>8, SameTablesKeepIInv DEF Archive
<1>9. CASE Crash
    BY <1>9, SameTablesKeepIInv DEF Crash
<1>10. CASE FirstNews
    BY <1>10, SameTablesKeepIInv DEF FirstNews
<1>11. CASE News
    BY <1>11, SameTablesKeepIInv DEF News
<1>12. CASE UNCHANGED vars
    BY <1>12, SameTablesKeepIInv DEF vars
<1> QED BY <1>1, <1>2, <1>3, <1>4, <1>5, <1>6, <1>7, <1>8, <1>9, <1>10, <1>11, <1>12 DEF Next

\* Whatever is recorded, saved, lost and rolled back (store.rs, world.rs), the tables of
\* the snapshot show its world, and rolling back would bring them back.
THEOREM Invariance ==
    ASSUME SavedBefore
    PROVE  Spec => []IInv
<1>1. Init => IInv
    BY Initially
<1>2. IInv /\ [Next]_vars => IInv'
    BY NextKeepsIInv
<1> QED BY <1>1, <1>2, PTL DEF Spec

\* A restart brings the tables back to what they were when the snapshot was saved:
\* rollback_after (store.rs) undoes whatever record_epoch wrote since, but for rows of
\* clades founded in the lost epoch.
THEOREM RestartsUndo ==
    ASSUME SavedBefore
    PROVE  Spec => []RollbackUndoes
<1>1. IInv => RollbackUndoes
    <2> SUFFICES ASSUME IInv, pc = "undone" PROVE RollbackUndoes
        BY DEF RollbackUndoes
    <2>1. Undone(tables, kept, lost, world.epoch)
        BY DEF IInv, AtTheSnapshot
    <2> QED BY <2>1 DEF Undone, RollbackUndoes
<1> QED BY <1>1, Invariance, PTL

\* Good tables show their world.
LEMMA ShownIsShown ==
    ASSUME NEW t, NEW w, NEW gone, Good(t, w, gone)
    PROVE  Shows(t, w, gone)
<1>1. OrganismsShow(t, w) /\ CladesShow(t.clades, w, gone) /\ Sound(w)
    BY DEF Good
<1>2. ASSUME NEW c \in (1..(w.next_clade_id - 1)) \ gone, c \in DOMAIN w.clades
      PROVE  \A field \in DOMAIN w.clades[c] : t.clades[c][field] = w.clades[c][field]
    <2>1. PICK q : q = w.clades[c]
        OBVIOUS
    <2>2. PICK row : row = t.clades[c]
        OBVIOUS
    <2>3. q \in [parent : Nat, founded : 0..w.epoch, reference : DOMAIN Combo, living : Nat, peak : Nat]
        BY <1>1, <1>2, <2>1 DEF Sound
    <2>4. DOMAIN q = {"parent", "founded", "reference", "living", "peak"}
        BY <2>3
    <2>5. /\ row.parent = q.parent /\ row.founded = q.founded /\ row.reference = q.reference
          /\ row.living = q.living /\ row.peak = q.peak
        BY <1>1, <1>2, <2>1, <2>2 DEF CladesShow, SameClade
    <2>6. \A field \in DOMAIN q : row[field] = q[field]
        BY <2>4, <2>5
    <2> QED BY <2>1, <2>2, <2>6
<1>3. ASSUME NEW c \in (1..(w.next_clade_id - 1)) \ gone
      PROVE  /\ c \in DOMAIN t.clades
             /\ c \in DOMAIN w.clades => t.clades[c].extinct = NULL
             /\ c \notin DOMAIN w.clades => t.clades[c].extinct # NULL /\ t.clades[c].living = 0
    BY <1>1 DEF CladesShow
<1>4. /\ DOMAIN t.organisms = 1..(w.next_organism_id - 1)
      /\ {i \in DOMAIN t.organisms : t.organisms[i].died = NULL} = {o.id : o \in w.organisms}
      /\ \A o \in w.organisms : t.organisms[o.id].clade = o.clade
    BY <1>1 DEF OrganismsShow, Ids
<1> QED BY <1>2, <1>3, <1>4 DEF Shows

\* The tables show the world that runs, every clade that has reached the threshold has
\* a name, and no two have one (record_epoch, name_new, backfill_names, names.rs).
THEOREM TablesShowTheWorld ==
    ASSUME SavedBefore
    PROVE  Spec => []ShowsTheWorld
<1>1. IInv => ShowsTheWorld
    <2> SUFFICES ASSUME IInv, Serving PROVE ShowsTheWorld
        BY DEF ShowsTheWorld
    <2>1. Good(tables, world, lost)
        BY DEF IInv, Serving, InStep
    <2>2. Shows(tables, world, lost)
        BY <2>1, ShownIsShown
    <2>3. NamesTheLarge(tables.clades, lost) /\ FramesOf(tables, world.epoch)
          /\ IsInjective([c \in Named(tables.clades) |-> tables.clades[c].name])
        BY <2>1 DEF Good, NamesInOrder
    <2> QED BY <2>2, <2>3 DEF ShowsTheWorld
<1> QED BY <1>1, Invariance, PTL

\* A saved name never changes: a restart takes back only names given after the
\* snapshot, and give_name names only clades that have none (store.rs, names.rs).
THEOREM NamesStayForever ==
    ASSUME SavedBefore
    PROVE  Spec => NamesStay
<1> DEFINE Stay == \A c \in DOMAIN kept.clades \cap DOMAIN kept'.clades :
                      kept.clades[c].name # NULL => kept'.clades[c].name = kept.clades[c].name
<1>1. IInv /\ [Next]_vars => [Stay]_kept
    <2> SUFFICES ASSUME IInv, [Next]_vars, kept' # kept PROVE Stay
        OBVIOUS
    <2>1. SaveGenesis \/ Save
        BY DEF Next, Create, Rollback, Resume, Step, Publish, Archive, Crash, FirstNews, News, vars
    <2>2. CASE SaveGenesis
        <3>1. snapshot = NULL
            BY <2>2 DEF SaveGenesis, IInv, HasSaved
        <3>2. DOMAIN kept.clades = {}
            BY <3>1 DEF IInv, New
        <3> QED BY <3>2
    <2>3. CASE Save
        <3>1. snapshot # NULL /\ kept' = tables
            BY <2>3 DEF Save, IInv, New
        <3>2. \A c \in Named(kept.clades) : SameName(tables.clades[c], kept.clades[c])
            BY <3>1 DEF IInv, HasSaved, CanBeUndone
        <3> QED BY <3>1, <3>2 DEF Named, SameName
    <2> QED BY <2>1, <2>2, <2>3
<1>2. IInv /\ [Next]_vars => [\A c \in DOMAIN kept.clades \cap DOMAIN kept'.clades :
                                  kept.clades[c].name # NULL
                                      => kept'.clades[c].name = kept.clades[c].name]_kept
    BY <1>1
<1> QED BY <1>2, Invariance, PTL DEF Spec, NamesStay

-----------------------------------------------------------------------------
(* What the feed and the detectors tell of leaders. *)

\* The full hours at which somebody lived, and who led.
HoursOf(t) == {e \in DOMAIN t.epochs : e > 0 /\ e % HOUR = 0 /\ t.epochs[e].population > 0}
LeaderAt(t, e) == t.epochs[e].dominant

\* What the feed and the detectors tell of an epoch's leader.
ChangesAt(t, e) == {x \in t.events : x.kind = "dominant_changed" /\ x.epoch = e}
GuardsAt(t, e) == {s \in t.stories : s.kind = "changing_of_the_guard" /\ s.epoch = e}

\* They tell of it as the headers do, of this hour and of the one before.
HourAgrees(t, e, earlier) ==
    /\ ChangesAt(t, e) # {} <=> LeaderAt(t, e) # LeaderAt(t, e - HOUR)
    /\ \A x \in ChangesAt(t, e) : x.clade = LeaderAt(t, e) /\ x.from = LeaderAt(t, e - HOUR)
    /\ GuardsAt(t, e) # {} <=> earlier # {} /\ LeaderAt(t, e) # LeaderAt(t, Max(earlier))
    /\ \A s \in GuardsAt(t, e) : s.other = LeaderAt(t, Max(earlier))

\* Tables whose events and stories tell of a new leader as their headers do.
FeedHolds(t) == \A e \in HoursOf(t) : HourAgrees(t, e, {h \in HoursOf(t) : h < e})

\* The last full hour up to an epoch.
LastHour(e) == (e \div HOUR) * HOUR

\* Tables with the headers of all epochs up to a world's, and a memory with the
\* leader of the last hour there was one.
FeedGoesOn(t, w, mem) ==
    /\ DOMAIN t.epochs = 0..w.epoch
    /\ t.epochs[w.epoch] = Header(w)
    /\ \A e \in 0..w.epoch : LeaderAt(t, e) \in Nat
    /\ mem.world_leader = IF HoursOf(t) = {} THEN NULL ELSE LeaderAt(t, Max(HoursOf(t)))

-----------------------------------------------------------------------------
(* Stories that come once. *)

Once(kind) == kind \in {"comeback", "crossing", "split_by_sea"}

\* Tables with no story twice.
ToldOnce(t) ==
    /\ \A s, o \in t.stories :
          s # o /\ s.kind = o.kind /\ s.kind \in {"comeback", "crossing", "split_by_sea"}
              => s.clade # o.clade \/ s.plate # o.plate
    /\ \A s, o \in t.stories :
          s.kind = "last_of_its_kind" /\ o.kind = "fall" /\ s.clade = o.clade
              => o.epoch > s.epoch + 1

\* A track is a record.
IsTrack(t) ==
    /\ t = [home |-> t.home, was_big |-> t.was_big, fell |-> t.fell, comeback_told |-> t.comeback_told,
            last_told |-> t.last_told, split_told |-> t.split_told, abroad |-> t.abroad,
            crossed |-> t.crossed]
    /\ {t.was_big, t.fell, t.comeback_told, t.last_told, t.split_told} \subseteq BOOLEAN

\* The memory of a clade knows a story of it.
Remembers(t, s, e) ==
    /\ s.kind = "comeback" => t.comeback_told
    /\ s.kind = "crossing" => s.plate \in t.crossed
    /\ s.kind = "split_by_sea" => t.split_told
    /\ s.kind = "last_of_its_kind" /\ s.epoch = e => t.last_told

AboutAClade == {"comeback", "crossing", "split_by_sea", "last_of_its_kind", "fall"}

\* A memory that knows what is told of the clades that live, and tables that tell
\* of a fall only where none lives.
StoriesGoOn(t, w, mem) ==
    /\ \A c \in DOMAIN mem.clades : IsTrack(mem.clades[c])
    /\ \A s \in t.stories : s.kind \in AboutAClade =>
          /\ s.clade \in 1..(w.next_clade_id - 1)
          /\ s.kind = "fall" => s.clade \notin DOMAIN w.clades
          /\ s.clade \in DOMAIN w.clades => 
                s.clade \in DOMAIN mem.clades /\ Remembers(mem.clades[s.clade], s, w.epoch)

GoesOn(t, w, mem) == FeedGoesOn(t, w, mem) /\ StoriesGoOn(t, w, mem)
Holds(t) == FeedHolds(t) /\ ToldOnce(t)

-----------------------------------------------------------------------------
(* News. *)

\* Events have numbers that were given.
EventsNumbered(t) ==
    /\ t.last_event \in Nat
    /\ IsFiniteSet(t.events)
    /\ \A x \in t.events : x.id \in 1..t.last_event

\* What the bot has passed it has told.
NewsFollowed ==
    cursor # NULL =>
        /\ cursor \in 0..tables.last_event
        /\ \A e \in tables.events : since < e.id /\ e.id <= cursor => e \in told

LeaderKnown(e) == hour_dominant = LeaderAt(tables, LastHour(e))

NewsInv ==
    /\ EventsNumbered(tables) /\ NewsFollowed
    /\ Holds(tables) /\ Holds(kept)
    /\ snapshot # NULL => GoesOn(kept, snapshot.world, snapshot.detectors)
    /\ pc \in {"undone", "wait", "archiving"} => detectors = snapshot.detectors
    /\ pc \in {"born", "wait", "recorded", "shown", "archiving"} => GoesOn(tables, world, detectors)
    /\ pc \in {"down", "born"} => hour_dominant = NULL
    /\ pc \in {"wait", "shown"} => LeaderKnown(world.epoch)
    /\ pc = "recorded" => LeaderKnown(world.epoch - 1)
    /\ pc = "archiving" => hour_dominant = NULL \/ LeaderKnown(world.epoch)

ToldBefore ==
    \A st \in Beginnings \ {NULL} : /\ EventsNumbered(st.tables) /\ Holds(st.tables)
                                    /\ GoesOn(st.tables, st.world, st.detectors)

-----------------------------------------------------------------------------
(* Hours and leaders. *)

\* Full hours come every HOUR epochs.
LEMMA HourSteps ==
    ASSUME NEW e \in Nat
    PROVE  /\ LastHour(e) \in 0..e
           /\ e % HOUR = 0 => LastHour(e) = e
           /\ (e + 1) % HOUR # 0 => LastHour(e + 1) = LastHour(e)
           /\ (e + 1) % HOUR = 0 => e + 1 - HOUR \in Nat /\ LastHour(e) = e + 1 - HOUR
<1>1. PICK h \in Nat \ {0} : h = HOUR
    BY StoriesAssumption
<1>2. PICK q \in Int, r \in 0..(h - 1) : e = h * q + r /\ q = e \div h /\ r = e % h
    BY <1>1
<1>3. PICK p \in Int, s \in 0..(h - 1) : e + 1 = h * p + s /\ p = (e + 1) \div h /\ s = (e + 1) % h
    BY <1>1
<1>4. q >= 0
    <2>1. q < 0 => h * q <= -h
        BY <1>1, <1>2
    <2> QED BY <1>1, <1>2, <2>1
<1>5. h * (p - q) = r + 1 - s
    <2>1. h * (p - q) = h * p - h * q
        OBVIOUS
    <2>2. h * p \in Int /\ h * q \in Int
        OBVIOUS
    <2> QED BY <1>2, <1>3, <2>1, <2>2
<1>6. p - q < 0 => h * (p - q) <= -h
    OBVIOUS
<1>7. p - q > 1 => h * (p - q) >= 2 * h
    OBVIOUS
<1>8. p - q \in {0, 1}
    <2>1. PICK d \in Int : d = p - q
        OBVIOUS
    <2>2. PICK x : x = h * d
        OBVIOUS
    <2>3. x = r + 1 - s /\ (d < 0 => x <= -h) /\ (d > 1 => x >= 2 * h)
        BY <1>5, <1>6, <1>7, <2>1, <2>2
    <2>4. d \in {0, 1}
        BY <2>3
    <2> QED BY <2>1, <2>4
<1>9. LastHour(e) = h * q /\ LastHour(e + 1) = h * p
    <2>1. LastHour(e) = q * h /\ LastHour(e + 1) = p * h
        BY <1>1, <1>2, <1>3 DEF LastHour
    <2>2. q * h = h * q /\ p * h = h * p
        OBVIOUS
    <2> QED BY <2>1, <2>2
<1>10. h * q \in 0..e /\ (r = 0 => h * q = e)
    <2>1. h * q >= 0
        BY <1>1, <1>2, <1>4
    <2> QED BY <1>1, <1>2, <2>1
<1>11. p = q => h * p = h * q /\ s = r + 1
    BY <1>1, <1>2, <1>3
<1>12. p = q + 1 => h * p = h * q + h /\ s = r + 1 - h
    BY <1>1, <1>2, <1>3
<1>13. s # 0 => p = q
    BY <1>1, <1>2, <1>3, <1>8, <1>12
<1>14. s = 0 => p = q + 1 /\ h * q = e + 1 - h
    BY <1>1, <1>2, <1>3, <1>8, <1>11, <1>12
<1>15. s = 0 => e + 1 - h \in Nat
    BY <1>10, <1>14
<1> QED BY <1>1, <1>2, <1>3, <1>9, <1>10, <1>13, <1>14, <1>15

\* A set of numbers up to one has a greatest.
LEMMA GreatestNumber ==
    ASSUME NEW n \in Nat, NEW S \in SUBSET (0..n), S # {}
    PROVE  Max(S) \in S /\ \A y \in S : y <= Max(S)
<1> DEFINE U == {m \in Nat : \A y \in S : y <= m}
<1>1. n \in U
    OBVIOUS
<1>2. PICK m \in U : \A k \in U : m <= k
    <2>1. U \in SUBSET Nat
        OBVIOUS
    <2> HIDE DEF U
    <2> QED BY <1>1, <2>1, LeastNumber
<1>3. m \in S
    <2> SUFFICES ASSUME m \notin S PROVE FALSE
        OBVIOUS
    <2>1. \A y \in S : y \in Nat /\ y < m
        OBVIOUS
    <2>2. m \in Nat /\ m # 0
        <3>1. PICK y : y \in S
            OBVIOUS
        <3>2. m \in Nat
            OBVIOUS
        <3> QED BY <2>1, <3>1, <3>2
    <2>3. m - 1 \in Nat /\ \A y \in S : y <= m - 1
        BY <2>1, <2>2
    <2> QED BY <1>2, <2>2, <2>3
<1>4. \E x \in S : \A y \in S : x >= y
    BY <1>3
<1> DEFINE M == CHOOSE x \in S : \A y \in S : x >= y
<1>5. M \in S /\ \A y \in S : M >= y
    <2> HIDE DEF M
    <2>1. M = CHOOSE x \in S : \A y \in S : x >= y
        BY DEF M
    <2> QED BY <1>4, <2>1
<1>6. Max(S) = M
    BY DEF Max
<1> HIDE DEF M
<1> QED BY <1>5, <1>6

\* Of the clades with the most members, one has the lowest number (stories, most).
LEMMA MostIsThere ==
    ASSUME NEW count, DOMAIN count \subseteq Nat, DOMAIN count # {},
           NEW N \in Nat, \A x \in DOMAIN count : count[x] \in 0..N
    PROVE  Most(count) \in DOMAIN count
<1> DEFINE S == {count[x] : x \in DOMAIN count}
           m == Max(S)
           T == {x \in DOMAIN count : count[x] = m}
<1>1. m \in S /\ \A y \in S : y <= m
    <2>1. S \in SUBSET (0..N) /\ S # {}
        OBVIOUS
    <2> HIDE DEF S
    <2> QED BY <2>1, GreatestNumber
<1> HIDE DEF m
<1>2. PICK x \in T : \A y \in T : x <= y
    <2>1. T \in SUBSET Nat /\ T # {}
        BY <1>1
    <2> HIDE DEF T
    <2> QED BY <2>1, LeastNumber
<1>3. \A y \in DOMAIN count : count[x] > count[y] \/ (count[x] = count[y] /\ x <= y)
    <2> SUFFICES ASSUME NEW y \in DOMAIN count
                 PROVE  count[x] > count[y] \/ (count[x] = count[y] /\ x <= y)
        OBVIOUS
    <2>1. count[x] = m /\ count[y] <= m /\ count[y] \in Nat /\ count[x] \in Nat
        BY <1>1
    <2> QED BY <1>2, <2>1
<1> DEFINE P(z) == \A y \in DOMAIN count : count[z] > count[y] \/ (count[z] = count[y] /\ z <= y)
<1>4. \E z \in DOMAIN count : P(z)
    BY <1>3
<1>5. Most(count) = CHOOSE z \in DOMAIN count : P(z)
    BY DEF Most
<1> HIDE DEF P
<1> QED BY <1>4, <1>5

\* The header of a world: who leads it, if anyone lives (sim.rs, header).
LEMMA LeaderInHeader ==
    ASSUME NEW w, Sound(w)
    PROVE  /\ Header(w).dominant \in Nat /\ Header(w).epoch = w.epoch
           /\ LeaderOf(w) # NULL => Header(w).dominant = LeaderOf(w)
           /\ (\A c \in DOMAIN w.clades : w.clades[c].living # 0)
                 => (Header(w).population > 0 <=> LeaderOf(w) # NULL)
<1>1. /\ IsFiniteSet(w.organisms) /\ Cardinality(w.organisms) \in Nat
      /\ w.next_clade_id \in Nat
      /\ DOMAIN w.clades \subseteq 1..(w.next_clade_id - 1)
      /\ \A c \in DOMAIN w.clades : w.clades[c].living = Cardinality(Of(w, c))
      /\ \A o \in w.organisms : o.clade \in DOMAIN w.clades
    BY FS_CardinalityType DEF Sound, Of
<1>2. \A c \in DOMAIN w.clades : w.clades[c].living \in 0..Cardinality(w.organisms)
    <2> SUFFICES ASSUME NEW c \in DOMAIN w.clades
                 PROVE  w.clades[c].living \in 0..Cardinality(w.organisms)
        OBVIOUS
    <2>1. Of(w, c) \in SUBSET w.organisms
        BY DEF Of
    <2>2. Cardinality(Of(w, c)) <= Cardinality(w.organisms)
        BY <1>1, <2>1, FS_Subset
    <2>3. Cardinality(Of(w, c)) \in Nat
        BY CladesLive
    <2> QED BY <1>1, <2>2, <2>3
<1>3. w.clades = <<>> <=> DOMAIN w.clades = {}
    <2>1. w.clades = [c \in DOMAIN w.clades |-> w.clades[c]]
        BY DEF Sound
    <2> QED BY <2>1, NoTable DEF IsTable
<1>4. LeaderOf(w) = NULL \/ LeaderOf(w) \in DOMAIN w.clades
    <2> DEFINE count == [c \in DOMAIN w.clades |-> w.clades[c].living]
    <2>1. CASE w.clades = <<>>
        BY <2>1 DEF LeaderOf
    <2>2. CASE w.clades # <<>>
        <3>1. DOMAIN count = DOMAIN w.clades /\ DOMAIN count # {} /\ DOMAIN count \subseteq Nat
            BY <1>1, <1>3, <2>2
        <3>2. \A c \in DOMAIN count : count[c] \in 0..Cardinality(w.organisms)
            BY <1>2
        <3>3. LeaderOf(w) = Most(count)
            BY <2>2 DEF LeaderOf
        <3> HIDE DEF count
        <3>4. Most(count) \in DOMAIN count
            BY <1>1, <3>1, <3>2, MostIsThere
        <3> QED BY <3>1, <3>3, <3>4
    <2> QED BY <2>1, <2>2
<1>5. NULL \notin Nat
    BY HistoryAssumption
<1>6. LeaderOf(w) = NULL => w.clades = <<>>
    <2> SUFFICES ASSUME w.clades # <<>>, LeaderOf(w) = NULL PROVE FALSE
        OBVIOUS
    <2> DEFINE count == [c \in DOMAIN w.clades |-> w.clades[c].living]
    <2>1. DOMAIN count = DOMAIN w.clades /\ DOMAIN count # {} /\ DOMAIN count \subseteq Nat
        BY <1>1, <1>3
    <2>2. \A c \in DOMAIN count : count[c] \in 0..Cardinality(w.organisms)
        BY <1>2
    <2>3. LeaderOf(w) = Most(count)
        BY DEF LeaderOf
    <2> HIDE DEF count
    <2>4. Most(count) \in DOMAIN count
        BY <1>1, <2>1, <2>2, MostIsThere
    <2> QED BY <1>5, <2>1, <2>3, <2>4
<1>7. /\ Header(w).dominant = IF LeaderOf(w) = NULL THEN 0 ELSE LeaderOf(w)
      /\ Header(w).population = Cardinality(w.organisms)
      /\ Header(w).epoch = w.epoch
    BY DEF Header
<1>8. Header(w).dominant \in Nat
    BY <1>1, <1>4, <1>7
<1>9. ASSUME \A c \in DOMAIN w.clades : w.clades[c].living # 0
      PROVE  Cardinality(w.organisms) > 0 <=> LeaderOf(w) # NULL
    <2>1. CASE w.clades = <<>>
        <3>1. w.organisms = {}
            BY <1>1, <1>3, <2>1
        <3> QED BY <2>1, <3>1, FS_EmptySet DEF LeaderOf
    <2>2. CASE w.clades # <<>>
        <3>1. PICK c : c \in DOMAIN w.clades
            BY <1>3, <2>2
        <3>2. Cardinality(w.organisms) > 0
            BY <1>1, <1>2, <1>9, <3>1
        <3> QED BY <1>6, <2>2, <3>2
    <2> QED BY <2>1, <2>2
<1> QED BY <1>7, <1>8, <1>9

-----------------------------------------------------------------------------
(* The events of an epoch. *)

\* A list, and what is in it.
IsList(q) == \E n \in Nat : q = [i \in 1..n |-> q[i]]
In(q) == {q[i] : i \in DOMAIN q}

\* A list has a length.
LEMMA ListLength ==
    ASSUME NEW q, IsList(q)
    PROVE  Len(q) \in Nat /\ DOMAIN q = 1..Len(q) /\ q \in Seq(In(q))
<1>1. PICK n \in Nat : q = [i \in 1..n |-> q[i]]
    BY DEF IsList
<1>2. q \in [1..n -> In(q)]
    BY <1>1 DEF In
<1>3. q \in Seq(In(q))
    BY <1>2, SeqDef
<1> QED BY <1>3, LenProperties

\* One list after the other has what both have.
LEMMA Joined ==
    ASSUME NEW p, IsList(p), NEW q, IsList(q)
    PROVE  IsList(p \o q) /\ In(p \o q) = In(p) \cup In(q)
<1> DEFINE S == In(p) \cup In(q)
           r == p \o q
<1>1. /\ Len(p) \in Nat /\ DOMAIN p = 1..Len(p) /\ Len(q) \in Nat /\ DOMAIN q = 1..Len(q)
      /\ p \in Seq(In(p)) /\ q \in Seq(In(q))
    BY ListLength
<1>2. p \in Seq(S) /\ q \in Seq(S)
    BY <1>1, SeqDef
<1> HIDE DEF S
<1>3. /\ r \in Seq(S) /\ Len(r) = Len(p) + Len(q)
      /\ \A i \in 1..(Len(p) + Len(q)) : r[i] = IF i <= Len(p) THEN p[i] ELSE q[i - Len(p)]
    BY <1>2, ConcatProperties
<1> HIDE DEF r
<1>4. DOMAIN r = 1..(Len(p) + Len(q)) /\ r = [i \in 1..(Len(p) + Len(q)) |-> r[i]]
    BY <1>3, LenProperties
<1>5. IsList(r)
    <2>1. Len(p) + Len(q) \in Nat
        BY <1>1
    <2> QED BY <1>4, <2>1 DEF IsList
<1>6. ASSUME NEW i \in DOMAIN r PROVE r[i] \in In(p) \cup In(q)
    <2>1. CASE i <= Len(p)
        <3>1. i \in DOMAIN p /\ r[i] = p[i]
            BY <1>1, <1>3, <1>4, <2>1
        <3> QED BY <3>1 DEF In
    <2>2. CASE ~(i <= Len(p))
        <3>1. i - Len(p) \in DOMAIN q /\ r[i] = q[i - Len(p)]
            BY <1>1, <1>3, <1>4, <2>2
        <3> QED BY <3>1 DEF In
    <2> QED BY <2>1, <2>2
<1>7. ASSUME NEW i \in DOMAIN p PROVE p[i] \in In(r)
    <2>1. i \in DOMAIN r /\ r[i] = p[i]
        BY <1>1, <1>3, <1>4
    <2> QED BY <2>1 DEF In
<1>8. ASSUME NEW i \in DOMAIN q PROVE q[i] \in In(r)
    <2>1. Len(p) + i \in DOMAIN r /\ ~(Len(p) + i <= Len(p)) /\ (Len(p) + i) - Len(p) = i
        BY <1>1, <1>4
    <2>2. r[Len(p) + i] = q[i]
        BY <1>3, <1>4, <2>1
    <2> QED BY <2>1, <2>2 DEF In
<1>9. In(r) = In(p) \cup In(q)
    BY <1>6, <1>7, <1>8 DEF In
<1> QED BY <1>5, <1>9 DEF r

\* An event or none.
Perhaps(condition, event) == IF condition THEN <<event>> ELSE <<>>

\* An event of each of some clades.
OfEach(kind, S) == [i \in DOMAIN Ascending(S) |-> Event(kind, Ascending(S)[i], NULL)]

\* They are lists.
LEMMA PerhapsOne ==
    ASSUME NEW condition, NEW event
    PROVE  /\ IsList(Perhaps(condition, event))
           /\ In(Perhaps(condition, event)) = IF condition THEN {event} ELSE {}
<1>1. PICK q : q = Perhaps(condition, event)
    OBVIOUS
<1>2. CASE condition
    <2>1. q = <<event>>
        BY <1>1, <1>2 DEF Perhaps
    <2>2. DOMAIN q = 1..1 /\ q = [i \in 1..1 |-> q[i]] /\ q[1] = event
        BY <2>1
    <2>3. IsList(q)
        BY <2>2 DEF IsList
    <2>4. In(q) = {event}
        BY <2>2 DEF In
    <2> QED BY <1>1, <1>2, <2>3, <2>4
<1>3. CASE ~condition
    <2>1. q = <<>>
        BY <1>1, <1>3 DEF Perhaps
    <2>2. DOMAIN q = 1..0 /\ q = [i \in 1..0 |-> q[i]]
        BY <2>1
    <2>3. IsList(q)
        BY <2>2 DEF IsList
    <2>4. In(q) = {}
        BY <2>2 DEF In
    <2> QED BY <1>1, <1>3, <2>3, <2>4
<1> QED BY <1>2, <1>3

LEMMA OneOfEach ==
    ASSUME NEW kind, NEW S, IsFiniteSet(S)
    PROVE  IsList(OfEach(kind, S)) /\ \A x \in In(OfEach(kind, S)) : x.kind = kind
<1>1. Cardinality(S) \in Nat
    BY FS_CardinalityType
<1>2. DOMAIN Ascending(S) = 1..Cardinality(S)
    BY DEF Ascending
<1>3. PICK q : q = OfEach(kind, S)
    OBVIOUS
<1>4. q = [i \in 1..Cardinality(S) |-> Event(kind, Ascending(S)[i], NULL)]
    BY <1>2, <1>3 DEF OfEach
<1>5. \A i \in DOMAIN q : q[i].kind = kind
    BY <1>4 DEF Event
<1>6. q = [i \in 1..Cardinality(S) |-> q[i]]
    BY <1>4
<1>7. IsList(q)
    BY <1>1, <1>6 DEF IsList
<1> QED BY <1>3, <1>5, <1>7 DEF In

\* Of them, those of a changed leader.
LeaderNews(events) == {x \in In(events) : x.kind = "dominant_changed"}

\* The guard of a changed leader.
NewLeader(dominant, v) ==
    Header(v).epoch % DOMINANT_EVERY = 0 /\ Header(v).dominant # dominant /\ Header(v).population > 0

\* The events of an epoch are a list; a changed leader is told of once, where the
\* header of a full hour shows another than the last hour's (model.rs, events).
LEMMA EventsOfEpoch ==
    ASSUME NEW w, Sound(w), NEW v, NEW report, Follows(w, v, report), NEW dominant
    PROVE  LET events == Events(w, dominant, v, report)
           IN IsList(events) /\ LeaderNews(events) = IF NewLeader(dominant, v)
                                       THEN {Event("dominant_changed", Header(v).dominant, dominant)}
                                       ELSE {}
<1> DEFINE was(c) == IF c \in DOMAIN w.clades THEN w.clades[c].peak ELSE 0
           named == {c \in DOMAIN v.clades : IsNamed(v.clades[c].peak) /\ ~IsNamed(was(c))}
           change == Event("dominant_changed", Header(v).dominant, dominant)
           q1 == OfEach("clade_founded", report.founded)
           q2 == OfEach("clade_named", named)
           q3 == OfEach("clade_extinct", DOMAIN report.extinct)
           q4 == Perhaps(NewLeader(dominant, v), change)
           q5 == Perhaps(report.bridges_closed, Event("bridge_closed", NULL, NULL))
           q6 == Perhaps(report.revival, Event("revival", NULL, NULL))
           events == Events(w, dominant, v, report)
<1>1. events = q1 \o q2 \o q3 \o q4 \o q5 \o q6
    BY DEF Events, OfEach, Perhaps, NewLeader
<1>2. /\ IsFiniteSet(report.founded) /\ IsFiniteSet(named) /\ IsFiniteSet(DOMAIN report.extinct)
    <2>1. /\ report.founded = w.next_clade_id..(v.next_clade_id - 1)
          /\ w.next_clade_id \in Nat /\ v.next_clade_id \in Nat
          /\ DOMAIN All(v, report) = DOMAIN w.clades \cup report.founded
          /\ DOMAIN w.clades \subseteq 1..(w.next_clade_id - 1)
          /\ DOMAIN v.clades \subseteq 1..(v.next_clade_id - 1)
        BY DEF Follows, Genealogy, Sound
    <2>2. IsFiniteSet(report.founded) /\ IsFiniteSet(1..(w.next_clade_id - 1))
          /\ IsFiniteSet(1..(v.next_clade_id - 1))
        <3>1. /\ w.next_clade_id \in Int /\ v.next_clade_id - 1 \in Int /\ w.next_clade_id - 1 \in Int
              /\ 1 \in Int
            BY <2>1
        <3>2. \A a, b \in Int : IsFiniteSet(a..b)
            BY FS_Interval
        <3> QED BY <2>1, <3>1, <3>2
    <2>3. IsFiniteSet(DOMAIN w.clades) /\ IsFiniteSet(DOMAIN v.clades)
        BY <2>1, <2>2, FS_Subset
    <2>4. IsFiniteSet(DOMAIN w.clades \cup report.founded)
        BY <2>2, <2>3, FS_Union
    <2>5. DOMAIN report.extinct \subseteq DOMAIN All(v, report)
        BY DEF All
    <2>6. IsFiniteSet(DOMAIN report.extinct)
        BY <2>1, <2>4, <2>5, FS_Subset
    <2>7. named \subseteq DOMAIN v.clades
        OBVIOUS
    <2>8. IsFiniteSet(named)
        <3> HIDE DEF named
        <3> QED BY <2>3, <2>7, FS_Subset
    <2> QED BY <2>2, <2>6, <2>8
<1> HIDE DEF named
<1>3. /\ IsList(q1) /\ \A x \in In(q1) : x.kind = "clade_founded"
      /\ IsList(q2) /\ \A x \in In(q2) : x.kind = "clade_named"
      /\ IsList(q3) /\ \A x \in In(q3) : x.kind = "clade_extinct"
    BY <1>2, OneOfEach
<1>4. /\ IsList(q4) /\ In(q4) = IF NewLeader(dominant, v) THEN {change} ELSE {}
      /\ IsList(q5) /\ \A x \in In(q5) : x.kind = "bridge_closed"
      /\ IsList(q6) /\ \A x \in In(q6) : x.kind = "revival"
    <2>1. Event("bridge_closed", NULL, NULL).kind = "bridge_closed"
          /\ Event("revival", NULL, NULL).kind = "revival"
        BY DEF Event
    <2>2. /\ IsList(q4) /\ In(q4) = IF NewLeader(dominant, v) THEN {change} ELSE {}
        BY PerhapsOne
    <2>3. IsList(q5) /\ In(q5) \subseteq {Event("bridge_closed", NULL, NULL)}
        BY PerhapsOne
    <2>4. IsList(q6) /\ In(q6) \subseteq {Event("revival", NULL, NULL)}
        BY PerhapsOne
    <2> QED BY <2>1, <2>2, <2>3, <2>4
<1>5. change.kind = "dominant_changed"
    BY DEF Event
<1> HIDE DEF q1, q2, q3, q4, q5, q6, change, events
<1>6. IsList(q1 \o q2) /\ In(q1 \o q2) = In(q1) \cup In(q2)
    BY <1>3, Joined
<1>7. IsList(q1 \o q2 \o q3) /\ In(q1 \o q2 \o q3) = In(q1) \cup In(q2) \cup In(q3)
    BY <1>3, <1>6, Joined
<1>8. IsList(q1 \o q2 \o q3 \o q4) /\ In(q1 \o q2 \o q3 \o q4) = In(q1) \cup In(q2) \cup In(q3) \cup In(q4)
    BY <1>4, <1>7, Joined
<1>9. /\ IsList(q1 \o q2 \o q3 \o q4 \o q5)
      /\ In(q1 \o q2 \o q3 \o q4 \o q5) = In(q1) \cup In(q2) \cup In(q3) \cup In(q4) \cup In(q5)
    BY <1>4, <1>8, Joined
<1>10. /\ IsList(events)
       /\ In(events) = In(q1) \cup In(q2) \cup In(q3) \cup In(q4) \cup In(q5) \cup In(q6)
    BY <1>1, <1>4, <1>9, Joined
<1>11. LeaderNews(events) = In(q4)
    BY <1>3, <1>4, <1>5, <1>10 DEF LeaderNews
<1> QED BY <1>4, <1>10, <1>11 DEF events, change

-----------------------------------------------------------------------------
(* What the detectors tell and remember. *)

\* What a story is of.
LEMMA StoryFields ==
    ASSUME NEW kind, NEW w, NEW clade, NEW other, NEW plate, NEW s, s = Story(kind, w, clade, other, plate)
    PROVE  /\ s.kind = kind /\ s.epoch = w.epoch /\ s.clade = clade /\ s.other = other /\ s.plate = plate
           /\ s = [kind |-> kind, epoch |-> w.epoch, clade |-> clade, other |-> other, plate |-> plate]
BY DEF Story

\* A new leader is told of at a full hour, against the one remembered.
LEMMA GuardsObserved ==
    ASSUME NEW mem, NEW w, NEW report
    PROVE  LET told_of == {s \in observe(mem, w, report).stories : s.kind = "changing_of_the_guard"}
               change == w.epoch % HOUR = 0 /\ mem.world_leader # NULL
                         /\ LeaderOf(w) \notin {NULL, mem.world_leader}
           IN told_of = IF change
                        THEN {Story("changing_of_the_guard", w, LeaderOf(w), mem.world_leader, NULL)}
                        ELSE {}
<1> DEFINE stories == observe(mem, w, report).stories
           guard == Story("changing_of_the_guard", w, LeaderOf(w), mem.world_leader, NULL)
           change == w.epoch % HOUR = 0 /\ mem.world_leader # NULL
                     /\ LeaderOf(w) \notin {NULL, mem.world_leader}
<1>1. GuardChanges(mem, w) = IF mem.world_leader # NULL /\ LeaderOf(w) \notin {NULL, mem.world_leader}
                             THEN {guard} ELSE {}
    BY DEF GuardChanges
<1>2. guard.kind = "changing_of_the_guard"
    BY StoryFields
<1>3. ASSUME NEW c PROVE \A s \in CladeStories(Track(mem, c), w, c) : s.kind # "changing_of_the_guard"
    <2>1. ASSUME NEW s \in CladeStories(Track(mem, c), w, c)
          PROVE  \/ s = Story("comeback", w, c, NULL, NULL)
                 \/ s = Story("last_of_its_kind", w, c, NULL, NULL)
                 \/ \E p : s = Story("crossing", w, c, NULL, p)
        BY DEF CladeStories
    <2> QED BY <2>1, StoryFields
<1>4. \A s \in Falls(Seen(mem, w), w, report) : s.kind = "fall"
    <2>1. \A s \in Falls(Seen(mem, w), w, report) : \E c : s = Story("fall", w, c, NULL, NULL)
        BY DEF Falls
    <2> QED BY <2>1, StoryFields
<1>5. \A s \in Invasions(mem, TracksAfter(mem, w, report), w) : s.kind = "invasion"
    <2>1. \A s \in Invasions(mem, TracksAfter(mem, w, report), w) :
             \E c, o, p : s = Story("invasion", w, c, o, p)
        BY DEF Invasions
    <2> QED BY <2>1, StoryFields
<1>6. \A c : Story("split_by_sea", w, c, NULL, NULL).kind = "split_by_sea"
    BY StoryFields
<1>7. Story("arms_race", w, NULL, NULL, NULL).kind = "arms_race"
    BY StoryFields
<1>8. /\ w.epoch % HOUR = 0 => GuardChanges(mem, w) \subseteq stories
      /\ \A s \in stories : s.kind = "changing_of_the_guard" =>
            w.epoch % HOUR = 0 /\ s \in GuardChanges(mem, w)
    <2> HIDE DEF guard
    <2>1. PICK seen : seen = observe(mem, w, report)
        OBVIOUS
    <2>2. /\ w.epoch % HOUR = 0 => GuardChanges(mem, w) \subseteq seen.stories
          /\ \A s \in seen.stories :
                    \/ \E c \in DOMAIN w.clades : s \in CladeStories(Track(mem, c), w, c)
                    \/ s \in Falls(Seen(mem, w), w, report)
                    \/ \E c \in Split(mem, w, report) : s = Story("split_by_sea", w, c, NULL, NULL)
                    \/ w.epoch % HOUR = 0 /\ s \in GuardChanges(mem, w)
                    \/ w.epoch % HOUR = 0 /\ s \in Invasions(mem, TracksAfter(mem, w, report), w)
                    \/ s = Story("arms_race", w, NULL, NULL, NULL)
        BY <2>1, Observed
    <2> QED BY <1>3, <1>4, <1>5, <1>6, <1>7, <2>1, <2>2
<1> HIDE DEF stories, guard
<1>9. {s \in stories : s.kind = "changing_of_the_guard"} = IF change THEN {guard} ELSE {}
    BY <1>1, <1>2, <1>8
<1> QED BY <1>9 DEF stories, guard

-----------------------------------------------------------------------------
(* The feed goes on from epoch to epoch. *)

\* The events of an epoch tell what its list tells, and those of other epochs are
\* what they were.
LEMMA ChangesAdded ==
    ASSUME NEW t, IsTables(t), NEW e, \A x \in t.events : x.epoch # e,
           NEW events, NEW all, all = WithEvents(t, e, events).events
    PROVE  /\ LeaderNews(events) # {} => \E x \in all : x.kind = "dominant_changed" /\ x.epoch = e
           /\ \A x \in all : x.kind = "dominant_changed" /\ x.epoch = e =>
                 \E y \in LeaderNews(events) : x.clade = y.clade /\ x.from = y.from
           /\ \A x \in all : x.epoch # e => x \in t.events
           /\ t.events \subseteq all
<1> DEFINE new(i) == [id |-> LastEventId(t) + i, epoch |-> e, kind |-> events[i].kind,
                      clade |-> events[i].clade, from |-> events[i].from]
           Added == {new(i) : i \in DOMAIN events}
<1>1. PICK q : q = WithEvents(t, e, events)
    OBVIOUS
<1>2. q = [t EXCEPT !.events = @ \cup Added, !.last_event = LastEventId(t) + Len(events)]
    BY <1>1 DEF WithEvents
<1>3. /\ \A x \in Added : \E i \in DOMAIN events :
             x.epoch = e /\ x.kind = events[i].kind /\ x.clade = events[i].clade /\ x.from = events[i].from
      /\ \A i \in DOMAIN events : new(i) \in Added /\ new(i).kind = events[i].kind /\ new(i).epoch = e
    OBVIOUS
<1> HIDE DEF Added, new
<1>4. all = t.events \cup Added
    BY <1>1, <1>2 DEF IsTables
<1>5. \A i \in DOMAIN events : events[i].kind = "dominant_changed" => events[i] \in LeaderNews(events)
    BY DEF LeaderNews, In
<1>6. \A y \in LeaderNews(events) : \E i \in DOMAIN events : y = events[i] /\ y.kind = "dominant_changed"
    BY DEF LeaderNews, In
<1> QED BY <1>3, <1>4, <1>5, <1>6

\* With the same events, stories and headers it says the same.
LEMMA SameHour ==
    ASSUME NEW t, NEW r, NEW e, NEW earlier,
           {x \in r.events : x.epoch = e} = {x \in t.events : x.epoch = e},
           {s \in r.stories : s.epoch = e} = {s \in t.stories : s.epoch = e},
           r.epochs[e] = t.epochs[e], r.epochs[e - HOUR] = t.epochs[e - HOUR],
           earlier # {} => r.epochs[Max(earlier)] = t.epochs[Max(earlier)],
           HourAgrees(t, e, earlier)
    PROVE  HourAgrees(r, e, earlier)
<1>1. ChangesAt(r, e) = ChangesAt(t, e)
    BY DEF ChangesAt
<1>2. GuardsAt(r, e) = GuardsAt(t, e)
    BY DEF GuardsAt
<1>3. /\ LeaderAt(r, e) = LeaderAt(t, e) /\ LeaderAt(r, e - HOUR) = LeaderAt(t, e - HOUR)
      /\ earlier # {} => LeaderAt(r, Max(earlier)) = LeaderAt(t, Max(earlier))
    BY DEF LeaderAt
<1> QED BY <1>1, <1>2, <1>3 DEF HourAgrees

\* The tables after an epoch.
LEMMA RecordedFields ==
    ASSUME NEW t, IsTables(t), NEW w, NEW v, NEW report, NEW events, NEW stories,
           NEW r, r = record_epoch(t, w, v, report, events, stories)
    PROVE  /\ r.epochs = Put(t.epochs, v.epoch, Header(v)) /\ r.stories = t.stories \cup stories
           /\ r.events = WithEvents(t, v.epoch, events).events
           /\ r.last_event = WithEvents(t, v.epoch, events).last_event
<1>1. PICK q : q = record_epoch(t, w, v, report, events, stories)
    OBVIOUS
<1>2. /\ IsTables(q)
      /\ q.epochs = Put(t.epochs, v.epoch, Header(v))
      /\ \/ q.muller = t.muller
         \/ q.muller = Put(t.muller, v.epoch, [c \in DOMAIN v.clades |-> v.clades[c].living])
      /\ q.events = WithEvents(t, v.epoch, events).events
      /\ q.last_event = WithEvents(t, v.epoch, events).last_event
      /\ q.stories = t.stories \cup stories
      /\ q.frames = Frames(t.frames, v.epoch)
      /\ q.organisms = OrganismsOf(t, w, v, report)
      /\ q.clades = name_new(RowsOf(t, v, report), All(v, report), v.epoch)
    BY <1>1, RecordFields
<1> QED BY <1>1, <1>2

\* The feed tells of a leader at a full hour as the headers do, and so do the
\* detectors, whose memory is of the last hour at which anyone led.
LEMMA FeedAfterEpoch ==
    ASSUME NEW w, Sound(w), NEW v, NEW report, Follows(w, v, report),
           NEW t, NothingLater(t, w.epoch, w.epoch), NEW mem, FeedGoesOn(t, w, mem), FeedHolds(t),
           NEW dominant, dominant = LeaderAt(t, LastHour(w.epoch)),
           NEW seen, seen = observe(mem, v, report),
           NEW r, r = record_epoch(t, w, v, report, Events(w, dominant, v, report), seen.stories)
    PROVE  FeedHolds(r) /\ FeedGoesOn(r, v, seen.detectors)
<1> DEFINE E == w.epoch
           F == v.epoch
           H == HoursOf(t)
           full == F % HOUR = 0 /\ Header(v).population > 0
           events == Events(w, dominant, v, report)
<1>1. /\ E \in Nat /\ F = E + 1 /\ Sound(v) /\ IsTables(t) /\ DOMAIN t.epochs = 0..E
      /\ \A e \in 0..E : LeaderAt(t, e) \in Nat
      /\ \A x \in t.events : x.epoch \in 0..E
      /\ \A s \in t.stories : s.epoch \in 0..E
    BY DEF Sound, Follows, FeedGoesOn, NothingLater
<1>2. /\ r.epochs = Put(t.epochs, F, Header(v)) /\ r.stories = t.stories \cup seen.stories
      /\ r.events = WithEvents(t, F, events).events
    <2>1. r = record_epoch(t, w, v, report, events, seen.stories)
        OBVIOUS
    <2>2. IsTables(t)
        BY <1>1
    <2>3. PICK some : some = events
        OBVIOUS
    <2>4. PICK stories : stories = seen.stories
        OBVIOUS
    <2> HIDE DEF events
    <2>5. r = record_epoch(t, w, v, report, some, stories)
        BY <2>1, <2>3, <2>4
    <2>6. /\ r.epochs = Put(t.epochs, v.epoch, Header(v)) /\ r.stories = t.stories \cup stories
          /\ r.events = WithEvents(t, v.epoch, some).events
        BY <2>2, <2>5, RecordedFields
    <2> QED BY <2>3, <2>4, <2>6 DEF F
<1>3. HOUR \in Nat \ {0} /\ NULL \notin Nat /\ DOMINANT_EVERY = HOUR
    BY StoriesAssumption, HistoryAssumption
<1>4. /\ Header(v).dominant \in Nat /\ Header(v).epoch = F
      /\ LeaderOf(v) # NULL => Header(v).dominant = LeaderOf(v)
      /\ Header(v).population > 0 <=> LeaderOf(v) # NULL
    <2>1. \A c \in DOMAIN v.clades : v.clades[c].living # 0
        BY DEF Follows
    <2> QED BY <1>1, <2>1, LeaderInHeader
<1> HIDE DEF E, F, events
<1>5. /\ DOMAIN r.epochs = 0..F /\ r.epochs[F] = Header(v)
      /\ \A e \in 0..E : r.epochs[e] = t.epochs[e] /\ LeaderAt(r, e) = LeaderAt(t, e)
      /\ LeaderAt(r, F) = Header(v).dominant
      /\ F \notin 0..E /\ 0..E \subseteq 0..F
    <2>1. 0..F = 0..E \cup {F} /\ F \notin 0..E
        BY <1>1
    <2> QED BY <1>1, <1>2, <2>1 DEF Put, LeaderAt
<1>6. H \subseteq 0..E /\ \A e \in H : e \in 1..E /\ e % HOUR = 0 /\ e # F /\ e < F
    BY <1>1 DEF HoursOf
<1>7. HoursOf(r) = IF full THEN H \cup {F} ELSE H
    <2>1. \A e \in 0..F : e \in 0..E \/ e = F
        BY <1>1
    <2>2. F > 0
        BY <1>1
    <2> QED BY <1>1, <1>5, <2>1, <2>2 DEF HoursOf
<1>8. IsList(events)
      /\ LeaderNews(events) = IF NewLeader(dominant, v)
              THEN {Event("dominant_changed", Header(v).dominant, dominant)} ELSE {}
    BY EventsOfEpoch DEF events
<1>9. /\ ChangesAt(r, F) # {} <=> NewLeader(dominant, v)
      /\ \A x \in ChangesAt(r, F) : x.clade = Header(v).dominant /\ x.from = dominant
      /\ \A x \in r.events : x.epoch # F => x \in t.events
      /\ t.events \subseteq r.events
    <2>1. \A x \in t.events : x.epoch # F
        BY <1>1
    <2>2. PICK all : all = WithEvents(t, F, events).events
        OBVIOUS
    <2>3. /\ LeaderNews(events) # {} => \E x \in all : x.kind = "dominant_changed" /\ x.epoch = F
          /\ \A x \in all : x.kind = "dominant_changed" /\ x.epoch = F =>
                \E y \in LeaderNews(events) : x.clade = y.clade /\ x.from = y.from
          /\ \A x \in all : x.epoch # F => x \in t.events
          /\ t.events \subseteq all
        BY <1>1, <2>1, <2>2, ChangesAdded
    <2>4. all = r.events
        BY <1>2, <2>2
    <2>5. \A y \in LeaderNews(events) : /\ NewLeader(dominant, v)
                                        /\ y.clade = Header(v).dominant /\ y.from = dominant
        BY <1>8 DEF Event
    <2>6. NewLeader(dominant, v) => LeaderNews(events) # {}
        BY <1>8
    <2> QED BY <2>3, <2>4, <2>5, <2>6 DEF ChangesAt
<1>10. \A s \in seen.stories : s.epoch = F
    BY StoriesAreOfTheEpoch DEF F
<1>11. ASSUME NEW e \in H PROVE HourAgrees(r, e, {h \in H : h < e})
    <2> DEFINE earlier == {h \in H : h < e}
    <2>1. e \in 1..E /\ e % HOUR = 0 /\ e # F
        BY <1>6
    <2>2. e - HOUR \in 0..E
        <3>1. e - 1 \in Nat /\ (e - 1) + 1 = e
            BY <1>1, <2>1
        <3>2. (e - 1) + 1 - HOUR \in Nat
            BY <2>1, <3>1, HourSteps
        <3> QED BY <1>1, <1>3, <2>1, <3>1, <3>2
    <2>3. {x \in r.events : x.epoch = e} = {x \in t.events : x.epoch = e}
        BY <1>9, <2>1
    <2>4. {s \in r.stories : s.epoch = e} = {s \in t.stories : s.epoch = e}
        BY <1>2, <1>10, <2>1
    <2>5. earlier # {} => Max(earlier) \in 0..E
        <3>1. earlier \in SUBSET (0..E)
            BY <1>6
        <3> HIDE DEF earlier
        <3> QED BY <1>1, <3>1, GreatestNumber
    <2>6. HourAgrees(t, e, earlier)
        BY DEF FeedHolds
    <2> HIDE DEF earlier
    <2>7. e \in 0..E
        BY <2>1
    <2>8. HourAgrees(r, e, earlier)
        BY <1>5, <2>2, <2>3, <2>4, <2>5, <2>6, <2>7, SameHour
    <2> QED BY <2>8 DEF earlier
<1>12. /\ mem.world_leader = IF H = {} THEN NULL ELSE LeaderAt(t, Max(H))
       /\ H # {} => Max(H) \in 0..E /\ mem.world_leader \in Nat
    <2>1. mem.world_leader = IF H = {} THEN NULL ELSE LeaderAt(t, Max(H))
        BY DEF FeedGoesOn
    <2>2. H # {} => Max(H) \in 0..E
        <3> HIDE DEF H
        <3> QED BY <1>1, <1>6, GreatestNumber
    <2> HIDE DEF H
    <2> QED BY <1>1, <2>1, <2>2
<1>13. ASSUME full PROVE HourAgrees(r, F, H)
    <2>1. LastHour(E) = F - HOUR /\ F - HOUR \in 0..E
        <3>1. E + 1 - HOUR \in Nat /\ LastHour(E) = E + 1 - HOUR
            BY <1>1, <1>13, HourSteps
        <3> QED BY <1>1, <1>3, <3>1
    <2>2. dominant = LeaderAt(r, F - HOUR)
        BY <1>5, <2>1 DEF E
    <2>3. NewLeader(dominant, v) <=> LeaderAt(r, F) # LeaderAt(r, F - HOUR)
        BY <1>3, <1>4, <1>5, <1>13, <2>2 DEF NewLeader
    <2> DEFINE change == mem.world_leader # NULL /\ LeaderOf(v) \notin {NULL, mem.world_leader}
               guard == Story("changing_of_the_guard", v, LeaderOf(v), mem.world_leader, NULL)
    <2>4. GuardsAt(r, F) = IF change THEN {guard} ELSE {}
        <3>1. {s \in seen.stories : s.kind = "changing_of_the_guard"} = IF change THEN {guard} ELSE {}
            <4> HIDE DEF guard
            <4>1. {s \in seen.stories : s.kind = "changing_of_the_guard"}
                    = IF v.epoch % HOUR = 0 /\ mem.world_leader # NULL
                         /\ LeaderOf(v) \notin {NULL, mem.world_leader}
                      THEN {guard} ELSE {}
                BY GuardsObserved DEF guard
            <4> QED BY <1>13, <4>1 DEF F
        <3>2. \A s \in t.stories : s.epoch # F
            BY <1>1
        <3> HIDE DEF change, guard
        <3>3. \A s \in seen.stories : s.kind = "changing_of_the_guard" <=> change /\ s = guard
            BY <3>1
        <3>4. change => guard \in seen.stories
            BY <3>1
        <3> QED BY <1>2, <1>10, <3>2, <3>3, <3>4 DEF GuardsAt
    <2>5. guard.other = mem.world_leader
        BY StoryFields
    <2> HIDE DEF guard, H
    <2>6. H # {} => LeaderAt(r, Max(H)) = mem.world_leader
        BY <1>5, <1>12
    <2>7. change <=> H # {} /\ LeaderAt(r, F) # LeaderAt(r, Max(H))
        BY <1>3, <1>4, <1>5, <1>12, <1>13, <2>6
    <2>8. /\ GuardsAt(r, F) # {} <=> H # {} /\ LeaderAt(r, F) # LeaderAt(r, Max(H))
          /\ \A s \in GuardsAt(r, F) : s.other = LeaderAt(r, Max(H))
        BY <2>4, <2>5, <2>6, <2>7
    <2>9. /\ ChangesAt(r, F) # {} <=> LeaderAt(r, F) # LeaderAt(r, F - HOUR)
          /\ \A x \in ChangesAt(r, F) : x.clade = LeaderAt(r, F) /\ x.from = LeaderAt(r, F - HOUR)
        BY <1>5, <1>9, <2>2, <2>3
    <2> QED BY <2>8, <2>9 DEF HourAgrees
<1>14. FeedHolds(r)
    <2>1. ASSUME NEW e \in HoursOf(r) PROVE HourAgrees(r, e, {h \in HoursOf(r) : h < e})
        <3>1. CASE e \in H
            <4>1. {h \in HoursOf(r) : h < e} = {h \in H : h < e}
                <5>1. ~(F < e)
                    BY <1>1, <1>6, <3>1
                <5> HIDE DEF H, full
                <5> QED BY <1>7, <5>1
            <4> QED BY <1>11, <3>1, <4>1
        <3>2. CASE e \notin H
            <4>1. full /\ e = F
                BY <1>7, <3>2
            <4>2. {h \in HoursOf(r) : h < e} = H
                <5>1. ~(F < F) /\ \A h \in H : h < F
                    BY <1>1, <1>6
                <5> HIDE DEF H, full
                <5> QED BY <1>7, <4>1, <5>1
            <4> QED BY <1>13, <4>1, <4>2
        <3> QED BY <3>1, <3>2
    <2> QED BY <2>1 DEF FeedHolds
<1>15. seen.detectors.world_leader = IF full THEN Header(v).dominant ELSE mem.world_leader
    <2>1. seen.detectors.world_leader = IF v.epoch % HOUR = 0 /\ LeaderOf(v) # NULL THEN LeaderOf(v)
                                        ELSE mem.world_leader
        BY Observed
    <2> QED BY <1>4, <2>1 DEF F
<1>16. seen.detectors.world_leader
         = IF HoursOf(r) = {} THEN NULL ELSE LeaderAt(r, Max(HoursOf(r)))
    <2>1. CASE full
        <3>1. Max(HoursOf(r)) = F
            <4> DEFINE S == H \cup {F}
            <4>1. S \in SUBSET (0..F) /\ S # {} /\ F \in Nat
                BY <1>1, <1>5, <1>6
            <4>2. \A y \in S : y <= F
                BY <1>1, <1>6
            <4>3. F \in S
                OBVIOUS
            <4> HIDE DEF S
            <4>4. Max(S) \in S /\ F <= Max(S)
                BY <4>1, <4>3, GreatestNumber
            <4>5. Max(S) <= F /\ Max(S) \in Nat
                <5>1. Max(S) \in 0..F
                    BY <4>1, <4>4
                <5> QED BY <4>1, <4>2, <4>4, <5>1
            <4>6. Max(S) = F
                BY <4>1, <4>4, <4>5
            <4> QED BY <1>7, <2>1, <4>6 DEF S
        <3>2. HoursOf(r) # {}
            BY <1>7, <2>1
        <3> HIDE DEF H
        <3> QED BY <1>5, <1>15, <2>1, <3>1, <3>2
    <2>2. CASE ~full
        <3>1. HoursOf(r) = H
            BY <1>7, <2>2
        <3> HIDE DEF H
        <3>2. H # {} => LeaderAt(r, Max(H)) = LeaderAt(t, Max(H))
            BY <1>5, <1>12
        <3> QED BY <1>12, <1>15, <2>2, <3>1, <3>2
    <2> QED BY <2>1, <2>2
<1>17. FeedGoesOn(r, v, seen.detectors)
    <2>1. \A e \in 0..F : LeaderAt(r, e) \in Nat
        <3>1. \A e \in 0..F : e \in 0..E \/ e = F
            BY <1>1
        <3> QED BY <1>1, <1>4, <1>5, <3>1
    <2> HIDE DEF full
    <2> QED BY <1>5, <1>16, <2>1 DEF FeedGoesOn, F
<1> QED BY <1>14, <1>17

-----------------------------------------------------------------------------
(* Stories are told once. *)

\* A track knows as much as another.
KnowsMore(t, u) ==
    /\ t.comeback_told => u.comeback_told
    /\ t.crossed \subseteq u.crossed
    /\ t.split_told => u.split_told

\* A track that does not know of a story.
NotTold(t, s) ==
    /\ s.kind = "comeback" => ~t.comeback_told
    /\ s.kind = "crossing" => s.plate \notin t.crossed
    /\ s.kind = "split_by_sea" => ~t.split_told

\* A new track is a track.
LEMMA NewTrack == IsTrack(CladeTrack)
BY DEF CladeTrack, IsTrack

\* Following a clade keeps what is known of it.
LEMMA FollowedTrack ==
    ASSUME NEW t, IsTrack(t), NEW w, NEW c, NEW f, f = Followed(t, w, c)
    PROVE  /\ IsTrack(f) /\ KnowsMore(t, f) /\ f.split_told = t.split_told
<1> DEFINE living == w.clades[c].living
           big == t.was_big \/ living >= COMEBACK_WAS
           fell == t.fell \/ (big /\ living <= COMEBACK_LOW)
           back == t.comeback_told \/ (fell /\ living >= COMEBACK_BACK)
           last == (t.last_told \/ IsLast(w.clades[c])) /\ living <= 1
           home == HomeOf(t, w, c)
           abroad == Abroad(t, w, c)
           crossed == t.crossed \cup Crossed(t, w, c)
<1>1. PICK b : b = Back(t, living)
    OBVIOUS
<1>2. PICK x \in BOOLEAN : x = big
    OBVIOUS
<1>3. PICK y \in BOOLEAN : y = fell
    OBVIOUS
<1>4. PICK z \in BOOLEAN : z = back
    OBVIOUS
<1>5. PICK u \in BOOLEAN : u = last
    OBVIOUS
<1>6. b = [t EXCEPT !.was_big = x, !.fell = y, !.comeback_told = z]
    BY <1>1, <1>2, <1>3, <1>4 DEF Back
<1>7. t.comeback_told => z
    BY <1>4
<1> HIDE DEF big, fell, back
<1>8. b = [home |-> t.home, was_big |-> x, fell |-> y, comeback_told |-> z, last_told |-> t.last_told,
           split_told |-> t.split_told, abroad |-> t.abroad, crossed |-> t.crossed]
    BY <1>6 DEF IsTrack
<1>9. f = [b EXCEPT !.home = home, !.abroad = abroad, !.last_told = u, !.crossed = crossed]
    <2>1. f = [b EXCEPT !.home = home, !.abroad = abroad,
                        !.last_told = (@ \/ IsLast(w.clades[c])) /\ living <= 1,
                        !.crossed = @ \cup Crossed(t, w, c)]
        BY <1>1 DEF Followed
    <2>2. b.last_told = t.last_told /\ b.crossed = t.crossed
        BY <1>8
    <2>3. f = [b EXCEPT !.home = home, !.abroad = abroad, !.last_told = last, !.crossed = crossed]
        BY <2>1, <2>2
    <2> HIDE DEF last, home, abroad, crossed
    <2> QED BY <1>5, <2>3
<1> HIDE DEF last, home, abroad, crossed
<1>10. f = [home |-> home, was_big |-> x, fell |-> y, comeback_told |-> z, last_told |-> u,
            split_told |-> t.split_told, abroad |-> abroad, crossed |-> crossed]
    BY <1>8, <1>9
<1>11. f.split_told = t.split_told /\ f.comeback_told = z /\ f.crossed = crossed
    BY <1>10
<1>12. IsTrack(f)
    <2>1. t.split_told \in BOOLEAN
        BY DEF IsTrack
    <2> QED BY <1>2, <1>3, <1>4, <1>5, <1>10, <2>1 DEF IsTrack
<1>13. t.crossed \subseteq crossed
    BY DEF crossed
<1> QED BY <1>7, <1>11, <1>12, <1>13 DEF KnowsMore

\* After an epoch there is a track of every clade that lives, and it knows what
\* the one before knew.
LEMMA TracksGoOn ==
    ASSUME NEW mem, \A c \in DOMAIN mem.clades : IsTrack(mem.clades[c]),
           NEW v, NEW report, DOMAIN v.clades \cap DOMAIN report.extinct = {},
           NEW tracks, tracks = TracksAfter(mem, v, report)
    PROVE  /\ \A c \in DOMAIN tracks : IsTrack(tracks[c])
           /\ \A c \in DOMAIN v.clades :
                 /\ c \in DOMAIN tracks /\ KnowsMore(Followed(Track(mem, c), v, c), tracks[c])
                 /\ tracks[c].last_told = Followed(Track(mem, c), v, c).last_told
           /\ \A c \in Split(mem, v, report) : c \in DOMAIN tracks => tracks[c].split_told
<1> DEFINE seen == Seen(mem, v)
           still == Still(mem, v, report)
           split == Split(mem, v, report)
<1>1. \A c : IsTrack(Track(mem, c))
    BY NewTrack DEF Track
<1>2. \A c : IsTrack(Followed(Track(mem, c), v, c))
    BY <1>1, FollowedTrack
<1>3. DOMAIN still = (DOMAIN mem.clades \cup DOMAIN v.clades) \ DOMAIN report.extinct
    BY DEF Still, Seen
<1>4. \A c \in DOMAIN still : still[c] = IF c \in DOMAIN v.clades THEN Followed(Track(mem, c), v, c)
                                         ELSE mem.clades[c]
    BY DEF Still, Seen
<1>5. \A c \in DOMAIN still : IsTrack(still[c])
    BY <1>2, <1>3, <1>4
<1>6. /\ DOMAIN tracks = DOMAIN still
      /\ \A c \in DOMAIN tracks :
            tracks[c] = IF c \in split THEN [still[c] EXCEPT !.split_told = TRUE] ELSE still[c]
    BY DEF TracksAfter
<1> HIDE DEF still, split
<1>7. ASSUME NEW t, IsTrack(t), NEW u, u = [t EXCEPT !.split_told = TRUE]
      PROVE  IsTrack(u) /\ KnowsMore(t, u) /\ u.last_told = t.last_told /\ u.split_told
    <2>1. u = [home |-> t.home, was_big |-> t.was_big, fell |-> t.fell,
               comeback_told |-> t.comeback_told, last_told |-> t.last_told, split_told |-> TRUE,
               abroad |-> t.abroad, crossed |-> t.crossed]
        BY <1>7 DEF IsTrack
    <2>2. IsTrack(u)
        BY <1>7, <2>1 DEF IsTrack
    <2> QED BY <2>1, <2>2 DEF KnowsMore
<1>8. ASSUME NEW c \in DOMAIN tracks
      PROVE  /\ IsTrack(tracks[c]) /\ KnowsMore(still[c], tracks[c])
             /\ tracks[c].last_told = still[c].last_told
             /\ c \in split => tracks[c].split_told
    <2>1. CASE c \in split
        BY <1>5, <1>6, <1>7, <2>1
    <2>2. CASE c \notin split
        BY <1>5, <1>6, <2>2 DEF KnowsMore
    <2> QED BY <2>1, <2>2
<1>9. ASSUME NEW c \in DOMAIN v.clades
      PROVE  c \in DOMAIN tracks /\ still[c] = Followed(Track(mem, c), v, c)
    BY <1>3, <1>4, <1>6
<1> QED BY <1>8, <1>9 DEF split

\* What a new story of a clade says was not known of it, and is known after it.
Fresh(s, mem, tracks, v, report) ==
    /\ s.kind = "fall" => /\ s.clade \in DOMAIN report.extinct
                          /\ s.clade \in DOMAIN mem.clades => ~mem.clades[s.clade].last_told
    /\ s.kind # "fall" => /\ s.clade \in DOMAIN v.clades
                          /\ NotTold(Track(mem, s.clade), s)
                          /\ Remembers(tracks[s.clade], s, v.epoch)

LEMMA NewStories ==
    ASSUME NEW w, NEW v, NEW report, Follows(w, v, report),
           NEW mem, \A c \in DOMAIN mem.clades : IsTrack(mem.clades[c]),
           NEW tracks, tracks = TracksAfter(mem, v, report),
           NEW s \in observe(mem, v, report).stories, s.kind \in AboutAClade
    PROVE  /\ s = [kind |-> s.kind, epoch |-> v.epoch, clade |-> s.clade, other |-> NULL, plate |-> s.plate]
           /\ Fresh(s, mem, tracks, v, report)
<1> DEFINE now(c) == Followed(Track(mem, c), v, c)
<1>1. DOMAIN v.clades \cap DOMAIN report.extinct = {} /\ \A o \in v.organisms : o.clade \in DOMAIN v.clades
    BY DEF Follows, Sound
<1>2. /\ \A c \in DOMAIN v.clades :
            /\ c \in DOMAIN tracks /\ KnowsMore(now(c), tracks[c]) /\ tracks[c].last_told = now(c).last_told
      /\ \A c \in Split(mem, v, report) : c \in DOMAIN tracks => tracks[c].split_told
    BY <1>1, TracksGoOn
<1>3. \A c : IsTrack(Track(mem, c)) /\ now(c).split_told = Track(mem, c).split_told
    <2>1. \A c : IsTrack(Track(mem, c))
        BY NewTrack DEF Track
    <2> QED BY <2>1, FollowedTrack
<1>4. ASSUME NEW c \in DOMAIN v.clades, s \in CladeStories(Track(mem, c), v, c)
      PROVE  \/ s = Story("comeback", v, c, NULL, NULL)
                /\ now(c).comeback_told /\ ~Track(mem, c).comeback_told
             \/ s = Story("last_of_its_kind", v, c, NULL, NULL) /\ now(c).last_told
             \/ \E p \in now(c).crossed \ Track(mem, c).crossed : s = Story("crossing", v, c, NULL, p)
    BY <1>4 DEF CladeStories
<1> HIDE DEF now
<1>5. ASSUME NEW c \in DOMAIN v.clades, s \in CladeStories(Track(mem, c), v, c)
      PROVE  /\ s = [kind |-> s.kind, epoch |-> v.epoch, clade |-> s.clade, other |-> NULL, plate |-> s.plate]
             /\ Fresh(s, mem, tracks, v, report)
    <2>1. CASE s = Story("comeback", v, c, NULL, NULL)
               /\ now(c).comeback_told /\ ~Track(mem, c).comeback_told
        <3>1. tracks[c].comeback_told
            BY <1>2, <2>1 DEF KnowsMore
        <3> QED BY <2>1, <3>1 DEF Fresh, NotTold, Remembers, Story
    <2>2. CASE s = Story("last_of_its_kind", v, c, NULL, NULL) /\ now(c).last_told
        <3>1. tracks[c].last_told
            BY <1>2, <2>2
        <3> QED BY <2>2, <3>1 DEF Fresh, NotTold, Remembers, Story
    <2>3. ASSUME NEW p \in now(c).crossed \ Track(mem, c).crossed, s = Story("crossing", v, c, NULL, p)
          PROVE  /\ s = [kind |-> s.kind, epoch |-> v.epoch, clade |-> s.clade, other |-> NULL,
                         plate |-> s.plate]
                 /\ Fresh(s, mem, tracks, v, report)
        <3>1. p \in tracks[c].crossed
            BY <1>2, <2>3 DEF KnowsMore
        <3> QED BY <2>3, <3>1 DEF Fresh, NotTold, Remembers, Story
    <2> QED BY <1>4, <1>5, <2>1, <2>2, <2>3
<1>6. ASSUME s \in Falls(Seen(mem, v), v, report)
      PROVE  /\ s = [kind |-> s.kind, epoch |-> v.epoch, clade |-> s.clade, other |-> NULL, plate |-> s.plate]
             /\ Fresh(s, mem, tracks, v, report)
    <2>1. PICK c \in DOMAIN report.extinct :
             /\ s = Story("fall", v, c, NULL, NULL)
             /\ ~(c \in DOMAIN Seen(mem, v) /\ Seen(mem, v)[c].last_told)
        BY <1>6 DEF Falls
    <2>2. c \in DOMAIN mem.clades => c \in DOMAIN Seen(mem, v) /\ Seen(mem, v)[c] = mem.clades[c]
        BY <1>1 DEF Seen
    <2> QED BY <2>1, <2>2 DEF Fresh, Story
<1>7. ASSUME NEW c \in Split(mem, v, report), s = Story("split_by_sea", v, c, NULL, NULL)
      PROVE  /\ s = [kind |-> s.kind, epoch |-> v.epoch, clade |-> s.clade, other |-> NULL, plate |-> s.plate]
             /\ Fresh(s, mem, tracks, v, report)
    <2>1. c \in {o.clade : o \in v.organisms} /\ ~Still(mem, v, report)[c].split_told
        BY DEF Split, SplitNow
    <2>2. c \in DOMAIN v.clades
        BY <1>1, <2>1
    <2>3. Still(mem, v, report)[c] = now(c)
        BY <1>1, <2>2 DEF Still, Seen, now
    <2>4. ~Track(mem, c).split_told /\ tracks[c].split_told
        BY <1>2, <1>3, <2>1, <2>2, <2>3
    <2> QED BY <1>7, <2>2, <2>4 DEF Fresh, NotTold, Remembers, Story
<1>8. \/ \E c \in DOMAIN v.clades : s \in CladeStories(Track(mem, c), v, c)
      \/ s \in Falls(Seen(mem, v), v, report)
      \/ \E c \in Split(mem, v, report) : s = Story("split_by_sea", v, c, NULL, NULL)
    <2>1. \A t \in GuardChanges(mem, v) : t.kind = "changing_of_the_guard"
        BY StoryFields DEF GuardChanges
    <2>2. \A t \in Invasions(mem, TracksAfter(mem, v, report), v) : t.kind = "invasion"
        <3>1. \A t \in Invasions(mem, TracksAfter(mem, v, report), v) :
                 \E c, o, p : t = Story("invasion", v, c, o, p)
            BY DEF Invasions
        <3> QED BY <3>1, StoryFields
    <2>3. Story("arms_race", v, NULL, NULL, NULL).kind = "arms_race"
        BY StoryFields
    <2>4. PICK seen : seen = observe(mem, v, report)
        OBVIOUS
    <2>5. \A x \in seen.stories :
             \/ \E c \in DOMAIN v.clades : x \in CladeStories(Track(mem, c), v, c)
             \/ x \in Falls(Seen(mem, v), v, report)
             \/ \E c \in Split(mem, v, report) : x = Story("split_by_sea", v, c, NULL, NULL)
             \/ v.epoch % HOUR = 0 /\ x \in GuardChanges(mem, v)
             \/ v.epoch % HOUR = 0 /\ x \in Invasions(mem, TracksAfter(mem, v, report), v)
             \/ x = Story("arms_race", v, NULL, NULL, NULL)
        BY <2>4, Observed
    <2> QED BY <2>1, <2>2, <2>3, <2>4, <2>5 DEF AboutAClade
<1> QED BY <1>5, <1>6, <1>7, <1>8

\* Comebacks, crossings and splits of a clade are told once, and the last of its
\* kind does not fall the epoch after.
LEMMA StoriesAfterEpoch ==
    ASSUME NEW w, Sound(w), NEW v, NEW report, Follows(w, v, report),
           NEW t, NothingLater(t, w.epoch, w.epoch), NEW mem, StoriesGoOn(t, w, mem), ToldOnce(t),
           NEW seen, seen = observe(mem, v, report),
           NEW r, r.stories = t.stories \cup seen.stories
    PROVE  ToldOnce(r) /\ StoriesGoOn(r, v, seen.detectors)
<1> DEFINE E == w.epoch
           F == v.epoch
           tracks == TracksAfter(mem, v, report)
           Known(s) == s.clade \in DOMAIN mem.clades /\ Remembers(mem.clades[s.clade], s, E)
<1>1. /\ E \in Nat /\ F = E + 1 /\ w.next_clade_id \in Nat \ {0} /\ v.next_clade_id \in Nat
      /\ w.next_clade_id <= v.next_clade_id
      /\ DOMAIN w.clades \subseteq 1..(w.next_clade_id - 1)
      /\ \A s \in t.stories : s.epoch \in 0..E
    BY DEF Sound, Follows, Genealogy, NothingLater
<1>2. /\ DOMAIN v.clades \cup DOMAIN report.extinct
           = DOMAIN w.clades \cup w.next_clade_id..(v.next_clade_id - 1)
      /\ DOMAIN v.clades \cap DOMAIN report.extinct = {}
    <2>1. DOMAIN All(v, report) = DOMAIN v.clades \cup DOMAIN report.extinct
        BY DEF All
    <2> QED BY <2>1 DEF Follows, Genealogy
<1>3. /\ \A c \in DOMAIN mem.clades : IsTrack(mem.clades[c])
      /\ \A s \in t.stories : s.kind \in AboutAClade =>
            /\ s.clade \in 1..(w.next_clade_id - 1)
            /\ s.kind = "fall" => s.clade \notin DOMAIN w.clades
            /\ s.clade \in DOMAIN w.clades => Known(s)
    BY DEF StoriesGoOn
<1>4. ASSUME NEW s \in seen.stories, s.kind \in AboutAClade
      PROVE  /\ s = [kind |-> s.kind, epoch |-> F, clade |-> s.clade, other |-> NULL, plate |-> s.plate]
             /\ Fresh(s, mem, tracks, v, report)
    BY <1>3, <1>4, NewStories
<1>5. /\ \A c \in DOMAIN tracks : IsTrack(tracks[c])
      /\ \A c \in DOMAIN v.clades :
            /\ c \in DOMAIN tracks /\ KnowsMore(Followed(Track(mem, c), v, c), tracks[c])
    BY <1>2, <1>3, TracksGoOn
<1>6. \A c \in DOMAIN v.clades : KnowsMore(Track(mem, c), tracks[c])
    <2>1. \A c : IsTrack(Track(mem, c))
        BY <1>3, NewTrack DEF Track
    <2>2. \A c : KnowsMore(Track(mem, c), Followed(Track(mem, c), v, c))
        BY <2>1, FollowedTrack
    <2> QED BY <1>5, <2>2 DEF KnowsMore
<1>7. seen.detectors.clades = tracks
    BY Observed
<1> HIDE DEF E, F, tracks
<1>8. \A c \in 1..(w.next_clade_id - 1) :
         /\ c \in DOMAIN v.clades => c \in DOMAIN w.clades
         /\ c \in DOMAIN report.extinct => c \in DOMAIN w.clades
    <2>1. \A c \in 1..(w.next_clade_id - 1) : c \notin w.next_clade_id..(v.next_clade_id - 1)
        BY <1>1
    <2> QED BY <1>2, <2>1
<1>9. \A c \in DOMAIN v.clades \cup DOMAIN report.extinct : c \in 1..(v.next_clade_id - 1)
    <2>1. 1..(w.next_clade_id - 1) \subseteq 1..(v.next_clade_id - 1)
        BY <1>1
    <2>2. w.next_clade_id..(v.next_clade_id - 1) \subseteq 1..(v.next_clade_id - 1)
        BY <1>1
    <2> QED BY <1>1, <1>2, <2>1, <2>2
\* Of a clade that lives, what was told is known.
<1>10. ASSUME NEW s \in t.stories, s.kind \in AboutAClade, s.clade \in DOMAIN v.clades
       PROVE  Known(s) /\ Track(mem, s.clade) = mem.clades[s.clade] /\ s.kind # "fall"
    BY <1>3, <1>8, <1>10 DEF Track
<1>11. ASSUME NEW s \in t.stories, NEW o \in seen.stories, s.kind = o.kind, Once(s.kind)
       PROVE  s.clade # o.clade \/ s.plate # o.plate
    <2> SUFFICES ASSUME s.clade = o.clade, s.plate = o.plate PROVE FALSE
        OBVIOUS
    <2>1. s.kind \in AboutAClade /\ o.kind \in AboutAClade /\ o.kind # "fall"
        BY <1>11 DEF Once, AboutAClade
    <2>2. o.clade \in DOMAIN v.clades /\ NotTold(Track(mem, o.clade), o)
        BY <1>4, <2>1 DEF Fresh
    <2>3. Known(s) /\ Track(mem, s.clade) = mem.clades[s.clade]
        BY <1>10, <2>1, <2>2
    <2> QED BY <1>11, <2>2, <2>3 DEF Remembers, NotTold, Once
<1>12. ASSUME NEW s \in seen.stories, NEW o \in seen.stories, s.kind = o.kind, Once(s.kind), s # o
       PROVE  s.clade # o.clade \/ s.plate # o.plate
    <2>1. s.kind \in AboutAClade /\ o.kind \in AboutAClade
        BY <1>12 DEF Once, AboutAClade
    <2> QED BY <1>4, <1>12, <2>1
<1>13. ASSUME NEW s \in r.stories, NEW o \in r.stories, s # o, s.kind = o.kind, Once(s.kind)
       PROVE  s.clade # o.clade \/ s.plate # o.plate
    <2>1. CASE s \in t.stories /\ o \in t.stories
        BY <1>13, <2>1 DEF ToldOnce, Once
    <2>2. CASE s \in t.stories /\ o \in seen.stories
        BY <1>11, <1>13, <2>2
    <2>3. CASE s \in seen.stories /\ o \in t.stories
        BY <1>11, <1>13, <2>3
    <2>4. CASE s \in seen.stories /\ o \in seen.stories
        BY <1>12, <1>13, <2>4
    <2> QED BY <2>1, <2>2, <2>3, <2>4
<1>14. ASSUME NEW s \in r.stories, NEW o \in r.stories,
              s.kind = "last_of_its_kind", o.kind = "fall", s.clade = o.clade
       PROVE  o.epoch > s.epoch + 1
    <2>1. s.kind \in AboutAClade /\ o.kind \in AboutAClade /\ s.kind # "fall"
        BY <1>14 DEF AboutAClade
    <2>2. CASE s \in t.stories /\ o \in t.stories
        BY <1>14, <2>2 DEF ToldOnce
    <2>3. CASE s \in seen.stories /\ o \in t.stories
        <3>1. s.clade \in DOMAIN v.clades
            BY <1>4, <2>1, <2>3 DEF Fresh
        <3> QED BY <1>10, <1>14, <2>1, <2>3, <3>1
    <2>4. CASE s \in seen.stories /\ o \in seen.stories
        <3>1. s.clade \in DOMAIN v.clades /\ o.clade \in DOMAIN report.extinct
            BY <1>4, <1>14, <2>1, <2>4 DEF Fresh
        <3> QED BY <1>2, <1>14, <3>1
    <2>5. CASE s \in t.stories /\ o \in seen.stories
        <3>1. /\ o.epoch = F /\ o.clade \in DOMAIN report.extinct
              /\ o.clade \in DOMAIN mem.clades => ~mem.clades[o.clade].last_told
            <4>1. o = [kind |-> o.kind, epoch |-> F, clade |-> o.clade, other |-> NULL, plate |-> o.plate]
                BY <1>4, <2>1, <2>5
            <4>2. Fresh(o, mem, tracks, v, report)
                BY <1>4, <2>1, <2>5
            <4> QED BY <1>14, <4>1, <4>2 DEF Fresh
        <3>2. s.clade \in DOMAIN w.clades /\ Known(s)
            BY <1>3, <1>8, <1>14, <2>1, <2>5, <3>1
        <3>3. s.epoch # E
            BY <1>14, <3>1, <3>2 DEF Remembers
        <3>4. s.epoch \in 0..E
            BY <1>1, <2>5
        <3> QED BY <1>1, <3>1, <3>3, <3>4
    <2> QED BY <2>2, <2>3, <2>4, <2>5
<1>15. ToldOnce(r)
    BY <1>13, <1>14 DEF ToldOnce, Once
<1>16. ASSUME NEW s \in r.stories, s.kind \in AboutAClade
       PROVE  /\ s.clade \in 1..(v.next_clade_id - 1)
              /\ s.kind = "fall" => s.clade \notin DOMAIN v.clades
              /\ s.clade \in DOMAIN v.clades =>
                    s.clade \in DOMAIN tracks /\ Remembers(tracks[s.clade], s, F)
    <2>1. CASE s \in t.stories
        <3>1. s.clade \in 1..(v.next_clade_id - 1)
            <4>1. s.clade \in 1..(w.next_clade_id - 1)
                BY <1>3, <1>16, <2>1
            <4> QED BY <1>1, <4>1
        <3>2. s.epoch # F
            BY <1>1, <2>1
        <3>3. ASSUME s.clade \in DOMAIN v.clades
              PROVE  Remembers(tracks[s.clade], s, F) /\ s.kind # "fall"
            <4>1. Known(s) /\ Track(mem, s.clade) = mem.clades[s.clade] /\ s.kind # "fall"
                BY <1>10, <1>16, <2>1, <3>3
            <4>2. KnowsMore(mem.clades[s.clade], tracks[s.clade])
                BY <1>6, <3>3, <4>1
            <4> QED BY <3>2, <4>1, <4>2 DEF Remembers, KnowsMore
        <3> QED BY <1>5, <3>1, <3>3
    <2>2. CASE s \in seen.stories
        <3>1. Fresh(s, mem, tracks, v, report)
            BY <1>4, <1>16, <2>2
        <3>2. s.kind = "fall" => s.clade \in DOMAIN report.extinct
            BY <3>1 DEF Fresh
        <3>3. s.kind # "fall" => s.clade \in DOMAIN v.clades /\ Remembers(tracks[s.clade], s, F)
            BY <3>1 DEF Fresh, F
        <3> QED BY <1>2, <1>5, <1>9, <3>2, <3>3
    <2> QED BY <2>1, <2>2
<1>17. StoriesGoOn(r, v, seen.detectors)
    BY <1>5, <1>7, <1>16 DEF StoriesGoOn, F
<1> QED BY <1>15, <1>17

-----------------------------------------------------------------------------
(* The numbers of events. *)

\* New events have the next numbers, and those before keep theirs.
LEMMA NumbersGoOn ==
    ASSUME NEW t, IsTables(t), EventsNumbered(t), NEW e, NEW events, IsList(events),
           NEW r, r.events = WithEvents(t, e, events).events,
           r.last_event = WithEvents(t, e, events).last_event
    PROVE  /\ EventsNumbered(r) /\ t.last_event <= r.last_event
           /\ \A x \in r.events : x \in t.events \/ x.id > t.last_event
<1> DEFINE new(i) == [id |-> t.last_event + i, epoch |-> e, kind |-> events[i].kind,
                      clade |-> events[i].clade, from |-> events[i].from]
           Added == {new(i) : i \in DOMAIN events}
           last == t.last_event + Len(events)
<1>1. PICK n \in Nat : n = Len(events) /\ DOMAIN events = 1..n
    BY ListLength
<1>2. PICK q : q = WithEvents(t, e, events)
    OBVIOUS
<1>3. q = [t EXCEPT !.events = @ \cup Added, !.last_event = last]
    BY <1>2 DEF WithEvents, LastEventId
<1>4. t.last_event \in Nat /\ last = t.last_event + n
    BY <1>1 DEF EventsNumbered
<1>5. \A x \in Added : x.id \in 1..last /\ x.id > t.last_event
    BY <1>1, <1>4
<1>6. IsFiniteSet(Added)
    <2>1. IsFiniteSet(1..n)
        <3>1. 1 \in Int /\ n \in Int
            OBVIOUS
        <3> QED BY <3>1, FS_Interval
    <2>2. PICK f : f = [i \in 1..n |-> new(i)]
        OBVIOUS
    <2>3. f \in Surjection(1..n, Added)
        <3>1. f \in [1..n -> Added]
            BY <1>1, <2>2
        <3>2. \A x \in Added : \E i \in 1..n : f[i] = x
            BY <1>1, <2>2
        <3> HIDE DEF Added, new
        <3> QED BY <3>1, <3>2 DEF Surjection
    <2> HIDE DEF Added, new
    <2> QED BY <2>1, <2>3, FS_Surjection
<1> HIDE DEF Added, last
<1>7. q.events = t.events \cup Added /\ q.last_event = last
    BY <1>3 DEF IsTables
<1>8. IsFiniteSet(t.events \cup Added)
    BY <1>6, FS_Union DEF EventsNumbered
<1>9. r.events = t.events \cup Added /\ r.last_event = last
    BY <1>2, <1>7
<1>10. \A x \in t.events : x.id \in 1..last
    <2>1. \A i \in 1..t.last_event : i \in 1..last
        BY <1>1, <1>4
    <2> QED BY <2>1 DEF EventsNumbered
<1>11. last \in Nat /\ t.last_event <= last
    BY <1>1, <1>4
<1> QED BY <1>5, <1>8, <1>9, <1>10, <1>11 DEF EventsNumbered

\* A page of news has every event up to its last.
LEMMA PageIsComplete ==
    ASSUME EventsNumbered(tables), cursor \in Nat, Page # {}
    PROVE  /\ Max({x.id : x \in Page}) \in cursor..tables.last_event
           /\ \A x \in tables.events : cursor < x.id /\ x.id <= Max({y.id : y \in Page}) => x \in Page
<1> DEFINE after == {x \in tables.events : x.id > cursor}
           ids == {x.id : x \in Page}
           Before(x) == {d \in after : d.id < x.id}
<1>1. /\ tables.last_event \in Nat /\ IsFiniteSet(tables.events)
      /\ \A x \in tables.events : x.id \in 1..tables.last_event
    BY DEF EventsNumbered
<1>2. Page = {x \in after : Cardinality(Before(x)) < PAGE}
    BY DEF Page
<1>3. PAGE \in Nat
    BY HistoryAssumption
<1>4. ids \in SUBSET (0..tables.last_event) /\ ids # {}
    <2>1. \A x \in Page : x.id \in 0..tables.last_event
        BY <1>1, <1>2
    <2> QED BY <2>1
<1>5. Max(ids) \in ids
    <2> HIDE DEF ids
    <2> QED BY <1>1, <1>4, GreatestNumber
<1>6. PICK m \in Page : m.id = Max(ids)
    BY <1>5
<1>7. m \in after /\ Cardinality(Before(m)) < PAGE /\ m.id \in cursor..tables.last_event
    BY <1>1, <1>2
<1>8. ASSUME NEW x \in tables.events, cursor < x.id, x.id <= m.id
      PROVE  x \in Page
    <2>1. x \in after
        BY <1>8
    <2>2. Before(x) \subseteq Before(m)
        <3>1. x.id \in Nat /\ m.id \in Nat /\ \A d \in after : d.id \in Nat
            BY <1>1, <1>7
        <3> QED BY <1>8, <3>1
    <2>3. IsFiniteSet(Before(m)) /\ IsFiniteSet(Before(x))
        <3>1. Before(m) \subseteq tables.events /\ Before(x) \subseteq tables.events
            OBVIOUS
        <3> HIDE DEF Before
        <3> QED BY <1>1, <3>1, FS_Subset
    <2> HIDE DEF Before, after
    <2>4. Cardinality(Before(x)) <= Cardinality(Before(m))
        BY <2>2, <2>3, FS_Subset
    <2>5. Cardinality(Before(x)) \in Nat /\ Cardinality(Before(m)) \in Nat
        BY <2>3, FS_CardinalityType
    <2>6. Cardinality(Before(x)) < PAGE
        BY <1>3, <1>7, <2>4, <2>5
    <2> QED BY <1>2, <2>1, <2>6
<1> HIDE DEF ids
<1>9. Max(ids) \in cursor..tables.last_event
    BY <1>6, <1>7
<1>10. \A x \in tables.events : cursor < x.id /\ x.id <= Max(ids) => x \in Page
    BY <1>6, <1>8
<1> QED BY <1>9, <1>10 DEF ids

-----------------------------------------------------------------------------
(* The invariant of news and stories. *)

\* With the same headers, events and stories tables tell the same.
LEMMA SameTold ==
    ASSUME NEW t, NEW r, r.epochs = t.epochs, r.events = t.events, r.stories = t.stories
    PROVE  /\ HoursOf(r) = HoursOf(t) /\ \A e : LeaderAt(r, e) = LeaderAt(t, e)
           /\ Holds(t) => Holds(r)
           /\ \A w, mem : GoesOn(t, w, mem) => GoesOn(r, w, mem)
<1>1. HoursOf(r) = HoursOf(t)
    BY DEF HoursOf
<1>2. \A e : LeaderAt(r, e) = LeaderAt(t, e)
    BY DEF LeaderAt
<1>3. \A e, earlier : HourAgrees(t, e, earlier) => HourAgrees(r, e, earlier)
    BY <1>2 DEF HourAgrees, ChangesAt, GuardsAt
<1>4. FeedHolds(t) => FeedHolds(r)
    BY <1>1, <1>3 DEF FeedHolds
<1>5. ToldOnce(t) => ToldOnce(r)
    BY DEF ToldOnce
<1>6. ASSUME NEW w, NEW mem, GoesOn(t, w, mem)
      PROVE  GoesOn(r, w, mem)
    <2>1. FeedGoesOn(r, w, mem)
        BY <1>1, <1>2, <1>6 DEF GoesOn, FeedGoesOn
    <2>2. StoriesGoOn(r, w, mem)
        BY <1>6 DEF GoesOn, StoriesGoOn
    <2> QED BY <2>1, <2>2 DEF GoesOn
<1> QED BY <1>1, <1>2, <1>4, <1>5, <1>6 DEF Holds

\* What the first server finds.
LEMMA NewsInitially ==
    ASSUME SavedBefore, ToldBefore, Init
    PROVE  NewsInv
<1>1. PICK st \in Beginnings :
         /\ snapshot = IF st = NULL THEN NULL ELSE [world |-> st.world, detectors |-> st.detectors]
         /\ tables = IF st = NULL THEN Empty ELSE st.tables
    BY DEF Init
<1>2. kept = tables /\ pc = "down" /\ hour_dominant = NULL /\ cursor = NULL
    BY DEF Init
<1>3. EventsNumbered(tables) /\ Holds(tables)
    <2>1. CASE st = NULL
        <3>1. tables.events = {} /\ tables.stories = {} /\ tables.last_event = 0 /\ tables.epochs = <<>>
            BY <1>1, <2>1 DEF Empty
        <3>2. EventsNumbered(tables)
            BY <3>1, FS_EmptySet DEF EventsNumbered
        <3>3. FeedHolds(tables)
            BY <3>1, NoTable DEF FeedHolds, HoursOf
        <3>4. ToldOnce(tables)
            BY <3>1 DEF ToldOnce
        <3> QED BY <3>2, <3>3, <3>4 DEF Holds
    <2>2. CASE st # NULL
        BY <1>1, <2>2 DEF ToldBefore
    <2> QED BY <2>1, <2>2
<1>4. snapshot # NULL => GoesOn(kept, snapshot.world, snapshot.detectors)
    BY <1>1, <1>2 DEF ToldBefore
<1> QED BY <1>2, <1>3, <1>4 DEF NewsInv, NewsFollowed

\* Genesis.
LEMMA CreateKeepsNews ==
    ASSUME NewsInv, NEW w \in FirstWorlds, Create(w)
    PROVE  NewsInv'
<1>1. /\ pc = "down" /\ pc' = "born" /\ snapshot = NULL /\ snapshot' = snapshot /\ kept' = kept
      /\ world' = w /\ detectors' = NewDetectors
      /\ tables' = [record_genesis(Empty, w) EXCEPT !.last_event = tables.last_event]
      /\ UNCHANGED <<hour_dominant, cursor, told, since>>
    BY DEF Create
<1>2. Sound(w) /\ w.epoch = 0
    BY FirstWorldsAssumption
<1>3. /\ tables'.epochs = Put(<<>>, 0, Header(w)) /\ tables'.events = {} /\ tables'.stories = {}
      /\ tables'.last_event = tables.last_event
    <2>1. PICK r : r = record_genesis(Empty, w)
        OBVIOUS
    <2>2. /\ IsTables(r) /\ r.epochs = Put(<<>>, 0, Header(w)) /\ r.events = {} /\ r.stories = {}
        BY <2>1, GenesisFields
    <2>3. tables' = [r EXCEPT !.last_event = tables.last_event]
        BY <1>1, <2>1
    <2> QED BY <2>2, <2>3 DEF IsTables
<1>4. /\ DOMAIN tables'.epochs = {0} /\ tables'.epochs[0] = Header(w)
    BY <1>3, NoTable DEF Put
<1>5. HoursOf(tables') = {}
    BY <1>4 DEF HoursOf
<1>6. Holds(tables')
    <2>1. ToldOnce(tables')
        BY <1>3 DEF ToldOnce
    <2> QED BY <1>5, <2>1 DEF Holds, FeedHolds
<1>7. EventsNumbered(tables') /\ NewsFollowed'
    BY <1>1, <1>3, FS_EmptySet DEF NewsInv, EventsNumbered, NewsFollowed
<1>8. GoesOn(tables', w, NewDetectors)
    <2>1. NewDetectors.clades = <<>> /\ NewDetectors.world_leader = NULL
        BY DEF NewDetectors
    <2>2. StoriesGoOn(tables', w, NewDetectors)
        BY <1>3, <2>1, NoTable DEF StoriesGoOn
    <2>3. Header(w).dominant \in Nat
        BY <1>2, LeaderInHeader
    <2>4. 0..0 = {0}
        OBVIOUS
    <2>5. FeedGoesOn(tables', w, NewDetectors)
        BY <1>2, <1>4, <1>5, <2>1, <2>3, <2>4 DEF FeedGoesOn, LeaderAt
    <2> QED BY <2>2, <2>5 DEF GoesOn
<1> QED BY <1>1, <1>6, <1>7, <1>8 DEF NewsInv

\* Saving: what is kept tells what the tables tell.
LEMMA SavingKeepsNews ==
    ASSUME SavedBefore, IInv, NewsInv, SaveGenesis \/ Save
    PROVE  NewsInv'
<1>1. /\ snapshot' = [world |-> world, detectors |-> detectors] /\ kept' = tables
      /\ pc \in {"born", "shown"} /\ pc' \in {"wait", "archiving"} /\ (pc = "born" => pc' = "archiving")
      /\ UNCHANGED <<tables, world, detectors, hour_dominant, cursor, told, since>>
    BY DEF SaveGenesis, Save
<1>2. snapshot'.world = world /\ snapshot'.detectors = detectors
    BY <1>1
<1>3. Holds(tables) /\ GoesOn(tables, world, detectors) /\ EventsNumbered(tables) /\ NewsFollowed
      /\ (pc = "shown" => LeaderKnown(world.epoch)) /\ (pc = "born" => hour_dominant = NULL)
    BY <1>1 DEF NewsInv
<1>4. NewsFollowed' /\ (LeaderKnown(world.epoch) => LeaderKnown(world.epoch)')
    BY <1>1, <1>3 DEF NewsFollowed, LeaderKnown
<1> QED BY <1>1, <1>2, <1>3, <1>4 DEF NewsInv

\* A restart takes events back, and gives no number back.
LEMMA RolledLog ==
    ASSUME NEW t, IsTables(t), NEW w, NEW r, r = rollback_after(t, w)
    PROVE  r.events \subseteq t.events /\ r.last_event = t.last_event
<1> DEFINE founded == {c \in DOMAIN t.clades : t.clades[c].founded <= w.epoch}
<1>1. /\ IsTables(r)
      /\ r.epochs = UpTo(t.epochs, w.epoch) /\ r.muller = UpTo(t.muller, w.epoch)
      /\ r.events = Until(t.events, w.epoch) /\ r.stories = Until(t.stories, w.epoch)
      /\ r.frames = {f \in t.frames : f <= w.epoch}
      /\ r.last_event = t.last_event
      /\ r.organisms = OrganismsBefore(t.organisms, w.epoch)
      /\ r.clades = Counted([c \in founded |-> NotYetNamed(Unended(t.clades[c], w.epoch), w.epoch)],
                            w.clades)
    BY RollbackFields
<1> HIDE DEF founded
<1> QED BY <1>1 DEF Until

\* A restart: the snapshot's world goes on from what was told before it.
LEMMA RollbackKeepsNews ==
    ASSUME IInv, NewsInv, Rollback
    PROVE  NewsInv'
<1> DEFINE w == snapshot.world
           r == rollback_after(tables, w)
<1>1. /\ snapshot # NULL /\ snapshot' = snapshot /\ kept' = kept /\ pc = "down" /\ pc' = "undone"
      /\ world' = w /\ detectors' = snapshot.detectors /\ tables' = r
      /\ told' = told \cap tables'.events /\ UNCHANGED <<hour_dominant, cursor, since>>
    BY DEF Rollback
<1>2. CanBeUndone(tables, w, kept, lost)
    BY <1>1 DEF IInv, HasSaved
<1>3. r.epochs = kept.epochs /\ r.events = kept.events /\ r.stories = kept.stories
    BY <1>2 DEF CanBeUndone, Undone
<1>4. r.events \subseteq tables.events /\ r.last_event = tables.last_event
    <2>1. IsTables(tables)
        BY <1>2 DEF CanBeUndone, NothingLater
    <2>2. PICK q : q = rollback_after(tables, w)
        OBVIOUS
    <2>3. q.events \subseteq tables.events /\ q.last_event = tables.last_event
        BY <2>1, <2>2, RolledLog
    <2> QED BY <2>2, <2>3
<1> HIDE DEF r, w
<1>5. Holds(r)
    BY <1>3, SameTold DEF NewsInv
<1>6. EventsNumbered(r)
    <2>1. EventsNumbered(tables)
        BY DEF NewsInv
    <2>2. IsFiniteSet(r.events)
        BY <1>4, <2>1, FS_Subset DEF EventsNumbered
    <2> QED BY <1>4, <2>1, <2>2 DEF EventsNumbered
<1>7. NewsFollowed'
    BY <1>1, <1>4 DEF NewsInv, NewsFollowed
<1> QED BY <1>1, <1>5, <1>6, <1>7 DEF NewsInv

\* The loop goes on with the leader of the last full hour.
LEMMA ResumeKeepsNews ==
    ASSUME IInv, NewsInv, Resume
    PROVE  NewsInv'
<1> DEFINE w == snapshot.world
           r == backfill_names(tables)
<1>1. /\ pc = "undone" /\ pc' = "wait" /\ snapshot' = snapshot /\ kept' = kept
      /\ world' = world /\ detectors' = detectors /\ tables' = r /\ hour_dominant' = HourDominant(r, world)
      /\ UNCHANGED <<cursor, told, since>>
    BY DEF Resume
<1>2. snapshot # NULL
    BY <1>1 DEF IInv, New
<1>3. /\ AtTheSnapshot /\ GoesOn(kept, w, snapshot.detectors) /\ Holds(kept)
      /\ detectors = snapshot.detectors /\ EventsNumbered(tables) /\ NewsFollowed
      /\ Sound(w)
    BY <1>1, <1>2 DEF IInv, HasSaved, NewsInv, Good
<1>4. /\ world = w /\ tables.epochs = kept.epochs /\ tables.events = kept.events
      /\ tables.stories = kept.stories /\ IsTables(tables)
    BY <1>3 DEF AtTheSnapshot, Undone, NothingLater
<1>5. /\ r.epochs = tables.epochs /\ r.events = tables.events /\ r.stories = tables.stories
      /\ r.last_event = tables.last_event
    <2> DEFINE pending == {c \in DOMAIN tables.clades :
                              tables.clades[c].name = NULL /\ IsNamed(tables.clades[c].peak)}
               announced(c) == {x.epoch : x \in {y \in tables.events : y.kind = "clade_named" /\ y.clade = c}}
               named == [c \in pending |-> IF announced(c) # {} THEN Min(announced(c))
                                           ELSE tables.clades[c].founded]
    <2>1. PICK rows : rows = give_name(tables.clades, [c \in pending |-> tables.clades[c].reference], named)
        OBVIOUS
    <2>2. r = [tables EXCEPT !.clades = rows]
        BY <2>1 DEF backfill_names
    <2> HIDE DEF r
    <2> QED BY <1>4, <2>2 DEF IsTables
<1> HIDE DEF r
<1>6. Holds(r) /\ GoesOn(r, w, snapshot.detectors)
    <2>1. r.epochs = kept.epochs /\ r.events = kept.events /\ r.stories = kept.stories
        BY <1>4, <1>5
    <2> QED BY <1>3, <2>1, SameTold
<1>7. HourDominant(r, w) = LeaderAt(r, LastHour(w.epoch))
    <2>1. DOMAIN r.epochs = 0..w.epoch
        BY <1>6 DEF GoesOn, FeedGoesOn
    <2>2. LastHour(w.epoch) \in 0..w.epoch
        BY <1>3, HourSteps DEF Sound
    <2> QED BY <2>1, <2>2, HistoryAssumption DEF HourDominant, LeaderAt, LastHour
<1>8. EventsNumbered(r) /\ NewsFollowed'
    BY <1>1, <1>3, <1>5 DEF EventsNumbered, NewsFollowed
<1> HIDE DEF w
<1>9. w = snapshot.world
    BY DEF w
<1>10. Holds(tables') /\ Holds(kept') /\ EventsNumbered(tables') /\ GoesOn(tables', world', detectors')
       /\ GoesOn(kept', snapshot'.world, snapshot'.detectors) /\ detectors' = snapshot'.detectors
    BY <1>1, <1>3, <1>4, <1>6, <1>8, <1>9
<1>11. LeaderKnown(world.epoch)'
    BY <1>1, <1>4, <1>7 DEF LeaderKnown
<1> QED BY <1>1, <1>8, <1>10, <1>11 DEF NewsInv

\* An epoch is recorded.
LEMMA StepKeepsNews ==
    ASSUME IInv, NewsInv, Step
    PROVE  NewsInv'
<1>1. /\ pc = "wait" /\ pc' = "recorded"
      /\ UNCHANGED <<snapshot, kept, hour_dominant, cursor, told, since>>
    BY DEF Step
<1>2. PICK course \in Courses(world) :
         LET next == Recorded([world |-> world, detectors |-> detectors, tables |-> tables,
                               hour_dominant |-> hour_dominant], course)
         IN world' = next.world /\ detectors' = next.detectors /\ tables' = next.tables
    BY DEF Step
<1> DEFINE v == Lived(world, course).world
           report == Lived(world, course).report
           seen == observe(detectors, v, report)
           events == Events(world, hour_dominant, v, report)
           r == record_epoch(tables, world, v, report, events, seen.stories)
<1>3. world' = v /\ tables' = r /\ detectors' = seen.detectors
    <2> HIDE DEF v, report, seen, events
    <2> QED BY <1>2 DEF Recorded, v, report, seen, events
<1>4. Good(tables, world, lost)
    BY <1>1 DEF IInv, InStep
<1>5. /\ EventsNumbered(tables) /\ NewsFollowed /\ Holds(tables) /\ GoesOn(tables, world, detectors)
      /\ LeaderKnown(world.epoch) /\ Holds(kept)
      /\ snapshot # NULL => GoesOn(kept, snapshot.world, snapshot.detectors)
    BY <1>1 DEF NewsInv
<1>6. /\ Sound(world) /\ NothingLater(tables, world.epoch, world.epoch) /\ IsTables(tables)
      /\ world.epoch \in Nat
    BY <1>4 DEF Good, NothingLater, Sound
<1>7. Follows(world, v, report)
    BY <1>6, CoursesAreCourses, LivedFollows
<1> HIDE DEF v, report
<1>8. v.epoch = world.epoch + 1
    BY <1>7 DEF Follows
<1>9. FeedHolds(r) /\ FeedGoesOn(r, v, seen.detectors)
    <2>1. PICK dominant : dominant = hour_dominant
        OBVIOUS
    <2>2. dominant = LeaderAt(tables, LastHour(world.epoch))
        BY <1>5, <2>1 DEF LeaderKnown
    <2>3. PICK s : s = observe(detectors, v, report)
        OBVIOUS
    <2>4. PICK q : q = record_epoch(tables, world, v, report, Events(world, dominant, v, report), s.stories)
        OBVIOUS
    <2>5. FeedHolds(tables) /\ FeedGoesOn(tables, world, detectors)
        BY <1>5 DEF Holds, GoesOn
    <2>6. FeedHolds(q) /\ FeedGoesOn(q, v, s.detectors)
        BY <1>6, <1>7, <2>2, <2>3, <2>4, <2>5, FeedAfterEpoch
    <2> QED BY <2>1, <2>3, <2>4, <2>6
<1>10. IsList(events)
    BY <1>6, <1>7, EventsOfEpoch
<1> HIDE DEF events
<1>11. /\ r.epochs = Put(tables.epochs, v.epoch, Header(v)) /\ r.stories = tables.stories \cup seen.stories
       /\ r.events = WithEvents(tables, v.epoch, events).events
       /\ r.last_event = WithEvents(tables, v.epoch, events).last_event
    <2>1. PICK s : s = seen.stories
        OBVIOUS
    <2>2. PICK q : q = record_epoch(tables, world, v, report, events, s)
        OBVIOUS
    <2>3. /\ q.epochs = Put(tables.epochs, v.epoch, Header(v)) /\ q.stories = tables.stories \cup s
          /\ q.events = WithEvents(tables, v.epoch, events).events
          /\ q.last_event = WithEvents(tables, v.epoch, events).last_event
        BY <1>6, <2>2, RecordedFields
    <2> QED BY <2>1, <2>2, <2>3
<1>12. ToldOnce(r) /\ StoriesGoOn(r, v, seen.detectors)
    <2>1. PICK s : s = observe(detectors, v, report)
        OBVIOUS
    <2>2. PICK q : q = r
        OBVIOUS
    <2> HIDE DEF r
    <2>3. q.stories = tables.stories \cup s.stories
        BY <1>11, <2>1, <2>2
    <2>4. ToldOnce(tables) /\ StoriesGoOn(tables, world, detectors)
        BY <1>5 DEF Holds, GoesOn
    <2>5. ToldOnce(q) /\ StoriesGoOn(q, v, s.detectors)
        BY <1>6, <1>7, <2>1, <2>3, <2>4, StoriesAfterEpoch
    <2> QED BY <2>1, <2>2, <2>5
<1> HIDE DEF r, seen
<1>13. /\ EventsNumbered(r) /\ tables.last_event <= r.last_event
       /\ \A x \in r.events : x \in tables.events \/ x.id > tables.last_event
    BY <1>5, <1>6, <1>10, <1>11, NumbersGoOn
<1>14. NewsFollowed'
    <2> SUFFICES ASSUME cursor # NULL
                 PROVE  /\ cursor \in 0..r.last_event
                        /\ \A x \in r.events : since < x.id /\ x.id <= cursor => x \in told
        BY <1>1, <1>3 DEF NewsFollowed
    <2>1. /\ cursor \in 0..tables.last_event
          /\ \A x \in tables.events : since < x.id /\ x.id <= cursor => x \in told
        BY <1>5 DEF NewsFollowed
    <2>2. tables.last_event \in Nat /\ r.last_event \in Nat /\ \A x \in r.events : x.id \in Nat
        BY <1>5, <1>13 DEF EventsNumbered
    <2>3. \A x \in r.events : x.id > tables.last_event => ~(x.id <= cursor)
        BY <2>1, <2>2
    <2> QED BY <1>13, <2>1, <2>2, <2>3
<1>15. LeaderKnown(world.epoch - 1)'
    <2>1. LastHour(world.epoch) \in 0..world.epoch
        BY <1>6, HourSteps
    <2>2. LastHour(world.epoch) \in DOMAIN tables.epochs /\ LastHour(world.epoch) # v.epoch
        BY <1>5, <1>6, <1>8, <2>1 DEF GoesOn, FeedGoesOn
    <2>3. LeaderAt(r, LastHour(world.epoch)) = LeaderAt(tables, LastHour(world.epoch))
        BY <1>11, <2>2 DEF LeaderAt, Put
    <2>4. v.epoch - 1 = world.epoch
        BY <1>6, <1>8
    <2> QED BY <1>1, <1>3, <1>5, <2>3, <2>4 DEF LeaderKnown
<1>16. Holds(tables') /\ GoesOn(tables', world', detectors')
    BY <1>3, <1>9, <1>12 DEF Holds, GoesOn
<1> QED BY <1>1, <1>3, <1>5, <1>13, <1>14, <1>15, <1>16 DEF NewsInv

\* The leader of an hour is remembered when it is over.
LEMMA PublishKeepsNews ==
    ASSUME IInv, NewsInv, Publish
    PROVE  NewsInv'
<1>1. /\ pc = "recorded" /\ pc' = "shown"
      /\ hour_dominant' = IF world.epoch % DOMINANT_EVERY = 0 THEN Header(world).dominant ELSE hour_dominant
      /\ UNCHANGED <<tables, snapshot, world, detectors, kept, cursor, told, since>>
    BY DEF Publish
<1>2. snapshot # NULL
    BY <1>1 DEF IInv, New
<1>3. /\ GoesOn(tables, world, detectors) /\ LeaderKnown(world.epoch - 1)
      /\ world.epoch = snapshot.world.epoch + 1 /\ Good(kept, snapshot.world, lost)
    BY <1>1, <1>2 DEF NewsInv, IInv, HasSaved
<1>4. PICK e \in Nat : e = snapshot.world.epoch /\ world.epoch = e + 1 /\ world.epoch - 1 = e
    <2>1. snapshot.world.epoch \in Nat
        BY <1>3 DEF Good, Sound
    <2> QED BY <1>3, <2>1
<1>5. LeaderKnown(world.epoch)'
    <2>1. tables.epochs[world.epoch] = Header(world) /\ DOMINANT_EVERY = HOUR
        BY <1>3, HistoryAssumption DEF GoesOn, FeedGoesOn
    <2>2. CASE world.epoch % HOUR = 0
        <3>1. LastHour(world.epoch) = world.epoch
            <4>1. world.epoch \in Nat
                BY <1>4
            <4> QED BY <2>2, <4>1, HourSteps
        <3> QED BY <1>1, <2>1, <2>2, <3>1 DEF LeaderKnown, LeaderAt
    <2>3. CASE world.epoch % HOUR # 0
        <3>1. LastHour(e + 1) = LastHour(e)
            BY <1>4, <2>3, HourSteps
        <3> QED BY <1>1, <1>3, <1>4, <2>1, <2>3, <3>1 DEF LeaderKnown
    <2> QED BY <2>2, <2>3
<1>6. NewsFollowed'
    BY <1>1 DEF NewsInv, NewsFollowed
<1> QED BY <1>1, <1>5, <1>6 DEF NewsInv

\* The archive and a crash leave the tables and what is saved.
LEMMA SameTablesKeepNews ==
    ASSUME NewsInv, Archive \/ Crash
    PROVE  NewsInv'
<1>1. UNCHANGED <<tables, snapshot, kept, cursor, told, since>>
    BY DEF Archive, Crash
<1>2. /\ EventsNumbered(tables') /\ NewsFollowed' /\ Holds(tables') /\ Holds(kept')
      /\ snapshot' # NULL => GoesOn(kept', snapshot'.world, snapshot'.detectors)
    BY <1>1 DEF NewsInv, NewsFollowed
<1>3. CASE Archive
    <2>1. /\ pc = "archiving" /\ pc' = IF Starting THEN "undone" ELSE "wait"
          /\ UNCHANGED <<world, detectors, hour_dominant>>
        BY <1>3 DEF Archive
    <2>2. hour_dominant # NULL => LeaderKnown(world.epoch)'
        BY <1>1, <2>1 DEF NewsInv, LeaderKnown
    <2> QED BY <1>1, <1>2, <2>1, <2>2 DEF NewsInv, Starting
<1>4. CASE Crash
    BY <1>2, <1>4 DEF NewsInv, Crash, ProcessLost
<1> QED BY <1>3, <1>4

\* The bot takes its first cursor, or goes on from the one it has.
LEMMA NewsKeepsNews ==
    ASSUME NewsInv, FirstNews \/ News
    PROVE  NewsInv'
<1>1. UNCHANGED <<tables, snapshot, pc, world, detectors, hour_dominant, kept>>
    BY DEF FirstNews, News
<1>2. /\ EventsNumbered(tables) /\ tables.last_event \in Nat /\ NULL \notin Nat
      /\ \A x \in tables.events : x.id \in 1..tables.last_event
    BY HistoryAssumption DEF NewsInv, EventsNumbered
<1>3. CASE FirstNews
    <2> DEFINE ids == {e.id : e \in tables.events}
    <2>1. cursor' = (IF tables.events = {} THEN 0 ELSE Max(ids)) /\ since' = cursor'
        BY <1>3 DEF FirstNews
    <2>2. cursor' \in 0..tables.last_event
        <3>1. CASE tables.events = {}
            BY <1>2, <2>1, <3>1
        <3>2. CASE tables.events # {}
            <4>1. ids \in SUBSET (0..tables.last_event) /\ ids # {}
                <5>1. \A x \in tables.events : x.id \in 0..tables.last_event
                    BY <1>2
                <5> QED BY <3>2, <5>1
            <4> HIDE DEF ids
            <4>2. Max(ids) \in ids
                BY <1>2, <4>1, GreatestNumber
            <4> QED BY <2>1, <3>2, <4>1, <4>2
        <3> QED BY <3>1, <3>2
    <2>3. \A x \in tables.events : ~(since' < x.id /\ x.id <= cursor')
        BY <1>2, <2>1, <2>2
    <2>4. NewsFollowed'
        BY <1>1, <2>2, <2>3 DEF NewsFollowed
    <2> QED BY <1>1, <2>4 DEF NewsInv, LeaderKnown
<1>4. CASE News
    <2> DEFINE last == Max({x.id : x \in Page})
    <2>1. cursor # NULL /\ Page # {} /\ told' = told \cup Page /\ cursor' = last /\ since' = since
        BY <1>4 DEF News
    <2>2. cursor \in 0..tables.last_event
          /\ \A x \in tables.events : since < x.id /\ x.id <= cursor => x \in told
        BY <2>1 DEF NewsInv, NewsFollowed
    <2>3. last \in cursor..tables.last_event
          /\ \A x \in tables.events : cursor < x.id /\ x.id <= last => x \in Page
        <3>1. cursor \in Nat
            BY <2>2
        <3> QED BY <1>2, <2>1, <3>1, PageIsComplete
    <2> HIDE DEF last
    <2>4. last \in 0..tables.last_event
        BY <1>2, <2>2, <2>3
    <2>5. ASSUME NEW x \in tables.events, since < x.id, x.id <= last
          PROVE  x \in told \cup Page
        <3>1. x.id <= cursor \/ cursor < x.id
            BY <1>2, <2>2
        <3> QED BY <2>2, <2>3, <2>5, <3>1
    <2>6. NewsFollowed'
        BY <1>1, <2>1, <2>4, <2>5 DEF NewsFollowed
    <2> QED BY <1>1, <2>6 DEF NewsInv, LeaderKnown
<1> QED BY <1>3, <1>4

\* What the tables tell, and what the bot has told of it.
LEMMA NewsInvariance ==
    ASSUME SavedBefore, ToldBefore
    PROVE  Spec => []NewsInv
<1>1. Init => NewsInv
    BY NewsInitially
<1>2. IInv /\ NewsInv /\ [Next]_vars => NewsInv'
    <2> SUFFICES ASSUME IInv, NewsInv, [Next]_vars PROVE NewsInv'
        OBVIOUS
    <2>1. ASSUME NEW w \in FirstWorlds, Create(w) PROVE NewsInv'
        BY <2>1, CreateKeepsNews
    <2>2. CASE SaveGenesis \/ Save
        BY <2>2, SavingKeepsNews
    <2>3. CASE Rollback
        BY <2>3, RollbackKeepsNews
    <2>4. CASE Resume
        BY <2>4, ResumeKeepsNews
    <2>5. CASE Step
        BY <2>5, StepKeepsNews
    <2>6. CASE Publish
        BY <2>6, PublishKeepsNews
    <2>7. CASE Archive \/ Crash
        BY <2>7, SameTablesKeepNews
    <2>8. CASE FirstNews \/ News
        BY <2>8, NewsKeepsNews
    <2>9. CASE UNCHANGED vars
        BY <2>9 DEF vars, NewsInv, NewsFollowed, LeaderKnown
    <2> QED BY <2>1, <2>2, <2>3, <2>4, <2>5, <2>6, <2>7, <2>8, <2>9 DEF Next
<1> QED BY <1>1, <1>2, Invariance, PTL DEF Spec

\* The feed tells of a new leader exactly when the headers of two full hours show one,
\* the detectors tell the same change, and the bot has told every event its cursor has
\* passed, wherever restarts fell (model.rs events, stories observe, store.rs
\* rollback_after and its AUTOINCREMENT ids, protogaea_bot.py news).
THEOREM NewsTellsAll ==
    ASSUME SavedBefore, ToldBefore
    PROVE  Spec => []NewsIsComplete
<1>1. NewsInv => NewsIsComplete
    <2> SUFFICES ASSUME NewsInv PROVE NewsIsComplete
        OBVIOUS
    <2>1. FeedHolds(tables) /\ NewsFollowed
        BY DEF NewsInv, Holds
    <2>2. Hours = HoursOf(tables) /\ \A e : LeaderOfHour(e) = LeaderAt(tables, e)
        BY DEF Hours, HoursOf, LeaderOfHour, LeaderAt
    <2>3. FeedAgrees
        BY <2>1, <2>2 DEF FeedHolds, FeedAgrees, HourAgrees, ChangesAt, GuardsAt
    <2> QED BY <2>1, <2>3 DEF NewsIsComplete, NewsFollowed
<1> QED BY <1>1, NewsInvariance, PTL

\* No story is told twice and the last of its kind does not fall in a second one, whatever
\* is rolled back: the detectors' memory is that of the tables (stories observe, its
\* tracks, and world.rs, which saves it with the world).
THEOREM NoStoryTwice ==
    ASSUME SavedBefore, ToldBefore
    PROVE  Spec => []StoriesToldOnce
<1>1. NewsInv => StoriesToldOnce
    BY DEF NewsInv, Holds, ToldOnce, StoriesToldOnce
<1> QED BY <1>1, NewsInvariance, PTL
=============================================================================
