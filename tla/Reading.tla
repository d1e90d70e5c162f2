------------------------------ MODULE Reading ------------------------------
(***************************************************************************)
(* The read API (server/src/api.rs) and its queries (store.rs): what the   *)
(* handlers answer in a state of History, from the world that is shown and *)
(* from the tables.  The world shown is behind the tables while an epoch   *)
(* is recorded and not published.                                          *)
(*                                                                         *)
(* An answer is a set where its order is the order of ids or epochs, and a *)
(* name is the number of the genus, of the epithet and of the round.       *)
(***************************************************************************)
EXTENDS History

CONSTANTS
    DIGEST_STORIES,   \* stories of a digest
    GENERA, EPITHETS, \* how many there are of each
    ROUNDS,           \* bound: numerals looked at
    Lists, Limits     \* bounds: stories to select from, and how many

(* What Live shows: Step has not published its epoch yet. *)
Shown == IF pc = "recorded" THEN snapshot.world ELSE world
latest == Shown.epoch

Lowest(S, n) == {x \in S : Cardinality({y \in S : y < x}) < n}
Highest(S, n) == {x \in S : Cardinality({y \in S : y > x}) < n}
AtLeastOne(step) == IF step < 1 THEN 1 ELSE step

-----------------------------------------------------------------------------
(* Epochs and frames. *)

headers(from, to, step, limit) ==
    {tables.epochs[e] : e \in Lowest({e \in DOMAIN tables.epochs :
                                          from <= e /\ e <= to /\ e % AtLeastOne(step) = 0}, limit)}

epoch(n) == IF n \in DOMAIN tables.epochs THEN tables.epochs[n] ELSE NULL

DayBefore(e) == IF e > DAY THEN e - DAY ELSE 0

frames(from, to, step) == {f \in tables.frames : from <= f /\ f <= to /\ f % AtLeastOne(step) = 0}
Clamped(step) == IF step < 1 THEN 1 ELSE IF step > 48 THEN 48 ELSE step
replay(from, step) == frames(IF from = NULL THEN DayBefore(latest) ELSE from, latest, Clamped(step))

-----------------------------------------------------------------------------
(* Clades, their tree and their history. *)

clade_names(ids) ==
    LET named == {c \in ids \cap DOMAIN tables.clades : tables.clades[c].name # NULL}
    IN [c \in named |-> tables.clades[c].name]

living_names(w) == clade_names({c \in DOMAIN w.clades : IsNamed(w.clades[c].peak)})

snapshots == DOMAIN archived

\* The latest world or an archived one; NULL is an error.
WorldAt(e) == IF e = latest THEN Shown ELSE IF e \in snapshots THEN archived[e] ELSE NULL

map_json(w) == [epoch |-> w.epoch, names |-> living_names(w),
                organisms |-> {[id |-> o.id, clade |-> o.clade] : o \in w.organisms}]
map(e) == IF WorldAt(e) = NULL THEN NULL ELSE map_json(WorldAt(e))

\* Of a root, the world it is the root of is what matters.
proof(e, i) ==
    LET w == WorldAt(e)
    IN IF w = NULL \/ i \notin {o.id : o \in w.organisms} THEN NULL
       ELSE [epoch |-> e, organism |-> i, root |-> Header(w)]

clades(living, named, limit) ==
    Lowest({c \in DOMAIN tables.clades : /\ living => tables.clades[c].living > 0
                                         /\ named => IsNamed(tables.clades[c].peak)}, limit)

museum(limit) ==
    LET ended == {c \in DOMAIN tables.clades : tables.clades[c].extinct # NULL /\ IsNamed(tables.clades[c].peak)}
        Before(c, d) == LET x == tables.clades[c].extinct
                            y == tables.clades[d].extinct
                        IN x > y \/ (x = y /\ c < d)
    IN {c \in ended : Cardinality({d \in ended : Before(d, c)}) < limit}

clade(c) ==
    LET row == tables.clades[c]
    IN [row |-> row,
        children |-> {d \in DOMAIN tables.clades : tables.clades[d].parent = c /\ d # c},
        history |-> [e \in {e \in DOMAIN tables.muller : c \in DOMAIN tables.muller[e]} |-> tables.muller[e][c]],
        parent_name |-> IF row.parent = 0 THEN <<>> ELSE clade_names({row.parent})]

IsShown(row) == IsNamed(row.peak) \/ row.parent = 0

\* Rows come in id order, and a parent's id is lower.
fold(rows) ==
    FoldLeft(LAMBDA shown, c : Put(shown, c, IF IsShown(rows[c]) THEN c
                                             ELSE IF rows[c].parent \in DOMAIN shown
                                                  THEN shown[rows[c].parent] ELSE c),
             <<>>, Ascending(DOMAIN rows))

tree ==
    LET shown == fold(tables.clades)
        ParentOf(row) == IF row.parent \in DOMAIN shown THEN shown[row.parent] ELSE 0
    IN {[id |-> c, parent |-> ParentOf(tables.clades[c]), name |-> tables.clades[c].name] :
           c \in {d \in DOMAIN shown : shown[d] = d}}

\* The living of an epoch, those of a folded clade counted with the shown one.
muller(from, step) ==
    LET shown == fold(tables.clades)
        To(c) == IF c \in DOMAIN shown THEN shown[c] ELSE c
        sampled == {e \in DOMAIN tables.muller : e >= from /\ e % (AtLeastOne(step) * MULLER_EVERY) = 0}
        Folded(row) == [to \in {To(c) : c \in DOMAIN row} |->
                           SumFunctionOnSet(row, {d \in DOMAIN row : To(d) = to})]
    IN [e \in sampled |-> Folded(tables.muller[e])]

organism(i) ==
    [row |-> tables.organisms[i],
     living |-> i \in {o.id : o \in Shown.organisms}]

-----------------------------------------------------------------------------
(* Events: a page after a cursor, or before an id for the feed. *)

Matches(e, kind, c) == kind \in {NULL, e.kind} /\ c \in {NULL, e.clade}

events_after(cur, limit, kind, c) ==
    LET later == {e \in tables.events : e.id > cur /\ Matches(e, kind, c)}
    IN {e \in later : e.id \in Lowest({x.id : x \in later}, limit)}

events_before(before, limit, kind, c, last) ==
    LET earlier == {e \in tables.events : /\ before = 0 \/ e.id < before
                                          /\ Matches(e, kind, c)
                                          /\ last = NULL \/ e.epoch <= last}
    IN {e \in earlier : e.id \in Highest({x.id : x \in earlier}, limit)}

Mentioned(rows) == {e.clade : e \in rows} \cup {e.from : e \in rows}
                   \cup {tables.clades[e.clade].parent : e \in {f \in rows : f.kind = "clade_founded"}}

Answer(rows, next) == [events |-> rows, next |-> next, names |-> clade_names(Mentioned(rows) \ {NULL, 0})]

\* What the caller goes on from: the last row's id.
events(cur, limit, kind, c) ==
    LET rows == events_after(cur, limit, kind, c)
    IN Answer(rows, IF rows = {} THEN cur ELSE Max({e.id : e \in rows}))
feed(before, limit, kind, c, last) ==
    LET rows == events_before(before, limit, kind, c, last)
    IN Answer(rows, IF rows = {} THEN 0 ELSE Min({e.id : e \in rows}))

-----------------------------------------------------------------------------
(* Stories: a varied selection of a list sorted by score. *)

Kinds(all) == FoldLeft(LAMBDA ks, s : IF s.kind \in ToSet(ks) THEN ks ELSE Append(ks, s.kind), <<>>, all)

\* Of a kind's queue: the first of a clade not told of yet; those before it wait.
Take(st, i) ==
    LET queue == st.queues[i]
        fresh == {j \in DOMAIN queue : queue[j].clade = NULL \/ queue[j].clade \notin st.clades}
        first == Min(fresh \cup {Len(queue) + 1})
        taken == IF fresh = {} THEN <<>> ELSE <<queue[first]>>
    IN [queues |-> [st.queues EXCEPT ![i] = SubSeq(queue, first + 1, Len(queue))],
        out |-> st.out \o taken,
        later |-> st.later \o SubSeq(queue, 1, first - 1),
        clades |-> st.clades \cup {s.clade : s \in ToSet(taken)}]

varied(all, limit) ==
    LET kinds == Kinds(all)
        start == [queues |-> [i \in DOMAIN kinds |-> SelectSeq(all, LAMBDA s : s.kind = kinds[i])],
                  out |-> <<>>, later |-> <<>>, clades |-> {}]
        Round(st) == IF Len(st.out) < limit THEN FoldLeft(Take, st, [i \in DOMAIN kinds |-> i]) ELSE st
        end == FoldLeft(LAMBDA st, s : Round(st), start, all)
        told_of == end.out \o end.later
    IN SubSeq(told_of, 1, IF Len(told_of) < limit THEN Len(told_of) ELSE limit)

\* Any order: scores are left out.
ByScore(S) == FoldSet(LAMBDA s, list : Append(list, s), <<>>, S)
stories_of(from, to) == {s \in tables.stories : from <= s.epoch /\ s.epoch <= to}

Earlier(last) == IF last = NULL \/ last > latest THEN latest ELSE last

StoryClades(S) == {s.clade : s \in S} \cup {s.other : s \in S}

stories(from, last, limit) ==
    LET to == Earlier(last)
        chosen == varied(ByScore(stories_of(IF from = NULL THEN DayBefore(to) ELSE from, to)), limit)
    IN [stories |-> chosen, names |-> clade_names(StoryClades(ToSet(chosen)) \ {NULL})]

(* digest: what changed since an epoch, until now or an epoch of the past. *)
CountsOfAll(from, to) ==
    LET happened == {e \in tables.events : e.epoch > from}
    IN [kind \in {e.kind : e \in happened} |-> Cardinality({e \in happened : e.kind = kind})]
event_counts(from, to) ==
    LET happened == {e \in tables.events : from < e.epoch /\ e.epoch <= to}
    IN [kind \in {e.kind : e \in happened} |-> Cardinality({e \in happened : e.kind = kind})]

events_since(from, to, kind) == {e \in tables.events : from < e.epoch /\ e.epoch <= to /\ e.kind = kind}

digest(from, last) ==
    LET now == Earlier(last)
        since_then == IF from > now THEN now ELSE from
        then == epoch(since_then)
        header == IF now < latest THEN epoch(now) ELSE Header(Shown)
        chosen == varied(ByScore(stories_of(since_then + 1, now)), DIGEST_STORIES)
    IN [since |-> since_then, now |-> now, then |-> then, header |-> header,
        counts |-> event_counts(since_then, now),
        bridges_closed |-> events_since(since_then, now, "bridge_closed"),
        stories |-> ToSet(chosen),
        names |-> clade_names((StoryClades(ToSet(chosen)) \cup {then.dominant, header.dominant}) \ {NULL})]

-----------------------------------------------------------------------------
(* names.rs: the name of the k-th clade of a combination. *)

name_in(combo, k) == <<combo, k % GENERA, (k \div GENERA) % EPITHETS, k \div (GENERA * EPITHETS)>>

\* Of the numerals below 90.
DIGITS == << <<50, <<"L">>>>, <<40, <<"X", "L">>>>, <<10, <<"X">>>>, <<9, <<"I", "X">>>>,
             <<5, <<"V">>>>, <<4, <<"I", "V">>>>, <<1, <<"I">>>> >>
roman(n) ==
    LET Digit(st, d) == [left |-> st.left % d[1],
                         out |-> FoldLeft(LAMBDA out, i : out \o d[2], st.out,
                                          [i \in 1..(st.left \div d[1]) |-> i])]
    IN FoldLeft(Digit, [left |-> n, out |-> <<>>], DIGITS).out

-----------------------------------------------------------------------------
(* Properties. *)

\* A selection is as long as it can be and begins with the best story; the kinds
\* take turns, and a clade comes a second time only after all that come once.
VariedIsFair ==
    \A all \in Lists, limit \in Limits :
        LET chosen == varied(all, limit)
            Again(i) == \E j \in 1..(i - 1) : chosen[j].clade # NULL /\ chosen[j].clade = chosen[i].clade
            Rank(i) == Cardinality({j \in 1..i : chosen[j].kind = chosen[i].kind})
        IN /\ Len(chosen) = Min({limit, Len(all)})
           /\ IsInjective(chosen)
           /\ chosen # <<>> => chosen[1] = all[1]
           /\ \A i, j \in DOMAIN chosen : i < j =>
                 /\ Again(i) => Again(j)
                 /\ ~Again(j) => Rank(i) <= Rank(j)
                 /\ ~Again(j) /\ chosen[i].kind = chosen[j].kind => chosen[i].id < chosen[j].id

\* Names of different clades differ, also after the pairs of roots are used up.
NamesDiffer ==
    /\ IsInjective([n \in {1, 2} \X (0..(ROUNDS * GENERA * EPITHETS - 1)) |-> name_in(n[1], n[2])])
    /\ IsInjective([n \in 1..ROUNDS |-> roman(n)])

\* A clade is folded into its nearest named or founding ancestor, so the tree has
\* no parent that is not in it, and the Muller plot loses nobody: its rows add up
\* to the population in the header of their epoch.
FoldingLosesNobody ==
    LET rows == tables.clades
        shown == fold(rows)
        OneUp(S) == S \cup ({rows[c].parent : c \in S} \ {0})
        Line(c) == FoldLeft(LAMBDA S, i : OneUp(S), {c}, Ascending(DOMAIN rows))
        plot == muller(0, 1)
    IN /\ \A c \in DOMAIN rows : shown[c] = Max({a \in Line(c) : IsShown(rows[a])})
       /\ \A node \in tree : node.parent \in {0} \cup {n.id : n \in tree} /\ node.parent < node.id
       /\ \A e \in DOMAIN plot :
             /\ SumFunction(plot[e]) = tables.epochs[e].population
             /\ DOMAIN plot[e] \subseteq {n.id : n \in tree}

\* A reader who goes on with "next" gets every event once, after a cursor or back
\* from the newest.
Cursors == {0} \cup {e.id : e \in tables.events}
PagesOf(page, start) ==
    LET Turn(st, e) == LET answer == page[st.at]
                       IN IF st.done THEN st
                          ELSE [at |-> answer.next, got |-> Append(st.got, answer.events),
                                done |-> Cardinality(answer.events) < PAGE]
    IN FoldSet(LAMBDA e, st : Turn(st, e), [at |-> start, got |-> <<>>, done |-> FALSE],
               tables.events \cup {NULL}).got
FeedIsWhole ==
    \A kind \in {NULL, "clade_founded"} :
        LET Forward == [at \in Cursors |-> events(at, PAGE, kind, NULL)]
            Backward == [at \in Cursors |-> feed(at, PAGE, kind, NULL, latest)]
            Whole(pages, S) == /\ UNION ToSet(pages) = S
                               /\ \A i, j \in DOMAIN pages : i # j => pages[i] \cap pages[j] = {}
            wanted == {e \in tables.events : kind \in {NULL, e.kind}}
        IN /\ Whole(PagesOf(Forward, 0), wanted)
           /\ Whole(PagesOf(Backward, 0), {e \in wanted : e.epoch <= latest})

\* A digest adds up: the clades of its two headers differ by those founded and
\* those that died out, also while the next epoch is recorded and not yet shown;
\* and the digest of a past day has the header that was live then.
DigestAddsUp ==
    /\ Header(Shown) = epoch(latest)
    /\ \A from \in 0..latest, last \in {e \in 0..latest : e >= latest - 1} :
          LET d == digest(from, last)
              Count(kind) == IF kind \in DOMAIN d.counts THEN d.counts[kind] ELSE 0
          IN /\ d.then.epoch = d.since /\ d.header.epoch = d.now
             /\ d.header.clades = d.then.clades + Count("clade_founded") - Count("clade_extinct")
             /\ \A s \in d.stories : d.since < s.epoch /\ s.epoch <= d.now

\* An organism is shown living exactly in the epochs from its birth to its death,
\* which its row tells, and proved under the header of each of them that is
\* archived; the map names every clade that has a name; the clades with living
\* members are those of the world; and a replay misses no epoch of those kept.
LivesAgree ==
    /\ \A i \in DOMAIN tables.organisms :
          LET o == organism(i)
          IN o.living <=> o.row.born <= latest /\ (o.row.died = NULL \/ o.row.died > latest)
    /\ \A e \in {latest} \cup {x \in snapshots : archived[x] # NULL} :
          /\ DOMAIN map(e).names = {c \in DOMAIN WorldAt(e).clades : IsNamed(WorldAt(e).clades[c].peak)}
          /\ \A i \in DOMAIN tables.organisms :
                IF tables.organisms[i].born <= e /\ (tables.organisms[i].died = NULL \/ tables.organisms[i].died > e)
                THEN proof(e, i).root = epoch(e) ELSE proof(e, i) = NULL
    /\ clades(TRUE, FALSE, 100) \ lost = DOMAIN world.clades \ lost
    /\ clades(FALSE, TRUE, 100) \ lost = (clades(TRUE, TRUE, 100) \cup museum(100)) \ lost
    /\ \A step \in 1..2 :
          {e \in 1..latest : e > latest - FRAMES_KEPT /\ e % step = 0} \subseteq replay(0, step)

\* What the read API says of a world agrees, whichever of its two sources an
\* answer is from.  (The bot only reads, and Publish and Save only bring both
\* sources together: their states are not looked at again.)
AnswersAgree ==
    /\ VariedIsFair
    /\ NamesDiffer
    /\ pc \in {"recorded", "wait"} /\ cursor = NULL =>
          FoldingLosesNobody /\ FeedIsWhole /\ DigestAddsUp /\ LivesAgree
=============================================================================
