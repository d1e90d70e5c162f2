------------------------------ MODULE Watcher ------------------------------
(***************************************************************************)
(* An independent watcher (watcher/src/main.rs, books.rs) beside the       *)
(* server: it polls the tree head, then the new headers, then replays the  *)
(* world and the ledger from the logs, and raises an alarm at any          *)
(* discrepancy.  Each answer of the API is read under the server's locks,  *)
(* so an action reads the server once; between two reads of one round the  *)
(* server may take any number of steps, end and start again.               *)
(*                                                                         *)
(* The world is deterministic: what it does with a miracle, and which      *)
(* wishes it makes hopeless or the share rule closes, is fixed in nature   *)
(* and the same for the server and the watcher, as long as both step with  *)
(* the same seed and miracles; a step with others gives another world.     *)
(*                                                                         *)
(* The rounds of the beacon are compared and not counted (Requests counts  *)
(* them): a head asks for the round of its header, or for a later one.     *)
(***************************************************************************)
EXTENDS Server, SparkLog

CONSTANTS
    Natures,         \* what worlds may do, epoch by epoch
    ReplayPage,      \* epochs fetched at a time by replay (100)
    PROPOSALS_LIMIT, \* wishes the server lists at most (1000)
    LateHeads        \* the epochs whose last head may come a round late (a bound)

ASSUME WatcherAssumption ==
    /\ \A n \in Natures : \A e \in 0..MaxEpoch :
          /\ n[e].outcome \in [Wishes -> Outcomes]
          /\ n[e].hopeless \in Doomed /\ n[e].closed \in ShareClosed
    /\ ReplayPage \in Nat \ {0}
    \* A spark for a wish that is no longer listed would be one nobody knows.
    /\ Cardinality(Wishes) <= PROPOSALS_LIMIT

VARIABLES
    nature,       \* epoch -> [outcome, hopeless, closed]; never changes
    at,           \* where the loop of the watcher is
    heads,        \* epoch -> the largest tree head seen
    last_header,  \* the last header checked, [epoch, hash]
    replayed,     \* the replayed world
    diverged, books,
    page,         \* local variables of replay: the answers fetched
    alarms,       \* raised
    early,        \* epochs whose beacon round comes before the one their last head asks for
    excuses       \* history: what the server did that the watcher's rules do not know

watcher == <<at, heads, last_header, replayed, diverged, books, page, alarms>>
all == <<vars, nature, watcher, early, excuses>>

NoPage == [latest |-> 0, to |-> 0, headers |-> <<>>, worlds |-> <<>>, given |-> <<>>, known |-> {}]
NoWindow == [epoch |-> NULL, target |-> 0, accepted |-> 0]
NewBooks == [active |-> FALSE, price |-> PriceMin, last |-> NoWindow,
             status |-> [w \in Wishes |-> "none"], work |-> [w \in Wishes |-> 0]]
NoHeader == [epoch |-> NULL, hash |-> ZeroHash]

(***************************************************************************)
(* What the API answers.                                                   *)
(***************************************************************************)
LeavesHashed(sq) == [i \in DOMAIN sq |-> leaf_hash(sq[i])]
TreeHead(e, ls) == [epoch |-> e, size |-> Len(ls), root |-> root(LeavesHashed(ls))]

\* epoch_leaves: of the window in memory, else of the stored log.
epoch_leaves(e) == IF e = epoch THEN leaves ELSE EpochSparks(e)

\* consistency: the empty path where there is no such tree.
consistency(e, first, second) ==
    LET ls == LeavesHashed(epoch_leaves(e))
    IN IF first = 0 \/ first > second \/ second > Len(ls) THEN <<>>
       ELSE consistency_proof(SubSeq(ls, 1, second), first)

(***************************************************************************)
(* extends: the alarm that a tree head gives, and the heads kept.          *)
(***************************************************************************)
HeadAlarms(old, sth) ==
    IF sth.size < old.size THEN {"the log shrank"}
    ELSE IF sth.size = old.size /\ sth.root # old.root THEN {"the log was rewritten"}
    ELSE IF /\ sth.size > old.size /\ old.size > 0
            /\ ~verify_consistency(old.size, sth.size, old.root, sth.root,
                                   consistency(sth.epoch, old.size, sth.size))
         THEN {"a head does not extend the one before"}
    ELSE {}

extends(st, sth) ==
    LET found == IF sth.epoch \in DOMAIN st.heads THEN HeadAlarms(st.heads[sth.epoch], sth) ELSE {}
    IN [st EXCEPT !.alarms = @ \cup found,
                  !.heads = IF found = {} THEN Put(@, sth.epoch, sth) ELSE @]

(***************************************************************************)
(* check_headers.                                                          *)
(***************************************************************************)
Forget(hs, e) == [d \in {c \in DOMAIN hs : c > e} |-> hs[d]]

ChainAlarms(last, h) ==
    IF last # NoHeader /\ h.prev # last.hash THEN {"the header chain is broken"} ELSE {}

check_header(st, h) ==
    LET chained == [st EXCEPT !.alarms = @ \cup ChainAlarms(st.last, h)]
        checked ==
            IF h.log # <<>> THEN extends(chained, TreeHead(h.epoch, h.log))
            ELSE IF h.epoch \in DOMAIN st.heads /\ st.heads[h.epoch].size > 0
                 THEN [chained EXCEPT !.alarms = @ \cup {"a header drops the epoch's sparks"}]
            ELSE chained
    IN [checked EXCEPT !.heads = Forget(@, h.epoch),
                       !.last = [epoch |-> h.epoch, hash |-> HeaderHash(h)]]

\* The headers of a range of epochs, in order.
CheckAll(st, from, to) ==
    LET checked[e \in (from - 1)..to] ==
            IF e < from THEN st
            ELSE IF e \in DOMAIN headers THEN check_header(checked[e - 1], headers[e])
            ELSE checked[e - 1]
    IN checked[to]

(***************************************************************************)
(* Books::close and Books::settle.                                         *)
(***************************************************************************)
\* The log of an epoch: its window and its sparks in order.
log_of(e) == [window |-> windows[e], sparks |-> EpochSparks(e)]

CloseAlarms(b, e, h, log, known) ==
    LET w == log.window
        Raise(condition, what) == IF condition THEN {what} ELSE {}
    IN UNION {
        Raise(h.prev # ZeroHash /\ w.challenge # h.prev, "challenge"),
        Raise(b.last.epoch # NULL /\ b.last.epoch + 1 = e
              /\ w.target # next_target(b.last.target, b.last.accepted), "target"),
        Raise(w.accepted # NULL /\ w.accepted # Len(log.sparks), "count"),
        Raise(h.log # log.sparks, "the log is not the header's"),
        Raise(\E s \in ToSet(log.sparks) : s.mined # e, "sparks below their target"),
        Raise(\E s \in ToSet(log.sparks) : b.status[s.wish] = "none" /\ s.wish \notin known,
              "a spark for a wish nobody knows")}

\* Work, first sparks and expiry: a wish enters with its first spark.
Credit(log, e) ==
    [w \in Wishes |->
        Cardinality({i \in SparksFor(w, log.sparks) : log.sparks[i].mined = e})
            * SparkWeight(log.window.target)]

AddWindow(b, e, log, known) ==
    LET listed == {w \in Wishes : b.status[w] # "none" \/ w \in known}
        credit == Credit(log, e)
        stands(w) == IF b.status[w] = "none" /\ w \in listed /\ credit[w] > 0 THEN "open"
                     ELSE b.status[w]
    IN [b EXCEPT !.work = [w \in Wishes |-> @[w] + IF w \in listed THEN credit[w] ELSE 0],
                 !.status = [w \in Wishes |-> IF stands(w) = "open" /\ ExpiresOf[w] <= e
                                              THEN "expired" ELSE stands(w)],
                 !.last = [epoch |-> e, target |-> log.window.target,
                           accepted |-> Len(log.sparks)]]

Waiting(b) == {w \in Wishes : b.status[w] \in {"open", "ready"}}

BooksChoice(b, tie) ==
    select({[id |-> w, action |-> ActionOf[w], work |-> b.work[w], share |-> 100] :
               w \in Waiting(b) \ nature[Len(replayed)].closed},
           b.price, PriceMin, tie)

AfterChoice(b, chosen) ==
    [b EXCEPT !.price = chosen.next_price,
              !.status = [w \in Wishes |->
                            CASE w \in ToSet(chosen.selected) -> "selected"
                              [] w \in ToSet(chosen.ready) \ ToSet(chosen.selected) -> "ready"
                              [] OTHER -> @[w]]]

\* What the world did with the miracles selected.
Settled(b, e, sel) ==
    [b EXCEPT !.status = [w \in Wishes |-> IF w \in ToSet(sel)
                                           THEN StatusOfOutcome(nature[e].outcome[w]) ELSE @[w]]]

BooksRoot(b) == [price |-> b.price,
                 entries |-> {[wish |-> w, work |-> b.work[w], queued |-> b.status[w] = "ready"] :
                                 w \in Waiting(b)}]

KeepsTheHopeless(b, e) == b
WithoutHopeless(b, e) ==
    [b EXCEPT !.status = [w \in Wishes |-> IF w \in Waiting(b) \cap nature[e].hopeless
                                           THEN "invalidated" ELSE @[w]]]

(***************************************************************************)
(* The loop.                                                               *)
(***************************************************************************)
\* A watcher starts with genesis and empty books, when the server answers.
Begin ==
    /\ at = "off"
    /\ Serving
    /\ at' = "poll"
    /\ heads' = <<>> /\ last_header' = NoHeader
    /\ replayed' = <<>> /\ diverged' = FALSE
    /\ books' = NewBooks /\ page' = NoPage /\ alarms' = {}
    /\ UNCHANGED <<vars, nature, early, excuses>>

\* A request that gets no answer ends the program.
NoAnswer ==
    /\ at # "off"
    /\ ~Serving
    /\ at' = "off" /\ page' = NoPage
    /\ UNCHANGED <<vars, nature, heads, last_header, replayed, diverged, books, alarms, early,
                   excuses>>

check_head ==
    /\ at = "poll"
    /\ Serving
    /\ sths[epoch] # {}
    /\ LET st == extends([heads |-> heads, alarms |-> alarms],
                         TreeHead(epoch, LatestHead(epoch).leaves))
       IN heads' = st.heads /\ alarms' = st.alarms
    /\ at' \in {"poll", "headers"}
    /\ UNCHANGED <<vars, nature, last_header, replayed, diverged, books, page, early, excuses>>

check_headers ==
    /\ at = "headers"
    /\ Serving
    /\ LET from == IF last_header = NoHeader THEN 0 ELSE last_header.epoch + 1
           st == CheckAll([heads |-> heads, last |-> last_header, alarms |-> alarms],
                          from, MaxEpoch)
       IN heads' = st.heads /\ last_header' = st.last /\ alarms' = st.alarms
    /\ at' = IF diverged THEN "poll" ELSE "latest"
    /\ UNCHANGED <<vars, nature, replayed, diverged, books, page, early, excuses>>

\* GET /v0/world: the live epoch.
ReadLatest ==
    /\ at = "latest"
    /\ Serving
    /\ IF Len(replayed) < live
       THEN /\ at' = "headers of the page"
            /\ page' = [NoPage EXCEPT !.latest = live,
                                      !.to = Smaller(live, Len(replayed) + ReplayPage)]
       ELSE at' = "poll" /\ page' = NoPage
    /\ UNCHANGED <<vars, nature, heads, last_header, replayed, diverged, books, alarms, early,
                   excuses>>

\* GET /v0/epochs and /v0/headers; a root in a header is that of its epoch.
ReadHeaders ==
    /\ at = "headers of the page"
    /\ Serving
    /\ page' = [page EXCEPT !.headers = [e \in {d \in DOMAIN headers : d <= page.to} |-> headers[e]],
                            !.worlds = SubSeq(store, 1, Smaller(page.to, Len(store)))]
    /\ at' = "miracles of the page"
    /\ excuses' = excuses \cup IF pc = "seal" /\ page.to = Len(run) THEN {"unsealed"} ELSE {}
    /\ UNCHANGED <<vars, nature, heads, last_header, replayed, diverged, books, alarms, early>>

\* GET /v0/miracles and /v0/proposals.
ReadMiracles ==
    /\ at = "miracles of the page"
    /\ Serving
    /\ page' = [page EXCEPT !.given = [e \in 1..page.to |->
                                          [i \in DOMAIN miracles[e] |-> miracles[e][i].wish]],
                            !.known = {w \in Wishes : status[w] # "none"}]
    /\ at' = "replay"
    /\ UNCHANGED <<vars, nature, heads, last_header, replayed, diverged, books, alarms, early,
                   excuses>>

\* The ledger is followed from the header whose previous hash is all zeros.
Activates(h) == h.prev = ZeroHash

\* check_drand: the last head of the epoch asks for a later round than the header has.
\* A header that is served no more had a round that was public before its window was
\* opened, and its head signed, again.  The value is drand's: wait_for returns with it.
TooSoon(e, h) == e \in early \/ e \notin DOMAIN headers \/ headers[e] # h

\* One epoch of the page, with a header or (an empty list) without.
replay(e) ==
    LET signedHeader == e \in DOMAIN page.headers
        h == page.headers[e]
        active == signedHeader /\ (books.active \/ Activates(h))
        log == log_of(e)
        added == AddWindow(books, e, log, page.known)
        chosen == BooksChoice(added, h.beacon)
        settled == Settled(AfterChoice(added, chosen), e, chosen.selected)
        next == [seed |-> IF signedHeader THEN [beacon |-> h.beacon, prev |-> h.prev] ELSE NoSeed,
                 given |-> [i \in DOMAIN page.given[e] |->
                               [wish |-> page.given[e][i],
                                outcome |-> nature[e].outcome[page.given[e][i]]]]]
        same == e > Len(page.worlds) \/ Append(replayed, next) = SubSeq(page.worlds, 1, e)
        drand == IF signedHeader /\ TooSoon(e, h) THEN {"the beacon round came too soon"} ELSE {}
        found ==
          IF ~active THEN {}
          ELSE CloseAlarms(books, e, h, log, page.known)
               \cup (IF chosen.selected # page.given[e]
                     THEN {"the miracles are not the ones selected"} ELSE {})
               \cup (IF h.ledger # BooksRoot(settled) THEN {"the ledger does not replay"} ELSE {})
    IN /\ replayed' = Append(replayed, next)
       /\ books' = IF active THEN [WithoutHopeless(settled, e) EXCEPT !.active = TRUE]
                   ELSE [books EXCEPT !.active = FALSE]
       /\ alarms' = alarms \cup drand \cup found \cup (IF same THEN {} ELSE {"the world does not replay"})
       /\ diverged' = ~same
       /\ at' = IF ~same THEN "poll"
                ELSE IF e < page.to THEN "replay"
                ELSE IF e < page.latest THEN "headers of the page" ELSE "poll"

Replay ==
    /\ at = "replay"
    /\ Serving
    /\ replay(Len(replayed) + 1)
    /\ page' = IF at' = "headers of the page"
               THEN [NoPage EXCEPT !.latest = page.latest,
                                   !.to = Smaller(page.latest, Len(replayed') + ReplayPage)]
               ELSE IF at' = "poll" THEN NoPage ELSE page
    /\ UNCHANGED <<vars, nature, heads, last_header, early, excuses>>

Watches ==
    \/ Begin \/ NoAnswer
    \/ check_head \/ check_headers
    \/ ReadLatest \/ ReadHeaders \/ ReadMiracles \/ Replay

(***************************************************************************)
(* The server, whose world does what nature says.                          *)
(***************************************************************************)
Here == nature[Len(run)]

\* The last head of the window is stamped a round later than the one its epoch takes,
\* which was fixed when the loop woke.
HeadIsLate(cause) ==
    /\ epoch \in LateHeads
    /\ early' = early \cup {epoch}
    /\ excuses' = excuses \cup {cause}
HeadInTime == early' = early \ {epoch} /\ UNCHANGED excuses

\* The loop may have to wait for the intake lock before it closes the window.
ServerRuns ==
    /\ \/ Close /\ (HeadInTime \/ HeadIsLate("waited"))
       \/ /\ \/ Rollback \/ Resume(Here.hopeless)
             \/ \E tie \in Ties : Select(tie, Here.closed)
             \/ /\ Step
                /\ \A i \in DOMAIN given' :
                      given'[i].outcome = nature[Len(run) + 1].outcome[given'[i].wish]
             \/ RecordMiracles \/ Publish \/ SealEpoch \/ Save \/ OpenNext
             \/ CheckWishes(Here.hopeless)
          /\ UNCHANGED <<early, excuses>>
    /\ UNCHANGED <<nature, watcher>>

\* The soft check of propose is against the world shown.  A batch that ends after the
\* close has the head of the closed window signed again.
ServerAnswers(h) ==
    /\ \/ /\ \/ \E s \in FirstSparks, late \in LateTickets :
                   s.wish \notin nature[live].hopeless /\ BeginPropose(h, s, late)
             \/ \E batch \in Batches, late \in LateTickets : BeginSparks(h, batch, late)
             \/ Dismiss(h)
             \/ FinishSparks(h)
          /\ UNCHANGED <<early, excuses>>
       \/ FinishSparks(h) /\ ~open /\ epoch \notin early /\ HeadIsLate("late batch")
    /\ UNCHANGED <<nature, watcher>>

ServerAddsWish(h) ==
    /\ FinishPropose(h)
    /\ excuses' = excuses \cup IF req[h].ticket = epoch THEN {} ELSE {"sparkless"}
    /\ UNCHANGED <<nature, watcher, early>>

ServerDies ==
    /\ \/ Crash \/ CrashInRollback \/ CrashInOpen \/ CrashInClose
       \/ \E tie \in Ties : CrashInSelect(tie, Here.closed)
       \/ \E h \in Handlers : CrashInAppend(h) \/ CrashInPropose(h)
    /\ excuses' = excuses \cup {"restart"}
    /\ UNCHANGED <<nature, watcher, early>>

-----------------------------------------------------------------------------
WatchInit ==
    /\ Init
    /\ nature \in Natures
    /\ at = "off" /\ heads = <<>> /\ last_header = NoHeader
    /\ replayed = <<>> /\ diverged = FALSE
    /\ books = NewBooks /\ page = NoPage /\ alarms = {}
    /\ early = {} /\ excuses = {}

WatchNext ==
    \/ ServerRuns \/ ServerDies
    \/ \E h \in Handlers : ServerAnswers(h) \/ ServerAddsWish(h)
    \/ Watches

WatchSafe == WatchInit /\ [][WatchNext]_all

-----------------------------------------------------------------------------
(* Properties. *)

\* What the watcher says of the log itself is never wrong: whatever crashes and
\* restarts happen between two polls, no head shrinks, is rewritten or fails its
\* consistency proof, no final head drops a spark seen, no challenge is other
\* than the header before and no spark misses its target (extends, Books::close).
LogNeverAccused ==
    alarms \cap {"the log shrank", "the log was rewritten", "a head does not extend the one before",
                 "a header drops the epoch's sparks", "challenge", "sparks below their target"} = {}

\* A server that follows its own code is accused only for a cause: it restarted;
\* or the watcher read the world of an epoch before its header was sealed and
\* stepped it without the beacon (world.rs publishes first), or a wish was stored
\* whose first spark came too late: the signed ledger has it and the logs do not,
\* and where the soft check then gives it up and a spark comes after all, the
\* watcher lets that wish compete, which the server did not; or the last head of an
\* epoch asks for a later round than the epoch took, because the loop waited for the
\* lock after it had timed the close, or a batch that ended after the close had the
\* head signed again.
Causes(a) ==
    CASE a = "the world does not replay" -> {"restart", "unsealed"}
      [] a \in {"the miracles are not the ones selected", "the ledger does not replay"} ->
             {"restart", "sparkless"}
      [] a = "the beacon round came too soon" -> {"restart", "waited", "late batch"}
      [] OTHER -> {"restart"}
AccusedForACause == \A a \in alarms : Causes(a) \cap excuses # {}

\* The watcher's books are the ledger of the server, wish by wish, also where
\* the signed root says nothing (executed, expired, invalidated): when it has
\* replayed all epochs, they differ only in wishes whose first spark is in the
\* open window (Books::close, settle against intake.rs).
BooksAgree ==
    (/\ books.active /\ excuses \cap {"restart", "unsealed", "sparkless"} = {}
     /\ pc = "wait" /\ open /\ Len(replayed) = Len(run)) =>
        /\ books.price = CurrentPrice
        /\ \A w \in Wishes :
              \/ books.status[w] = status[w] /\ books.work[w] = work[w]
              \/ books.status[w] = "none" /\ SparksFor(w, rows[epoch]) # {}

\* The ledger is followed from the first signed header on (watcher/README.md):
\* once an epoch with a signed header is replayed, the books are active.
FollowsTheLedger ==
    \A e \in DOMAIN headers : e > 0 /\ e <= Len(replayed) /\ excuses = {} => books.active

(* Facts about values, evaluated once, before the server has started. *)
Once(fact) == boots = 0 /\ at = "off" => fact

\* An audit path verifies for the leaf, the place and the tree it was made for
\* and for no other, at any size; both crates shape their trees alike; and a
\* consistency proof verifies exactly if the earlier tree is a prefix of the
\* later one, leaf by leaf (inclusion_proof, verify_inclusion,
\* consistency_proof, verify_consistency; core/src/merkle.rs).
ProofsAreExact ==
    Once(/\ GenuinePathsVerify(9) /\ AuditPathsAreExact(5) /\ OneShape(64)
         /\ ConsistencyIsPrefix(7))
=============================================================================
