------------------------------- MODULE Intake -------------------------------
(***************************************************************************)
(* The intake of the world server (server/src/intake.rs, struct Intake):   *)
(* the wishes, the spark log of every epoch with its signed tree heads,    *)
(* the ledger and the signed headers, as they stand in sparks.sqlite, and  *)
(* the memory beside them (the open window, its leaves and the spark ids   *)
(* already seen).                                                          *)
(*                                                                         *)
(* Each operation of the struct is an operator that gives every primed     *)
(* variable it writes; Server composes them into the actions of the world  *)
(* loop and of the HTTP handlers, which all hold the intake lock while     *)
(* they call one.                                                          *)
(*                                                                         *)
(* A spark is a record [wish, nonce, mined]: nonce stands for the miner    *)
(* key and the nonce, mined is the window whose challenge and target its   *)
(* proof of work meets (0: none).  A hash is the identity of what it       *)
(* covers: a header hash is [epoch, boot], boot being the run of the       *)
(* process that signed the header (its timestamp makes every signing       *)
(* distinct), and a tree root is the sequence of leaves under it.          *)
(***************************************************************************)
EXTENDS Ledger, FiniteSets

CONSTANTS
    MaxEpoch,        \* the epoch at which the world is finished
    Wishes,          \* the proposal ids
    AuthorOf,        \* the author key of each wish
    ActionOf,        \* its action
    CreatedOf,       \* its created_epoch
    ExpiresOf,       \* its expires_epoch
    Nonces,          \* the (miner, nonce) pairs of sparks
    Ties,            \* the orders a beacon value can put the ids in
    OPEN_PER_AUTHOR, \* open wishes per author at most (3)
    PriceMin,        \* the floor of the price, in work units
    FirstTarget      \* the target of the first window

Windows == 1..(MaxEpoch + 1)
Sparks == [wish : Wishes, nonce : Nonces, mined : 0..(MaxEpoch + 1)]

ASSUME IntakeAssumption ==
    /\ MaxEpoch \in Nat \ {0}
    /\ IsFiniteSet(Wishes)
    /\ ExpiresOf \in [Wishes -> Nat]
    /\ CreatedOf \in [Wishes -> Nat]
    /\ OPEN_PER_AUTHOR \in Nat \ {0}
    /\ PriceMin \in Nat \ {0}
    /\ FirstTarget \in 1..(HashSpace - 1)

\* What the selection needs: actions the conflict rule can read, and ids that
\* no beacon puts in one place.
ASSUME ChoiceAssumption ==
    /\ \A w \in Wishes : IsAction(ActionOf[w])
    /\ \A tie \in Ties : /\ tie \in [Wishes -> Int]
                         /\ \A v, w \in Wishes : v # w => tie[v] # tie[w]

NULL == -1
SparkId(s) == <<s.wish, s.nonce>>
HeaderHash(h) == [epoch |-> h.epoch, boot |-> h.boot]
ZeroHash == [epoch |-> NULL, boot |-> 0]
GenesisRoot == [epoch |-> NULL, boot |-> 1]

VARIABLES
    (* sparks.sqlite *)
    windows,    \* epoch -> [challenge, target, accepted]; accepted is NULL until it closes
    rows,       \* table sparks: the log of an epoch while its window is open
    logs,       \* table logs: the packed log of a closed epoch
    sths,       \* table sths: the tree heads kept of each epoch, [leaves, final]
    status,     \* table wishes: "none" where there is no row
    work,
    executedIn, \* executed_epoch
    price,      \* table ledger
    miracles,   \* epoch -> the miracles given to the world, [wish, outcome]
    headers,    \* epoch -> its signed header
    (* memory *)
    epoch, open, leaves, seen, previous,
    (* what the outside has been shown *)
    signed      \* epoch -> the leaves under the last tree head signed for it

disk == <<windows, rows, logs, sths, status, work, executedIn, price, miracles, headers>>
memory == <<epoch, open, leaves, seen, previous>>
wishTable == <<status, work, executedIn>>

Statuses == {"none", "open", "ready", "selected", "executed", "expired", "invalidated"}

\* f with f[x] = v, whether or not x was in its domain (INSERT OR REPLACE).
Put(f, x, v) == [y \in DOMAIN f \cup {x} |-> IF y = x THEN v ELSE f[y]]

WithStatus(S, st) == [w \in Wishes |-> IF w \in S THEN st ELSE status[w]]

\* epoch_sparks: packed once the window closed, rows while it is open.
EpochSparks(e) == IF e \in DOMAIN logs THEN logs[e] ELSE rows[e]

Ids(sq) == {SparkId(sq[i]) : i \in DOMAIN sq}

\* What a reopened window starts from: the rows, the leaves and the spark ids it
\* already has.
SeenOf(e) == Ids(EpochSparks(e))

ReopensEmpty(e) == rows[e]
RowsOf(e) == EpochSparks(e)
LeavesOf(e) == EpochSparks(e)

(***************************************************************************)
(* sign_head and head.                                                      *)
(***************************************************************************)
\* The primary key is (epoch, tree_size): a head of the same size is replaced.
SignHead(e, ls, final) ==
    /\ sths' = [sths EXCEPT ![e] =
                  {h \in @ : Len(h.leaves) # Len(ls)} \cup {[leaves |-> ls, final |-> final]}]
    /\ signed' = [signed EXCEPT ![e] = ls]

\* The final head if there is one, else the largest.
LatestHead(e) ==
    LET finals == {h \in sths[e] : h.final}
        pool == IF finals # {} THEN finals ELSE sths[e]
    IN CHOOSE h \in pool : \A g \in pool : Len(g.leaves) <= Len(h.leaves)

(***************************************************************************)
(* open_window and close_window.                                           *)
(***************************************************************************)
\* The target follows the last window before e.
TargetFor(e) ==
    LET below == {d \in DOMAIN windows : d < e}
        last == windows[CHOOSE d \in below : \A c \in below : c <= d]
    IN IF below = {} THEN FirstTarget
       ELSE IF last.accepted = NULL THEN last.target
       ELSE next_target(last.target, last.accepted)

\* A window that was opened before keeps its challenge and its target.
WindowRow(e, prevHash) ==
    windows' = IF e \in DOMAIN windows THEN windows
               ELSE Put(windows, e, [challenge |-> prevHash, target |-> TargetFor(e),
                                     accepted |-> NULL])

BackToRows(e) ==
    /\ rows' = [rows EXCEPT ![e] = RowsOf(e)]
    /\ logs' = [d \in DOMAIN logs \ {e} |-> logs[d]]

OpenWindow(e, prevHash) ==
    /\ WindowRow(e, prevHash)
    /\ BackToRows(e)
    /\ previous' = IF epoch # 0 /\ epoch + 1 = e THEN epoch ELSE previous
    /\ epoch' = e
    /\ leaves' = LeavesOf(e)
    /\ seen' = SeenOf(e)
    /\ open' = TRUE
    /\ SignHead(e, EpochSparks(e), FALSE)

\* Every spark of a window weighs the same.
SparkWeight(target) == HashSpace \div target

SparksFor(w, sq) == {i \in DOMAIN sq : sq[i].wish = w}

\* The work a closing window adds to each wish that has a row.
CountsOneSpark(sq, each) ==
    [w \in Wishes |-> IF status[w] = "none" \/ SparksFor(w, sq) = {} THEN work[w]
                      ELSE work[w] + each]
ReplacesWork(sq, each) ==
    [w \in Wishes |-> IF status[w] = "none" \/ SparksFor(w, sq) = {} THEN work[w]
                      ELSE Cardinality(SparksFor(w, sq)) * each]
WorkWith(sq, each) ==
    [w \in Wishes |->
        IF status[w] = "none" THEN work[w]
        ELSE work[w] + Cardinality(SparksFor(w, sq)) * each]

Expiring(e) == {w \in Wishes : status[w] = "open" /\ ExpiresOf[w] <= e}

\* The transaction of close_window, after the final head: the count, only the
\* final head kept, the log packed, the work added, open wishes expired.
CloseWindow ==
    /\ open
    /\ open' = FALSE
    /\ sths' = [sths EXCEPT ![epoch] =
                  {h \in @ : h.final /\ Len(h.leaves) # Len(leaves)}
                  \cup {[leaves |-> leaves, final |-> TRUE]}]
    /\ signed' = [signed EXCEPT ![epoch] = leaves]
    /\ windows' = [windows EXCEPT ![epoch].accepted = Len(leaves)]
    /\ logs' = Put(logs, epoch, rows[epoch])
    /\ rows' = [rows EXCEPT ![epoch] = <<>>]
    /\ work' = WorkWith(rows[epoch], SparkWeight(windows[epoch].target))
    /\ status' = WithStatus(Expiring(epoch), "expired")
    /\ UNCHANGED <<epoch, leaves, seen, previous, executedIn, price, miracles, headers>>

(***************************************************************************)
(* select_miracles, record, soft_check and seal.                           *)
(***************************************************************************)
Queue == {w \in Wishes : status[w] \in {"open", "ready"}}

CurrentPrice == Larger(price, PriceMin)

Candidate(w) == [id |-> w, action |-> ActionOf[w], work |-> work[w], share |-> 100]

\* The share rule may close some wishes for this epoch: they are no candidates.
Choice(tie, shareClosed) ==
    select({Candidate(w) : w \in Queue \ shareClosed}, CurrentPrice, PriceMin, tie)

\* The updates of select_miracles for the first n writes of ready, then of
\* selected: they are single statements, not a transaction.
StatusWrites(chosen, n) ==
    LET First(sq, m) == {sq[i] : i \in {j \in DOMAIN sq : j <= m}}
        ready == First(chosen.ready, n)
        taken == First(chosen.selected, n - Len(chosen.ready))
    IN [w \in Wishes |->
          CASE w \in taken -> "selected"
            [] w \in ready \ taken -> "ready"
            [] OTHER -> status[w]]

SelectMiracles(chosen) ==
    /\ status' = StatusWrites(chosen, Len(chosen.ready) + Len(chosen.selected))
    /\ price' = chosen.next_price

OutcomeAsStatus(o) == o
StatusOfOutcome(o) ==
    CASE o = "applied" -> "executed" [] o = "deferred" -> "ready" [] o = "refused" -> "invalidated"

\* The entries of given replace those with the same index; later ones stay.
Overwrite(old, given) == given \o SubSeq(old, Len(given) + 1, Len(old))

Record(e, given) ==
    LET Outcome(w) == given[CHOOSE i \in DOMAIN given : given[i].wish = w].outcome
        named == {given[i].wish : i \in DOMAIN given}
    IN /\ status' = [w \in Wishes |-> IF w \in named THEN StatusOfOutcome(Outcome(w))
                                      ELSE status[w]]
       /\ executedIn' = [w \in Wishes |->
                            IF w \notin named THEN executedIn[w]
                            ELSE IF Outcome(w) = "applied" THEN e ELSE NULL]
       /\ miracles' = [miracles EXCEPT ![e] = Overwrite(@, given)]

Hopeless(failing) == failing \cap Queue
SoftCheck(failing) == status' = WithStatus(Hopeless(failing), "invalidated")

\* ledger_root: the price, and every open or queued wish with its work.
LedgerRoot == [price |-> CurrentPrice,
               entries |-> {[wish |-> w, work |-> work[w], queued |-> status[w] = "ready"] :
                               w \in Queue}]

\* The hash of the last header before e, whatever its epoch.
FirstHeaderHash(e) == IF 0 \in DOMAIN headers THEN HeaderHash(headers[0]) ELSE ZeroHash
LastHeaderHash(e) ==
    LET below == {d \in DOMAIN headers : d < e}
    IN IF below = {} THEN ZeroHash
       ELSE HeaderHash(headers[CHOOSE d \in below : \A c \in below : c <= d])

\* header_hash: of exactly this epoch, or what stands in for it.
HeaderBefore(e, other) == LastHeaderHash(e)
HeaderHashOr(e, other) == IF e \in DOMAIN headers THEN HeaderHash(headers[e]) ELSE other

NewHeader(e, boot, beacon) ==
    [epoch |-> e, boot |-> boot, prev |-> LastHeaderHash(e), ledger |-> LedgerRoot,
     log |-> IF sths[e] = {} THEN <<>> ELSE LatestHead(e).leaves,
     beacon |-> beacon, miracles |-> miracles[e]]

Seal(e, boot, beacon) == headers' = Put(headers, e, NewHeader(e, boot, beacon))

(***************************************************************************)
(* rollback_after: the miracles of later epochs are undone with the world, *)
(* and their wishes go back to the queue.                                  *)
(***************************************************************************)
UndoneOnlyExecuted(e) == {w \in Wishes : executedIn[w] > e}
UndoneTooMany(e) == {w \in Wishes : executedIn[w] >= e \/ status[w] = "selected"}
Undone(e) == {w \in Wishes : executedIn[w] > e \/ status[w] = "selected"}

KeepsEveryHeader(e) == DOMAIN headers
KeepsEarlierHeaders(e) == {d \in DOMAIN headers : d < e}
KeptHeaders(e) == {d \in DOMAIN headers : d <= e}

KeptMiracles(e) == [d \in DOMAIN miracles |-> IF d > e THEN <<>> ELSE miracles[d]]

RollbackAfter(e) ==
    /\ miracles' = KeptMiracles(e)
    /\ headers' = [d \in KeptHeaders(e) |-> headers[d]]
    /\ status' = WithStatus(Undone(e), "ready")
    /\ executedIn' = [w \in Wishes |-> IF w \in Undone(e) THEN NULL ELSE executedIn[w]]

(***************************************************************************)
(* precheck, precheck_wish, add_wish and append.                           *)
(***************************************************************************)
Precheck(s) == open /\ status[s.wish] = "open" /\ SparkId(s) \notin seen

OpenBy(author) == {w \in Wishes : AuthorOf[w] = author /\ status[w] = "open"}

PrecheckWish(w) ==
    /\ open
    /\ CreatedOf[w] + 1 >= epoch
    /\ CreatedOf[w] <= epoch
    /\ status[w] = "none"
    /\ Cardinality(OpenBy(AuthorOf[w])) < OPEN_PER_AUTHOR

\* A spark is placed when its window is still the open one and its id is new.
AcceptsWhileOpen(ticket) == open
Accepts(ticket) == open /\ epoch = ticket

\* The positions of a batch that append places: ids neither in the log nor
\* earlier in the batch.
FreshInLog(ticket, batch) ==
    {i \in DOMAIN batch : Accepts(ticket) /\ SparkId(batch[i]) \notin seen}
Fresh(ticket, batch) ==
    {i \in DOMAIN batch :
        /\ Accepts(ticket)
        /\ SparkId(batch[i]) \notin seen
        /\ \A j \in DOMAIN batch : j < i => SparkId(batch[j]) # SparkId(batch[i])}

\* The lists of positions of a batch that keep its order.
Orders(batch) ==
    {f \in BoundedSeq(DOMAIN batch, Len(batch)) :
        \A i, j \in DOMAIN f : i < j => f[i] < f[j]}

\* The sparks pushed follow the log in memory, those tried count as seen.
Remember(pushed, tried) ==
    /\ leaves' = leaves \o pushed
    /\ seen' = seen \cup Ids(tried)

\* What append places of a batch (one list).
Placed(ticket, batch) ==
    {[i \in DOMAIN f |-> batch[f[i]]] :
        f \in {g \in Orders(batch) : ToSet(g) = Fresh(ticket, batch)}}

\* append: the rows are committed, the memory follows, a head is signed.
AppendSparks(ticket, batch) ==
    \E new \in Placed(ticket, batch) :
        /\ rows' = [rows EXCEPT ![epoch] = @ \o new]
        /\ Remember(new, new)
        /\ SignHead(epoch, leaves \o new, FALSE)

\* append when its transaction fails (the disk is full, the database busy), at
\* its n-th insert or at the commit: nothing is stored and no head is signed,
\* but the memory has followed up to there.
AppendUnstored(ticket, batch) ==
    \E new \in Placed(ticket, batch) : \E n \in DOMAIN new :
        \/ Remember(SubSeq(new, 1, n - 1), SubSeq(new, 1, n))
        \/ n = Len(new) /\ Remember(new, new)

-----------------------------------------------------------------------------
(* The state of a fresh data directory, before the server has started. *)
IntakeInit ==
    /\ windows = <<>>
    /\ rows = [e \in Windows |-> <<>>]
    /\ logs = <<>>
    /\ sths = [e \in Windows |-> {}]
    /\ status = [w \in Wishes |-> "none"]
    /\ work = [w \in Wishes |-> 0]
    /\ executedIn = [w \in Wishes |-> NULL]
    /\ price = PriceMin
    /\ miracles = [e \in 1..MaxEpoch |-> <<>>]
    /\ headers = <<>>
    /\ epoch = 0 /\ open = FALSE /\ leaves = <<>> /\ seen = {} /\ previous = 0
    /\ signed = [e \in Windows |-> <<>>]

\* What a process that ends leaves behind: nothing of its memory.
MemoryLost ==
    /\ epoch' = 0 /\ open' = FALSE /\ leaves' = <<>> /\ seen' = {} /\ previous' = 0
=============================================================================
