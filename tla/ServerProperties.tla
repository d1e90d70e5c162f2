--------------------------- MODULE ServerProperties ---------------------------
(***************************************************************************)
(* What the world server promises: about the spark logs and the heads it   *)
(* signs over them, about the signed headers, about the world that a       *)
(* restart resumes, and about the ledger.                                  *)
(***************************************************************************)
EXTENDS Server

-----------------------------------------------------------------------------
(* Types. *)

HeaderHashes == [epoch : Int, boot : Nat]
WindowRecords == [challenge : HeaderHashes, target : Nat \ {0}, accepted : Nat \cup {NULL}]
TreeHeads == [leaves : Seq(Sparks), final : BOOLEAN]
Epochs == [seed : [beacon : Ties \cup {NoSeed.beacon}, prev : HeaderHashes], given : Seq(Miracle)]
Requests == [kind : {"idle", "propose", "sparks"}, batch : Seq(Sparks),
             ticket : 0..(MaxEpoch + 1), late : 0..MaxEpoch]
Stages == {"down", "starting", "wait", "beacon", "step", "record", "publish", "seal", "save",
           "open", "soft"}

LogTypes ==
    /\ DOMAIN windows \subseteq Windows
    /\ \A e \in DOMAIN windows : windows[e] \in WindowRecords
    /\ rows \in [Windows -> Seq(Sparks)]
    /\ DOMAIN logs \subseteq Windows
    /\ \A e \in DOMAIN logs : logs[e] \in Seq(Sparks)
    /\ DOMAIN sths = Windows
    /\ \A e \in Windows : \A head \in sths[e] : head \in TreeHeads
    /\ signed \in [Windows -> Seq(Sparks)]

WishTypes ==
    /\ status \in [Wishes -> Statuses]
    /\ work \in [Wishes -> Nat]
    /\ executedIn \in [Wishes -> 1..MaxEpoch \cup {NULL}]
    /\ price \in Nat

ChainTypes ==
    /\ miracles \in [1..MaxEpoch -> Seq(Miracle)]
    /\ DOMAIN headers \subseteq 0..MaxEpoch
    /\ \A e \in DOMAIN headers : HeaderHash(headers[e]) \in HeaderHashes /\ headers[e].epoch = e

MemoryTypes ==
    /\ epoch \in 0..(MaxEpoch + 1) /\ previous \in 0..MaxEpoch
    /\ open \in BOOLEAN
    /\ leaves \in Seq(Sparks)
    /\ seen \subseteq Wishes \X Nonces

WorldTypes ==
    /\ pc \in Stages
    /\ run \in Seq(Epochs) /\ store \in Seq(Epochs) /\ snapshot \in Seq(Epochs)
    /\ selected \in Seq(Wishes) /\ given \in Seq(Miracle)
    /\ seed \in [beacon : Ties \cup {NoSeed.beacon}, prev : HeaderHashes]
    /\ boots \in 0..MaxBoots
    /\ live \in 0..MaxEpoch

RequestTypes ==
    /\ req \in [Handlers -> Requests]
    /\ \A h \in Handlers : req[h].kind = "propose" => Len(req[h].batch) = 1

\* Every variable keeps its type.
TypeOK == LogTypes /\ WishTypes /\ ChainTypes /\ MemoryTypes /\ WorldTypes /\ RequestTypes

-----------------------------------------------------------------------------
(* The loop, the window and the headers. *)

\* The headers start at genesis, those of an old world at its first new epoch.
FirstHeader == IF OldEpochs = 0 THEN 0 ELSE OldEpochs + 1
FirstWindow == OldEpochs + 1

\* The last epoch with a header is k; -1 if genesis has none.
HeadersTo(k) == DOMAIN headers = FirstHeader..k
WindowsTo(k) == DOMAIN windows = FirstWindow..k

\* Before the first window has opened the chain of headers has not started.
HeadersSaved == HeadersTo(Len(snapshot)) \/ (snapshot = <<>> /\ HeadersTo(-1))
WindowsSaved == WindowsTo(Len(snapshot)) \/ WindowsTo(Len(snapshot) + 1)

\* The window, the world in memory, its snapshot and the chain of headers are
\* never more than one epoch apart, and at each point of the loop exactly as
\* far apart as the code there relies on (world.rs run_loop, start).
LoopInStep ==
    /\ Len(run) <= MaxEpoch /\ Len(snapshot) \in OldEpochs..MaxEpoch
    /\ IsPrefix(snapshot, store)
    /\ pc # "down" => store = run
    /\ open <=> pc \in {"wait", "soft"}
    /\ pc = "down" =>
          /\ epoch = 0
          /\ WindowsSaved
          /\ HeadersSaved \/ (HeadersTo(Len(snapshot) + 1) /\ WindowsTo(Len(snapshot) + 1))
    /\ pc = "starting" => epoch = 0 /\ run = snapshot /\ WindowsSaved /\ HeadersSaved
    /\ pc \in {"wait", "beacon", "step", "soft"} =>
          /\ run = snapshot /\ HeadersTo(Len(run))
          /\ epoch = Len(run) + 1 /\ WindowsTo(epoch)
    /\ pc \in {"beacon", "step"} => Len(run) < MaxEpoch
    /\ pc \in {"record", "publish", "seal", "save"} =>
          /\ Len(run) = Len(snapshot) + 1
          /\ HeadersTo(IF pc = "save" THEN Len(run) ELSE Len(snapshot))
          /\ epoch = Len(run) /\ WindowsTo(epoch)
    /\ pc = "open" =>
          /\ run = snapshot /\ HeadersTo(Len(run)) /\ Len(run) > OldEpochs
          /\ epoch = Len(run) /\ WindowsTo(epoch)

-----------------------------------------------------------------------------
(* The logs and their heads. *)

\* A tree head signed for an epoch is never contradicted: every later one
\* covers its leaves, through crashes and reopened windows (intake.rs
\* sign_head, open_window; spec section 18: a consistency proof exists
\* between any two heads).
HeadsExtend == [][\A e \in Windows : IsPrefix(signed[e], signed'[e])]_vars

\* What a head covers is in the database: its inclusion proofs can be served
\* after a crash at any point (append commits before it signs).
SignedIsStored == \A e \in Windows : IsPrefix(signed[e], EpochSparks(e))

\* No spark lands in the log of an epoch whose challenge it was not mined for,
\* although its proof of work is checked while the window may move on.
SparksInTheirWindow ==
    \A e \in Windows : \A i \in DOMAIN EpochSparks(e) : EpochSparks(e)[i].mined = e

\* No spark is in a log twice: not from one batch, nor from two requests in
\* flight, nor again after a restart.
NoDuplicateSparks ==
    \A e \in Windows : \A i, j \in DOMAIN EpochSparks(e) :
        i # j => SparkId(EpochSparks(e)[i]) # SparkId(EpochSparks(e)[j])

\* No author has more open wishes than allowed, whatever two of his requests
\* do while their sparks are verified.
OpenPerAuthor == \A w \in Wishes : Cardinality(OpenBy(AuthorOf[w])) <= OPEN_PER_AUTHOR

-----------------------------------------------------------------------------
(* The headers. *)

\* The headers are one chain from genesis, and every window's challenge
\* commits to the header before it, also when an epoch was sealed twice.
ChainLinks ==
    /\ \A e \in DOMAIN headers :
          IF e = FirstHeader THEN headers[e].prev = ZeroHash
          ELSE e - 1 \in DOMAIN headers /\ headers[e].prev = HeaderHash(headers[e - 1])
    /\ \A e \in DOMAIN windows \ {FirstWindow} :
          e - 1 \in DOMAIN headers /\ windows[e].challenge = HeaderHash(headers[e - 1])

-----------------------------------------------------------------------------
(* The world. *)

\* While the server runs, a signed header commits to what the database serves
\* for its epoch: the whole log, counted by its window, and the miracles given.
HeaderCommits ==
    pc # "down" =>
        \A e \in DOMAIN headers \ {0} :
            /\ headers[e].log = EpochSparks(e)
            /\ windows[e].accepted = Len(headers[e].log)
            /\ headers[e].miracles = miracles[e]

\* The world of the snapshot can be replayed from what is published: each of
\* its epochs has its header, its beacon and its miracles as they seeded the
\* step, and the event store has recorded the same epochs.
ReplayableWorld ==
    /\ HeaderCommits
    /\ IsPrefix(snapshot, store)
    /\ \A e \in DOMAIN snapshot :
          IF e <= OldEpochs THEN snapshot[e].seed = NoSeed /\ snapshot[e].given = <<>>
          ELSE /\ e \in DOMAIN headers
               /\ snapshot[e].given = miracles[e]
               /\ snapshot[e].seed = [beacon |-> headers[e].beacon, prev |-> headers[e].prev]

\* The times a wish took effect in the world that miracles describe.
Applied(w) ==
    {at \in (1..MaxEpoch) \X (1..PER_EPOCH) :
        /\ at[2] \in DOMAIN miracles[at[1]]
        /\ miracles[at[1]][at[2]] = [wish |-> w, outcome |-> "applied"]}

\* A wish takes effect at most once, and while the server runs it is executed
\* exactly when it took effect, in the epoch the ledger names: through
\* rollbacks that stop half-way, re-selections and deferrals.
ExecutedOnce ==
    \A w \in Wishes :
        /\ Cardinality(Applied(w)) <= 1
        /\ pc # "down" =>
              /\ status[w] = "executed" <=> Applied(w) # {}
              /\ \A a \in Applied(w) : executedIn[w] = a[1]

-----------------------------------------------------------------------------
(* The ledger. *)

\* The work that each closed window holds for a wish.
Shares(w) ==
    [e \in Windows |->
        IF e \in DOMAIN logs
        THEN Cardinality(SparksFor(w, logs[e])) * SparkWeight(windows[e].target)
        ELSE 0]

\* f[1] + ... + f[n].
SumTo(f, n) ==
    LET sum[k \in 0..n] == IF k = 0 THEN 0 ELSE sum[k - 1] + f[k]
    IN sum[n]

\* The work that the closed windows hold for a wish.
Earned(w) == SumTo(Shares(w), MaxEpoch + 1)

\* Work is never lost, whenever the process ends.
NoWorkLost == \A w \in Wishes : work[w] >= Earned(w)

\* Work is counted once: after a window closed, a wish's work is the weight of
\* its sparks (protocol.md section 7).
WorkCountedOnce == \A w \in Wishes : work[w] = Earned(w)

-----------------------------------------------------------------------------
(* Liveness. *)

\* The world reaches its last epoch and saves it, whatever crashes there were.
WorldAdvances == <>(Len(snapshot) = MaxEpoch)

\* No wish stays where it is: a selected one takes effect, waits or ends, also
\* when the process ended between its selection and its epoch; and one that
\* nobody pays for does not stay open past its lifetime, as long as the world
\* goes on that far.
WishesSettle ==
    \A w \in Wishes :
        /\ status[w] = "selected" ~> status[w] # "selected"
        /\ ExpiresOf[w] <= MaxEpoch => (status[w] = "open" ~> status[w] # "open")

-----------------------------------------------------------------------------
(* Refinement: at its saved epochs the server is a sealed chain. *)

Public == INSTANCE SealedChain WITH
    Links <- [epoch : NULL..MaxEpoch, boot : 0..MaxBoots],
    pending <- IF Len(snapshot) + 1 \in Windows THEN EpochSparks(Len(snapshot) + 1) ELSE <<>>,
    chain <- [n \in 1..(Len(snapshot) - OldEpochs) |->
                [sparks |-> headers[OldEpochs + n].log,
                 link |-> HeaderHash(headers[OldEpochs + n]),
                 prev |-> headers[OldEpochs + n].prev]]

\* The server implements the sealed chain: sparks accepted for an epoch are
\* never lost, and what is sealed and saved is never changed.
ImplementsSealedChain == Public!Spec

-----------------------------------------------------------------------------
(* What the documents and comments say, and the code does not do. *)

\* intake.rs, Intake: leaves are the leaf hashes of this epoch's log.
LeavesAreTheLog == open => leaves = EpochSparks(epoch)
=============================================================================
