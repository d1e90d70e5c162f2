---------------------------- MODULE ServerProofs ----------------------------
(***************************************************************************)
(* What holds of the world server for every value of the constants: any    *)
(* number of epochs, wishes, handlers, crashes and restarts.               *)
(*                                                                         *)
(* TypeOK and LoopInStep are inductive together; the rest of the           *)
(* invariants are proved on top of them: those of the spark logs, the      *)
(* headers and the world behind them.                                      *)
(*                                                                         *)
(* Every step of the server leaves the logs as they are or adds new sparks *)
(* to the log of the open window (LogStep).  What makes the new sparks     *)
(* right are two facts about an open window: it is not packed, and every   *)
(* spark id of its log is in seen.                                         *)
(*                                                                         *)
(* The heads are shown for a process in which no transaction of append     *)
(* fails while it goes on (DiskFaults is FALSE): then the leaves in memory *)
(* are the log of the current window, so a head that is signed covers the  *)
(* whole log at that moment, and logs only grow at their end.              *)
(*                                                                         *)
(* ChainLinks is inductive on top of LoopInStep: a header is written only  *)
(* where the headers end, a window is opened only after its header, and a  *)
(* restart drops the headers after the snapshot, of which no window that   *)
(* was opened knows.                                                       *)
(*                                                                         *)
(* Replay and refinement hold under the same condition.  The argument      *)
(* follows an epoch through the loop.  A head that is marked final covers  *)
(* the whole log, and while a window is open it has none; so the head that *)
(* a header takes its log from is the whole log, although a late request   *)
(* may have signed a plain one over the final one.  Between its close and  *)
(* its save the epoch in hand keeps its seed and its miracles, and nothing *)
(* that a step of another epoch or a request does reaches the epochs       *)
(* before it.                                                              *)
(*                                                                         *)
(* The last part is about the wishes and their work: how many an author    *)
(* can have open, that no work is lost, and when it is counted exactly     *)
(* once.  A wish is opened in one place, by a request that has checked it  *)
(* under the same lock; every other step leaves its status alone or moves  *)
(* it on.  So sparks are only placed for wishes that have a row, and a     *)
(* window that closes counts all of its sparks.                            *)
(***************************************************************************)
EXTENDS ServerProperties, LedgerProofs

-----------------------------------------------------------------------------
(* Facts about the operators of the model. *)

\* The list type that bounded sequences have.
LEMMA BoundedSeqIsSeq ==
    ASSUME NEW S, NEW n \in Nat, NEW sq \in BoundedSeq(S, n)
    PROVE  sq \in Seq(S)
BY SeqDef, SMT DEF BoundedSeq, SeqOf

\* A batch filtered in order is a batch (append, check_pow).
LEMMA PickIsSeq ==
    ASSUME NEW batch \in Seq(Sparks), NEW f \in Orders(batch)
    PROVE  [i \in DOMAIN f |-> batch[f[i]]] \in Seq(Sparks)
<1>1. f \in Seq(1..Len(batch)) /\ DOMAIN batch = 1..Len(batch)
    BY LenProperties, BoundedSeqIsSeq DEF Orders
<1>2. DOMAIN f = 1..Len(f) /\ Len(f) \in Nat
    BY <1>1, LenProperties
<1>3. \A i \in DOMAIN f : batch[f[i]] \in Sparks
    BY <1>1, <1>2, ElementOfSeq
<1> QED BY <1>2, <1>3, SeqDef

\* The target of a window never falls below 1 and stays below HashSpace
\* (spark.rs next_target).
LEMMA NextTargetType ==
    ASSUME NEW target \in Nat \ {0}, NEW accepted \in Nat
    PROVE  /\ next_target(target, accepted) \in Nat \ {0}
           /\ target < HashSpace => next_target(target, accepted) < HashSpace
<1>1. CASE accepted = 0
    BY <1>1 DEF next_target
<1>2. CASE accepted # 0
    <2> DEFINE want == (target * TARGET_SPARKS) \div accepted
               low == (target * 3) \div 4
               high == (target * 5) \div 4
    <2>1. target * TARGET_SPARKS \in Nat
        BY TargetSparksAssumption
    <2>2. want \in Int
        BY <1>2, <2>1
    <2>3. low \in Int /\ high \in Int
        OBVIOUS
    <2> HIDE DEF want, low, high
    <2>4. Clamp(want, low, high) \in Int
        BY <2>2, <2>3 DEF Clamp, Larger, Smaller
    <2>5. next_target(target, accepted) = Clamp(Clamp(want, low, high), 1, HashSpace - 1)
        BY <1>2 DEF next_target, want, low, high
    <2>6. HashSpace \in Nat /\ 1 <= HashSpace - 1
        BY HashSpaceAssumption
    <2> QED BY <2>4, <2>5, <2>6 DEF Clamp, Larger, Smaller
<1> QED BY <1>1, <1>2

\* The price stays a natural number (ledger.rs select).
LEMMA NextPriceType ==
    ASSUME NEW ready, NEW taken, NEW p \in Nat, NEW floor \in Nat
    PROVE  next_price(ready, taken, p, floor) \in Nat
<1>1. p \div 8 \in Nat /\ p - (p \div 8) \in Nat
    OBVIOUS
<1> QED BY <1>1 DEF next_price, Larger

\* The work that a window adds (intake.rs close_window).
LEMMA WorkWithType ==
    ASSUME work \in [Wishes -> Nat], NEW sq \in Seq(Sparks), NEW each \in Nat
    PROVE  WorkWith(sq, each) \in [Wishes -> Nat]
<1>1. ASSUME NEW w \in Wishes
      PROVE  Cardinality(SparksFor(w, sq)) \in Nat
    <2>1. IsFiniteSet(DOMAIN sq)
        BY LenProperties, FS_Interval
    <2>2. SparksFor(w, sq) \in SUBSET DOMAIN sq
        BY DEF SparksFor
    <2> QED BY <2>1, <2>2, FS_Subset, FS_CardinalityType
<1> QED BY <1>1 DEF WorkWith

-----------------------------------------------------------------------------
(* Types: one lemma for each operation of the intake. *)

LEMMA ConstantTypes ==
    /\ MaxEpoch \in Nat \ {0} /\ PER_EPOCH \in Nat \ {0} /\ MaxBoots \in Nat
    /\ PriceMin \in Nat \ {0} /\ FirstTarget \in Nat \ {0} /\ HashSpace \in Nat
    /\ FirstSparks \subseteq Sparks /\ Batches \subseteq Seq(Sparks)
    /\ Outcomes \subseteq {"applied", "deferred", "refused"}
    /\ 1..MaxEpoch \subseteq Windows
    /\ OldEpochs \in Nat /\ OldEpochs <= MaxEpoch /\ FirstWindow = OldEpochs + 1
BY IntakeAssumption, ServerAssumption, PerEpochAssumption, HashSpaceAssumption
   DEF Windows, FirstWindow

\* The headers of a new world start before its first window.
LEMMA FirstHeaderType ==
    /\ FirstHeader \in Nat /\ FirstHeader <= FirstWindow
    /\ OldEpochs = 0 => FirstHeader = 0
    /\ OldEpochs # 0 => FirstHeader = FirstWindow
BY ConstantTypes DEF FirstHeader

\* A head is signed over the leaves of a window (intake.rs sign_head).
LEMMA SignHeadTypes ==
    ASSUME LogTypes, NEW e \in Windows, NEW ls \in Seq(Sparks), NEW final \in BOOLEAN,
           SignHead(e, ls, final)
    PROVE  /\ DOMAIN sths' = Windows
           /\ \A d \in Windows : \A head \in sths'[d] : head \in TreeHeads
           /\ signed' \in [Windows -> Seq(Sparks)]
BY DEF LogTypes, SignHead, TreeHeads

LEMMA EpochSparksType ==
    ASSUME LogTypes, NEW e \in Windows
    PROVE  EpochSparks(e) \in Seq(Sparks)
BY DEF LogTypes, EpochSparks

\* The ids of a list of sparks.
LEMMA IdsType ==
    ASSUME NEW sq \in Seq(Sparks)
    PROVE  Ids(sq) \subseteq Wishes \X Nonces
<1>1. \A i \in DOMAIN sq : sq[i] \in Sparks
    BY LenProperties, ElementOfSeq
<1> QED BY <1>1 DEF Ids, SparkId, Sparks

\* The writes of open_window, one at a time.
LEMMA WindowRowTypes ==
    ASSUME LogTypes, NEW e \in Windows, NEW hash \in HeaderHashes,
           TargetFor(e) \in Nat \ {0}, WindowRow(e, hash)
    PROVE  /\ DOMAIN windows' \subseteq Windows
           /\ \A d \in DOMAIN windows' : windows'[d] \in WindowRecords
BY DEF WindowRow, LogTypes, Put, WindowRecords

LEMMA BackToRowsTypes ==
    ASSUME LogTypes, NEW e \in Windows, BackToRows(e)
    PROVE  /\ rows' \in [Windows -> Seq(Sparks)]
           /\ DOMAIN logs' \subseteq Windows
           /\ \A d \in DOMAIN logs' : logs'[d] \in Seq(Sparks)
BY EpochSparksType DEF BackToRows, RowsOf, LogTypes

LEMMA OpenWindowTypes ==
    ASSUME LogTypes, MemoryTypes, NEW e \in Windows, NEW hash \in HeaderHashes,
           TargetFor(e) \in Nat \ {0}, OpenWindow(e, hash)
    PROVE  LogTypes' /\ MemoryTypes'
<1>1. EpochSparks(e) \in Seq(Sparks)
    BY EpochSparksType
<1>2. DOMAIN windows' \subseteq Windows /\ \A d \in DOMAIN windows' : windows'[d] \in WindowRecords
    BY WindowRowTypes DEF OpenWindow
<1>3. rows' \in [Windows -> Seq(Sparks)]
    BY BackToRowsTypes DEF OpenWindow
<1>4. DOMAIN logs' \subseteq Windows /\ \A d \in DOMAIN logs' : logs'[d] \in Seq(Sparks)
    BY BackToRowsTypes DEF OpenWindow
<1>5. /\ DOMAIN sths' = Windows
      /\ \A d \in Windows : \A head \in sths'[d] : head \in TreeHeads
      /\ signed' \in [Windows -> Seq(Sparks)]
    BY <1>1, SignHeadTypes DEF OpenWindow
<1>6. MemoryTypes'
    <2>1. seen' \subseteq Wishes \X Nonces
        BY <1>1, IdsType DEF OpenWindow, SeenOf
    <2>2. epoch' \in 0..(MaxEpoch + 1) /\ previous' \in 0..MaxEpoch
        BY ConstantTypes DEF OpenWindow, MemoryTypes, Windows
    <2> QED BY <1>1, <2>1, <2>2 DEF OpenWindow, MemoryTypes, LeavesOf
<1> QED BY <1>2, <1>3, <1>4, <1>5, <1>6 DEF LogTypes

\* Opening a window adds it to those that were opened, if it is new.
LEMMA WindowRowExtends ==
    ASSUME NEW e, NEW hash, WindowRow(e, hash)
    PROVE  DOMAIN windows' = DOMAIN windows \cup {e}
BY DEF WindowRow, Put

LEMMA OpenWindowExtends ==
    ASSUME NEW e, NEW hash, OpenWindow(e, hash)
    PROVE  DOMAIN windows' = DOMAIN windows \cup {e}
BY WindowRowExtends DEF OpenWindow

LEMMA CloseWindowTypes ==
    ASSUME LogTypes, WishTypes, MemoryTypes, epoch \in DOMAIN windows, CloseWindow
    PROVE  LogTypes' /\ WishTypes' /\ MemoryTypes'
<1>1. epoch \in Windows /\ rows[epoch] \in Seq(Sparks) /\ Len(leaves) \in Nat
    BY LenProperties DEF LogTypes, MemoryTypes
<1>2. DOMAIN windows' \subseteq Windows /\ \A d \in DOMAIN windows' : windows'[d] \in WindowRecords
    BY <1>1 DEF CloseWindow, LogTypes, WindowRecords
<1>3. rows' \in [Windows -> Seq(Sparks)]
    BY <1>1, EmptySeq DEF CloseWindow, LogTypes
<1>4. DOMAIN logs' \subseteq Windows /\ \A d \in DOMAIN logs' : logs'[d] \in Seq(Sparks)
    BY <1>1 DEF CloseWindow, LogTypes, Put
<1>5. /\ DOMAIN sths' = Windows
      /\ \A d \in Windows : \A head \in sths'[d] : head \in TreeHeads
      /\ signed' \in [Windows -> Seq(Sparks)]
    <2>1. [leaves |-> leaves, final |-> TRUE] \in TreeHeads
        BY DEF TreeHeads, MemoryTypes
    <2>2. sths' = [sths EXCEPT ![epoch] = {h \in @ : h.final /\ Len(h.leaves) # Len(leaves)}
                                          \cup {[leaves |-> leaves, final |-> TRUE]}]
        BY DEF CloseWindow
    <2>3. DOMAIN sths' = Windows /\ \A d \in Windows : \A head \in sths'[d] : head \in TreeHeads
        BY <2>1, <2>2, <1>1 DEF LogTypes
    <2>4. signed' \in [Windows -> Seq(Sparks)]
        BY <1>1 DEF CloseWindow, LogTypes, MemoryTypes
    <2> QED BY <2>3, <2>4
<1>6. WishTypes'
    <2>1. SparkWeight(windows[epoch].target) \in Nat
        <3>1. windows[epoch].target \in Nat \ {0}
            BY DEF LogTypes, WindowRecords
        <3> QED BY <3>1, ConstantTypes DEF SparkWeight
    <2>2. work' \in [Wishes -> Nat]
        BY <1>1, <2>1, WorkWithType DEF CloseWindow, WishTypes
    <2>3. status' \in [Wishes -> Statuses]
        BY DEF CloseWindow, WishTypes, WithStatus, Statuses
    <2> QED BY <2>2, <2>3 DEF CloseWindow, WishTypes
<1>7. MemoryTypes'
    BY DEF CloseWindow, MemoryTypes
<1> QED BY <1>2, <1>3, <1>4, <1>5, <1>6, <1>7 DEF LogTypes

LEMMA SelectTypes ==
    ASSUME WishTypes, NEW tie, NEW closed, SelectMiracles(Choice(tie, closed)),
           UNCHANGED <<work, executedIn>>
    PROVE  WishTypes'
<1>1. CurrentPrice \in Nat
    BY ConstantTypes DEF CurrentPrice, Larger, WishTypes
<1>2. Choice(tie, closed).next_price \in Nat
    BY <1>1, ConstantTypes, NextPriceType DEF Choice, select
<1>3. \A chosen, n : StatusWrites(chosen, n) \in [Wishes -> Statuses]
    BY DEF StatusWrites, WishTypes, Statuses
<1> QED BY <1>2, <1>3 DEF SelectMiracles, WishTypes

LEMMA RecordTypes ==
    ASSUME WishTypes, ChainTypes, NEW e \in 1..MaxEpoch, NEW g \in Seq(Miracle), Record(e, g),
           UNCHANGED <<work, price, headers>>
    PROVE  WishTypes' /\ ChainTypes'
<1> DEFINE Outcome(w) == g[CHOOSE i \in DOMAIN g : g[i].wish = w].outcome
           named == {g[i].wish : i \in DOMAIN g}
<1>1. \A w \in named : Outcome(w) \in {"applied", "deferred", "refused"}
    <2>1. \A i \in DOMAIN g : g[i].outcome \in {"applied", "deferred", "refused"}
        <3>1. \A i \in DOMAIN g : g[i] \in Miracle
            BY LenProperties, ElementOfSeq
        <3> QED BY <3>1 DEF Miracle
    <2>2. \A w \in named : (CHOOSE i \in DOMAIN g : g[i].wish = w) \in DOMAIN g
        OBVIOUS
    <2> QED BY <2>1, <2>2
<1>2. \A o \in {"applied", "deferred", "refused"} : StatusOfOutcome(o) \in Statuses
    BY DEF StatusOfOutcome, Statuses
<1>3. status' \in [Wishes -> Statuses]
    <2>1. status' = [w \in Wishes |-> IF w \in named THEN StatusOfOutcome(Outcome(w))
                                      ELSE status[w]]
        BY DEF Record
    <2> HIDE DEF named, Outcome
    <2> QED BY <1>1, <1>2, <2>1 DEF WishTypes
<1>4. executedIn' \in [Wishes -> 1..MaxEpoch \cup {NULL}]
    BY DEF Record, WishTypes
<1>5. miracles' \in [1..MaxEpoch -> Seq(Miracle)]
    <2>1. Overwrite(miracles[e], g) \in Seq(Miracle)
        <3>1. miracles[e] \in Seq(Miracle) /\ Len(g) \in Nat /\ Len(miracles[e]) \in Nat
            BY LenProperties DEF ChainTypes
        <3>2. SubSeq(miracles[e], Len(g) + 1, Len(miracles[e])) \in Seq(Miracle)
            BY <3>1, ElementOfSeq, SubSeqProperties
        <3> QED BY <3>2, ConcatProperties DEF Overwrite
    <2> QED BY <2>1 DEF Record, ChainTypes
<1> QED BY <1>3, <1>4, <1>5 DEF WishTypes, ChainTypes

\* The window before e gives its target (intake.rs open_window).
LEMMA TargetForType ==
    ASSUME LogTypes, NEW e \in Windows, WindowsTo(e - 1) \/ WindowsTo(e)
    PROVE  TargetFor(e) \in Nat \ {0}
<1> DEFINE below == {d \in DOMAIN windows : d < e}
           last == CHOOSE d \in below : \A c \in below : c <= d
<1>1. e \in Nat \ {0} /\ below = FirstWindow..(e - 1)
    BY ConstantTypes DEF Windows, WindowsTo
<1>2. CASE below = {}
    BY <1>2, ConstantTypes DEF TargetFor
<1>3. CASE below # {}
    <2>1. e - 1 \in below /\ \A c \in below : c <= e - 1
        BY <1>1, <1>3, ConstantTypes
    <2>2. last \in below
        BY <2>1
    <2>3. windows[last] \in WindowRecords
        BY <2>2 DEF LogTypes
    <2>4. windows[last].accepted # NULL
              => next_target(windows[last].target, windows[last].accepted) \in Nat \ {0}
        BY <2>3, NextTargetType DEF WindowRecords
    <2>5. TargetFor(e) = IF windows[last].accepted = NULL THEN windows[last].target
                         ELSE next_target(windows[last].target, windows[last].accepted)
        BY <1>3 DEF TargetFor
    <2> QED BY <2>3, <2>4, <2>5 DEF WindowRecords
<1> QED BY <1>2, <1>3

LEMMA HeaderHashOrType ==
    ASSUME ChainTypes, NEW e, NEW other \in HeaderHashes
    PROVE  HeaderHashOr(e, other) \in HeaderHashes
BY DEF HeaderHashOr, ChainTypes

\* The placeholders for a header that does not exist are hashes too.
LEMMA NoHeaderTypes == ZeroHash \in HeaderHashes /\ GenesisRoot \in HeaderHashes
BY DEF ZeroHash, GenesisRoot, HeaderHashes, NULL

\* Closing, expiring and invalidating wishes keeps their types.
LEMMA WithStatusType ==
    ASSUME status \in [Wishes -> Statuses], NEW S, NEW st \in Statuses
    PROVE  WithStatus(S, st) \in [Wishes -> Statuses]
BY DEF WithStatus

\* What a batch leaves to append (intake.rs append).
LEMMA PlacedType ==
    ASSUME NEW ticket, NEW batch \in Seq(Sparks), NEW new \in Placed(ticket, batch)
    PROVE  new \in Seq(Sparks)
BY PickIsSeq DEF Placed

LEMMA PassedType ==
    ASSUME NEW r \in Requests, NEW passed \in Passed(r)
    PROVE  passed \in Seq(Sparks)
BY PickIsSeq DEF Passed, Requests

LEMMA RememberTypes ==
    ASSUME MemoryTypes, NEW pushed \in Seq(Sparks), NEW tried \in Seq(Sparks),
           Remember(pushed, tried)
    PROVE  leaves' \in Seq(Sparks) /\ seen' \subseteq Wishes \X Nonces
BY ConcatProperties, IdsType DEF Remember, MemoryTypes

LEMMA AppendSparksTypes ==
    ASSUME LogTypes, MemoryTypes, epoch \in Windows, NEW ticket, NEW batch \in Seq(Sparks),
           AppendSparks(ticket, batch), UNCHANGED <<windows, logs, epoch, open, previous>>
    PROVE  LogTypes' /\ MemoryTypes'
<1>1. PICK new \in Placed(ticket, batch) :
          /\ rows' = [rows EXCEPT ![epoch] = @ \o new]
          /\ Remember(new, new)
          /\ SignHead(epoch, leaves \o new, FALSE)
    BY DEF AppendSparks
<1>2. new \in Seq(Sparks)
    BY PlacedType
<1>3. rows[epoch] \o new \in Seq(Sparks) /\ leaves \o new \in Seq(Sparks)
    BY <1>2, ConcatProperties DEF LogTypes, MemoryTypes
<1>4. rows' \in [Windows -> Seq(Sparks)]
    BY <1>1, <1>3 DEF LogTypes
<1>5. /\ DOMAIN sths' = Windows
      /\ \A d \in Windows : \A head \in sths'[d] : head \in TreeHeads
      /\ signed' \in [Windows -> Seq(Sparks)]
    BY <1>1, <1>3, SignHeadTypes
<1>6. leaves' \in Seq(Sparks) /\ seen' \subseteq Wishes \X Nonces
    BY <1>1, <1>2, RememberTypes
<1> QED BY <1>4, <1>5, <1>6 DEF LogTypes, MemoryTypes

LEMMA AppendUnstoredTypes ==
    ASSUME MemoryTypes, NEW ticket, NEW batch \in Seq(Sparks),
           AppendUnstored(ticket, batch), UNCHANGED <<epoch, open, previous>>
    PROVE  MemoryTypes'
<1>1. PICK new \in Placed(ticket, batch) : \E n \in DOMAIN new :
          \/ Remember(SubSeq(new, 1, n - 1), SubSeq(new, 1, n))
          \/ n = Len(new) /\ Remember(new, new)
    BY DEF AppendUnstored
<1>2. PICK n \in DOMAIN new :
          \/ Remember(SubSeq(new, 1, n - 1), SubSeq(new, 1, n))
          \/ n = Len(new) /\ Remember(new, new)
    BY <1>1
<1>3. new \in Seq(Sparks) /\ DOMAIN new = 1..Len(new) /\ Len(new) \in Nat
    BY PlacedType, LenProperties
<1>4. SubSeq(new, 1, n - 1) \in Seq(Sparks) /\ SubSeq(new, 1, n) \in Seq(Sparks)
    <2>1. \A i \in 1..n : new[i] \in Sparks
        BY <1>3, ElementOfSeq
    <2>2. n \in Int /\ n - 1 \in Int /\ \A i \in 1..(n - 1) : new[i] \in Sparks
        BY <1>3, <2>1
    <2> QED BY <2>1, <2>2, SubSeqProperties
<1>5. leaves' \in Seq(Sparks) /\ seen' \subseteq Wishes \X Nonces
    BY <1>2, <1>3, <1>4, RememberTypes
<1> QED BY <1>5 DEF MemoryTypes

-----------------------------------------------------------------------------
(* Types and the shape of the loop: one lemma for each action.             *)

LEMMA PrefixOfItself ==
    ASSUME NEW S, NEW sq \in Seq(S)
    PROVE  IsPrefix(sq, sq)
BY LenProperties DEF IsPrefix

LEMMA PrefixOfAppend ==
    ASSUME NEW S, NEW sq \in Seq(S), NEW x \in S
    PROVE  IsPrefix(sq, Append(sq, x))
<1>1. /\ Append(sq, x) \in Seq(S) /\ Len(Append(sq, x)) = Len(sq) + 1 /\ Len(sq) \in Nat
      /\ \A i \in 1..Len(sq) : Append(sq, x)[i] = sq[i]
    BY AppendProperties, LenProperties
<1>2. SubSeq(sq, 1, Len(sq)) = sq
    BY SubSeqFull
<1>3. SubSeq(Append(sq, x), 1, Len(sq)) = sq
    <2>1. \A i \in 1..Len(sq) : Append(sq, x)[i] \in S
        BY <1>1, ElementOfSeq
    <2>2. LET t == SubSeq(Append(sq, x), 1, Len(sq))
          IN t \in Seq(S) /\ Len(t) = Len(sq) /\ \A i \in 1..Len(sq) : t[i] = sq[i]
        BY <1>1, <2>1, SubSeqProperties
    <2> QED BY <2>2, SeqEqual
<1> QED BY <1>1, <1>2, <1>3 DEF IsPrefix

\* What a prefix is cut from is the prefix.
LEMMA CutToPrefix ==
    ASSUME NEW S, NEW s \in Seq(S), NEW t, IsPrefix(s, t)
    PROVE  SubSeq(t, 1, Len(s)) = s
BY SubSeqFull DEF IsPrefix

\* The parts of TypeOK that a step leaves alone.
LEMMA SameTypes ==
    /\ LogTypes /\ UNCHANGED <<windows, rows, logs, sths, signed>> => LogTypes'
    /\ WishTypes /\ UNCHANGED <<status, work, executedIn, price>> => WishTypes'
    /\ ChainTypes /\ UNCHANGED <<miracles, headers>> => ChainTypes'
    /\ MemoryTypes /\ UNCHANGED memory => MemoryTypes'
    /\ RequestTypes /\ UNCHANGED req => RequestTypes'
BY DEF LogTypes, WishTypes, ChainTypes, MemoryTypes, RequestTypes, memory, HeaderHash

\* The facts about the loop that every action starts from.
IInv == TypeOK /\ LoopInStep

\* The world that the first server finds saved.
LEMMA OldWorldIs ==
    /\ OldWorld \in Seq(Epochs) /\ Len(OldWorld) = OldEpochs
    /\ OldEpochs = 0 => OldWorld = <<>>
    /\ \A e \in 1..OldEpochs : OldWorld[e].seed = NoSeed /\ OldWorld[e].given = <<>>
<1>1. [seed |-> NoSeed, given |-> <<>>] \in Epochs
    BY EmptySeq, NoHeaderTypes DEF Epochs, NoSeed
<1>2. OldWorld = [e \in 1..OldEpochs |-> [seed |-> NoSeed, given |-> <<>>]]
    BY DEF OldWorld
<1>3. OldWorld \in [1..OldEpochs -> Epochs]
    BY <1>1, <1>2
<1>4. OldWorld \in Seq(Epochs) /\ Len(OldWorld) = OldEpochs
    BY <1>3, ConstantTypes, SeqDef, LenProperties
<1>5. OldEpochs = 0 => OldWorld = <<>>
    BY <1>4, EmptySeq
<1> QED BY <1>2, <1>4, <1>5

LEMMA InitIInv == Init => IInv
<1> SUFFICES ASSUME Init PROVE IInv
    OBVIOUS
<1>1. LogTypes
    BY EmptySeq DEF LogTypes, Init, IntakeInit
<1>2. WishTypes
    BY ConstantTypes DEF WishTypes, Statuses, NULL, Init, IntakeInit
<1>3. ChainTypes
    BY EmptySeq DEF ChainTypes, Init, IntakeInit
<1>4. MemoryTypes
    <2>1. epoch = 0 /\ previous = 0 /\ open = FALSE /\ leaves = <<>> /\ seen = {}
        BY DEF Init, IntakeInit
    <2>2. leaves \in Seq(Sparks)
        BY <2>1, EmptySeq
    <2>3. 0 \in 0..(MaxEpoch + 1) /\ 0 \in 0..MaxEpoch
        BY ConstantTypes
    <2> QED BY <2>1, <2>2, <2>3 DEF MemoryTypes
<1>5. WorldTypes
    BY OldWorldIs, EmptySeq, NoHeaderTypes, ConstantTypes DEF WorldTypes, Stages, NoSeed, Init
<1>6. RequestTypes
    BY EmptySeq, ConstantTypes DEF RequestTypes, Requests, Idle, Init
<1>7. LoopInStep
    <2>1. Len(run) = 0 /\ Len(snapshot) = OldEpochs /\ IsPrefix(snapshot, store)
        BY OldWorldIs, EmptySeq, PrefixOfItself DEF Init
    <2>2. DOMAIN windows = {} /\ DOMAIN headers = {}
        BY DEF Init, IntakeInit
    <2>3. WindowsSaved
        BY <2>1, <2>2, ConstantTypes DEF WindowsSaved, WindowsTo
    <2>4. HeadersSaved
        <3>1. CASE OldEpochs = 0
            BY <2>1, <2>2, <3>1, OldWorldIs, FirstHeaderType, EmptySeq DEF HeadersSaved, HeadersTo, Init
        <3>2. CASE OldEpochs # 0
            BY <2>1, <2>2, <3>2, FirstHeaderType, ConstantTypes DEF HeadersSaved, HeadersTo
        <3> QED BY <3>1, <3>2
    <2> QED BY <2>1, <2>3, <2>4, ConstantTypes DEF LoopInStep, Init, IntakeInit
<1> QED BY <1>1, <1>2, <1>3, <1>4, <1>5, <1>6, <1>7 DEF IInv, TypeOK

LEMMA RollbackIInv ==
    ASSUME IInv, Rollback
    PROVE  IInv'
<1> USE DEF IInv, TypeOK, Rollback
<1>1. Len(snapshot) \in Nat /\ Len(snapshot) <= MaxEpoch
    BY LenProperties, ConstantTypes DEF WorldTypes, LoopInStep
<1>2. LogTypes'
    BY SameTypes
<1>3. WishTypes'
    BY WithStatusType DEF RollbackAfter, WishTypes, Statuses
<1>4. ChainTypes'
    BY EmptySeq DEF RollbackAfter, ChainTypes, KeptMiracles, KeptHeaders, HeaderHash
<1>5. MemoryTypes' /\ RequestTypes'
    BY SameTypes
<1>6. store' = snapshot
    BY CutToPrefix DEF LoopInStep, WorldTypes
<1>7. WorldTypes'
    BY <1>6, ConstantTypes DEF WorldTypes, loop, Stages
<1>8. LoopInStep'
    <2>1. IsPrefix(snapshot', store')
        BY <1>6, PrefixOfItself DEF WorldTypes
    <2>2. HeadersSaved'
        <3>1. DOMAIN headers' = {d \in DOMAIN headers : d <= Len(snapshot)}
            BY DEF RollbackAfter, KeptHeaders
        <3> QED BY <1>1, <3>1, FirstHeaderType, ConstantTypes DEF LoopInStep, HeadersSaved, HeadersTo
    <2>3. WindowsSaved'
        BY DEF LoopInStep, WindowsSaved, WindowsTo
    <2> QED BY <1>6, <2>1, <2>2, <2>3 DEF LoopInStep, memory
<1> QED BY <1>2, <1>3, <1>4, <1>5, <1>7, <1>8

LEMMA ResumeIInv ==
    ASSUME IInv, NEW failing, Resume(failing)
    PROVE  IInv'
<1> USE DEF IInv, TypeOK, Resume
<1>1. /\ Len(run) \in Nat /\ Len(run) <= MaxEpoch /\ run = snapshot /\ epoch = 0
      /\ WindowsSaved /\ HeadersSaved /\ Len(run) + 1 \in Windows /\ OldEpochs <= Len(run)
    BY LenProperties, ConstantTypes DEF WorldTypes, LoopInStep, Windows
<1>2. LogTypes' /\ MemoryTypes'
    <2>1. TargetFor(Len(run) + 1) \in Nat \ {0}
        BY <1>1, TargetForType, ConstantTypes DEF WindowsSaved, WindowsTo
    <2>2. HeaderHashOr(Len(run), GenesisRoot) \in HeaderHashes
        BY NoHeaderTypes, HeaderHashOrType
    <2> QED BY <1>1, <2>1, <2>2, OpenWindowTypes
<1>3. WishTypes'
    BY WithStatusType DEF SoftCheck, WishTypes, Statuses
<1>4. ChainTypes'
    BY ConstantTypes, <1>1 DEF ChainTypes, Put, GenesisHeader, HeaderHash, HeaderHashes, WorldTypes
<1>5. WorldTypes' /\ RequestTypes'
    BY <1>1, SameTypes DEF WorldTypes, world, loop, Stages
<1>6. LoopInStep'
    <2>1. WindowsTo(Len(run) + 1)'
        <3>1. DOMAIN windows' = DOMAIN windows \cup {Len(run) + 1}
            BY OpenWindowExtends
        <3>2. run' = run
            BY DEF world
        <3> QED BY <1>1, <3>1, <3>2, ConstantTypes DEF WindowsSaved, WindowsTo
    <2>2. HeadersTo(Len(run))'
        <3>1. CASE HeadersTo(Len(run))
            <4>1. headers' = headers
                BY <3>1, <1>1, FirstHeaderType, ConstantTypes DEF HeadersTo
            <4> QED BY <3>1, <4>1 DEF HeadersTo, world
        <3>2. CASE run = <<>> /\ HeadersTo(-1)
            <4>1. Len(run) = 0 /\ DOMAIN headers = {} /\ FirstHeader = 0
                BY <3>2, <1>1, FirstHeaderType, ConstantTypes, EmptySeq DEF HeadersTo
            <4>2. DOMAIN headers' = {0}
                BY <4>1 DEF Put
            <4> QED BY <4>1, <4>2 DEF HeadersTo, world
        <3> QED BY <1>1, <3>1, <3>2 DEF HeadersSaved
    <2> QED BY <1>1, <2>1, <2>2 DEF LoopInStep, OpenWindow, world, WindowsTo
<1> QED BY <1>2, <1>3, <1>4, <1>5, <1>6

LEMMA CloseIInv ==
    ASSUME IInv, Close
    PROVE  IInv'
<1> USE DEF IInv, TypeOK, Close
<1>1. Len(run) \in Nat /\ Len(run) < MaxEpoch /\ epoch \in DOMAIN windows
    BY LenProperties, ConstantTypes DEF WorldTypes, LoopInStep, Finished, WindowsTo
<1>2. LogTypes' /\ WishTypes' /\ MemoryTypes'
    BY <1>1, CloseWindowTypes
<1>3. ChainTypes' /\ RequestTypes'
    BY SameTypes DEF CloseWindow
<1>4. WorldTypes'
    BY DEF WorldTypes, world, loop, Stages
<1>5. LoopInStep'
    <2>1. DOMAIN windows' = DOMAIN windows /\ headers' = headers /\ epoch' = epoch /\ open' = FALSE
        BY DEF CloseWindow
    <2> QED BY <1>1, <2>1 DEF LoopInStep, world, WindowsTo, HeadersTo
<1> QED BY <1>2, <1>3, <1>4, <1>5

LEMMA SelectIInv ==
    ASSUME IInv, NEW tie \in Ties, NEW shareClosed, Select(tie, shareClosed)
    PROVE  IInv'
<1> USE DEF IInv, TypeOK, Select
<1>1. LogTypes' /\ ChainTypes' /\ MemoryTypes' /\ RequestTypes'
    BY SameTypes
<1>2. WishTypes'
    BY SelectTypes
<1>3. WorldTypes'
    <2>1. selected' \in Seq(Wishes)
        BY BoundedSeqIsSeq, ConstantTypes
    <2>2. seed' \in [beacon : Ties \cup {NoSeed.beacon}, prev : HeaderHashes]
        <3>1. HeaderHashOr(Len(run), ZeroHash) \in HeaderHashes
            BY HeaderHashOrType, NoHeaderTypes
        <3> QED BY <3>1
    <2> QED BY <2>1, <2>2 DEF WorldTypes, world, Stages
<1>4. LoopInStep'
    BY DEF LoopInStep, world, memory, WindowsTo, HeadersTo
<1> QED BY <1>1, <1>2, <1>3, <1>4

LEMMA StepIInv ==
    ASSUME IInv, Step
    PROVE  IInv'
<1> USE DEF IInv, TypeOK
<1>1. PICK g \in Verdicts(selected) :
          /\ given' = g
          /\ run' = Append(run, [seed |-> seed, given |-> g])
          /\ store' = Append(store, [seed |-> seed, given |-> g])
    BY DEF Step
<1>2. g \in Seq(Miracle)
    <2>1. g \in Seq([wish : Wishes, outcome : Outcomes])
        BY BoundedSeqIsSeq, ConstantTypes DEF Verdicts
    <2>2. [wish : Wishes, outcome : Outcomes] \subseteq Miracle
        BY ConstantTypes DEF Miracle
    <2> QED BY <2>1, <2>2, SeqMonotonic
<1>3. [seed |-> seed, given |-> g] \in Epochs
    BY <1>2 DEF Epochs, WorldTypes
<1>4. /\ pc = "step" /\ pc' = "record"
      /\ UNCHANGED <<disk, memory, signed, snapshot, selected, seed, live, boots, req>>
    BY DEF Step
<1>5. /\ Len(run) \in Nat /\ Len(run) < MaxEpoch /\ run = snapshot /\ store = run
      /\ run' \in Seq(Epochs) /\ Len(run') = Len(run) + 1 /\ IsPrefix(run, run')
    BY <1>1, <1>3, <1>4, LenProperties, AppendProperties, PrefixOfAppend DEF WorldTypes, LoopInStep
<1>6. LogTypes' /\ WishTypes' /\ ChainTypes' /\ MemoryTypes' /\ RequestTypes'
    BY <1>4, SameTypes DEF disk
<1>7. WorldTypes'
    BY <1>1, <1>2, <1>4, <1>5 DEF WorldTypes, Stages
<1>8. LoopInStep'
    <2>1. /\ HeadersTo(Len(snapshot)) /\ epoch = Len(run) + 1 /\ WindowsTo(epoch)
          /\ ~open /\ Len(snapshot) <= MaxEpoch
        BY <1>4 DEF LoopInStep
    <2>2. /\ headers' = headers /\ windows' = windows /\ epoch' = epoch /\ open' = open
          /\ snapshot' = snapshot /\ store' = run'
        BY <1>1, <1>4, <1>5 DEF disk, memory
    <2> QED BY <1>4, <1>5, <2>1, <2>2, ConstantTypes DEF LoopInStep, HeadersTo, WindowsTo
<1> QED BY <1>6, <1>7, <1>8

LEMMA RecordMiraclesIInv ==
    ASSUME IInv, RecordMiracles
    PROVE  IInv'
<1> USE DEF IInv, TypeOK, RecordMiracles
<1>1. Len(run) \in 1..MaxEpoch
    BY LenProperties, ConstantTypes DEF WorldTypes, LoopInStep
<1>2. WishTypes' /\ ChainTypes'
    BY <1>1, RecordTypes DEF WorldTypes
<1>3. LogTypes' /\ MemoryTypes' /\ RequestTypes'
    BY SameTypes
<1>4. WorldTypes'
    BY DEF WorldTypes, world, loop, Stages
<1>5. LoopInStep'
    BY DEF LoopInStep, world, memory, WindowsTo, HeadersTo
<1> QED BY <1>2, <1>3, <1>4, <1>5

LEMMA PublishIInv ==
    ASSUME IInv, Publish
    PROVE  IInv'
<1> USE DEF IInv, TypeOK, Publish
<1>1. Len(run) \in 0..MaxEpoch
    BY LenProperties, ConstantTypes DEF WorldTypes, LoopInStep
<1>2. LogTypes' /\ WishTypes' /\ ChainTypes' /\ MemoryTypes' /\ RequestTypes'
    BY SameTypes DEF disk
<1>3. WorldTypes'
    BY <1>1 DEF WorldTypes, world, loop, Stages
<1>4. LoopInStep'
    BY DEF LoopInStep, world, memory, disk, WindowsTo, HeadersTo
<1> QED BY <1>2, <1>3, <1>4

LEMMA SealEpochIInv ==
    ASSUME IInv, SealEpoch
    PROVE  IInv'
<1> USE DEF IInv, TypeOK
<1>1. /\ pc = "seal" /\ pc' = "save"
      /\ UNCHANGED <<windows, rows, logs, sths, status, work, executedIn, price, miracles, memory,
                     signed, world, loop, live, boots, req>>
    BY DEF SealEpoch
<1>2. /\ Len(run) \in 1..MaxEpoch /\ Len(run) = Len(snapshot) + 1
      /\ HeadersTo(Len(snapshot)) /\ Len(snapshot) \in Nat
      /\ OldEpochs <= Len(snapshot)
    BY <1>1, LenProperties, ConstantTypes DEF WorldTypes, LoopInStep
<1> DEFINE h == NewHeader(Len(run), boots, seed.beacon)
<1>3. headers' = Put(headers, Len(run), h) /\ h.epoch = Len(run) /\ h.boot = boots
    <2>1. headers' = Put(headers, Len(run), h)
        BY DEF SealEpoch, Seal
    <2>2. h.epoch = Len(run) /\ h.boot = boots
        BY DEF NewHeader
    <2> QED BY <2>1, <2>2
<1> HIDE DEF h
<1>4. HeaderHash(h) \in HeaderHashes
    BY <1>2, <1>3, ConstantTypes DEF HeaderHash, HeaderHashes, WorldTypes
<1>5. ChainTypes'
    BY <1>1, <1>2, <1>3, <1>4 DEF ChainTypes, Put, HeaderHash
<1>6. LogTypes' /\ WishTypes' /\ MemoryTypes' /\ RequestTypes'
    BY <1>1, SameTypes
<1>7. WorldTypes'
    BY <1>1 DEF WorldTypes, world, loop, Stages
<1>8. LoopInStep'
    <2>1. DOMAIN headers' = FirstHeader..Len(run)
        BY <1>2, <1>3, FirstHeaderType, ConstantTypes DEF Put, HeadersTo
    <2> QED BY <1>1, <1>2, <2>1 DEF LoopInStep, world, memory, WindowsTo, HeadersTo
<1> QED BY <1>5, <1>6, <1>7, <1>8

LEMMA SaveIInv ==
    ASSUME IInv, Save
    PROVE  IInv'
<1> USE DEF IInv, TypeOK, Save
<1>1. LogTypes' /\ WishTypes' /\ ChainTypes' /\ MemoryTypes' /\ RequestTypes'
    BY SameTypes DEF disk
<1>2. WorldTypes'
    BY DEF WorldTypes, loop, Stages
<1>3. LoopInStep'
    <2>1. IsPrefix(snapshot', store') /\ Len(run) > OldEpochs
        BY PrefixOfItself, EmptySeq, LenProperties, ConstantTypes DEF LoopInStep, WorldTypes
    <2> QED BY <2>1, ConstantTypes DEF LoopInStep, memory, disk, WindowsTo, HeadersTo
<1> QED BY <1>1, <1>2, <1>3

LEMMA OpenNextIInv ==
    ASSUME IInv, OpenNext
    PROVE  IInv'
<1> USE DEF IInv, TypeOK
<1>1. /\ pc = "open" /\ pc' = "soft"
      /\ OpenWindow(Len(run) + 1, HeaderHash(headers[Len(run)]))
      /\ UNCHANGED <<status, work, executedIn, price, miracles, headers, world, loop, live, boots,
                     req>>
    BY DEF OpenNext
<1>2. /\ Len(run) \in Nat /\ Len(run) + 1 \in Windows /\ run = snapshot
      /\ WindowsTo(Len(run)) /\ HeadersTo(Len(run)) /\ OldEpochs < Len(run)
    BY <1>1, LenProperties, ConstantTypes DEF WorldTypes, LoopInStep, Windows
<1>3. LogTypes' /\ MemoryTypes'
    <2>1. TargetFor(Len(run) + 1) \in Nat \ {0}
        BY <1>2, TargetForType
    <2>2. HeaderHash(headers[Len(run)]) \in HeaderHashes
        BY <1>2, FirstHeaderType, ConstantTypes DEF ChainTypes, HeadersTo
    <2> QED BY <1>1, <1>2, <2>1, <2>2, OpenWindowTypes
<1>4. WishTypes' /\ ChainTypes' /\ RequestTypes'
    BY <1>1, SameTypes
<1>5. WorldTypes'
    BY <1>1 DEF WorldTypes, world, loop, Stages
<1>6. LoopInStep'
    <2>1. WindowsTo(Len(run) + 1)'
        <3>1. DOMAIN windows' = DOMAIN windows \cup {Len(run) + 1} /\ run' = run
            BY <1>1, OpenWindowExtends DEF world
        <3> QED BY <1>2, <3>1, ConstantTypes DEF WindowsTo
    <2>2. epoch' = Len(run) + 1 /\ open' = TRUE
        BY <1>1 DEF OpenWindow
    <2> QED BY <1>1, <1>2, <2>1, <2>2 DEF LoopInStep, world, HeadersTo, WindowsTo
<1> QED BY <1>3, <1>4, <1>5, <1>6

LEMMA CheckWishesIInv ==
    ASSUME IInv, NEW failing, CheckWishes(failing)
    PROVE  IInv'
<1> USE DEF IInv, TypeOK, CheckWishes
<1>1. LogTypes' /\ ChainTypes' /\ MemoryTypes' /\ RequestTypes'
    BY SameTypes
<1>2. WishTypes'
    BY WithStatusType DEF SoftCheck, WishTypes, Statuses
<1>3. WorldTypes'
    BY DEF WorldTypes, world, loop, Stages
<1>4. LoopInStep'
    BY DEF LoopInStep, world, memory, WindowsTo, HeadersTo
<1> QED BY <1>1, <1>2, <1>3, <1>4

\* What requests do leaves the loop where it is.
LEMMA LoopStays ==
    ASSUME LoopInStep, UNCHANGED <<pc, world, windows, headers, epoch, open>>
    PROVE  LoopInStep'
BY DEF LoopInStep, world, WindowsSaved, HeadersSaved, WindowsTo, HeadersTo

\* While a window is open, its epoch is one.
LEMMA OpenWindowIsOne ==
    ASSUME IInv, open
    PROVE  epoch \in Windows
<1>1. Len(run) \in Nat /\ epoch = Len(run) + 1 /\ Len(run) <= MaxEpoch
    BY LenProperties DEF IInv, TypeOK, WorldTypes, LoopInStep
<1> QED BY <1>1, ConstantTypes DEF Windows

LEMMA ServingWindow ==
    ASSUME IInv, Serving
    PROVE  epoch \in Windows
<1>1. /\ Len(run) \in Nat /\ Len(run) <= MaxEpoch /\ Len(snapshot) \in Nat
      /\ epoch = Len(run) + 1 \/ (epoch = Len(run) /\ Len(run) >= 1)
    <2>1. Len(run) \in Nat /\ Len(snapshot) \in Nat /\ (run # <<>> => Len(run) >= 1)
        BY LenProperties, EmptySeq DEF IInv, TypeOK, WorldTypes
    <2> QED BY <2>1, ConstantTypes DEF IInv, TypeOK, WorldTypes, LoopInStep, Serving, Stages
<1> QED BY <1>1, ConstantTypes DEF Windows

LEMMA BeginIInv ==
    ASSUME IInv, NEW h \in Handlers,
           \/ \E s \in FirstSparks, late \in LateTickets : BeginPropose(h, s, late)
           \/ \E batch \in Batches, late \in LateTickets : BeginSparks(h, batch, late)
    PROVE  IInv'
<1> USE DEF IInv, TypeOK
<1>1. PICK r \in Requests :
          /\ req' = [req EXCEPT ![h] = r]
          /\ r.kind = "propose" => Len(r.batch) = 1
          /\ UNCHANGED <<disk, memory, signed, pc, world, loop, live, boots>>
    <2>1. ASSUME NEW s \in FirstSparks, NEW late \in LateTickets, BeginPropose(h, s, late)
          PROVE  \E r \in Requests :
                    /\ req' = [req EXCEPT ![h] = r]
                    /\ r.kind = "propose" => Len(r.batch) = 1
                    /\ UNCHANGED <<disk, memory, signed, pc, world, loop, live, boots>>
        <3> DEFINE r == [kind |-> "propose", batch |-> <<s>>, ticket |-> epoch, late |-> late]
        <3>1. <<s>> \in Seq(Sparks) /\ Len(<<s>>) = 1
            BY ConstantTypes
        <3>2. late \in 0..MaxEpoch /\ epoch \in 0..(MaxEpoch + 1)
            BY ConstantTypes DEF LateTickets, MemoryTypes
        <3>3. r \in Requests /\ Len(r.batch) = 1
            BY <3>1, <3>2 DEF Requests
        <3> QED BY <2>1, <3>3 DEF BeginPropose
    <2>2. ASSUME NEW batch \in Batches, NEW late \in LateTickets, BeginSparks(h, batch, late)
          PROVE  \E r \in Requests :
                    /\ req' = [req EXCEPT ![h] = r]
                    /\ r.kind = "propose" => Len(r.batch) = 1
                    /\ UNCHANGED <<disk, memory, signed, pc, world, loop, live, boots>>
        <3> DEFINE r == [kind |-> "sparks", batch |-> batch, ticket |-> epoch, late |-> late]
        <3>1. late \in 0..MaxEpoch /\ epoch \in 0..(MaxEpoch + 1) /\ batch \in Seq(Sparks)
            BY ConstantTypes DEF LateTickets, MemoryTypes
        <3>2. r \in Requests /\ r.kind # "propose"
            BY <3>1 DEF Requests
        <3> QED BY <2>2, <3>2 DEF BeginSparks
    <2> QED BY <2>1, <2>2
<1>2. LogTypes' /\ WishTypes' /\ ChainTypes' /\ MemoryTypes'
    BY <1>1, SameTypes DEF disk
<1>3. RequestTypes'
    BY <1>1 DEF RequestTypes
<1>4. WorldTypes'
    BY <1>1 DEF WorldTypes, world, loop
<1>5. LoopInStep'
    BY <1>1, LoopStays DEF disk, memory
<1> QED BY <1>2, <1>3, <1>4, <1>5

\* A handler that has answered is idle.
LEMMA AnswerTypes ==
    ASSUME RequestTypes, NEW h \in Handlers, Answer(h)
    PROVE  RequestTypes'
<1>1. Idle \in Requests /\ Idle.kind # "propose"
    BY EmptySeq, ConstantTypes DEF Idle, Requests
<1> QED BY <1>1 DEF Answer, RequestTypes

LEMMA AddWishTypes ==
    ASSUME WishTypes, NEW w, AddWish(w), UNCHANGED <<executedIn, price>>
    PROVE  WishTypes'
BY DEF AddWish, WishTypes, Statuses

LEMMA RespondIInv ==
    ASSUME IInv, NEW h \in Handlers, Respond(h)
    PROVE  IInv'
<1> USE DEF IInv, TypeOK
<1>1. req[h] \in Requests /\ req[h].batch \in Seq(Sparks)
    BY DEF RequestTypes, Requests
<1>2. CASE Dismiss(h)
    <2>1. RequestTypes'
        BY <1>2, AnswerTypes DEF Dismiss
    <2>2. LogTypes' /\ WishTypes' /\ ChainTypes' /\ MemoryTypes'
        BY <1>2, SameTypes DEF Dismiss, disk
    <2>3. WorldTypes' /\ LoopInStep'
        BY <1>2, LoopStays DEF Dismiss, disk, memory, WorldTypes, world, loop
    <2> QED BY <2>1, <2>2, <2>3
<1>3. CASE FinishPropose(h)
    <2>1. /\ Serving /\ AppendSparks(req[h].ticket, req[h].batch) /\ Answer(h)
          /\ AddWish(req[h].batch[1].wish)
          /\ UNCHANGED <<windows, logs, executedIn, price, miracles, headers, epoch, open, previous,
                         pc, world, loop, live, boots>>
        BY <1>3 DEF FinishPropose
    <2>2. LogTypes' /\ MemoryTypes'
        BY <1>1, <2>1, ServingWindow, AppendSparksTypes
    <2>3. WishTypes' /\ ChainTypes' /\ RequestTypes'
        BY <2>1, AddWishTypes, SameTypes, AnswerTypes
    <2>4. WorldTypes' /\ LoopInStep'
        BY <2>1, LoopStays DEF WorldTypes, world, loop
    <2> QED BY <2>2, <2>3, <2>4
<1>4. CASE FinishSparks(h)
    <2>1. PICK passed \in Passed(req[h]) :
              /\ Serving /\ AppendSparks(req[h].ticket, passed) /\ Answer(h)
              /\ UNCHANGED <<windows, logs, wishTable, price, miracles, headers, epoch, open,
                             previous, pc, world, loop, live, boots>>
        BY <1>4 DEF FinishSparks
    <2>2. passed \in Seq(Sparks)
        BY <1>1, PassedType
    <2>3. LogTypes' /\ MemoryTypes'
        BY <2>1, <2>2, ServingWindow, AppendSparksTypes
    <2>4. WishTypes' /\ ChainTypes' /\ RequestTypes'
        BY <2>1, SameTypes, AnswerTypes DEF wishTable
    <2>5. WorldTypes' /\ LoopInStep'
        BY <2>1, LoopStays DEF WorldTypes, world, loop
    <2> QED BY <2>3, <2>4, <2>5
<1> QED BY <1>2, <1>3, <1>4 DEF Respond

LEMMA FaultsIInv ==
    ASSUME IInv, NEW h \in Handlers, Faults(h)
    PROVE  IInv'
<1> USE DEF IInv, TypeOK
<1>1. req[h] \in Requests /\ req[h].batch \in Seq(Sparks)
    BY DEF RequestTypes, Requests
<1>2. CASE AppendFails(h)
    <2>1. PICK passed \in Passed(req[h]) :
              /\ AppendUnstored(req[h].ticket, passed) /\ Answer(h)
              /\ UNCHANGED <<disk, signed, epoch, open, previous, pc, world, loop, live, boots>>
        BY <1>2 DEF AppendFails
    <2>2. MemoryTypes'
        BY <1>1, <2>1, PassedType, AppendUnstoredTypes
    <2>3. LogTypes' /\ WishTypes' /\ ChainTypes' /\ RequestTypes'
        BY <2>1, SameTypes, AnswerTypes DEF disk
    <2>4. WorldTypes' /\ LoopInStep'
        BY <2>1, LoopStays DEF WorldTypes, world, loop, disk
    <2> QED BY <2>2, <2>3, <2>4
<1>3. CASE ProposeFails(h)
    <2>1. /\ AppendUnstored(req[h].ticket, req[h].batch) /\ Answer(h)
          /\ AddWish(req[h].batch[1].wish)
          /\ UNCHANGED <<windows, rows, logs, sths, executedIn, price, miracles, headers, signed,
                         epoch, open, previous, pc, world, loop, live, boots>>
        BY <1>3 DEF ProposeFails
    <2>2. MemoryTypes'
        BY <1>1, <2>1, AppendUnstoredTypes
    <2>3. LogTypes' /\ WishTypes' /\ ChainTypes' /\ RequestTypes'
        BY <2>1, AddWishTypes, SameTypes, AnswerTypes
    <2>4. WorldTypes' /\ LoopInStep'
        BY <2>1, LoopStays DEF WorldTypes, world, loop
    <2> QED BY <2>2, <2>3, <2>4
<1> QED BY <1>2, <1>3 DEF Faults

\* Whenever the process ends, what a restart relies on is on the disk, also when
\* it ends while it opens a window.
LEMMA DieKeeps ==
    ASSUME IInv, Die, UNCHANGED headers,
           \/ UNCHANGED windows
           \/ pc \in {"starting", "open"} /\ DOMAIN windows' = DOMAIN windows \cup {Len(run) + 1}
    PROVE  MemoryTypes' /\ WorldTypes' /\ RequestTypes' /\ LoopInStep'
<1> USE DEF IInv, TypeOK
<1>1. MemoryTypes'
    <2>1. epoch' = 0 /\ previous' = 0 /\ open' = FALSE /\ leaves' = <<>> /\ seen' = {}
        BY DEF Die, MemoryLost
    <2>2. 0 \in 0..(MaxEpoch + 1) /\ 0 \in 0..MaxEpoch
        BY ConstantTypes
    <2>3. leaves' \in Seq(Sparks)
        BY <2>1, EmptySeq
    <2> QED BY <2>1, <2>2, <2>3 DEF MemoryTypes
<1>2. WorldTypes'
    <2>1. seed' \in [beacon : Ties \cup {NoSeed.beacon}, prev : HeaderHashes]
        BY NoHeaderTypes DEF Die, NoSeed
    <2> QED BY <2>1, EmptySeq, ConstantTypes DEF Die, WorldTypes, Stages
<1>3. RequestTypes'
    BY EmptySeq, ConstantTypes DEF Die, RequestTypes, Requests, Idle
<1>4. LoopInStep'
    <2>1. /\ pc' = "down" /\ epoch' = 0 /\ open' = FALSE /\ Len(run') = 0
          /\ snapshot' = snapshot /\ store' = store
        BY EmptySeq DEF Die, MemoryLost
    <2>2. Len(snapshot) \in Nat /\ Len(run) \in Nat
        BY LenProperties DEF WorldTypes
    <2>3. WindowsSaved
        BY <2>2 DEF LoopInStep, WorldTypes, Stages, WindowsSaved, WindowsTo
    <2>4. HeadersSaved \/ (HeadersTo(Len(snapshot) + 1) /\ WindowsTo(Len(snapshot) + 1))
        BY <2>2 DEF LoopInStep, WorldTypes, Stages, HeadersSaved, HeadersTo, WindowsTo
    <2>5. CASE windows' = windows
        BY <2>1, <2>3, <2>4, <2>5, ConstantTypes
            DEF LoopInStep, WindowsSaved, HeadersSaved, WindowsTo, HeadersTo
    <2>6. CASE pc \in {"starting", "open"} /\ DOMAIN windows' = DOMAIN windows \cup {Len(run) + 1}
        <3>1. run = snapshot /\ HeadersSaved
            BY <2>6 DEF LoopInStep, HeadersSaved, HeadersTo
        <3>2. DOMAIN windows' = FirstWindow..(Len(snapshot) + 1)
            BY <2>2, <2>3, <2>6, <3>1, ConstantTypes DEF LoopInStep, WindowsSaved, WindowsTo
        <3> QED BY <2>1, <3>1, <3>2, ConstantTypes
                DEF LoopInStep, WindowsSaved, HeadersSaved, WindowsTo, HeadersTo
    <2> QED BY <2>5, <2>6
<1> QED BY <1>1, <1>2, <1>3, <1>4

\* A restart that ends half-way leaves no more behind than it found.
LEMMA CrashInRollbackIInv ==
    ASSUME IInv, CrashInRollback
    PROVE  IInv'
<1> USE DEF IInv, TypeOK
<1>1. /\ pc = "down" /\ store' = SubSeq(store, 1, Len(snapshot))
      /\ UNCHANGED <<windows, rows, logs, sths, wishTable, price, memory, signed, pc, run,
                     snapshot, loop, live, boots, req>>
      /\ miracles' = miracles \/ miracles' = KeptMiracles(Len(snapshot))
      /\ headers' = headers \/ headers' = [d \in KeptHeaders(Len(snapshot)) |-> headers[d]]
    BY DEF CrashInRollback
<1>2. Len(snapshot) \in Nat /\ Len(snapshot) <= MaxEpoch
    BY LenProperties DEF WorldTypes, LoopInStep
<1>3. LogTypes' /\ WishTypes' /\ MemoryTypes' /\ RequestTypes'
    BY <1>1, SameTypes DEF wishTable
<1>4. ChainTypes'
    <2>1. miracles' \in [1..MaxEpoch -> Seq(Miracle)]
        <3>1. KeptMiracles(Len(snapshot)) \in [1..MaxEpoch -> Seq(Miracle)]
            BY EmptySeq DEF ChainTypes, KeptMiracles
        <3> QED BY <1>1, <3>1 DEF ChainTypes
    <2>2. DOMAIN headers' \subseteq DOMAIN headers
        BY <1>1 DEF KeptHeaders
    <2>3. \A e \in DOMAIN headers' : headers'[e] = headers[e]
        BY <1>1, <2>2
    <2> QED BY <2>1, <2>2, <2>3 DEF ChainTypes, HeaderHash
<1>5. store' = snapshot
    BY <1>1, CutToPrefix DEF LoopInStep, WorldTypes
<1>6. WorldTypes'
    BY <1>1, <1>5 DEF WorldTypes, loop
<1>7. LoopInStep'
    <2>1. IsPrefix(snapshot', store')
        BY <1>1, <1>5, PrefixOfItself DEF WorldTypes
    <2>2. \/ DOMAIN headers' = DOMAIN headers
          \/ DOMAIN headers' = {d \in DOMAIN headers : d <= Len(snapshot)}
        BY <1>1 DEF KeptHeaders
    <2>3. HeadersSaved' \/ (HeadersTo(Len(snapshot) + 1) /\ WindowsTo(Len(snapshot) + 1))'
        <3>1. FirstHeader \in Nat
            BY FirstHeaderType
        <3>2. UNCHANGED <<snapshot, windows>>
            BY <1>1
        <3>3. HeadersSaved \/ (HeadersTo(Len(snapshot) + 1) /\ WindowsTo(Len(snapshot) + 1))
            BY <1>1 DEF LoopInStep
        <3>4. CASE DOMAIN headers' = DOMAIN headers
            BY <3>2, <3>3, <3>4 DEF HeadersSaved, HeadersTo, WindowsTo
        <3>5. CASE DOMAIN headers' = {d \in DOMAIN headers : d <= Len(snapshot)}
            <4>1. CASE HeadersTo(Len(snapshot)) \/ HeadersTo(Len(snapshot) + 1)
                <5>1. DOMAIN headers' = FirstHeader..Len(snapshot)
                    BY <3>1, <3>5, <4>1, <1>2 DEF HeadersTo
                <5> QED BY <5>1, <3>2 DEF HeadersSaved, HeadersTo
            <4>2. CASE snapshot = <<>> /\ HeadersTo(-1)
                <5>1. DOMAIN headers' = FirstHeader..(-1)
                    BY <3>1, <3>5, <4>2, <1>2 DEF HeadersTo
                <5> QED BY <5>1, <3>2, <4>2 DEF HeadersSaved, HeadersTo
            <4> QED BY <3>3, <4>1, <4>2 DEF HeadersSaved
        <3> QED BY <2>2, <3>4, <3>5
    <2>4. WindowsSaved'
        BY <1>1 DEF LoopInStep, WindowsSaved, WindowsTo
    <2> QED BY <1>1, <2>1, <2>3, <2>4 DEF LoopInStep, memory
<1> QED BY <1>3, <1>4, <1>6, <1>7

\* A window that is opened half-way keeps the types of the log.
LEMMA HalfOpenTypes ==
    ASSUME LogTypes, NEW e \in Windows, NEW hash \in HeaderHashes, TargetFor(e) \in Nat \ {0},
           EpochSparks(e) \in Seq(Sparks), WindowRow(e, hash),
           UNCHANGED <<rows, logs>> \/ BackToRows(e),
           UNCHANGED <<sths, signed>> \/ SignHead(e, EpochSparks(e), FALSE)
    PROVE  LogTypes'
<1>1. /\ DOMAIN windows' \subseteq Windows
      /\ \A d \in DOMAIN windows' : windows'[d] \in WindowRecords
    BY WindowRowTypes
<1>2. /\ rows' \in [Windows -> Seq(Sparks)]
      /\ DOMAIN logs' \subseteq Windows
      /\ \A d \in DOMAIN logs' : logs'[d] \in Seq(Sparks)
    <2>1. CASE UNCHANGED <<rows, logs>>
        BY <2>1 DEF LogTypes
    <2>2. CASE BackToRows(e)
        BY <2>2, BackToRowsTypes
    <2> QED BY <2>1, <2>2
<1>3. /\ DOMAIN sths' = Windows
      /\ \A d \in Windows : \A head \in sths'[d] : head \in TreeHeads
      /\ signed' \in [Windows -> Seq(Sparks)]
    <2>1. CASE UNCHANGED <<sths, signed>>
        BY <2>1 DEF LogTypes
    <2>2. CASE SignHead(e, EpochSparks(e), FALSE)
        <3>1. FALSE \in BOOLEAN
            OBVIOUS
        <3> QED BY <2>2, <3>1, SignHeadTypes
    <2> QED BY <2>1, <2>2
<1> QED BY <1>1, <1>2, <1>3 DEF LogTypes

LEMMA CrashInOpenIInv ==
    ASSUME IInv, CrashInOpen
    PROVE  IInv'
<1> USE DEF IInv, TypeOK
<1> DEFINE e == Len(run) + 1
<1>1. /\ pc \in {"starting", "open"} /\ WindowRow(e, HeaderHashOr(Len(run), GenesisRoot))
      /\ (UNCHANGED <<rows, logs>> \/ BackToRows(e))
      /\ (UNCHANGED <<sths, signed>> \/ SignHead(e, EpochSparks(e), FALSE))
      /\ Die /\ UNCHANGED <<wishTable, price, miracles, headers>>
    BY DEF CrashInOpen
<1>2. /\ Len(run) \in Nat /\ e \in Windows /\ (WindowsTo(e - 1) \/ WindowsTo(e))
      /\ HeaderHashOr(Len(run), GenesisRoot) \in HeaderHashes
    <2>1. Len(run) \in Nat /\ Len(run) <= MaxEpoch /\ e - 1 = Len(run)
        BY LenProperties DEF WorldTypes, LoopInStep
    <2>2. WindowsTo(Len(run)) \/ WindowsTo(Len(run) + 1)
        BY <1>1 DEF LoopInStep, WindowsSaved
    <2>3. HeaderHashOr(Len(run), GenesisRoot) \in HeaderHashes
        BY NoHeaderTypes, HeaderHashOrType
    <2> QED BY <2>1, <2>2, <2>3, ConstantTypes DEF Windows
<1> HIDE DEF e
<1>3. LogTypes'
    <2>1. TargetFor(e) \in Nat \ {0} /\ EpochSparks(e) \in Seq(Sparks)
        BY <1>2, TargetForType, EpochSparksType
    <2> QED BY <1>1, <1>2, <2>1, HalfOpenTypes
<1>4. WishTypes' /\ ChainTypes'
    BY <1>1, SameTypes DEF wishTable
<1>5. DOMAIN windows' = DOMAIN windows \cup {Len(run) + 1}
    BY <1>1, WindowRowExtends DEF e
<1> QED BY <1>1, <1>3, <1>4, <1>5, DieKeeps

LEMMA CrashesIInv ==
    ASSUME IInv, Crashes
    PROVE  IInv'
<1> USE DEF IInv, TypeOK
<1>1. CASE Crash
    <2>1. LogTypes' /\ WishTypes' /\ ChainTypes'
        BY <1>1, SameTypes DEF Crash, disk
    <2> QED BY <1>1, <2>1, DieKeeps DEF Crash, disk
<1>2. CASE CrashInClose
    <2>1. WishTypes' /\ ChainTypes'
        BY <1>2, SameTypes DEF CrashInClose, wishTable
    <2>2. LogTypes'
        BY <1>2, OpenWindowIsOne, SignHeadTypes DEF CrashInClose, LogTypes, MemoryTypes
    <2> QED BY <1>2, <2>1, <2>2, DieKeeps DEF CrashInClose
<1>3. ASSUME NEW tie \in Ties, NEW shareClosed \in ShareClosed, CrashInSelect(tie, shareClosed)
      PROVE  IInv'
    <2>1. LogTypes' /\ ChainTypes'
        BY <1>3, SameTypes DEF CrashInSelect
    <2>2. WishTypes'
        <3>1. status' \in [Wishes -> Statuses]
            BY <1>3 DEF CrashInSelect, StatusWrites, WishTypes, Statuses
        <3> QED BY <1>3, <3>1 DEF CrashInSelect, WishTypes
    <2> QED BY <1>3, <2>1, <2>2, DieKeeps DEF CrashInSelect
<1>4. ASSUME NEW h \in Handlers, CrashInAppend(h)
      PROVE  IInv'
    <2>1. PICK passed \in Passed(req[h]) : \E new \in Placed(req[h].ticket, passed) :
              new # <<>> /\ rows' = [rows EXCEPT ![epoch] = @ \o new]
        BY <1>4 DEF CrashInAppend
    <2>2. PICK new \in Placed(req[h].ticket, passed) : rows' = [rows EXCEPT ![epoch] = @ \o new]
        BY <2>1
    <2>3. new \in Seq(Sparks)
        BY PassedType, PlacedType DEF RequestTypes
    <2>4. rows' \in [Windows -> Seq(Sparks)]
        BY <2>2, <2>3, ConcatProperties DEF LogTypes
    <2>5. LogTypes' /\ WishTypes' /\ ChainTypes'
        BY <1>4, <2>4, SameTypes DEF CrashInAppend, LogTypes, wishTable
    <2> QED BY <1>4, <2>5, DieKeeps DEF CrashInAppend
<1>5. ASSUME NEW h \in Handlers, CrashInPropose(h)
      PROVE  IInv'
    <2>1. LogTypes' /\ ChainTypes' /\ WishTypes'
        BY <1>5, SameTypes, AddWishTypes DEF CrashInPropose
    <2> QED BY <1>5, <2>1, DieKeeps DEF CrashInPropose
<1> QED BY <1>1, <1>2, <1>3, <1>4, <1>5, CrashInRollbackIInv, CrashInOpenIInv DEF Crashes

\* Every step keeps the inductive invariant.
LEMMA NextIInv ==
    ASSUME IInv, [Next]_vars
    PROVE  IInv'
<1>1. CASE Next
    <2>1. CASE Start
        BY <2>1, RollbackIInv, ResumeIInv DEF Start
    <2>2. CASE LoopStep
        BY <2>2, CloseIInv, SelectIInv, StepIInv, RecordMiraclesIInv, PublishIInv, SealEpochIInv,
           SaveIInv, OpenNextIInv, CheckWishesIInv DEF LoopStep
    <2>3. ASSUME NEW h \in Handlers, Request(h) \/ Respond(h) \/ Faults(h)
          PROVE  IInv'
        BY <2>3, BeginIInv, RespondIInv, FaultsIInv DEF Request
    <2>4. CASE Crashes
        BY <2>4, CrashesIInv
    <2> QED BY <1>1, <2>1, <2>2, <2>3, <2>4 DEF Next
<1>2. CASE UNCHANGED vars
    <2> USE DEF IInv, TypeOK, vars
    <2>1. LogTypes' /\ WishTypes' /\ ChainTypes' /\ MemoryTypes' /\ RequestTypes'
        BY <1>2, SameTypes DEF disk
    <2>2. WorldTypes' /\ LoopInStep'
        BY <1>2, LoopStays DEF WorldTypes, world, loop, disk, memory
    <2> QED BY <2>1, <2>2
<1> QED BY <1>1, <1>2

-----------------------------------------------------------------------------
(* Theorems. *)

\* Every variable keeps its type, for any constants: among them that work and
\* targets stay positive, that batches are filtered and appended as lists, and
\* that a restart always finds a world to resume.
THEOREM TypesHold == Safe => []TypeOK
<1>1. IInv => TypeOK
    BY DEF IInv
<1> QED BY InitIInv, NextIInv, <1>1, PTL DEF Safe

\* The window, the world, the snapshot and the headers stay in step, whatever
\* crashes and requests there are.
THEOREM LoopStaysInStep == Safe => []LoopInStep
<1>1. IInv => LoopInStep
    BY DEF IInv
<1> QED BY InitIInv, NextIInv, <1>1, PTL DEF Safe

-----------------------------------------------------------------------------
(* The spark logs and their heads. *)

\* What append and precheck rely on while a window is open.
WindowInv ==
    open => epoch \notin DOMAIN logs /\ Ids(EpochSparks(epoch)) \subseteq seen

SameLogs == \A e \in Windows : EpochSparks(e)' = EpochSparks(e)

\* The window that is open after the step was open before, and has forgotten
\* nothing it has seen.
KeepsWindow ==
    open' => open /\ epoch' = epoch /\ epoch \notin DOMAIN logs' /\ seen \subseteq seen'

\* A window has been opened with the ids of its log.
OpensWindow ==
    /\ epoch' \notin DOMAIN logs'
    /\ epoch' \in Windows /\ seen' = Ids(EpochSparks(epoch'))

\* Sparks that may join the log of the open window.
Newcomers(new) ==
    /\ new \in Seq(Sparks)
    /\ \A i \in DOMAIN new : new[i].mined = epoch /\ SparkId(new[i]) \notin seen
    /\ \A i, j \in DOMAIN new : i # j => SparkId(new[i]) # SparkId(new[j])

\* The log of the open window gains new sparks at its end, and so do the ids
\* that the window has seen, unless the process ends.
Gains(new) ==
    /\ open
    /\ Newcomers(new)
    /\ \A e \in Windows :
          EpochSparks(e)' = IF e = epoch THEN EpochSparks(e) \o new ELSE EpochSparks(e)
    /\ open' => epoch' = epoch /\ epoch \notin DOMAIN logs' /\ seen \cup Ids(new) \subseteq seen'

-----------------------------------------------------------------------------
(* What each operation does to the logs. *)

LEMMA LogsUntouched ==
    ASSUME UNCHANGED <<rows, logs>>
    PROVE  SameLogs
BY DEF SameLogs, EpochSparks

\* A log is the same as rows and packed.
LEMMA BackToRowsLogs ==
    ASSUME LogTypes, NEW e \in Windows, BackToRows(e)
    PROVE  SameLogs
<1>1. rows' = [rows EXCEPT ![e] = EpochSparks(e)] /\ logs' = [d \in DOMAIN logs \ {e} |-> logs[d]]
    BY DEF BackToRows, RowsOf
<1>2. DOMAIN rows = Windows
    BY DEF LogTypes
<1>3. ASSUME NEW d \in Windows
      PROVE  EpochSparks(d)' = EpochSparks(d)
    BY <1>1, <1>2 DEF EpochSparks
<1> QED BY <1>3 DEF SameLogs

LEMMA OpenWindowLogs ==
    ASSUME LogTypes, NEW e \in Windows, NEW hash, OpenWindow(e, hash)
    PROVE  SameLogs /\ OpensWindow
<1>1. BackToRows(e) /\ epoch' = e /\ seen' = Ids(EpochSparks(e))
    BY DEF OpenWindow, SeenOf
<1>2. SameLogs
    BY <1>1, BackToRowsLogs
<1>3. e \notin DOMAIN logs' /\ EpochSparks(e)' = EpochSparks(e)
    BY <1>1, <1>2 DEF BackToRows, SameLogs
<1> QED BY <1>1, <1>2, <1>3 DEF OpensWindow

LEMMA CloseWindowLogs ==
    ASSUME LogTypes, WindowInv, epoch \in Windows, CloseWindow
    PROVE  SameLogs /\ ~open'
<1>1. /\ rows' = [rows EXCEPT ![epoch] = <<>>] /\ logs' = Put(logs, epoch, rows[epoch])
      /\ epoch \notin DOMAIN logs /\ open' = FALSE
    BY DEF CloseWindow, WindowInv
<1>2. DOMAIN rows = Windows
    BY DEF LogTypes
<1>3. ASSUME NEW d \in Windows
      PROVE  EpochSparks(d)' = EpochSparks(d)
    BY <1>1, <1>2 DEF EpochSparks, Put
<1> QED BY <1>1, <1>3 DEF SameLogs

\* Sparks are placed only in the window that was open when they came, and only
\* those whose id is new to the log and to the batch (intake.rs append).
LEMMA PlacedSparks ==
    ASSUME NEW ticket, NEW batch \in Seq(Sparks), NEW new \in Placed(ticket, batch),
           \A i \in DOMAIN batch : batch[i].mined = ticket
    PROVE  Newcomers(new) /\ (new # <<>> => open)
<1>1. PICK f \in Orders(batch) :
          ToSet(f) = Fresh(ticket, batch) /\ new = [i \in DOMAIN f |-> batch[f[i]]]
    BY DEF Placed
<1>2. f \in Seq(1..Len(batch)) /\ DOMAIN batch = 1..Len(batch) /\ Len(batch) \in Nat
    BY LenProperties, BoundedSeqIsSeq DEF Orders
<1>3. DOMAIN f = 1..Len(f) /\ Len(f) \in Nat /\ DOMAIN new = DOMAIN f
    BY <1>1, <1>2, LenProperties
<1>4. new \in Seq(Sparks)
    BY PlacedType
<1>5. ASSUME NEW i \in DOMAIN new
      PROVE  f[i] \in Fresh(ticket, batch) /\ new[i] = batch[f[i]]
    BY <1>1, <1>3 DEF ToSet
<1>6. ASSUME NEW i \in DOMAIN new
      PROVE  open /\ new[i].mined = epoch /\ SparkId(new[i]) \notin seen
    BY <1>5 DEF Fresh, Accepts
<1>7. ASSUME NEW i \in DOMAIN new, NEW j \in DOMAIN new, i < j
      PROVE  SparkId(new[i]) # SparkId(new[j])
    <2>1. f[i] < f[j]
        BY <1>3, <1>7, <1>1 DEF Orders
    <2>2. f[i] \in DOMAIN batch
        BY <1>5 DEF Fresh
    <2> QED BY <1>5, <2>1, <2>2 DEF Fresh
<1>8. ASSUME NEW i \in DOMAIN new, NEW j \in DOMAIN new, i # j
      PROVE  SparkId(new[i]) # SparkId(new[j])
    <2>1. i < j \/ j < i
        BY <1>3, <1>8
    <2> QED BY <1>7, <2>1
<1>9. new # <<>> => DOMAIN new # {}
    <2> SUFFICES ASSUME new # <<>> PROVE 1 \in DOMAIN new
        OBVIOUS
    <2>1. DOMAIN new = 1..Len(new) /\ Len(new) \in Nat \ {0}
        BY <1>4, LenProperties, EmptySeq
    <2> QED BY <2>1
<1> QED BY <1>4, <1>6, <1>8, <1>9 DEF Newcomers

\* Rows that are placed follow the log of the open window.
LEMMA PlacedLogs ==
    ASSUME LogTypes, WindowInv, epoch \in Windows, NEW new, Newcomers(new), open,
           rows' = [rows EXCEPT ![epoch] = @ \o new], logs' = logs
    PROVE  \A e \in Windows :
               EpochSparks(e)' = IF e = epoch THEN EpochSparks(e) \o new ELSE EpochSparks(e)
<1>1. epoch \notin DOMAIN logs
    BY DEF WindowInv
<1>2. rows'[epoch] = rows[epoch] \o new
    BY DEF LogTypes
<1>3. \A e \in Windows \ {epoch} : rows'[e] = rows[e]
    BY DEF LogTypes
<1> QED BY <1>1, <1>2, <1>3 DEF EpochSparks

\* Nothing placed, nothing changed.
LEMMA NothingPlacedLogs ==
    ASSUME LogTypes, rows' = [rows EXCEPT ![epoch] = @ \o <<>>], logs' = logs
    PROVE  SameLogs
<1>1. ASSUME NEW e \in Windows
      PROVE  rows'[e] = rows[e]
    <2>1. rows[e] \in Seq(Sparks) /\ rows[e] \o <<>> = rows[e]
        BY ConcatEmptySeq DEF LogTypes
    <2> QED BY <2>1 DEF LogTypes
<1> QED BY <1>1 DEF SameLogs, EpochSparks

LEMMA AppendSparksLogs ==
    ASSUME LogTypes, WindowInv, epoch \in Windows, NEW ticket, NEW batch \in Seq(Sparks),
           \A i \in DOMAIN batch : batch[i].mined = ticket,
           AppendSparks(ticket, batch), UNCHANGED <<logs, epoch, open>>
    PROVE  (SameLogs /\ KeepsWindow) \/ \E new : Gains(new)
<1>1. PICK new \in Placed(ticket, batch) :
          rows' = [rows EXCEPT ![epoch] = @ \o new] /\ seen' = seen \cup Ids(new)
    BY DEF AppendSparks, Remember
<1>2. Newcomers(new) /\ (new # <<>> => open)
    BY PlacedSparks
<1>3. CASE new = <<>>
    <2>1. SameLogs
        BY <1>1, <1>3, NothingPlacedLogs
    <2> QED BY <1>1, <2>1 DEF KeepsWindow, WindowInv
<1>4. CASE new # <<>>
    <2>1. Gains(new)
        BY <1>1, <1>2, <1>4, PlacedLogs DEF Gains, WindowInv
    <2> QED BY <2>1
<1> QED BY <1>3, <1>4

\* The sparks that a check has passed meet the challenge of the ticket.
LEMMA PassedMeet ==
    ASSUME NEW r \in Requests, NEW passed \in Passed(r)
    PROVE  \A i \in DOMAIN passed : passed[i].mined = r.ticket
<1> DEFINE good == {i \in DOMAIN r.batch : /\ \A j \in 1..(i - 1) : ~Forged(r.batch[j], r)
                                           /\ Meets(r.batch[i], r.ticket)}
<1>1. PICK f \in Orders(r.batch) :
          ToSet(f) = good /\ passed = [i \in DOMAIN f |-> r.batch[f[i]]]
    BY DEF Passed
<1>2. ASSUME NEW i \in DOMAIN passed
      PROVE  f[i] \in good /\ passed[i] = r.batch[f[i]]
    BY <1>1 DEF ToSet
<1> QED BY <1>2 DEF Meets

-----------------------------------------------------------------------------
(* Every step leaves the logs or adds to the log of the open window. *)

LEMMA LoopLogs ==
    ASSUME IInv, WindowInv, Start \/ LoopStep
    PROVE  SameLogs /\ (KeepsWindow \/ OpensWindow)
<1> USE DEF IInv, TypeOK
<1>1. CASE Rollback
    <2>1. SameLogs
        BY <1>1, LogsUntouched DEF Rollback
    <2> QED BY <1>1, <2>1 DEF Rollback, KeepsWindow, memory, WindowInv
<1>2. ASSUME NEW failing, Resume(failing)
      PROVE  SameLogs /\ OpensWindow
    <2>1. Len(run) + 1 \in Windows
        BY LenProperties, ConstantTypes DEF WorldTypes, LoopInStep, Windows
    <2> QED BY <1>2, <2>1, OpenWindowLogs DEF Resume
<1>3. CASE Close
    <2>1. epoch \in Windows
        BY <1>3, OpenWindowIsOne DEF Close, CloseWindow
    <2> QED BY <1>3, <2>1, CloseWindowLogs DEF Close, KeepsWindow
<1>4. CASE OpenNext
    <2>1. Len(run) + 1 \in Windows
        BY LenProperties, ConstantTypes DEF WorldTypes, LoopInStep, Windows
    <2> QED BY <1>4, <2>1, OpenWindowLogs DEF OpenNext
<1>5. CASE \/ Step \/ RecordMiracles \/ Publish \/ SealEpoch \/ Save
           \/ \E tie \in Ties, shareClosed \in ShareClosed : Select(tie, shareClosed)
           \/ \E failing \in Doomed : CheckWishes(failing)
    <2>1. UNCHANGED <<rows, logs, memory>>
        BY <1>5 DEF Step, RecordMiracles, Publish, SealEpoch, Save, Select, CheckWishes, disk
    <2> QED BY <2>1, LogsUntouched DEF KeepsWindow, memory, WindowInv
<1> QED BY <1>1, <1>2, <1>3, <1>4, <1>5 DEF Start, LoopStep

LEMMA RequestLogs ==
    ASSUME IInv, WindowInv, NEW h \in Handlers, Request(h) \/ Respond(h) \/ Faults(h)
    PROVE  (SameLogs /\ KeepsWindow) \/ \E new : Gains(new)
<1> USE DEF IInv, TypeOK
<1>1. req[h] \in Requests /\ req[h].batch \in Seq(Sparks)
    BY DEF RequestTypes, Requests
<1>2. CASE Request(h) \/ Dismiss(h)
    <2>1. UNCHANGED <<rows, logs, memory>>
        BY <1>2 DEF Request, Dismiss, BeginPropose, BeginSparks, disk
    <2> QED BY <2>1, LogsUntouched DEF KeepsWindow, memory, WindowInv
<1>3. CASE FinishPropose(h)
    <2>1. /\ req[h].kind = "propose" /\ Meets(req[h].batch[1], req[h].ticket) /\ Serving
          /\ AppendSparks(req[h].ticket, req[h].batch) /\ UNCHANGED <<logs, epoch, open>>
        BY <1>3 DEF FinishPropose
    <2>2. \A i \in DOMAIN req[h].batch : req[h].batch[i].mined = req[h].ticket
        <3>1. Len(req[h].batch) = 1
            BY <2>1 DEF RequestTypes
        <3>2. DOMAIN req[h].batch = {1}
            BY <1>1, <3>1, LenProperties
        <3> QED BY <2>1, <3>2 DEF Meets
    <2> QED BY <1>1, <2>1, <2>2, ServingWindow, AppendSparksLogs
<1>4. CASE FinishSparks(h)
    <2>1. PICK passed \in Passed(req[h]) :
              /\ Serving /\ AppendSparks(req[h].ticket, passed) /\ UNCHANGED <<logs, epoch, open>>
        BY <1>4 DEF FinishSparks
    <2>2. passed \in Seq(Sparks) /\ \A i \in DOMAIN passed : passed[i].mined = req[h].ticket
        BY <1>1, PassedType, PassedMeet
    <2> QED BY <2>1, <2>2, ServingWindow, AppendSparksLogs
<1>5. CASE Faults(h)
    <2>1. UNCHANGED <<rows, logs, epoch, open>> /\ seen \subseteq seen'
        BY <1>5 DEF Faults, AppendFails, ProposeFails, AppendUnstored, Remember, disk
    <2> QED BY <2>1, LogsUntouched DEF KeepsWindow, WindowInv
<1> QED BY <1>2, <1>3, <1>4, <1>5 DEF Respond

LEMMA HalfOpenLogs ==
    ASSUME IInv, CrashInOpen
    PROVE  SameLogs
<1>1. Len(run) + 1 \in Windows /\ LogTypes
    BY LenProperties, ConstantTypes DEF IInv, TypeOK, WorldTypes, LoopInStep, Windows
<1>2. UNCHANGED <<rows, logs>> \/ BackToRows(Len(run) + 1)
    BY DEF CrashInOpen
<1> QED BY <1>1, <1>2, LogsUntouched, BackToRowsLogs

LEMMA CrashLogs ==
    ASSUME IInv, WindowInv, Crashes
    PROVE  (SameLogs /\ KeepsWindow) \/ \E new : Gains(new)
<1> USE DEF IInv, TypeOK
<1>1. CASE \E h \in Handlers : CrashInAppend(h)
    <2>1. PICK h \in Handlers : CrashInAppend(h)
        BY <1>1
    <2>2. PICK passed \in Passed(req[h]) : \E new \in Placed(req[h].ticket, passed) :
              new # <<>> /\ rows' = [rows EXCEPT ![epoch] = @ \o new]
        BY <2>1 DEF CrashInAppend
    <2>3. PICK new \in Placed(req[h].ticket, passed) :
              new # <<>> /\ rows' = [rows EXCEPT ![epoch] = @ \o new]
        BY <2>2
    <2>4. Newcomers(new) /\ open
        BY <2>3, PassedType, PassedMeet, PlacedSparks DEF RequestTypes
    <2>5. epoch \in Windows
        BY <2>4, OpenWindowIsOne
    <2>6. logs' = logs /\ open' = FALSE
        BY <2>1 DEF CrashInAppend, Die, MemoryLost
    <2>7. Gains(new)
        BY <2>3, <2>4, <2>5, <2>6, PlacedLogs DEF Gains
    <2> QED BY <2>7
<1>2. CASE \/ Crash \/ CrashInClose
           \/ \E tie \in Ties, shareClosed \in ShareClosed : CrashInSelect(tie, shareClosed)
           \/ \E h \in Handlers : CrashInPropose(h)
    <2>1. UNCHANGED <<rows, logs>> /\ open' = FALSE
        BY <1>2 DEF Crash, CrashInClose, CrashInSelect, CrashInPropose, Die, MemoryLost, disk
    <2> QED BY <2>1, LogsUntouched DEF KeepsWindow
<1>3. CASE CrashInRollback
    <2>1. UNCHANGED <<rows, logs>> /\ UNCHANGED memory
        BY <1>3 DEF CrashInRollback
    <2> QED BY <2>1, LogsUntouched DEF KeepsWindow, memory, WindowInv
<1>4. CASE CrashInOpen
    <2>1. open' = FALSE
        BY <1>4 DEF CrashInOpen, Die, MemoryLost
    <2>2. SameLogs
        BY <1>4, HalfOpenLogs
    <2> QED BY <2>1, <2>2 DEF KeepsWindow
<1> QED BY <1>1, <1>2, <1>3, <1>4 DEF Crashes

\* The one step that a log can take.
LEMMA LogStep ==
    ASSUME IInv, WindowInv, [Next]_vars
    PROVE  (SameLogs /\ (KeepsWindow \/ OpensWindow)) \/ \E new : Gains(new)
<1>1. CASE UNCHANGED vars
    BY <1>1, LogsUntouched DEF vars, disk, memory, KeepsWindow, WindowInv
<1>2. CASE Next
    BY <1>2, LoopLogs, RequestLogs, CrashLogs DEF Next
<1> QED BY <1>1, <1>2

-----------------------------------------------------------------------------
(* The invariants of the logs. *)

LEMMA IdsOfConcat ==
    ASSUME NEW s \in Seq(Sparks), NEW t \in Seq(Sparks)
    PROVE  Ids(s \o t) = Ids(s) \cup Ids(t)
<1>1. /\ s \o t \in Seq(Sparks) /\ Len(s \o t) = Len(s) + Len(t)
      /\ \A i \in 1..(Len(s) + Len(t)) :
            (s \o t)[i] = IF i <= Len(s) THEN s[i] ELSE t[i - Len(s)]
    BY ConcatProperties
<1>2. /\ DOMAIN s = 1..Len(s) /\ DOMAIN t = 1..Len(t) /\ DOMAIN (s \o t) = 1..(Len(s) + Len(t))
      /\ Len(s) \in Nat /\ Len(t) \in Nat
    BY <1>1, LenProperties
<1>3. \A i \in DOMAIN (s \o t) : SparkId((s \o t)[i]) \in Ids(s) \cup Ids(t)
    <2>1. ASSUME NEW i \in DOMAIN (s \o t), i <= Len(s)
          PROVE  SparkId((s \o t)[i]) \in Ids(s)
        BY <1>1, <1>2, <2>1 DEF Ids
    <2>2. ASSUME NEW i \in DOMAIN (s \o t), ~(i <= Len(s))
          PROVE  SparkId((s \o t)[i]) \in Ids(t)
        <3>1. i - Len(s) \in DOMAIN t /\ (s \o t)[i] = t[i - Len(s)]
            BY <1>1, <1>2, <2>2
        <3> QED BY <3>1 DEF Ids
    <2> QED BY <2>1, <2>2
<1>4. \A i \in DOMAIN s : SparkId(s[i]) \in Ids(s \o t)
    <2>1. \A i \in DOMAIN s : i \in DOMAIN (s \o t) /\ (s \o t)[i] = s[i]
        BY <1>1, <1>2
    <2> QED BY <2>1 DEF Ids
<1>5. \A i \in DOMAIN t : SparkId(t[i]) \in Ids(s \o t)
    <2>1. \A i \in DOMAIN t : i + Len(s) \in DOMAIN (s \o t) /\ (s \o t)[i + Len(s)] = t[i]
        BY <1>1, <1>2
    <2> QED BY <2>1 DEF Ids
<1> QED BY <1>3, <1>4, <1>5 DEF Ids

LEMMA NextWindowInv ==
    ASSUME IInv, WindowInv, [Next]_vars
    PROVE  WindowInv'
<1>1. open => epoch \in Windows /\ EpochSparks(epoch) \in Seq(Sparks)
    BY OpenWindowIsOne, EpochSparksType DEF IInv, TypeOK
<1>2. CASE SameLogs /\ KeepsWindow
    <2> SUFFICES ASSUME open'
                 PROVE  epoch' \notin DOMAIN logs' /\ Ids(EpochSparks(epoch))' \subseteq seen'
        BY DEF WindowInv
    <2>1. open /\ epoch' = epoch /\ epoch \notin DOMAIN logs' /\ seen \subseteq seen'
        BY <1>2 DEF KeepsWindow
    <2>2. PICK e \in Windows : e = epoch
        BY <1>1, <2>1
    <2>3. EpochSparks(e)' = EpochSparks(e)
        BY <1>2 DEF SameLogs
    <2>4. Ids(EpochSparks(epoch))' = Ids(EpochSparks(e))
        BY <2>1, <2>2, <2>3
    <2> QED BY <2>1, <2>2, <2>4 DEF WindowInv
<1>3. CASE SameLogs /\ OpensWindow
    <2>1. PICK e \in Windows : e = epoch'
        BY <1>3 DEF OpensWindow
    <2>2. EpochSparks(e)' = EpochSparks(e)
        BY <1>3 DEF SameLogs
    <2>3. Ids(EpochSparks(epoch))' = Ids(EpochSparks(e))
        BY <2>1, <2>2
    <2> QED BY <1>3, <2>1, <2>3 DEF WindowInv, OpensWindow
<1>4. ASSUME NEW new, Gains(new)
      PROVE  WindowInv'
    <2> SUFFICES ASSUME open'
                 PROVE  epoch' \notin DOMAIN logs' /\ Ids(EpochSparks(epoch))' \subseteq seen'
        BY DEF WindowInv
    <2>1. open /\ epoch' = epoch /\ epoch \notin DOMAIN logs' /\ seen \cup Ids(new) \subseteq seen'
        BY <1>4 DEF Gains
    <2>2. PICK e \in Windows : e = epoch
        BY <1>1, <2>1
    <2>3. EpochSparks(e)' = EpochSparks(e) \o new
        BY <1>4, <2>2 DEF Gains
    <2>4. Ids(EpochSparks(epoch))' = Ids(EpochSparks(e) \o new)
        BY <2>1, <2>2, <2>3
    <2>5. Ids(EpochSparks(e) \o new) = Ids(EpochSparks(e)) \cup Ids(new)
        BY <1>1, <1>4, <2>1, <2>2, IdsOfConcat DEF Gains, Newcomers
    <2> QED BY <2>1, <2>2, <2>4, <2>5 DEF WindowInv
<1> QED BY <1>2, <1>3, <1>4, LogStep

\* What a log gains, it gains at its end.
LEMMA GainedSparks ==
    ASSUME IInv, NEW new, Gains(new), NEW e \in Windows, e = epoch
    PROVE  /\ EpochSparks(e) \in Seq(Sparks) /\ new \in Seq(Sparks)
           /\ DOMAIN EpochSparks(e) = 1..Len(EpochSparks(e)) /\ Len(EpochSparks(e)) \in Nat
           /\ DOMAIN new = 1..Len(new) /\ Len(new) \in Nat
           /\ EpochSparks(e)' \in Seq(Sparks)
           /\ DOMAIN EpochSparks(e)' = 1..(Len(EpochSparks(e)) + Len(new))
           /\ \A i \in DOMAIN EpochSparks(e)' :
                 EpochSparks(e)'[i] = IF i <= Len(EpochSparks(e)) THEN EpochSparks(e)[i]
                                      ELSE new[i - Len(EpochSparks(e))]
<1>1. EpochSparks(e) \in Seq(Sparks) /\ new \in Seq(Sparks)
    BY EpochSparksType DEF IInv, TypeOK, Gains, Newcomers
<1>2. EpochSparks(e)' = EpochSparks(e) \o new
    BY DEF Gains
<1> QED BY <1>1, <1>2, ConcatProperties, LenProperties

LEMMA NextInTheirWindow ==
    ASSUME IInv, WindowInv, SparksInTheirWindow, [Next]_vars
    PROVE  SparksInTheirWindow'
<1>1. CASE SameLogs
    BY <1>1 DEF SameLogs, SparksInTheirWindow
<1>2. ASSUME NEW new, Gains(new)
      PROVE  SparksInTheirWindow'
    <2>1. ASSUME NEW e \in Windows, NEW i \in DOMAIN EpochSparks(e)'
          PROVE  EpochSparks(e)'[i].mined = e
        <3>1. CASE e # epoch
            BY <1>2, <2>1, <3>1 DEF Gains, SparksInTheirWindow
        <3>2. CASE e = epoch /\ i <= Len(EpochSparks(e))
            <4>1. i \in DOMAIN EpochSparks(e) /\ EpochSparks(e)'[i] = EpochSparks(e)[i]
                BY <1>2, <2>1, <3>2, GainedSparks
            <4> QED BY <4>1 DEF SparksInTheirWindow
        <3>3. CASE e = epoch /\ ~(i <= Len(EpochSparks(e)))
            <4>1. /\ i - Len(EpochSparks(e)) \in DOMAIN new
                  /\ EpochSparks(e)'[i] = new[i - Len(EpochSparks(e))]
                BY <1>2, <2>1, <3>3, GainedSparks
            <4> QED BY <1>2, <3>3, <4>1 DEF Gains, Newcomers
        <3> QED BY <3>1, <3>2, <3>3
    <2> QED BY <2>1 DEF SparksInTheirWindow
<1> QED BY <1>1, <1>2, LogStep

LEMMA NextNoDuplicates ==
    ASSUME IInv, WindowInv, NoDuplicateSparks, [Next]_vars
    PROVE  NoDuplicateSparks'
<1>1. CASE SameLogs
    BY <1>1 DEF SameLogs, NoDuplicateSparks
<1>2. ASSUME NEW new, Gains(new)
      PROVE  NoDuplicateSparks'
    <2>1. ASSUME NEW e \in Windows, NEW i \in DOMAIN EpochSparks(e)',
                 NEW j \in DOMAIN EpochSparks(e)', i < j
          PROVE  SparkId(EpochSparks(e)'[i]) # SparkId(EpochSparks(e)'[j])
        <3> DEFINE log == EpochSparks(e)
        <3>1. CASE e # epoch
            <4>1. EpochSparks(e)' = log /\ \A k \in DOMAIN log : k \in Int
                <5>1. log \in Seq(Sparks) /\ EpochSparks(e)' = log
                    BY <1>2, <3>1, EpochSparksType DEF Gains, IInv, TypeOK
                <5> QED BY <5>1, LenProperties
            <4>2. i # j
                BY <2>1, <4>1
            <4> QED BY <4>1, <4>2 DEF NoDuplicateSparks
        <3>2. CASE e = epoch /\ j <= Len(log)
            <4>1. /\ i \in DOMAIN log /\ j \in DOMAIN log /\ i # j
                  /\ EpochSparks(e)'[i] = log[i] /\ EpochSparks(e)'[j] = log[j]
                BY <1>2, <2>1, <3>2, GainedSparks
            <4> QED BY <4>1 DEF NoDuplicateSparks
        <3>3. CASE e = epoch /\ i <= Len(log) /\ ~(j <= Len(log))
            <4>1. /\ i \in DOMAIN log /\ EpochSparks(e)'[i] = log[i]
                  /\ j - Len(log) \in DOMAIN new /\ EpochSparks(e)'[j] = new[j - Len(log)]
                BY <1>2, <2>1, <3>3, GainedSparks
            <4>2. SparkId(log[i]) \in seen
                BY <1>2, <3>3, <4>1 DEF WindowInv, Gains, Ids
            <4> QED BY <1>2, <4>1, <4>2 DEF Gains, Newcomers
        <3>4. CASE e = epoch /\ ~(i <= Len(log))
            <4>1. /\ i - Len(log) \in DOMAIN new /\ j - Len(log) \in DOMAIN new
                  /\ EpochSparks(e)'[i] = new[i - Len(log)]
                  /\ EpochSparks(e)'[j] = new[j - Len(log)]
                  /\ i - Len(log) # j - Len(log)
                BY <1>2, <2>1, <3>4, GainedSparks
            <4> QED BY <1>2, <4>1 DEF Gains, Newcomers
        <3> QED BY <3>1, <3>2, <3>3, <3>4
    <2>2. \A e \in Windows : \A k \in DOMAIN EpochSparks(e)' : k \in Int
        <3>1. \A e \in Windows : EpochSparks(e)' \in Seq(Sparks)
            <4>1. ASSUME NEW e \in Windows, e # epoch
                  PROVE  EpochSparks(e)' \in Seq(Sparks)
                BY <1>2, <4>1, EpochSparksType DEF Gains, IInv, TypeOK
            <4> QED BY <1>2, <4>1, GainedSparks
        <3> QED BY <3>1, LenProperties
    <2> SUFFICES ASSUME NEW e \in Windows, NEW i \in DOMAIN EpochSparks(e)',
                        NEW j \in DOMAIN EpochSparks(e)', i # j
                 PROVE  SparkId(EpochSparks(e)'[i]) # SparkId(EpochSparks(e)'[j])
        BY DEF NoDuplicateSparks
    <2>3. i < j \/ j < i
        BY <2>2
    <2> QED BY <2>1, <2>3
<1> QED BY <1>1, <1>2, LogStep

LEMMA InitLogs == Init => WindowInv /\ SparksInTheirWindow /\ NoDuplicateSparks
<1> SUFFICES ASSUME Init PROVE WindowInv /\ SparksInTheirWindow /\ NoDuplicateSparks
    OBVIOUS
<1>1. open = FALSE /\ \A e \in Windows : EpochSparks(e) = <<>>
    BY DEF Init, IntakeInit, EpochSparks
<1>2. DOMAIN <<>> = {}
    OBVIOUS
<1> QED BY <1>1, <1>2 DEF WindowInv, SparksInTheirWindow, NoDuplicateSparks

\* No spark ever lands in the log of a window it was not mined for, with any
\* number of requests in flight, however long their proofs of work take.
THEOREM LogsHoldTheirSparks == Safe => []SparksInTheirWindow
<1>1. IInv /\ WindowInv /\ SparksInTheirWindow /\ [Next]_vars
          => IInv' /\ WindowInv' /\ SparksInTheirWindow'
    BY NextIInv, NextWindowInv, NextInTheirWindow
<1>2. Init => IInv /\ WindowInv /\ SparksInTheirWindow
    BY InitIInv, InitLogs
<1> QED BY <1>1, <1>2, PTL DEF Safe

\* No spark is ever in a log twice: not with any requests in flight, any
\* restarts, nor after a transaction of append that failed.
THEOREM LogsHoldSparksOnce == Safe => []NoDuplicateSparks
<1>1. IInv /\ WindowInv /\ NoDuplicateSparks /\ [Next]_vars
          => IInv' /\ WindowInv' /\ NoDuplicateSparks'
    BY NextIInv, NextWindowInv, NextNoDuplicates
<1>2. Init => IInv /\ WindowInv /\ NoDuplicateSparks
    BY InitIInv, InitLogs
<1> QED BY <1>1, <1>2, PTL DEF Safe

-----------------------------------------------------------------------------
(* The heads: what is in memory, and what is signed. *)

\* The leaves in memory are the log of the current window, open or closed.
LeavesInv == \A e \in Windows : e = epoch => leaves = EpochSparks(e)

\* What a step signs covers the whole log.
SignsWholeLogs == \A e \in Windows : signed'[e] = signed[e] \/ signed'[e] = EpochSparks(e)'

-----------------------------------------------------------------------------
(* Prefixes. *)

LEMMA PrefixMeans ==
    ASSUME NEW S, NEW s \in Seq(S), NEW t \in Seq(S)
    PROVE  IsPrefix(s, t) <=> Len(s) <= Len(t) /\ \A i \in 1..Len(s) : s[i] = t[i]
<1>1. Len(s) \in Nat /\ Len(t) \in Nat
    BY LenProperties
<1>2. SubSeq(s, 1, Len(s)) = s
    BY SubSeqFull
<1> SUFFICES ASSUME Len(s) <= Len(t)
             PROVE  SubSeq(t, 1, Len(s)) = s <=> \A i \in 1..Len(s) : s[i] = t[i]
    BY <1>2 DEF IsPrefix
<1>3. \A i \in 1..Len(s) : t[i] \in S
    BY <1>1, ElementOfSeq
<1>4. LET u == SubSeq(t, 1, Len(s))
      IN u \in Seq(S) /\ Len(u) = Len(s) /\ \A i \in 1..Len(s) : u[i] = t[i]
    BY <1>1, <1>3, SubSeqProperties
<1> QED BY <1>4, SeqEqual

LEMMA PrefixTransitive ==
    ASSUME NEW S, NEW s \in Seq(S), NEW t \in Seq(S), NEW u \in Seq(S),
           IsPrefix(s, t), IsPrefix(t, u)
    PROVE  IsPrefix(s, u)
<1>1. Len(s) \in Nat /\ Len(t) \in Nat /\ Len(u) \in Nat
    BY LenProperties
<1>2. /\ Len(s) <= Len(t) /\ \A i \in 1..Len(s) : s[i] = t[i]
      /\ Len(t) <= Len(u) /\ \A i \in 1..Len(t) : t[i] = u[i]
    BY PrefixMeans
<1>3. Len(s) <= Len(u) /\ \A i \in 1..Len(s) : s[i] = u[i]
    BY <1>1, <1>2
<1> QED BY <1>3, PrefixMeans

LEMMA PrefixOfConcat ==
    ASSUME NEW S, NEW s \in Seq(S), NEW t \in Seq(S)
    PROVE  IsPrefix(s, s \o t)
<1>1. /\ s \o t \in Seq(S) /\ Len(s \o t) = Len(s) + Len(t) /\ Len(s) \in Nat /\ Len(t) \in Nat
      /\ \A i \in 1..(Len(s) + Len(t)) : (s \o t)[i] = IF i <= Len(s) THEN s[i] ELSE t[i - Len(s)]
    BY ConcatProperties, LenProperties
<1>2. Len(s) <= Len(s \o t) /\ \A i \in 1..Len(s) : s[i] = (s \o t)[i]
    BY <1>1
<1> QED BY <1>1, <1>2, PrefixMeans

-----------------------------------------------------------------------------
(* What each step signs. *)

\* Neither a head nor a leaf changes, or the process has ended.
LEMMA HeadsUntouched ==
    ASSUME LeavesInv, SameLogs, signed' = signed,
           epoch' = 0 \/ UNCHANGED <<epoch, leaves>>
    PROVE  SignsWholeLogs /\ LeavesInv'
<1>1. 0 \notin Windows
    BY ConstantTypes DEF Windows
<1>2. ASSUME NEW e \in Windows, e = epoch'
      PROVE  leaves' = EpochSparks(e)'
    BY <1>1, <1>2 DEF LeavesInv, SameLogs
<1> QED BY <1>2 DEF LeavesInv, SignsWholeLogs

LEMMA OpenWindowHeads ==
    ASSUME LogTypes, NEW e \in Windows, NEW hash, OpenWindow(e, hash)
    PROVE  SignsWholeLogs /\ LeavesInv'
<1>1. SameLogs
    BY OpenWindowLogs
<1>2. /\ signed' = [signed EXCEPT ![e] = EpochSparks(e)]
      /\ epoch' = e /\ leaves' = EpochSparks(e)
    BY DEF OpenWindow, SignHead, LeavesOf
<1>3. DOMAIN signed = Windows
    BY DEF LogTypes
<1>4. SignsWholeLogs
    BY <1>1, <1>2, <1>3 DEF SignsWholeLogs, SameLogs
<1>5. \A d \in Windows : d = epoch' => leaves' = EpochSparks(d)'
    BY <1>1, <1>2 DEF SameLogs
<1> QED BY <1>4, <1>5 DEF LeavesInv

\* Signing the leaves of a log that stays.
LEMMA SignLeavesHeads ==
    ASSUME LogTypes, LeavesInv, SameLogs, signed' = [signed EXCEPT ![epoch] = leaves],
           epoch' = 0 \/ UNCHANGED <<epoch, leaves>>
    PROVE  SignsWholeLogs /\ LeavesInv'
<1>1. DOMAIN signed = Windows /\ 0 \notin Windows
    BY ConstantTypes DEF LogTypes, Windows
<1>2. ASSUME NEW e \in Windows
      PROVE  signed'[e] = signed[e] \/ signed'[e] = EpochSparks(e)'
    BY <1>1 DEF LeavesInv, SameLogs
<1>3. ASSUME NEW e \in Windows, e = epoch'
      PROVE  leaves' = EpochSparks(e)'
    BY <1>1, <1>3 DEF LeavesInv, SameLogs
<1> QED BY <1>2, <1>3 DEF LeavesInv, SignsWholeLogs

LEMMA AppendSparksHeads ==
    ASSUME LogTypes, MemoryTypes, WindowInv, LeavesInv, epoch \in Windows,
           NEW ticket, NEW batch \in Seq(Sparks), \A i \in DOMAIN batch : batch[i].mined = ticket,
           AppendSparks(ticket, batch), UNCHANGED <<logs, epoch, open>>
    PROVE  SignsWholeLogs /\ LeavesInv'
<1>1. PICK new \in Placed(ticket, batch) :
          /\ rows' = [rows EXCEPT ![epoch] = @ \o new]
          /\ leaves' = leaves \o new
          /\ signed' = [signed EXCEPT ![epoch] = leaves \o new]
    BY DEF AppendSparks, Remember, SignHead
<1>2. Newcomers(new) /\ (new # <<>> => open)
    BY PlacedSparks
<1>3. CASE new = <<>>
    <2>1. SameLogs /\ leaves \o new = leaves
        BY <1>1, <1>3, NothingPlacedLogs, ConcatEmptySeq DEF MemoryTypes
    <2> QED BY <1>1, <2>1, SignLeavesHeads
<1>4. CASE new # <<>>
    <2>1. \A e \in Windows :
              EpochSparks(e)' = IF e = epoch THEN EpochSparks(e) \o new ELSE EpochSparks(e)
        BY <1>1, <1>2, <1>4, PlacedLogs
    <2>2. DOMAIN signed = Windows
        BY DEF LogTypes
    <2>3. ASSUME NEW e \in Windows
          PROVE  signed'[e] = signed[e] \/ signed'[e] = EpochSparks(e)'
        BY <1>1, <2>1, <2>2 DEF LeavesInv
    <2>4. ASSUME NEW e \in Windows, e = epoch'
          PROVE  leaves' = EpochSparks(e)'
        BY <1>1, <2>1, <2>4 DEF LeavesInv
    <2> QED BY <2>3, <2>4 DEF LeavesInv, SignsWholeLogs
<1> QED BY <1>3, <1>4

LEMMA LoopHeads ==
    ASSUME IInv, WindowInv, LeavesInv, Start \/ LoopStep
    PROVE  SignsWholeLogs /\ LeavesInv'
<1> USE DEF IInv, TypeOK
<1>1. CASE Rollback
    <2>1. SameLogs
        BY <1>1, LogsUntouched DEF Rollback
    <2>2. signed' = signed /\ UNCHANGED <<epoch, leaves>>
        BY <1>1 DEF Rollback, memory
    <2> QED BY <2>1, <2>2, HeadsUntouched
<1>2. ASSUME NEW failing, Resume(failing)
      PROVE  SignsWholeLogs /\ LeavesInv'
    <2>1. Len(run) + 1 \in Windows
        BY LenProperties, ConstantTypes DEF WorldTypes, LoopInStep, Windows
    <2> QED BY <1>2, <2>1, OpenWindowHeads DEF Resume
<1>3. CASE Close
    <2>1. epoch \in Windows
        BY <1>3, OpenWindowIsOne DEF Close, CloseWindow
    <2>2. SameLogs
        BY <1>3, <2>1, CloseWindowLogs DEF Close
    <2>3. signed' = [signed EXCEPT ![epoch] = leaves] /\ UNCHANGED <<epoch, leaves>>
        BY <1>3 DEF Close, CloseWindow
    <2> QED BY <2>2, <2>3, SignLeavesHeads
<1>4. CASE OpenNext
    <2>1. Len(run) + 1 \in Windows
        BY LenProperties, ConstantTypes DEF WorldTypes, LoopInStep, Windows
    <2> QED BY <1>4, <2>1, OpenWindowHeads DEF OpenNext
<1>5. CASE \/ Step \/ RecordMiracles \/ Publish \/ SealEpoch \/ Save
           \/ \E tie \in Ties, shareClosed \in ShareClosed : Select(tie, shareClosed)
           \/ \E failing \in Doomed : CheckWishes(failing)
    <2>1. UNCHANGED <<rows, logs, signed, memory>>
        BY <1>5 DEF Step, RecordMiracles, Publish, SealEpoch, Save, Select, CheckWishes, disk
    <2> QED BY <2>1, LogsUntouched, HeadsUntouched DEF memory
<1> QED BY <1>1, <1>2, <1>3, <1>4, <1>5 DEF Start, LoopStep

LEMMA RequestHeads ==
    ASSUME DiskFaults = FALSE, IInv, WindowInv, LeavesInv,
           NEW h \in Handlers, Request(h) \/ Respond(h) \/ Faults(h)
    PROVE  SignsWholeLogs /\ LeavesInv'
<1> USE DEF IInv, TypeOK
<1>1. req[h] \in Requests /\ req[h].batch \in Seq(Sparks)
    BY DEF RequestTypes, Requests
<1>2. CASE Request(h) \/ Dismiss(h)
    <2>1. UNCHANGED <<rows, logs, signed, memory>>
        BY <1>2 DEF Request, Dismiss, BeginPropose, BeginSparks, disk
    <2> QED BY <2>1, LogsUntouched, HeadsUntouched DEF memory
<1>3. CASE FinishPropose(h)
    <2>1. /\ req[h].kind = "propose" /\ Meets(req[h].batch[1], req[h].ticket) /\ Serving
          /\ AppendSparks(req[h].ticket, req[h].batch) /\ UNCHANGED <<logs, epoch, open>>
        BY <1>3 DEF FinishPropose
    <2>2. \A i \in DOMAIN req[h].batch : req[h].batch[i].mined = req[h].ticket
        <3>1. Len(req[h].batch) = 1
            BY <2>1 DEF RequestTypes
        <3>2. DOMAIN req[h].batch = {1}
            BY <1>1, <3>1, LenProperties
        <3> QED BY <2>1, <3>2 DEF Meets
    <2> QED BY <1>1, <2>1, <2>2, ServingWindow, AppendSparksHeads
<1>4. CASE FinishSparks(h)
    <2>1. PICK passed \in Passed(req[h]) :
              /\ Serving /\ AppendSparks(req[h].ticket, passed) /\ UNCHANGED <<logs, epoch, open>>
        BY <1>4 DEF FinishSparks
    <2>2. passed \in Seq(Sparks) /\ \A i \in DOMAIN passed : passed[i].mined = req[h].ticket
        BY <1>1, PassedType, PassedMeet
    <2> QED BY <2>1, <2>2, ServingWindow, AppendSparksHeads
<1>5. ~Faults(h)
    BY DEF Faults, AppendFails, ProposeFails
<1> QED BY <1>2, <1>3, <1>4, <1>5 DEF Respond

\* The memory is lost: what is left to see is the head that the end of the
\* process may still have signed.
LEMMA CrashHeads ==
    ASSUME IInv, WindowInv, LeavesInv, Crashes
    PROVE  SignsWholeLogs /\ LeavesInv'
<1> USE DEF IInv, TypeOK
<1>1. CASE CrashInRollback
    <2>1. UNCHANGED <<rows, logs>> /\ signed' = signed /\ UNCHANGED <<epoch, leaves>>
        BY <1>1 DEF CrashInRollback, memory
    <2> QED BY <2>1, LogsUntouched, HeadsUntouched
<1>2. ASSUME Die
      PROVE  epoch' = 0 /\ LeavesInv'
    BY <1>2, ConstantTypes DEF Die, MemoryLost, LeavesInv, Windows
<1>3. CASE CrashInClose
    <2>1. SameLogs
        BY <1>3, LogsUntouched DEF CrashInClose
    <2>2. signed' = [signed EXCEPT ![epoch] = leaves] /\ Die
        BY <1>3 DEF CrashInClose, SignHead
    <2> QED BY <1>2, <2>1, <2>2, SignLeavesHeads
<1>4. CASE \/ Crash
           \/ \E tie \in Ties, shareClosed \in ShareClosed : CrashInSelect(tie, shareClosed)
           \/ \E h \in Handlers : CrashInAppend(h) \/ CrashInPropose(h)
    <2>1. signed' = signed /\ Die
        BY <1>4 DEF Crash, CrashInSelect, CrashInAppend, CrashInPropose
    <2> QED BY <1>2, <2>1 DEF SignsWholeLogs
<1>5. CASE CrashInOpen
    <2>1. SameLogs /\ DOMAIN signed = Windows
        BY <1>5, HalfOpenLogs DEF LogTypes
    <2>2. PICK e \in Windows : signed' = signed \/ signed' = [signed EXCEPT ![e] = EpochSparks(e)]
        <3>1. Len(run) + 1 \in Windows
            BY LenProperties, ConstantTypes DEF WorldTypes, LoopInStep, Windows
        <3> QED BY <1>5, <3>1 DEF CrashInOpen, SignHead
    <2>3. SignsWholeLogs
        BY <2>1, <2>2 DEF SignsWholeLogs, SameLogs
    <2> QED BY <1>2, <1>5, <2>3 DEF CrashInOpen
<1> QED BY <1>1, <1>3, <1>4, <1>5 DEF Crashes

LEMMA HeadStep ==
    ASSUME DiskFaults = FALSE, IInv, WindowInv, LeavesInv, [Next]_vars
    PROVE  SignsWholeLogs /\ LeavesInv'
<1>1. CASE UNCHANGED vars
    BY <1>1, LogsUntouched, HeadsUntouched DEF vars, disk, memory
<1>2. CASE Next
    BY <1>2, LoopHeads, RequestHeads, CrashHeads DEF Next
<1> QED BY <1>1, <1>2

-----------------------------------------------------------------------------
(* The heads and the logs. *)

\* No step takes anything from a log.
LEMMA LogsGrow ==
    ASSUME IInv, WindowInv, [Next]_vars, NEW e \in Windows
    PROVE  /\ EpochSparks(e) \in Seq(Sparks) /\ EpochSparks(e)' \in Seq(Sparks)
           /\ IsPrefix(EpochSparks(e), EpochSparks(e)')
<1>1. EpochSparks(e) \in Seq(Sparks)
    BY EpochSparksType DEF IInv, TypeOK
<1>2. CASE EpochSparks(e)' = EpochSparks(e)
    BY <1>1, <1>2, PrefixMeans, LenProperties
<1>3. ASSUME NEW new \in Seq(Sparks), EpochSparks(e)' = EpochSparks(e) \o new
      PROVE  EpochSparks(e)' \in Seq(Sparks) /\ IsPrefix(EpochSparks(e), EpochSparks(e)')
    BY <1>1, <1>3, ConcatProperties, PrefixOfConcat
<1> QED BY <1>1, <1>2, <1>3, LogStep DEF SameLogs, Gains, Newcomers

\* One step keeps the heads inside the logs, and extends them.
LEMMA NextHeads ==
    ASSUME DiskFaults = FALSE, IInv, WindowInv, LeavesInv, SignedIsStored, [Next]_vars
    PROVE  SignedIsStored' /\ \A e \in Windows : IsPrefix(signed[e], signed'[e])
<1> SUFFICES ASSUME NEW e \in Windows
             PROVE  IsPrefix(signed'[e], EpochSparks(e)') /\ IsPrefix(signed[e], signed'[e])
    BY DEF SignedIsStored
<1>1. signed[e] \in Seq(Sparks)
    BY DEF IInv, TypeOK, LogTypes
<1>2. IsPrefix(signed[e], EpochSparks(e)')
    BY <1>1, LogsGrow, PrefixTransitive DEF SignedIsStored
<1>3. CASE signed'[e] = signed[e]
    BY <1>1, <1>2, <1>3, PrefixMeans, LenProperties
<1>4. CASE signed'[e] = EpochSparks(e)'
    BY <1>2, <1>4, LogsGrow, PrefixMeans, LenProperties
<1> QED BY <1>3, <1>4, HeadStep DEF SignsWholeLogs

LEMMA InitHeads == Init => LeavesInv /\ SignedIsStored
<1> SUFFICES ASSUME Init PROVE LeavesInv /\ SignedIsStored
    OBVIOUS
<1>1. epoch = 0 /\ \A e \in Windows : signed[e] = EpochSparks(e)
    BY DEF Init, IntakeInit, EpochSparks
<1>2. \A e \in Windows : signed[e] \in Seq(Sparks)
    BY InitIInv DEF IInv, TypeOK, LogTypes
<1>3. \A e \in Windows : IsPrefix(signed[e], EpochSparks(e))
    BY <1>1, <1>2, PrefixMeans, LenProperties
<1>4. 0 \notin Windows
    BY ConstantTypes DEF Windows
<1> QED BY <1>1, <1>3, <1>4 DEF LeavesInv, SignedIsStored

\* Whatever a signed head covers is in the database: its inclusion proofs can
\* be served after a crash at any point, unless a transaction of append fails.
THEOREM HeadsCoverStoredSparks ==
    ASSUME DiskFaults = FALSE
    PROVE  Safe => []SignedIsStored
<1>1. IInv /\ WindowInv /\ LeavesInv /\ SignedIsStored /\ [Next]_vars
          => IInv' /\ WindowInv' /\ LeavesInv' /\ SignedIsStored'
    BY NextIInv, NextWindowInv, HeadStep, NextHeads
<1>2. Init => IInv /\ WindowInv /\ LeavesInv /\ SignedIsStored
    BY InitIInv, InitLogs, InitHeads
<1> QED BY <1>1, <1>2, PTL DEF Safe

\* No signed head is ever contradicted: every later head of its epoch extends
\* it, through crashes and reopened windows, unless a transaction of append
\* fails.
THEOREM HeadsAreConsistent ==
    ASSUME DiskFaults = FALSE
    PROVE  Safe => HeadsExtend
<1>1. IInv /\ WindowInv /\ LeavesInv /\ SignedIsStored /\ [Next]_vars
          => /\ IInv' /\ WindowInv' /\ LeavesInv' /\ SignedIsStored'
             /\ [\A e \in Windows : IsPrefix(signed[e], signed'[e])]_vars
    BY NextIInv, NextWindowInv, HeadStep, NextHeads
<1>2. Init => IInv /\ WindowInv /\ LeavesInv /\ SignedIsStored
    BY InitIInv, InitLogs, InitHeads
<1> QED BY <1>1, <1>2, PTL DEF Safe, HeadsExtend

-----------------------------------------------------------------------------
(* The headers. *)

\* The two halves of ChainLinks.
Linked(e) ==
    IF e = FirstHeader THEN headers[e].prev = ZeroHash
    ELSE e - 1 \in DOMAIN headers /\ headers[e].prev = HeaderHash(headers[e - 1])
Committed(e) == e - 1 \in DOMAIN headers /\ windows[e].challenge = HeaderHash(headers[e - 1])

LEMMA ChainLinksParts ==
    /\ ChainLinks <=> /\ \A e \in DOMAIN headers : Linked(e)
                      /\ \A e \in DOMAIN windows \ {FirstWindow} : Committed(e)
    /\ ChainLinks' <=> /\ \A e \in DOMAIN headers' : Linked(e)'
                       /\ \A e \in DOMAIN windows' \ {FirstWindow} : Committed(e)'
BY DEF ChainLinks, Linked, Committed

LEMMA ChainStays ==
    ASSUME ChainLinks, UNCHANGED <<windows, headers>>
    PROVE  ChainLinks'
BY DEF ChainLinks, HeaderHash

\* Where the headers end at k, the last header before k + 1 is that of k.
LEMMA LastHeaderIs ==
    ASSUME NEW k \in Nat, FirstHeader <= k, HeadersTo(k)
    PROVE  LastHeaderHash(k + 1) = HeaderHash(headers[k])
<1> DEFINE below == {d \in DOMAIN headers : d < k + 1}
           last == CHOOSE d \in below : \A c \in below : c <= d
<1>1. FirstHeader \in Nat
    BY FirstHeaderType
<1>2. below = FirstHeader..k
    BY <1>1 DEF HeadersTo
<1>3. k \in below /\ \A c \in below : c <= k
    BY <1>1, <1>2
<1>4. last \in below /\ \A c \in below : c <= last
    BY <1>3
<1>5. last = k
    BY <1>1, <1>2, <1>3, <1>4
<1> QED BY <1>3, <1>5 DEF LastHeaderHash

\* The first header has none before it.
LEMMA NoHeaderBefore ==
    ASSUME NEW e \in Nat, \A d \in DOMAIN headers : ~(d < e)
    PROVE  LastHeaderHash(e) = ZeroHash
BY DEF LastHeaderHash

\* The header of an epoch is linked to the one before when it is sealed.
LEMMA SealedIsLinked ==
    ASSUME NEW k \in Nat, k >= OldEpochs, HeadersTo(k)
    PROVE  IF k + 1 = FirstHeader THEN LastHeaderHash(k + 1) = ZeroHash
           ELSE k \in DOMAIN headers /\ LastHeaderHash(k + 1) = HeaderHash(headers[k])
<1>1. /\ FirstHeader \in Nat /\ OldEpochs \in Nat /\ FirstWindow = OldEpochs + 1
      /\ OldEpochs = 0 => FirstHeader = 0
      /\ OldEpochs # 0 => FirstHeader = FirstWindow
    BY FirstHeaderType, ConstantTypes
<1>2. CASE k + 1 = FirstHeader
    <2>1. \A d \in DOMAIN headers : ~(d < k + 1)
        BY <1>1, <1>2 DEF HeadersTo
    <2> QED BY <1>2, <2>1, NoHeaderBefore
<1>3. CASE k + 1 # FirstHeader
    <2>1. FirstHeader <= k
        BY <1>1, <1>3
    <2>2. k \in DOMAIN headers
        BY <1>1, <2>1 DEF HeadersTo
    <2> QED BY <1>3, <2>1, <2>2, LastHeaderIs
<1> QED BY <1>2, <1>3

\* A restart drops the headers after the snapshot, or ends before it does.
LEMMA RollbackChain ==
    ASSUME IInv, ChainLinks, Rollback \/ CrashInRollback
    PROVE  ChainLinks'
<1>1. Len(snapshot) \in Nat /\ WindowsSaved /\ windows' = windows
    BY LenProperties DEF IInv, TypeOK, WorldTypes, LoopInStep, Rollback, CrashInRollback
<1>2. \/ headers' = headers
      \/ headers' = [d \in {c \in DOMAIN headers : c <= Len(snapshot)} |-> headers[d]]
    BY DEF Rollback, CrashInRollback, RollbackAfter, KeptHeaders
<1>3. CASE headers' = headers
    BY <1>1, <1>3, ChainStays
<1>4. CASE headers' = [d \in {c \in DOMAIN headers : c <= Len(snapshot)} |-> headers[d]]
    <2>1. DOMAIN headers \subseteq Int
        BY ConstantTypes DEF IInv, TypeOK, ChainTypes
    <2>2. ASSUME NEW e \in DOMAIN headers'
          PROVE  Linked(e)'
        <3>1. Linked(e) /\ e \in Int /\ e <= Len(snapshot)
            BY <1>4, <2>1, ChainLinksParts
        <3>2. headers'[e] = headers[e]
            BY <1>4
        <3>3. CASE e = FirstHeader
            BY <3>1, <3>2, <3>3 DEF Linked
        <3>4. CASE e # FirstHeader
            <4>1. e - 1 \in DOMAIN headers' /\ headers'[e - 1] = headers[e - 1]
                BY <1>1, <1>4, <3>1, <3>4 DEF Linked
            <4> QED BY <3>1, <3>2, <3>4, <4>1 DEF Linked, HeaderHash
        <3> QED BY <3>3, <3>4
    <2>3. ASSUME NEW e \in DOMAIN windows' \ {FirstWindow}
          PROVE  Committed(e)'
        <3>1. Committed(e) /\ e \in Int /\ e - 1 <= Len(snapshot)
            BY <1>1, ChainLinksParts, ConstantTypes DEF WindowsSaved, WindowsTo
        <3> QED BY <1>1, <1>4, <2>1, <3>1 DEF Committed, HeaderHash
    <2> QED BY <2>2, <2>3, ChainLinksParts
<1> QED BY <1>2, <1>3, <1>4

\* The row of the window after the last header, or of one that was open before.
LEMMA WindowRowChain ==
    ASSUME ChainLinks, NEW k \in Nat, k >= OldEpochs, HeadersTo(k), headers' = headers,
           NEW hash, k \in DOMAIN headers => hash = HeaderHash(headers[k]),
           WindowRow(k + 1, hash)
    PROVE  ChainLinks'
<1>1. ASSUME NEW e \in DOMAIN windows' \ {FirstWindow}
      PROVE  Committed(e)'
    <2>1. CASE e \in DOMAIN windows
        <3>1. Committed(e) /\ windows'[e] = windows[e]
            BY <1>1, <2>1, ChainLinksParts DEF WindowRow, Put
        <3> QED BY <3>1 DEF Committed, HeaderHash
    <2>2. CASE e \notin DOMAIN windows
        <3>1. e = k + 1 /\ windows'[e].challenge = hash
            BY <1>1, <2>2 DEF WindowRow, Put
        <3>2. k \in DOMAIN headers /\ e - 1 = k
            <4>1. k > OldEpochs
                BY <1>1, <3>1, ConstantTypes
            <4>2. FirstHeader \in Nat /\ FirstHeader <= k
                BY <4>1, FirstHeaderType, ConstantTypes
            <4> QED BY <3>1, <4>2 DEF HeadersTo
        <3> QED BY <3>1, <3>2 DEF Committed, HeaderHash
    <2> QED BY <2>1, <2>2
<1>2. ASSUME NEW e \in DOMAIN headers'
      PROVE  Linked(e)'
    <2>1. Linked(e)
        BY <1>2, ChainLinksParts
    <2> QED BY <2>1 DEF Linked, HeaderHash
<1> QED BY <1>1, <1>2, ChainLinksParts

\* The window of a restart: of the last header kept, or of genesis.
LEMMA ReopenChain ==
    ASSUME IInv, ChainLinks, pc \in {"starting", "open"},
           WindowRow(Len(run) + 1, HeaderHashOr(Len(run), GenesisRoot)),
           \/ headers' = headers
           \/ /\ Len(run) = 0 /\ 0 \notin DOMAIN headers
              /\ DOMAIN headers' = DOMAIN headers \cup {0} /\ headers'[0].prev = ZeroHash
    PROVE  ChainLinks'
<1>1. /\ Len(run) \in Nat /\ Len(run) >= OldEpochs /\ run = snapshot
      /\ HeadersTo(Len(run)) \/ (run = <<>> /\ HeadersTo(-1) /\ WindowsSaved)
    BY LenProperties, ConstantTypes DEF IInv, TypeOK, WorldTypes, LoopInStep, HeadersSaved
<1>2. CASE HeadersTo(Len(run))
    <2>1. headers' = headers
        <3>1. Len(run) = 0 => 0 \in DOMAIN headers
            BY <1>1, <1>2, FirstHeaderType, ConstantTypes DEF HeadersTo
        <3> QED BY <3>1
    <2>2. Len(run) \in DOMAIN headers
              => HeaderHashOr(Len(run), GenesisRoot) = HeaderHash(headers[Len(run)])
        BY DEF HeaderHashOr
    <2> QED BY <1>1, <1>2, <2>1, <2>2, WindowRowChain
<1>3. CASE run = <<>> /\ HeadersTo(-1) /\ WindowsSaved
    <2>1. Len(run) = 0 /\ OldEpochs = 0 /\ FirstWindow = 1 /\ FirstHeader = 0
        BY <1>1, <1>3, EmptySeq, FirstHeaderType, ConstantTypes
    <2>2. DOMAIN headers = {}
        BY <1>3, <2>1 DEF HeadersTo
    <2>3. \A e \in DOMAIN headers' : Linked(e)'
        BY <2>1, <2>2 DEF Linked
    <2>4. DOMAIN windows' = {1}
        <3>1. DOMAIN windows' = DOMAIN windows \cup {Len(run) + 1}
            BY WindowRowExtends
        <3>2. DOMAIN windows = 1..0 \/ DOMAIN windows = 1..1
            BY <1>1, <1>3, <2>1 DEF WindowsSaved, WindowsTo
        <3> QED BY <2>1, <3>1, <3>2
    <2> QED BY <2>1, <2>3, <2>4, ChainLinksParts
<1> QED BY <1>1, <1>2, <1>3

LEMMA SealEpochChain ==
    ASSUME IInv, ChainLinks, SealEpoch
    PROVE  ChainLinks'
<1> DEFINE e == Len(run)
           h == NewHeader(e, boots, seed.beacon)
<1>1. /\ e \in Nat \ {0} /\ e = Len(snapshot) + 1 /\ HeadersTo(e - 1) /\ WindowsTo(e)
      /\ OldEpochs \in Nat /\ e - 1 >= OldEpochs
    BY LenProperties, ConstantTypes DEF IInv, TypeOK, WorldTypes, LoopInStep, SealEpoch
<1>2. windows' = windows /\ headers' = Put(headers, e, h)
    BY DEF SealEpoch, Seal
<1>3. IF e = FirstHeader THEN h.prev = ZeroHash
      ELSE e - 1 \in DOMAIN headers /\ h.prev = HeaderHash(headers[e - 1])
    <2>1. h.prev = LastHeaderHash(e) /\ (e - 1) + 1 = e /\ e - 1 \in Nat
        BY <1>1 DEF NewHeader
    <2> HIDE DEF h, e
    <2> QED BY <1>1, <2>1, SealedIsLinked
<1> HIDE DEF h, e
<1>4. /\ FirstHeader \in Nat /\ e \notin DOMAIN headers
      /\ DOMAIN headers' = DOMAIN headers \cup {e} /\ headers'[e] = h
      /\ \A d \in DOMAIN headers : headers'[d] = headers[d]
    BY <1>1, <1>2, FirstHeaderType DEF Put, HeadersTo
<1>5. ASSUME NEW d \in DOMAIN headers'
      PROVE  Linked(d)'
    <2>1. CASE d = e
        BY <1>1, <1>3, <1>4, <2>1 DEF Linked, HeaderHash
    <2>2. CASE d # e
        <3>1. d \in DOMAIN headers /\ Linked(d)
            BY <1>4, <2>2, ChainLinksParts
        <3> QED BY <1>4, <3>1 DEF Linked, HeaderHash
    <2> QED BY <2>1, <2>2
<1>6. ASSUME NEW d \in DOMAIN windows' \ {FirstWindow}
      PROVE  Committed(d)'
    <2>1. Committed(d) /\ windows'[d] = windows[d]
        BY <1>2, ChainLinksParts
    <2> QED BY <1>4, <2>1 DEF Committed, HeaderHash
<1> QED BY <1>5, <1>6, ChainLinksParts

LEMMA CloseChain ==
    ASSUME IInv, ChainLinks, Close
    PROVE  ChainLinks'
<1>1. headers' = headers /\ DOMAIN windows' = DOMAIN windows
    BY DEF Close, CloseWindow
<1>2. \A e \in DOMAIN windows : windows'[e].challenge = windows[e].challenge
    <2>1. \A e \in DOMAIN windows : windows[e] \in WindowRecords
        BY DEF IInv, TypeOK, LogTypes
    <2>2. windows' = [windows EXCEPT ![epoch].accepted = Len(leaves)]
        BY DEF Close, CloseWindow
    <2> QED BY <2>1, <2>2 DEF WindowRecords
<1> QED BY <1>1, <1>2 DEF ChainLinks, HeaderHash

LEMMA NextChain ==
    ASSUME IInv, ChainLinks, [Next]_vars
    PROVE  ChainLinks'
<1>1. CASE Start
    <2>1. ASSUME NEW failing, Resume(failing)
          PROVE  ChainLinks'
        BY <2>1, ReopenChain DEF Resume, OpenWindow, Put, GenesisHeader
    <2> QED BY <1>1, <2>1, RollbackChain DEF Start
<1>2. CASE LoopStep
    <2>1. CASE OpenNext
        <3>1. Len(run) \in Nat /\ Len(run) >= OldEpochs /\ HeadersTo(Len(run))
            BY <2>1, LenProperties, ConstantTypes
                DEF IInv, TypeOK, WorldTypes, LoopInStep, OpenNext
        <3>2. WindowRow(Len(run) + 1, HeaderHash(headers[Len(run)])) /\ headers' = headers
            BY <2>1 DEF OpenNext, OpenWindow
        <3> QED BY <3>1, <3>2, WindowRowChain
    <2>2. CASE \/ Step \/ RecordMiracles \/ Publish \/ Save
               \/ \E tie \in Ties, shareClosed \in ShareClosed : Select(tie, shareClosed)
               \/ \E failing \in Doomed : CheckWishes(failing)
        <3>1. UNCHANGED <<windows, headers>>
            BY <2>2 DEF Step, RecordMiracles, Publish, Save, Select, CheckWishes, disk
        <3> QED BY <3>1, ChainStays
    <2> QED BY <1>2, <2>1, <2>2, CloseChain, SealEpochChain DEF LoopStep
<1>3. CASE \E h \in Handlers : Request(h) \/ Respond(h) \/ Faults(h)
    <2>1. UNCHANGED <<windows, headers>>
        BY <1>3 DEF Request, Respond, Faults, BeginPropose, BeginSparks, Dismiss, FinishPropose,
                    FinishSparks, AppendFails, ProposeFails, disk
    <2> QED BY <2>1, ChainStays
<1>4. CASE Crashes
    <2>1. CASE \/ Crash \/ CrashInClose
               \/ \E tie \in Ties, shareClosed \in ShareClosed : CrashInSelect(tie, shareClosed)
               \/ \E h \in Handlers : CrashInAppend(h) \/ CrashInPropose(h)
        <3>1. UNCHANGED <<windows, headers>>
            BY <2>1 DEF Crash, CrashInClose, CrashInSelect, CrashInAppend, CrashInPropose, disk
        <3> QED BY <3>1, ChainStays
    <2>2. CASE CrashInOpen
        BY <2>2, ReopenChain DEF CrashInOpen
    <2> QED BY <1>4, <2>1, <2>2, RollbackChain DEF Crashes
<1>5. CASE UNCHANGED vars
    BY <1>5, ChainStays DEF vars, disk
<1> QED BY <1>1, <1>2, <1>3, <1>4, <1>5 DEF Next

\* The headers are one chain from genesis, and every challenge commits to the
\* header before its window: in every world, after every crash and restart.
THEOREM HeadersAreChained == Safe => []ChainLinks
<1>1. Init => ChainLinks
    BY DEF Init, IntakeInit, ChainLinks
<1>2. IInv /\ ChainLinks /\ [Next]_vars => IInv' /\ ChainLinks'
    BY NextIInv, NextChain
<1> QED BY InitIInv, <1>1, <1>2, PTL DEF Safe

-----------------------------------------------------------------------------
(* The heads of an epoch, from its opening to its header. *)

Closed == pc \in {"beacon", "step", "record", "publish", "seal"}

\* Heads cover a part of the stored log, final ones all of it.
HeadsStored ==
    \A e \in Windows : \A h \in sths[e] :
        /\ IsPrefix(h.leaves, EpochSparks(e))
        /\ h.final => h.leaves = EpochSparks(e)

\* An open window has no final head, whatever the process that closed it
\* before had signed.
NoneFinal == open => \A h \in sths[epoch] : ~h.final

\* From its close to its header a window has a head over all of its log, and
\* its row counts it.
ClosedWhole ==
    Closed => /\ \E h \in sths[epoch] : h.leaves = EpochSparks(epoch)
              /\ windows[epoch].accepted = Len(EpochSparks(epoch))

-----------------------------------------------------------------------------
(* The heads that are kept. *)

\* What a step keeps of the heads, and adds: final ones only at a close.
HeadsKept ==
    \A e \in Windows : \A h \in sths'[e] :
        \/ h \in sths[e]
        \/ h.leaves = signed'[e] /\ (h.final => Close \/ CrashInClose)

LEMMA SignHeadKept ==
    ASSUME LogTypes, NEW e \in Windows, NEW ls, NEW final, SignHead(e, ls, final),
           final => CrashInClose
    PROVE  HeadsKept
BY DEF SignHead, HeadsKept, LogTypes

LEMMA HeadsKeptStep ==
    ASSUME IInv, [Next]_vars
    PROVE  HeadsKept
<1> USE DEF IInv, TypeOK
<1>1. ASSUME UNCHANGED sths
      PROVE  HeadsKept
    BY <1>1 DEF HeadsKept
<1>2. CASE Start
    <2>1. ASSUME NEW failing, Resume(failing)
          PROVE  HeadsKept
        <3>1. Len(run) + 1 \in Windows
            BY <2>1, LenProperties, ConstantTypes DEF WorldTypes, LoopInStep, Windows
        <3> QED BY <2>1, <3>1, SignHeadKept DEF Resume, OpenWindow
    <2> QED BY <1>1, <1>2, <2>1 DEF Start, Rollback
<1>3. CASE LoopStep
    <2>1. CASE Close
        <3>1. epoch \in Windows
            BY <2>1, OpenWindowIsOne DEF Close, CloseWindow
        <3> QED BY <2>1, <3>1 DEF Close, CloseWindow, HeadsKept, LogTypes
    <2>2. CASE OpenNext
        <3>1. Len(run) + 1 \in Windows
            BY <2>2, LenProperties, ConstantTypes DEF WorldTypes, LoopInStep, Windows
        <3> QED BY <2>2, <3>1, SignHeadKept DEF OpenNext, OpenWindow
    <2>3. CASE \/ Step \/ RecordMiracles \/ Publish \/ SealEpoch \/ Save
               \/ \E tie \in Ties, shareClosed \in ShareClosed : Select(tie, shareClosed)
               \/ \E failing \in Doomed : CheckWishes(failing)
        BY <1>1, <2>3
            DEF Step, RecordMiracles, Publish, SealEpoch, Save, Select, CheckWishes, disk
    <2> QED BY <1>3, <2>1, <2>2, <2>3 DEF LoopStep
<1>4. ASSUME NEW h \in Handlers, Request(h) \/ Respond(h) \/ Faults(h)
      PROVE  HeadsKept
    <2>1. CASE FinishPropose(h) \/ FinishSparks(h)
        <3>1. epoch \in Windows
            BY <2>1, ServingWindow DEF FinishPropose, FinishSparks
        <3>2. \E ls : SignHead(epoch, ls, FALSE)
            BY <2>1 DEF FinishPropose, FinishSparks, AppendSparks
        <3> QED BY <3>1, <3>2, SignHeadKept
    <2>2. CASE Request(h) \/ Dismiss(h) \/ Faults(h)
        BY <1>1, <2>2 DEF Request, BeginPropose, BeginSparks, Dismiss, Faults, AppendFails,
                          ProposeFails, disk
    <2> QED BY <1>4, <2>1, <2>2 DEF Respond
<1>5. CASE Crashes
    <2>1. CASE CrashInOpen
        <3>1. Len(run) + 1 \in Windows
            BY <2>1, LenProperties, ConstantTypes DEF WorldTypes, LoopInStep, Windows
        <3>2. sths' = sths \/ SignHead(Len(run) + 1, EpochSparks(Len(run) + 1), FALSE)
            BY <2>1 DEF CrashInOpen
        <3> QED BY <1>1, <3>1, <3>2, SignHeadKept
    <2>2. CASE CrashInClose
        <3>1. epoch \in Windows
            BY <2>2, OpenWindowIsOne DEF CrashInClose
        <3> QED BY <2>2, <3>1, SignHeadKept DEF CrashInClose
    <2>3. CASE \/ Crash \/ CrashInRollback
               \/ \E tie \in Ties, shareClosed \in ShareClosed : CrashInSelect(tie, shareClosed)
               \/ \E h \in Handlers : CrashInAppend(h) \/ CrashInPropose(h)
        BY <1>1, <2>3 DEF Crash, CrashInRollback, CrashInSelect, CrashInAppend, CrashInPropose, disk
    <2> QED BY <1>5, <2>1, <2>2, <2>3 DEF Crashes
<1>6. CASE UNCHANGED vars
    BY <1>1, <1>6 DEF vars, disk
<1> QED BY <1>2, <1>3, <1>4, <1>5, <1>6 DEF Next

LEMMA NextHeadsStored ==
    ASSUME DiskFaults = FALSE, IInv, WindowInv, LeavesInv, SignedIsStored, HeadsStored, NoneFinal,
           [Next]_vars
    PROVE  HeadsStored'
<1> SUFFICES ASSUME NEW e \in Windows, NEW h \in sths'[e]
             PROVE  /\ IsPrefix(h.leaves, EpochSparks(e)')
                    /\ h.final => h.leaves = EpochSparks(e)'
    BY DEF HeadsStored
<1>1. h \in sths[e] \/ (h.leaves = signed'[e] /\ (h.final => Close \/ CrashInClose))
    BY HeadsKeptStep DEF HeadsKept
<1>2. IsPrefix(h.leaves, EpochSparks(e)')
    <2>1. CASE h \in sths[e]
        <3>1. h.leaves \in Seq(Sparks)
            BY <2>1 DEF IInv, TypeOK, LogTypes, TreeHeads
        <3>2. IsPrefix(h.leaves, EpochSparks(e))
            BY <2>1 DEF HeadsStored
        <3> QED BY <3>1, <3>2, LogsGrow, PrefixTransitive
    <2>2. CASE h.leaves = signed'[e]
        BY <2>2, NextHeads DEF SignedIsStored
    <2> QED BY <1>1, <2>1, <2>2
<1>3. ASSUME h.final
      PROVE  h.leaves = EpochSparks(e)'
    <2>1. CASE h \in sths[e]
        <3>1. h.leaves = EpochSparks(e)
            BY <1>3, <2>1 DEF HeadsStored
        <3>2. ASSUME NEW new, Gains(new)
              PROVE  EpochSparks(e)' = EpochSparks(e)
            <4>1. e # epoch
                BY <1>3, <2>1, <3>2 DEF Gains, NoneFinal
            <4> QED BY <3>2, <4>1 DEF Gains
        <3> QED BY <3>1, <3>2, LogStep DEF SameLogs
    <2>2. CASE h \notin sths[e]
        <3>1. Close \/ CrashInClose
            BY <1>1, <1>3, <2>2
        <3>2. open /\ epoch \in Windows
            BY <3>1, OpenWindowIsOne DEF Close, CloseWindow, CrashInClose
        <3>3. e = epoch /\ h.leaves = leaves
            BY <2>2, <3>1, <3>2 DEF Close, CloseWindow, CrashInClose, SignHead, IInv, TypeOK, LogTypes
        <3>4. h.leaves = EpochSparks(e)
            BY <3>2, <3>3 DEF LeavesInv
        <3>5. SameLogs
            <4>1. CASE Close
                BY <3>2, <4>1, CloseWindowLogs DEF Close, IInv, TypeOK
            <4>2. CASE CrashInClose
                BY <4>2, LogsUntouched DEF CrashInClose
            <4> QED BY <3>1, <4>1, <4>2
        <3> QED BY <3>4, <3>5 DEF SameLogs
    <2> QED BY <2>1, <2>2
<1> QED BY <1>2, <1>3

\* The final head of an earlier close has the size of the log that is opened
\* again: the plain head takes its place (intake.rs sign_head).
LEMMA OpeningUnmarks ==
    ASSUME LogTypes, HeadsStored, NEW e \in Windows, NEW hash, OpenWindow(e, hash)
    PROVE  NoneFinal'
<1>1. /\ epoch' = e
      /\ sths' = [sths EXCEPT ![e] =
                    {h \in @ : Len(h.leaves) # Len(EpochSparks(e))}
                        \cup {[leaves |-> EpochSparks(e), final |-> FALSE]}]
    BY DEF OpenWindow, SignHead
<1>2. \A h \in sths[e] : h.final => Len(h.leaves) = Len(EpochSparks(e))
    BY DEF HeadsStored
<1>3. \A h \in sths'[e] : ~h.final
    BY <1>1, <1>2 DEF LogTypes
<1> QED BY <1>1, <1>3 DEF NoneFinal

LEMMA NextNoneFinal ==
    ASSUME IInv, WindowInv, HeadsStored, NoneFinal, [Next]_vars
    PROVE  NoneFinal'
<1> USE DEF IInv, TypeOK
<1>1. CASE (\E failing : Resume(failing)) \/ OpenNext
    <2>1. Len(run) + 1 \in Windows
        BY <1>1, LenProperties, ConstantTypes DEF WorldTypes, LoopInStep, Windows
    <2> QED BY <1>1, <2>1, OpeningUnmarks DEF Resume, OpenNext
<1>2. ASSUME ~((\E failing : Resume(failing)) \/ OpenNext), open'
      PROVE  open /\ epoch' = epoch /\ ~Close /\ ~CrashInClose
    <2>1. open /\ epoch' = epoch
        <3>1. CASE Start
            BY <1>2, <3>1 DEF Start, Rollback, memory
        <3>2. CASE LoopStep
            BY <1>2, <3>2 DEF LoopStep, Close, CloseWindow, Select, Step, RecordMiracles, Publish,
                              SealEpoch, Save, CheckWishes, memory
        <3>3. ASSUME NEW h \in Handlers, Request(h) \/ Respond(h) \/ Faults(h)
              PROVE  open /\ epoch' = epoch
            BY <1>2, <3>3 DEF Request, BeginPropose, BeginSparks, Respond, Dismiss, FinishPropose,
                              FinishSparks, Faults, AppendFails, ProposeFails, memory
        <3>4. CASE Crashes
            BY <1>2, <3>4 DEF Crashes, Crash, CrashInRollback, CrashInOpen, CrashInClose,
                              CrashInSelect, CrashInAppend, CrashInPropose, Die, MemoryLost, memory
        <3>5. CASE UNCHANGED vars
            BY <1>2, <3>5 DEF vars, memory
        <3> QED BY <3>1, <3>2, <3>3, <3>4, <3>5 DEF Next
    <2> QED BY <1>2, <2>1 DEF Close, CloseWindow, CrashInClose, Die, MemoryLost
<1>3. ASSUME ~((\E failing : Resume(failing)) \/ OpenNext), open', NEW h \in sths'[epoch'], h.final
      PROVE  FALSE
    <2>1. open /\ epoch' = epoch /\ ~Close /\ ~CrashInClose
        BY <1>2, <1>3
    <2>2. epoch \in Windows
        BY <2>1, OpenWindowIsOne
    <2>3. h \in sths[epoch]
        BY <1>3, <2>1, <2>2, HeadsKeptStep DEF HeadsKept
    <2> QED BY <1>3, <2>1, <2>3 DEF NoneFinal
<1> QED BY <1>1, <1>3 DEF NoneFinal

-----------------------------------------------------------------------------
(* From the close of a window to its header. *)

\* After its close only a late batch touches the heads of a window.
LEMMA ClosedStep ==
    ASSUME DiskFaults = FALSE, IInv, [Next]_vars, ~Close, Closed'
    PROVE  /\ Closed /\ ~open /\ epoch' = epoch /\ windows' = windows
           /\ sths' = sths \/ \E h \in Handlers : FinishSparks(h)
<1>1. CASE Start
    BY <1>1 DEF Start, Rollback, Resume, Closed
<1>2. CASE LoopStep
    <2>1. pc \in {"beacon", "step", "record", "publish"}
        BY <1>2 DEF LoopStep, Select, Step, RecordMiracles, Publish, SealEpoch, Save, OpenNext,
                    CheckWishes, Closed
    <2>2. UNCHANGED <<windows, sths, memory>>
        BY <1>2, <2>1 DEF LoopStep, Select, Step, RecordMiracles, Publish, SealEpoch, Save,
                          OpenNext, CheckWishes, disk
    <2> QED BY <2>1, <2>2 DEF IInv, LoopInStep, Closed, memory
<1>3. ASSUME NEW h \in Handlers, Request(h) \/ Respond(h) \/ Faults(h)
      PROVE  /\ Closed /\ ~open /\ epoch' = epoch /\ windows' = windows
             /\ sths' = sths \/ FinishSparks(h)
    <2>1. pc' = pc /\ Closed
        BY <1>3 DEF Request, Respond, Faults, BeginPropose, BeginSparks, Dismiss, FinishPropose,
                    FinishSparks, AppendFails, ProposeFails, Closed
    <2>2. ~open
        BY <2>1 DEF IInv, LoopInStep, Closed
    <2>3. ~FinishPropose(h) /\ ~Faults(h)
        BY <2>2 DEF FinishPropose, StillAdmitted, PrecheckWish, Faults, AppendFails, ProposeFails
    <2>4. epoch' = epoch /\ windows' = windows /\ (sths' = sths \/ FinishSparks(h))
        BY <1>3, <2>3 DEF Request, Respond, BeginPropose, BeginSparks, Dismiss, FinishSparks, disk,
                          memory
    <2> QED BY <2>1, <2>2, <2>4
<1>4. CASE Crashes
    <2>1. pc' = "down"
        BY <1>4 DEF Crashes, Crash, CrashInRollback, CrashInOpen, CrashInClose, CrashInSelect,
                    CrashInAppend, CrashInPropose, Die
    <2> QED BY <2>1 DEF Closed
<1>5. CASE UNCHANGED vars
    BY <1>5 DEF vars, disk, memory, Closed, IInv, LoopInStep
<1> QED BY <1>1, <1>2, <1>3, <1>4, <1>5 DEF Next

\* While no window is open the logs stay.
LEMMA ClosedLogsStay ==
    ASSUME IInv, WindowInv, [Next]_vars, ~open
    PROVE  SameLogs
BY LogStep DEF Gains

\* A late batch signs a plain head over the log as it is.
LEMMA LateBatch ==
    ASSUME IInv, LeavesInv, ~open, NEW h \in Handlers, FinishSparks(h)
    PROVE  \E g \in sths'[epoch] : g.leaves = EpochSparks(epoch)
<1> USE DEF IInv, TypeOK
<1>1. epoch \in Windows
    BY ServingWindow DEF FinishSparks
<1>2. req[h] \in Requests /\ req[h].batch \in Seq(Sparks)
    BY DEF RequestTypes, Requests
<1>3. PICK passed \in Passed(req[h]) : AppendSparks(req[h].ticket, passed)
    BY DEF FinishSparks
<1>4. passed \in Seq(Sparks) /\ \A i \in DOMAIN passed : passed[i].mined = req[h].ticket
    BY <1>2, PassedType, PassedMeet
<1>5. PICK new \in Placed(req[h].ticket, passed) : SignHead(epoch, leaves \o new, FALSE)
    BY <1>3 DEF AppendSparks
<1>6. new = <<>>
    BY <1>4, PlacedSparks
<1>7. leaves \o new = EpochSparks(epoch)
    BY <1>1, <1>6, ConcatEmptySeq DEF MemoryTypes, LeavesInv
<1>8. [leaves |-> EpochSparks(epoch), final |-> FALSE] \in sths'[epoch]
    BY <1>1, <1>5, <1>7 DEF SignHead, LogTypes
<1> QED BY <1>8

\* An open window has its row.
LEMMA OpenWindowHasRow ==
    ASSUME IInv, open
    PROVE  epoch \in DOMAIN windows
<1>1. /\ Len(run) \in Nat /\ epoch = Len(run) + 1 /\ WindowsTo(epoch)
      /\ run = snapshot /\ Len(snapshot) >= OldEpochs
    BY LenProperties, ConstantTypes DEF IInv, TypeOK, WorldTypes, LoopInStep
<1> QED BY <1>1, ConstantTypes DEF WindowsTo

LEMMA NextClosedWhole ==
    ASSUME DiskFaults = FALSE, IInv, WindowInv, LeavesInv, ClosedWhole, [Next]_vars
    PROVE  ClosedWhole'
<1> SUFFICES ASSUME Closed'
             PROVE  /\ \E h \in sths'[epoch'] : h.leaves = EpochSparks(epoch)'
                    /\ windows'[epoch'].accepted = Len(EpochSparks(epoch)')
    BY DEF ClosedWhole
<1> USE DEF IInv, TypeOK
<1>1. CASE Close
    <2>1. /\ open /\ epoch \in Windows /\ epoch \in DOMAIN windows /\ epoch' = epoch
          /\ leaves = EpochSparks(epoch)
        BY <1>1, OpenWindowIsOne, OpenWindowHasRow DEF Close, CloseWindow, LeavesInv
    <2>2. EpochSparks(epoch)' = EpochSparks(epoch)
        BY <1>1, <2>1, CloseWindowLogs DEF Close, SameLogs
    <2>3. [leaves |-> leaves, final |-> TRUE] \in sths'[epoch]
        BY <1>1, <2>1 DEF Close, CloseWindow, LogTypes
    <2>4. windows'[epoch].accepted = Len(leaves)
        BY <1>1, <2>1 DEF Close, CloseWindow, LogTypes, WindowRecords
    <2> QED BY <2>1, <2>2, <2>3, <2>4
<1>2. CASE ~Close
    <2>1. /\ Closed /\ ~open /\ epoch' = epoch /\ windows' = windows
          /\ sths' = sths \/ \E h \in Handlers : FinishSparks(h)
        BY <1>2, ClosedStep
    <2>2. epoch \in Windows
        BY <2>1, ServingWindow DEF Serving, Closed
    <2>3. EpochSparks(epoch)' = EpochSparks(epoch)
        BY <2>1, <2>2, ClosedLogsStay DEF SameLogs
    <2>4. \E h \in sths'[epoch] : h.leaves = EpochSparks(epoch)
        BY <2>1, LateBatch DEF ClosedWhole
    <2> QED BY <2>1, <2>3, <2>4 DEF ClosedWhole
<1> QED BY <1>1, <1>2

\* Where one head is over all of a log, it is the latest.
LEMMA WholeHeadIsLatest ==
    ASSUME IInv, HeadsStored, NEW e \in Windows, \E h \in sths[e] : h.leaves = EpochSparks(e)
    PROVE  sths[e] # {} /\ LatestHead(e).leaves = EpochSparks(e)
<1> DEFINE log == EpochSparks(e)
           finals == {h \in sths[e] : h.final}
           pool == IF finals # {} THEN finals ELSE sths[e]
           latest == CHOOSE h \in pool : \A g \in pool : Len(g.leaves) <= Len(h.leaves)
<1>1. log \in Seq(Sparks)
    BY EpochSparksType DEF IInv, TypeOK
<1>2. PICK whole \in sths[e] : whole.leaves = log
    OBVIOUS
<1>3. \A h \in sths[e] :
          /\ h.leaves \in Seq(Sparks) /\ Len(h.leaves) \in Nat /\ Len(log) \in Nat
          /\ Len(h.leaves) <= Len(log)
          /\ Len(h.leaves) = Len(log) => h.leaves = log
    <2> TAKE h \in sths[e]
    <2>1. h.leaves \in Seq(Sparks) /\ IsPrefix(h.leaves, log)
        BY <1>1 DEF HeadsStored, IInv, TypeOK, LogTypes, TreeHeads
    <2>2. /\ Len(h.leaves) \in Nat /\ Len(log) \in Nat
          /\ Len(h.leaves) <= Len(log) /\ \A i \in 1..Len(h.leaves) : h.leaves[i] = log[i]
        BY <1>1, <2>1, PrefixMeans, LenProperties
    <2>3. Len(h.leaves) = Len(log) => h.leaves = log
        BY <1>1, <2>1, <2>2, SeqEqual
    <2> QED BY <2>1, <2>2, <2>3
<1>4. \E h \in pool : h.leaves = log
    <2>1. \A h \in finals : h.leaves = log
        BY <1>1 DEF HeadsStored
    <2> QED BY <1>2, <2>1
<1>5. PICK h \in pool : h.leaves = log
    BY <1>4
<1>6. h \in pool /\ \A g \in pool : Len(g.leaves) <= Len(h.leaves)
    BY <1>3, <1>5
<1>7. latest \in pool /\ \A g \in pool : Len(g.leaves) <= Len(latest.leaves)
    BY <1>6
<1>8. latest \in sths[e] /\ Len(log) <= Len(latest.leaves)
    BY <1>5, <1>7
<1>9. latest.leaves = log
    BY <1>3, <1>8
<1> QED BY <1>2, <1>9 DEF LatestHead

\* So the head that a header takes its log from is the whole log.
LEMMA LatestHeadIsWhole ==
    ASSUME IInv, HeadsStored, ClosedWhole, Closed
    PROVE  /\ sths[epoch] # {}
           /\ LatestHead(epoch).leaves = EpochSparks(epoch)
<1>1. epoch \in Windows
    BY ServingWindow DEF Serving, Closed
<1> QED BY <1>1, WholeHeadIsLatest DEF ClosedWhole

-----------------------------------------------------------------------------
(* What the API serves. *)

\* The window in memory, open or closed, has a head over all of its log.
ServingWhole ==
    epoch \in Windows => \E h \in sths[epoch] : h.leaves = EpochSparks(epoch)

\* A head that is signed over the leaves in memory is one.
LEMMA SignedWhole ==
    ASSUME LogTypes, LeavesInv', NEW e \in Windows, epoch' = e, NEW final \in BOOLEAN,
           SignHead(e, leaves', final)
    PROVE  ServingWhole'
<1>1. [leaves |-> leaves', final |-> final] \in sths'[e]
    BY DEF SignHead, LogTypes
<1>2. leaves' = EpochSparks(e)'
    BY DEF LeavesInv
<1>3. EpochSparks(epoch)' = EpochSparks(e)'
    BY DEF EpochSparks
<1> QED BY <1>1, <1>2, <1>3 DEF ServingWhole

\* Where neither window, log nor heads change, the head stays.
LEMMA WholeStays ==
    ASSUME ServingWhole, SameLogs, UNCHANGED <<epoch, sths>>
    PROVE  ServingWhole'
BY DEF ServingWhole, SameLogs

\* Every step leaves such a head, or signs one over the leaves it leaves.
LEMMA NextServingWhole ==
    ASSUME DiskFaults = FALSE, IInv, WindowInv, LeavesInv, ServingWhole, [Next]_vars
    PROVE  ServingWhole'
<1> USE DEF IInv, TypeOK
<1>0. LeavesInv'
    BY HeadStep
<1>1. CASE (\E failing : Resume(failing)) \/ OpenNext
    <2>1. Len(run) + 1 \in Windows
        BY LenProperties, ConstantTypes DEF WorldTypes, LoopInStep, Windows
    <2>2. \E hash : OpenWindow(Len(run) + 1, hash)
        BY <1>1 DEF Resume, OpenNext
    <2>3. epoch' = Len(run) + 1 /\ SignHead(Len(run) + 1, leaves', FALSE)
        BY <2>2 DEF OpenWindow, LeavesOf
    <2> QED BY <1>0, <2>1, <2>3, SignedWhole
<1>2. CASE Close
    <2>1. open /\ epoch \in Windows /\ epoch' = epoch /\ leaves' = leaves
        BY <1>2, OpenWindowIsOne DEF Close, CloseWindow
    <2>2. [leaves |-> leaves, final |-> TRUE] \in sths'[epoch]
        BY <1>2, <2>1 DEF Close, CloseWindow, LogTypes
    <2>3. leaves = EpochSparks(epoch)'
        BY <1>0, <2>1 DEF LeavesInv, EpochSparks
    <2> QED BY <2>1, <2>2, <2>3 DEF ServingWhole
<1>3. CASE Rollback \/ (LoopStep /\ ~Close /\ ~OpenNext)
    <2>1. UNCHANGED <<rows, logs, sths, memory>>
        BY <1>3 DEF Rollback, LoopStep, Select, Step, RecordMiracles, Publish, SealEpoch, Save,
                    CheckWishes, disk
    <2> QED BY <2>1, LogsUntouched, WholeStays DEF memory
<1>4. ASSUME NEW h \in Handlers, Request(h) \/ Respond(h) \/ Faults(h)
      PROVE  ServingWhole'
    <2>1. CASE FinishPropose(h) \/ FinishSparks(h)
        <3>1. epoch \in Windows /\ epoch' = epoch
            BY <2>1, ServingWindow DEF FinishPropose, FinishSparks
        <3>2. \E ticket, batch : AppendSparks(ticket, batch)
            BY <2>1 DEF FinishPropose, FinishSparks
        <3>3. SignHead(epoch, leaves', FALSE)
            BY <3>2 DEF AppendSparks, Remember
        <3> QED BY <1>0, <3>1, <3>3, SignedWhole
    <2>2. CASE Request(h) \/ Dismiss(h)
        <3>1. UNCHANGED <<rows, logs, sths, memory>>
            BY <2>2 DEF Request, Dismiss, BeginPropose, BeginSparks, disk
        <3> QED BY <3>1, LogsUntouched, WholeStays DEF memory
    <2>3. ~Faults(h)
        BY DEF Faults, AppendFails, ProposeFails
    <2> QED BY <1>4, <2>1, <2>2, <2>3 DEF Respond
<1>5. CASE Crashes
    <2>1. CASE CrashInRollback
        <3>1. UNCHANGED <<rows, logs, sths, memory>>
            BY <2>1 DEF CrashInRollback
        <3> QED BY <3>1, LogsUntouched, WholeStays DEF memory
    <2>2. CASE ~CrashInRollback
        <3>1. epoch' = 0
            BY <1>5, <2>2 DEF Crashes, Crash, CrashInOpen, CrashInClose, CrashInSelect,
                              CrashInAppend, CrashInPropose, Die, MemoryLost
        <3> QED BY <3>1, ConstantTypes DEF ServingWhole, Windows
    <2> QED BY <2>1, <2>2
<1>6. CASE UNCHANGED vars
    <2>1. UNCHANGED <<rows, logs, sths, memory>>
        BY <1>6 DEF vars, disk
    <2> QED BY <2>1, LogsUntouched, WholeStays DEF memory
<1> QED BY <1>1, <1>2, <1>3, <1>4, <1>5, <1>6 DEF Next, Start

\* The head that the API shows of the window in memory is over all of its log.
LEMMA ServedHeadIsWhole ==
    ASSUME IInv, HeadsStored, ServingWhole, epoch \in Windows
    PROVE  LatestHead(epoch).leaves = EpochSparks(epoch)
BY WholeHeadIsLatest DEF ServingWhole

-----------------------------------------------------------------------------
(* What a step leaves alone. *)

\* A header stays until a restart drops those after the snapshot.
LEMMA HeadersStay ==
    ASSUME IInv, [Next]_vars
    PROVE  /\ \A d \in DOMAIN headers' :
                 \/ d \in DOMAIN headers /\ headers'[d] = headers[d]
                 \/ SealEpoch /\ d = Len(run)
                 \/ pc = "starting" /\ d = 0 /\ 0 \notin DOMAIN headers
           /\ \A d \in DOMAIN headers :
                 \/ d \in DOMAIN headers'
                 \/ (Rollback \/ CrashInRollback) /\ d > Len(snapshot)
<1>1. ASSUME headers' = headers
      PROVE  /\ \A d \in DOMAIN headers' : d \in DOMAIN headers /\ headers'[d] = headers[d]
             /\ \A d \in DOMAIN headers : d \in DOMAIN headers'
    BY <1>1
<1>2. CASE Rollback \/ CrashInRollback
    <2>1. headers' = headers \/ headers' = [d \in KeptHeaders(Len(snapshot)) |-> headers[d]]
        BY <1>2 DEF Rollback, CrashInRollback, RollbackAfter
    <2>2. \A d \in DOMAIN headers : d \in Int
        BY ConstantTypes DEF IInv, TypeOK, ChainTypes
    <2>3. Len(snapshot) \in Nat
        BY LenProperties DEF IInv, TypeOK, WorldTypes
    <2> QED BY <1>2, <2>1, <2>2, <2>3 DEF KeptHeaders
<1>3. ASSUME NEW failing, Resume(failing)
      PROVE  /\ \A d \in DOMAIN headers' :
                   \/ d \in DOMAIN headers /\ headers'[d] = headers[d]
                   \/ pc = "starting" /\ d = 0 /\ 0 \notin DOMAIN headers
             /\ \A d \in DOMAIN headers : d \in DOMAIN headers'
    BY <1>3 DEF Resume, Put
<1>4. CASE SealEpoch
    BY <1>4 DEF SealEpoch, Seal, Put
<1>5. CASE \/ Close \/ Step \/ RecordMiracles \/ Publish \/ Save \/ OpenNext
           \/ \E tie \in Ties, shareClosed \in ShareClosed : Select(tie, shareClosed)
           \/ \E failing \in Doomed : CheckWishes(failing)
    <2>1. headers' = headers
        BY <1>5 DEF Close, CloseWindow, Step, RecordMiracles, Publish, Save, OpenNext, Select,
                    CheckWishes, disk
    <2> QED BY <1>1, <2>1
<1>6. ASSUME NEW h \in Handlers, Request(h) \/ Respond(h) \/ Faults(h)
      PROVE  headers' = headers
    BY <1>6 DEF Request, Respond, Faults, BeginPropose, BeginSparks, Dismiss, FinishPropose,
                FinishSparks, AppendFails, ProposeFails, disk
<1>7. CASE Crashes /\ ~CrashInRollback
    <2>1. headers' = headers
        BY <1>7 DEF Crashes, Crash, CrashInOpen, CrashInClose, CrashInSelect, CrashInAppend,
                    CrashInPropose, disk
    <2> QED BY <1>1, <2>1
<1>8. CASE UNCHANGED vars
    BY <1>1, <1>8 DEF vars, disk
<1> QED BY <1>1, <1>2, <1>3, <1>4, <1>5, <1>6, <1>7, <1>8 DEF Next, Start, LoopStep, Crashes

\* Miracles are given to the last epoch of the world, and a restart forgets
\* those after the snapshot.
LEMMA MiraclesStay ==
    ASSUME IInv, [Next]_vars, NEW d \in 1..MaxEpoch
    PROVE  \/ miracles'[d] = miracles[d]
           \/ RecordMiracles /\ d = Len(run)
           \/ (Rollback \/ CrashInRollback) /\ d > Len(snapshot) /\ miracles'[d] = <<>>
<1>1. DOMAIN miracles = 1..MaxEpoch
    BY DEF IInv, TypeOK, ChainTypes
<1>2. CASE Rollback \/ CrashInRollback
    <2>1. miracles' = miracles \/ miracles' = KeptMiracles(Len(snapshot))
        BY <1>2 DEF Rollback, CrashInRollback, RollbackAfter
    <2> QED BY <1>1, <1>2, <2>1 DEF KeptMiracles
<1>3. ASSUME NEW failing, Resume(failing)
      PROVE  miracles' = miracles
    BY <1>3 DEF Resume
<1>4. CASE RecordMiracles
    <2>1. miracles'[d] = miracles[d] \/ d = Len(run)
        BY <1>1, <1>4 DEF RecordMiracles, Record
    <2> QED BY <1>4, <2>1
<1>5. CASE \/ Close \/ Step \/ Publish \/ SealEpoch \/ Save \/ OpenNext
           \/ \E tie \in Ties, shareClosed \in ShareClosed : Select(tie, shareClosed)
           \/ \E failing \in Doomed : CheckWishes(failing)
    BY <1>5 DEF Close, CloseWindow, Step, Publish, SealEpoch, Save, OpenNext, Select, CheckWishes,
                disk
<1>6. ASSUME NEW h \in Handlers, Request(h) \/ Respond(h) \/ Faults(h)
      PROVE  miracles' = miracles
    BY <1>6 DEF Request, Respond, Faults, BeginPropose, BeginSparks, Dismiss, FinishPropose,
                FinishSparks, AppendFails, ProposeFails, disk
<1>7. CASE Crashes /\ ~CrashInRollback
    BY <1>7 DEF Crashes, Crash, CrashInOpen, CrashInClose, CrashInSelect, CrashInAppend,
                CrashInPropose, disk
<1>8. CASE UNCHANGED vars
    BY <1>8 DEF vars, disk
<1> QED BY <1>2, <1>3, <1>4, <1>5, <1>6, <1>7, <1>8 DEF Next, Start, LoopStep, Crashes

\* The row of a window stays, but for its count at the close.
LEMMA WindowsStay ==
    ASSUME IInv, [Next]_vars, NEW d \in DOMAIN windows
    PROVE  /\ d \in DOMAIN windows'
           /\ windows'[d].accepted = windows[d].accepted \/ (Close /\ d = epoch)
<1>1. ASSUME NEW e, NEW hash, WindowRow(e, hash)
      PROVE  d \in DOMAIN windows' /\ windows'[d] = windows[d]
    BY <1>1 DEF WindowRow, Put
<1>2. CASE Close
    BY <1>2 DEF Close, CloseWindow
<1>3. ASSUME NEW failing, Resume(failing)
      PROVE  d \in DOMAIN windows' /\ windows'[d] = windows[d]
    BY <1>1, <1>3 DEF Resume, OpenWindow
<1>4. CASE OpenNext
    BY <1>1, <1>4 DEF OpenNext, OpenWindow
<1>5. CASE CrashInOpen
    BY <1>1, <1>5 DEF CrashInOpen
<1>6. CASE Rollback \/ (LoopStep /\ ~Close /\ ~OpenNext)
    BY <1>6 DEF Rollback, LoopStep, Step, RecordMiracles, Publish, SealEpoch, Save, Select,
                CheckWishes, disk
<1>7. ASSUME NEW h \in Handlers, Request(h) \/ Respond(h) \/ Faults(h)
      PROVE  windows' = windows
    BY <1>7 DEF Request, Respond, Faults, BeginPropose, BeginSparks, Dismiss, FinishPropose,
                FinishSparks, AppendFails, ProposeFails, disk
<1>8. CASE Crashes /\ ~CrashInOpen
    BY <1>8 DEF Crashes, Crash, CrashInRollback, CrashInClose, CrashInSelect, CrashInAppend,
                CrashInPropose, disk
<1>9. CASE UNCHANGED vars
    BY <1>9 DEF vars, disk
<1> QED BY <1>2, <1>3, <1>4, <1>5, <1>6, <1>7, <1>8, <1>9 DEF Next, Start, LoopStep, Crashes

\* A window keeps the challenge it was opened with.
LEMMA ChallengesStay ==
    ASSUME IInv, [Next]_vars, NEW d \in DOMAIN windows
    PROVE  d \in DOMAIN windows' /\ windows'[d].challenge = windows[d].challenge
<1>1. ASSUME NEW e, NEW hash, WindowRow(e, hash)
      PROVE  d \in DOMAIN windows' /\ windows'[d] = windows[d]
    BY <1>1 DEF WindowRow, Put
<1>2. CASE Close
    <2>1. windows[d] \in WindowRecords
        BY DEF IInv, TypeOK, LogTypes
    <2> QED BY <1>2, <2>1 DEF Close, CloseWindow, WindowRecords
<1>3. ASSUME NEW failing, Resume(failing)
      PROVE  d \in DOMAIN windows' /\ windows'[d] = windows[d]
    BY <1>1, <1>3 DEF Resume, OpenWindow
<1>4. CASE OpenNext
    BY <1>1, <1>4 DEF OpenNext, OpenWindow
<1>5. CASE CrashInOpen
    BY <1>1, <1>5 DEF CrashInOpen
<1>6. CASE Rollback \/ (LoopStep /\ ~Close /\ ~OpenNext)
    BY <1>6 DEF Rollback, LoopStep, Step, RecordMiracles, Publish, SealEpoch, Save, Select,
                CheckWishes, disk
<1>7. ASSUME NEW h \in Handlers, Request(h) \/ Respond(h) \/ Faults(h)
      PROVE  windows' = windows
    BY <1>7 DEF Request, Respond, Faults, BeginPropose, BeginSparks, Dismiss, FinishPropose,
                FinishSparks, AppendFails, ProposeFails, disk
<1>8. CASE Crashes /\ ~CrashInOpen
    BY <1>8 DEF Crashes, Crash, CrashInRollback, CrashInClose, CrashInSelect, CrashInAppend,
                CrashInPropose, disk
<1>9. CASE UNCHANGED vars
    BY <1>9 DEF vars, disk
<1> QED BY <1>2, <1>3, <1>4, <1>5, <1>6, <1>7, <1>8, <1>9 DEF Next, Start, LoopStep, Crashes

-----------------------------------------------------------------------------
(* The epoch in hand, and those of the snapshot. *)

\* Headers commit to the whole log, its count and the miracles.  After the end
\* of the process the one of an epoch that was not saved may have lost its
\* miracles already.
HeadersCommit ==
    \A e \in DOMAIN headers \ {0} : pc # "down" \/ e <= Len(snapshot) =>
        /\ headers[e].log = EpochSparks(e)
        /\ windows[e].accepted = Len(headers[e].log)
        /\ headers[e].miracles = miracles[e]

\* Nothing is written under an epoch before its record, so that what is
\* recorded is all there is.
NothingAhead ==
    pc # "down" =>
        \A d \in 1..MaxEpoch :
            d > Len(run) \/ (pc = "record" /\ d = Len(run)) => miracles[d] = <<>>

\* The epoch in hand keeps its seed and its miracles from stage to stage.
EpochInHand ==
    /\ pc = "step" => seed.prev = HeaderHashOr(Len(run), ZeroHash)
    /\ pc \in {"record", "publish", "seal", "save"} =>
          /\ run[Len(run)] = [seed |-> seed, given |-> given]
          /\ seed.prev = HeaderHashOr(Len(run) - 1, ZeroHash)
    /\ pc \in {"publish", "seal", "save"} => miracles[Len(run)] = given
    /\ pc = "save" => /\ headers[Len(run)].beacon = seed.beacon
                      /\ headers[Len(run)].prev = seed.prev

\* What is published of a saved epoch is what seeded it.
Replays(e) ==
    IF e <= OldEpochs THEN snapshot[e].seed = NoSeed /\ snapshot[e].given = <<>>
    ELSE /\ e \in DOMAIN headers
         /\ snapshot[e].given = miracles[e]
         /\ snapshot[e].seed = [beacon |-> headers[e].beacon, prev |-> headers[e].prev]
SnapshotReplays == \A e \in DOMAIN snapshot : Replays(e)

\* How the process starts, and where the world and its snapshot change.
LEMMA WorldStep ==
    ASSUME [Next]_vars
    PROVE  /\ pc' # "down" => pc # "down" \/ Rollback
           /\ pc' # "down" => \/ Rollback \/ Step
                              \/ run' = run /\ (pc' = "record" => pc = "record")
           /\ snapshot' = snapshot \/ Save
<1>1. CASE Start
    BY <1>1 DEF Start, Rollback, Resume, world
<1>2. CASE LoopStep
    BY <1>2 DEF LoopStep, Close, Select, Step, RecordMiracles, Publish, SealEpoch, Save, OpenNext,
                CheckWishes, world
<1>3. ASSUME NEW h \in Handlers, Request(h) \/ Respond(h) \/ Faults(h)
      PROVE  UNCHANGED <<pc, world>>
    BY <1>3 DEF Request, Respond, Faults, BeginPropose, BeginSparks, Dismiss, FinishPropose,
                FinishSparks, AppendFails, ProposeFails, world
<1>4. CASE Crashes
    BY <1>4 DEF Crashes, Crash, CrashInRollback, CrashInOpen, CrashInClose, CrashInSelect,
                CrashInAppend, CrashInPropose, Die, world
<1>5. CASE UNCHANGED vars
    BY <1>5 DEF vars, world
<1> QED BY <1>1, <1>2, <1>3, <1>4, <1>5 DEF Next, world

\* An epoch with a header had a window.
LEMMA HeaderHasRow ==
    ASSUME IInv, NEW e \in DOMAIN headers, e \in 1..MaxEpoch
    PROVE  e \in DOMAIN windows
<1>1. /\ FirstHeader \in Nat /\ OldEpochs \in Nat /\ FirstWindow = OldEpochs + 1
      /\ e >= FirstHeader => e >= FirstWindow
    BY FirstHeaderType, ConstantTypes
<1>2. Len(snapshot) \in Nat /\ Len(run) \in Nat
    BY LenProperties DEF IInv, TypeOK, WorldTypes
<1>3. \E k, m \in Int : k <= m /\ HeadersTo(k) /\ WindowsTo(m)
    <2>1. CASE pc \in {"down", "starting"}
        <3>1. \/ HeadersTo(Len(snapshot)) /\ WindowsSaved
              \/ HeadersTo(-1) /\ WindowsSaved
              \/ HeadersTo(Len(snapshot) + 1) /\ WindowsTo(Len(snapshot) + 1)
            BY <2>1 DEF IInv, LoopInStep, HeadersSaved
        <3> QED BY <1>2, <3>1 DEF WindowsSaved
    <2>2. CASE pc \notin {"down", "starting"}
        <3>1. \/ HeadersTo(Len(run)) /\ epoch \in {Len(run), Len(run) + 1}
              \/ HeadersTo(Len(snapshot)) /\ epoch = Len(run) /\ Len(run) = Len(snapshot) + 1
            BY <2>2 DEF IInv, TypeOK, WorldTypes, Stages, LoopInStep
        <3>2. WindowsTo(epoch)
            BY <2>2 DEF IInv, TypeOK, WorldTypes, Stages, LoopInStep
        <3> QED BY <1>2, <3>1, <3>2
    <2> QED BY <2>1, <2>2
<1>4. e \in Int /\ e >= FirstWindow
    BY <1>1, <1>3 DEF HeadersTo
<1> QED BY <1>1, <1>3, <1>4 DEF HeadersTo, WindowsTo

LEMMA NextHeadersCommit ==
    ASSUME IInv, WindowInv, HeadsStored, ClosedWhole, HeadersCommit, [Next]_vars
    PROVE  HeadersCommit'
<1> SUFFICES ASSUME NEW e \in DOMAIN headers' \ {0}, pc' # "down" \/ e <= Len(snapshot')
             PROVE  /\ headers'[e].log = EpochSparks(e)'
                    /\ windows'[e].accepted = Len(headers'[e].log)
                    /\ headers'[e].miracles = miracles'[e]
    BY DEF HeadersCommit
<1> USE DEF IInv, TypeOK
<1>1. CASE SealEpoch /\ e = Len(run)
    <2>1. /\ Closed /\ ~open /\ e = epoch /\ windows' = windows /\ miracles' = miracles
          /\ headers'[e] = NewHeader(e, boots, seed.beacon)
        BY <1>1 DEF SealEpoch, Seal, Put, LoopInStep, Closed
    <2>2. e \in Windows
        BY <2>1, ServingWindow DEF Serving, Closed
    <2>3. sths[e] # {} /\ LatestHead(e).leaves = EpochSparks(e)
        BY <2>1, LatestHeadIsWhole
    <2>4. headers'[e].log = EpochSparks(e) /\ headers'[e].miracles = miracles[e]
        BY <2>1, <2>3 DEF NewHeader
    <2>5. EpochSparks(e)' = EpochSparks(e)
        BY <2>1, <2>2, ClosedLogsStay DEF SameLogs
    <2> QED BY <2>1, <2>4, <2>5 DEF ClosedWhole
<1>2. CASE ~(SealEpoch /\ e = Len(run))
    <2>1. e \in DOMAIN headers /\ headers'[e] = headers[e]
        BY <1>2, HeadersStay
    <2>2. e \in 1..MaxEpoch /\ e \in Windows
        BY <2>1, ConstantTypes DEF ChainTypes
    <2>3. pc # "down" \/ e <= Len(snapshot)
        <3>1. CASE Rollback
            <4>1. e \in KeptHeaders(Len(snapshot))
                BY <3>1 DEF Rollback, RollbackAfter
            <4> QED BY <4>1 DEF KeptHeaders
        <3>2. CASE Save
            BY <3>2 DEF Save
        <3> QED BY <3>1, <3>2, WorldStep
    <2>4. /\ headers[e].log = EpochSparks(e)
          /\ windows[e].accepted = Len(headers[e].log)
          /\ headers[e].miracles = miracles[e]
        BY <2>1, <2>3 DEF HeadersCommit
    <2>5. Len(snapshot) \in Nat /\ Len(run) \in Nat
        BY LenProperties DEF WorldTypes
    <2>6. open => epoch # e
        <3>1. open => HeadersTo(Len(run)) /\ epoch = Len(run) + 1
            BY DEF LoopInStep
        <3> QED BY <2>1, <2>2, <2>5, <3>1, FirstHeaderType DEF HeadersTo
    <2>7. EpochSparks(e)' = EpochSparks(e)
        BY <2>2, <2>6, LogStep DEF SameLogs, Gains
    <2>8. e \in DOMAIN windows
        BY <2>1, <2>2, HeaderHasRow
    <2>9. windows'[e].accepted = windows[e].accepted
        BY <2>6, <2>8, WindowsStay DEF Close, CloseWindow
    <2>10. miracles'[e] = miracles[e]
        <3>1. ~(RecordMiracles /\ e = Len(run))
            <4>1. RecordMiracles => HeadersTo(Len(snapshot)) /\ Len(run) = Len(snapshot) + 1
                BY DEF RecordMiracles, LoopInStep
            <4> QED BY <2>1, <2>2, <2>5, <4>1, FirstHeaderType DEF HeadersTo
        <3>2. Rollback \/ CrashInRollback => e <= Len(snapshot)
            BY <2>3 DEF Rollback, CrashInRollback
        <3> QED BY <2>2, <2>5, <3>1, <3>2, MiraclesStay
    <2> QED BY <2>1, <2>4, <2>7, <2>9, <2>10
<1> QED BY <1>1, <1>2

LEMMA NextNothingAhead ==
    ASSUME IInv, NothingAhead, [Next]_vars
    PROVE  NothingAhead'
<1> SUFFICES ASSUME pc' # "down", NEW d \in 1..MaxEpoch,
                    d > Len(run') \/ (pc' = "record" /\ d = Len(run'))
             PROVE  miracles'[d] = <<>>
    BY DEF NothingAhead
<1> USE DEF IInv, TypeOK
<1>1. Len(run) \in Nat /\ Len(snapshot) \in Nat
    BY LenProperties DEF WorldTypes
<1>2. CASE Rollback
    <2>1. run' = snapshot /\ pc' = "starting" /\ miracles' = KeptMiracles(Len(snapshot))
        BY <1>2 DEF Rollback, RollbackAfter
    <2> QED BY <1>1, <2>1 DEF KeptMiracles, ChainTypes
<1>3. CASE ~Rollback
    <2>1. pc # "down" /\ (Step \/ (run' = run /\ (pc' = "record" => pc = "record")))
        BY <1>3, WorldStep
    <2>2. d > Len(run) \/ (pc = "record" /\ d = Len(run))
        <3>1. CASE Step
            <4>1. Len(run') = Len(run) + 1
                BY <3>1, AppendProperties DEF Step, WorldTypes
            <4> QED BY <1>1, <4>1
        <3> QED BY <2>1, <3>1
    <2>3. miracles[d] = <<>>
        BY <2>1, <2>2 DEF NothingAhead
    <2>4. ~(RecordMiracles /\ d = Len(run))
        BY <1>1, <2>1 DEF RecordMiracles, world, Step
    <2>5. ~CrashInRollback
        BY <2>1 DEF CrashInRollback
    <2> QED BY <1>3, <2>3, <2>4, <2>5, MiraclesStay
<1> QED BY <1>2, <1>3

\* The first entries recorded of an epoch are all of them.
LEMMA RecordsWhole ==
    ASSUME NEW g \in Seq(Miracle)
    PROVE  Overwrite(<<>>, g) = g
<1>1. Len(g) \in Nat /\ Len(<<>>) = 0
    BY LenProperties, EmptySeq
<1>2. SubSeq(<<>>, Len(g) + 1, 0) = <<>>
    BY <1>1
<1> QED BY <1>1, <1>2, ConcatEmptySeq DEF Overwrite

LEMMA NextEpochInHand ==
    ASSUME IInv, NothingAhead, EpochInHand, [Next]_vars
    PROVE  EpochInHand'
<1> USE DEF IInv, TypeOK
<1> DEFINE k == Len(run)
<1>1. k \in Nat /\ Len(snapshot) \in Nat
    BY LenProperties DEF WorldTypes
<1>2. ASSUME UNCHANGED <<pc, run, loop, headers, miracles>>
      PROVE  EpochInHand'
    BY <1>2 DEF EpochInHand, HeaderHashOr, HeaderHash, loop
<1>3. ASSUME pc' \notin {"step", "record", "publish", "seal", "save"}
      PROVE  EpochInHand'
    BY <1>3 DEF EpochInHand
<1>4. ASSUME NEW tie \in Ties, NEW shareClosed \in ShareClosed, Select(tie, shareClosed)
      PROVE  EpochInHand'
    <2>1. /\ pc' = "step" /\ run' = run /\ headers' = headers
          /\ seed' = [beacon |-> tie, prev |-> HeaderHashOr(k, ZeroHash)]
        BY <1>4 DEF Select, world
    <2> QED BY <2>1 DEF EpochInHand, HeaderHashOr, HeaderHash
<1>5. CASE Step
    <2>1. PICK g : /\ given' = g
                   /\ run' = Append(run, [seed |-> seed, given |-> g])
                   /\ pc' = "record" /\ seed' = seed /\ headers' = headers
        BY <1>5 DEF Step, disk
    <2>2. Len(run') = k + 1 /\ run'[k + 1] = [seed |-> seed, given |-> g]
        BY <2>1, AppendProperties DEF WorldTypes
    <2>3. seed.prev = HeaderHashOr(k, ZeroHash)
        BY <1>5 DEF Step, EpochInHand
    <2>4. Len(run') - 1 = k
        BY <1>1, <2>2
    <2> QED BY <2>1, <2>2, <2>3, <2>4 DEF EpochInHand, HeaderHashOr, HeaderHash
<1>6. CASE RecordMiracles
    <2>1. /\ pc = "record" /\ pc' = "publish" /\ UNCHANGED <<run, seed, given, headers>>
          /\ miracles' = [miracles EXCEPT ![k] = Overwrite(@, given)]
        BY <1>6 DEF RecordMiracles, Record, world, loop
    <2>2. k \in 1..MaxEpoch
        BY <1>1, <2>1 DEF LoopInStep
    <2>3. miracles[k] = <<>>
        BY <2>1, <2>2 DEF NothingAhead
    <2>4. miracles'[k] = given
        BY <2>1, <2>2, <2>3, RecordsWhole DEF ChainTypes, WorldTypes
    <2> QED BY <2>1, <2>4 DEF EpochInHand, HeaderHashOr, HeaderHash
<1>7. CASE Publish
    <2>1. /\ pc = "publish" /\ pc' = "seal" /\ UNCHANGED <<run, seed, given, headers, miracles>>
        BY <1>7 DEF Publish, world, loop, disk
    <2> QED BY <2>1 DEF EpochInHand, HeaderHashOr, HeaderHash
<1>8. CASE SealEpoch
    <2>1. /\ pc = "seal" /\ pc' = "save" /\ UNCHANGED <<run, seed, given, miracles>>
          /\ headers' = Put(headers, k, NewHeader(k, boots, seed.beacon))
        BY <1>8 DEF SealEpoch, Seal, world, loop
    <2>2. /\ k - 1 \in Nat /\ k - 1 >= OldEpochs /\ HeadersTo(k - 1) /\ (k - 1) + 1 = k
          /\ seed.prev = HeaderHashOr(k - 1, ZeroHash)
        BY <1>1, <2>1, ConstantTypes DEF LoopInStep, EpochInHand
    <2>3. LastHeaderHash(k) = seed.prev
        <3>1. k = FirstHeader => k - 1 \notin DOMAIN headers
            BY <2>2, FirstHeaderType DEF HeadersTo
        <3>2. IF k = FirstHeader THEN LastHeaderHash(k) = ZeroHash
              ELSE k - 1 \in DOMAIN headers /\ LastHeaderHash(k) = HeaderHash(headers[k - 1])
            <4> HIDE DEF k
            <4> QED BY <2>2, SealedIsLinked
        <3> QED BY <2>2, <3>1, <3>2 DEF HeaderHashOr
    <2>4. headers'[k].beacon = seed.beacon /\ headers'[k].prev = seed.prev
        BY <2>1, <2>3 DEF Put, NewHeader
    <2>5. HeaderHashOr(k - 1, ZeroHash)' = HeaderHashOr(k - 1, ZeroHash)
        BY <1>1, <2>1 DEF HeaderHashOr, HeaderHash, Put
    <2>6. /\ run'[Len(run')] = [seed |-> seed', given |-> given']
          /\ seed'.prev = HeaderHashOr(Len(run) - 1, ZeroHash)'
          /\ miracles'[Len(run')] = given'
        BY <2>1, <2>2, <2>5 DEF EpochInHand
    <2> QED BY <2>1, <2>4, <2>6 DEF EpochInHand
<1>9. CASE Start \/ Close \/ Save \/ OpenNext \/ Crashes \/ \E failing \in Doomed : CheckWishes(failing)
    <2>1. pc' \in {"starting", "wait", "beacon", "open", "soft", "down"}
        BY <1>9 DEF Start, Rollback, Resume, Close, Save, OpenNext, CheckWishes, Crashes, Crash,
                    CrashInRollback, CrashInOpen, CrashInClose, CrashInSelect, CrashInAppend,
                    CrashInPropose, Die
    <2> QED BY <1>3, <2>1
<1>10. ASSUME NEW h \in Handlers, Request(h) \/ Respond(h) \/ Faults(h)
       PROVE  UNCHANGED <<pc, run, loop, headers, miracles>>
    BY <1>10 DEF Request, Respond, Faults, BeginPropose, BeginSparks, Dismiss, FinishPropose,
                 FinishSparks, AppendFails, ProposeFails, disk, world
<1>11. CASE UNCHANGED vars
    BY <1>2, <1>11 DEF vars, disk, world
<1> QED BY <1>2, <1>4, <1>5, <1>6, <1>7, <1>8, <1>9, <1>10, <1>11 DEF Next, LoopStep

LEMMA NextSnapshotReplays ==
    ASSUME IInv, EpochInHand, SnapshotReplays, [Next]_vars
    PROVE  SnapshotReplays'
<1> USE DEF IInv, TypeOK
<1> SUFFICES ASSUME NEW e \in DOMAIN snapshot'
             PROVE  Replays(e)'
    BY DEF SnapshotReplays
<1>1. /\ Len(run) \in Nat /\ Len(snapshot) \in Nat
      /\ DOMAIN run = 1..Len(run) /\ DOMAIN snapshot = 1..Len(snapshot)
    BY LenProperties DEF WorldTypes
<1>2. CASE Save
    <2>1. /\ pc = "save" /\ snapshot' = run /\ UNCHANGED <<headers, miracles>>
        BY <1>2 DEF Save, disk
    <2>2. /\ store = run /\ IsPrefix(snapshot, run) /\ Len(run) = Len(snapshot) + 1
          /\ HeadersTo(Len(run)) /\ Len(snapshot) >= OldEpochs
        BY <2>1, ConstantTypes DEF LoopInStep
    <2>3. e \in 1..Len(run)
        BY <1>1, <2>1
    <2>4. CASE e = Len(run)
        <3>1. /\ run[e] = [seed |-> seed, given |-> given] /\ miracles[e] = given
              /\ headers[e].prev = seed.prev /\ headers[e].beacon = seed.beacon
            BY <2>1, <2>4 DEF EpochInHand
        <3>2. seed = [beacon |-> seed.beacon, prev |-> seed.prev]
            BY DEF WorldTypes
        <3>3. e \in DOMAIN headers /\ ~(e <= OldEpochs)
            BY <1>1, <2>2, <2>4, FirstHeaderType, ConstantTypes DEF HeadersTo
        <3>4. snapshot'[e] = run[e] /\ headers'[e] = headers[e] /\ miracles' = miracles
              /\ DOMAIN headers' = DOMAIN headers
            BY <2>1
        <3> QED BY <3>1, <3>2, <3>3, <3>4 DEF Replays
    <2>5. CASE e # Len(run)
        <3>1. e \in DOMAIN snapshot
            BY <1>1, <2>2, <2>3, <2>5
        <3>2. run[e] = snapshot[e]
            BY <1>1, <2>2, <3>1, PrefixMeans DEF WorldTypes
        <3>3. Replays(e)
            BY <3>1 DEF SnapshotReplays
        <3> QED BY <2>1, <3>2, <3>3 DEF Replays
    <2> QED BY <2>4, <2>5
<1>3. CASE ~Save
    <2>1. snapshot' = snapshot /\ e \in 1..Len(snapshot)
        BY <1>1, <1>3, WorldStep
    <2>2. Replays(e)
        BY <1>1, <2>1 DEF SnapshotReplays
    <2>3. ASSUME ~(e <= OldEpochs)
          PROVE  e \in DOMAIN headers' /\ headers'[e] = headers[e]
        <3>1. e \in DOMAIN headers /\ e <= Len(snapshot) /\ e \in Nat /\ e # 0
            BY <1>1, <2>1, <2>2, <2>3 DEF Replays
        <3>2. SealEpoch => Len(run) = Len(snapshot) + 1
            BY DEF SealEpoch, LoopInStep
        <3>3. e # Len(snapshot) + 1 /\ ~(e > Len(snapshot))
            BY <1>1, <3>1
        <3>4. e \in DOMAIN headers'
            BY <3>1, <3>3, HeadersStay
        <3> QED BY <3>1, <3>2, <3>3, <3>4, HeadersStay
    <2>4. e \in 1..MaxEpoch /\ e # Len(snapshot) + 1 /\ ~(e > Len(snapshot))
        <3>1. Len(snapshot) <= MaxEpoch /\ MaxEpoch \in Nat
            BY ConstantTypes DEF LoopInStep
        <3> QED BY <1>1, <2>1, <3>1
    <2>5. RecordMiracles => Len(run) = Len(snapshot) + 1
        BY DEF RecordMiracles, LoopInStep
    <2>6. miracles'[e] = miracles[e]
        BY <1>1, <2>1, <2>4, <2>5, MiraclesStay
    <2> QED BY <2>1, <2>2, <2>3, <2>6 DEF Replays
<1> QED BY <1>2, <1>3

ReplayInv ==
    /\ IInv /\ WindowInv /\ LeavesInv /\ SignedIsStored
    /\ HeadsStored /\ NoneFinal /\ ClosedWhole
    /\ HeadersCommit /\ NothingAhead /\ EpochInHand /\ SnapshotReplays

LEMMA InitReplayInv == Init => ReplayInv
<1> SUFFICES ASSUME Init PROVE ReplayInv
    OBVIOUS
<1>1. IInv /\ WindowInv /\ LeavesInv /\ SignedIsStored
    BY InitIInv, InitLogs, InitHeads
<1>2. /\ pc = "down" /\ ~open /\ headers = <<>> /\ snapshot = OldWorld
      /\ \A e \in Windows : sths[e] = {}
    BY DEF Init, IntakeInit
<1>3. HeadsStored /\ NoneFinal /\ ClosedWhole
    BY <1>2 DEF HeadsStored, NoneFinal, ClosedWhole, Closed
<1>4. HeadersCommit /\ NothingAhead /\ EpochInHand
    BY <1>2 DEF HeadersCommit, NothingAhead, EpochInHand
<1>5. SnapshotReplays
    BY <1>2, ConstantTypes DEF SnapshotReplays, Replays, OldWorld
<1> QED BY <1>1, <1>3, <1>4, <1>5 DEF ReplayInv

LEMMA NextReplayInv ==
    ASSUME DiskFaults = FALSE, ReplayInv, [Next]_vars
    PROVE  ReplayInv'
<1>1. IInv' /\ WindowInv' /\ LeavesInv' /\ SignedIsStored'
    BY NextIInv, NextWindowInv, HeadStep, NextHeads DEF ReplayInv
<1>2. HeadsStored' /\ NoneFinal' /\ ClosedWhole'
    BY NextHeadsStored, NextNoneFinal, NextClosedWhole DEF ReplayInv
<1>3. HeadersCommit' /\ NothingAhead' /\ EpochInHand' /\ SnapshotReplays'
    BY NextHeadersCommit, NextNothingAhead, NextEpochInHand, NextSnapshotReplays DEF ReplayInv
<1> QED BY <1>1, <1>2, <1>3 DEF ReplayInv

LEMMA ReplayInvReplays == ReplayInv => ReplayableWorld
<1> SUFFICES ASSUME ReplayInv PROVE ReplayableWorld
    OBVIOUS
<1>1. HeaderCommits
    BY DEF ReplayInv, HeadersCommit, HeaderCommits
<1>2. IsPrefix(snapshot, store)
    BY DEF ReplayInv, IInv, LoopInStep
<1> QED BY <1>1, <1>2 DEF ReplayInv, SnapshotReplays, Replays, ReplayableWorld

\* The world of the snapshot can be replayed from what is published, and every
\* signed header commits to what the database serves for its epoch, whenever
\* the process ends and starts again, unless a transaction of append fails.
THEOREM WorldIsReplayable ==
    ASSUME DiskFaults = FALSE
    PROVE  Safe => []ReplayableWorld
<1>1. ReplayInv /\ [Next]_vars => ReplayInv'
    BY NextReplayInv
<1> QED BY <1>1, InitReplayInv, ReplayInvReplays, PTL DEF Safe

-----------------------------------------------------------------------------
(* What the world outside can rely on. *)

\* What a reader of the API builds on, and what keeps it.
ServedInv == ReplayInv /\ ChainLinks /\ SparksInTheirWindow /\ ServingWhole

\* A process that has not started serves nothing yet.
LEMMA InitServedInv == Init => ServedInv
<1> SUFFICES ASSUME Init PROVE ServedInv
    OBVIOUS
<1>1. ReplayInv /\ SparksInTheirWindow
    BY InitReplayInv, InitLogs
<1>2. ChainLinks
    BY DEF Init, IntakeInit, ChainLinks
<1>3. epoch = 0 /\ 0 \notin Windows
    BY ConstantTypes DEF Init, IntakeInit, Windows
<1>4. ServingWhole
    BY <1>3 DEF ServingWhole
<1> QED BY <1>1, <1>2, <1>4 DEF ServedInv

\* Every step keeps it.
LEMMA NextServedInv ==
    ASSUME DiskFaults = FALSE, ServedInv, [Next]_vars
    PROVE  ServedInv'
<1>1. ReplayInv'
    BY NextReplayInv DEF ServedInv
<1>2. ChainLinks' /\ SparksInTheirWindow' /\ ServingWhole'
    BY NextChain, NextInTheirWindow, NextServingWhole DEF ServedInv, ReplayInv
<1> QED BY <1>1, <1>2 DEF ServedInv

\* The first header of an old world has no hash before it; in every other one it is
\* the challenge of the header's window.
PrevIsChallenge(e, prev) ==
    /\ e \in DOMAIN windows
    /\ OldEpochs = 0 => prev # ZeroHash
    /\ OldEpochs # 0 => prev = ZeroHash \/ prev = windows[e].challenge

\* The hash of the header before, in every header (intake.rs sign_header, close).
LEMMA HeaderPrevIs ==
    ASSUME ServedInv, NEW e \in DOMAIN headers, e # 0
    PROVE  PrevIsChallenge(e, headers[e].prev)
<1>1. e \in 1..MaxEpoch /\ e - 1 # NULL
    BY ConstantTypes DEF ServedInv, ReplayInv, IInv, TypeOK, ChainTypes, NULL
<1>2. e \in DOMAIN windows
    BY <1>1, HeaderHasRow DEF ServedInv, ReplayInv
<1>3. /\ OldEpochs = 0 => FirstHeader = 0
      /\ OldEpochs # 0 => FirstHeader = FirstWindow
    BY FirstHeaderType
<1>4. CASE e = FirstHeader
    <2>1. headers[e].prev = ZeroHash
        BY <1>4 DEF ServedInv, ChainLinks
    <2> QED BY <1>2, <1>3, <1>4, <2>1 DEF PrevIsChallenge
<1>5. CASE e # FirstHeader
    <2>1. e - 1 \in DOMAIN headers /\ headers[e].prev = HeaderHash(headers[e - 1])
        BY <1>5 DEF ServedInv, ChainLinks
    <2>2. headers[e].prev # ZeroHash
        BY <1>1, <2>1 DEF ServedInv, ReplayInv, IInv, TypeOK, ChainTypes, HeaderHash, ZeroHash
    <2>3. OldEpochs # 0 => headers[e].prev = windows[e].challenge
        BY <1>2, <1>3, <1>5, <2>1 DEF ServedInv, ChainLinks
    <2> QED BY <1>2, <2>2, <2>3 DEF PrevIsChallenge
<1> QED BY <1>4, <1>5

\* It stays the challenge of that window: no window is ever given another one.
LEMMA PrevStaysChallenge ==
    ASSUME IInv, [Next]_vars, NEW e, NEW prev, PrevIsChallenge(e, prev)
    PROVE  PrevIsChallenge(e, prev)'
BY ChallengesStay DEF PrevIsChallenge

-----------------------------------------------------------------------------
(* The sealed chain. *)

\* A window that never opened has no log, and every header names the run of
\* the process that signed it.
Unopened == \A e \in Windows : e \notin DOMAIN windows => EpochSparks(e) = <<>>
HeaderBoots == \A e \in DOMAIN headers : headers[e].boot \in 0..MaxBoots

LEMMA NextUnopened ==
    ASSUME IInv, WindowInv, Unopened, [Next]_vars
    PROVE  Unopened'
<1> SUFFICES ASSUME NEW e \in Windows, e \notin DOMAIN windows'
             PROVE  EpochSparks(e)' = <<>>
    BY DEF Unopened
<1>1. e \notin DOMAIN windows
    BY WindowsStay
<1>2. open => epoch \in DOMAIN windows
    BY OpenWindowIsOne, ConstantTypes DEF IInv, LoopInStep, WindowsTo, Windows
<1>3. EpochSparks(e)' = EpochSparks(e)
    BY <1>1, <1>2, LogStep DEF SameLogs, Gains
<1> QED BY <1>1, <1>3 DEF Unopened

LEMMA NextHeaderBoots ==
    ASSUME IInv, HeaderBoots, [Next]_vars
    PROVE  HeaderBoots'
<1> SUFFICES ASSUME NEW e \in DOMAIN headers'
             PROVE  headers'[e].boot \in 0..MaxBoots
    BY DEF HeaderBoots
<1>1. boots \in 0..MaxBoots
    BY DEF IInv, TypeOK, WorldTypes
<1>2. CASE e \in DOMAIN headers /\ headers'[e] = headers[e]
    BY <1>2 DEF HeaderBoots
<1>3. CASE SealEpoch /\ e = Len(run)
    BY <1>1, <1>3 DEF SealEpoch, Seal, Put, NewHeader
<1>4. CASE pc = "starting" /\ e = 0 /\ 0 \notin DOMAIN headers
    <2>1. ~(Rollback \/ CrashInRollback \/ LoopStep)
        BY <1>4 DEF Rollback, CrashInRollback, LoopStep, Close, Select, Step, RecordMiracles,
                    Publish, SealEpoch, Save, OpenNext, CheckWishes
    <2>2. ASSUME headers' = headers
          PROVE  FALSE
        BY <1>4, <2>2
    <2>3. \A h \in Handlers : Request(h) \/ Respond(h) \/ Faults(h) => headers' = headers
        BY DEF Request, Respond, Faults, BeginPropose, BeginSparks, Dismiss, FinishPropose,
               FinishSparks, AppendFails, ProposeFails, disk
    <2>4. Crashes => headers' = headers
        BY <2>1 DEF Crashes, Crash, CrashInOpen, CrashInClose, CrashInSelect, CrashInAppend,
                    CrashInPropose, disk
    <2>5. UNCHANGED vars => headers' = headers
        BY DEF vars, disk
    <2>6. PICK failing : Resume(failing)
        BY <2>1, <2>2, <2>3, <2>4, <2>5 DEF Next, Start
    <2>7. headers'[0] = GenesisHeader
        BY <1>4, <2>2, <2>6 DEF Resume, Put
    <2> QED BY <1>1, <1>4, <2>7 DEF GenesisHeader
<1> QED BY <1>2, <1>3, <1>4, HeadersStay

ChainInv == ReplayInv /\ ChainLinks /\ Unopened /\ HeaderBoots

\* What the server shows of the sealed chain.
PendingLog == IF Len(snapshot) + 1 \in Windows THEN EpochSparks(Len(snapshot) + 1) ELSE <<>>
Sealed(e) ==
    [sparks |-> headers[e].log, link |-> HeaderHash(headers[e]), prev |-> headers[e].prev]
SealedEpochs == [n \in 1..(Len(snapshot) - OldEpochs) |-> Sealed(OldEpochs + n)]

LEMMA OneMore ==
    ASSUME NEW n \in Nat, n >= 1, NEW S, NEW f \in [1..n -> S], NEW g \in [1..(n - 1) -> S],
           \A e \in 1..(n - 1) : f[e] = g[e]
    PROVE  f = Append(g, f[n]) /\ Len(g) = n - 1
<1>1. f \in Seq(S) /\ g \in Seq(S) /\ n \in 1..n
    BY SeqDef
<1>2. Len(f) = n /\ Len(g) = n - 1
    BY <1>1, LenProperties
<1>3. /\ Append(g, f[n]) \in Seq(S) /\ Len(Append(g, f[n])) = n
      /\ \A e \in 1..(n - 1) : Append(g, f[n])[e] = g[e]
      /\ Append(g, f[n])[n] = f[n]
    BY <1>1, <1>2, AppendProperties
<1>4. \A e \in 1..n : f[e] = Append(g, f[n])[e]
    BY <1>3
<1> QED BY <1>1, <1>2, <1>3, <1>4, SeqEqual

\* A save seals the pending log into the chain.
LEMMA SaveSeals ==
    ASSUME ChainInv, [Next]_vars, Save
    PROVE  \E link, prev \in [epoch : NULL..MaxEpoch, boot : 0..MaxBoots] :
              /\ SealedEpochs # <<>> => prev = SealedEpochs[Len(SealedEpochs)].link
              /\ SealedEpochs' =
                    Append(SealedEpochs, [sparks |-> PendingLog, link |-> link, prev |-> prev])
              /\ PendingLog' = <<>>
<1> USE DEF ChainInv, ReplayInv, IInv, TypeOK
<1> DEFINE n == Len(run)
           m == n - OldEpochs
           link == HeaderHash(headers[n])
           prev == headers[n].prev
           new == [sparks |-> PendingLog, link |-> link, prev |-> prev]
<1>1. /\ pc = "save" /\ snapshot' = run /\ UNCHANGED <<windows, rows, logs, headers>>
    BY DEF Save, disk
<1>2. /\ n \in Nat /\ Len(snapshot) \in Nat /\ n = Len(snapshot) + 1 /\ n <= MaxEpoch
      /\ MaxEpoch \in Nat /\ OldEpochs \in Nat /\ Len(snapshot) >= OldEpochs
      /\ FirstWindow = OldEpochs + 1
      /\ HeadersTo(n) /\ DOMAIN windows = FirstWindow..n
    BY <1>1, LenProperties, ConstantTypes DEF WorldTypes, LoopInStep, WindowsTo
<1>3. /\ n \in Windows /\ n + 1 \in Windows /\ n \in 1..MaxEpoch
      /\ n \in DOMAIN headers /\ m \in Nat /\ m >= 1 /\ OldEpochs + m = n
      /\ Len(snapshot) - OldEpochs = m - 1
    <2>1. n \in Nat /\ n >= 1 /\ n <= MaxEpoch /\ MaxEpoch \in Nat
        BY <1>2
    <2>2. n \in DOMAIN headers
        BY <1>2, FirstHeaderType DEF HeadersTo
    <2>3. m \in Nat /\ m >= 1 /\ OldEpochs + m = n /\ Len(snapshot) - OldEpochs = m - 1
        BY <1>2
    <2> HIDE DEF n, m
    <2> QED BY <2>1, <2>2, <2>3 DEF Windows
<1>4. PendingLog = EpochSparks(n) /\ PendingLog' = EpochSparks(n + 1)
    BY <1>1, <1>2, <1>3 DEF PendingLog, EpochSparks
<1>5. PendingLog' = <<>>
    BY <1>2, <1>3, <1>4 DEF Unopened
<1>6. headers[n].log = PendingLog
    BY <1>1, <1>2, <1>3, <1>4 DEF HeadersCommit
<1>7. IF n = FirstHeader THEN prev = ZeroHash
      ELSE n - 1 \in DOMAIN headers /\ prev = HeaderHash(headers[n - 1])
    BY <1>3 DEF ChainLinks
<1>8. \A d \in DOMAIN headers :
          HeaderHash(headers[d]) \in [epoch : NULL..MaxEpoch, boot : 0..MaxBoots]
    <2> TAKE d \in DOMAIN headers
    <2>1. d \in 0..MaxEpoch /\ headers[d].epoch = d /\ headers[d].boot \in 0..MaxBoots
        BY DEF ChainTypes, HeaderBoots
    <2>2. d \in NULL..MaxEpoch
        BY <1>2, <2>1 DEF NULL
    <2> QED BY <2>1, <2>2 DEF HeaderHash
<1>9. link \in [epoch : NULL..MaxEpoch, boot : 0..MaxBoots]
    BY <1>3, <1>8
<1>10. prev \in [epoch : NULL..MaxEpoch, boot : 0..MaxBoots]
    <2>1. ZeroHash \in [epoch : NULL..MaxEpoch, boot : 0..MaxBoots]
        BY <1>2, ConstantTypes DEF ZeroHash, NULL
    <2> HIDE DEF n, prev
    <2> QED BY <1>7, <1>8, <2>1
<1>11. /\ SealedEpochs' = [i \in 1..m |-> Sealed(OldEpochs + i)]
       /\ SealedEpochs = [i \in 1..(m - 1) |-> Sealed(OldEpochs + i)]
    BY <1>1, <1>3 DEF SealedEpochs, Sealed, HeaderHash
<1>12. Sealed(n) = new
    BY <1>6 DEF Sealed
<1>13. SealedEpochs' = Append(SealedEpochs, new) /\ Len(SealedEpochs) = m - 1
    <2> DEFINE f == [i \in 1..m |-> Sealed(OldEpochs + i)]
               g == [i \in 1..(m - 1) |-> Sealed(OldEpochs + i)]
               S == {Sealed(OldEpochs + i) : i \in 1..m}
    <2> HIDE DEF m
    <2>1. f \in [1..m -> S] /\ g \in [1..(m - 1) -> S] /\ f[m] = Sealed(n)
        BY <1>3
    <2>2. \A i \in 1..(m - 1) : f[i] = g[i]
        BY <1>3
    <2> HIDE DEF f, g, S
    <2>3. f = Append(g, f[m]) /\ Len(g) = m - 1
        BY <1>3, <2>1, <2>2, OneMore
    <2> QED BY <1>11, <1>12, <2>1, <2>3 DEF f, g
<1>14. SealedEpochs # <<>> => prev = SealedEpochs[Len(SealedEpochs)].link
    <2> SUFFICES ASSUME SealedEpochs # <<>>
                 PROVE  prev = SealedEpochs[m - 1].link
        BY <1>13
    <2>1. m - 1 \in 1..(m - 1)
        <3>1. CASE m = 1
            BY <1>11, <3>1
        <3>2. CASE m # 1
            BY <1>3, <3>2
        <3> QED BY <3>1, <3>2
    <2>2. n # FirstHeader /\ OldEpochs + (m - 1) = n - 1
        BY <1>2, <1>3, <2>1, FirstHeaderType
    <2> QED BY <1>7, <1>11, <2>1, <2>2 DEF Sealed
<1> HIDE DEF link, prev
<1> QED BY <1>5, <1>9, <1>10, <1>13, <1>14

\* Any other step leaves what is sealed, and the pending log only grows.
LEMMA OthersKeepChain ==
    ASSUME ChainInv, [Next]_vars, ~Save
    PROVE  /\ SealedEpochs' = SealedEpochs
           /\ \/ PendingLog' = PendingLog
              \/ /\ Len(PendingLog') > Len(PendingLog)
                 /\ SubSeq(PendingLog', 1, Len(PendingLog)) = PendingLog
<1> USE DEF ChainInv, ReplayInv, IInv, TypeOK
<1> DEFINE n == Len(snapshot) + 1
<1>1. snapshot' = snapshot
    BY WorldStep
<1>2. /\ Len(snapshot) \in Nat /\ n \in Windows /\ DOMAIN snapshot = 1..Len(snapshot)
      /\ Len(snapshot) <= MaxEpoch
    BY LenProperties, ConstantTypes DEF WorldTypes, LoopInStep, Windows
<1>3. \A e \in DOMAIN snapshot : e > OldEpochs => headers'[e] = headers[e]
    <2> TAKE e \in DOMAIN snapshot
    <2> HAVE e > OldEpochs
    <2>1. e \in Nat /\ e # 0 /\ ~(e > Len(snapshot)) /\ ~(e <= OldEpochs)
        BY <1>2, ConstantTypes
    <2>2. e \in DOMAIN headers
        BY <2>1 DEF SnapshotReplays, Replays
    <2>3. e \in DOMAIN headers'
        BY <2>1, <2>2, HeadersStay
    <2>4. SealEpoch => Len(run) > Len(snapshot)
        BY <1>2 DEF SealEpoch, LoopInStep
    <2> QED BY <2>1, <2>2, <2>3, <2>4, HeadersStay
<1>4. SealedEpochs' = SealedEpochs
    <2>1. \A i \in 1..(Len(snapshot) - OldEpochs) : headers'[OldEpochs + i] = headers[OldEpochs + i]
        <3> TAKE i \in 1..(Len(snapshot) - OldEpochs)
        <3>1. OldEpochs + i \in DOMAIN snapshot /\ OldEpochs + i > OldEpochs
            BY <1>2, ConstantTypes
        <3> QED BY <1>3, <3>1
    <2> QED BY <1>1, <2>1 DEF SealedEpochs, Sealed, HeaderHash
<1>5. PICK e \in Windows : PendingLog = EpochSparks(e) /\ PendingLog' = EpochSparks(e)'
    <2>1. PICK e \in Windows : e = n
        BY <1>2
    <2> QED BY <1>1, <1>2, <2>1 DEF PendingLog, EpochSparks
<1>6. PendingLog \in Seq(Sparks) /\ PendingLog' \in Seq(Sparks) /\ IsPrefix(PendingLog, PendingLog')
    BY <1>5, LogsGrow
<1>7. Len(PendingLog) \in Nat /\ Len(PendingLog') \in Nat /\ Len(PendingLog) <= Len(PendingLog')
    BY <1>6, PrefixMeans, LenProperties
<1>8. CASE Len(PendingLog) = Len(PendingLog')
    <2>1. \A i \in 1..Len(PendingLog) : PendingLog[i] = PendingLog'[i]
        BY <1>6, PrefixMeans
    <2>2. PendingLog = PendingLog'
        BY <1>6, <1>8, <2>1, SeqEqual
    <2> QED BY <1>4, <2>2
<1>9. CASE Len(PendingLog) # Len(PendingLog')
    BY <1>4, <1>6, <1>7, <1>9, CutToPrefix
<1> QED BY <1>8, <1>9

LEMMA ChainStep ==
    ASSUME ChainInv, [Next]_vars
    PROVE  [Public!Next]_<<PendingLog, SealedEpochs>>
<1>1. CASE Save
    <2>1. \E link, prev \in [epoch : NULL..MaxEpoch, boot : 0..MaxBoots] :
              /\ SealedEpochs # <<>> => prev = SealedEpochs[Len(SealedEpochs)].link
              /\ SealedEpochs' =
                    Append(SealedEpochs, [sparks |-> PendingLog, link |-> link, prev |-> prev])
              /\ PendingLog' = <<>>
        BY <1>1, SaveSeals
    <2> QED BY <2>1 DEF Public!Next, Public!Seal, PendingLog, SealedEpochs, Sealed
<1>2. CASE ~Save
    <2>1. /\ SealedEpochs' = SealedEpochs
          /\ \/ PendingLog' = PendingLog
             \/ /\ Len(PendingLog') > Len(PendingLog)
                /\ SubSeq(PendingLog', 1, Len(PendingLog)) = PendingLog
        BY <1>2, OthersKeepChain
    <2> QED BY <2>1 DEF Public!Next, Public!Accept, PendingLog, SealedEpochs, Sealed
<1> QED BY <1>1, <1>2

LEMMA InitChain == Init => ChainInv /\ Public!Init
<1> SUFFICES ASSUME Init PROVE ChainInv /\ Public!Init
    OBVIOUS
<1>1. /\ windows = <<>> /\ headers = <<>> /\ snapshot = OldWorld /\ logs = <<>>
      /\ \A e \in Windows : rows[e] = <<>>
    BY DEF Init, IntakeInit
<1>2. ChainLinks /\ Unopened /\ HeaderBoots
    BY <1>1 DEF ChainLinks, Unopened, HeaderBoots, EpochSparks
<1>3. Public!Init
    <2>1. Len(snapshot) = OldEpochs /\ OldEpochs \in Nat
        <3>1. OldEpochs \in Nat
            BY ConstantTypes
        <3> QED BY <1>1, <3>1, OldWorldIs
    <2>2. [n \in 1..(Len(snapshot) - OldEpochs) |->
              [sparks |-> headers[OldEpochs + n].log,
               link |-> HeaderHash(headers[OldEpochs + n]),
               prev |-> headers[OldEpochs + n].prev]] = <<>>
        BY <2>1
    <2>3. PendingLog = <<>>
        BY <1>1 DEF PendingLog, EpochSparks
    <2> QED BY <2>2, <2>3 DEF Public!Init, PendingLog
<1> QED BY <1>2, <1>3, InitReplayInv DEF ChainInv

\* The server implements the sealed chain, every step of it or none: sparks
\* accepted for an epoch are never lost, and what is sealed and saved is never
\* changed, through crashes and restarts, unless a transaction of append fails.
THEOREM ServerImplementsSealedChain ==
    ASSUME DiskFaults = FALSE
    PROVE  Safe => ImplementsSealedChain
<1>1. ChainInv /\ [Next]_vars => ChainInv' /\ [Public!Next]_<<PendingLog, SealedEpochs>>
    BY NextReplayInv, NextChain, NextUnopened, NextHeaderBoots, ChainStep DEF ChainInv, ReplayInv
<1>2. Init => ChainInv /\ Public!Init
    BY InitChain
<1> QED BY <1>1, <1>2, PTL DEF Safe, ImplementsSealedChain, Public!Spec, PendingLog, SealedEpochs,
                              Sealed

-----------------------------------------------------------------------------
(* The wishes: how their status moves. *)


\* No wish is opened, and none loses its row.
MovesOn == \A w \in Wishes : status'[w] = status[w] \/ status'[w] \notin {"none", "open"}

\* A wish is opened by a request that has checked it.
Opens(w) ==
    /\ PrecheckWish(w)
    /\ status' = [status EXCEPT ![w] = "open"]

-----------------------------------------------------------------------------
(* What a step does to the status of the wishes. *)

LEMMA WithStatusMovesOn ==
    ASSUME NEW S, NEW st, st \notin {"none", "open"}, status' = WithStatus(S, st)
    PROVE  MovesOn
BY DEF WithStatus, MovesOn

LEMMA StatusWritesMoveOn ==
    ASSUME NEW chosen, NEW n, status' = StatusWrites(chosen, n)
    PROVE  MovesOn
BY DEF StatusWrites, MovesOn

\* The outcome of a miracle moves its wish on (intake.rs record).
LEMMA RecordMovesOn ==
    ASSUME NEW e, NEW g \in Seq(Miracle), Record(e, g)
    PROVE  MovesOn
<1> DEFINE Outcome(w) == g[CHOOSE i \in DOMAIN g : g[i].wish = w].outcome
           named == {g[i].wish : i \in DOMAIN g}
<1>1. \A w \in named : Outcome(w) \in {"applied", "deferred", "refused"}
    <2>1. \A i \in DOMAIN g : g[i].outcome \in {"applied", "deferred", "refused"}
        <3>1. \A i \in DOMAIN g : g[i] \in Miracle
            BY LenProperties, ElementOfSeq
        <3> QED BY <3>1 DEF Miracle
    <2>2. \A w \in named : (CHOOSE i \in DOMAIN g : g[i].wish = w) \in DOMAIN g
        OBVIOUS
    <2> QED BY <2>1, <2>2
<1>2. \A o \in {"applied", "deferred", "refused"} : StatusOfOutcome(o) \notin {"none", "open"}
    BY DEF StatusOfOutcome
<1>3. status' = [w \in Wishes |-> IF w \in named THEN StatusOfOutcome(Outcome(w))
                                  ELSE status[w]]
    BY DEF Record
<1> HIDE DEF named, Outcome
<1> QED BY <1>1, <1>2, <1>3 DEF MovesOn

\* The wish of a proposal.
LEMMA ProposedWish ==
    ASSUME IInv, NEW h \in Handlers, req[h].kind = "propose"
    PROVE  req[h].batch[1] \in Sparks /\ req[h].batch[1].wish \in Wishes
<1>1. req[h].batch \in Seq(Sparks) /\ Len(req[h].batch) = 1
    BY DEF IInv, TypeOK, RequestTypes, Requests
<1>2. req[h].batch[1] \in Sparks
    BY <1>1, ElementOfSeq
<1> QED BY <1>2 DEF Sparks

LEMMA StatusStep ==
    ASSUME IInv, [Next]_vars
    PROVE  MovesOn \/ \E w \in Wishes : Opens(w)
<1>1. CASE UNCHANGED status
    BY <1>1 DEF MovesOn
<1>2. CASE Start
    <2>1. CASE Rollback
        BY <2>1, WithStatusMovesOn DEF Rollback, RollbackAfter
    <2>2. ASSUME NEW failing, Resume(failing)
          PROVE  MovesOn
        BY <2>2, WithStatusMovesOn DEF Resume, SoftCheck
    <2> QED BY <1>2, <2>1, <2>2 DEF Start
<1>3. CASE LoopStep
    <2>1. CASE Close
        BY <2>1, WithStatusMovesOn DEF Close, CloseWindow
    <2>2. ASSUME NEW tie, NEW shareClosed, Select(tie, shareClosed)
          PROVE  MovesOn
        BY <2>2, StatusWritesMoveOn DEF Select, SelectMiracles
    <2>3. CASE RecordMiracles
        BY <2>3, RecordMovesOn DEF RecordMiracles, IInv, TypeOK, WorldTypes
    <2>4. ASSUME NEW failing, CheckWishes(failing)
          PROVE  MovesOn
        BY <2>4, WithStatusMovesOn DEF CheckWishes, SoftCheck
    <2>5. CASE Step \/ Publish \/ SealEpoch \/ Save \/ OpenNext
        BY <1>1, <2>5 DEF Step, Publish, SealEpoch, Save, OpenNext, disk
    <2> QED BY <1>3, <2>1, <2>2, <2>3, <2>4, <2>5 DEF LoopStep
<1>4. ASSUME NEW h \in Handlers, Request(h) \/ Respond(h) \/ Faults(h) \/ CrashInPropose(h)
      PROVE  MovesOn \/ \E w \in Wishes : Opens(w)
    <2>1. CASE FinishPropose(h) \/ ProposeFails(h) \/ CrashInPropose(h)
        <3>1. req[h].batch[1].wish \in Wishes
            BY <2>1, ProposedWish DEF FinishPropose, ProposeFails, CrashInPropose
        <3>2. Opens(req[h].batch[1].wish)
            BY <2>1 DEF FinishPropose, ProposeFails, CrashInPropose, StillAdmitted, AddWish, Opens
        <3> QED BY <3>1, <3>2
    <2>2. CASE Request(h) \/ Dismiss(h) \/ FinishSparks(h) \/ AppendFails(h)
        BY <1>1, <2>2 DEF Request, BeginPropose, BeginSparks, Dismiss, FinishSparks, AppendFails,
                          disk, wishTable
    <2> QED BY <1>4, <2>1, <2>2 DEF Respond, Faults
<1>5. CASE Crashes
    <2>1. ASSUME NEW tie, NEW shareClosed, CrashInSelect(tie, shareClosed)
          PROVE  MovesOn
        BY <2>1, StatusWritesMoveOn DEF CrashInSelect
    <2>2. CASE \/ Crash \/ CrashInRollback \/ CrashInOpen \/ CrashInClose
               \/ \E h \in Handlers : CrashInAppend(h)
        BY <1>1, <2>2 DEF Crash, CrashInRollback, CrashInOpen, CrashInClose, CrashInAppend, disk,
                          wishTable
    <2> QED BY <1>4, <1>5, <2>1, <2>2 DEF Crashes
<1>6. CASE UNCHANGED vars
    BY <1>1, <1>6 DEF vars, disk
<1> QED BY <1>2, <1>3, <1>4, <1>5, <1>6 DEF Next

-----------------------------------------------------------------------------
(* Open wishes. *)

LEMMA OpenByIsFinite ==
    ASSUME NEW author
    PROVE  IsFiniteSet(OpenBy(author)) /\ Cardinality(OpenBy(author)) \in Nat
<1>1. OpenBy(author) \in SUBSET Wishes
    BY DEF OpenBy
<1> QED BY <1>1, IntakeAssumption, FS_Subset, FS_CardinalityType

LEMMA NextOpen ==
    ASSUME IInv, OpenPerAuthor, [Next]_vars
    PROVE  OpenPerAuthor'
<1> SUFFICES ASSUME NEW w \in Wishes
             PROVE  Cardinality(OpenBy(AuthorOf[w])') <= OPEN_PER_AUTHOR
    BY DEF OpenPerAuthor, OpenBy
<1> DEFINE author == AuthorOf[w]
           before == OpenBy(author)
           after == OpenBy(author)'
<1>1. before = {v \in Wishes : AuthorOf[v] = author /\ status[v] = "open"}
    BY DEF OpenBy
<1>2. after = {v \in Wishes : AuthorOf[v] = author /\ status'[v] = "open"}
    BY DEF OpenBy
<1>3. IsFiniteSet(before) /\ Cardinality(before) \in Nat /\ Cardinality(before) <= OPEN_PER_AUTHOR
    BY OpenByIsFinite DEF OpenPerAuthor
<1>4. OPEN_PER_AUTHOR \in Nat
    BY IntakeAssumption
<1> HIDE DEF before, after
<1>5. CASE after \in SUBSET before
    <2>1. Cardinality(after) \in Nat /\ Cardinality(after) <= Cardinality(before)
        BY <1>3, <1>5, FS_Subset, FS_CardinalityType
    <2> QED BY <1>3, <1>4, <2>1 DEF after, author
<1>6. CASE MovesOn
    <2>1. after \in SUBSET before
        BY <1>1, <1>2, <1>6 DEF MovesOn
    <2> QED BY <1>5, <2>1
<1>7. ASSUME NEW v \in Wishes, Opens(v)
      PROVE  Cardinality(after) <= OPEN_PER_AUTHOR
    <2>1. \A u \in Wishes : status'[u] = "open" => status[u] = "open" \/ u = v
        BY <1>7 DEF Opens, IInv, TypeOK, WishTypes
    <2>2. CASE AuthorOf[v] # author
        <3>1. after \in SUBSET before
            BY <1>1, <1>2, <2>1, <2>2
        <3> QED BY <1>5, <3>1 DEF after, author
    <2>3. CASE AuthorOf[v] = author
        <3>1. Cardinality(before) < OPEN_PER_AUTHOR
            BY <1>7, <2>3 DEF Opens, PrecheckWish, before
        <3>2. after \in SUBSET (before \cup {v})
            BY <1>1, <1>2, <2>1
        <3>3. IsFiniteSet(before \cup {v}) /\ Cardinality(before \cup {v}) <= Cardinality(before) + 1
            BY <1>3, FS_AddElement
        <3>4. Cardinality(after) <= Cardinality(before \cup {v})
              /\ Cardinality(after) \in Nat /\ Cardinality(before \cup {v}) \in Nat
            BY <3>2, <3>3, FS_Subset, FS_CardinalityType
        <3> QED BY <1>3, <1>4, <3>1, <3>3, <3>4
    <2> QED BY <2>2, <2>3
<1> QED BY <1>6, <1>7, StatusStep DEF after, author

\* No author has more open wishes than allowed, whatever his requests do while
\* their sparks are verified, and whatever restarts there are.
THEOREM AuthorsStayInBounds == Safe => []OpenPerAuthor
<1>1. Init => OpenPerAuthor
    <2> SUFFICES ASSUME Init, NEW w \in Wishes
                 PROVE  Cardinality(OpenBy(AuthorOf[w])) <= OPEN_PER_AUTHOR
        BY DEF OpenPerAuthor
    <2>1. OpenBy(AuthorOf[w]) = {}
        BY DEF Init, IntakeInit, OpenBy
    <2> QED BY <2>1, FS_EmptySet, IntakeAssumption
<1>2. IInv /\ OpenPerAuthor /\ [Next]_vars => IInv' /\ OpenPerAuthor'
    BY NextIInv, NextOpen
<1> QED BY InitIInv, <1>1, <1>2, PTL DEF Safe

-----------------------------------------------------------------------------
(* Sums. *)

LEMMA SumIsASum ==
    ASSUME NEW n \in Nat, NEW f \in [1..n -> Nat]
    PROVE  \E sum \in [0..n -> Nat] :
              /\ sum[0] = 0 /\ \A k \in 1..n : sum[k] = sum[k - 1] + f[k]
              /\ SumTo(f, n) = sum[n]
<1> DEFINE IsSum(s) == s = [k \in 0..n |-> IF k = 0 THEN 0 ELSE s[k - 1] + f[k]]
           step == [k \in 1..n |-> [x \in Nat |-> x + f[k]]]
<1>1. \E s : IsSum(s)
    <2>1. step \in [1..n -> [Nat -> Nat]]
        OBVIOUS
    <2>2. \A k \in 1..n, x \in Nat : step[k][x] = x + f[k]
        OBVIOUS
    <2> HIDE DEF step
    <2> DEFINE S == Nat
               N == n
               base == 0
    <2>3. N \in Nat /\ base \in S /\ step \in [1..N -> [S -> S]]
        BY <2>1
    <2> HIDE DEF IsSum, S, N, base
    <2>4. \E w \in [0..N -> S] : w[0] = base /\ \A k \in 1..N : w[k] = step[k][w[k - 1]]
        BY <2>3, RecursionExists, SMTT(60)
    <2>5. PICK s \in [0..n -> Nat] : s[0] = 0 /\ \A k \in 1..n : s[k] = step[k][s[k - 1]]
        BY <2>4 DEF S, N, base
    <2>6. \A k \in 1..n : s[k] = s[k - 1] + f[k]
        <3>1. \A k \in 1..n : s[k - 1] \in Nat
            OBVIOUS
        <3> QED BY <2>2, <2>5, <3>1
    <2>7. IsSum(s)
        BY <2>5, <2>6 DEF IsSum
    <2> QED BY <2>7
<1> DEFINE sum == CHOOSE s : IsSum(s)
<1>2. IsSum(sum)
    BY <1>1
<1>3. SumTo(f, n) = sum[n]
    BY DEF SumTo
<1> HIDE DEF sum
<1>4. DOMAIN sum = 0..n /\ sum[0] = 0 /\ \A k \in 1..n : sum[k] = sum[k - 1] + f[k]
    BY <1>2
<1> HIDE DEF IsSum
<1>5. 0..n \subseteq {k \in 0..n : sum[k] \in Nat}
    <2> DEFINE S == {k \in 0..n : sum[k] \in Nat}
    <2>1. 0 \in S
        BY <1>4
    <2>2. ASSUME NEW k \in 0..(n - 1), k \in S
          PROVE  k + 1 \in S
        <3>1. k + 1 \in 1..n /\ (k + 1) - 1 = k /\ k + 1 \in 0..n
            OBVIOUS
        <3>2. sum[k + 1] = sum[k] + f[k + 1]
            BY <1>4, <3>1
        <3> QED BY <2>2, <3>1, <3>2
    <2> HIDE DEF S
    <2>3. 0..n \subseteq S
        BY <2>1, <2>2, NatSetInduction
    <2> QED BY <2>3 DEF S
<1>6. sum = [k \in 0..n |-> sum[k]]
    BY <1>2 DEF IsSum
<1>7. sum \in [0..n -> Nat]
    BY <1>5, <1>6
<1> QED BY <1>3, <1>4, <1>7

LEMMA SumIsNatural ==
    ASSUME NEW n \in Nat, NEW f \in [1..n -> Nat]
    PROVE  SumTo(f, n) \in Nat
BY SumIsASum

\* A sum grows by what one of its terms grows.
LEMMA SumPlus ==
    ASSUME NEW n \in Nat, NEW f \in [1..n -> Nat], NEW g \in [1..n -> Nat],
           NEW e \in 1..n, NEW d \in Nat,
           \A k \in 1..n : g[k] = IF k = e THEN f[k] + d ELSE f[k]
    PROVE  SumTo(g, n) = SumTo(f, n) + d
<1>1. PICK s \in [0..n -> Nat] :
          s[0] = 0 /\ (\A k \in 1..n : s[k] = s[k - 1] + f[k]) /\ SumTo(f, n) = s[n]
    BY SumIsASum
<1>2. PICK t \in [0..n -> Nat] :
          t[0] = 0 /\ (\A k \in 1..n : t[k] = t[k - 1] + g[k]) /\ SumTo(g, n) = t[n]
    BY SumIsASum
<1> DEFINE S == {k \in 0..n : t[k] = IF k >= e THEN s[k] + d ELSE s[k]}
<1>3. 0 \in S
    BY <1>1, <1>2
<1>4. ASSUME NEW k \in 0..(n - 1), k \in S
      PROVE  k + 1 \in S
    <2>1. k + 1 \in 1..n /\ (k + 1) - 1 = k /\ k + 1 \in 0..n
        OBVIOUS
    <2>2. s[k + 1] = s[k] + f[k + 1] /\ t[k + 1] = t[k] + g[k + 1]
        BY <1>1, <1>2, <2>1
    <2>3. g[k + 1] = IF k + 1 = e THEN f[k + 1] + d ELSE f[k + 1]
        BY <2>1
    <2>4. /\ s[k] \in Nat /\ t[k] \in Nat /\ f[k + 1] \in Nat
          /\ t[k] = IF k >= e THEN s[k] + d ELSE s[k]
        BY <1>4, <2>1
    <2>5. t[k + 1] = IF k + 1 >= e THEN s[k + 1] + d ELSE s[k + 1]
        <3>1. CASE k >= e
            <4>1. t[k] = s[k] + d /\ g[k + 1] = f[k + 1] /\ k + 1 >= e
                BY <2>3, <2>4, <3>1
            <4>2. t[k + 1] = (s[k] + d) + f[k + 1]
                BY <2>2, <4>1
            <4> QED BY <2>2, <2>4, <4>1, <4>2
        <3>2. CASE k + 1 = e
            BY <2>2, <2>3, <2>4, <3>2
        <3>3. CASE k + 1 < e
            BY <2>2, <2>3, <2>4, <3>3
        <3> QED BY <3>1, <3>2, <3>3
    <2> QED BY <2>1, <2>5
<1> HIDE DEF S
<1>5. 0..n \subseteq S
    BY <1>3, <1>4, NatSetInduction
<1>6. n \in 0..n /\ n >= e
    OBVIOUS
<1> QED BY <1>1, <1>2, <1>5, <1>6 DEF S

\* A sum of smaller terms is no larger.
LEMMA SumAtMost ==
    ASSUME NEW n \in Nat, NEW f \in [1..n -> Nat], NEW g \in [1..n -> Nat],
           \A k \in 1..n : g[k] <= f[k]
    PROVE  SumTo(g, n) <= SumTo(f, n)
<1>1. PICK s \in [0..n -> Nat] :
          s[0] = 0 /\ (\A k \in 1..n : s[k] = s[k - 1] + f[k]) /\ SumTo(f, n) = s[n]
    BY SumIsASum
<1>2. PICK t \in [0..n -> Nat] :
          t[0] = 0 /\ (\A k \in 1..n : t[k] = t[k - 1] + g[k]) /\ SumTo(g, n) = t[n]
    BY SumIsASum
<1> DEFINE S == {k \in 0..n : t[k] <= s[k]}
<1>3. 0 \in S
    BY <1>1, <1>2
<1>4. ASSUME NEW k \in 0..(n - 1), k \in S
      PROVE  k + 1 \in S
    <2>1. k + 1 \in 1..n /\ (k + 1) - 1 = k /\ k + 1 \in 0..n
        OBVIOUS
    <2>2. s[k + 1] = s[k] + f[k + 1] /\ t[k + 1] = t[k] + g[k + 1]
        BY <1>1, <1>2, <2>1
    <2>3. g[k + 1] <= f[k + 1] /\ g[k + 1] \in Nat /\ f[k + 1] \in Nat
        BY <2>1
    <2>4. s[k] \in Nat /\ t[k] \in Nat /\ t[k] <= s[k]
        BY <1>4, <2>1
    <2> QED BY <2>1, <2>2, <2>3, <2>4
<1> HIDE DEF S
<1>5. 0..n \subseteq S
    BY <1>3, <1>4, NatSetInduction
<1>6. n \in 0..n
    OBVIOUS
<1> QED BY <1>1, <1>2, <1>5, <1>6 DEF S

LEMMA SumOfNothing ==
    ASSUME NEW n \in Nat, NEW f \in [1..n -> Nat], \A k \in 1..n : f[k] = 0
    PROVE  SumTo(f, n) = 0
<1>1. PICK s \in [0..n -> Nat] :
          s[0] = 0 /\ (\A k \in 1..n : s[k] = s[k - 1] + f[k]) /\ SumTo(f, n) = s[n]
    BY SumIsASum
<1> DEFINE S == {k \in 0..n : s[k] = 0}
<1>2. 0 \in S
    BY <1>1
<1>3. ASSUME NEW k \in 0..(n - 1), k \in S
      PROVE  k + 1 \in S
    <2>1. k + 1 \in 1..n /\ (k + 1) - 1 = k /\ k + 1 \in 0..n
        OBVIOUS
    <2> QED BY <1>1, <1>3, <2>1
<1> HIDE DEF S
<1>4. 0..n \subseteq S
    BY <1>2, <1>3, NatSetInduction
<1> QED BY <1>1, <1>4 DEF S

-----------------------------------------------------------------------------
(* Sparks are placed only for wishes that have a row. *)

\* Every spark of a list is for a wish with a row.
Paid(st, sq) == \A i \in DOMAIN sq : st[sq[i].wish] # "none"

LogsPaid == \A e \in Windows : Paid(status, EpochSparks(e))
RequestsPaid == \A h \in Handlers : req[h].kind = "sparks" => Paid(status, req[h].batch)

\* A row stays.
LEMMA RowsStay ==
    ASSUME IInv, [Next]_vars, NEW w \in Wishes, status'[w] = "none"
    PROVE  status[w] = "none"
<1>1. ASSUME NEW v \in Wishes, Opens(v)
      PROVE  status[w] = "none"
    BY <1>1 DEF Opens, IInv, TypeOK, WishTypes
<1> QED BY <1>1, StatusStep DEF MovesOn

LEMMA StillPaid ==
    ASSUME IInv, [Next]_vars, NEW sq \in Seq(Sparks), Paid(status, sq)
    PROVE  Paid(status', sq)
<1>1. \A i \in DOMAIN sq : sq[i].wish \in Wishes
    <2>1. \A i \in DOMAIN sq : sq[i] \in Sparks
        BY LenProperties, ElementOfSeq
    <2> QED BY <2>1 DEF Sparks
<1> QED BY <1>1, RowsStay DEF Paid

LEMMA PaidConcat ==
    ASSUME NEW s \in Seq(Sparks), NEW t \in Seq(Sparks), Paid(status', s), Paid(status', t)
    PROVE  Paid(status', s \o t)
<1>1. /\ Len(s \o t) = Len(s) + Len(t) /\ DOMAIN (s \o t) = 1..(Len(s) + Len(t))
      /\ \A i \in 1..(Len(s) + Len(t)) :
            (s \o t)[i] = IF i <= Len(s) THEN s[i] ELSE t[i - Len(s)]
    BY ConcatProperties, LenProperties
<1>2. /\ DOMAIN s = 1..Len(s) /\ DOMAIN t = 1..Len(t)
      /\ Len(s) \in Nat /\ Len(t) \in Nat
    BY LenProperties
<1>3. ASSUME NEW i \in DOMAIN (s \o t)
      PROVE  status'[(s \o t)[i].wish] # "none"
    <2>1. CASE i <= Len(s)
        <3>1. i \in DOMAIN s /\ (s \o t)[i] = s[i]
            BY <1>1, <1>2, <2>1
        <3> QED BY <3>1 DEF Paid
    <2>2. CASE ~(i <= Len(s))
        <3>1. i - Len(s) \in DOMAIN t /\ (s \o t)[i] = t[i - Len(s)]
            BY <1>1, <1>2, <2>2
        <3> QED BY <3>1 DEF Paid
    <2> QED BY <2>1, <2>2
<1> QED BY <1>3 DEF Paid

\* What append places comes from the batch.
LEMMA PlacedArePaid ==
    ASSUME NEW ticket, NEW batch \in Seq(Sparks), NEW new \in Placed(ticket, batch), Paid(status', batch)
    PROVE  new \in Seq(Sparks) /\ Paid(status', new)
<1>1. PICK f \in Orders(batch) :
          ToSet(f) = Fresh(ticket, batch) /\ new = [i \in DOMAIN f |-> batch[f[i]]]
    BY DEF Placed
<1>2. \A i \in DOMAIN new : f[i] \in DOMAIN batch /\ new[i] = batch[f[i]]
    BY <1>1 DEF ToSet, Fresh
<1>3. Paid(status', new)
    BY <1>2 DEF Paid
<1> QED BY <1>3, PlacedType

\* What a check passes comes from the request.
LEMMA PassedArePaid ==
    ASSUME NEW r \in Requests, NEW passed \in Passed(r), Paid(status', r.batch)
    PROVE  passed \in Seq(Sparks) /\ Paid(status', passed)
<1> DEFINE good == {i \in DOMAIN r.batch : /\ \A j \in 1..(i - 1) : ~Forged(r.batch[j], r)
                                           /\ Meets(r.batch[i], r.ticket)}
<1>1. PICK f \in Orders(r.batch) :
          ToSet(f) = good /\ passed = [i \in DOMAIN f |-> r.batch[f[i]]]
    BY DEF Passed
<1>2. \A i \in DOMAIN passed : f[i] \in DOMAIN r.batch /\ passed[i] = r.batch[f[i]]
    BY <1>1 DEF ToSet
<1>3. Paid(status', passed)
    BY <1>2 DEF Paid
<1> QED BY <1>3, PassedType

\* Rows placed for wishes with a row.
LEMMA PlacedLogsPaid ==
    ASSUME IInv, [Next]_vars, LogsPaid, NEW new \in Seq(Sparks), Paid(status', new),
           rows' = [rows EXCEPT ![epoch] = @ \o new], logs' = logs
    PROVE  LogsPaid'
<1> SUFFICES ASSUME NEW e \in Windows
             PROVE  Paid(status', EpochSparks(e)')
    BY DEF LogsPaid
<1>1. EpochSparks(e) \in Seq(Sparks)
    BY EpochSparksType DEF IInv, TypeOK
<1>2. Paid(status, EpochSparks(e)) /\ DOMAIN rows = Windows
    BY DEF LogsPaid, IInv, TypeOK, LogTypes
<1>3. EpochSparks(e)' = EpochSparks(e) \/ EpochSparks(e)' = EpochSparks(e) \o new
    BY <1>2 DEF EpochSparks
<1>4. Paid(status', EpochSparks(e))
    BY <1>1, <1>2, StillPaid
<1>5. Paid(status', EpochSparks(e) \o new)
    BY <1>1, <1>4, PaidConcat
<1> QED BY <1>3, <1>4, <1>5

LEMMA NextPaid ==
    ASSUME IInv, WindowInv, LogsPaid, RequestsPaid, [Next]_vars
    PROVE  LogsPaid'
<1>1. CASE SameLogs
    <2>1. ASSUME NEW e \in Windows
          PROVE  Paid(status', EpochSparks(e)')
        <3>1. EpochSparks(e) \in Seq(Sparks) /\ Paid(status, EpochSparks(e))
            BY EpochSparksType DEF LogsPaid, IInv, TypeOK
        <3>2. Paid(status', EpochSparks(e))
            BY <3>1, StillPaid
        <3> QED BY <1>1, <3>2 DEF SameLogs
    <2> QED BY <2>1 DEF LogsPaid
<1>2. ASSUME NEW h \in Handlers, FinishPropose(h)
      PROVE  LogsPaid'
    <2>1. PICK new \in Placed(req[h].ticket, req[h].batch) :
              rows' = [rows EXCEPT ![epoch] = @ \o new] /\ logs' = logs
        BY <1>2 DEF FinishPropose, AppendSparks
    <2>2. req[h].batch \in Seq(Sparks) /\ DOMAIN req[h].batch = {1}
        <3>1. req[h].batch \in Seq(Sparks) /\ Len(req[h].batch) = 1
            BY <1>2 DEF FinishPropose, IInv, TypeOK, RequestTypes, Requests
        <3> QED BY <3>1, LenProperties
    <2>3. status'[req[h].batch[1].wish] = "open"
        BY <1>2, ProposedWish DEF FinishPropose, AddWish, IInv, TypeOK, WishTypes
    <2>4. \A i \in DOMAIN req[h].batch : status'[req[h].batch[i].wish] # "none"
        BY <2>2, <2>3
    <2> DEFINE batch == req[h].batch
    <2>5. batch \in Seq(Sparks) /\ new \in Placed(req[h].ticket, batch)
          /\ \A i \in DOMAIN batch : status'[batch[i].wish] # "none"
        BY <2>2, <2>4
    <2> HIDE DEF batch
    <2>6. new \in Seq(Sparks) /\ Paid(status', new)
        BY <2>5, PlacedArePaid DEF Paid
    <2> QED BY <2>1, <2>6, PlacedLogsPaid
<1>3. ASSUME NEW h \in Handlers, FinishSparks(h) \/ CrashInAppend(h)
      PROVE  LogsPaid'
    <2>1. PICK passed \in Passed(req[h]) : \E new \in Placed(req[h].ticket, passed) :
              rows' = [rows EXCEPT ![epoch] = @ \o new] /\ logs' = logs
        BY <1>3 DEF FinishSparks, CrashInAppend, AppendSparks
    <2>2. PICK new \in Placed(req[h].ticket, passed) :
              rows' = [rows EXCEPT ![epoch] = @ \o new] /\ logs' = logs
        BY <2>1
    <2> DEFINE r == req[h]
    <2>3. /\ r \in Requests /\ r.batch \in Seq(Sparks) /\ Paid(status, r.batch)
          /\ passed \in Passed(r) /\ new \in Placed(r.ticket, passed)
        BY <1>3 DEF FinishSparks, CrashInAppend, RequestsPaid, IInv, TypeOK, RequestTypes, Requests
    <2> HIDE DEF r
    <2>4. Paid(status', r.batch)
        BY <2>3, StillPaid
    <2>5. passed \in Seq(Sparks) /\ Paid(status', passed)
        BY <2>3, <2>4, PassedArePaid
    <2>6. new \in Seq(Sparks) /\ Paid(status', new)
        BY <2>3, <2>5, PlacedArePaid
    <2> QED BY <2>2, <2>6, PlacedLogsPaid
<1>4. CASE Start \/ LoopStep
    BY <1>1, <1>4, LoopLogs
<1>5. ASSUME NEW h \in Handlers, Request(h) \/ Dismiss(h) \/ Faults(h)
      PROVE  SameLogs
    BY <1>5, LogsUntouched DEF Request, BeginPropose, BeginSparks, Dismiss, Faults, AppendFails,
                               ProposeFails, disk
<1>6. CASE Crashes
    <2>1. CASE \/ Crash \/ CrashInRollback \/ CrashInClose
               \/ \E tie \in Ties, shareClosed \in ShareClosed : CrashInSelect(tie, shareClosed)
               \/ \E h \in Handlers : CrashInPropose(h)
        BY <1>1, <2>1, LogsUntouched
            DEF Crash, CrashInRollback, CrashInClose, CrashInSelect, CrashInPropose, disk
    <2> QED BY <1>1, <1>3, <1>6, <2>1, HalfOpenLogs DEF Crashes
<1>7. CASE UNCHANGED vars
    BY <1>1, <1>7, LogsUntouched DEF vars, disk
<1> QED BY <1>1, <1>2, <1>3, <1>4, <1>5, <1>6, <1>7 DEF Next, Respond

LEMMA NextRequestsPaid ==
    ASSUME IInv, RequestsPaid, [Next]_vars
    PROVE  RequestsPaid'
<1> SUFFICES ASSUME NEW h \in Handlers, req'[h].kind = "sparks"
             PROVE  Paid(status', req'[h].batch)
    BY DEF RequestsPaid
<1>1. req[h] \in Requests /\ DOMAIN req = Handlers
    BY DEF IInv, TypeOK, RequestTypes
<1>2. CASE req'[h] = req[h]
    <2>1. req[h].batch \in Seq(Sparks) /\ Paid(status, req[h].batch)
        BY <1>1, <1>2 DEF RequestsPaid, Requests
    <2> QED BY <1>2, <2>1, StillPaid
<1>3. CASE req'[h] = Idle
    BY <1>3 DEF Idle
<1>4. ASSUME NEW g \in Handlers, NEW batch \in Batches, NEW late, BeginSparks(g, batch, late)
      PROVE  Paid(status', req'[h].batch)
    <2>1. CASE g = h
        <3>1. req'[h].batch = batch /\ \A i \in DOMAIN batch : status[batch[i].wish] = "open"
            BY <1>1, <1>4, <2>1 DEF BeginSparks, Precheck
        <3>2. status' = status
            BY <1>4 DEF BeginSparks, disk
        <3> QED BY <3>1, <3>2 DEF Paid
    <2>2. CASE g # h
        BY <1>1, <1>2, <1>4, <2>2 DEF BeginSparks
    <2> QED BY <2>1, <2>2
<1>5. ASSUME NEW g \in Handlers, NEW s, NEW late, BeginPropose(g, s, late)
      PROVE  req'[h] = req[h]
    BY <1>1, <1>5 DEF BeginPropose
<1>6. ASSUME NEW g \in Handlers, Respond(g) \/ Faults(g)
      PROVE  req'[h] = req[h] \/ req'[h] = Idle
    BY <1>1, <1>6 DEF Respond, Faults, Dismiss, FinishPropose, FinishSparks, AppendFails,
                      ProposeFails, Answer
<1>7. CASE Start \/ LoopStep
    <2>1. req' = req
        BY <1>7 DEF Start, LoopStep, Rollback, Resume, Close, Select, Step, RecordMiracles, Publish,
                    SealEpoch, Save, OpenNext, CheckWishes
    <2> QED BY <1>2, <2>1
<1>8. CASE Crashes
    BY <1>2, <1>3, <1>8 DEF Crashes, Crash, CrashInRollback, CrashInOpen, CrashInClose,
                            CrashInSelect, CrashInAppend, CrashInPropose, Die
<1>9. CASE UNCHANGED vars
    BY <1>2, <1>9 DEF vars
<1> QED BY <1>2, <1>3, <1>4, <1>5, <1>6, <1>7, <1>8, <1>9 DEF Next, Request

-----------------------------------------------------------------------------
(* What the closed windows hold for a wish. *)

LEMMA ShareType ==
    ASSUME IInv, DOMAIN logs \subseteq DOMAIN windows, NEW w \in Wishes
    PROVE  /\ Shares(w) \in [1..(MaxEpoch + 1) -> Nat]
           /\ \A e \in DOMAIN logs : /\ Cardinality(SparksFor(w, logs[e])) \in Nat
                                     /\ SparkWeight(windows[e].target) \in Nat
<1>1. ASSUME NEW e \in DOMAIN logs
      PROVE  Cardinality(SparksFor(w, logs[e])) \in Nat /\ SparkWeight(windows[e].target) \in Nat
    <2>1. SparkWeight(windows[e].target) \in Nat
        <3>1. windows[e].target \in Nat \ {0}
            BY DEF IInv, TypeOK, LogTypes, WindowRecords
        <3> QED BY <3>1, ConstantTypes DEF SparkWeight
    <2>2. IsFiniteSet(DOMAIN logs[e])
        BY LenProperties, FS_Interval DEF IInv, TypeOK, LogTypes
    <2>3. SparksFor(w, logs[e]) \in SUBSET DOMAIN logs[e]
        BY DEF SparksFor
    <2> QED BY <2>1, <2>2, <2>3, FS_Subset, FS_CardinalityType
<1>2. \A e \in DOMAIN logs :
          Cardinality(SparksFor(w, logs[e])) * SparkWeight(windows[e].target) \in Nat
    BY <1>1
<1> QED BY <1>1, <1>2 DEF Shares, Windows

\* A wish without a row has earned nothing.
LEMMA NoneEarns ==
    ASSUME IInv, LogsPaid, DOMAIN logs \subseteq DOMAIN windows,
           NEW w \in Wishes, status[w] = "none"
    PROVE  Earned(w) = 0
<1>1. ASSUME NEW e \in 1..(MaxEpoch + 1)
      PROVE  Shares(w)[e] = 0
    <2>1. CASE e \in DOMAIN logs
        <3>1. Paid(status, logs[e])
            BY <2>1 DEF LogsPaid, EpochSparks, Windows
        <3>2. SparksFor(w, logs[e]) = {}
            BY <3>1 DEF Paid, SparksFor
        <3>3. Cardinality(SparksFor(w, logs[e])) = 0
            BY <3>2, FS_EmptySet
        <3>4. SparkWeight(windows[e].target) \in Nat
            BY <2>1, ShareType
        <3> QED BY <2>1, <3>3, <3>4 DEF Shares, Windows
    <2>2. CASE e \notin DOMAIN logs
        BY <2>2 DEF Shares, Windows
    <2> QED BY <2>1, <2>2
<1>2. Shares(w) \in [1..(MaxEpoch + 1) -> Nat] /\ MaxEpoch + 1 \in Nat
    BY ShareType, ConstantTypes
<1> QED BY <1>1, <1>2, SumOfNothing DEF Earned

\* Every packed log belongs to a window.
WindowsKnown == DOMAIN logs \subseteq DOMAIN windows

\* Logs are at most taken back to rows, and targets stay.
LogsReopen ==
    /\ DOMAIN logs' \subseteq DOMAIN logs
    /\ DOMAIN windows \subseteq DOMAIN windows'
    /\ \A e \in DOMAIN logs' : logs'[e] = logs[e] /\ windows'[e].target = windows[e].target

\* No work changes but that of a wish that is added.
WorkStays == \A w \in Wishes : work'[w] = work[w] \/ (status[w] = "none" /\ work'[w] = 0)

LEMMA UntouchedReopens ==
    ASSUME UNCHANGED <<logs, windows>>
    PROVE  LogsReopen
BY DEF LogsReopen

LEMMA OpeningReopens ==
    ASSUME WindowsKnown, NEW e, NEW hash, WindowRow(e, hash),
           UNCHANGED logs \/ BackToRows(e)
    PROVE  LogsReopen
<1>1. DOMAIN windows \subseteq DOMAIN windows' /\ \A d \in DOMAIN windows : windows'[d] = windows[d]
    BY DEF WindowRow, Put
<1>2. DOMAIN logs' \subseteq DOMAIN logs /\ \A d \in DOMAIN logs' : logs'[d] = logs[d]
    BY DEF BackToRows
<1> QED BY <1>1, <1>2 DEF LogsReopen, WindowsKnown

\* Every step but the close of a window.
LEMMA OtherWork ==
    ASSUME IInv, WindowsKnown, [Next]_vars, ~Close
    PROVE  LogsReopen /\ WorkStays
<1>1. ASSUME UNCHANGED work
      PROVE  WorkStays
    BY <1>1 DEF WorkStays
<1>2. CASE Start
    <2>1. CASE Rollback
        BY <1>1, <2>1, UntouchedReopens DEF Rollback
    <2>2. ASSUME NEW failing, Resume(failing)
          PROVE  LogsReopen /\ WorkStays
        <3>1. LogsReopen
            BY <2>2, OpeningReopens DEF Resume, OpenWindow
        <3> QED BY <1>1, <2>2, <3>1 DEF Resume
    <2> QED BY <1>2, <2>1, <2>2 DEF Start
<1>3. CASE LoopStep
    <2>1. CASE OpenNext
        <3>1. LogsReopen
            BY <2>1, OpeningReopens DEF OpenNext, OpenWindow
        <3> QED BY <1>1, <2>1, <3>1 DEF OpenNext
    <2>2. CASE \/ Step \/ RecordMiracles \/ Publish \/ SealEpoch \/ Save
               \/ \E tie \in Ties, shareClosed \in ShareClosed : Select(tie, shareClosed)
               \/ \E failing \in Doomed : CheckWishes(failing)
        <3>1. UNCHANGED <<logs, windows, work>>
            BY <2>2 DEF Step, RecordMiracles, Publish, SealEpoch, Save, Select, CheckWishes, disk
        <3> QED BY <1>1, <3>1, UntouchedReopens
    <2> QED BY <1>3, <2>1, <2>2 DEF LoopStep
<1>4. ASSUME NEW h \in Handlers, Request(h) \/ Respond(h) \/ Faults(h) \/ CrashInPropose(h)
      PROVE  LogsReopen /\ WorkStays
    <2>1. CASE FinishPropose(h) \/ ProposeFails(h) \/ CrashInPropose(h)
        <3>1. UNCHANGED <<logs, windows>> /\ AddWish(req[h].batch[1].wish)
              /\ status[req[h].batch[1].wish] = "none"
            BY <2>1 DEF FinishPropose, ProposeFails, CrashInPropose, StillAdmitted, PrecheckWish
        <3>2. WorkStays
            BY <3>1 DEF WorkStays, AddWish, IInv, TypeOK, WishTypes
        <3> QED BY <3>1, <3>2, UntouchedReopens
    <2>2. CASE Request(h) \/ Dismiss(h) \/ FinishSparks(h) \/ AppendFails(h)
        <3>1. UNCHANGED <<logs, windows, work>>
            BY <2>2 DEF Request, BeginPropose, BeginSparks, Dismiss, FinishSparks, AppendFails,
                        disk, wishTable
        <3> QED BY <1>1, <3>1, UntouchedReopens
    <2> QED BY <1>4, <2>1, <2>2 DEF Respond, Faults
<1>5. CASE Crashes
    <2>1. CASE CrashInOpen
        <3>1. LogsReopen
            BY <2>1, OpeningReopens DEF CrashInOpen
        <3> QED BY <1>1, <2>1, <3>1 DEF CrashInOpen, wishTable
    <2>2. CASE \/ Crash \/ CrashInRollback \/ CrashInClose
               \/ \E tie \in Ties, shareClosed \in ShareClosed : CrashInSelect(tie, shareClosed)
               \/ \E h \in Handlers : CrashInAppend(h)
        <3>1. UNCHANGED <<logs, windows, work>>
            BY <2>2 DEF Crash, CrashInRollback, CrashInClose, CrashInSelect, CrashInAppend, disk,
                        wishTable
        <3> QED BY <1>1, <3>1, UntouchedReopens
    <2> QED BY <1>4, <1>5, <2>1, <2>2 DEF Crashes
<1>6. CASE UNCHANGED vars
    BY <1>1, <1>6, UntouchedReopens DEF vars, disk
<1> QED BY <1>2, <1>3, <1>4, <1>5, <1>6 DEF Next, LoopStep

\* A window that closes adds the same to the work of a wish and to what the
\* closed windows hold for it.
LEMMA CloseCounts ==
    ASSUME IInv, WindowInv, LogsPaid, WindowsKnown, Close, NEW w \in Wishes
    PROVE  /\ WindowsKnown'
           /\ \E d \in Nat : work'[w] = work[w] + d /\ Earned(w)' = Earned(w) + d
<1>1. /\ open /\ epoch \in Windows /\ epoch \notin DOMAIN logs /\ epoch \in DOMAIN windows
      /\ EpochSparks(epoch) = rows[epoch]
    BY OpenWindowIsOne, OpenWindowHasRow DEF Close, CloseWindow, WindowInv, EpochSparks
<1> DEFINE mine == Cardinality(SparksFor(w, rows[epoch]))
           each == SparkWeight(windows[epoch].target)
           d == mine * each
<1>2. mine \in Nat /\ each \in Nat
    <2>1. windows[epoch].target \in Nat \ {0}
        BY <1>1 DEF IInv, TypeOK, LogTypes, WindowRecords
    <2>2. each \in Nat
        BY <2>1, ConstantTypes DEF SparkWeight
    <2>3. IsFiniteSet(DOMAIN rows[epoch])
        BY <1>1, LenProperties, FS_Interval DEF IInv, TypeOK, LogTypes
    <2>4. SparksFor(w, rows[epoch]) \in SUBSET DOMAIN rows[epoch]
        BY DEF SparksFor
    <2> QED BY <2>2, <2>3, <2>4, FS_Subset, FS_CardinalityType
<1>3. d \in Nat
    BY <1>2
<1>4. status[w] = "none" => d = 0
    <2> SUFFICES ASSUME status[w] = "none" PROVE d = 0
        OBVIOUS
    <2>1. SparksFor(w, rows[epoch]) = {}
        BY <1>1 DEF LogsPaid, Paid, SparksFor
    <2>2. mine = 0
        BY <2>1, FS_EmptySet
    <2> QED BY <1>2, <2>2
<1>5. work'[w] = work[w] + d
    <2>1. work' = WorkWith(rows[epoch], each)
        BY DEF Close, CloseWindow
    <2>2. work'[w] = IF status[w] = "none" THEN work[w] ELSE work[w] + d
        BY <2>1 DEF WorkWith
    <2>3. work[w] \in Nat
        BY DEF IInv, TypeOK, WishTypes
    <2> QED BY <1>4, <2>2, <2>3
<1>6. /\ logs' = Put(logs, epoch, rows[epoch])
      /\ windows' = [windows EXCEPT ![epoch].accepted = Len(leaves)]
    BY DEF Close, CloseWindow
<1>7. \A e \in DOMAIN windows : windows'[e].target = windows[e].target
    <2>1. \A e \in DOMAIN windows : windows[e] \in WindowRecords
        BY DEF IInv, TypeOK, LogTypes
    <2> QED BY <1>6, <2>1 DEF WindowRecords
<1>8. DOMAIN logs' = DOMAIN logs \cup {epoch} /\ DOMAIN windows' = DOMAIN windows
    BY <1>6 DEF Put
<1>9. \A e \in Windows : Shares(w)'[e] = IF e = epoch THEN Shares(w)[e] + d ELSE Shares(w)[e]
    <2> SUFFICES ASSUME NEW e \in Windows
                 PROVE  Shares(w)'[e] = IF e = epoch THEN Shares(w)[e] + d ELSE Shares(w)[e]
        OBVIOUS
    <2>1. CASE e = epoch
        <3>1. Shares(w)[e] = 0
            BY <1>1, <2>1 DEF Shares
        <3>2. logs'[e] = rows[epoch] /\ windows'[e].target = windows[epoch].target
            BY <1>1, <1>6, <1>7, <2>1 DEF Put
        <3>3. Shares(w)'[e] = Cardinality(SparksFor(w, logs'[e])) * SparkWeight(windows'[e].target)
            BY <1>8, <2>1 DEF Shares
        <3>4. Shares(w)'[e] = d
            BY <3>2, <3>3
        <3> QED BY <1>3, <2>1, <3>1, <3>4
    <2>2. CASE e # epoch /\ e \in DOMAIN logs
        <3>1. logs'[e] = logs[e] /\ windows'[e].target = windows[e].target /\ e \in DOMAIN logs'
            BY <1>6, <1>7, <1>8, <2>2 DEF Put, WindowsKnown
        <3> QED BY <2>2, <3>1 DEF Shares
    <2>3. CASE e # epoch /\ e \notin DOMAIN logs
        BY <1>8, <2>3 DEF Shares
    <2> QED BY <2>1, <2>2, <2>3
<1> HIDE DEF d
<1>10. /\ Shares(w) \in [1..(MaxEpoch + 1) -> Nat] /\ MaxEpoch + 1 \in Nat
       /\ Windows = 1..(MaxEpoch + 1)
    BY ShareType, ConstantTypes DEF WindowsKnown, Windows
<1>11. Shares(w)' \in [1..(MaxEpoch + 1) -> Nat]
    <2>1. \A e \in Windows : Shares(w)'[e] \in Nat
        BY <1>3, <1>9, <1>10
    <2>2. Shares(w)' = [e \in Windows |-> Shares(w)'[e]]
        BY DEF Shares
    <2> QED BY <1>10, <2>1, <2>2
<1>12. SumTo(Shares(w)', MaxEpoch + 1) = SumTo(Shares(w), MaxEpoch + 1) + d
    <2>1. PICK f, g : f = Shares(w) /\ g = Shares(w)'
        OBVIOUS
    <2>2. \A k \in 1..(MaxEpoch + 1) : g[k] = IF k = epoch THEN f[k] + d ELSE f[k]
        BY <1>9, <1>10, <2>1
    <2>3. f \in [1..(MaxEpoch + 1) -> Nat] /\ g \in [1..(MaxEpoch + 1) -> Nat]
        BY <1>10, <1>11, <2>1
    <2>4. MaxEpoch + 1 \in Nat /\ epoch \in 1..(MaxEpoch + 1) /\ d \in Nat
        BY <1>1, <1>3, <1>10
    <2>5. SumTo(g, MaxEpoch + 1) = SumTo(f, MaxEpoch + 1) + d
        BY <2>2, <2>3, <2>4, SumPlus
    <2> QED BY <2>1, <2>5
<1>13. Earned(w)' = Earned(w) + d
    BY <1>12 DEF Earned
<1>14. WindowsKnown'
    BY <1>1, <1>8 DEF WindowsKnown
<1> QED BY <1>3, <1>5, <1>13, <1>14

\* What is taken back to rows is not held any more; nothing else changes.
LEMMA OthersHold ==
    ASSUME IInv, WindowsKnown, LogsReopen, NEW w \in Wishes
    PROVE  /\ WindowsKnown'
           /\ Earned(w)' \in Nat /\ Earned(w) \in Nat /\ Earned(w)' <= Earned(w)
           /\ DOMAIN logs' = DOMAIN logs => Earned(w)' = Earned(w)
<1>1. /\ Shares(w) \in [1..(MaxEpoch + 1) -> Nat] /\ MaxEpoch + 1 \in Nat
      /\ Windows = 1..(MaxEpoch + 1)
    BY ShareType, ConstantTypes DEF WindowsKnown, Windows
<1>2. ASSUME NEW e \in Windows
      PROVE  \/ Shares(w)'[e] = Shares(w)[e]
             \/ Shares(w)'[e] = 0 /\ e \in DOMAIN logs \ DOMAIN logs'
    BY DEF Shares, LogsReopen
<1>3. Shares(w)' = [e \in Windows |-> Shares(w)'[e]] /\ Shares(w) = [e \in Windows |-> Shares(w)[e]]
    BY DEF Shares
<1>4. /\ Shares(w)' \in [1..(MaxEpoch + 1) -> Nat]
      /\ \A e \in 1..(MaxEpoch + 1) : Shares(w)'[e] <= Shares(w)[e]
    BY <1>1, <1>2, <1>3
<1>5. SumTo(Shares(w)', MaxEpoch + 1) <= SumTo(Shares(w), MaxEpoch + 1)
    BY <1>1, <1>4, SumAtMost
<1>6. SumTo(Shares(w)', MaxEpoch + 1) \in Nat /\ SumTo(Shares(w), MaxEpoch + 1) \in Nat
    BY <1>1, <1>4, SumIsNatural
<1>7. DOMAIN logs' = DOMAIN logs => Shares(w)' = Shares(w)
    BY <1>2, <1>3
<1>8. WindowsKnown'
    BY DEF WindowsKnown, LogsReopen
<1> QED BY <1>5, <1>6, <1>7, <1>8 DEF Earned

LEMMA NextWindowsKnown ==
    ASSUME IInv, WindowInv, LogsPaid, WindowsKnown, [Next]_vars
    PROVE  WindowsKnown'
<1>1. CASE ~Close
    <2>1. LogsReopen
        BY <1>1, OtherWork
    <2> QED BY <2>1 DEF LogsReopen, WindowsKnown
<1>2. CASE Close
    <2>1. epoch \in DOMAIN windows
        BY <1>2, OpenWindowHasRow DEF Close, CloseWindow
    <2>2. DOMAIN logs' = DOMAIN logs \cup {epoch} /\ DOMAIN windows' = DOMAIN windows
        BY <1>2 DEF Close, CloseWindow, Put
    <2> QED BY <2>1, <2>2 DEF WindowsKnown
<1> QED BY <1>1, <1>2

LEMMA NextNoWorkLost ==
    ASSUME IInv, WindowInv, LogsPaid, WindowsKnown, NoWorkLost, [Next]_vars
    PROVE  NoWorkLost'
<1> SUFFICES ASSUME NEW w \in Wishes
             PROVE  work'[w] >= Earned(w)'
    BY DEF NoWorkLost
<1>1. work[w] \in Nat /\ work[w] >= Earned(w) /\ Earned(w) \in Nat
    <2>1. MaxEpoch + 1 \in Nat /\ Shares(w) \in [1..(MaxEpoch + 1) -> Nat]
        BY ShareType, ConstantTypes DEF WindowsKnown
    <2> QED BY <2>1, SumIsNatural DEF IInv, TypeOK, WishTypes, NoWorkLost, Earned
<1>2. CASE Close
    <2>1. PICK d \in Nat : work'[w] = work[w] + d /\ Earned(w)' = Earned(w) + d
        BY <1>2, CloseCounts
    <2> QED BY <1>1, <2>1
<1>3. CASE ~Close
    <2>1. LogsReopen /\ WorkStays
        BY <1>3, OtherWork
    <2>2. Earned(w)' \in Nat /\ Earned(w)' <= Earned(w)
        BY <2>1, OthersHold
    <2>3. status[w] = "none" => Earned(w) = 0
        BY NoneEarns DEF WindowsKnown
    <2>4. CASE work'[w] = work[w]
        BY <1>1, <2>2, <2>4
    <2>5. CASE status[w] = "none" /\ work'[w] = 0
        BY <2>2, <2>3, <2>5
    <2> QED BY <2>1, <2>4, <2>5 DEF WorkStays
<1> QED BY <1>2, <1>3

-----------------------------------------------------------------------------
(* Work is counted once while the process lives. *)

\* Before the first window has opened there is none, and the process that
\* opened it is the first.
FirstRun ==
    /\ pc # "down" => boots >= 1
    /\ pc \in {"down", "starting"} => DOMAIN windows = {}

LEMMA NextFirstRun ==
    ASSUME MaxBoots = 1, IInv, FirstRun, [Next]_vars
    PROVE  FirstRun'
<1>1. boots \in Nat
    BY ConstantTypes DEF IInv, TypeOK, WorldTypes
<1>2. pc # "down" => ~Die
    BY <1>1 DEF FirstRun, Die
<1>3. CASE Start
    BY <1>1, <1>3 DEF Start, Rollback, Resume, FirstRun
<1>4. CASE LoopStep
    <2>1. pc \notin {"down", "starting"} /\ pc' \notin {"down", "starting"} /\ boots' = boots
        BY <1>4 DEF LoopStep, Close, Select, Step, RecordMiracles, Publish, SealEpoch, Save, OpenNext,
                    CheckWishes
    <2> QED BY <2>1 DEF FirstRun
<1>5. ASSUME NEW h \in Handlers, Request(h) \/ Respond(h) \/ Faults(h)
      PROVE  FirstRun'
    <2>1. UNCHANGED <<pc, boots, windows>>
        BY <1>5 DEF Request, BeginPropose, BeginSparks, Respond, Dismiss, FinishPropose,
                    FinishSparks, Faults, AppendFails, ProposeFails, disk
    <2> QED BY <2>1 DEF FirstRun
<1>6. CASE Crashes
    <2>1. CASE CrashInRollback
        BY <2>1 DEF CrashInRollback, FirstRun
    <2>2. CASE \/ Crash \/ CrashInOpen \/ CrashInClose
               \/ \E tie \in Ties, shareClosed \in ShareClosed : CrashInSelect(tie, shareClosed)
        BY <1>2, <2>2 DEF Crash, CrashInOpen, CrashInClose, CrashInSelect
    <2>3. ASSUME NEW h \in Handlers, CrashInAppend(h) \/ CrashInPropose(h)
          PROVE  FirstRun'
        <3>1. pc # "down"
            <4>1. CASE CrashInAppend(h)
                <5>1. PICK passed \in Passed(req[h]) : \E new \in Placed(req[h].ticket, passed) :
                          new # <<>>
                    BY <4>1 DEF CrashInAppend
                <5>2. PICK new \in Placed(req[h].ticket, passed) : new # <<>>
                    BY <5>1
                <5>3. passed \in Seq(Sparks) /\ \A i \in DOMAIN passed : passed[i].mined = req[h].ticket
                    BY PassedType, PassedMeet DEF IInv, TypeOK, RequestTypes
                <5>4. open
                    BY <5>2, <5>3, PlacedSparks
                <5> QED BY <5>4 DEF IInv, LoopInStep
            <4>2. CASE CrashInPropose(h)
                BY <4>2 DEF CrashInPropose, StillAdmitted, PrecheckWish, IInv, LoopInStep
            <4> QED BY <2>3, <4>1, <4>2
        <3> QED BY <1>2, <2>3, <3>1 DEF CrashInAppend, CrashInPropose
    <2> QED BY <1>6, <2>1, <2>2, <2>3 DEF Crashes
<1>7. CASE UNCHANGED vars
    BY <1>7 DEF vars, disk, FirstRun
<1> QED BY <1>3, <1>4, <1>5, <1>6, <1>7 DEF Next

\* In the first run of the process no log is ever taken back.
LEMMA FirstRunKeepsLogs ==
    ASSUME IInv, FirstRun, WindowsKnown, [Next]_vars, ~Close, LogsReopen,
           ~CrashInOpen
    PROVE  DOMAIN logs' = DOMAIN logs
<1>1. CASE UNCHANGED logs
    BY <1>1
<1>2. ASSUME NEW failing, Resume(failing)
      PROVE  UNCHANGED DOMAIN logs
    <2>1. DOMAIN logs = {}
        BY <1>2 DEF Resume, FirstRun, WindowsKnown
    <2> QED BY <2>1 DEF LogsReopen
<1>3. CASE OpenNext
    <2>1. Len(run) \in Nat /\ WindowsTo(Len(run))
        BY <1>3, LenProperties DEF OpenNext, IInv, TypeOK, WorldTypes, LoopInStep
    <2>2. Len(run) + 1 \notin DOMAIN logs
        BY <2>1 DEF WindowsTo, WindowsKnown
    <2>3. DOMAIN logs' = DOMAIN logs \ {Len(run) + 1}
        BY <1>3 DEF OpenNext, OpenWindow, BackToRows
    <2> QED BY <2>2, <2>3
<1>4. CASE \/ Rollback \/ Step \/ RecordMiracles \/ Publish \/ SealEpoch \/ Save
           \/ \E tie \in Ties, shareClosed \in ShareClosed : Select(tie, shareClosed)
           \/ \E failing \in Doomed : CheckWishes(failing)
    BY <1>1, <1>4
        DEF Rollback, Step, RecordMiracles, Publish, SealEpoch, Save, Select, CheckWishes, disk
<1>5. ASSUME NEW h \in Handlers, Request(h) \/ Respond(h) \/ Faults(h)
      PROVE  UNCHANGED logs
    BY <1>5 DEF Request, BeginPropose, BeginSparks, Respond, Dismiss, FinishPropose, FinishSparks,
                Faults, AppendFails, ProposeFails, disk
<1>6. CASE Crashes
    BY <1>1, <1>6 DEF Crashes, Crash, CrashInRollback, CrashInClose, CrashInSelect, CrashInAppend,
                      CrashInPropose, disk
<1>7. CASE UNCHANGED vars
    BY <1>1, <1>7 DEF vars, disk
<1> QED BY <1>1, <1>2, <1>3, <1>4, <1>5, <1>6, <1>7 DEF Next, Start, LoopStep

LEMMA NextWorkCountedOnce ==
    ASSUME MaxBoots = 1, IInv, WindowInv, LogsPaid, WindowsKnown, FirstRun, WorkCountedOnce,
           [Next]_vars
    PROVE  WorkCountedOnce'
<1> SUFFICES ASSUME NEW w \in Wishes
             PROVE  work'[w] = Earned(w)'
    BY DEF WorkCountedOnce
<1>1. work[w] = Earned(w)
    BY DEF WorkCountedOnce
<1>2. CASE Close
    <2>1. PICK d \in Nat : work'[w] = work[w] + d /\ Earned(w)' = Earned(w) + d
        BY <1>2, CloseCounts
    <2> QED BY <1>1, <2>1
<1>3. CASE ~Close
    <2>1. LogsReopen /\ WorkStays
        BY <1>3, OtherWork
    <2>2. ~CrashInOpen
        <3>1. boots \in Nat
            BY ConstantTypes DEF IInv, TypeOK, WorldTypes
        <3>2. CrashInOpen => pc # "down" /\ boots < MaxBoots
            BY DEF CrashInOpen, Die
        <3> QED BY <3>1, <3>2 DEF FirstRun
    <2>3. Earned(w)' = Earned(w)
        BY <1>3, <2>1, <2>2, OthersHold, FirstRunKeepsLogs
    <2>4. status[w] = "none" => Earned(w) = 0
        BY NoneEarns DEF WindowsKnown
    <2>5. work'[w] = work[w] \/ (status[w] = "none" /\ work'[w] = 0)
        BY <2>1 DEF WorkStays
    <2> QED BY <1>1, <2>3, <2>4, <2>5
<1> QED BY <1>2, <1>3

-----------------------------------------------------------------------------
(* Theorems. *)

LEMMA InitWork ==
    ASSUME Init
    PROVE  LogsPaid /\ RequestsPaid /\ WindowsKnown /\ FirstRun
           /\ \A w \in Wishes : work[w] = 0 /\ Earned(w) = 0
<1>1. DOMAIN logs = {} /\ DOMAIN windows = {} /\ \A e \in Windows : EpochSparks(e) = <<>>
    BY DEF Init, IntakeInit, EpochSparks
<1>2. LogsPaid
    BY <1>1 DEF LogsPaid, Paid
<1>3. RequestsPaid
    BY DEF Init, RequestsPaid, Idle
<1>4. WindowsKnown /\ FirstRun
    BY <1>1 DEF Init, WindowsKnown, FirstRun
<1>5. ASSUME NEW w \in Wishes
      PROVE  work[w] = 0 /\ Earned(w) = 0
    <2>1. status[w] = "none" /\ work[w] = 0
        BY DEF Init, IntakeInit
    <2> QED BY <1>2, <1>4, <2>1, InitIInv, NoneEarns DEF WindowsKnown
<1> QED BY <1>2, <1>3, <1>4, <1>5

\* Whenever the process ends, and however often it starts again, the work of a
\* wish covers every spark that a closed window holds for it.
THEOREM WorkIsNeverLost == Safe => []NoWorkLost
<1>1. Init => IInv /\ WindowInv /\ LogsPaid /\ RequestsPaid /\ WindowsKnown /\ NoWorkLost
    BY InitIInv, InitLogs, InitWork DEF NoWorkLost
<1>2. IInv /\ WindowInv /\ LogsPaid /\ RequestsPaid /\ WindowsKnown /\ NoWorkLost /\ [Next]_vars
          => IInv' /\ WindowInv' /\ LogsPaid' /\ RequestsPaid' /\ WindowsKnown' /\ NoWorkLost'
    BY NextIInv, NextWindowInv, NextPaid, NextRequestsPaid, NextWindowsKnown, NextNoWorkLost
<1> QED BY <1>1, <1>2, PTL DEF Safe

\* While the process has not been started again, the work of a wish is exactly
\* the weight of its sparks in the closed windows: only a restart can count a
\* window twice.
THEOREM WorkIsCountedOnce ==
    ASSUME MaxBoots = 1
    PROVE  Safe => []WorkCountedOnce
<1> DEFINE Inv == /\ IInv /\ WindowInv /\ LogsPaid /\ RequestsPaid /\ WindowsKnown
                  /\ FirstRun /\ WorkCountedOnce
<1>1. Init => Inv
    BY InitIInv, InitLogs, InitWork DEF WorkCountedOnce
<1>2. Inv /\ [Next]_vars => Inv'
    BY NextIInv, NextWindowInv, NextPaid, NextRequestsPaid, NextWindowsKnown, NextFirstRun,
       NextWorkCountedOnce
<1>3. Inv => WorkCountedOnce
    OBVIOUS
<1> HIDE DEF Inv
<1> QED BY <1>1, <1>2, <1>3, PTL DEF Safe

-----------------------------------------------------------------------------
(* What a wish is given: once, and as the ledger says. *)

AppliedIn(sq, w) == \E i \in DOMAIN sq : sq[i] = [wish |-> w, outcome |-> "applied"]
OneEach(sq) == \A i, j \in DOMAIN sq : sq[i].wish = sq[j].wish => i = j

\* An epoch holds a wish once.
MiraclesOneEach == \A d \in 1..MaxEpoch : Len(miracles[d]) <= PER_EPOCH /\ OneEach(miracles[d])

\* What the loop has selected waits for its outcome, whatever requests do.
ChosenInHand ==
    /\ pc = "step" =>
          /\ Len(selected) <= PER_EPOCH
          /\ \A i \in DOMAIN selected : status[selected[i]] = "selected"
          /\ \A i, j \in DOMAIN selected : selected[i] = selected[j] => i = j
    /\ pc = "record" =>
          /\ Len(given) <= PER_EPOCH
          /\ \A i \in DOMAIN given : status[given[i].wish] = "selected"
          /\ OneEach(given)

\* A wish that took effect is executed in that epoch, and the other way round,
\* except that a restart that ended early may have forgotten miracles after the
\* snapshot already.
TookEffect ==
    \A w \in Wishes :
        /\ \A d \in 1..MaxEpoch :
              AppliedIn(miracles[d], w) => status[w] = "executed" /\ executedIn[w] = d
        /\ status[w] = "executed" <=> executedIn[w] # NULL
        /\ status[w] = "executed" /\ (pc # "down" \/ executedIn[w] <= Len(snapshot)) =>
              AppliedIn(miracles[executedIn[w]], w)

\* The candidates of an epoch can be ranked, and name wishes that are queued.
LEMMA CandidatesAreRankable ==
    ASSUME work \in [Wishes -> Nat], NEW W \in SUBSET Wishes, NEW tie \in Ties
    PROVE  Rankable({Candidate(w) : w \in W}, tie)
<1> DEFINE f == [w \in W |-> Candidate(w)]
           candidates == {Candidate(w) : w \in W}
<1>1. IsFiniteSet(candidates)
    <2>1. IsFiniteSet(W)
        BY IntakeAssumption, FS_Subset
    <2>2. f \in Surjection(W, candidates)
        BY DEF Surjection
    <2> HIDE DEF f, candidates
    <2> QED BY <2>1, <2>2, FS_Surjection
<1>2. ASSUME NEW w \in W
      PROVE  IsCandidate(Candidate(w)) /\ tie[Candidate(w).id] \in Int
    BY ChoiceAssumption DEF IsCandidate, Candidate
<1>3. ASSUME NEW v \in W, NEW w \in W, Candidate(v) # Candidate(w)
      PROVE  tie[Candidate(v).id] # tie[Candidate(w).id]
    BY <1>3, ChoiceAssumption DEF Candidate
<1> QED BY <1>1, <1>2, <1>3 DEF Rankable

LEMMA NamesOfASequence ==
    ASSUME NEW R, NEW Q, \A c \in R : c.id \in Q, NEW s \in Seq(R),
           NEW names, names = [i \in DOMAIN s |-> s[i].id]
    PROVE  names \in Seq(Q) /\ Len(names) = Len(s)
<1>1. DOMAIN s = 1..Len(s) /\ Len(s) \in Nat /\ \A i \in 1..Len(s) : s[i] \in R
    BY LenProperties, ElementOfSeq
<1>2. names \in [1..Len(s) -> Q]
    BY <1>1
<1>3. names \in Seq(Q)
    BY <1>1, <1>2, SeqDef
<1> QED BY <1>1, <1>2, <1>3, LenProperties

\* What the ledger chooses: queued wishes, no more than an epoch takes, each
\* once.
LEMMA ChosenAreQueued ==
    ASSUME work \in [Wishes -> Nat], NEW tie \in Ties, NEW closed,
           NEW chosen, chosen = Choice(tie, closed)
    PROVE  /\ chosen.selected \in Seq(Queue) /\ chosen.ready \in Seq(Queue)
           /\ Len(chosen.selected) <= PER_EPOCH
           /\ \A i, j \in DOMAIN chosen.selected :
                 chosen.selected[i] = chosen.selected[j] => i = j
<1> DEFINE C == {Candidate(w) : w \in Queue \ closed}
           R == Ready(C, CurrentPrice)
           ready == Ranked(R, tie)
           taken == Walked(ready)
<1>1. Rankable(C, tie)
    BY CandidatesAreRankable DEF Queue
<1>2. R \subseteq C /\ Rankable(R, tie)
    BY <1>1, ReadyIsRankable
<1>3. /\ chosen.ready = [i \in DOMAIN ready |-> ready[i].id]
      /\ chosen.selected = [i \in DOMAIN taken |-> taken[i].id]
    BY DEF Choice, select
<1>4. \A c, d \in R : c.id \in Queue /\ (c.id = d.id => c = d)
    BY <1>2 DEF Candidate
<1> HIDE DEF C, R
<1>5. ready \in Seq(R)
    BY <1>2, RankedSorts
<1>6. /\ taken \in Seq(R)
      /\ \A i, j \in 1..Len(taken) : i # j => taken[i] # taken[j]
      /\ IsFairChoice(ToSet(taken), R, tie)
    BY <1>2, WalkedIsFair
<1> HIDE DEF ready, taken
<1>7. Len(taken) <= PER_EPOCH
    <2>1. Cardinality(ToSet(taken)) = Len(taken)
        BY <1>6, MembersOfASequence
    <2> QED BY <1>6, <2>1 DEF IsFairChoice
<1>8. chosen.ready \in Seq(Queue)
    BY <1>3, <1>4, <1>5, NamesOfASequence
<1>9. chosen.selected \in Seq(Queue) /\ Len(chosen.selected) = Len(taken)
    BY <1>3, <1>4, <1>6, NamesOfASequence
<1>10. ASSUME NEW i \in DOMAIN chosen.selected, NEW j \in DOMAIN chosen.selected,
              chosen.selected[i] = chosen.selected[j]
       PROVE  i = j
    <2>1. DOMAIN taken = 1..Len(taken) /\ i \in DOMAIN taken /\ j \in DOMAIN taken
        BY <1>3, <1>6, LenProperties
    <2>2. taken[i] \in R /\ taken[j] \in R /\ taken[i].id = taken[j].id
        BY <1>3, <1>6, <1>10, <2>1, ElementOfSeq
    <2> QED BY <1>4, <1>6, <2>1, <2>2
<1> QED BY <1>7, <1>8, <1>9, <1>10

\* The updates of a selection reach only queued wishes.
LEMMA WritesReachTheQueue ==
    ASSUME NEW tie \in Ties, NEW closed, work \in [Wishes -> Nat], NEW n,
           status' = StatusWrites(Choice(tie, closed), n), NEW w \in Wishes
    PROVE  \/ status'[w] = status[w]
           \/ status[w] \in {"open", "ready"} /\ status'[w] \in {"ready", "selected"}
<1> DEFINE chosen == Choice(tie, closed)
           First(sq, m) == {sq[i] : i \in {j \in DOMAIN sq : j <= m}}
           ready == First(chosen.ready, n)
           taken == First(chosen.selected, n - Len(chosen.ready))
<1>1. chosen.selected \in Seq(Queue) /\ chosen.ready \in Seq(Queue)
    BY ChosenAreQueued
<1>2. status'[w] = CASE w \in taken -> "selected"
                     [] w \in ready \ taken -> "ready"
                     [] OTHER -> status[w]
    BY DEF StatusWrites
<1> HIDE DEF chosen
<1>3. \A sq \in Seq(Queue) : \A i \in DOMAIN sq : sq[i] \in Queue
    BY LenProperties, ElementOfSeq
<1>4. w \in taken \/ w \in ready => w \in Queue
    BY <1>1, <1>3
<1> HIDE DEF ready, taken
<1> QED BY <1>2, <1>4 DEF Queue

\* Only a record and a restart decide about a wish that is selected or executed.
LEMMA VerdictsStay ==
    ASSUME IInv, [Next]_vars, ~Rollback, ~RecordMiracles, NEW w \in Wishes
    PROVE  /\ executedIn'[w] = executedIn[w]
           /\ status'[w] = "executed" <=> status[w] = "executed"
           /\ status[w] = "selected" => status'[w] = "selected"
<1> USE DEF IInv, TypeOK
<1>1. ASSUME UNCHANGED <<status, executedIn>>
      PROVE  /\ executedIn'[w] = executedIn[w] /\ status'[w] = status[w]
    BY <1>1
<1>2. ASSUME NEW S, NEW st \in {"expired", "invalidated"}, \A v \in S : status[v] \in {"open", "ready"},
             status' = WithStatus(S, st)
      PROVE  /\ status'[w] = "executed" <=> status[w] = "executed"
             /\ status[w] = "selected" => status'[w] = "selected"
    BY <1>2 DEF WithStatus
<1>3. ASSUME NEW failing, Resume(failing) \/ CheckWishes(failing)
      PROVE  /\ executedIn' = executedIn
             /\ status'[w] = "executed" <=> status[w] = "executed"
             /\ status[w] = "selected" => status'[w] = "selected"
    <2>1. executedIn' = executedIn /\ status' = WithStatus(Hopeless(failing), "invalidated")
        BY <1>3 DEF Resume, CheckWishes, SoftCheck
    <2>2. \A v \in Hopeless(failing) : status[v] \in {"open", "ready"}
        BY DEF Hopeless, Queue
    <2> QED BY <1>2, <2>1, <2>2
<1>4. CASE Close
    <2>1. executedIn' = executedIn /\ status' = WithStatus(Expiring(epoch), "expired")
        BY <1>4 DEF Close, CloseWindow
    <2>2. \A v \in Expiring(epoch) : status[v] \in {"open", "ready"}
        BY DEF Expiring
    <2> QED BY <1>2, <2>1, <2>2
<1>5. ASSUME NEW tie \in Ties, NEW closed, Select(tie, closed) \/ CrashInSelect(tie, closed)
      PROVE  /\ executedIn' = executedIn
             /\ status'[w] = "executed" <=> status[w] = "executed"
             /\ status[w] = "selected" => status'[w] = "selected"
    <2>1. executedIn' = executedIn /\ \E n : status' = StatusWrites(Choice(tie, closed), n)
        BY <1>5 DEF Select, SelectMiracles, CrashInSelect
    <2>2. work \in [Wishes -> Nat]
        BY DEF WishTypes
    <2>3. \/ status'[w] = status[w]
          \/ status[w] \in {"open", "ready"} /\ status'[w] \in {"ready", "selected"}
        BY <2>1, <2>2, WritesReachTheQueue
    <2> QED BY <2>1, <2>3
<1>6. CASE Step \/ Publish \/ SealEpoch \/ Save \/ OpenNext
    BY <1>1, <1>6 DEF Step, Publish, SealEpoch, Save, OpenNext, disk
<1>7. ASSUME NEW h \in Handlers, FinishPropose(h) \/ ProposeFails(h) \/ CrashInPropose(h)
      PROVE  /\ executedIn' = executedIn
             /\ status'[w] = "executed" <=> status[w] = "executed"
             /\ status[w] = "selected" => status'[w] = "selected"
    <2>1. executedIn' = executedIn /\ \E v : status[v] = "none" /\ status' = [status EXCEPT ![v] = "open"]
        BY <1>7 DEF FinishPropose, ProposeFails, CrashInPropose, AddWish, StillAdmitted, PrecheckWish
    <2> QED BY <2>1 DEF WishTypes
<1>8. ASSUME NEW h \in Handlers, \/ Request(h) \/ Dismiss(h) \/ FinishSparks(h) \/ AppendFails(h)
                                 \/ CrashInAppend(h)
      PROVE  UNCHANGED <<status, executedIn>>
    BY <1>8 DEF Request, BeginPropose, BeginSparks, Dismiss, FinishSparks, AppendFails,
                CrashInAppend, disk, wishTable
<1>9. CASE Crash \/ CrashInRollback \/ CrashInOpen \/ CrashInClose
    BY <1>1, <1>9 DEF Crash, CrashInRollback, CrashInOpen, CrashInClose, disk, wishTable
<1>10. CASE UNCHANGED vars
    BY <1>1, <1>10 DEF vars, disk
<1> QED BY <1>1, <1>3, <1>4, <1>5, <1>6, <1>7, <1>8, <1>9, <1>10
        DEF Next, Start, LoopStep, Respond, Faults, Crashes

\* The record of an epoch: its miracles, and what they say of their wishes.
LEMMA WhatIsRecorded ==
    ASSUME IInv, NothingAhead, ChosenInHand, RecordMiracles, NEW k, k = Len(run)
    PROVE  /\ k \in 1..MaxEpoch
           /\ \A d \in 1..MaxEpoch : miracles'[d] = IF d = k THEN given ELSE miracles[d]
           /\ \A w \in Wishes :
                 \/ /\ \A i \in DOMAIN given : given[i].wish # w
                    /\ status'[w] = status[w] /\ executedIn'[w] = executedIn[w]
                 \/ /\ status[w] = "selected" /\ AppliedIn(given, w)
                    /\ status'[w] = "executed" /\ executedIn'[w] = k
                 \/ /\ status[w] = "selected" /\ ~AppliedIn(given, w)
                    /\ status'[w] # "executed" /\ executedIn'[w] = NULL
<1> USE DEF IInv, TypeOK
<1> DEFINE Outcome(w) == given[CHOOSE i \in DOMAIN given : given[i].wish = w].outcome
           named == {given[i].wish : i \in DOMAIN given}
<1>1. /\ pc = "record"
      /\ status' = [w \in Wishes |-> IF w \in named THEN StatusOfOutcome(Outcome(w)) ELSE status[w]]
      /\ executedIn' = [w \in Wishes |->
                            IF w \notin named THEN executedIn[w]
                            ELSE IF Outcome(w) = "applied" THEN k ELSE NULL]
      /\ miracles' = [miracles EXCEPT ![k] = Overwrite(@, given)]
    BY DEF RecordMiracles, Record
<1>2. k \in 1..MaxEpoch
    <2>1. Len(run) \in Nat /\ Len(snapshot) \in Nat /\ MaxEpoch \in Nat
        BY LenProperties, ConstantTypes DEF WorldTypes
    <2>2. Len(run) <= MaxEpoch /\ Len(run) = Len(snapshot) + 1
        BY <1>1 DEF LoopInStep
    <2> QED BY <2>1, <2>2
<1>3. miracles[k] = <<>> /\ given \in Seq(Miracle)
    BY <1>1, <1>2 DEF NothingAhead, WorldTypes
<1>4. Overwrite(miracles[k], given) = given
    BY <1>3, RecordsWhole
<1>5. \A d \in 1..MaxEpoch : miracles'[d] = IF d = k THEN given ELSE miracles[d]
    BY <1>1, <1>2, <1>4 DEF ChainTypes
<1>6. \A i \in DOMAIN given : given[i] \in Miracle
    BY <1>3, LenProperties, ElementOfSeq
<1>7. ASSUME NEW w \in Wishes, w \notin named
      PROVE  /\ \A i \in DOMAIN given : given[i].wish # w
             /\ status'[w] = status[w] /\ executedIn'[w] = executedIn[w]
    BY <1>1, <1>7
<1>8. ASSUME NEW w \in Wishes, w \in named
      PROVE  /\ status[w] = "selected"
             /\ \/ AppliedIn(given, w) /\ status'[w] = "executed" /\ executedIn'[w] = k
                \/ ~AppliedIn(given, w) /\ status'[w] # "executed" /\ executedIn'[w] = NULL
    <2> DEFINE at == CHOOSE i \in DOMAIN given : given[i].wish = w
    <2>1. at \in DOMAIN given /\ given[at].wish = w
        BY <1>8
    <2> HIDE DEF at
    <2>2. \A i \in DOMAIN given : given[i].wish = w => i = at
        BY <1>1, <2>1 DEF ChosenInHand, OneEach
    <2>3. status[w] = "selected"
        BY <1>1, <2>1 DEF ChosenInHand
    <2>4. /\ status'[w] = StatusOfOutcome(given[at].outcome)
          /\ executedIn'[w] = IF given[at].outcome = "applied" THEN k ELSE NULL
        BY <1>1, <1>8 DEF at
    <2>5. given[at] \in [wish : Wishes, outcome : {"applied", "deferred", "refused"}]
        BY <1>6, <2>1 DEF Miracle
    <2>6. AppliedIn(given, w) <=> given[at].outcome = "applied"
        BY <1>6, <2>1, <2>2, <2>5 DEF AppliedIn
    <2> QED BY <2>3, <2>4, <2>5, <2>6 DEF StatusOfOutcome
<1> QED BY <1>2, <1>5, <1>7, <1>8

LEMMA NextMiraclesOneEach ==
    ASSUME IInv, NothingAhead, ChosenInHand, MiraclesOneEach, [Next]_vars
    PROVE  MiraclesOneEach'
<1> SUFFICES ASSUME NEW d \in 1..MaxEpoch
             PROVE  Len(miracles'[d]) <= PER_EPOCH /\ OneEach(miracles'[d])
    BY DEF MiraclesOneEach, OneEach
<1>1. Len(miracles[d]) <= PER_EPOCH /\ OneEach(miracles[d])
    BY DEF MiraclesOneEach
<1>2. Len(<<>>) <= PER_EPOCH /\ OneEach(<<>>)
    BY ConstantTypes, EmptySeq DEF OneEach
<1>3. CASE RecordMiracles /\ d = Len(run)
    <2>1. miracles'[d] = given
        BY <1>3, WhatIsRecorded
    <2> QED BY <1>3, <2>1 DEF RecordMiracles, ChosenInHand
<1> QED BY <1>1, <1>2, <1>3, MiraclesStay

LEMMA LoopHasInHand ==
    ASSUME [Next]_vars
    PROVE  /\ pc' = "step" => \/ \E tie \in Ties, closed \in ShareClosed : Select(tie, closed)
                              \/ pc = "step" /\ selected' = selected
           /\ pc' = "record" => Step \/ (pc = "record" /\ given' = given)
<1>1. CASE Start
    BY <1>1 DEF Start, Rollback, Resume
<1>2. CASE LoopStep
    BY <1>2 DEF LoopStep, Close, Select, Step, RecordMiracles, Publish, SealEpoch, Save, OpenNext,
                CheckWishes
<1>3. ASSUME NEW h \in Handlers, Request(h) \/ Respond(h) \/ Faults(h)
      PROVE  UNCHANGED <<pc, selected, given>>
    BY <1>3 DEF Request, Respond, Faults, BeginPropose, BeginSparks, Dismiss, FinishPropose,
                FinishSparks, AppendFails, ProposeFails, loop
<1>4. CASE Crashes
    BY <1>4 DEF Crashes, Crash, CrashInRollback, CrashInOpen, CrashInClose, CrashInSelect,
                CrashInAppend, CrashInPropose, Die
<1>5. CASE UNCHANGED vars
    BY <1>5 DEF vars, loop
<1> QED BY <1>1, <1>2, <1>3, <1>4, <1>5 DEF Next

\* A selection marks what it selects.
LEMMA SelectionIsMarked ==
    ASSUME IInv, NEW tie \in Ties, NEW closed, Select(tie, closed)
    PROVE  /\ Len(selected') <= PER_EPOCH
           /\ \A i \in DOMAIN selected' : status'[selected'[i]] = "selected"
           /\ \A i, j \in DOMAIN selected' : selected'[i] = selected'[j] => i = j
<1> DEFINE chosen == Choice(tie, closed)
           n == Len(chosen.ready) + Len(chosen.selected)
           First(sq, m) == {sq[i] : i \in {j \in DOMAIN sq : j <= m}}
           ready == First(chosen.ready, n)
           taken == First(chosen.selected, n - Len(chosen.ready))
<1>1. selected' = chosen.selected /\ status' = StatusWrites(chosen, n)
    BY DEF Select, SelectMiracles
<1>2. /\ chosen.selected \in Seq(Queue) /\ chosen.ready \in Seq(Queue)
      /\ Len(chosen.selected) <= PER_EPOCH
      /\ \A i, j \in DOMAIN chosen.selected :
            chosen.selected[i] = chosen.selected[j] => i = j
    BY ChosenAreQueued DEF IInv, TypeOK, WishTypes
<1>3. ASSUME NEW i \in DOMAIN chosen.selected
      PROVE  status'[chosen.selected[i]] = "selected"
    <2>1. /\ Len(chosen.ready) \in Nat /\ Len(chosen.selected) \in Nat
          /\ i \in 1..Len(chosen.selected)
        BY <1>2, LenProperties
    <2>2. i <= n - Len(chosen.ready)
        <3> HIDE DEF chosen
        <3> QED BY <2>1
    <2>3. chosen.selected[i] \in Wishes
        BY <1>2, <2>1, ElementOfSeq DEF Queue
    <2>4. chosen.selected[i] \in taken
        BY <2>2
    <2>5. status' = [w \in Wishes |->
                        CASE w \in taken -> "selected"
                          [] w \in ready \ taken -> "ready"
                          [] OTHER -> status[w]]
        BY <1>1 DEF StatusWrites
    <2> HIDE DEF taken, ready, chosen
    <2> QED BY <2>3, <2>4, <2>5
<1> QED BY <1>1, <1>2, <1>3

LEMMA NextChosenInHand ==
    ASSUME IInv, ChosenInHand, [Next]_vars
    PROVE  ChosenInHand'
<1> USE DEF IInv, TypeOK
<1>1. ASSUME pc' = "step"
      PROVE  /\ Len(selected') <= PER_EPOCH
             /\ \A i \in DOMAIN selected' : status'[selected'[i]] = "selected"
             /\ \A i, j \in DOMAIN selected' : selected'[i] = selected'[j] => i = j
    <2>1. CASE \E tie \in Ties, closed \in ShareClosed : Select(tie, closed)
        BY <2>1, SelectionIsMarked
    <2>2. CASE pc = "step" /\ selected' = selected
        <3>1. ~Rollback /\ ~RecordMiracles
            BY <2>2 DEF Rollback, RecordMiracles
        <3>2. \A i \in DOMAIN selected : selected[i] \in Wishes
            BY LenProperties, ElementOfSeq DEF WorldTypes
        <3>3. \A i \in DOMAIN selected : status'[selected[i]] = "selected"
            BY <2>2, <3>1, <3>2, VerdictsStay DEF ChosenInHand
        <3> QED BY <2>2, <3>3 DEF ChosenInHand
    <2> QED BY <1>1, <2>1, <2>2, LoopHasInHand
<1>2. ASSUME pc' = "record"
      PROVE  /\ Len(given') <= PER_EPOCH
             /\ \A i \in DOMAIN given' : status'[given'[i].wish] = "selected"
             /\ OneEach(given')
    <2>1. CASE Step
        <3>1. PICK g \in Verdicts(selected) : given' = g
            BY <2>1 DEF Step
        <3>2. pc = "step" /\ status' = status
            BY <2>1 DEF Step, disk
        <3>3. g \in Seq([wish : Wishes, outcome : Outcomes]) /\ [i \in DOMAIN g |-> g[i].wish] = selected
            BY <3>1, BoundedSeqIsSeq, ConstantTypes DEF Verdicts
        <3>4. DOMAIN g = DOMAIN selected /\ \A i \in DOMAIN g : g[i].wish = selected[i]
            BY <3>3
        <3>5. Len(g) = Len(selected)
            BY <3>3, <3>4, LenProperties DEF WorldTypes
        <3> QED BY <3>1, <3>2, <3>4, <3>5 DEF ChosenInHand, OneEach
    <2>2. CASE pc = "record" /\ given' = given
        <3>1. ~Rollback /\ ~RecordMiracles
            BY <1>2, <2>2 DEF Rollback, RecordMiracles
        <3>2. \A i \in DOMAIN given : given[i].wish \in Wishes
            <4>1. given \in Seq(Miracle)
                BY DEF WorldTypes
            <4>2. \A i \in DOMAIN given : given[i] \in Miracle
                BY <4>1, LenProperties, ElementOfSeq
            <4> QED BY <4>2 DEF Miracle
        <3>3. \A i \in DOMAIN given : status'[given[i].wish] = "selected"
            BY <2>2, <3>1, <3>2, VerdictsStay DEF ChosenInHand
        <3> QED BY <2>2, <3>3 DEF ChosenInHand
    <2> QED BY <1>2, <2>1, <2>2, LoopHasInHand
<1> QED BY <1>1, <1>2 DEF ChosenInHand, OneEach

LEMMA NextTookEffect ==
    ASSUME IInv, NothingAhead, ChosenInHand, TookEffect, [Next]_vars
    PROVE  TookEffect'
<1> USE DEF IInv, TypeOK
<1> SUFFICES ASSUME NEW w \in Wishes
             PROVE  /\ \A d \in 1..MaxEpoch :
                          AppliedIn(miracles'[d], w) => status'[w] = "executed" /\ executedIn'[w] = d
                    /\ status'[w] = "executed" <=> executedIn'[w] # NULL
                    /\ status'[w] = "executed" /\ (pc' # "down" \/ executedIn'[w] <= Len(snapshot')) =>
                          AppliedIn(miracles'[executedIn'[w]], w)
    BY DEF TookEffect, AppliedIn
<1>1. /\ \A d \in 1..MaxEpoch :
            AppliedIn(miracles[d], w) => status[w] = "executed" /\ executedIn[w] = d
      /\ status[w] = "executed" <=> executedIn[w] # NULL
      /\ status[w] = "executed" /\ (pc # "down" \/ executedIn[w] <= Len(snapshot)) =>
            AppliedIn(miracles[executedIn[w]], w)
    BY DEF TookEffect
<1>2. executedIn[w] \in 1..MaxEpoch \cup {NULL} /\ Len(snapshot) \in Nat
    BY LenProperties DEF WishTypes, WorldTypes
<1>3. ~AppliedIn(<<>>, w)
    BY DEF AppliedIn
<1>4. CASE RecordMiracles
    <2> DEFINE k == Len(run)
    <2>1. /\ k \in 1..MaxEpoch
          /\ \A d \in 1..MaxEpoch : miracles'[d] = IF d = k THEN given ELSE miracles[d]
          /\ \/ /\ \A i \in DOMAIN given : given[i].wish # w
                /\ status'[w] = status[w] /\ executedIn'[w] = executedIn[w]
             \/ /\ status[w] = "selected" /\ AppliedIn(given, w)
                /\ status'[w] = "executed" /\ executedIn'[w] = k
             \/ /\ status[w] = "selected" /\ ~AppliedIn(given, w)
                /\ status'[w] # "executed" /\ executedIn'[w] = NULL
        BY <1>4, WhatIsRecorded
    <2>2. pc # "down" /\ pc' # "down" /\ miracles[k] = <<>>
        BY <1>4, <2>1 DEF RecordMiracles, NothingAhead
    <2> HIDE DEF k
    <2>3. NULL \notin 1..MaxEpoch
        BY DEF NULL
    <2>4. CASE /\ \A i \in DOMAIN given : given[i].wish # w
               /\ status'[w] = status[w] /\ executedIn'[w] = executedIn[w]
        <3>1. ~AppliedIn(given, w)
            BY <2>4 DEF AppliedIn
        <3>2. status[w] = "executed" => executedIn[w] \in 1..MaxEpoch /\ executedIn[w] # k
            BY <1>1, <1>2, <1>3, <2>2
        <3> QED BY <1>1, <2>1, <2>2, <2>4, <3>1, <3>2
    <2>5. CASE /\ status[w] = "selected" /\ AppliedIn(given, w)
               /\ status'[w] = "executed" /\ executedIn'[w] = k
        BY <1>1, <2>1, <2>3, <2>5
    <2>6. CASE /\ status[w] = "selected" /\ ~AppliedIn(given, w)
               /\ status'[w] # "executed" /\ executedIn'[w] = NULL
        BY <1>1, <2>1, <2>6
    <2> QED BY <2>1, <2>4, <2>5, <2>6
<1>5. CASE Rollback
    <2>1. /\ pc = "down" /\ snapshot' = snapshot /\ miracles' = KeptMiracles(Len(snapshot))
          /\ status' = WithStatus(Undone(Len(snapshot)), "ready")
          /\ executedIn' = [v \in Wishes |-> IF v \in Undone(Len(snapshot)) THEN NULL
                                             ELSE executedIn[v]]
        BY <1>5 DEF Rollback, RollbackAfter
    <2>2. \A d \in 1..MaxEpoch : miracles'[d] = IF d > Len(snapshot) THEN <<>> ELSE miracles[d]
        BY <2>1 DEF KeptMiracles, ChainTypes
    <2>3. CASE w \in Undone(Len(snapshot))
        <3>1. status'[w] = "ready" /\ executedIn'[w] = NULL
            BY <2>1, <2>3 DEF WithStatus
        <3>2. executedIn[w] > Len(snapshot) \/ status[w] = "selected"
            BY <2>3 DEF Undone
        <3>3. \A d \in 1..MaxEpoch : ~AppliedIn(miracles'[d], w)
            BY <1>1, <1>3, <2>2, <3>2
        <3> QED BY <3>1, <3>3
    <2>4. CASE w \notin Undone(Len(snapshot))
        <3>1. status'[w] = status[w] /\ executedIn'[w] = executedIn[w]
            BY <2>1, <2>4 DEF WithStatus
        <3>2. ~(executedIn[w] > Len(snapshot))
            BY <2>4 DEF Undone
        <3>3. status[w] = "executed" => executedIn[w] \in 1..MaxEpoch /\ executedIn[w] <= Len(snapshot)
            BY <1>1, <1>2, <3>2
        <3> QED BY <1>1, <1>3, <2>2, <3>1, <3>2, <3>3
    <2> QED BY <2>3, <2>4
<1>6. CASE ~Rollback /\ ~RecordMiracles
    <2>1. /\ executedIn'[w] = executedIn[w] /\ (status'[w] = "executed" <=> status[w] = "executed")
        BY <1>6, VerdictsStay
    <2>2. \A d \in 1..MaxEpoch :
              \/ miracles'[d] = miracles[d]
              \/ pc = "down" /\ pc' = "down" /\ snapshot' = snapshot /\ d > Len(snapshot)
                 /\ miracles'[d] = <<>>
        BY <1>6, MiraclesStay DEF CrashInRollback
    <2>3. /\ pc' # "down" => pc # "down"
          /\ snapshot' = snapshot \/ (pc # "down" /\ pc' # "down")
        BY <1>6, WorldStep DEF Save
    <2>4. status[w] = "executed" => executedIn[w] \in 1..MaxEpoch
        BY <1>1, <1>2
    <2> QED BY <1>1, <1>2, <1>3, <2>1, <2>2, <2>3, <2>4
<1> QED BY <1>4, <1>5, <1>6

MiracleInv == IInv /\ NothingAhead /\ MiraclesOneEach /\ ChosenInHand /\ TookEffect

LEMMA InitMiracleInv == Init => MiracleInv
<1> SUFFICES ASSUME Init PROVE MiracleInv
    OBVIOUS
<1>1. /\ pc = "down"
      /\ \A d \in 1..MaxEpoch : miracles[d] = <<>>
      /\ \A w \in Wishes : status[w] = "none" /\ executedIn[w] = NULL
    BY DEF Init, IntakeInit
<1>2. MiraclesOneEach
    BY <1>1, ConstantTypes, EmptySeq DEF MiraclesOneEach, OneEach
<1>3. NothingAhead /\ ChosenInHand /\ TookEffect
    BY <1>1 DEF NothingAhead, ChosenInHand, TookEffect, AppliedIn
<1> QED BY <1>2, <1>3, InitIInv DEF MiracleInv

LEMMA MiracleInvOnce == MiracleInv => ExecutedOnce
<1> SUFFICES ASSUME MiracleInv, NEW w \in Wishes
             PROVE  /\ Cardinality(Applied(w)) <= 1
                    /\ pc # "down" =>
                          /\ status[w] = "executed" <=> Applied(w) # {}
                          /\ \A a \in Applied(w) : executedIn[w] = a[1]
    BY DEF ExecutedOnce
<1> USE DEF MiracleInv, IInv, TypeOK
<1>1. /\ \A d \in 1..MaxEpoch :
            AppliedIn(miracles[d], w) => status[w] = "executed" /\ executedIn[w] = d
      /\ status[w] = "executed" <=> executedIn[w] # NULL
      /\ status[w] = "executed" /\ pc # "down" => AppliedIn(miracles[executedIn[w]], w)
    BY DEF TookEffect
<1>2. ASSUME NEW a \in Applied(w)
      PROVE  /\ a = <<a[1], a[2]>> /\ a[1] \in 1..MaxEpoch /\ AppliedIn(miracles[a[1]], w)
             /\ a[2] \in DOMAIN miracles[a[1]]
             /\ miracles[a[1]][a[2]].wish = w
    BY DEF Applied, AppliedIn
<1>3. ASSUME NEW a \in Applied(w), NEW b \in Applied(w)
      PROVE  a = b
    <2>1. a[1] = b[1]
        BY <1>1, <1>2
    <2>2. a[2] = b[2]
        BY <1>2, <2>1 DEF MiraclesOneEach, OneEach
    <2> QED BY <1>2, <2>1, <2>2
<1>4. Cardinality(Applied(w)) <= 1
    <2>1. Applied(w) = {} \/ \E a : Applied(w) = {a}
        BY <1>3
    <2>2. Cardinality({}) = 0 /\ \A a : Cardinality({a}) = 1
        BY FS_EmptySet, FS_Singleton
    <2>3. Cardinality(Applied(w)) \in {0, 1}
        BY <2>1, <2>2
    <2> QED BY <2>3
<1>5. ASSUME pc # "down", status[w] = "executed"
      PROVE  Applied(w) # {}
    <2> DEFINE d == executedIn[w]
    <2>1. d \in 1..MaxEpoch
        BY <1>1, <1>5 DEF WishTypes
    <2>2. PICK i \in DOMAIN miracles[d] : miracles[d][i] = [wish |-> w, outcome |-> "applied"]
        BY <1>1, <1>5 DEF AppliedIn
    <2>3. i \in 1..PER_EPOCH
        <3>1. miracles[d] \in Seq(Miracle) /\ Len(miracles[d]) <= PER_EPOCH
            BY <2>1 DEF ChainTypes, MiraclesOneEach
        <3>2. Len(miracles[d]) \in Nat /\ i \in 1..Len(miracles[d])
            BY <2>2, <3>1, LenProperties
        <3> QED BY <3>1, <3>2, ConstantTypes
    <2>4. <<d, i>> \in Applied(w)
        BY <2>1, <2>2, <2>3 DEF Applied
    <2> QED BY <2>4
<1> QED BY <1>1, <1>2, <1>4, <1>5

\* A wish takes effect at most once, and while the server runs it is executed
\* exactly when it took effect, in the epoch the ledger names: whatever the
\* outcomes, and whenever the process ends and starts again.
THEOREM WishesTakeEffectOnce == Safe => []ExecutedOnce
<1>1. MiracleInv /\ [Next]_vars => MiracleInv'
    BY NextIInv, NextNothingAhead, NextMiraclesOneEach, NextChosenInHand, NextTookEffect
       DEF MiracleInv
<1> QED BY <1>1, InitMiracleInv, MiracleInvOnce, PTL DEF Safe
=============================================================================
