------------------------------- MODULE Market -------------------------------
(***************************************************************************)
(* The ledger over many epochs: work arrives on open wishes, the window    *)
(* closes, and the selection of Ledger serves the queue and moves the      *)
(* price (server/src/intake.rs select_miracles, watcher/src/books.rs       *)
(* Books::close).  Here the world applies every miracle it is given, no    *)
(* wish expires, and after QuietFrom epochs no more work arrives: what is  *)
(* left is the queue and its price.                                        *)
(***************************************************************************)
EXTENDS Ledger

CONSTANTS
    Wishes,        \* the proposal ids
    ActionOf,      \* the action of each wish
    PriceMin,      \* the floor of the price
    Arrivals,      \* the amounts of work a wish can gather in one window
    Ties,          \* the orders a beacon can put the ids in
    QuietFrom      \* no work arrives from this epoch on

ASSUME MarketAssumption ==
    /\ IsFiniteSet(Wishes)
    /\ \A w \in Wishes : IsAction(ActionOf[w])
    /\ PriceMin \in Nat
    /\ Arrivals \subseteq Nat
    /\ \A tie \in Ties : /\ tie \in [Wishes -> Int]
                         /\ \A v, w \in Wishes : v # w => tie[v] # tie[w]
    /\ QuietFrom \in Nat

VARIABLES
    epoch,   \* epochs settled, counted up to QuietFrom
    price,   \* the price of the next selection
    work,    \* the accumulated work of each wish
    status,  \* "open", "ready" (queued) or "executed"
    round    \* what the last settlement saw and decided
vars == <<epoch, price, work, status, round>>

Candidate(w, load) == [id |-> w, action |-> ActionOf[w], work |-> load[w], share |-> 100]

NoRound == [candidates |-> {}, tie |-> <<>>, price |-> PriceMin,
            chosen |-> [ready |-> <<>>, selected |-> <<>>, next_price |-> PriceMin]]

Init ==
    /\ epoch = 0
    /\ price = PriceMin
    /\ work = [w \in Wishes |-> 0]
    /\ status = [w \in Wishes |-> "open"]
    /\ round = NoRound

\* A wish that was queued takes no more sparks (intake.rs precheck).
Gathered(arrived) ==
    [w \in Wishes |-> work[w] + (IF status[w] = "open" THEN arrived[w] ELSE 0)]

StatusAfter(chosen) ==
    [w \in Wishes |->
        CASE Contains(chosen.selected, w) -> "executed"
          [] ~Contains(chosen.selected, w) /\ Contains(chosen.ready, w) -> "ready"
          [] OTHER -> status[w]]

Settle(arrived, tie) ==
    LET load == Gathered(arrived)
        candidates == {Candidate(w, load) : w \in {v \in Wishes : status[v] # "executed"}}
        chosen == select(candidates, price, PriceMin, tie)
    IN /\ work' = load
       /\ status' = StatusAfter(chosen)
       /\ price' = chosen.next_price
       /\ round' = [candidates |-> candidates, tie |-> tie, price |-> price, chosen |-> chosen]

BusyEpoch ==
    /\ epoch < QuietFrom
    /\ epoch' = epoch + 1
    /\ \E arrived \in [Wishes -> Arrivals], tie \in Ties : Settle(arrived, tie)

QuietEpoch ==
    /\ epoch = QuietFrom
    /\ UNCHANGED epoch
    /\ \E tie \in Ties : Settle([w \in Wishes |-> 0], tie)

Next == BusyEpoch \/ QuietEpoch

\* Epochs never stop: the world loop runs forever.
Spec == Init /\ [][Next]_vars /\ WF_vars(Next)

-----------------------------------------------------------------------------
(* Properties. *)

\* The ranking is a strict total order on the candidates (work over weight,
\* compared by cross-multiplication, the beacon between equals), so the sort
\* has one outcome and two parties that sort get the same list.
RankingIsStrict ==
    \A a, b, c \in round.candidates :
        /\ ~Outranks(a, a, round.tie)
        /\ a # b => Outranks(a, b, round.tie) \/ Outranks(b, a, round.tie)
        /\ Outranks(a, b, round.tie) /\ Outranks(b, c, round.tie) => Outranks(a, c, round.tie)

\* The walk of select over the ranking finds exactly the one fair choice there
\* is: a conflict is always lost by the wish with the smaller share of its
\* price, whatever the beacon and the number of conflicts on the way.
SelectionIsTheFairChoice ==
    LET ready == {c \in round.candidates : c.work >= price_of(round.price, c)}
        chosen == {c \in round.candidates : Contains(round.chosen.selected, c.id)}
    IN /\ RankingIsStrict
       /\ {S \in SUBSET ready : IsFairChoice(S, ready, round.tie)} = {chosen}

\* Once no more work arrives the queue drains: every queued wish becomes a
\* miracle, although the price may have risen above its work meanwhile.
QueueDrains == \A w \in Wishes : status[w] = "ready" ~> status[w] = "executed"
=============================================================================
