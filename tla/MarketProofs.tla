---------------------------- MODULE MarketProofs ----------------------------
(***************************************************************************)
(* Whatever work arrives and however the beacons fall, each settlement of  *)
(* Market makes the one fair choice of its epoch.                          *)
(***************************************************************************)
EXTENDS Market, LedgerProofs

TypeOK ==
    /\ price \in Nat
    /\ work \in [Wishes -> Nat]

\* The last settlement had candidates that can be ranked, and did what select says.
RoundIsSelection ==
    /\ Rankable(round.candidates, round.tie)
    /\ round.chosen.selected =
           select(round.candidates, round.price, PriceMin, round.tie).selected

IInv == TypeOK /\ (round = NoRound \/ RoundIsSelection)

LEMMA CandidatesAreRankable ==
    ASSUME NEW W \in SUBSET Wishes, NEW load \in [Wishes -> Nat], NEW tie \in Ties
    PROVE  Rankable({Candidate(w, load) : w \in W}, tie)
<1> DEFINE f == [w \in W |-> Candidate(w, load)]
           candidates == {Candidate(w, load) : w \in W}
<1>1. IsFiniteSet(candidates)
    <2>1. IsFiniteSet(W)
        BY MarketAssumption, FS_Subset
    <2>2. f \in Surjection(W, candidates)
        BY DEF Surjection
    <2> HIDE DEF f, candidates
    <2> QED BY <2>1, <2>2, FS_Surjection
<1>2. ASSUME NEW w \in W
      PROVE  IsCandidate(Candidate(w, load)) /\ tie[Candidate(w, load).id] \in Int
    BY MarketAssumption DEF IsCandidate, Candidate
<1>3. ASSUME NEW v \in W, NEW w \in W, Candidate(v, load) # Candidate(w, load)
      PROVE  tie[Candidate(v, load).id] # tie[Candidate(w, load).id]
    BY <1>3, MarketAssumption DEF Candidate
<1> QED BY <1>1, <1>2, <1>3 DEF Rankable

LEMMA NextPriceType ==
    ASSUME NEW p \in Nat, NEW ready, NEW taken
    PROVE  next_price(ready, taken, p, PriceMin) \in Nat
<1>1. p \div 8 \in Nat /\ p - (p \div 8) \in Nat /\ p + (p \div 8) \in Nat
    OBVIOUS
<1> QED BY <1>1, MarketAssumption DEF next_price, Larger

LEMMA InitIInv == Init => IInv
BY MarketAssumption DEF Init, IInv, TypeOK

LEMMA SettleIInv ==
    ASSUME IInv, NEW arrived \in [Wishes -> Nat], NEW tie \in Ties, Settle(arrived, tie)
    PROVE  IInv'
<1> DEFINE load == Gathered(arrived)
           candidates == {Candidate(w, load) : w \in {v \in Wishes : status[v] # "executed"}}
           chosen == select(candidates, price, PriceMin, tie)
<1>1. load \in [Wishes -> Nat]
    BY DEF Gathered, IInv, TypeOK
<1>2. Rankable(candidates, tie)
    <2> HIDE DEF load
    <2> QED BY <1>1, CandidatesAreRankable
<1>3. /\ work' = load /\ price' = chosen.next_price
      /\ round' = [candidates |-> candidates, tie |-> tie, price |-> price, chosen |-> chosen]
    BY DEF Settle
<1>4. chosen.next_price \in Nat
    <2> HIDE DEF candidates
    <2> QED BY NextPriceType DEF select, IInv, TypeOK
<1> HIDE DEF load, candidates, chosen
<1>5. RoundIsSelection'
    BY <1>2, <1>3 DEF RoundIsSelection, chosen
<1> QED BY <1>1, <1>3, <1>4, <1>5 DEF IInv, TypeOK

LEMMA NextIInv == IInv /\ [Next]_vars => IInv'
<1> SUFFICES ASSUME IInv, [Next]_vars PROVE IInv'
    OBVIOUS
<1>1. CASE BusyEpoch
    <2>1. PICK arrived \in [Wishes -> Arrivals], tie \in Ties : Settle(arrived, tie)
        BY <1>1 DEF BusyEpoch
    <2>2. arrived \in [Wishes -> Nat]
        BY MarketAssumption
    <2> QED BY <2>1, <2>2, SettleIInv
<1>2. CASE QuietEpoch
    <2>1. PICK tie \in Ties : Settle([w \in Wishes |-> 0], tie)
        BY <1>2 DEF QuietEpoch
    <2>2. [w \in Wishes |-> 0] \in [Wishes -> Nat]
        OBVIOUS
    <2> QED BY <2>1, <2>2, SettleIInv
<1>3. CASE UNCHANGED vars
    BY <1>3 DEF vars, IInv, TypeOK, RoundIsSelection
<1> QED BY <1>1, <1>2, <1>3 DEF Next

\* Before the first settlement there is nothing to choose.
LEMMA NothingIsFair ==
    ASSUME round = NoRound
    PROVE  SelectionIsTheFairChoice
<1>1. /\ round.candidates = {} /\ Cardinality({}) = 0 /\ 0 <= PER_EPOCH
    BY PerEpochAssumption, FS_EmptySet DEF NoRound
<1>2. RankingIsStrict
    BY <1>1 DEF RankingIsStrict
<1>3. IsFairChoice({}, {}, round.tie)
    BY <1>1 DEF IsFairChoice
<1> QED BY <1>1, <1>2, <1>3 DEF SelectionIsTheFairChoice

LEMMA SettlementIsFair ==
    ASSUME RoundIsSelection
    PROVE  SelectionIsTheFairChoice
<1>1. Rankable(round.candidates, round.tie)
    BY DEF RoundIsSelection
<1>2. RankingIsStrict
    BY <1>1, OutranksIsStrict DEF RankingIsStrict
<1> DEFINE ready == Ready(round.candidates, round.price)
           chosen == {c \in round.candidates : Contains(round.chosen.selected, c.id)}
<1>3. {S \in SUBSET ready : IsFairChoice(S, ready, round.tie)} = {chosen}
    BY <1>1, SelectIsTheFairChoice DEF RoundIsSelection
<1> QED BY <1>2, <1>3 DEF SelectionIsTheFairChoice, Ready

\* In every reachable state the miracles chosen last are the one fair choice of
\* the candidates there were (ledger.rs select, called by the server and by every
\* watcher): sorting by share of the price and walking down finds it.
THEOREM FairSelection == Spec => []SelectionIsTheFairChoice
<1>1. IInv => SelectionIsTheFairChoice
    BY NothingIsFair, SettlementIsFair DEF IInv
<1> QED BY InitIInv, NextIInv, <1>1, PTL DEF Spec
=============================================================================
