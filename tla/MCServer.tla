------------------------------ MODULE MCServer ------------------------------
(* Two rains of one author that overlap, so they cannot fall in one epoch; *)
(* a spark weighs 8 at the first target, the floor of the price, so one    *)
(* spark covers the price of a wish.  rain2 lives to the close of epoch 2,  *)
(* rain1 beyond the end of the model.                                      *)
EXTENDS ServerProperties, TLC

MCWishes == {"rain1", "rain2"}
MCActionOf ==
    [rain1 |-> [kind |-> "weather", at |-> <<10, 10>>],
     rain2 |-> [kind |-> "weather", at |-> <<14, 12>>]]
MCOneAuthor == [w \in MCWishes |-> "ann"]
MCCreatedOf == [w \in MCWishes |-> 1]
MCExpiresOf == [rain1 |-> 3, rain2 |-> 2]
MCTies == {[rain1 |-> 1, rain2 |-> 2], [rain1 |-> 2, rain2 |-> 1]}
MCOneTie == {[rain1 |-> 1, rain2 |-> 2]}

Spark(w, n, e) == [wish |-> w, nonce |-> n, mined |-> e]

\* A wish comes with a spark of the first or second window, or a forged one;
\* for rain1 there is a second one.
MCFirstSparks == {Spark(w, 1, e) : w \in MCWishes, e \in 0..2} \cup {Spark("rain1", 2, 1)}
MCFewFirst == {Spark(w, 1, e) : w \in MCWishes, e \in 0..2}

\* Batches: none left after the prechecks; one more spark for each wish and
\* window; a spark sent twice in one batch; a forged one before a good one.
MCBatches ==
    {<<>>, <<Spark("rain1", 2, 1)>>, <<Spark("rain2", 1, 2)>>,
     <<Spark("rain1", 3, 1), Spark("rain1", 3, 1)>>,
     <<Spark("rain1", 2, 1), Spark("rain1", 4, 0), Spark("rain2", 3, 1)>>}
MCFewBatches == {<<>>, <<Spark("rain1", 1, 2)>>}

MCNeverClosed == {{}}
MCMayClose == {{}, {"rain1"}}
MCNeverDoomed == {{}}
MCDoomed == {{}, {"rain1"}}
MCAllOutcomes == {"applied", "deferred", "refused"}
MCApplied == {"applied"}

HandlerSymmetry == Permutations(Handlers)
=============================================================================
