------------------------------ MODULE MCWatcher ------------------------------
(* Two rains of one author that overlap, so they cannot fall in one epoch,  *)
(* each with a spark of window 2 that covers the price; rain2 may get one   *)
(* more in window 3, at the close of which rain1 expires if it still waits  *)
(* for its turn.  Either rain1 is deferred and rain2 found hopeless after   *)
(* epoch 2, or the share rule closes rain1 for it and rain2 is refused.     *)
EXTENDS Watcher, TLC

MCWishes == {"rain1", "rain2"}
MCActionOf ==
    [rain1 |-> [kind |-> "weather", at |-> <<10, 10>>],
     rain2 |-> [kind |-> "weather", at |-> <<14, 12>>]]
MCOneAuthor == [w \in MCWishes |-> "ann"]
MCCreatedOf == [w \in MCWishes |-> 2]
MCExpiresOf == [rain1 |-> 3, rain2 |-> 4]
MCOneTie == {[rain1 |-> 1, rain2 |-> 2]}
Spark(w, n, e) == [wish |-> w, nonce |-> n, mined |-> e]
MCFirstSparks == {Spark(w, 1, 2) : w \in MCWishes}
MCBatches == {<<Spark("rain2", 2, 3)>>}
MCMayClose == {{}, {"rain1"}}
MCMayDoom == {{}, {"rain2"}}
MCAll == {"applied", "deferred", "refused"}
Calm == [outcome |-> [w \in MCWishes |-> "applied"], hopeless |-> {}, closed |-> {}]

MCNatures ==
    {[e \in 0..3 |->
        CASE e = 2 -> [Calm EXCEPT !.outcome.rain1 = "deferred", !.hopeless = {"rain2"}]
          [] OTHER -> Calm],
     [e \in 0..3 |->
        CASE e = 1 -> [Calm EXCEPT !.closed = {"rain1"}]
          [] e = 2 -> [Calm EXCEPT !.outcome.rain2 = "refused"]
          [] OTHER -> Calm]}
=============================================================================
