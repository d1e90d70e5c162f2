------------------------------ MODULE MCMarket ------------------------------
(* Four wishes: two rains that just overlap, a revival that costs twice as *)
(* much and a migration that ends just far enough from it.  The price      *)
(* floor is 8, so that an eighth of it is a whole number; one arrival      *)
(* covers one price.  With them, checked once: the packed logs in which the *)
(* server keeps the sparks that were counted.                              *)
EXTENDS Market, Packed

MCWishes == {"rain1", "rain2", "revive", "migrate"}
MCActionOf ==
    [w \in MCWishes |->
        CASE w = "rain1"   -> [kind |-> "weather", at |-> <<10, 10>>]
          [] w = "rain2"   -> [kind |-> "weather", at |-> <<16, 10>>]
          [] w = "revive"  -> [kind |-> "revive", at |-> <<40, 40>>]
          [] w = "migrate" -> [kind |-> "migrate", clade |-> 1, at |-> <<43, 41>>]]
MCArrivals == {0, 8, 20}
MCTies ==
    {[rain1 |-> 1, rain2 |-> 2, revive |-> 3, migrate |-> 4],
     [rain1 |-> 4, rain2 |-> 3, revive |-> 2, migrate |-> 1]}

\* Sparks of three pairs of wish and miner, with nonces near, far and around 0.
MCSparks0 == {[proposal_id |-> p[1], miner |-> p[2], nonce |-> n] :
                 p \in {<<0, 0>>, <<1, 0>>, <<0, 1>>}, n \in {0, 5, 9, 34, 63}}

\* A closed log is read back as it was packed (packed.rs). It does not depend on
\* the state: once, before the first epoch, is enough.
PackedLogsHold == Init => PackedIsTheLog
=============================================================================
