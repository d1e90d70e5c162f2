----------------------------- MODULE SealedChain -----------------------------
(***************************************************************************)
(* What the world promises the outside (spec sections 18, 20 and 21): one  *)
(* pending log of accepted sparks that only grows, and a chain of sealed   *)
(* epochs that only grows, where sealing an epoch moves exactly the        *)
(* pending log into the chain, under a link to the epoch before.           *)
(*                                                                         *)
(* Nothing is said of crashes, windows or beacons: whatever happens, the   *)
(* world server (Server) must look like this at the epochs it has saved.   *)
(***************************************************************************)
EXTENDS Naturals, Sequences

CONSTANT Links   \* what identifies a sealed epoch

VARIABLES
    pending,  \* the accepted sparks of the epoch that is not sealed yet
    chain     \* the sealed epochs: their sparks, their link and the one before

Init == pending = <<>> /\ chain = <<>>

\* The pending log gains sparks at its end.
Accept ==
    /\ Len(pending') > Len(pending)
    /\ SubSeq(pending', 1, Len(pending)) = pending
    /\ UNCHANGED chain

\* The pending log is sealed, linked to the epoch sealed before it; the first
\* one is linked to genesis, which is not in the chain.
Seal(link, prev) ==
    /\ chain # <<>> => prev = chain[Len(chain)].link
    /\ chain' = Append(chain, [sparks |-> pending, link |-> link, prev |-> prev])
    /\ pending' = <<>>

Next == Accept \/ \E link, prev \in Links : Seal(link, prev)

Spec == Init /\ [][Next]_<<pending, chain>>
=============================================================================
