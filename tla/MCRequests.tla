----------------------------- MODULE MCRequests -----------------------------
(* Two miners behind one address and queue places for three sparks: a full   *)
(* queue, a wait for a permit, an empty bucket, a late batch and a ban all   *)
(* happen within three windows of six ticks.                               *)
EXTENDS Requests
MCSizes == 0..2
MCSizeOf == [i |-> 2, n |-> 3, k |-> 2]
MCRefillOf == [i |-> 1, n |-> 2, k |-> 1]
MCAddressOf == [c \in Calls |-> "home"]
MCSubnetOf == [c \in Calls |-> "net"]

\* Valid wishes of every action.
MCTried ==
    LET Actions == {[code |-> code, args |-> [i \in 1..Arity(code) |-> (i + k) % 2], steps |-> steps] :
                       code \in Codes, k \in 0..1,
                       steps \in {<<>>, <<<<0, 1>>>>, <<<<1, 0>>, <<2, 1>>>>}}
    IN {w \in [world : {1}, ruleset : {2}, author : {3},
                action : {a \in Actions : a.code = REVIVE \/ a.steps = <<>>},
                created : {0, 1}, expires : {1, 3},
                hypothesis : {{}, {[template |-> 1, params |-> <<>>]}, {[template |-> 0, params |-> <<1, 0>>]}},
                name : {{}, {<<1, 0>>}}] : check(w)}
=============================================================================
