----------------------------- MODULE MCCheckQueue -----------------------------
(* Three calls of one to three sparks, a queue of four and two permits: two *)
(* calls can fill the queue, and a third waits for a permit.                *)
EXTENDS CheckQueue
MCSizes == 1..3
=============================================================================
