----------------------------- MODULE MCWakeStore -----------------------------
(* WakeStore on two wakes (of two lanes, or both of one), two clients and one retry control.  *)
EXTENDS WakeStore, TLC

CONSTANTS c1, c2, w1, w2, l1, l2, r1

MCLaneOf == (w1 :> l1) @@ (w2 :> l2)
MCOneLane == [w \in Wakes |-> l1]
MCRank == (w1 :> 1) @@ (w2 :> 2)
MCRetryOf == (r1 :> w1)
MCRetryOfYounger == (r1 :> w2)

=============================================================================
