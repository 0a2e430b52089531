---------------------------- MODULE MCFollowUps ----------------------------
(* FollowUps: two workers on one order, with equal amounts or not, and      *)
(* calls enough for every retry.                                            *)
EXTENDS FollowUps

CONSTANTS c0, c1, c2, c3, c4, a, b

MCCalls == {c0, c1, c2, c3, c4}
MCAmounts == {1, 2, 3}
MCWorkers == {a, b}
MCOperations == {"sale", "authorize", "capture", "refund"}
=============================================================================
