--------------------------- MODULE MCOrderLedger ---------------------------
(* OrderLedger with up to four calls on one order.                         *)
EXTENDS OrderLedger, TLC

CONSTANTS c1, c2, c3, c4

MCCalls == {c1, c2, c3, c4}
MCAmounts == {1, 2, 3}
CallSymmetry == Permutations(MCCalls)

CaptureAndVoid == {"authorize", "capture", "reverse_capture"}
=============================================================================
