----------------------------- MODULE MCPayments -----------------------------
(* Payments on a few calls and one order id per idempotency mode.          *)
EXTENDS Payments, TLC

CONSTANTS c1, c2, c3, safe, decline, off

MCCalls == {c1, c2, c3}
MCOrders == {safe, decline, off}
MCMode == safe :> "unset" @@ decline :> "DECLINE_DUP" @@ off :> "OFF"
MCVerdicts == {"APPROVED", "DECLINED", Unlisted}
MCErrorCodes == {100, 999}
MCSafeOrders == {safe}
MCSafeMode == safe :> "unset"
CallSymmetry == Permutations(MCCalls)
=============================================================================
