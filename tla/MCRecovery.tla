----------------------------- MODULE MCRecovery -----------------------------
(* Recovery with a retry-safe order id and a few call identities.          *)
EXTENDS Recovery, TLC

CONSTANTS c1, c2, c3, c4, safe

MCCalls == {c1, c2, c3, c4}
MCOrders == {safe}
MCMode == safe :> "unset"
MCVerdicts == {"APPROVED", "PENDING", Unlisted}
MCErrorCodes == {100}
=============================================================================
