----------------------------- MODULE MCTokenize -----------------------------
(* Tokenize in ticks of a minute: a signature lives five, a request on a   *)
(* network in order takes two at most and the merchant's clock is up to    *)
(* four behind, one more than ClockGood allows.                            *)
EXTENDS Tokenize

CONSTANTS p1, p2

MCPurchases == {p1, p2}
MCUidLengths == {0, 32, 33}
=============================================================================
