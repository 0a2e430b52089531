---------------------------- MODULE MCResponses ----------------------------
(* Responses with one aliased and one plain field.                         *)
EXTENDS Responses

MCFields == {"XTL_PO_ID", "XTL_ORDER_ID", "PO_ID"}
MCValues == {"v1", "v2"}
MCBoth == {"flat", "table"}
=============================================================================
