--------------------------- MODULE MCResultMapper ---------------------------
(* ResultMapper on every mixture of amounts, and on every status with      *)
(* every set of prompts.                                                   *)
EXTENDS ResultMapper

Amounts ==
    [status : {"APPROVED"}, lineItem : {"absent", "empty", "good"},
     value : Fields, currency : Fields, rate : Fields \cup {"zero"},
     settledValue : Fields, settledCurrency : Fields, prompts : {{}}]

Pendings ==
    [status : Statuses \cup {"unlisted", "absent"}, lineItem : {"good"},
     value : {"good"}, currency : {"good"}, rate : {"absent"},
     settledValue : {"absent"}, settledCurrency : {"absent"},
     prompts : SUBSET Prompts]

MCResponses == Amounts \cup Pendings
=============================================================================
