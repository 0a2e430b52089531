---------------------------- MODULE ResultMapper ----------------------------
(***************************************************************************)
(* to_transaction_result: what a caller gets of one whole answer -- or of  *)
(* one leg of an order, for status() maps each of them -- when fields are  *)
(* missing, empty or not of their format.  The answer may be that of a     *)
(* charge that went through, so an exception here is an unknown outcome    *)
(* (Payments!ReceiveUnreadable).                                           *)
(*                                                                         *)
(* A field is abstracted to what the mapper tells apart.  Absent and empty *)
(* are one, except for a line item.  Fields that are only copied are left  *)
(* out.                                                                    *)
(***************************************************************************)
CONSTANT Responses   \* the answers considered

Statuses == {"APPROVED", "DECLINED", "PENDING", "RUNNING", "FAILED"}
Fields == {"absent", "good", "bad"}

\* What a customer can act upon while a payment is pending: a 3DS challenge, a
\* voucher's barcode, a PIX token, a page to go to.
Prompts == {"challenge", "barcode", "pix", "url"}

IsResponse(r) ==
    /\ r.status \in Statuses \cup {"unlisted", "absent"}
    /\ r.lineItem \in {"absent", "empty", "good"}
    /\ {r.value, r.currency, r.settledValue, r.settledCurrency} \subseteq Fields
    /\ r.rate \in Fields \cup {"zero"}
    /\ r.prompts \subseteq Prompts

ASSUME ResponsesAssumption == \A r \in Responses : IsResponse(r)

VARIABLES
    response,  \* the answer
    outcome    \* what to_transaction_result made of it

vars == <<response, outcome>>

Raised(kind) == [kind |-> kind]

-----------------------------------------------------------------------------
\* Mutant: a status the enum does not know reads as approved.
ParseStatusApproves(r) == IF r.status \in Statuses THEN r.status ELSE "APPROVED"

ParseStatus(r) == IF r.status \in Statuses THEN r.status ELSE "FAILED"

\* Mutant: one half of an amount is enough to read it.
PresentByHalf(value, currency) == value # "absent" \/ currency # "absent"

\* An amount is read when both its value and its currency are there.
Present(value, currency) == value # "absent" /\ currency # "absent"

\* Money.of takes a decimal number and a currency of three letters.
MoneyRefuses(value, currency) == value # "good" \/ currency # "good"

\* Mutant: the rate is not looked at.
RateAlwaysReal(r) == TRUE

\* Money was converted only at a rate other than 0.
RateReal(r) == r.rate \notin {"absent", "zero"}

Converted(r) == RateReal(r) /\ Present(r.settledValue, r.settledCurrency)

NoAction == [kind |-> "none", carries |-> {}]

Pending(r) == ParseStatus(r) = "PENDING"

\* Mutant: the page is looked for before what belongs on it.
NextActionPageFirst(r) ==
    CASE ~Pending(r) -> NoAction
      [] Pending(r) /\ "url" \in r.prompts -> [kind |-> "redirect", carries |-> {"url"}]
      [] OTHER -> [kind |-> "awaitSettlement", carries |-> {}]

\* _next_action: its kind, and the prompts it hands to the caller.  Of challenge,
\* barcode and PIX token the first is taken, with the page if there is one.
NextAction(r) ==
    LET Has(what, before) ==
          Pending(r) /\ what \in r.prompts /\ before \cap r.prompts = {}
        With(kind, what) ==
          [kind |-> kind, carries |-> r.prompts \cap {what, "url"}]
    IN  CASE ~Pending(r) -> NoAction
          [] Has("challenge", {}) -> With("threeDSChallenge", "challenge")
          [] Has("barcode", {"challenge"}) -> With("displayVoucher", "barcode")
          [] Has("pix", {"challenge", "barcode"}) -> With("displayQr", "pix")
          [] Has("url", Prompts \ {"url"}) -> With("redirect", "url")
          [] OTHER -> With("awaitSettlement", "none")

-----------------------------------------------------------------------------
Init ==
    /\ response \in Responses
    /\ outcome = Raised("none")

\* What cannot be read, in the order the mapper comes to it.
LineItemUnreadable(r) == r.lineItem = "empty"

AmountUnreadable(r) ==
    Present(r.value, r.currency) /\ MoneyRefuses(r.value, r.currency)

RateUnreadable(r) == r.rate = "bad"

ConversionUnreadable(r) ==
    /\ Converted(r)
    /\ MoneyRefuses(r.settledValue, r.settledCurrency)

Finish(o) ==
    /\ outcome = Raised("none")
    /\ outcome' = o
    /\ UNCHANGED response

\* Refs.line_item or Money.of.
RaiseTypeError ==
    /\ \/ LineItemUnreadable(response) \/ AmountUnreadable(response)
       \/ ~RateUnreadable(response) /\ ConversionUnreadable(response)
    /\ Finish(Raised("TypeError"))

\* Decimal, of a rate that is looked at before anything it would convert.
RaiseInvalidOperation ==
    /\ ~LineItemUnreadable(response) /\ ~AmountUnreadable(response)
    /\ RateUnreadable(response)
    /\ Finish(Raised("InvalidOperation"))

Return ==
    /\ ~LineItemUnreadable(response) /\ ~AmountUnreadable(response)
    /\ ~RateUnreadable(response) /\ ~ConversionUnreadable(response)
    /\ Finish([kind |-> "TransactionResult", status |-> ParseStatus(response),
               amount |-> Present(response.value, response.currency),
               conversion |-> Converted(response),
               nextAction |-> NextAction(response)])

Next == RaiseTypeError \/ RaiseInvalidOperation \/ Return

Spec == Init /\ [][Next]_vars

-----------------------------------------------------------------------------
(* Properties                                                              *)

Returned == outcome.kind = "TransactionResult"

\* An answer is refused only for something the gateway should not have written:
\* fields it left out or left empty, line items apart, refuse nothing.
RaisesOnlyOnMalformed ==
    outcome.kind \in {"TypeError", "InvalidOperation"} =>
        \/ response.lineItem = "empty"
        \/ "bad" \in {response.value, response.currency, response.rate,
                     response.settledValue, response.settledCurrency}

\* No result is half read: an amount or a conversion it reports is of a number
\* and a currency, and a conversion took place at a rate other than 0.
ReportsOnlyWhatWasWritten ==
    Returned =>
        /\ outcome.amount => response.value = "good" /\ response.currency = "good"
        /\ outcome.conversion => /\ response.settledValue = "good"
                                 /\ response.settledCurrency = "good"
                                 /\ response.rate = "good"

\* A customer who can do something about a pending payment is shown what: never
\* awaitSettlement where there is a prompt, never a page without the challenge,
\* barcode or token that belongs on it, and never without the page; a payment
\* that is not pending asks for nothing.
PendingIsActionable ==
    Returned =>
        LET shown == outcome.nextAction.carries IN
        /\ outcome.nextAction.kind = "none" <=> outcome.status # "PENDING"
        /\ outcome.status = "PENDING" =>
             /\ outcome.nextAction.kind = "awaitSettlement" <=> response.prompts = {}
             /\ "url" \in response.prompts => "url" \in shown
             /\ response.prompts \ {"url"} # {} => shown \ {"url"} # {}

\* An answer whose every field is well formed, left out or empty is read.
BlankIsAbsent ==
    "bad" \notin {response.value, response.currency, response.rate,
                 response.settledValue, response.settledCurrency}
      => outcome.kind \in {"none", "TransactionResult"}
=============================================================================
