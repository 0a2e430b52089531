---------------------------- MODULE RequestBuild ----------------------------
(***************************************************************************)
(* build_transaction_params: the projection of a TransactionRequest on the *)
(* wire parameters of sale(), authorize() and force_credit(), and what it  *)
(* refuses on the way.  The checks come between the writes, and the        *)
(* currency every line item has to match is found while the line items are *)
(* read.                                                                   *)
(*                                                                         *)
(* Fields that are only copied (customer, addresses, descriptor, the AVS   *)
(* and CVV options, partial authorization, flags, fees, affiliate,         *)
(* metadata, browser) are left out: nothing refuses them.                  *)
(***************************************************************************)
EXTENDS Integers, Sequences, FiniteSets

CONSTANTS
    Currencies,
    None,       \* a part of the request that is not given
    Empty,      \* the empty string
    Unlisted,   \* a string the builder's tables do not list
    Requests    \* the requests a merchant makes

PaymentMethods == {"card", "token", "savedCard"}
LaterMethods == {"networkToken", "walletToken", "decryptedWalletToken",
                 "bankAccount", "bankMandate"}

\* What the merchant writes and what goes out for it.
IdempotencyWire == [m \in {"OFF", "DECLINE_DUP", "RETURN_ORIGINAL"} |->
    CASE m = "OFF" -> "0" [] m = "DECLINE_DUP" -> "1" [] m = "RETURN_ORIGINAL" -> "2"]
RebillWire == [m \in {"NONE", "REBILL", "START_SUBSCRIPTION"} |->
    CASE m = "NONE" -> "0" [] m = "REBILL" -> "1" [] m = "START_SUBSCRIPTION" -> "2"]
RebillTypeWire == [m \in {"NONE", "TRIAL", "INITIAL", "REBILL"} |->
    CASE m = "NONE" -> "0" [] m = "TRIAL" -> "1" [] m = "INITIAL" -> "2" [] m = "REBILL" -> "3"]

\* A string of the table, one it lacks, or none: not given or empty.
Choices(table) == DOMAIN table \cup {Unlisted, Empty, None}
LineItem == [count : Int, currency : Currencies]

\* amount is read for its currency alone; id is idempotency.xtl_order_id, None
\* without idempotency; wait is risk.timeout_void.seconds.
IsRequest(r) ==
    /\ r.method \in PaymentMethods \cup LaterMethods
    /\ r.items \in Seq(LineItem)
    /\ r.amount \in Currencies \cup {None}
    /\ r.wait \in Int \cup {None}
    /\ r.id \in {"order", Empty, None}
    /\ r.mode \in Choices(IdempotencyWire)
    /\ r.rebill \in Choices(RebillWire)
    /\ r.rebillType \in Choices(RebillTypeWire)

ASSUME NoneAssumption ==
    /\ {None, Empty} \cap (Currencies \cup Int \cup {Unlisted, "order"}) = {}
    /\ \A table \in {IdempotencyWire, RebillWire, RebillTypeWire} :
         {None, Empty, Unlisted} \cap DOMAIN table = {}
ASSUME RequestsAssumption == \A r \in Requests : IsRequest(r)

VARIABLES
    request,
    stage,     \* what the builder reads next, or how it ended
    i,         \* line items read so far
    currency,  \* the local variable of that name
    params,    \* parameters written so far, each with its value
    error      \* the ref_field of the ValidationError, or what was wrong

vars == <<request, stage, i, currency, params, error>>

\* Line items are numbered on the wire; other parameters have number 0.
Param(name, number, value) == [name |-> name, number |-> number, value |-> value]

Init ==
    /\ request \in Requests
    /\ stage = "paymentMethod"
    /\ i = 0
    /\ currency = None
    /\ params = {}
    /\ error = "none"

Raise(kind, what) ==
    /\ stage' = kind
    /\ error' = what
    /\ UNCHANGED <<request, i, currency, params>>

-----------------------------------------------------------------------------
\* The exact parameter each payment method becomes.
MethodParam ==
    [m \in PaymentMethods |->
        CASE m = "card" -> "PMT_NUMB" [] m = "token" -> "TOKEN_GUID"
          [] m = "savedCard" -> "PMT_ID"]

RefuseMethod ==
    /\ stage = "paymentMethod"
    /\ request.method \in LaterMethods
    /\ Raise("TypeError", "paymentMethod")

RefuseNoItems ==
    /\ stage = "paymentMethod"
    /\ request.method \in PaymentMethods
    /\ request.items = <<>>
    /\ Raise("ValidationError", "LI_VALUE_1")

\* Mutant: the currency of the amount is not what the line items must match.
WriteMethodForgetsAmount ==
    /\ stage = "paymentMethod"
    /\ request.method \in PaymentMethods
    /\ request.items # <<>>
    /\ stage' = "lineItems"
    /\ params' = params \cup {Param(MethodParam[request.method], 0, "pm")}
    /\ currency' = None
    /\ UNCHANGED <<request, i, error>>

WriteMethod ==
    /\ stage = "paymentMethod"
    /\ request.method \in PaymentMethods
    /\ request.items # <<>>
    /\ stage' = "lineItems"
    /\ params' = params \cup {Param(MethodParam[request.method], 0, "pm")}
    /\ currency' = request.amount
    /\ UNCHANGED <<request, i, error>>

Item == request.items[i + 1]

CountAllowed(count) == count <= 10

CurrencyMatches == currency = None \/ Item.currency = currency

RefuseCount ==
    /\ stage = "lineItems" /\ i < Len(request.items)
    /\ ~CountAllowed(Item.count)
    /\ Raise("ValidationError", "LI_COUNT")

RefuseCurrency ==
    /\ stage = "lineItems" /\ i < Len(request.items)
    /\ CountAllowed(Item.count)
    /\ ~CurrencyMatches
    /\ Raise("ValidationError", "currency")

\* Mutants: line items numbered from 0, or from 2.
WriteItemFrom(first) ==
    /\ stage = "lineItems" /\ i < Len(request.items)
    /\ CountAllowed(Item.count)
    /\ CurrencyMatches
    /\ i' = i + 1
    /\ currency' = Item.currency
    /\ params' = params \cup {Param("LI_COUNT", i + first, Item.count),
                              Param("LI_VALUE", i + first, "v")}
    /\ UNCHANGED <<request, stage, error>>

WriteItemFromZero == WriteItemFrom(0)
WriteItemFromTwo == WriteItemFrom(2)

WriteItem ==
    /\ stage = "lineItems" /\ i < Len(request.items)
    /\ CountAllowed(Item.count)
    /\ CurrencyMatches
    /\ i' = i + 1
    /\ currency' = Item.currency
    /\ params' = params \cup {Param("LI_COUNT", i + 1, Item.count),
                              Param("LI_VALUE", i + 1, "v")}
    /\ UNCHANGED <<request, stage, error>>

WriteCurrency ==
    /\ stage = "lineItems" /\ i = Len(request.items)
    /\ stage' = "risk"
    /\ params' = params \cup {Param("REQUEST_CURRENCY", 0, currency)}
    /\ UNCHANGED <<request, i, currency, error>>

WaitAllowed(s) == s \in 30 .. 600

RefuseWait ==
    /\ stage = "risk"
    /\ request.wait # None
    /\ ~WaitAllowed(request.wait)
    /\ Raise("ValidationError", "REQUEST_MAX_WAIT")

\* _put writes nothing for None and nothing for "".
Written(name, value) ==
    IF value \in {None, Empty} THEN {} ELSE {Param(name, 0, value)}

WriteWait ==
    /\ stage = "risk"
    /\ request.wait = None \/ WaitAllowed(request.wait)
    /\ stage' = "idempotency"
    /\ params' = params \cup Written("REQUEST_MAX_WAIT", request.wait)
    /\ UNCHANGED <<request, i, currency, error>>

\* A string no table lists is a KeyError; None and "" are not looked up.
Listed(table, choice) == choice \in DOMAIN table \cup {None, Empty}

RefuseMode ==
    /\ stage = "idempotency"
    /\ request.id # None /\ ~Listed(IdempotencyWire, request.mode)
    /\ Raise("KeyError", "mode")

\* The mode goes out beside the order id, but does not wait for one.
IdempotencyParams ==
    IF request.id = None THEN {}
    ELSE Written("XTL_ORDER_ID", request.id)
           \cup {Param("UNIQUE_XTL_ORDER_ID", 0,
                       IdempotencyWire[IF request.mode \in {None, Empty} THEN "RETURN_ORIGINAL"
                                       ELSE request.mode])}

WriteIdempotency ==
    /\ stage = "idempotency"
    /\ request.id = None \/ Listed(IdempotencyWire, request.mode)
    /\ stage' = "recurring"
    /\ params' = params \cup IdempotencyParams
    /\ UNCHANGED <<request, i, currency, error>>

RebillsListed ==
    Listed(RebillWire, request.rebill) /\ Listed(RebillTypeWire, request.rebillType)

RefuseRebill ==
    /\ stage = "recurring"
    /\ ~RebillsListed
    /\ Raise("KeyError", "recurring")

RebillParam(name, table, choice) ==
    IF choice \in DOMAIN table THEN {Param(name, 0, table[choice])} ELSE {}

\* What comes after the recurring options is only copied.
WriteRecurring ==
    /\ stage = "recurring"
    /\ RebillsListed
    /\ stage' = "built"
    /\ params' = params
         \cup RebillParam("REQUEST_REBILL", RebillWire, request.rebill)
         \cup RebillParam("TRANS_REBILL_TYPE", RebillTypeWire, request.rebillType)
    /\ UNCHANGED <<request, i, currency, error>>

Next ==
    \/ RefuseMethod \/ RefuseNoItems \/ WriteMethod
    \/ RefuseCount \/ RefuseCurrency \/ WriteItem \/ WriteCurrency
    \/ RefuseWait \/ WriteWait \/ RefuseMode \/ WriteIdempotency
    \/ RefuseRebill \/ WriteRecurring

Spec == Init /\ [][Next]_vars

-----------------------------------------------------------------------------
(* Properties                                                              *)

\* build_transaction_params numbers the wire keys of the line items from one and
\* within the items given; its locals keep their types.
TypeOK ==
    /\ request \in Requests
    /\ stage \in {"paymentMethod", "lineItems", "risk", "idempotency", "recurring",
                  "built", "TypeError", "ValidationError", "KeyError"}
    /\ i \in 0 .. Len(request.items)
    /\ currency \in Currencies \cup {None}
    /\ \A p \in params : p.number \in 0 .. Len(request.items)
    /\ error \in {"none", "paymentMethod", "LI_VALUE_1", "LI_COUNT", "currency",
                  "REQUEST_MAX_WAIT", "mode", "recurring"}

\* The currencies a request names for the amount and its line items.
ItemCurrencies(r) ==
    {r.items[k].currency : k \in DOMAIN r.items}
      \cup (IF r.amount = None THEN {} ELSE {r.amount})

\* What the wire can carry: a payment method of this version, something to
\* charge for, no line item over its count, a single currency, a wait in range,
\* and a wire value for every option that is looked up.
Acceptable(r) ==
    /\ r.method \in PaymentMethods
    /\ r.items # <<>>
    /\ \A k \in DOMAIN r.items : r.items[k].count <= 10
    /\ \A c, d \in ItemCurrencies(r) : c = d
    /\ r.wait # None => 30 <= r.wait /\ r.wait <= 600
    /\ r.id # None => r.mode # Unlisted
    /\ Unlisted \notin {r.rebill, r.rebillType}

Ended == stage \in {"built", "TypeError", "ValidationError", "KeyError"}

\* A request is built exactly when it is acceptable as a whole, whichever line
\* item breaks it and wherever the currency came from: nothing wrong is posted
\* and nothing right is refused.
BuiltIffAcceptable == Ended => (stage = "built" <=> Acceptable(request))

Values(name) == {p.value : p \in {q \in params : q.name = name}}

\* The line items of a built request are numbered 1 to n without a gap, each
\* with its own count, in the one currency the request is made in.
WireItemsMatch ==
    stage = "built" =>
        /\ \A k \in DOMAIN request.items :
             {p.value : p \in {q \in params : q.name = "LI_COUNT" /\ q.number = k}}
               = {request.items[k].count}
        /\ Cardinality({p \in params : p.name = "LI_VALUE"}) = Len(request.items)
        /\ Values("REQUEST_CURRENCY") = ItemCurrencies(request)
=============================================================================
