------------------------ MODULE RequestBuild_proofs ------------------------
(***************************************************************************)
(* Proofs about RequestBuild, for requests of any size.                    *)
(***************************************************************************)
EXTENDS RequestBuild, FiniteSetTheorems, SequenceTheorems, TLAPS

Options == {"idempotency", "recurring", "built"}
AfterItems == {"risk"} \cup Options

\* What the checks passed so far have established of the request.
MethodPassed ==
    stage \in {"lineItems"} \cup AfterItems =>
        request.method \in PaymentMethods /\ request.items # <<>>

ItemsPassed ==
    /\ stage = "paymentMethod" => i = 0
    /\ stage \in {"lineItems"} \cup AfterItems =>
         /\ \A k \in 1 .. i : /\ request.items[k].count <= 10
                              /\ request.items[k].currency = currency
         /\ request.amount # None => currency = request.amount
         /\ i = 0 => currency = request.amount
         /\ i # 0 => currency # None
    /\ stage \in AfterItems => i = Len(request.items)

OptionsPassed ==
    /\ stage \in Options => request.wait = None \/ WaitAllowed(request.wait)
    /\ stage \in {"recurring", "built"} =>
         request.id = None \/ Listed(IdempotencyWire, request.mode)
    /\ stage = "built" => RebillsListed

RefusalsDeserved ==
    stage \in {"TypeError", "ValidationError", "KeyError"} => ~Acceptable(request)

IInv == TypeOK /\ MethodPassed /\ ItemsPassed /\ OptionsPassed /\ RefusalsDeserved

-----------------------------------------------------------------------------
\* The parts of a request are what IsRequest says.
LEMMA RequestParts ==
    ASSUME TypeOK
    PROVE  /\ IsRequest(request)
           /\ request.items \in Seq(LineItem)
           /\ Len(request.items) \in Nat
           /\ \A k \in 1 .. Len(request.items) :
                /\ request.items[k] \in LineItem
                /\ request.items[k].count \in Int
                /\ request.items[k].currency \in Currencies
           /\ request.amount \in Currencies \cup {None}
           /\ request.wait \in Int \cup {None}
           /\ None \notin Currencies
<1>1. IsRequest(request)
  BY RequestsAssumption DEF TypeOK
<1>2. request.items \in Seq(LineItem)
  BY <1>1 DEF IsRequest
<1>3. \A k \in 1 .. Len(request.items) : request.items[k] \in LineItem
  BY <1>2
<1> QED BY <1>1, <1>2, <1>3, NoneAssumption DEF IsRequest, LineItem

\* An option not given, or listed, is not the string the tables lack.
LEMMA ChoicesAre ==
    ASSUME TypeOK
    PROVE  /\ request.mode \in Choices(IdempotencyWire)
           /\ request.rebill \in Choices(RebillWire)
           /\ request.rebillType \in Choices(RebillTypeWire)
           /\ \A table \in {IdempotencyWire, RebillWire, RebillTypeWire} :
                \A choice \in Choices(table) : Listed(table, choice) <=> choice # Unlisted
<1>1. /\ request.mode \in Choices(IdempotencyWire)
      /\ request.rebill \in Choices(RebillWire)
      /\ request.rebillType \in Choices(RebillTypeWire)
  BY RequestParts DEF IsRequest
<1>2. ASSUME NEW table \in {IdempotencyWire, RebillWire, RebillTypeWire},
             NEW choice \in Choices(table)
      PROVE  Listed(table, choice) <=> choice # Unlisted
  <2>1. Unlisted \notin DOMAIN table /\ Unlisted \notin {None, Empty}
    BY NoneAssumption
  <2> QED BY <2>1 DEF Listed, Choices
<1> QED BY <1>1, <1>2

\* Two currencies among the amount and the line items make a request
\* unacceptable, wherever they are.
LEMMA TwoCurrencies ==
    ASSUME NEW r, NEW c \in ItemCurrencies(r), NEW d \in ItemCurrencies(r), c # d
    PROVE  ~Acceptable(r)
BY DEF Acceptable

\* The initial state satisfies the inductive invariant.
LEMMA InvInit == Init => IInv
<1> SUFFICES ASSUME Init PROVE IInv
  OBVIOUS
<1>1. IsRequest(request)
  BY RequestsAssumption DEF Init
<1>2. Len(request.items) \in Nat
  BY <1>1 DEF IsRequest
<1>3. TypeOK
  BY <1>2 DEF Init, TypeOK
<1>4. ItemsPassed
  BY DEF Init, ItemsPassed, AfterItems, Options
<1>5. MethodPassed /\ OptionsPassed /\ RefusalsDeserved
  BY DEF Init, MethodPassed, OptionsPassed, RefusalsDeserved, AfterItems, Options
<1> QED BY <1>3, <1>4, <1>5 DEF IInv

\* Each step checks or reads what the invariant says it did; the step that
\* refuses a currency is the one that needs the currencies read before.
LEMMA InvNext == IInv /\ [Next]_vars => IInv'
<1> SUFFICES ASSUME IInv, [Next]_vars PROVE IInv'
  OBVIOUS
<1> USE DEF IInv, Options, AfterItems
<1>p. /\ IsRequest(request)
      /\ Len(request.items) \in Nat
      /\ \A k \in 1 .. Len(request.items) :
           /\ request.items[k].count \in Int
           /\ request.items[k].currency \in Currencies
      /\ request.amount \in Currencies \cup {None}
      /\ request.wait \in Int \cup {None}
      /\ None \notin Currencies
  BY RequestParts
<1>r. ASSUME NEW kind \in {"TypeError", "ValidationError", "KeyError"},
             NEW what \in {"paymentMethod", "LI_VALUE_1", "LI_COUNT", "currency",
                           "REQUEST_MAX_WAIT", "mode", "recurring"},
             Raise(kind, what), ~Acceptable(request)
      PROVE  IInv'
  BY <1>r DEF Raise, TypeOK, MethodPassed, ItemsPassed, OptionsPassed,
     RefusalsDeserved
<1>1. CASE RefuseMethod
  <2>1. ~Acceptable(request)
    BY <1>1 DEF RefuseMethod, Acceptable, PaymentMethods, LaterMethods
  <2> QED BY <1>1, <1>r, <2>1 DEF RefuseMethod
<1>2. CASE RefuseNoItems
  <2>1. ~Acceptable(request)
    BY <1>2 DEF RefuseNoItems, Acceptable
  <2> QED BY <1>2, <1>r, <2>1 DEF RefuseNoItems
<1>3. CASE WriteMethod
  <2>1. \A p \in params' : p.number \in 0 .. Len(request.items)
    BY <1>3, <1>p DEF WriteMethod, TypeOK, Param
  <2> QED BY <1>3, <1>p, <2>1 DEF WriteMethod, TypeOK, MethodPassed, ItemsPassed,
             OptionsPassed, RefusalsDeserved
<1>4. CASE RefuseCount
  <2>1. i + 1 \in 1 .. Len(request.items) /\ ~(request.items[i + 1].count <= 10)
    BY <1>4, <1>p DEF RefuseCount, CountAllowed, Item, TypeOK
  <2>2. ~Acceptable(request)
    BY <2>1, <1>p DEF Acceptable, IsRequest
  <2> QED BY <1>4, <1>r, <2>2 DEF RefuseCount
<1>5. CASE RefuseCurrency
  <2>1. /\ i + 1 \in 1 .. Len(request.items)
        /\ currency # None
        /\ request.items[i + 1].currency # currency
    BY <1>5, <1>p DEF RefuseCurrency, CurrencyMatches, Item, TypeOK
  <2>2. request.items[i + 1].currency \in ItemCurrencies(request)
    BY <2>1, <1>p DEF ItemCurrencies, IsRequest
  <2>3. CASE request.amount # None
    <3>1. currency \in ItemCurrencies(request)
      BY <1>5, <2>3 DEF RefuseCurrency, ItemsPassed, ItemCurrencies
    <3>2. ~Acceptable(request)
      BY <2>1, <2>2, <3>1, TwoCurrencies
    <3> QED BY <1>5, <1>r, <3>2 DEF RefuseCurrency
  <2>4. CASE request.amount = None /\ i # 0
    <3>1. 1 \in 1 .. i /\ 1 \in 1 .. Len(request.items)
      BY <2>4, <1>p DEF TypeOK
    <3>2. request.items[1].currency = currency
      BY <1>5, <3>1 DEF RefuseCurrency, ItemsPassed
    <3>3. currency \in ItemCurrencies(request)
      BY <3>1, <3>2, <1>p DEF ItemCurrencies, IsRequest
    <3>4. ~Acceptable(request)
      BY <2>1, <2>2, <3>3, TwoCurrencies
    <3> QED BY <1>5, <1>r, <3>4 DEF RefuseCurrency
  <2>5. ~(request.amount = None /\ i = 0)
    BY <1>5, <2>1 DEF RefuseCurrency, ItemsPassed
  <2> QED BY <2>3, <2>4, <2>5
<1>6. CASE WriteItem
  <2>1. i + 1 \in 1 .. Len(request.items) /\ i' = i + 1 /\ i \in Nat
    BY <1>6, <1>p DEF WriteItem, TypeOK
  <2>2. \A p \in params' : p.number \in 0 .. Len(request.items)
    BY <1>6, <1>p, <2>1 DEF WriteItem, TypeOK, Param
  <2>3. \A k \in 1 .. i' : request.items[k].count <= 10
                           /\ request.items[k].currency = currency'
    <3>1. request.items[i + 1].count <= 10 /\ currency' = request.items[i + 1].currency
      BY <1>6 DEF WriteItem, CountAllowed, Item
    <3>2. i # 0 => currency' = currency
      BY <1>6, <3>1, <2>1 DEF WriteItem, CurrencyMatches, Item, ItemsPassed
    <3>3. ASSUME NEW k \in 1 .. i'
          PROVE  request.items[k].count <= 10 /\ request.items[k].currency = currency'
      <4>1. CASE k = i + 1
        BY <4>1, <3>1
      <4>2. CASE k # i + 1
        <5>1. k \in 1 .. i /\ i # 0
          BY <4>2, <2>1
        <5>2. request.items[k].count <= 10 /\ request.items[k].currency = currency
          BY <5>1, <1>6 DEF WriteItem, ItemsPassed
        <5> QED BY <5>1, <5>2, <3>2
      <4> QED BY <4>1, <4>2
    <3>4. request' = request
      BY <1>6 DEF WriteItem
    <3> QED BY <3>3, <3>4
  <2>4. request.amount # None => currency' = request.amount
    BY <1>6, <1>p DEF WriteItem, CurrencyMatches, Item, ItemsPassed
  <2>5. currency' \in Currencies
    BY <1>6, <2>1, <1>p DEF WriteItem, Item
  <2>6. TypeOK'
    BY <1>6, <2>1, <2>2, <2>5, <1>p DEF WriteItem, TypeOK
  <2>7. ItemsPassed'
    <3>1. stage = "lineItems" /\ stage' = stage /\ request' = request
      BY <1>6 DEF WriteItem
    <3>2. i' # 0 /\ currency' # None
      BY <2>1, <2>5, <1>p
    <3> QED BY <3>1, <3>2, <2>3, <2>4 DEF ItemsPassed
  <2> QED BY <1>6, <2>6, <2>7 DEF WriteItem, MethodPassed, OptionsPassed,
             RefusalsDeserved
<1>7. CASE WriteCurrency
  <2>1. \A p \in params' : p.number \in 0 .. Len(request.items)
    BY <1>7, <1>p DEF WriteCurrency, TypeOK, Param
  <2> QED BY <1>7, <1>p, <2>1 DEF WriteCurrency, TypeOK, MethodPassed, ItemsPassed,
             OptionsPassed, RefusalsDeserved
<1>8. CASE RefuseWait
  <2>1. ~Acceptable(request)
    <3>1. request.wait # None /\ request.wait \notin 30 .. 600
      BY <1>8 DEF RefuseWait, WaitAllowed
    <3>2. request.wait \in Int
      BY <3>1, <1>p
    <3>3. ~(30 <= request.wait /\ request.wait <= 600)
      BY <3>1, <3>2
    <3> QED BY <3>1, <3>3 DEF Acceptable
  <2> QED BY <1>8, <1>r, <2>1 DEF RefuseWait
<1>9. CASE WriteWait
  <2>1. \A p \in params' : p.number \in 0 .. Len(request.items)
    BY <1>9, <1>p DEF WriteWait, TypeOK, Param, Written
  <2> QED BY <1>9, <1>p, <2>1 DEF WriteWait, TypeOK, MethodPassed, ItemsPassed,
             OptionsPassed, RefusalsDeserved
<1>10. CASE RefuseMode
  <2>1. ~Acceptable(request)
    BY <1>10, ChoicesAre DEF RefuseMode, Acceptable, Listed
  <2> QED BY <1>10, <1>r, <2>1 DEF RefuseMode
<1>11. CASE WriteIdempotency
  <2>1. \A p \in params' : p.number \in 0 .. Len(request.items)
    BY <1>11, <1>p DEF WriteIdempotency, TypeOK, Param, Written, IdempotencyParams
  <2> QED BY <1>11, <1>p, <2>1 DEF WriteIdempotency, TypeOK, MethodPassed, ItemsPassed,
             OptionsPassed, RefusalsDeserved
<1>12. CASE RefuseRebill
  <2>1. ~Acceptable(request)
    BY <1>12, ChoicesAre DEF RefuseRebill, RebillsListed, Acceptable, Listed
  <2> QED BY <1>12, <1>r, <2>1 DEF RefuseRebill
<1>13. CASE WriteRecurring
  <2>1. \A p \in params' : p.number \in 0 .. Len(request.items)
    BY <1>13, <1>p DEF WriteRecurring, TypeOK, Param, RebillParam
  <2>2. RebillsListed'
    BY <1>13 DEF WriteRecurring, RebillsListed
  <2> QED BY <1>13, <1>p, <2>1, <2>2 DEF WriteRecurring, TypeOK, MethodPassed,
             ItemsPassed, OptionsPassed, RefusalsDeserved
<1>14. CASE UNCHANGED vars
  BY <1>14 DEF vars, TypeOK, MethodPassed, ItemsPassed, OptionsPassed, RebillsListed,
     RefusalsDeserved
<1> QED
  BY <1>1, <1>2, <1>3, <1>4, <1>5, <1>6, <1>7, <1>8, <1>9, <1>10, <1>11, <1>12, <1>13,
     <1>14 DEF Next

\* When the builder ends with parameters, every check it made adds up to the
\* request being acceptable as a whole.
LEMMA BuiltIsAcceptable ==
    ASSUME IInv, stage = "built"
    PROVE  Acceptable(request)
<1> USE DEF Options, AfterItems
<1>1. /\ Len(request.items) \in Nat
      /\ request.items \in Seq(LineItem)
  BY RequestParts DEF IInv
<1>2. request.method \in PaymentMethods /\ request.items # <<>>
  BY DEF IInv, MethodPassed
<1>3. \A k \in DOMAIN request.items :
        request.items[k].count <= 10 /\ request.items[k].currency = currency
  BY <1>1 DEF IInv, ItemsPassed
<1>4. \A c \in ItemCurrencies(request) : c = currency
  BY <1>3 DEF IInv, ItemsPassed, ItemCurrencies
<1>5. request.wait # None => 30 <= request.wait /\ request.wait <= 600
  <2> SUFFICES ASSUME request.wait # None
               PROVE  30 <= request.wait /\ request.wait <= 600
    OBVIOUS
  <2>1. request.wait \in 30 .. 600
    BY DEF IInv, OptionsPassed, WaitAllowed
  <2> QED BY <2>1
<1>6. request.id # None => request.mode # Unlisted
  BY ChoicesAre DEF IInv, OptionsPassed
<1>7. Unlisted \notin {request.rebill, request.rebillType}
  BY ChoicesAre DEF IInv, OptionsPassed, RebillsListed
<1> QED BY <1>2, <1>3, <1>4, <1>5, <1>6, <1>7 DEF Acceptable

\* Every variable of the builder keeps its type.
THEOREM BuilderTypeCorrect == Spec => []TypeOK
<1>1. IInv => TypeOK
  BY DEF IInv
<1> QED BY <1>1, InvInit, InvNext, PTL DEF Spec

\* For requests of any number of line items, currencies and parts: the builder
\* lets a request through exactly when all of it is acceptable.
THEOREM BuildsWhatIsAcceptable == Spec => []BuiltIffAcceptable
<1>1. IInv => BuiltIffAcceptable
  <2> SUFFICES ASSUME IInv, Ended PROVE stage = "built" <=> Acceptable(request)
    BY DEF BuiltIffAcceptable
  <2>1. CASE stage = "built"
    BY <2>1, BuiltIsAcceptable
  <2>2. CASE stage \in {"TypeError", "ValidationError", "KeyError"}
    BY <2>2 DEF IInv, RefusalsDeserved
  <2> QED BY <2>1, <2>2 DEF Ended
<1> QED BY <1>1, InvInit, InvNext, PTL DEF Spec
-----------------------------------------------------------------------------
(* What has been written                                                   *)

MethodParams == {Param(MethodParam[request.method], 0, "pm")}

ItemParams(m) ==
    {Param("LI_COUNT", k, request.items[k].count) : k \in 1 .. m}
      \cup {Param("LI_VALUE", k, "v") : k \in 1 .. m}

CurrencyParams == {Param("REQUEST_CURRENCY", 0, currency)}

RebillParams ==
    RebillParam("REQUEST_REBILL", RebillWire, request.rebill)
      \cup RebillParam("TRANS_REBILL_TYPE", RebillTypeWire, request.rebillType)

\* The options written at each stage after the line items.
OptionParams ==
    CASE stage = "risk" -> CurrencyParams
      [] stage = "idempotency" ->
           CurrencyParams \cup Written("REQUEST_MAX_WAIT", request.wait)
      [] stage = "recurring" ->
           CurrencyParams \cup Written("REQUEST_MAX_WAIT", request.wait)
             \cup IdempotencyParams
      [] stage = "built" ->
           CurrencyParams \cup Written("REQUEST_MAX_WAIT", request.wait)
             \cup IdempotencyParams \cup RebillParams

\* The parameters at each stage are those of what was read, and no others.
ParamsWritten ==
    /\ stage = "paymentMethod" => params = {}
    /\ stage = "lineItems" => params = MethodParams \cup ItemParams(i)
    /\ stage \in AfterItems => params = MethodParams \cup ItemParams(i) \cup OptionParams

\* Each line item is written once, under its number.
LEMMA ParamsNext == IInv /\ ParamsWritten /\ [Next]_vars => ParamsWritten'
<1> SUFFICES ASSUME IInv, ParamsWritten, [Next]_vars PROVE ParamsWritten'
  OBVIOUS
<1> USE DEF Options, AfterItems
<1>1. CASE \/ RefuseMethod \/ RefuseNoItems \/ RefuseCount \/ RefuseCurrency
           \/ RefuseWait \/ RefuseMode \/ RefuseRebill
  BY <1>1 DEF RefuseMethod, RefuseNoItems, RefuseCount, RefuseCurrency, RefuseWait,
     RefuseMode, RefuseRebill, Raise, ParamsWritten
<1>2. CASE WriteMethod
  <2>1. i' = 0 /\ request' = request /\ params' = MethodParams /\ stage' = "lineItems"
    BY <1>2 DEF WriteMethod, ParamsWritten, MethodParams, IInv, ItemsPassed
  <2>2. ItemParams(0)' = {}
    BY DEF ItemParams
  <2> QED BY <2>1, <2>2 DEF ParamsWritten, MethodParams
<1>3. CASE WriteItem
  <2>1. /\ request' = request /\ stage' = "lineItems" /\ i' = i + 1 /\ i \in Nat
        /\ params' = params \cup {Param("LI_COUNT", i + 1, request.items[i + 1].count),
                                  Param("LI_VALUE", i + 1, "v")}
        /\ params = MethodParams \cup ItemParams(i)
    BY <1>3, RequestParts DEF WriteItem, ParamsWritten, Item, IInv, TypeOK
  <2>2. 1 .. i + 1 = (1 .. i) \cup {i + 1}
    BY <2>1
  <2>3. ItemParams(i + 1) = ItemParams(i) \cup
          {Param("LI_COUNT", i + 1, request.items[i + 1].count), Param("LI_VALUE", i + 1, "v")}
    BY <2>2 DEF ItemParams
  <2>4. ItemParams(i)' = ItemParams(i + 1) /\ MethodParams' = MethodParams
    BY <2>1 DEF ItemParams, MethodParams
  <2> QED BY <2>1, <2>3, <2>4 DEF ParamsWritten
<1>4. CASE WriteCurrency
  BY <1>4 DEF WriteCurrency, ParamsWritten, MethodParams, ItemParams, OptionParams,
     CurrencyParams
<1>5. CASE WriteWait
  BY <1>5 DEF WriteWait, ParamsWritten, MethodParams, ItemParams, OptionParams,
     CurrencyParams, Written
<1>6. CASE WriteIdempotency
  BY <1>6 DEF WriteIdempotency, ParamsWritten, MethodParams, ItemParams, OptionParams,
     CurrencyParams, Written, IdempotencyParams
<1>7. CASE WriteRecurring
  BY <1>7 DEF WriteRecurring, ParamsWritten, MethodParams, ItemParams, OptionParams,
     CurrencyParams, Written, IdempotencyParams, RebillParams, RebillParam
<1>8. CASE UNCHANGED vars
  BY <1>8 DEF vars, ParamsWritten, MethodParams, ItemParams, OptionParams,
     CurrencyParams, Written, IdempotencyParams, RebillParams, RebillParam
<1> QED BY <1>1, <1>2, <1>3, <1>4, <1>5, <1>6, <1>7, <1>8 DEF Next

\* At every stage the parameters are those written so far.
LEMMA BuiltParams == Spec => [](IInv /\ ParamsWritten)
<1>1. Init => ParamsWritten
  BY DEF Init, ParamsWritten, AfterItems, Options
<1> QED BY <1>1, InvInit, InvNext, ParamsNext, PTL DEF Spec

\* What the wire says of line items and currency is said by nothing else.
LEMMA ParamNames ==
    ASSUME IInv, ParamsWritten, stage = "built", NEW p \in params,
           p.name \in {"LI_COUNT", "LI_VALUE", "REQUEST_CURRENCY"}
    PROVE  \/ \E k \in 1 .. i : p = Param("LI_COUNT", k, request.items[k].count)
           \/ \E k \in 1 .. i : p = Param("LI_VALUE", k, "v")
           \/ p = Param("REQUEST_CURRENCY", 0, currency)
<1>1. p \in MethodParams \/ p \in ItemParams(i) \/ p \in OptionParams
  BY DEF ParamsWritten, AfterItems, Options
<1>2. CASE p \in MethodParams
  <2>1. request.method \in PaymentMethods
    BY DEF IInv, MethodPassed, AfterItems, Options
  <2> QED BY <1>2, <2>1 DEF MethodParams, MethodParam, PaymentMethods, Param
<1>3. CASE p \in ItemParams(i)
  BY <1>3 DEF ItemParams, Param
<1>4. CASE p \in OptionParams
  BY <1>4 DEF OptionParams, CurrencyParams, Written, IdempotencyParams, RebillParams,
     RebillParam, Param
<1> QED BY <1>1, <1>2, <1>3, <1>4

\* For any number of line items: each goes out under its number with its own
\* count, there is a value for each and no more, and all in the one currency of
\* the request.
THEOREM WireSaysTheItems == Spec => []WireItemsMatch
<1>1. IInv /\ ParamsWritten => WireItemsMatch
  <2> SUFFICES ASSUME IInv, ParamsWritten, stage = "built"
               PROVE  /\ \A k \in DOMAIN request.items :
                           {p.value : p \in {q \in params : q.name = "LI_COUNT" /\ q.number = k}}
                             = {request.items[k].count}
                      /\ Cardinality({p \in params : p.name = "LI_VALUE"}) = Len(request.items)
                      /\ Values("REQUEST_CURRENCY") = ItemCurrencies(request)
    BY DEF WireItemsMatch
  <2>1. /\ i = Len(request.items) /\ Len(request.items) \in Nat
        /\ DOMAIN request.items = 1 .. Len(request.items)
        /\ request.items # << >>
    BY RequestParts DEF IInv, ItemsPassed, MethodPassed, AfterItems, Options
  <2>2. ItemParams(i) \subseteq params /\ Param("REQUEST_CURRENCY", 0, currency) \in params
    BY DEF ParamsWritten, OptionParams, CurrencyParams, AfterItems, Options
  <2>3. \A p \in params : p.name \in {"LI_COUNT", "LI_VALUE", "REQUEST_CURRENCY"} =>
          \/ \E k \in 1 .. i : p = Param("LI_COUNT", k, request.items[k].count)
          \/ \E k \in 1 .. i : p = Param("LI_VALUE", k, "v")
          \/ p = Param("REQUEST_CURRENCY", 0, currency)
    BY ParamNames
  <2>4. ASSUME NEW k \in DOMAIN request.items
        PROVE  {p.value : p \in {q \in params : q.name = "LI_COUNT" /\ q.number = k}}
                 = {request.items[k].count}
    <3>1. Param("LI_COUNT", k, request.items[k].count) \in params
      BY <2>1, <2>2 DEF ItemParams
    <3>2. \A p \in params : p.name = "LI_COUNT" /\ p.number = k =>
                              p = Param("LI_COUNT", k, request.items[k].count)
      BY <2>3 DEF Param
    <3> QED BY <3>1, <3>2 DEF Param
  <2>5. Cardinality({p \in params : p.name = "LI_VALUE"}) = Len(request.items)
    <3> DEFINE S == {p \in params : p.name = "LI_VALUE"}
               number == [k \in 1 .. i |-> Param("LI_VALUE", k, "v")]
    <3>1. \A k \in 1 .. i : Param("LI_VALUE", k, "v") \in S
      BY <2>2 DEF ItemParams, Param
    <3>2. \A p \in S : \E k \in 1 .. i : p = Param("LI_VALUE", k, "v")
      BY <2>3 DEF Param
    <3>3. number \in Bijection(1 .. i, S)
      <4>1. number \in [1 .. i -> S]
        BY <3>1
      <4>2. \A k, l \in 1 .. i : number[k] = number[l] => k = l
        BY DEF Param
      <4>3. \A p \in S : \E k \in 1 .. i : number[k] = p
        BY <3>2
      <4> HIDE DEF S, number
      <4> QED BY <4>1, <4>2, <4>3 DEF Bijection, Injection, Surjection, IsInjective
    <3>4. ExistsBijection(1 .. i, S)
      BY <3>3 DEF ExistsBijection
    <3> QED BY <2>1, <3>4, FS_CountingElements
  <2>6. Values("REQUEST_CURRENCY") = {currency}
    BY <2>2, <2>3 DEF Values, Param
  <2>7. ItemCurrencies(request) = {currency}
    <3>1. \A k \in DOMAIN request.items : request.items[k].currency = currency
      BY <2>1 DEF IInv, ItemsPassed, AfterItems, Options
    <3>2. 1 \in DOMAIN request.items
      BY <2>1, RequestParts, EmptySeq DEF IInv
    <3>3. request.amount # None => request.amount = currency
      BY DEF IInv, ItemsPassed, AfterItems, Options
    <3> QED BY <3>1, <3>2, <3>3 DEF ItemCurrencies
  <2> QED BY <2>4, <2>5, <2>6, <2>7
<1> QED BY <1>1, BuiltParams, PTL
=============================================================================
