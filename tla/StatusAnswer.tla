---------------------------- MODULE StatusAnswer ----------------------------
(***************************************************************************)
(* One answer to status(), from the body to the OrderStatus: is it a       *)
(* table, which rows become legs, what ResultMapper makes of each of them, *)
(* and what the order is keyed and summed by.  The gateway wrote the rows  *)
(* over many calls, and each can lack what another one has.                *)
(*                                                                         *)
(* A row is a response of ResultMapper with the fields the aggregate looks *)
(* at.  How a field is found in a row is in Responses, all figures of an   *)
(* order are in OrderLedger; two of them stand for the others here.        *)
(***************************************************************************)
EXTENDS ResultMapper, Integers, Sequences, FiniteSetsExt

CONSTANTS
    Currencies,  \* currency codes
    NoList,      \* an element of DATA that is not a list of cells
    Bodies       \* the answers considered

\* What CURR_CODE_ALPHA holds, a code or no code, by what the mapper tells apart.
CodesFor(currency) ==
    CASE currency = "good" -> Currencies
      [] currency = "bad" -> {"malformed"}
      [] currency = "absent" -> {"empty", "missing"}

Codes == Currencies \cup {"malformed", "empty", "missing"}

RowFields ==
    [status : Statuses \cup {"unlisted", "absent"}, lineItem : {"absent", "empty", "good"},
     value : Fields, currency : Fields, rate : Fields \cup {"zero"},
     settledValue : Fields, settledCurrency : Fields, prompts : SUBSET Prompts,
     code : Codes, kind : {"auth", "capture", "none"}, amount : Nat,
     po : BOOLEAN, xtl : BOOLEAN]

IsRow(row) == row \in RowFields /\ row.code \in CodesFor(row.currency)

\* table: COLUMNS and DATA; foreignCase: the same in any other case; flat: the
\* fields of one transaction.  po: does PO_ID stand beside the rows?
IsBody(b) ==
    /\ b.shape \in {"table", "foreignCase", "flat"}
    /\ b.po \in BOOLEAN
    /\ b.rows \in Seq(RowFields \cup {NoList})
    /\ \A k \in DOMAIN b.rows : b.rows[k] = NoList \/ IsRow(b.rows[k])
    /\ b.shape = "flat" => Len(b.rows) = 1 /\ IsRow(b.rows[1])

\* A map without any field the mapper knows.
NoFields == [status |-> "absent", lineItem |-> "absent", value |-> "absent",
             currency |-> "absent", rate |-> "absent", settledValue |-> "absent",
             settledCurrency |-> "absent", prompts |-> {}, code |-> "missing",
             kind |-> "none", amount |-> 0, po |-> FALSE, xtl |-> FALSE]

ASSUME CurrenciesAssumption ==
    "USD" \in Currencies /\ {"malformed", "empty", "missing"} \cap Currencies = {}
ASSUME NoListAssumption == NoList \notin RowFields
ASSUME BodiesAssumption == \A b \in Bodies : IsBody(b)

VARIABLES
    body,     \* the answer
    at,       \* where status() is in reading it
    n,        \* how many rows it has been through
    raw,      \* the flat fields that normalize_response made of the body
    legs,     \* the maps _extract_legs has made
    results,  \* the legs mapped so far: TransactionResults with their raw maps
    answer    \* what status() returned or raised

readVars == <<body, at, n, raw, legs>>
statusVars == <<readVars, results, answer>>

StatusInit ==
    /\ body \in Bodies
    /\ at = "received" /\ n = 0 /\ raw = NoFields
    /\ legs = << >> /\ results = << >>
    /\ response = NoFields /\ outcome = Raised("none") /\ answer = Raised("none")

-----------------------------------------------------------------------------
(* normalize_response and _extract_legs                                    *)

Tabular == body.shape = "table"

\* A table is kept as it is.  Anything else is flattened: the rows of a table in
\* other letters become COLUMNS_1, DATA_11 and so on, which nobody looks up.
Normalize ==
    /\ at = "received"
    /\ at' = "extracting"
    /\ raw' = CASE Tabular -> NoFields
                [] body.shape = "flat" -> body.rows[1]
                [] OTHER -> [NoFields EXCEPT !.po = body.po]
    /\ UNCHANGED <<body, n, legs, results, answer, vars>>

\* Mutant: empty cells are put into the leg.
CellsAsWritten(row) == row

\* No empty cell is put into the leg, whatever its column.
Cells(row) == [row EXCEPT !.lineItem = IF @ = "empty" THEN "absent" ELSE @,
                          !.code = IF @ = "empty" THEN "missing" ELSE @]

\* Mutant: what is not a list of cells ends the table.
ExtractRowStops ==
    /\ at = "extracting" /\ Tabular /\ n < Len(body.rows)
    /\ LET row == body.rows[n + 1] IN
       IF row = NoList THEN n' = Len(body.rows) /\ UNCHANGED legs
       ELSE n' = n + 1 /\ legs' = Append(legs, Cells(row))
    /\ UNCHANGED <<body, at, raw, results, answer, vars>>

ExtractRow ==
    /\ at = "extracting" /\ Tabular /\ n < Len(body.rows)
    /\ n' = n + 1
    /\ LET row == body.rows[n + 1] IN
       legs' = IF row = NoList THEN legs ELSE Append(legs, Cells(row))
    /\ UNCHANGED <<body, at, raw, results, answer, vars>>

\* Without any leg the answer itself is taken for the only one.
EndOfRows ==
    /\ at = "extracting"
    /\ ~Tabular \/ n = Len(body.rows)
    /\ at' = "mapping"
    /\ legs' = IF legs = << >> THEN <<raw>> ELSE legs
    /\ response' = legs'[1]
    /\ UNCHANGED <<body, n, raw, results, answer, outcome>>

-----------------------------------------------------------------------------
(* to_transaction_result of each leg                                       *)

MapLeg == at = "mapping" /\ Next /\ UNCHANGED statusVars

KeepResult ==
    /\ at = "mapping" /\ Returned
    /\ results' = Append(results, [raw |-> response, result |-> outcome])
    /\ UNCHANGED <<body, n, raw, legs, answer>>

NextLeg ==
    /\ KeepResult
    /\ Len(results') < Len(legs)
    /\ response' = legs[Len(results') + 1]
    /\ outcome' = Raised("none")
    /\ UNCHANGED at

LastLeg ==
    /\ KeepResult
    /\ Len(results') = Len(legs)
    /\ at' = "aggregating"
    /\ UNCHANGED vars

End(a) ==
    /\ at' = "done"
    /\ answer' = a
    /\ UNCHANGED <<body, n, raw, legs, results, vars>>

\* One leg that cannot be mapped raises for the whole order.
RefuseLeg ==
    /\ at = "mapping"
    /\ outcome.kind \in {"TypeError", "InvalidOperation"}
    /\ End(outcome)

-----------------------------------------------------------------------------
(* to_order_status                                                         *)

WithAmount == {k \in DOMAIN results : results[k].result.amount}

\* The currency of the first amount; else the one beside the rows, else USD.
Currency ==
    IF WithAmount # {} THEN results[Min(WithAmount)].raw.code
    ELSE IF raw.code # "missing" THEN raw.code ELSE "USD"

Amount == [k \in DOMAIN results |-> results[k].raw.amount]

\* Mutant: declined legs count.
SumDeclinedToo(kind) ==
    SumFunctionOnSet(Amount, {k \in WithAmount : results[k].raw.kind = kind})

Sum(kind) ==
    SumFunctionOnSet(Amount, {k \in WithAmount : /\ results[k].raw.kind = kind
                                                 /\ results[k].result.status = "APPROVED"})

\* Mutant: the order's id is looked for on the first leg alone.
NamedOnFirst(id) == raw[id] \/ results[1].raw[id]

\* An id beside the rows, or on any leg.
Named(id) == raw[id] \/ \E k \in DOMAIN results : results[k].raw[id]

\* The sums come before the ids.
SumRefused == Currency \in {"malformed", "empty"}

RefuseSum == at = "aggregating" /\ SumRefused /\ End(Raised("TypeError"))

RefuseUnnamed ==
    /\ at = "aggregating" /\ ~SumRefused /\ ~Named("po")
    /\ End(Raised("TransportError"))

ReturnOrder ==
    /\ at = "aggregating" /\ ~SumRefused /\ Named("po")
    /\ End([kind |-> "OrderStatus", transactions |-> results,
            currency |-> Currency, xtl |-> Named("xtl"),
            authorized |-> Sum("auth"), captured |-> Sum("capture"),
            outstanding |-> Sum("auth") - Sum("capture")])

StatusNext ==
    \/ Normalize \/ ExtractRow \/ EndOfRows
    \/ MapLeg \/ NextLeg \/ LastLeg \/ RefuseLeg
    \/ RefuseSum \/ RefuseUnnamed \/ ReturnOrder

StatusSpec == StatusInit /\ [][StatusNext]_<<vars, statusVars>>

-----------------------------------------------------------------------------
(* What the answer says, by its rows                                       *)

\* The rows of a table that are rows, and where each comes among them.
RowNumbers == {k \in DOMAIN body.rows : body.rows[k] # NoList}
Row(k) == body.rows[k]
Place(k) == Cardinality({l \in RowNumbers : l <= k})

ReturnedOrder == answer.kind = "OrderStatus"

\* The rows all hold an amount, and in one currency.
Complete ==
    \E c \in Currencies :
        \A k \in RowNumbers : Row(k).value = "good" /\ Row(k).code = c

WrittenAmount == [k \in RowNumbers |-> Row(k).amount]
Written(kind) ==
    SumFunctionOnSet(WrittenAmount, {k \in RowNumbers : /\ Row(k).kind = kind
                                                        /\ Row(k).status = "APPROVED"})

Malformed(row) ==
    "bad" \in {row.value, row.currency, row.rate, row.settledValue, row.settledCurrency}

-----------------------------------------------------------------------------
(* Properties                                                              *)

\* status() reports the whole of an order or nothing: the transactions of a table
\* it returns are all of its rows, in their order, none besides, and each as it
\* was decided.
AllRowsOrNone ==
    ReturnedOrder /\ Tabular =>
        /\ Len(answer.transactions) = Cardinality(RowNumbers)
        /\ \A k \in RowNumbers :
             /\ answer.transactions[Place(k)].raw = Cells(Row(k))
             /\ answer.transactions[Place(k)].result.status = ParseStatus(Row(k))

\* Whenever each row tells its amount in the order's currency, the figures are
\* those of all its approved rows, whatever their order and what lies between.
FiguresAreOfAllRows ==
    ReturnedOrder /\ Tabular /\ Complete =>
        /\ answer.authorized = Written("auth")
        /\ answer.captured = Written("capture")
        /\ answer.outstanding = Written("auth") - Written("capture")

\* A table is refused only for a field that cannot be read -- a missing or empty
\* cell is none -- or when not one of its rows names the order, and any row that
\* has the merchant's id passes it on.
RowsCoverForEachOther ==
    Tabular =>
        /\ answer.kind \in {"TypeError", "InvalidOperation"} =>
             \E k \in RowNumbers : Malformed(Row(k))
        /\ answer.kind = "TransportError" => \A k \in RowNumbers : ~Row(k).po
        /\ ReturnedOrder => (answer.xtl <=> \E k \in RowNumbers : Row(k).xtl)

\* status() invents no money: each approval it reports is that of a row, and it
\* reports no more authorized or captured than the approved rows say, whatever
\* they lack and in whatever form the answer came.
ApprovedIsWritten ==
    ReturnedOrder =>
        /\ \A k \in DOMAIN answer.transactions :
             answer.transactions[k].result.status = "APPROVED" =>
                 \E l \in RowNumbers : Row(l).status = "APPROVED"
        /\ answer.authorized <= Written("auth")
        /\ answer.captured <= Written("capture")
=============================================================================
