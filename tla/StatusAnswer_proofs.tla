-------------------------- MODULE StatusAnswer_proofs --------------------------
(***************************************************************************)
(* What ResultMapper makes of any answer, and what status() makes of any   *)
(* body: of tables of any length, whatever their rows lack.                *)
(*                                                                         *)
(* An outcome keeps what its exception or result says of the answer it was *)
(* made of; a leg keeps the place its row has among the rows of the table; *)
(* and the figures of an order are sums over its legs that are carried     *)
(* back, leg by leg, to the rows (SumOfImage).                             *)
(***************************************************************************)
EXTENDS StatusAnswer, Sums_proofs, SequenceTheorems

Result(r) ==
    [kind |-> "TransactionResult", status |-> ParseStatus(r),
     amount |-> Present(r.value, r.currency), conversion |-> Converted(r),
     nextAction |-> NextAction(r)]

Readable(r) ==
    /\ ~LineItemUnreadable(r) /\ ~AmountUnreadable(r)
    /\ ~RateUnreadable(r) /\ ~ConversionUnreadable(r)

\* What is known of a response and what became of it.
OutcomeFits ==
    /\ IsResponse(response)
    /\ \/ outcome = Raised("none")
       \/ /\ outcome \in {Raised("TypeError"), Raised("InvalidOperation")}
          /\ ~Readable(response)
       \/ outcome = Result(response) /\ Readable(response)

-----------------------------------------------------------------------------
(* The invariant of status()                                               *)

Actions == [kind : {"none", "threeDSChallenge", "displayVoucher", "displayQr",
                    "redirect", "awaitSettlement"}, carries : SUBSET Prompts]
Results == [kind : {"TransactionResult"}, status : Statuses, amount : BOOLEAN,
            conversion : BOOLEAN, nextAction : Actions]
Mapped == [raw : RowFields, result : Results]

StatusTypeOK ==
    /\ body \in Bodies
    /\ at \in {"received", "extracting", "mapping", "aggregating", "done"}
    /\ n \in 0 .. Len(body.rows)
    /\ legs \in Seq(RowFields)
    /\ results \in Seq(Mapped)

\* The first m rows of the body that are rows, and the legs they make.
Taken(m) == {l \in RowNumbers : l <= m}

LegsAreRows(m) ==
    /\ Len(legs) = Cardinality(Taken(m))
    /\ \A k \in Taken(m) : legs[Place(k)] = Cells(Row(k))
    /\ \A p \in DOMAIN legs : \E k \in Taken(m) : Place(k) = p

Flat ==
    CASE Tabular -> NoFields
      [] body.shape = "flat" -> body.rows[1]
      [] OTHER -> [NoFields EXCEPT !.po = body.po]

\* raw and the legs, before, while and after the rows are read.
LegsFit ==
    CASE at = "received"   -> n = 0 /\ raw = NoFields /\ legs = << >>
      [] at = "extracting" -> /\ raw = Flat
                              /\ IF Tabular THEN LegsAreRows(n) ELSE legs = << >>
      [] OTHER             -> /\ raw = Flat
                              /\ IF Tabular /\ RowNumbers # {}
                                 THEN LegsAreRows(Len(body.rows)) ELSE legs = <<raw>>

\* Each result is the leg at its place, mapped.
ResultsFit ==
    /\ \A k \in DOMAIN results :
         /\ k \in DOMAIN legs /\ Readable(legs[k])
         /\ results[k] = [raw |-> legs[k], result |-> Result(legs[k])]
    /\ at \in {"received", "extracting"} => results = << >> /\ outcome = Raised("none")
    /\ at = "mapping" => /\ Len(results) < Len(legs)
                         /\ response = legs[Len(results) + 1]
    /\ at = "aggregating" => Len(results) = Len(legs)

Order ==
    [kind |-> "OrderStatus", transactions |-> results,
     currency |-> Currency, xtl |-> Named("xtl"),
     authorized |-> Sum("auth"), captured |-> Sum("capture"),
     outstanding |-> Sum("auth") - Sum("capture")]

\* What status() answers, and why.
AnswerFits ==
    IF at # "done" THEN answer = Raised("none")
    ELSE \/ /\ answer \in {Raised("TypeError"), Raised("InvalidOperation")}
            /\ \E k \in DOMAIN legs : ~Readable(legs[k])
         \/ /\ Len(results) = Len(legs)
            /\ \/ SumRefused /\ answer = Raised("TypeError")
               \/ ~Named("po") /\ answer = Raised("TransportError")
               \/ Named("po") /\ answer = Order

StatusInv == StatusTypeOK /\ OutcomeFits /\ LegsFit /\ ResultsFit /\ AnswerFits

-----------------------------------------------------------------------------
(* One answer: ResultMapper                                                *)

\* Mapping an answer keeps the outcome fit.
LEMMA NextKeepsOutcome ==
    ASSUME OutcomeFits, [Next]_vars
    PROVE  OutcomeFits'
<1>1. CASE RaiseTypeError
  BY <1>1 DEF RaiseTypeError, Finish, OutcomeFits, Readable
<1>2. CASE RaiseInvalidOperation
  BY <1>2 DEF RaiseInvalidOperation, Finish, OutcomeFits, Readable
<1>3. CASE Return
  BY <1>3 DEF Return, Finish, OutcomeFits, Readable, Result
<1>4. CASE UNCHANGED vars
  BY <1>4 DEF vars, OutcomeFits
<1> QED BY <1>1, <1>2, <1>3, <1>4 DEF Next

\* The invariant of ResultMapper on its own.
LEMMA OutcomeFitsResponse == Spec => []OutcomeFits
<1>1. Init => OutcomeFits
  BY ResponsesAssumption DEF Init, OutcomeFits
<1> QED BY <1>1, NextKeepsOutcome, PTL DEF Spec

\* What makes an answer unreadable is a field that is there.
LEMMA UnreadableIsMalformed ==
    ASSUME NEW r, IsResponse(r), ~Readable(r)
    PROVE  r.lineItem = "empty" \/ Malformed(r)
<1>1. {r.value, r.currency, r.settledValue, r.settledCurrency} \subseteq Fields
  BY DEF IsResponse
<1> QED BY <1>1
    DEF Readable, LineItemUnreadable, AmountUnreadable, RateUnreadable,
        ConversionUnreadable, Converted, Present, MoneyRefuses, Fields, Malformed

\* A refusal, by the invariant, is of something unreadable, hence malformed.
LEMMA RefusedForCause == OutcomeFits => RaisesOnlyOnMalformed
BY UnreadableIsMalformed
   DEF OutcomeFits, RaisesOnlyOnMalformed, Raised, Result, Malformed

\* A result is of what was there, and all of it was readable.
LEMMA WholeResult == OutcomeFits => ReportsOnlyWhatWasWritten
<1> SUFFICES ASSUME OutcomeFits, Returned PROVE ReportsOnlyWhatWasWritten
  BY DEF ReportsOnlyWhatWasWritten
<1>1. outcome = Result(response) /\ Readable(response)
  BY DEF OutcomeFits, Returned, Raised
<1>2. /\ outcome.amount <=> Present(response.value, response.currency)
      /\ outcome.conversion <=> Converted(response)
  BY <1>1 DEF Result
<1>3. response.rate \in Fields \cup {"zero"}
  BY DEF OutcomeFits, IsResponse
<1> QED BY <1>1, <1>2, <1>3
    DEF ReportsOnlyWhatWasWritten, Readable, AmountUnreadable, RateUnreadable,
        ConversionUnreadable, MoneyRefuses, Converted, RateReal, Fields

\* _next_action by its branches: the first prompt that is there decides.
LEMMA NextActionOfPending ==
    ASSUME NEW r, Pending(r), r.prompts \subseteq Prompts
    PROVE  /\ NextAction(r).kind # "none"
           /\ NextAction(r).kind = "awaitSettlement" <=> r.prompts = {}
           /\ "url" \in r.prompts => "url" \in NextAction(r).carries
           /\ r.prompts \ {"url"} # {} => NextAction(r).carries \ {"url"} # {}
<1>1. CASE "challenge" \in r.prompts
  <2>1. NextAction(r) = [kind |-> "threeDSChallenge",
                         carries |-> r.prompts \cap {"challenge", "url"}]
    BY <1>1 DEF NextAction
  <2> QED BY <1>1, <2>1
<1>2. CASE "challenge" \notin r.prompts /\ "barcode" \in r.prompts
  <2>1. NextAction(r) = [kind |-> "displayVoucher",
                         carries |-> r.prompts \cap {"barcode", "url"}]
    BY <1>2 DEF NextAction
  <2> QED BY <1>2, <2>1
<1>3. CASE r.prompts \cap {"challenge", "barcode"} = {} /\ "pix" \in r.prompts
  <2>1. NextAction(r) = [kind |-> "displayQr",
                         carries |-> r.prompts \cap {"pix", "url"}]
    BY <1>3 DEF NextAction
  <2> QED BY <1>3, <2>1
<1>4. CASE r.prompts = {"url"}
  <2>1. NextAction(r) = [kind |-> "redirect", carries |-> r.prompts \cap {"url", "url"}]
    BY <1>4 DEF NextAction, Prompts
  <2> QED BY <1>4, <2>1
<1>5. CASE r.prompts = {}
  <2>1. NextAction(r) = [kind |-> "awaitSettlement",
                         carries |-> r.prompts \cap {"none", "url"}]
    BY <1>5 DEF NextAction
  <2> QED BY <1>5, <2>1
<1> QED BY <1>1, <1>2, <1>3, <1>4, <1>5 DEF Prompts

\* What a result asks of the customer is what _next_action makes of the answer.
LEMMA ActionablePending == OutcomeFits => PendingIsActionable
<1> SUFFICES ASSUME OutcomeFits, Returned PROVE PendingIsActionable
  BY DEF PendingIsActionable
<1>1. outcome = Result(response)
  BY DEF OutcomeFits, Returned, Raised
<1>2. /\ outcome.status = ParseStatus(response)
      /\ outcome.nextAction = NextAction(response)
  BY <1>1 DEF Result
<1>3. response.prompts \subseteq Prompts
  BY DEF OutcomeFits, IsResponse
<1>4. CASE Pending(response)
  BY <1>2, <1>3, <1>4, NextActionOfPending DEF PendingIsActionable, Pending
<1>5. CASE ~Pending(response)
  <2>1. NextAction(response).kind = "none"
    BY <1>5 DEF NextAction, NoAction
  <2> QED BY <1>2, <1>5, <2>1 DEF PendingIsActionable, Pending
<1> QED BY <1>4, <1>5

-----------------------------------------------------------------------------
(* The rows of a body and their places                                     *)

\* A row is a response, and so is what is left of it without its empty cells.
LEMMA RowsAreResponses ==
    ASSUME NEW r \in RowFields
    PROVE  /\ IsResponse(r)
           /\ Cells(r) \in RowFields
           /\ Readable(r) => Result(r) \in Results
<1>1. IsResponse(r)
  BY DEF RowFields, IsResponse
<1>2. Cells(r) \in RowFields
  BY DEF RowFields, Cells, Codes
<1>3. NextAction(r) \in Actions
  <2>1. /\ \A what : r.prompts \cap {what, "url"} \in SUBSET Prompts
        /\ {} \in SUBSET Prompts
    BY DEF RowFields
  <2>2. \A kind \in {"none", "threeDSChallenge", "displayVoucher", "displayQr",
                    "redirect", "awaitSettlement"}, c \in SUBSET Prompts :
          [kind |-> kind, carries |-> c] \in Actions
    BY DEF Actions
  <2> QED BY <2>1, <2>2 DEF NextAction, NoAction
<1>4. Result(r) \in Results
  <2>1. /\ ParseStatus(r) \in Statuses
        /\ Present(r.value, r.currency) \in BOOLEAN /\ Converted(r) \in BOOLEAN
    BY DEF ParseStatus, Statuses, Present, Converted, RateReal
  <2> QED BY <1>3, <2>1 DEF Result, Results
<1> QED BY <1>1, <1>2, <1>4

\* The rows of the body are rows.
LEMMA BodyHasRows ==
    ASSUME StatusTypeOK
    PROVE  /\ IsBody(body) /\ Len(body.rows) \in Nat
           /\ RowNumbers \subseteq 1 .. Len(body.rows)
           /\ \A k \in RowNumbers : Row(k) \in RowFields /\ IsRow(Row(k))
           /\ Flat \in RowFields
<1>1. IsBody(body)
  BY BodiesAssumption DEF StatusTypeOK
<1>2. Len(body.rows) \in Nat /\ DOMAIN body.rows = 1 .. Len(body.rows)
  BY <1>1, LenProperties DEF IsBody
<1>3. \A k \in RowNumbers : Row(k) \in RowFields /\ IsRow(Row(k))
  BY <1>1 DEF IsBody, RowNumbers, Row, IsRow
<1>4. Flat \in RowFields
  BY <1>1 DEF Flat, IsBody, IsRow, RowFields, NoFields, Tabular, Statuses, Fields, Codes
<1> QED BY <1>1, <1>2, <1>3, <1>4 DEF RowNumbers

\* The first rows of a body are finitely many, and come at the first places.
LEMMA TakenArePlaced ==
    ASSUME StatusTypeOK, NEW m \in Nat
    PROVE  /\ IsFiniteSet(Taken(m)) /\ Cardinality(Taken(m)) \in Nat
           /\ \A k \in Taken(m) : Place(k) \in 1 .. Cardinality(Taken(m))
<1>1. /\ Taken(m) \subseteq 1 .. Len(body.rows) /\ Len(body.rows) \in Nat
      /\ RowNumbers \subseteq Nat
  BY BodyHasRows DEF Taken
<1>2. IsFiniteSet(Taken(m))
  <2>1. IsFiniteSet(1 .. Len(body.rows))
    BY <1>1, FS_Interval
  <2> QED BY <1>1, <2>1, FS_Subset
<1>3. Cardinality(Taken(m)) \in Nat
  BY <1>2, FS_CardinalityType
<1>4. ASSUME NEW k \in Taken(m) PROVE Place(k) \in 1 .. Cardinality(Taken(m))
  <2>1. Taken(k) \subseteq Taken(m) /\ k \in Taken(k)
    <3>1. k \in Nat /\ k <= m /\ k \in RowNumbers
      BY <1>1, <1>4 DEF Taken
    <3>2. ASSUME NEW l \in Taken(k) PROVE l \in Taken(m)
      BY <1>1, <3>1, <3>2 DEF Taken
    <3>3. k \in Taken(k)
      BY <3>1 DEF Taken
    <3> QED BY <3>2, <3>3
  <2>2. IsFiniteSet(Taken(k)) /\ Cardinality(Taken(k)) <= Cardinality(Taken(m))
    BY <1>2, <2>1, FS_Subset
  <2>3. Cardinality(Taken(k)) \in Nat /\ Cardinality(Taken(k)) # 0
    BY <2>1, <2>2, FS_CardinalityType, FS_EmptySet
  <2> QED BY <1>3, <2>2, <2>3 DEF Place, Taken
<1> QED BY <1>2, <1>3, <1>4

\* No two rows come at one place.
LEMMA PlacesDiffer ==
    ASSUME StatusTypeOK, NEW k \in RowNumbers, NEW l \in RowNumbers, k # l
    PROVE  Place(k) # Place(l)
<1>1. ASSUME NEW i \in RowNumbers, NEW j \in RowNumbers, i < j
      PROVE  Place(i) # Place(j)
  <2>1. i \in Nat /\ j \in Nat /\ RowNumbers \subseteq Nat
    BY BodyHasRows
  <2>2. Taken(i) \subseteq Taken(j) /\ j \in Taken(j) /\ j \notin Taken(i)
    <3>1. ASSUME NEW h \in Taken(i) PROVE h \in Taken(j)
      BY <1>1, <2>1, <3>1 DEF Taken
    <3>2. j \in Taken(j) /\ j \notin Taken(i)
      BY <1>1, <2>1 DEF Taken
    <3> QED BY <3>1, <3>2
  <2>3. IsFiniteSet(Taken(j))
    BY <2>1, TakenArePlaced
  <2>4. Cardinality(Taken(i)) # Cardinality(Taken(j))
    BY <2>2, <2>3, FS_Subset
  <2> QED BY <2>4 DEF Place, Taken
<1>2. k \in Nat /\ l \in Nat
  BY BodyHasRows
<1> QED BY <1>1, <1>2

\* The next row is taken at the next place; what is no row has none.
LEMMA TakeOne ==
    ASSUME StatusTypeOK, NEW m \in Nat, m < Len(body.rows)
    PROVE  IF body.rows[m + 1] = NoList THEN Taken(m + 1) = Taken(m)
           ELSE /\ Taken(m + 1) = Taken(m) \cup {m + 1}
                /\ Place(m + 1) = Cardinality(Taken(m)) + 1
                /\ Cardinality(Taken(m + 1)) = Cardinality(Taken(m)) + 1
<1>1. DOMAIN body.rows = 1 .. Len(body.rows) /\ Len(body.rows) \in Nat
  BY BodyHasRows, LenProperties DEF IsBody
<1>2. CASE body.rows[m + 1] = NoList
  BY <1>1, <1>2 DEF Taken, RowNumbers
<1>3. CASE body.rows[m + 1] # NoList
  <2>1. Taken(m + 1) = Taken(m) \cup {m + 1} /\ m + 1 \notin Taken(m)
    BY <1>1, <1>3 DEF Taken, RowNumbers
  <2>2. Cardinality(Taken(m + 1)) = Cardinality(Taken(m)) + 1
    BY <2>1, TakenArePlaced, FS_AddElement
  <2> QED BY <1>3, <2>1, <2>2 DEF Place, Taken
<1> QED BY <1>2, <1>3

-----------------------------------------------------------------------------
(* status() keeps the invariant                                            *)

\* No step touches the body.
LEMMA RowsStay ==
    ASSUME body' = body
    PROVE  /\ RowNumbers' = RowNumbers /\ Tabular' = Tabular /\ Flat' = Flat
           /\ \A m : Taken(m)' = Taken(m) /\ Place(m)' = Place(m) /\ Row(m)' = Row(m)
BY DEF RowNumbers, Tabular, Flat, Taken, Place, Row

\* What was read stays read while the legs are mapped and summed.
LEMMA LegsStay ==
    ASSUME LegsFit, UNCHANGED readVars \/ (UNCHANGED <<body, n, raw, legs>> /\ at # "received"
                    /\ at # "extracting" /\ at' # "received" /\ at' # "extracting")
    PROVE  LegsFit'
<1>1. body' = body /\ n' = n /\ raw' = raw /\ legs' = legs
  BY DEF readVars
<1>2. LegsAreRows(n)' <=> LegsAreRows(n)
  BY <1>1, RowsStay DEF LegsAreRows
<1>3. LegsAreRows(Len(body.rows))' <=> LegsAreRows(Len(body.rows))
  BY <1>1, RowsStay DEF LegsAreRows
<1> QED BY <1>1, <1>2, <1>3, RowsStay DEF LegsFit, readVars

\* What status() answers is made of the legs and the results.
LEMMA AnswerStays ==
    ASSUME AnswerFits, UNCHANGED <<at, raw, legs, results, answer>>
    PROVE  AnswerFits'
BY DEF AnswerFits, Order, SumRefused, Named, Currency, Sum, Amount, WithAmount

\* normalize_response leaves a flat map, and none for a table.
LEMMA NormalizeKeepsInv ==
    ASSUME StatusInv, Normalize
    PROVE  StatusInv'
<1> USE DEF Normalize
<1>1. StatusTypeOK'
  BY DEF StatusInv, StatusTypeOK
<1>2. OutcomeFits'
  BY DEF StatusInv, OutcomeFits, vars
<1>3. LegsFit'
  <2>1. at = "received" /\ n = 0 /\ legs = << >> /\ raw' = Flat
    BY DEF StatusInv, LegsFit, Flat
  <2>2. LegsAreRows(0)
    <3>1. Taken(0) = {}
      BY BodyHasRows DEF Taken, StatusInv
    <3> QED BY <2>1, <3>1, FS_EmptySet DEF LegsAreRows
  <2>3. LegsAreRows(n)'
    BY <2>1, <2>2, RowsStay DEF LegsAreRows
  <2> QED BY <2>1, <2>3, RowsStay DEF LegsFit
<1>4. ResultsFit'
  BY DEF StatusInv, ResultsFit, vars
<1>5. AnswerFits'
  BY DEF StatusInv, AnswerFits
<1> QED BY <1>1, <1>2, <1>3, <1>4, <1>5 DEF StatusInv

\* A row of the table is put at the next place, and nothing else is.
LEMMA ExtractRowKeepsInv ==
    ASSUME StatusInv, ExtractRow
    PROVE  StatusInv'
<1>1. /\ at = "extracting" /\ Tabular /\ n < Len(body.rows) /\ n' = n + 1
      /\ UNCHANGED <<body, at, raw, results, answer, vars>>
      /\ legs' = IF body.rows[n + 1] = NoList THEN legs
                 ELSE Append(legs, Cells(Row(n + 1)))
  BY DEF ExtractRow, Row
<1>2. /\ StatusTypeOK /\ n \in Nat /\ Len(body.rows) \in Nat /\ legs \in Seq(RowFields)
      /\ raw = Flat /\ LegsAreRows(n) /\ results = << >>
  BY <1>1, BodyHasRows DEF StatusInv, StatusTypeOK, LegsFit, ResultsFit
<1>3. body.rows[n + 1] # NoList => Cells(Row(n + 1)) \in RowFields
  <2>1. n + 1 \in DOMAIN body.rows
    BY <1>1, <1>2, BodyHasRows, LenProperties DEF IsBody
  <2> QED BY <1>2, <2>1, BodyHasRows, RowsAreResponses DEF RowNumbers
<1>4. StatusTypeOK'
  BY <1>1, <1>2, <1>3 DEF StatusTypeOK
<1>5. OutcomeFits'
  BY <1>1 DEF StatusInv, OutcomeFits, vars
<1>6. LegsFit'
  <2>1. LegsAreRows(n)'
    <3>1. Taken(n)' = Taken(n + 1)
      BY <1>1, RowsStay DEF Taken
    <3>2. CASE body.rows[n + 1] = NoList
      <4>1. Taken(n + 1) = Taken(n) /\ legs' = legs
        BY <1>1, <1>2, <3>2, TakeOne
      <4> QED BY <1>1, <1>2, <3>1, <4>1, RowsStay DEF LegsAreRows
    <3>3. CASE body.rows[n + 1] # NoList
      <4>1. /\ Taken(n + 1) = Taken(n) \cup {n + 1}
            /\ Place(n + 1) = Len(legs) + 1
            /\ Cardinality(Taken(n + 1)) = Len(legs) + 1
        BY <1>1, <1>2, <3>3, TakeOne DEF LegsAreRows
      <4>2. /\ legs' = Append(legs, Cells(Row(n + 1))) /\ Len(legs) \in Nat
            /\ Len(legs') = Len(legs) + 1 /\ DOMAIN legs = 1 .. Len(legs)
            /\ DOMAIN legs' = 1 .. Len(legs) + 1
            /\ \A p \in 1 .. Len(legs) : legs'[p] = legs[p]
            /\ legs'[Len(legs) + 1] = Cells(Row(n + 1))
        BY <1>1, <1>2, <1>3, <3>3
      <4>3. \A k \in Taken(n) : Place(k) \in 1 .. Len(legs)
        BY <1>2, TakenArePlaced DEF LegsAreRows
      <4>4. \A k \in Taken(n + 1) : legs'[Place(k)] = Cells(Row(k))
        BY <1>2, <4>1, <4>2, <4>3 DEF LegsAreRows
      <4>5. \A p \in DOMAIN legs' : \E k \in Taken(n + 1) : Place(k) = p
        BY <1>2, <4>1, <4>2 DEF LegsAreRows
      <4>6. Len(legs') = Cardinality(Taken(n)')
        BY <3>1, <4>1, <4>2
      <4>7. \A k \in Taken(n)' : legs'[Place(k)'] = Cells(Row(k))'
        <5> SUFFICES ASSUME NEW k \in Taken(n + 1)
                     PROVE  legs'[Place(k)'] = Cells(Row(k))'
          BY <3>1
        <5>1. Row(k)' = Row(k) /\ Place(k)' = Place(k)
          BY <1>1, RowsStay
        <5>2. Cells(Row(k))' = Cells(Row(k))
          BY <5>1 DEF Cells
        <5> QED BY <4>4, <5>1, <5>2
      <4>8. \A p \in DOMAIN legs' : \E k \in Taken(n)' : Place(k)' = p
        BY <1>1, <3>1, <4>5, RowsStay
      <4> QED BY <4>6, <4>7, <4>8 DEF LegsAreRows
    <3> QED BY <3>2, <3>3
  <2> QED BY <1>1, <1>2, <2>1, RowsStay DEF LegsFit
<1>7. ResultsFit'
  BY <1>1, <1>2 DEF StatusInv, ResultsFit, vars
<1>8. AnswerFits'
  BY <1>1 DEF StatusInv, AnswerFits
<1> QED BY <1>4, <1>5, <1>6, <1>7, <1>8 DEF StatusInv

\* At the end there is a leg: of a row, or else the answer itself.
LEMMA EndOfRowsKeepsInv ==
    ASSUME StatusInv, EndOfRows
    PROVE  StatusInv'
<1>1. /\ at = "extracting" /\ (~Tabular \/ n = Len(body.rows)) /\ at' = "mapping"
      /\ legs' = (IF legs = << >> THEN <<raw>> ELSE legs) /\ response' = legs'[1]
      /\ UNCHANGED <<body, n, raw, results, answer, outcome>>
  BY DEF EndOfRows
<1>2. /\ StatusTypeOK /\ legs \in Seq(RowFields) /\ raw = Flat /\ raw \in RowFields
      /\ Len(body.rows) \in Nat
      /\ IF Tabular THEN LegsAreRows(Len(body.rows)) ELSE legs = << >>
      /\ results = << >> /\ outcome = Raised("none")
  BY <1>1, BodyHasRows DEF StatusInv, StatusTypeOK, LegsFit, ResultsFit
<1>3. legs' \in Seq(RowFields) /\ Len(legs') > 0 /\ legs'[1] \in RowFields
  <2>1. CASE legs = << >>
    BY <1>1, <1>2, <2>1
  <2>2. CASE legs # << >>
    BY <1>1, <1>2, <2>2
  <2> QED BY <2>1, <2>2
<1>4. StatusTypeOK'
  BY <1>1, <1>2, <1>3 DEF StatusTypeOK
<1>5. OutcomeFits'
  BY <1>1, <1>2, <1>3, RowsAreResponses DEF OutcomeFits
<1>6. LegsFit'
  <2>1. Taken(Len(body.rows)) = RowNumbers
    BY <1>2, BodyHasRows DEF Taken
  <2>2. CASE Tabular /\ RowNumbers # {}
    <3>1. legs # << >>
      BY <1>2, <2>1, <2>2, TakenArePlaced DEF LegsAreRows
    <3>2. legs' = legs /\ LegsAreRows(Len(body.rows))
      BY <1>1, <1>2, <2>2, <3>1
    <3>3. LegsAreRows(Len(body.rows))' <=> LegsAreRows(Len(body.rows))
      BY <1>1, <3>2, RowsStay DEF LegsAreRows, Taken
    <3> QED BY <1>1, <1>2, <2>2, <3>2, <3>3, RowsStay DEF LegsFit
  <2>3. CASE ~(Tabular /\ RowNumbers # {})
    <3>1. legs = << >>
      <4>1. CASE ~Tabular
        BY <1>2, <4>1
      <4>2. CASE Tabular
        <5>1. Len(legs) = 0
          BY <1>2, <2>1, <2>3, <4>2, FS_EmptySet DEF LegsAreRows
        <5> QED BY <1>2, <5>1, EmptySeq
      <4> QED BY <4>1, <4>2
    <3> QED BY <1>1, <1>2, <2>3, <3>1, RowsStay DEF LegsFit
  <2> QED BY <2>2, <2>3
<1>7. ResultsFit'
  BY <1>1, <1>2, <1>3 DEF ResultsFit
<1>8. AnswerFits'
  BY <1>1 DEF StatusInv, AnswerFits
<1> QED BY <1>4, <1>5, <1>6, <1>7, <1>8 DEF StatusInv

\* ResultMapper's own steps touch nothing of status().
LEMMA MapLegKeepsInv ==
    ASSUME StatusInv, MapLeg
    PROVE  StatusInv'
<1>1. /\ at = "mapping" /\ UNCHANGED <<body, at, n, raw, legs, results, answer>>
      /\ OutcomeFits' /\ response' = response
  BY NextKeepsOutcome
     DEF MapLeg, statusVars, readVars, StatusInv, Next, RaiseTypeError,
         RaiseInvalidOperation, Return, Finish
<1>2. StatusTypeOK'
  BY <1>1 DEF StatusInv, StatusTypeOK
<1>3. LegsFit'
  BY <1>1, LegsStay DEF StatusInv, readVars
<1>4. ResultsFit'
  BY <1>1 DEF StatusInv, ResultsFit
<1>5. AnswerFits'
  BY <1>1, AnswerStays DEF StatusInv
<1> QED BY <1>1, <1>2, <1>3, <1>4, <1>5 DEF StatusInv

\* The result that is kept is that of the next leg.
LEMMA KeptResult ==
    ASSUME StatusInv, KeepResult
    PROVE  /\ results' \in Seq(Mapped) /\ legs \in Seq(RowFields)
           /\ Len(results') = Len(results) + 1 /\ Len(results) \in Nat
           /\ Len(results') <= Len(legs)
           /\ \A k \in DOMAIN results' :
                /\ k \in DOMAIN legs /\ Readable(legs[k])
                /\ results'[k] = [raw |-> legs[k], result |-> Result(legs[k])]
<1>1. /\ at = "mapping" /\ Returned
      /\ results' = Append(results, [raw |-> response, result |-> outcome])
  BY DEF KeepResult
<1>2. /\ results \in Seq(Mapped) /\ legs \in Seq(RowFields)
      /\ Len(results) \in Nat /\ Len(legs) \in Nat /\ Len(results) < Len(legs)
      /\ DOMAIN results = 1 .. Len(results) /\ DOMAIN legs = 1 .. Len(legs)
      /\ response = legs[Len(results) + 1]
  BY <1>1, LenProperties DEF StatusInv, StatusTypeOK, ResultsFit
<1>3. outcome = Result(response) /\ Readable(response)
  BY <1>1 DEF StatusInv, OutcomeFits, Returned, Raised
<1>4. response \in RowFields
  BY <1>2, ElementOfSeq
<1>5. [raw |-> response, result |-> outcome] \in Mapped
  BY <1>3, <1>4, RowsAreResponses DEF Mapped
<1>6. /\ results' \in Seq(Mapped) /\ Len(results') = Len(results) + 1
      /\ DOMAIN results' = 1 .. Len(results) + 1
      /\ \A k \in 1 .. Len(results) : results'[k] = results[k]
      /\ results'[Len(results) + 1] = [raw |-> response, result |-> outcome]
  BY <1>1, <1>2, <1>5
<1>7. ASSUME NEW k \in DOMAIN results'
      PROVE  /\ k \in DOMAIN legs /\ Readable(legs[k])
             /\ results'[k] = [raw |-> legs[k], result |-> Result(legs[k])]
  <2>1. CASE k \in 1 .. Len(results)
    BY <1>2, <1>6, <2>1 DEF StatusInv, ResultsFit
  <2>2. CASE k = Len(results) + 1
    BY <1>2, <1>3, <1>6, <2>2
  <2> QED BY <1>2, <1>6, <1>7, <2>1, <2>2
<1> QED BY <1>2, <1>6, <1>7

\* The next leg is mapped.
LEMMA NextLegKeepsInv ==
    ASSUME StatusInv, NextLeg
    PROVE  StatusInv'
<1>1. /\ at = "mapping" /\ UNCHANGED <<body, at, n, raw, legs, answer>>
      /\ Len(results') < Len(legs) /\ response' = legs[Len(results') + 1]
      /\ outcome' = Raised("none")
  BY DEF NextLeg, KeepResult
<1>2. KeepResult
  BY DEF NextLeg
<1>3. StatusTypeOK'
  BY <1>1, <1>2, KeptResult DEF StatusInv, StatusTypeOK
<1>4. OutcomeFits'
  <2>1. Len(results') + 1 \in 1 .. Len(legs)
    BY <1>1, <1>2, KeptResult
  <2>2. response' \in RowFields
    BY <1>1, <1>2, <2>1, KeptResult, ElementOfSeq
  <2> QED BY <1>1, <2>2, RowsAreResponses DEF OutcomeFits
<1>5. LegsFit'
  BY <1>1, LegsStay DEF StatusInv, readVars
<1>6. ResultsFit'
  BY <1>1, <1>2, KeptResult DEF ResultsFit
<1>7. AnswerFits'
  BY <1>1 DEF StatusInv, AnswerFits
<1> QED BY <1>3, <1>4, <1>5, <1>6, <1>7 DEF StatusInv

\* The last one is kept.
LEMMA LastLegKeepsInv ==
    ASSUME StatusInv, LastLeg
    PROVE  StatusInv'
<1>1. /\ at = "mapping" /\ at' = "aggregating" /\ Len(results') = Len(legs)
      /\ UNCHANGED <<body, n, raw, legs, answer, response, outcome>>
  BY DEF LastLeg, KeepResult, vars
<1>2. KeepResult
  BY DEF LastLeg
<1>3. StatusTypeOK'
  BY <1>1, <1>2, KeptResult DEF StatusInv, StatusTypeOK
<1>4. OutcomeFits'
  BY <1>1 DEF StatusInv, OutcomeFits
<1>5. LegsFit'
  BY <1>1, LegsStay DEF StatusInv
<1>6. ResultsFit'
  BY <1>1, <1>2, KeptResult DEF ResultsFit
<1>7. AnswerFits'
  BY <1>1 DEF StatusInv, AnswerFits
<1> QED BY <1>3, <1>4, <1>5, <1>6, <1>7 DEF StatusInv

\* However status() ends, it ends for a reason the invariant keeps.
LEMMA EndKeepsInv ==
    ASSUME StatusInv, RefuseLeg \/ RefuseSum \/ RefuseUnnamed \/ ReturnOrder
    PROVE  StatusInv'
<1>1. /\ at \in {"mapping", "aggregating"} /\ at' = "done"
      /\ UNCHANGED <<body, n, raw, legs, results, response, outcome>>
  BY DEF RefuseLeg, RefuseSum, RefuseUnnamed, ReturnOrder, End, vars
<1>2. StatusTypeOK'
  BY <1>1 DEF StatusInv, StatusTypeOK
<1>3. OutcomeFits'
  BY <1>1 DEF StatusInv, OutcomeFits
<1>4. LegsFit'
  BY <1>1, LegsStay DEF StatusInv
<1>5. ResultsFit'
  BY <1>1 DEF StatusInv, ResultsFit
<1>6. AnswerFits'
  <2>1. /\ SumRefused' <=> SumRefused
        /\ \A id \in {"po", "xtl"} : Named(id)' <=> Named(id)
        /\ Order' = Order
    BY <1>1 DEF SumRefused, Order, Named, Currency, Sum, Amount, WithAmount
  <2>2. CASE RefuseLeg
    <3>1. /\ at = "mapping" /\ answer' = outcome
          /\ outcome.kind \in {"TypeError", "InvalidOperation"}
      BY <2>2 DEF RefuseLeg, End
    <3>2. /\ outcome \in {Raised("TypeError"), Raised("InvalidOperation")}
          /\ ~Readable(response)
      BY <3>1 DEF StatusInv, OutcomeFits, Raised, Result
    <3>3. Len(results) + 1 \in DOMAIN legs /\ response = legs[Len(results) + 1]
      BY <3>1, LenProperties DEF StatusInv, StatusTypeOK, ResultsFit
    <3> QED BY <1>1, <3>1, <3>2, <3>3 DEF AnswerFits
  <2>3. CASE RefuseSum
    BY <1>1, <2>1, <2>3 DEF RefuseSum, End, AnswerFits, StatusInv, ResultsFit
  <2>4. CASE RefuseUnnamed
    BY <1>1, <2>1, <2>4 DEF RefuseUnnamed, End, AnswerFits, StatusInv, ResultsFit
  <2>5. CASE ReturnOrder
    BY <1>1, <2>1, <2>5 DEF ReturnOrder, End, AnswerFits, StatusInv, ResultsFit, Order
  <2> QED BY <2>2, <2>3, <2>4, <2>5
<1> QED BY <1>2, <1>3, <1>4, <1>5, <1>6 DEF StatusInv

\* The invariant of status().
LEMMA StatusInvariant == StatusSpec => []StatusInv
<1>1. StatusInit => StatusInv
  <2> SUFFICES ASSUME StatusInit PROVE StatusInv
    OBVIOUS
  <2>1. StatusTypeOK
    <3>1. Len(body.rows) \in Nat
      BY BodiesAssumption, LenProperties DEF StatusInit, IsBody
    <3> QED BY <3>1 DEF StatusInit, StatusTypeOK
  <2>2. NoFields \in RowFields
    BY DEF NoFields, RowFields, Statuses, Fields, Codes
  <2>3. OutcomeFits
    BY <2>2, RowsAreResponses DEF StatusInit, OutcomeFits
  <2>4. LegsFit /\ ResultsFit /\ AnswerFits
    BY DEF StatusInit, LegsFit, ResultsFit, AnswerFits
  <2> QED BY <2>1, <2>3, <2>4 DEF StatusInv
<1>2. StatusInv /\ [StatusNext]_<<vars, statusVars>> => StatusInv'
  <2> SUFFICES ASSUME StatusInv, [StatusNext]_<<vars, statusVars>> PROVE StatusInv'
    OBVIOUS
  <2>1. CASE UNCHANGED <<vars, statusVars>>
    <3>1. UNCHANGED <<body, at, n, raw, legs, results, answer, response, outcome>>
      BY <2>1 DEF vars, statusVars, readVars
    <3>2. StatusTypeOK' /\ OutcomeFits' /\ ResultsFit'
      BY <3>1 DEF StatusInv, StatusTypeOK, OutcomeFits, ResultsFit
    <3> QED BY <3>1, <3>2, LegsStay, AnswerStays DEF StatusInv, readVars
  <2> QED BY <2>1, NormalizeKeepsInv, ExtractRowKeepsInv, EndOfRowsKeepsInv,
             MapLegKeepsInv, NextLegKeepsInv, LastLegKeepsInv, EndKeepsInv
          DEF StatusNext
<1> QED BY <1>1, <1>2, PTL DEF StatusSpec

-----------------------------------------------------------------------------
(* What the answer says of a table                                         *)

\* When all legs were mapped, each transaction is its leg; and the legs of a
\* table are its rows at their places.
LEMMA LegsOfTable ==
    ASSUME StatusInv, at = "done", Tabular
    PROVE  /\ raw = NoFields
           /\ DOMAIN legs = 1 .. Len(legs) /\ Len(legs) \in Nat
           /\ RowNumbers = {} => legs = <<NoFields>>
           /\ RowNumbers # {} =>
                /\ Len(legs) = Cardinality(RowNumbers)
                /\ \A k \in RowNumbers :
                     Place(k) \in DOMAIN legs /\ legs[Place(k)] = Cells(Row(k))
                /\ \A p \in DOMAIN legs :
                     \E k \in RowNumbers : Place(k) = p /\ legs[p] = Cells(Row(k))
<1>1. /\ raw = NoFields
      /\ IF RowNumbers # {} THEN LegsAreRows(Len(body.rows)) ELSE legs = <<raw>>
  <2>1. /\ raw = Flat
        /\ IF Tabular /\ RowNumbers # {} THEN LegsAreRows(Len(body.rows)) ELSE legs = <<raw>>
    BY DEF StatusInv, LegsFit
  <2>2. Flat = NoFields
    BY DEF Flat, Tabular
  <2> QED BY <2>1, <2>2
<1>2. DOMAIN legs = 1 .. Len(legs) /\ Len(legs) \in Nat
  BY LenProperties DEF StatusInv, StatusTypeOK
<1>3. Len(body.rows) \in Nat /\ Taken(Len(body.rows)) = RowNumbers
  BY BodyHasRows DEF Taken, StatusInv
<1>4. CASE RowNumbers # {}
  <2>1. \A k \in RowNumbers : Place(k) \in 1 .. Cardinality(RowNumbers)
    BY <1>3, TakenArePlaced DEF StatusInv
  <2> QED BY <1>1, <1>2, <1>3, <1>4, <2>1 DEF LegsAreRows
<1>5. CASE RowNumbers = {}
  <2>1. legs = <<NoFields>>
    BY <1>1, <1>5
  <2> QED BY <1>1, <1>2, <1>5, <2>1
<1> QED BY <1>4, <1>5

\* Once all legs are mapped, each result is a leg's.
LEMMA ResultsOfLegs ==
    ASSUME StatusInv, Len(results) = Len(legs)
    PROVE  /\ DOMAIN results = DOMAIN legs
           /\ \A k \in DOMAIN legs :
                /\ legs[k] \in RowFields /\ Readable(legs[k])
                /\ results[k] = [raw |-> legs[k], result |-> Result(legs[k])]
<1>1. /\ DOMAIN results = 1 .. Len(results) /\ DOMAIN legs = 1 .. Len(legs)
      /\ \A k \in DOMAIN legs : legs[k] \in RowFields
  BY LenProperties, ElementOfSeq DEF StatusInv, StatusTypeOK
<1> QED BY <1>1 DEF StatusInv, ResultsFit

\* An order that is returned was named, and shows all results.
LEMMA OrderIsWhole ==
    ASSUME StatusInv, ReturnedOrder
    PROVE  /\ at = "done" /\ Len(results) = Len(legs)
           /\ Named("po") /\ answer = Order
BY DEF StatusInv, AnswerFits, ReturnedOrder, Raised

\* What is left of a row without its empty cells is decided as the row is.
LEMMA CellsKeepTheRow ==
    ASSUME NEW r \in RowFields
    PROVE  /\ ParseStatus(Cells(r)) = ParseStatus(r)
           /\ Malformed(Cells(r)) <=> Malformed(r)
           /\ Cells(r).lineItem # "empty"
           /\ \A id \in {"po", "xtl"} : Cells(r)[id] = r[id]
           /\ Cells(r).status = r.status /\ Cells(r).kind = r.kind
           /\ Cells(r).amount = r.amount /\ Cells(r).value = r.value
           /\ Cells(r).currency = r.currency
           /\ Cells(r).code = IF r.code = "empty" THEN "missing" ELSE r.code
BY DEF Cells, RowFields, ParseStatus, Malformed

\* status() returns the whole of a table or nothing.
LEMMA AllRowsReturned == StatusInv => AllRowsOrNone
<1> SUFFICES ASSUME StatusInv, ReturnedOrder, Tabular
             PROVE  /\ Len(answer.transactions) = Cardinality(RowNumbers)
                    /\ \A k \in RowNumbers :
                         /\ answer.transactions[Place(k)].raw = Cells(Row(k))
                         /\ answer.transactions[Place(k)].result.status = ParseStatus(Row(k))
  BY DEF AllRowsOrNone
<1>1. /\ at = "done" /\ Len(results) = Len(legs) /\ Named("po")
      /\ answer.transactions = results
  BY OrderIsWhole DEF Order
<1>2. RowNumbers # {}
  <2> SUFFICES ASSUME RowNumbers = {} PROVE FALSE
    OBVIOUS
  <2>1. raw = NoFields /\ legs = <<NoFields>>
    BY <1>1, LegsOfTable
  <2>2. \A k \in DOMAIN results : results[k].raw = NoFields
    BY <1>1, <2>1, ResultsOfLegs
  <2> QED BY <1>1, <2>1, <2>2 DEF Named, NoFields
<1>3. ASSUME NEW k \in RowNumbers
      PROVE  /\ results[Place(k)].raw = Cells(Row(k))
             /\ results[Place(k)].result.status = ParseStatus(Row(k))
  <2>1. Place(k) \in DOMAIN legs /\ legs[Place(k)] = Cells(Row(k))
    BY <1>1, <1>2, LegsOfTable
  <2>2. results[Place(k)] = [raw |-> Cells(Row(k)), result |-> Result(Cells(Row(k)))]
    BY <1>1, <2>1, ResultsOfLegs
  <2>3. Row(k) \in RowFields
    BY BodyHasRows DEF StatusInv
  <2> QED BY <2>2, <2>3, CellsKeepTheRow DEF Result
<1> QED BY <1>1, <1>2, <1>3, LegsOfTable

\* Of finitely many numbers one is the least.
LEMMA MinIsOne ==
    ASSUME NEW S, S \subseteq Int, IsFiniteSet(S), S # {}
    PROVE  Min(S) \in S
<1> DEFINE P == {T \in SUBSET S : T # {} => \E x \in T : \A y \in T : x <= y}
<1>1. ASSUME NEW T \in SUBSET S, \A U \in SUBSET T : U # T => U \in P PROVE T \in P
  <2> SUFFICES ASSUME T # {} PROVE \E x \in T : \A y \in T : x <= y
    OBVIOUS
  <2>1. PICK z \in T : TRUE
    OBVIOUS
  <2>2. CASE T = {z}
    BY <2>2
  <2>3. CASE T # {z}
    <3>1. T \ {z} # {} /\ T \ {z} # T
      BY <2>1, <2>3
    <3>2. PICK x \in T \ {z} : \A y \in T \ {z} : x <= y
      BY <1>1, <3>1
    <3>3. CASE x <= z
      BY <3>2, <3>3
    <3>4. CASE ~(x <= z)
      <4>1. \A y \in T : z <= y
        BY <3>2, <3>4
      <4> QED BY <4>1
    <3> QED BY <3>3, <3>4
  <2> QED BY <2>2, <2>3
<1> HIDE DEF P
<1>2. S \in P
  BY <1>1, SubsetInduction
<1>3. \E x \in S : \A y \in S : x <= y
  BY <1>2 DEF P
<1> QED BY <1>3 DEF Min

\* An amount that was read is in a currency.
LEMMA ReadAmountHasCurrency ==
    ASSUME NEW r \in RowFields, IsRow(r), Readable(Cells(r)), Result(Cells(r)).amount
    PROVE  Cells(r).code \in Currencies
<1>1. Present(r.value, r.currency) /\ ~MoneyRefuses(r.value, r.currency)
  BY CellsKeepTheRow DEF Result, Readable, AmountUnreadable
<1>2. r.code \in Currencies
  BY <1>1 DEF MoneyRefuses, IsRow, CodesFor
<1> QED BY <1>2, CurrenciesAssumption, CellsKeepTheRow

\* Summing does not refuse a table.
LEMMA TablesAreSummed ==
    ASSUME StatusInv, at = "done", Tabular, Len(results) = Len(legs)
    PROVE  ~SumRefused
<1>1. raw = NoFields
  BY LegsOfTable
<1>2. CASE WithAmount = {}
  BY <1>1, <1>2 DEF SumRefused, Currency, NoFields
<1>3. CASE WithAmount # {}
  <2> DEFINE p == Min(WithAmount)
  <2>1. p \in WithAmount
    <3>1. DOMAIN results = 1 .. Len(legs) /\ Len(legs) \in Nat
      BY LegsOfTable, ResultsOfLegs
    <3>2. IsFiniteSet(1 .. Len(legs)) /\ WithAmount \subseteq 1 .. Len(legs)
      BY <3>1, FS_Interval DEF WithAmount
    <3>3. IsFiniteSet(WithAmount)
      BY <3>2, FS_Subset
    <3>4. WithAmount \subseteq Int
      BY <3>1, <3>2
    <3> QED BY <1>3, <3>3, <3>4, MinIsOne
  <2> HIDE DEF p
  <2>2. /\ p \in DOMAIN legs /\ Readable(legs[p])
        /\ results[p] = [raw |-> legs[p], result |-> Result(legs[p])]
        /\ Result(legs[p]).amount
    BY <2>1, ResultsOfLegs DEF WithAmount
  <2>3. RowNumbers # {}
    <3> SUFFICES ASSUME RowNumbers = {} PROVE FALSE
      OBVIOUS
    <3>1. legs = <<NoFields>>
      BY LegsOfTable
    <3>2. legs[p] = NoFields
      BY <2>2, <3>1
    <3>3. Result(NoFields).amount = Present("absent", "absent")
      BY DEF NoFields, Result
    <3> QED BY <2>2, <3>2, <3>3 DEF Present
  <2>4. PICK k \in RowNumbers : legs[p] = Cells(Row(k))
    BY <2>2, <2>3, LegsOfTable
  <2>5. Row(k) \in RowFields /\ IsRow(Row(k))
    BY BodyHasRows DEF StatusInv
  <2>6. Cells(Row(k)).code \in Currencies
    BY <2>2, <2>4, <2>5, ReadAmountHasCurrency
  <2>7. Currency = Cells(Row(k)).code
    BY <1>3, <2>2, <2>4 DEF Currency, p
  <2> QED BY <2>6, <2>7, CurrenciesAssumption DEF SumRefused
<1> QED BY <1>2, <1>3

\* A field of one row is found whatever the others lack.
LEMMA TableIsNamed ==
    ASSUME StatusInv, at = "done", Tabular, Len(results) = Len(legs),
           NEW id \in {"po", "xtl"}
    PROVE  Named(id) <=> \E k \in RowNumbers : Row(k)[id]
<1>1. ~raw[id]
  <2>1. raw = NoFields
    BY LegsOfTable
  <2>2. ~NoFields["po"] /\ ~NoFields["xtl"]
    BY DEF NoFields
  <2> QED BY <2>1, <2>2
<1>2. Named(id) <=> \E k \in DOMAIN legs : legs[k][id]
  BY <1>1, ResultsOfLegs DEF Named
<1>3. CASE RowNumbers = {}
  <2>1. legs = <<NoFields>> /\ raw = NoFields
    BY <1>3, LegsOfTable
  <2>2. ~ \E k \in DOMAIN legs : legs[k][id]
    BY <1>1, <2>1
  <2> QED BY <1>2, <1>3, <2>2
<1>4. CASE RowNumbers # {}
  <2>1. \A k \in RowNumbers : Cells(Row(k))[id] = Row(k)[id]
    BY BodyHasRows, CellsKeepTheRow DEF StatusInv
  <2>2. (\E k \in DOMAIN legs : legs[k][id]) <=> \E k \in RowNumbers : Row(k)[id]
    BY <1>4, <2>1, LegsOfTable
  <2> QED BY <1>2, <2>2
<1> QED BY <1>3, <1>4

\* A table is refused for a malformed row only, or when no row names it.
LEMMA RowsCover == StatusInv => RowsCoverForEachOther
<1> SUFFICES ASSUME StatusInv, Tabular PROVE RowsCoverForEachOther
  BY DEF RowsCoverForEachOther
<1>1. ASSUME answer.kind \in {"TypeError", "InvalidOperation"}
      PROVE  \E k \in RowNumbers : Malformed(Row(k))
  <2>1. at = "done" /\ (\/ \E k \in DOMAIN legs : ~Readable(legs[k])
                        \/ SumRefused /\ Len(results) = Len(legs))
    BY <1>1 DEF StatusInv, AnswerFits, Raised, Order
  <2>2. PICK p \in DOMAIN legs : ~Readable(legs[p])
    BY <2>1, TablesAreSummed
  <2>3. RowNumbers # {}
    <3> SUFFICES ASSUME RowNumbers = {} PROVE FALSE
      OBVIOUS
    <3>1. legs = <<NoFields>>
      BY <2>1, LegsOfTable
    <3>2. legs[p] = NoFields
      BY <2>2, <3>1
    <3> QED BY <2>2, <3>2
        DEF NoFields, Readable, LineItemUnreadable, AmountUnreadable, RateUnreadable,
            ConversionUnreadable, Converted, RateReal, Present
  <2>4. PICK k \in RowNumbers : legs[p] = Cells(Row(k))
    BY <2>1, <2>2, <2>3, LegsOfTable
  <2>5. Row(k) \in RowFields
    BY BodyHasRows DEF StatusInv
  <2>6. IsResponse(Cells(Row(k)))
    BY <2>5, RowsAreResponses
  <2> QED BY <2>2, <2>4, <2>5, <2>6, UnreadableIsMalformed, CellsKeepTheRow
<1>2. ASSUME answer.kind = "TransportError" PROVE \A k \in RowNumbers : ~Row(k).po
  <2>1. at = "done" /\ ~Named("po") /\ Len(results) = Len(legs)
    BY <1>2 DEF StatusInv, AnswerFits, Raised, Order
  <2>2. \A k \in RowNumbers : ~Row(k)["po"]
    BY <2>1, TableIsNamed
  <2> QED BY <2>2
<1>3. ASSUME ReturnedOrder PROVE answer.xtl <=> \E k \in RowNumbers : Row(k).xtl
  <2>1. at = "done" /\ Len(results) = Len(legs) /\ answer = Order
    BY <1>3, OrderIsWhole
  <2>3. answer.xtl = Named("xtl")
    BY <2>1 DEF Order
  <2>2. Named("xtl") <=> \E k \in RowNumbers : Row(k)["xtl"]
    BY <2>1, TableIsNamed
  <2> QED BY <2>2, <2>3
<1> QED BY <1>1, <1>2, <1>3 DEF RowsCoverForEachOther

\* No approval without a row that says so.
LEMMA ApprovedByRow ==
    ASSUME StatusInv, ReturnedOrder, NEW k \in DOMAIN answer.transactions,
           answer.transactions[k].result.status = "APPROVED"
    PROVE  \E l \in RowNumbers : Row(l).status = "APPROVED"
<1>1. /\ at = "done" /\ Len(results) = Len(legs) /\ answer.transactions = results
  BY OrderIsWhole DEF Order
<1>2. k \in DOMAIN legs /\ legs[k].status = "APPROVED"
  <2>1. k \in DOMAIN legs /\ results[k].result = Result(legs[k])
    BY <1>1, ResultsOfLegs
  <2>2. ParseStatus(legs[k]) = "APPROVED"
    BY <1>1, <2>1 DEF Result
  <2> QED BY <2>1, <2>2 DEF ParseStatus
<1>3. CASE Tabular
  <2>1. RowNumbers # {}
    <3> SUFFICES ASSUME RowNumbers = {} PROVE FALSE
      OBVIOUS
    <3>1. legs = <<NoFields>>
      BY <1>1, <1>3, LegsOfTable
    <3> QED BY <1>2, <3>1 DEF NoFields
  <2>2. PICK l \in RowNumbers : legs[k] = Cells(Row(l))
    BY <1>1, <1>2, <1>3, <2>1, LegsOfTable
  <2>3. Row(l).status = "APPROVED"
    BY <1>2, <2>2, BodyHasRows, CellsKeepTheRow DEF StatusInv
  <2> QED BY <2>3
<1>4. CASE ~Tabular
  <2>1. legs = <<Flat>>
    BY <1>1, <1>4 DEF StatusInv, LegsFit
  <2>2. Flat.status = "APPROVED"
    BY <1>2, <2>1
  <2>3. IsBody(body)
    BY BodyHasRows DEF StatusInv
  <2>4. body.shape = "flat"
    BY <1>4, <2>2, <2>3 DEF Flat, Tabular, IsBody, NoFields
  <2>5. 1 \in RowNumbers /\ Row(1) = Flat
    BY <2>3, <2>4, NoListAssumption DEF IsBody, IsRow, RowNumbers, Row, Flat, Tabular
  <2> QED BY <2>2, <2>5
<1> QED BY <1>3, <1>4

\* When there is a leg for each row, in whatever form the answer came, a figure
\* adds up the rows whose leg has an amount.
LEMMA LegsAdd ==
    ASSUME StatusInv, Len(results) = Len(legs), NEW kind,
           \A p \in DOMAIN legs : \E k \in RowNumbers : Place(k) = p,
           \A k \in RowNumbers :
             /\ Place(k) \in DOMAIN legs
             /\ legs[Place(k)].kind = Row(k).kind /\ legs[Place(k)].amount = Row(k).amount
             /\ legs[Place(k)].status = Row(k).status
    PROVE  /\ IsFiniteSet(RowNumbers) /\ \A k \in RowNumbers : WrittenAmount[k] \in Nat
           /\ Sum(kind) = SumFunctionOnSet(WrittenAmount,
                {k \in RowNumbers : /\ Place(k) \in WithAmount
                                    /\ Row(k).kind = kind /\ Row(k).status = "APPROVED"})
<1> DEFINE S == {k \in RowNumbers : /\ Place(k) \in WithAmount
                                    /\ Row(k).kind = kind /\ Row(k).status = "APPROVED"}
           T == {p \in WithAmount : /\ results[p].raw.kind = kind
                                    /\ results[p].result.status = "APPROVED"}
           b == [k \in RowNumbers |-> Place(k)]
<1>1. Sum(kind) = SumFunctionOnSet(Amount, T)
  BY DEF Sum
<1>2. ASSUME NEW k \in RowNumbers
      PROVE  /\ b[k] = Place(k) /\ Amount[b[k]] = WrittenAmount[k]
             /\ WrittenAmount[k] \in Nat
             /\ b[k] \in T <=> k \in S
  <2>1. /\ Place(k) \in DOMAIN results /\ results[Place(k)].raw = legs[Place(k)]
        /\ results[Place(k)].result.status = ParseStatus(legs[Place(k)])
        /\ b[k] = Place(k)
    BY ResultsOfLegs DEF Result
  <2>2. Row(k) \in RowFields
    BY BodyHasRows DEF StatusInv
  <2>3. Amount[b[k]] = WrittenAmount[k] /\ WrittenAmount[k] \in Nat
    BY <2>1, <2>2 DEF Amount, WrittenAmount, RowFields
  <2>4. ParseStatus(legs[Place(k)]) = "APPROVED" <=> Row(k).status = "APPROVED"
    BY <2>2 DEF ParseStatus, Statuses
  <2> QED BY <2>1, <2>3, <2>4
<1>3. T = {b[k] : k \in S}
  <2>1. ASSUME NEW p \in T PROVE \E k \in S : b[k] = p
    <3>1. p \in DOMAIN legs
      BY ResultsOfLegs DEF WithAmount
    <3>2. PICK k \in RowNumbers : Place(k) = p
      BY <3>1
    <3> HIDE DEF b, T, S
    <3> QED BY <1>2, <2>1, <3>2
  <2>2. ASSUME NEW k \in S PROVE b[k] \in T
    BY <1>2
  <2> HIDE DEF b, T, S
  <2> QED BY <2>1, <2>2
<1>4. IsFiniteSet(RowNumbers) /\ IsFiniteSet(S)
  <2>1. Len(body.rows) \in Nat /\ RowNumbers \subseteq 1 .. Len(body.rows)
    BY BodyHasRows DEF StatusInv
  <2>2. IsFiniteSet(1 .. Len(body.rows))
    BY <2>1, FS_Interval
  <2>3. IsFiniteSet(RowNumbers)
    BY <2>1, <2>2, FS_Subset
  <2> QED BY <2>3, FS_Subset
<1>5. \A k, l \in S : k # l => b[k] # b[l]
  BY PlacesDiffer DEF StatusInv
<1>6. \A k \in S : WrittenAmount[k] = Amount[b[k]] /\ Amount[b[k]] \in Int
  BY <1>2
<1>7. \A k \in RowNumbers : WrittenAmount[k] \in Nat
  BY <1>2
<1>8. SumFunctionOnSet(Amount, {b[k] : k \in S}) = SumFunctionOnSet(WrittenAmount, S)
  <2> HIDE DEF b, T, S
  <2> QED BY <1>4, <1>5, <1>6, SumOfImage
<1> HIDE DEF b, T
<1> QED BY <1>1, <1>3, <1>4, <1>7, <1>8

\* The legs of a table are its rows as far as the figures go.
LEMMA TableLegs ==
    ASSUME StatusInv, at = "done", Tabular, RowNumbers # {}
    PROVE  /\ \A p \in DOMAIN legs : \E k \in RowNumbers : Place(k) = p
           /\ \A k \in RowNumbers :
                /\ Place(k) \in DOMAIN legs /\ legs[Place(k)] = Cells(Row(k))
                /\ legs[Place(k)].kind = Row(k).kind
                /\ legs[Place(k)].amount = Row(k).amount
                /\ legs[Place(k)].status = Row(k).status
BY LegsOfTable, BodyHasRows, CellsKeepTheRow DEF StatusInv

\* Without a row of its own a leg has no amount, and adds nothing.
LEMMA NoRowsAddNothing ==
    ASSUME StatusInv, Len(results) = Len(legs), legs = <<raw>>,
           raw.value = "absent" /\ raw.currency = "absent", NEW kind
    PROVE  Sum(kind) = 0
<1>1. \A p \in DOMAIN results : results[p].result = Result(raw)
  BY ResultsOfLegs
<1>2. Result(raw).amount = Present("absent", "absent")
  BY DEF Result
<1>3. WithAmount = {}
  BY <1>1, <1>2 DEF WithAmount, Present
<1>4. Sum(kind) = SumFunctionOnSet(Amount, {})
  BY <1>3 DEF Sum
<1> QED BY <1>4, SumOfNone

\* The amounts of a complete table's legs are those of its rows.
LEMMA CompleteLegsAdd ==
    ASSUME StatusInv, at = "done", Tabular, Len(results) = Len(legs), Complete, NEW kind
    PROVE  Sum(kind) = Written(kind)
<1>1. CASE RowNumbers = {}
  <2>1. raw = NoFields /\ legs = <<raw>>
    BY <1>1, LegsOfTable
  <2>2. Sum(kind) = 0
    BY <2>1, NoRowsAddNothing DEF NoFields
  <2>3. Written(kind) = SumFunctionOnSet(WrittenAmount, {})
    BY <1>1 DEF Written
  <2> QED BY <2>2, <2>3, SumOfNone
<1>2. CASE RowNumbers # {}
  <2>1. ASSUME NEW k \in RowNumbers PROVE Place(k) \in WithAmount
    <3>1. Place(k) \in DOMAIN legs /\ legs[Place(k)] = Cells(Row(k))
      BY <1>2, TableLegs
    <3>2. /\ Place(k) \in DOMAIN results
          /\ results[Place(k)].result = Result(Cells(Row(k)))
      BY <3>1, ResultsOfLegs
    <3>3. Row(k) \in RowFields /\ IsRow(Row(k))
      BY BodyHasRows DEF StatusInv
    <3>4. Row(k).value = "good" /\ Row(k).code \in Currencies
      BY DEF Complete
    <3>5. Row(k).currency # "absent"
      BY <3>3, <3>4, CurrenciesAssumption DEF IsRow, CodesFor
    <3>6. Result(Cells(Row(k))).amount = TRUE
      BY <3>3, <3>4, <3>5, CellsKeepTheRow DEF Result, Present
    <3> QED BY <3>2, <3>6 DEF WithAmount
  <2>2. Sum(kind) = SumFunctionOnSet(WrittenAmount,
          {k \in RowNumbers : /\ Place(k) \in WithAmount
                              /\ Row(k).kind = kind /\ Row(k).status = "APPROVED"})
    BY <1>2, TableLegs, LegsAdd
  <2>3. {k \in RowNumbers : /\ Place(k) \in WithAmount
                            /\ Row(k).kind = kind /\ Row(k).status = "APPROVED"}
          = {k \in RowNumbers : Row(k).kind = kind /\ Row(k).status = "APPROVED"}
    BY <2>1
  <2> QED BY <2>2, <2>3 DEF Written
<1> QED BY <1>1, <1>2

\* What the rows that have a leg with an amount add up to is not more than what
\* all approved rows do.
LEMMA LegsAddNoMore ==
    ASSUME StatusInv, at = "done", Len(results) = Len(legs), NEW kind
    PROVE  Sum(kind) <= Written(kind)
<1> DEFINE S == {k \in RowNumbers : Row(k).kind = kind /\ Row(k).status = "APPROVED"}
           R == {k \in RowNumbers : /\ Place(k) \in WithAmount
                                    /\ Row(k).kind = kind /\ Row(k).status = "APPROVED"}
<1>1. Written(kind) = SumFunctionOnSet(WrittenAmount, S) /\ R \in SUBSET S
  BY DEF Written
<1>2. IsFiniteSet(S) /\ \A k \in S : WrittenAmount[k] \in Nat
  <2>1. Len(body.rows) \in Nat /\ S \subseteq 1 .. Len(body.rows)
    BY BodyHasRows DEF StatusInv
  <2>2. IsFiniteSet(1 .. Len(body.rows))
    BY <2>1, FS_Interval
  <2>3. IsFiniteSet(S)
    BY <2>1, <2>2, FS_Subset
  <2>4. \A k \in S : Row(k).amount \in Nat
    BY BodyHasRows DEF StatusInv, RowFields
  <2> QED BY <2>3, <2>4 DEF WrittenAmount
<1>3. ASSUME Sum(kind) = 0 PROVE Sum(kind) <= Written(kind)
  <2> HIDE DEF S
  <2>1. Written(kind) \in Nat
    BY <1>1, <1>2, SumIsNumber
  <2> QED BY <1>3, <2>1
<1>4. ASSUME Sum(kind) = SumFunctionOnSet(WrittenAmount, R) PROVE Sum(kind) <= Written(kind)
  <2> HIDE DEF S, R
  <2> QED BY <1>1, <1>2, <1>4, SumOfPart
<1>5. CASE Tabular /\ RowNumbers # {}
  BY <1>4, <1>5, TableLegs, LegsAdd
<1>6. CASE ~(Tabular /\ RowNumbers # {})
  <2>1. raw = Flat /\ legs = <<raw>> /\ DOMAIN legs = {1}
    BY <1>6 DEF StatusInv, LegsFit
  <2>2. IsBody(body)
    BY BodyHasRows DEF StatusInv
  <2>3. CASE body.shape = "flat"
    <3>1. 1 \in RowNumbers /\ RowNumbers \subseteq {1} /\ Row(1) = raw
      BY <2>1, <2>2, <2>3, NoListAssumption, LenProperties
         DEF IsBody, IsRow, RowNumbers, Row, Flat, Tabular
    <3>2. RowNumbers = {1}
      BY <3>1
    <3>3. Place(1) = 1
      <4>1. {l \in RowNumbers : l <= 1} = {1}
        BY <3>2
      <4> QED BY <4>1, FS_Singleton DEF Place
    <3>4. /\ \A p \in DOMAIN legs : \E k \in RowNumbers : Place(k) = p
          /\ \A k \in RowNumbers :
               /\ Place(k) \in DOMAIN legs
               /\ legs[Place(k)].kind = Row(k).kind
               /\ legs[Place(k)].amount = Row(k).amount
               /\ legs[Place(k)].status = Row(k).status
      BY <2>1, <3>1, <3>2, <3>3
    <3> QED BY <1>4, <3>4, LegsAdd
  <2>4. CASE body.shape # "flat"
    <3>1. raw.value = "absent" /\ raw.currency = "absent"
      BY <2>1, <2>4 DEF Flat, NoFields
    <3> QED BY <1>3, <2>1, <3>1, NoRowsAddNothing
  <2> QED BY <2>3, <2>4
<1> QED BY <1>5, <1>6

\* No approval and no money without rows that say so.
LEMMA NothingInvented == StatusInv => ApprovedIsWritten
<1> SUFFICES ASSUME StatusInv, ReturnedOrder
             PROVE  /\ answer.authorized <= Written("auth")
                    /\ answer.captured <= Written("capture")
  BY ApprovedByRow DEF ApprovedIsWritten
<1>1. at = "done" /\ Len(results) = Len(legs) /\ answer = Order
  BY OrderIsWhole
<1>2. Sum("auth") <= Written("auth") /\ Sum("capture") <= Written("capture")
  BY <1>1, LegsAddNoMore
<1> QED BY <1>1, <1>2 DEF Order

\* The figures of a complete table are those of its rows.
LEMMA FiguresOfRows == StatusInv => FiguresAreOfAllRows
<1> SUFFICES ASSUME StatusInv, ReturnedOrder, Tabular, Complete
             PROVE  /\ answer.authorized = Written("auth")
                    /\ answer.captured = Written("capture")
                    /\ answer.outstanding = Written("auth") - Written("capture")
  BY DEF FiguresAreOfAllRows
<1>1. at = "done" /\ Len(results) = Len(legs) /\ answer = Order
  BY OrderIsWhole
<1>2. Sum("auth") = Written("auth") /\ Sum("capture") = Written("capture")
  BY <1>1, CompleteLegsAdd
<1> QED BY <1>1, <1>2 DEF Order

-----------------------------------------------------------------------------
(* The theorems                                                            *)

\* Whatever an answer leaves out or leaves empty, line items apart, it is read:
\* Refs, Money.of and Decimal refuse only what the gateway should not have
\* written -- of one answer, and of each leg of an order.
THEOREM RaisesOnlyForCause ==
    (Spec => []RaisesOnlyOnMalformed) /\ (StatusSpec => []RaisesOnlyOnMalformed)
<1>1. StatusInv => RaisesOnlyOnMalformed
  BY RefusedForCause DEF StatusInv
<1> QED BY <1>1, RefusedForCause, OutcomeFitsResponse, StatusInvariant, PTL

\* No result of to_transaction_result holds half an amount, or a conversion at a
\* rate of 0 or at none.
THEOREM ResultsAreWhole ==
    (Spec => []ReportsOnlyWhatWasWritten) /\ (StatusSpec => []ReportsOnlyWhatWasWritten)
<1>1. StatusInv => ReportsOnlyWhatWasWritten
  BY WholeResult DEF StatusInv
<1> QED BY <1>1, WholeResult, OutcomeFitsResponse, StatusInvariant, PTL

\* A customer who can act on a pending payment is shown how, with the page it
\* belongs on; nothing is asked of one whose payment is not pending.
THEOREM PromptsReachTheCustomer ==
    (Spec => []PendingIsActionable) /\ (StatusSpec => []PendingIsActionable)
<1>1. StatusInv => PendingIsActionable
  BY ActionablePending DEF StatusInv
<1> QED BY <1>1, ActionablePending, OutcomeFitsResponse, StatusInvariant, PTL

\* However long the table and whatever its rows lack, status() returns all of
\* them in their order, each as it was decided, or raises.
THEOREM WholeTableOrNone == StatusSpec => []AllRowsOrNone
BY AllRowsReturned, StatusInvariant, PTL

\* The figures of a table whose rows all have an amount in one currency are the
\* sums of its approved rows.
THEOREM FiguresOfCompleteTables == StatusSpec => []FiguresAreOfAllRows
BY FiguresOfRows, StatusInvariant, PTL

\* A table of any length is refused for a field that cannot be read or because no
\* row names the order; what one row lacks another one makes up for, the currency
\* of the sums included, and no empty cell refuses anything.
THEOREM MissingFieldsAreCovered == StatusSpec => []RowsCoverForEachOther
BY RowsCover, StatusInvariant, PTL

\* However long the table, whatever its rows lack and in whatever form it came:
\* status() approves nothing that no row of the body approves, and reports no more
\* authorized or captured than the approved rows add up to.
THEOREM NothingIsInvented == StatusSpec => []ApprovedIsWritten
BY NothingInvented, StatusInvariant, PTL
=============================================================================
