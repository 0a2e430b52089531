------------------------- MODULE OrderLedger_proofs -------------------------
(***************************************************************************)
(* What the figures of OrderStatus and its settled flag promise, for any   *)
(* number of calls and any amounts.                                        *)
(*                                                                         *)
(* The figures are sums over the approved rows, the book is kept call by   *)
(* call: the invariant is that they differ by the captures voided so far   *)
(* and by nothing else.  For settled, only the first call of an order      *)
(* leaves an authorization row, and only Batch writes the flag.            *)
(*                                                                         *)
(* The second part is about FollowUps, which is OrderLedger's gateway with *)
(* workers that capture and refund in parallel: what one of them may       *)
(* believe of its call, for any number of workers, calls and faults.       *)
(***************************************************************************)
EXTENDS FollowUps, Sums_proofs

\* Rows and book are well formed, and no flag was set before a batch ran.
IInv ==
    /\ leg \in [Calls -> Leg \cup {NoLeg}]
    /\ book \in [authorized : Int, captured : Int, refunded : Int]
    /\ batched \in BOOLEAN
    /\ \A i \in Calls : leg[i].settled => batched

\* The approved rows of these actions, and what they add up to with and without
\* their signs.
Of(K) == {i \in Legs : leg[i].action \in K /\ leg[i].status = "APPROVED"}
Total(K) == SumFunctionOnSet(Amount, Of(K))
Gross(K) == SumFunctionOnSet(AmountMagnitude, Of(K))

\* What was voided of captures: to_order_status takes it off authorized, the
\* gateway off captured.
VoidedCaptures == Gross({"CCREVERSECAP"})

\* Credits and voids arrive negative, whatever else may be approved does not.
SignFits(l) ==
    l.status # "DECLINED" =>
        IF IsVoid(l.action) \/ IsRefund(l.action) THEN l.amount <= 0 ELSE l.amount >= 0

\* The order has finitely many rows, of the right signs, and they add up to the
\* book, but for the voided captures.
FiguresInv ==
    /\ IsFiniteSet(Legs)
    /\ \A i \in Calls : SignFits(leg[i])
    /\ Authorized = book.authorized - VoidedCaptures
    /\ Captured = book.captured + VoidedCaptures
    /\ Refunded = book.refunded

\* The gateway is asked to take a row over v, and may approve it only if v is no
\* negative amount.
Asks(i, action, v) ==
    \/ \E allowed \in BOOLEAN : /\ allowed => v >= 0
                                /\ Handle(i, action, v, allowed)
    \/ v >= 0 /\ HandlePending(i, action, v)

\* Row i, not yet approved, becomes l and is booked if that is approved.
Becomes(i, l) ==
    /\ leg[i].status # "APPROVED"
    /\ SignFits(l)
    /\ leg' = [leg EXCEPT ![i] = l]
    /\ book' = IF l.status = "APPROVED" THEN Posted(book, l.action, Magnitude(l.amount))
               ELSE book

\* A call leaves a row of its own, unflagged, and no other row changes.
Leaves(i, action) ==
    /\ leg[i] = NoLeg
    /\ \E l \in Leg : /\ l.action = action /\ ~l.settled
                      /\ Becomes(i, l)

\* An operation opens the order, or leaves a row that is no authorization.
Opens(i) == ~Opened /\ \E action \in Actions : Leaves(i, action)
FollowsUp(i) == \E action \in Actions : ~IsAuth(action) /\ Leaves(i, action)

-----------------------------------------------------------------------------
(* The operations                                                          *)

\* What the gateway books is a number.
LEMMA PostedIsBook ==
    ASSUME NEW b \in [authorized : Int, captured : Int, refunded : Int],
           NEW action \in Actions, NEW v \in Int
    PROVE  Posted(b, action, v) \in [authorized : Int, captured : Int, refunded : Int]
<1>2. b.authorized \in Int /\ b.captured \in Int /\ b.refunded \in Int
  OBVIOUS
<1>3. CASE action = "CCAUTHORIZE"
  BY <1>2, <1>3 DEF Posted
<1>4. CASE action = "CCAUTHCAP"
  BY <1>2, <1>4 DEF Posted
<1>5. CASE action = "CCCAPTURE"
  BY <1>2, <1>5 DEF Posted
<1>6. CASE action = "CCCREDIT"
  BY <1>2, <1>6 DEF Posted
<1>7. CASE action = "CCREVERSE"
  BY <1>2, <1>7 DEF Posted
<1>8. CASE action = "CCREVERSECAP"
  BY <1>2, <1>8 DEF Posted
<1>9. CASE action = "CCTRANSUPDATE"
  BY <1>9 DEF Posted
<1> QED BY <1>3, <1>4, <1>5, <1>6, <1>7, <1>8, <1>9 DEF Actions

\* Whatever the gateway does with a request, it leaves one unflagged row.
LEMMA AskedLeaves ==
    ASSUME IInv, NEW i \in Calls, NEW action \in Actions, NEW v \in Int, Asks(i, action, v)
    PROVE  IInv' /\ Leaves(i, action)
<1>1. Signed(action, v) \in Int
  BY DEF Signed
<1>2. PICK status \in {"APPROVED", "DECLINED", "PENDING"} :
        /\ leg' = [leg EXCEPT ![i] = [action |-> action, status |-> status,
                                      amount |-> Signed(action, v), settled |-> FALSE]]
        /\ status # "DECLINED" => v >= 0
        /\ book' = IF status = "APPROVED" THEN Posted(book, action, v) ELSE book
  <2>1. CASE v >= 0 /\ HandlePending(i, action, v)
    BY <2>1 DEF HandlePending
  <2>2. ASSUME NEW allowed \in BOOLEAN, allowed => v >= 0, Handle(i, action, v, allowed)
        PROVE  \E status \in {"APPROVED", "DECLINED", "PENDING"} :
                 /\ leg' = [leg EXCEPT ![i] = [action |-> action, status |-> status,
                                               amount |-> Signed(action, v), settled |-> FALSE]]
                 /\ status # "DECLINED" => v >= 0
                 /\ book' = IF status = "APPROVED" THEN Posted(book, action, v) ELSE book
    BY <2>2 DEF Handle
  <2> QED BY <2>1, <2>2 DEF Asks
<1> DEFINE l == [action |-> action, status |-> status,
                 amount |-> Signed(action, v), settled |-> FALSE]
<1>3. l \in Leg
  BY <1>1 DEF Leg
<1>4. leg[i] = NoLeg /\ batched' = batched
  BY DEF Asks, Handle, HandlePending
<1>5. v >= 0 => Magnitude(Signed(action, v)) = v
  BY DEF Magnitude, Signed
<1>6. SignFits(l)
  BY <1>2 DEF SignFits, Signed
<1>7. Becomes(i, l)
  BY <1>2, <1>4, <1>5, <1>6 DEF Becomes, NoLeg
<1>8. Leaves(i, action)
  BY <1>3, <1>4, <1>7 DEF Leaves
<1>9. book' \in [authorized : Int, captured : Int, refunded : Int]
  <2>1. book \in [authorized : Int, captured : Int, refunded : Int]
    BY DEF IInv
  <2> QED BY <1>2, <2>1, PostedIsBook
<1> QED BY <1>2, <1>3, <1>4, <1>8, <1>9 DEF IInv

\* A capture or refund without an amount is of what the book leaves.
LEMMA NamedIsInt ==
    ASSUME NEW v \in Amounts \cup {Whole}, NEW rest \in Int
    PROVE  Named(v, rest) \in Int
BY AmountsAssumption DEF Named

\* Every method of InovioClient: sale, authorize and force_credit open an order,
\* the others follow up without an authorization.
LEMMA OperationsAsk ==
    ASSUME IInv, NEW i \in Calls,
           \/ Sale(i) \/ Authorize(i) \/ ForceCredit(i)
           \/ Capture(i) \/ CaptureLineItem(i) \/ Refund(i)
           \/ Reverse(i) \/ ReverseCapture(i) \/ UpdateOrder(i)
    PROVE  \E action \in Actions, v \in Int :
               Asks(i, action, v) /\ (~Opened \/ ~IsAuth(action))
<1> DEFINE Goal == \E action \in Actions, v \in Int :
                       Asks(i, action, v) /\ (~Opened \/ ~IsAuth(action))
<1> SUFFICES Goal
  OBVIOUS
<1>1. Uncaptured \in Int /\ Unrefunded \in Int /\ book.authorized \in Int /\ book.captured \in Int
  BY DEF IInv, Uncaptured, Unrefunded
<1>2. ASSUME NEW operation, NEW action \in Actions, Open(i, operation, action)
      PROVE  Goal
  <2>1. PICK v \in Amounts : Handle(i, action, v, TRUE) \/ HandlePending(i, action, v)
    BY <1>2 DEF Open
  <2>2. v \in Int /\ v >= 0
    BY AmountsAssumption
  <2>3. Asks(i, action, v)
    BY <2>1, <2>2, Zenon DEF Asks
  <2> QED BY <1>2, <2>2, <2>3 DEF Open
<1>3. CASE Sale(i) \/ Authorize(i) \/ ForceCredit(i)
  BY <1>2, <1>3 DEF Sale, Authorize, ForceCredit, Actions
<1>4. ASSUME NEW action \in Actions, ~IsAuth(action), NEW v \in Int,
             NEW allowed \in BOOLEAN, Handle(i, action, v, allowed), allowed => v >= 0
      PROVE  Goal
  <2>1. Asks(i, action, v)
    BY <1>4, Zenon DEF Asks
  <2> QED BY <1>4, <2>1
<1>10. "CCCAPTURE" \in Actions /\ "CCCREDIT" \in Actions /\ "CCREVERSE" \in Actions
       /\ "CCREVERSECAP" \in Actions /\ "CCTRANSUPDATE" \in Actions
       /\ ~IsAuth("CCCAPTURE") /\ ~IsAuth("CCCREDIT") /\ ~IsAuth("CCREVERSE")
       /\ ~IsAuth("CCREVERSECAP") /\ ~IsAuth("CCTRANSUPDATE")
  BY DEF Actions, IsAuth
<1> HIDE DEF Goal
<1>5. CASE Capture(i)
  <2>1. PICK v \in Amounts \cup {Whole} : CaptureOf(i, v)
    BY <1>5 DEF Capture
  <2> DEFINE m == Named(v, Uncaptured)
             allowed == 0 < m /\ m <= Uncaptured
  <2>2. m \in Int
    BY <1>1, NamedIsInt
  <2>3. Handle(i, "CCCAPTURE", m, allowed)
    BY <2>1 DEF CaptureOf
  <2>4. allowed \in BOOLEAN /\ (allowed => m >= 0)
    BY <2>2
  <2> HIDE DEF m, allowed
  <2> QED BY <1>4, <1>10, <2>2, <2>3, <2>4
<1>6. CASE CaptureLineItem(i)
  <2>1. PICK v \in Amounts : Handle(i, "CCCAPTURE", v, v <= Uncaptured)
    BY <1>6 DEF CaptureLineItem
  <2> DEFINE allowed == v <= Uncaptured
  <2>2. v \in Int /\ v >= 0 /\ allowed \in BOOLEAN
    BY AmountsAssumption
  <2>3. Handle(i, "CCCAPTURE", v, allowed)
    BY <2>1
  <2> HIDE DEF allowed
  <2> QED BY <1>4, <1>10, <2>2, <2>3
<1>7. CASE Refund(i)
  <2>1. PICK v \in Amounts \cup {Whole} : RefundOf(i, v)
    BY <1>7 DEF Refund
  <2> DEFINE m == Named(v, Unrefunded)
             allowed == 0 < m /\ m <= Unrefunded
  <2>2. m \in Int
    BY <1>1, NamedIsInt
  <2>3. Handle(i, "CCCREDIT", m, allowed)
    BY <2>1 DEF RefundOf
  <2>4. allowed \in BOOLEAN /\ (allowed => m >= 0)
    BY <2>2
  <2> HIDE DEF m, allowed
  <2> QED BY <1>4, <1>10, <2>2, <2>3, <2>4
<1>8. CASE Reverse(i)
  <2> DEFINE allowed == book.authorized > 0 /\ book.captured = 0 /\ ~batched
  <2>1. Handle(i, "CCREVERSE", book.authorized, allowed)
    BY <1>8 DEF Reverse
  <2>2. allowed \in BOOLEAN /\ (allowed => book.authorized >= 0)
    BY <1>1
  <2> HIDE DEF allowed
  <2> QED BY <1>1, <1>4, <1>10, <2>1, <2>2
<1>9. CASE ReverseCapture(i)
  <2> DEFINE allowed == book.captured > 0 /\ book.refunded = 0 /\ ~batched
  <2>1. Handle(i, "CCREVERSECAP", book.captured, allowed)
    BY <1>9 DEF ReverseCapture
  <2>2. allowed \in BOOLEAN /\ (allowed => book.captured >= 0)
    BY <1>1
  <2> HIDE DEF allowed
  <2> QED BY <1>1, <1>4, <1>10, <2>1, <2>2
<1>11. CASE UpdateOrder(i)
  <2>1. Handle(i, "CCTRANSUPDATE", 0, TRUE)
    BY <1>11 DEF UpdateOrder
  <2>2. 0 \in Int /\ 0 >= 0 /\ TRUE \in BOOLEAN
    OBVIOUS
  <2> QED BY <1>4, <1>10, <2>1, <2>2
<1> QED BY <1>3, <1>5, <1>6, <1>7, <1>8, <1>9, <1>11

\* Every method opens an order or leaves a row that is no authorization.
LEMMA OperationsLeave ==
    ASSUME IInv, NEW i \in Calls,
           \/ Sale(i) \/ Authorize(i) \/ ForceCredit(i)
           \/ Capture(i) \/ CaptureLineItem(i) \/ Refund(i)
           \/ Reverse(i) \/ ReverseCapture(i) \/ UpdateOrder(i)
    PROVE  IInv' /\ (Opens(i) \/ FollowsUp(i))
<1>1. PICK action \in Actions, v \in Int :
        Asks(i, action, v) /\ (~Opened \/ ~IsAuth(action))
  BY OperationsAsk
<1>2. IInv' /\ Leaves(i, action)
  BY <1>1, AskedLeaves
<1> QED BY <1>1, <1>2 DEF Opens, FollowsUp

\* A pending leg is decided: its row keeps all but its status.
LEMMA ConcludeKeeps ==
    ASSUME IInv, NEW i \in Calls, Conclude(i)
    PROVE  /\ IInv'
           /\ \A j \in Calls : /\ leg'[j] = NoLeg <=> leg[j] = NoLeg
                               /\ leg'[j].action = leg[j].action
                               /\ leg'[j].settled = leg[j].settled
<1>1. PICK status \in {"APPROVED", "DECLINED"} :
        /\ leg' = [leg EXCEPT ![i].status = status]
        /\ book' = IF status = "APPROVED"
                   THEN Posted(book, leg[i].action, Magnitude(leg[i].amount))
                   ELSE book
  BY DEF Conclude
<1>2. leg[i] \in Leg /\ batched' = batched
  BY DEF Conclude, IInv
<1>3. leg[i].action \in Actions /\ Magnitude(leg[i].amount) \in Int
  BY <1>2 DEF Leg, Magnitude
<1>4. book' \in [authorized : Int, captured : Int, refunded : Int]
  BY <1>1, <1>3, PostedIsBook DEF IInv
<1>5. /\ leg'[i] \in Leg
      /\ leg'[i].action = leg[i].action /\ leg'[i].settled = leg[i].settled
  BY <1>1, <1>2 DEF IInv, Leg
<1>6. NoLeg \notin Leg
  BY DEF NoLeg, Leg, Actions
<1>7. \A j \in Calls : j # i => leg'[j] = leg[j]
  BY <1>1 DEF IInv
<1>8. leg' \in [Calls -> Leg \cup {NoLeg}]
  BY <1>1, <1>5, <1>7 DEF IInv
<1> QED BY <1>2, <1>4, <1>5, <1>6, <1>7, <1>8 DEF IInv

\* The batch flags rows and changes nothing else of them.
LEMMA BatchKeeps ==
    ASSUME IInv, Batch
    PROVE  /\ IInv'
           /\ \A j \in Calls : /\ leg'[j] = NoLeg <=> leg[j] = NoLeg
                               /\ leg'[j].action = leg[j].action
                               /\ leg[j].settled => leg'[j].settled
<1>1. NoLeg \notin Leg /\ NoLeg.status # "APPROVED"
  BY DEF NoLeg, Leg, Actions
<1>2. ASSUME NEW j \in Calls
      PROVE  \/ leg'[j] = leg[j]
             \/ /\ leg[j] \in Leg /\ leg'[j] \in Leg
                /\ leg'[j].action = leg[j].action /\ leg'[j].settled = TRUE
  <2>1. CASE leg[j].status = "APPROVED"
    <3>1. leg[j] \in Leg
      BY <1>1, <2>1 DEF IInv
    <3>2. leg'[j] = [leg[j] EXCEPT !.settled = TRUE]
      BY <2>1 DEF Batch
    <3> QED BY <3>1, <3>2 DEF Leg
  <2>2. CASE leg[j].status # "APPROVED"
    BY <2>2 DEF Batch
  <2> QED BY <2>1, <2>2
<1>3. leg' \in [Calls -> Leg \cup {NoLeg}]
  BY <1>2 DEF Batch, IInv
<1> QED BY <1>1, <1>2, <1>3 DEF Batch, IInv

\* Each step keeps rows and book well formed, and the flags to batches.
LEMMA NextKeepsIInv == IInv /\ [Next]_vars => IInv'
BY OperationsLeave, ConcludeKeeps, BatchKeeps DEF Next, vars, IInv

\* The first invariant of the ledger.
LEMMA InductiveInvariant == Spec => []IInv
<1>1. Init => IInv
  <2> SUFFICES ASSUME Init PROVE IInv
    OBVIOUS
  <2>1. leg \in [Calls -> Leg \cup {NoLeg}]
    BY DEF Init
  <2>2. \A i \in Calls : ~leg[i].settled
    BY DEF Init, NoLeg
  <2>3. book \in [authorized : Int, captured : Int, refunded : Int]
    BY DEF Init
  <2>4. batched \in BOOLEAN
    BY DEF Init
  <2> QED BY <2>1, <2>2, <2>3, <2>4 DEF IInv
<1> QED BY <1>1, NextKeepsIInv, PTL DEF Spec

-----------------------------------------------------------------------------
(* settled                                                                 *)

\* An order with an authorization reads as settled only after a batch, however
\* many captures, refunds and voids came before: all([]) and the legs that are no
\* authorization do not count for it.
THEOREM SettledAfterBatch == Spec => []SettledOnlyByBatch
<1>1. IInv => SettledOnlyByBatch
  BY DEF IInv, SettledOnlyByBatch, OrderStatus, Settled, Legs
<1> QED BY <1>1, InductiveInvariant, PTL

\* No call, decision or later batch takes back that an order reads as settled.
LEMMA StepKeepsSettled == IInv /\ [Next]_vars => (Settled => Settled')
<1> SUFFICES ASSUME IInv, [Next]_vars, Settled PROVE Settled'
  OBVIOUS
<1>1. ASSUME \A j \in Calls : /\ leg'[j] = NoLeg <=> leg[j] = NoLeg
                              /\ leg'[j].action = leg[j].action
                              /\ leg[j].settled => leg'[j].settled
      PROVE  Settled'
  BY <1>1 DEF Settled, Legs
<1>2. ASSUME NEW i \in Calls, FollowsUp(i) PROVE Settled'
  <2>1. /\ leg[i] = NoLeg /\ ~IsAuth(leg'[i].action)
        /\ \A j \in Calls : j # i => leg'[j] = leg[j]
    BY <1>2 DEF FollowsUp, Leaves, Becomes, IInv
  <2> QED BY <2>1 DEF Settled, Legs
<1>3. ASSUME NEW i \in Calls, Opens(i) PROVE FALSE
  BY <1>3 DEF Opens, Opened, Settled
<1>4. CASE \E i \in Calls : Conclude(i)
  BY <1>1, <1>4, ConcludeKeeps
<1>5. CASE Batch
  BY <1>1, <1>5, BatchKeeps
<1>6. CASE UNCHANGED vars
  BY <1>1, <1>6 DEF vars
<1> QED BY <1>2, <1>3, <1>4, <1>5, <1>6, OperationsLeave DEF Next

\* OrderStatus.settled, once true, stays true.
THEOREM SettledForGood == Spec => SettledStays
<1>1. IInv /\ [Next]_vars => [OrderStatus.settled => OrderStatus'.settled]_vars
  BY StepKeepsSettled DEF OrderStatus
<1> QED BY <1>1, InductiveInvariant, PTL DEF Spec, SettledStays

-----------------------------------------------------------------------------
(* The figures                                                             *)

\* The rows a sum is over are finitely many numbers.
LEMMA TermsAreNumbers ==
    ASSUME IInv, IsFiniteSet(Legs), NEW K
    PROVE  /\ IsFiniteSet(Of(K)) /\ Of(K) \subseteq Calls
           /\ \A i \in Calls : /\ Amount[i] = leg[i].amount /\ Amount[i] \in Int
                               /\ AmountMagnitude[i] = Magnitude(Amount[i])
                               /\ AmountMagnitude[i] \in Nat
<1>1. \A i \in Calls : leg[i].amount \in Int
  BY DEF IInv, Leg, NoLeg
<1>2. IsFiniteSet(Of(K))
  BY FS_Subset DEF Of
<1> QED BY <1>1, <1>2 DEF Amount, AmountMagnitude, Magnitude, Of, Legs

\* Sums of approved rows are integers, and without their signs naturals.
LEMMA FiguresAreNumbers ==
    ASSUME IInv, IsFiniteSet(Legs), NEW K
    PROVE  Total(K) \in Int /\ Gross(K) \in Nat
<1>1. Total(K) \in Int
  BY TermsAreNumbers, SumIsNumber DEF Total
<1>2. Gross(K) \in Nat
  <2>1. IsFiniteSet(Of(K)) /\ \A i \in Of(K) : AmountMagnitude[i] \in Nat
    BY TermsAreNumbers
  <2>2. \A i \in Of(K) : AmountMagnitude[i] \in Int
    BY <2>1
  <2> QED BY <2>1, <2>2, SumIsNumber DEF Gross
<1> QED BY <1>1, <1>2

\* A row that becomes approved adds its amount to the sums its action counts for,
\* any other change of a row adds nothing.
LEMMA RowAdds ==
    ASSUME IInv, IsFiniteSet(Legs), NEW i \in Calls, NEW l \in Leg, Becomes(i, l), NEW K
    PROVE  /\ IsFiniteSet(Legs)'
           /\ Total(K)' = Total(K) + (IF l.status = "APPROVED" /\ l.action \in K
                                      THEN l.amount ELSE 0)
           /\ Gross(K)' = Gross(K) + (IF l.status = "APPROVED" /\ l.action \in K
                                      THEN Magnitude(l.amount) ELSE 0)
<1>1. /\ leg'[i] = l /\ l # NoLeg
      /\ \A j \in Calls : j # i => leg'[j] = leg[j]
  BY DEF Becomes, IInv, NoLeg, Leg, Actions
<1>2. Legs' = Legs \cup {i}
  BY <1>1 DEF Legs
<1>3. IsFiniteSet(Legs)'
  BY <1>2, FS_AddElement
<1>4. /\ i \notin Of(K)
      /\ Of(K)' = IF l.status = "APPROVED" /\ l.action \in K THEN Of(K) \cup {i} ELSE Of(K)
  BY <1>1, <1>2 DEF Becomes, Of, Legs
<1>5. /\ IsFiniteSet(Of(K)) /\ Of(K) \subseteq Calls
      /\ \A j \in Calls : Amount[j] \in Int /\ AmountMagnitude[j] \in Int
  BY TermsAreNumbers
<1>6. /\ Amount'[i] = l.amount /\ AmountMagnitude'[i] = Magnitude(l.amount)
      /\ Amount'[i] \in Int /\ AmountMagnitude'[i] \in Int
      /\ \A j \in Calls : j # i => /\ Amount'[j] = Amount[j]
                                   /\ AmountMagnitude'[j] = AmountMagnitude[j]
  BY <1>1 DEF Amount, AmountMagnitude, Magnitude, Leg
<1>7. /\ SumFunctionOnSet(Amount', Of(K)) = Total(K)
      /\ SumFunctionOnSet(AmountMagnitude', Of(K)) = Gross(K)
  <2>1. \A j \in Of(K) : Amount[j] = Amount'[j] /\ AmountMagnitude[j] = AmountMagnitude'[j]
    BY <1>4, <1>5, <1>6
  <2> QED BY <1>5, <2>1, SumOfSame DEF Total, Gross
<1>8. Total(K) \in Int /\ Gross(K) \in Int
  BY FiguresAreNumbers
<1>9. CASE l.status = "APPROVED" /\ l.action \in K
  <2>1. \A j \in Of(K) \cup {i} : Amount'[j] \in Int /\ AmountMagnitude'[j] \in Int
    BY <1>4, <1>5, <1>6
  <2>2. /\ SumFunctionOnSet(Amount', Of(K) \cup {i})
             = Amount'[i] + SumFunctionOnSet(Amount', Of(K))
        /\ SumFunctionOnSet(AmountMagnitude', Of(K) \cup {i})
             = AmountMagnitude'[i] + SumFunctionOnSet(AmountMagnitude', Of(K))
    BY <1>4, <1>5, <2>1, SumAdds
  <2>3. /\ Total(K)' = SumFunctionOnSet(Amount', Of(K) \cup {i})
        /\ Gross(K)' = SumFunctionOnSet(AmountMagnitude', Of(K) \cup {i})
    BY <1>4, <1>9 DEF Total, Gross
  <2> QED BY <1>3, <1>6, <1>7, <1>8, <1>9, <2>2, <2>3
<1>10. CASE ~(l.status = "APPROVED" /\ l.action \in K)
  <2>1. /\ Total(K)' = SumFunctionOnSet(Amount', Of(K))
        /\ Gross(K)' = SumFunctionOnSet(AmountMagnitude', Of(K))
    BY <1>4, <1>10 DEF Total, Gross
  <2> QED BY <1>3, <1>7, <1>8, <1>10, <2>1
<1> QED BY <1>9, <1>10

\* The figures of to_order_status by the actions they are over.
LEMMA FiguresByAction ==
    /\ Authorized = Total({"CCAUTHORIZE", "CCAUTHCAP"}) - Gross({"CCREVERSE", "CCREVERSECAP"})
    /\ Captured = Total({"CCCAPTURE", "CCAUTHCAP"})
    /\ Refunded = Gross({"CCCREDIT"})
<1>1. Approved(IsAuth) = Of({"CCAUTHORIZE", "CCAUTHCAP"})
  BY DEF Approved, Of, IsAuth
<1>2. Approved(IsVoid) = Of({"CCREVERSE", "CCREVERSECAP"})
  BY DEF Approved, Of, IsVoid
<1>3. Approved(IsCapture) = Of({"CCCAPTURE", "CCAUTHCAP"})
  BY DEF Approved, Of, IsCapture
<1>4. Approved(IsRefund) = Of({"CCCREDIT"})
  BY DEF Approved, Of, IsRefund
<1> QED BY <1>1, <1>2, <1>3, <1>4 DEF Authorized, Captured, Refunded, Total, Gross

\* So they are after a step.
LEMMA FiguresByActionNext ==
    /\ Authorized' = (Total({"CCAUTHORIZE", "CCAUTHCAP"}) - Gross({"CCREVERSE", "CCREVERSECAP"}))'
    /\ Captured' = Total({"CCCAPTURE", "CCAUTHCAP"})'
    /\ Refunded' = Gross({"CCCREDIT"})'
<1>1. Approved(IsAuth)' = Of({"CCAUTHORIZE", "CCAUTHCAP"})'
  BY DEF Approved, Of, IsAuth
<1>2. Approved(IsVoid)' = Of({"CCREVERSE", "CCREVERSECAP"})'
  BY DEF Approved, Of, IsVoid
<1>3. Approved(IsCapture)' = Of({"CCCAPTURE", "CCAUTHCAP"})'
  BY DEF Approved, Of, IsCapture
<1>4. Approved(IsRefund)' = Of({"CCCREDIT"})'
  BY DEF Approved, Of, IsRefund
<1> QED BY <1>1, <1>2, <1>3, <1>4 DEF Authorized, Captured, Refunded, Total, Gross

\* What the gateway books of a row is what the row changes in the figures, but
\* for a voided capture, which counts once as a void and once as not taken back.
LEMMA BookKeepsPace ==
    ASSUME IInv, FiguresInv, NEW i \in Calls, NEW l \in Leg, Becomes(i, l)
    PROVE  FiguresInv'
<1> DEFINE Auths == {"CCAUTHORIZE", "CCAUTHCAP"}
           Voids == {"CCREVERSE", "CCREVERSECAP"}
           Capturing == {"CCCAPTURE", "CCAUTHCAP"}
           Refunds == {"CCCREDIT"}
           CaptureVoids == {"CCREVERSECAP"}
           m == Magnitude(l.amount)
<1>1. IsFiniteSet(Legs)'
  BY RowAdds DEF FiguresInv
<1>2. \A j \in Calls : SignFits(leg[j])'
  BY DEF Becomes, FiguresInv, IInv, SignFits
<1>3. CASE l.status # "APPROVED"
  <2>1. book' = book
    BY <1>3 DEF Becomes
  <2>2. \A K : Total(K)' = Total(K) + 0 /\ Gross(K)' = Gross(K) + 0
    BY <1>3, RowAdds DEF FiguresInv
  <2>3. \A K : Total(K) \in Int /\ Gross(K) \in Int
    BY FiguresAreNumbers DEF FiguresInv
  <2>4. \A K : Total(K)' = Total(K) /\ Gross(K)' = Gross(K)
    BY <2>2, <2>3
  <2> QED BY <1>1, <1>2, <2>1, <2>4, FiguresByAction, FiguresByActionNext
          DEF FiguresInv, VoidedCaptures
<1>4. CASE l.status = "APPROVED"
  <2>1. book' = Posted(book, l.action, m)
    BY <1>4 DEF Becomes
  <2>2. m \in Int /\ (~IsVoid(l.action) /\ ~IsRefund(l.action) => l.amount = m)
    BY <1>4 DEF Becomes, SignFits, Magnitude, Leg
  <2>3. \A K : Total(K)' = Total(K) + (IF l.action \in K THEN l.amount ELSE 0)
               /\ Gross(K)' = Gross(K) + (IF l.action \in K THEN m ELSE 0)
    BY <1>4, RowAdds DEF FiguresInv
  <2>4. \A K : Total(K) \in Int /\ Gross(K) \in Int
    BY FiguresAreNumbers DEF FiguresInv
  <2>5. book.authorized \in Int /\ book.captured \in Int /\ book.refunded \in Int
    BY DEF IInv
  <2>6. /\ book.authorized = Total(Auths) - Gross(Voids) + Gross(CaptureVoids)
        /\ book.captured = Total(Capturing) - Gross(CaptureVoids)
        /\ book.refunded = Gross(Refunds)
    BY <2>4, <2>5, FiguresByAction DEF FiguresInv, VoidedCaptures
  <2>7. /\ Total(Auths)' = Total(Auths) + (IF l.action \in Auths THEN l.amount ELSE 0)
        /\ Total(Capturing)' = Total(Capturing) + (IF l.action \in Capturing THEN l.amount ELSE 0)
        /\ Gross(Voids)' = Gross(Voids) + (IF l.action \in Voids THEN m ELSE 0)
        /\ Gross(Refunds)' = Gross(Refunds) + (IF l.action \in Refunds THEN m ELSE 0)
        /\ Gross(CaptureVoids)' = Gross(CaptureVoids) + (IF l.action \in CaptureVoids THEN m ELSE 0)
    BY <2>3
  <2>8. /\ book'.authorized = Total(Auths)' - Gross(Voids)' + Gross(CaptureVoids)'
        /\ book'.captured = Total(Capturing)' - Gross(CaptureVoids)'
        /\ book'.refunded = Gross(Refunds)'
    <3>1. l.action \in Actions
      BY DEF Leg
    <3> HIDE DEF m
    <3>2. CASE l.action = "CCAUTHORIZE"
      <4>1. book'.authorized = book.authorized + m /\ book'.captured = book.captured
           /\ book'.refunded = book.refunded
        BY <2>1, <2>5, <3>2 DEF Posted, IInv
      <4> QED BY <2>2, <2>4, <2>5, <2>6, <2>7, <3>2, <4>1 DEF IsVoid, IsRefund, Leg
    <3>3. CASE l.action = "CCAUTHCAP"
      <4>1. book'.authorized = book.authorized + m /\ book'.captured = book.captured + m
           /\ book'.refunded = book.refunded
        BY <2>1, <2>5, <3>3 DEF Posted, IInv
      <4> QED BY <2>2, <2>4, <2>5, <2>6, <2>7, <3>3, <4>1 DEF IsVoid, IsRefund, Leg
    <3>4. CASE l.action = "CCCAPTURE"
      <4>1. book'.authorized = book.authorized /\ book'.captured = book.captured + m
           /\ book'.refunded = book.refunded
        BY <2>1, <2>5, <3>4 DEF Posted, IInv
      <4> QED BY <2>2, <2>4, <2>5, <2>6, <2>7, <3>4, <4>1 DEF IsVoid, IsRefund, Leg
    <3>5. CASE l.action = "CCCREDIT"
      <4>1. book'.authorized = book.authorized /\ book'.captured = book.captured
           /\ book'.refunded = book.refunded + m
        BY <2>1, <2>5, <3>5 DEF Posted, IInv
      <4> QED BY <2>2, <2>4, <2>5, <2>6, <2>7, <3>5, <4>1 DEF IsVoid, IsRefund, Leg
    <3>6. CASE l.action = "CCREVERSE"
      <4>1. book'.authorized = book.authorized - m /\ book'.captured = book.captured
           /\ book'.refunded = book.refunded
        BY <2>1, <2>5, <3>6 DEF Posted, IInv
      <4> QED BY <2>2, <2>4, <2>5, <2>6, <2>7, <3>6, <4>1 DEF IsVoid, IsRefund, Leg
    <3>7. CASE l.action = "CCREVERSECAP"
      <4>1. book'.authorized = book.authorized /\ book'.captured = book.captured - m
           /\ book'.refunded = book.refunded
        BY <2>1, <2>5, <3>7 DEF Posted, IInv
      <4> QED BY <2>2, <2>4, <2>5, <2>6, <2>7, <3>7, <4>1 DEF IsVoid, IsRefund, Leg
    <3>8. CASE l.action = "CCTRANSUPDATE"
      <4>1. book'.authorized = book.authorized /\ book'.captured = book.captured
           /\ book'.refunded = book.refunded
        BY <2>1, <2>5, <3>8 DEF Posted, IInv
      <4> QED BY <2>2, <2>4, <2>5, <2>6, <2>7, <3>8, <4>1 DEF IsVoid, IsRefund, Leg
    <3> QED BY <3>1, <3>2, <3>3, <3>4, <3>5, <3>6, <3>7, <3>8 DEF Actions
  <2>9. Total(Auths)' \in Int /\ Total(Capturing)' \in Int /\ Gross(Voids)' \in Int
        /\ Gross(Refunds)' \in Int /\ Gross(CaptureVoids)' \in Int
    BY <2>2, <2>4, <2>7 DEF Leg
  <2> QED BY <1>1, <1>2, <2>8, <2>9, FiguresByActionNext DEF FiguresInv, VoidedCaptures
<1> QED BY <1>3, <1>4

\* Every call, and the decision of a pending row, turns one row into another.
LEMMA CallsKeepPace ==
    ASSUME IInv, FiguresInv, NEW i \in Calls, Opens(i) \/ FollowsUp(i)
    PROVE  FiguresInv'
BY BookKeepsPace DEF Opens, FollowsUp, Leaves

\* The decision on a pending leg brings row and book forward together.
LEMMA ConcludeKeepsPace ==
    ASSUME IInv, FiguresInv, NEW i \in Calls, Conclude(i)
    PROVE  FiguresInv'
<1>1. PICK status \in {"APPROVED", "DECLINED"} :
        /\ leg' = [leg EXCEPT ![i].status = status]
        /\ book' = IF status = "APPROVED"
                   THEN Posted(book, leg[i].action, Magnitude(leg[i].amount))
                   ELSE book
  BY DEF Conclude
<1> DEFINE l == [leg[i] EXCEPT !.status = status]
<1>2. leg[i] \in Leg /\ leg[i].status = "PENDING"
  BY DEF Conclude, IInv
<1>3. /\ l \in Leg /\ l.status = status
      /\ l.action = leg[i].action /\ l.amount = leg[i].amount
  BY <1>2 DEF Leg
<1>4. leg' = [leg EXCEPT ![i] = l]
  BY <1>1 DEF IInv
<1>5. SignFits(l)
  BY <1>2, <1>3 DEF FiguresInv, SignFits
<1>6. Becomes(i, l)
  BY <1>1, <1>2, <1>3, <1>4, <1>5 DEF Becomes
<1> QED BY <1>3, <1>6, BookKeepsPace

\* The batch touches no amount and no decision.
LEMMA BatchKeepsPace ==
    ASSUME IInv, FiguresInv, Batch
    PROVE  FiguresInv'
<1>1. \A j \in Calls : /\ leg'[j] = NoLeg <=> leg[j] = NoLeg
                       /\ leg'[j].action = leg[j].action
                       /\ leg'[j].status = leg[j].status
                       /\ leg'[j].amount = leg[j].amount
  <2> SUFFICES ASSUME NEW j \in Calls
               PROVE  /\ leg'[j] = NoLeg <=> leg[j] = NoLeg
                      /\ leg'[j].action = leg[j].action
                      /\ leg'[j].status = leg[j].status
                      /\ leg'[j].amount = leg[j].amount
    OBVIOUS
  <2>1. CASE leg[j].status = "APPROVED"
    <3>1. leg[j] \in Leg /\ NoLeg \notin Leg
      BY <2>1 DEF IInv, NoLeg, Leg, Actions
    <3>2. leg'[j] = [leg[j] EXCEPT !.settled = TRUE]
      BY <2>1 DEF Batch
    <3> QED BY <3>1, <3>2 DEF Leg
  <2>2. CASE leg[j].status # "APPROVED"
    BY <2>2 DEF Batch
  <2> QED BY <2>1, <2>2
<1>2. Amount' = Amount /\ AmountMagnitude' = AmountMagnitude
  BY <1>1 DEF Amount, AmountMagnitude
<1>3. Legs' = Legs /\ \A K : Of(K)' = Of(K)
  BY <1>1 DEF Legs, Of
<1>4. \A K : Total(K)' = Total(K) /\ Gross(K)' = Gross(K)
  BY <1>2, <1>3 DEF Total, Gross
<1>5. \A j \in Calls : SignFits(leg[j])'
  BY <1>1 DEF FiguresInv, SignFits
<1>6. book' = book
  BY DEF Batch
<1> QED BY <1>3, <1>4, <1>5, <1>6, FiguresByAction, FiguresByActionNext
        DEF FiguresInv, VoidedCaptures

\* Before the first call there is nothing to add up.
LEMMA FiguresInit == Init => FiguresInv
<1> SUFFICES ASSUME Init PROVE FiguresInv
  OBVIOUS
<1>1. Legs = {} /\ IsFiniteSet(Legs)
  BY FS_EmptySet DEF Init, Legs
<1>2. \A K : Of(K) = {}
  BY <1>1 DEF Of
<1>3. \A K : Total(K) = 0 /\ Gross(K) = 0
  BY <1>2, SumOfNone DEF Total, Gross
<1>4. \A j \in Calls : SignFits(leg[j])
  BY DEF Init, SignFits, NoLeg
<1>5. book.authorized = 0 /\ book.captured = 0 /\ book.refunded = 0
  BY DEF Init
<1> QED BY <1>1, <1>3, <1>4, <1>5, FiguresByAction DEF FiguresInv, VoidedCaptures

\* The figures keep pace with the book in every reachable state.
LEMMA FiguresInvariant == Spec => []FiguresInv
<1>1. IInv /\ FiguresInv /\ [Next]_vars => FiguresInv'
  <2> SUFFICES ASSUME IInv, FiguresInv, [Next]_vars PROVE FiguresInv'
    OBVIOUS
  <2>1. CASE UNCHANGED vars
    <3>1. \A K : Total(K)' = Total(K) /\ Gross(K)' = Gross(K)
      BY <2>1 DEF vars, Total, Gross, Of, Legs, Amount, AmountMagnitude
    <3> QED BY <2>1, <3>1, FiguresByAction, FiguresByActionNext
            DEF vars, FiguresInv, VoidedCaptures, Legs, SignFits
  <2> QED BY <2>1, OperationsLeave, CallsKeepPace, ConcludeKeepsPace, BatchKeepsPace DEF Next
<1> QED BY <1>1, FiguresInit, InductiveInvariant, PTL DEF Spec

\* What the invariant says of the figures, as numbers.
LEMMA FiguresAndBook ==
    ASSUME IInv, FiguresInv
    PROVE  /\ OrderStatus.authorized = book.authorized - VoidedCaptures
           /\ OrderStatus.captured = book.captured + VoidedCaptures
           /\ OrderStatus.refunded = book.refunded
           /\ OrderStatus.net = Unrefunded + VoidedCaptures
           /\ OrderStatus.outstanding = Uncaptured - 2 * VoidedCaptures
           /\ VoidedCaptures \in Nat
<1>1. VoidedCaptures \in Nat
  BY FiguresAreNumbers DEF FiguresInv, VoidedCaptures
<1>2. book.authorized \in Int /\ book.captured \in Int /\ book.refunded \in Int
  BY DEF IInv
<1> QED BY <1>1, <1>2 DEF OrderStatus, FiguresInv, Uncaptured, Unrefunded

\* Through any sequence of calls, captured and refunded never read as negative.
THEOREM FiguresAreOfTheirTypes == Spec => []TypeOK
<1>1. IInv /\ FiguresInv => TypeOK
  <2> SUFFICES ASSUME IInv, FiguresInv PROVE TypeOK
    OBVIOUS
  <2> DEFINE Capturing == {"CCCAPTURE", "CCAUTHCAP"}
  <2>1. Captured \in Nat
    <3>1. IsFiniteSet(Of(Capturing)) /\ \A i \in Of(Capturing) : Amount[i] \in Int
      BY TermsAreNumbers DEF FiguresInv
    <3>2. \A i \in Of(Capturing) : Amount[i] >= 0
      BY TermsAreNumbers DEF FiguresInv, SignFits, Of, Legs, IsVoid, IsRefund
    <3>3. \A i \in Of(Capturing) : Amount[i] \in Nat
      BY <3>1, <3>2
    <3> QED BY <3>1, <3>3, SumIsNumber, FiguresByAction DEF Total
  <2>2. Refunded \in Nat
    BY FiguresAreNumbers, FiguresByAction DEF FiguresInv
  <2>3. Authorized \in Int
    BY FiguresAreNumbers, FiguresByAction DEF FiguresInv
  <2>4. Settled \in BOOLEAN
    BY DEF Settled
  <2> QED BY <2>1, <2>2, <2>3, <2>4 DEF TypeOK, IInv, OrderStatus
<1> QED BY <1>1, InductiveInvariant, FiguresInvariant, PTL

\* As long as no capture was voided, authorized, captured, refunded and
\* outstanding are what the gateway holds, takes, gave back and can still take.
THEOREM FiguresAreTheBook == Spec => []FiguresMatchBook
<1>1. ASSUME IInv, FiguresInv, ~CaptureVoided PROVE VoidedCaptures = 0
  <2>1. Of({"CCREVERSECAP"}) = {}
    BY <1>1 DEF CaptureVoided, Approved, Of
  <2> QED BY <2>1, SumOfNone DEF VoidedCaptures, Gross
<1>2. IInv /\ FiguresInv => FiguresMatchBook
  <2> SUFFICES ASSUME IInv, FiguresInv, ~CaptureVoided
               PROVE  /\ OrderStatus.authorized = book.authorized
                      /\ OrderStatus.captured = book.captured
                      /\ OrderStatus.refunded = book.refunded
                      /\ OrderStatus.outstanding = Uncaptured
    BY DEF FiguresMatchBook
  <2>1. /\ book.authorized \in Int /\ book.captured \in Int
        /\ Uncaptured \in Int
    BY DEF IInv, Uncaptured
  <2> QED BY <1>1, <2>1, FiguresAndBook
<1> QED BY <1>2, InductiveInvariant, FiguresInvariant, PTL

\* Voided captures or not, the figures err on one side only.
THEOREM FiguresPromiseTooLittle == Spec => []NeverPromisesTooMuch
<1>1. IInv /\ FiguresInv => NeverPromisesTooMuch
  <2> SUFFICES ASSUME IInv, FiguresInv PROVE NeverPromisesTooMuch
    OBVIOUS
  <2>1. Uncaptured \in Int /\ Unrefunded \in Int
    BY DEF IInv, Uncaptured, Unrefunded
  <2> QED BY <2>1, FiguresAndBook DEF NeverPromisesTooMuch
<1> QED BY <1>1, InductiveInvariant, FiguresInvariant, PTL

\* By how much net is wrong after reverse_capture: by the voided captures, in
\* every order, whatever came before or after them.
NetOverstatement == OrderStatus.net = Unrefunded + VoidedCaptures

\* The error of net is exactly what was voided of captures.
THEOREM NetIsOffByVoids == Spec => []NetOverstatement
<1>1. IInv /\ FiguresInv => NetOverstatement
  BY FiguresAndBook DEF NetOverstatement
<1> QED BY <1>1, InductiveInvariant, FiguresInvariant, PTL

-----------------------------------------------------------------------------
(* FollowUps: the inductive invariant                                      *)

Types ==
    /\ leg \in [Calls -> Leg \cup {NoLeg}]
    /\ share \in [Workers -> Amounts]
    /\ at \in [Workers -> {"look", "send", "wait", "check", "done"}]
    /\ seen \in [Workers -> SUBSET Calls]
    /\ current \in [Workers -> Calls \cup {NoCall}]
    /\ told \in [Workers -> {"none", "APPROVED", "DECLINED"}]
    /\ DOMAIN sender \subseteq Calls \ {Opening}
    /\ sender \in [DOMAIN sender -> Workers]
    /\ inflight \subseteq DOMAIN sender
    /\ late \subseteq Workers

\* The row of a follow-up is its worker's: of the one kind this order takes and
\* of the worker's own amount, and it is decided as soon as it is there.
FollowsFor(l, w) ==
    /\ l.action = Action
    /\ l.status \in {"APPROVED", "DECLINED"}
    /\ Magnitude(l.amount) = share[w]

\* The order was opened, every other row is of a call that was made, and a
\* request on its way has left none.
RowsAreOfCalls ==
    /\ leg[Opening] # NoLeg /\ IsAuth(leg[Opening].action)
    /\ \A i \in Calls \ {Opening} :
         leg[i] # NoLeg => i \in DOMAIN sender /\ FollowsFor(leg[i], sender[i])
    /\ \A i \in inflight : leg[i] = NoLeg

\* What the stage of a worker says of its calls.  Only the call it waits for can
\* be its own without making it late; seen has none of its own.
StageOf(w) ==
    /\ current[w] # NoCall => current[w] \in DOMAIN sender /\ sender[current[w]] = w
    /\ at[w] \in {"wait", "check"} => current[w] # NoCall
    /\ at[w] = "send" => current[w] \notin inflight
    /\ at[w] = "done" => current[w] = NoCall
    /\ at[w] # "done" => told[w] = "none"
    /\ at[w] = "look" => \A i \in DOMAIN sender : sender[i] # w
    /\ \A i \in seen[w] : i = Opening \/ (i \in DOMAIN sender /\ sender[i] # w)

\* The rows the calls of a worker left.
Own(w) == {i \in DOMAIN sender : sender[i] = w /\ leg[i] # NoLeg}

\* A worker no call of which was processed behind its back has one row at most:
\* none when it is about to send, and else that of the call it made last.
OneRow(w) ==
    /\ at[w] \in {"look", "send"} => Own(w) = {}
    /\ at[w] \in {"wait", "check"} => Own(w) \subseteq {current[w]}
    /\ at[w] = "done" => \E j \in Calls : Own(w) \subseteq {j}

FollowInv ==
    /\ Types
    /\ RowsAreOfCalls
    /\ \A w \in Workers : StageOf(w)
    /\ \A w \in Workers \ late : OneRow(w)
    /\ ToldIsTrue

-----------------------------------------------------------------------------
(* The initial states and the steps of the workers                         *)

\* The order the workers find was opened by the first call and by no other.
LEMMA FollowInitInv == FollowInit => FollowInv
<1> SUFFICES ASSUME FollowInit PROVE FollowInv
  OBVIOUS
<1>1. PICK total \in Amounts, action \in {"CCAUTHORIZE", "CCAUTHCAP"} :
        leg = [i \in Calls |->
                 IF i = Opening
                 THEN [action |-> action, status |-> "APPROVED",
                       amount |-> total, settled |-> FALSE]
                 ELSE NoLeg]
  BY DEF FollowInit
<1>2. total \in Int
  BY AmountsAssumption
<1>3. DOMAIN sender = {} /\ inflight = {}
  BY DEF FollowInit
<1>4. leg \in [Calls -> Leg \cup {NoLeg}]
  BY <1>1, <1>2 DEF Leg, Actions
<1>5. Types
  BY <1>3, <1>4 DEF Types, FollowInit
<1>6. RowsAreOfCalls
  BY <1>1, <1>3, OpeningAssumption DEF RowsAreOfCalls, NoLeg, IsAuth
<1>7. \A w \in Workers : StageOf(w) /\ OneRow(w)
  BY <1>3 DEF FollowInit, StageOf, OneRow, Own
<1>8. ToldIsTrue
  BY DEF FollowInit, ToldIsTrue
<1> QED BY <1>5, <1>6, <1>7, <1>8 DEF FollowInv

\* Nothing but the gateway writes rows.
LEMMA RowsStand ==
    ASSUME UNCHANGED <<vars, share, sender>>, FollowInv, inflight' \subseteq inflight
    PROVE  /\ RowsAreOfCalls'
           /\ \A w : Own(w)' = Own(w) /\ Moved(w)' = Moved(w)
           /\ seen' = seen => \A w : Credible(w)' = Credible(w)
           /\ DOMAIN sender' = DOMAIN sender
BY DEF vars, FollowInv, RowsAreOfCalls, FollowsFor, Action, Captures, Own, Moved,
       Credible

\* A worker that gives up on a call, or looks, or checks, keeps to its own.
LEMMA LookKeeps ==
    ASSUME FollowInv, NEW w \in Workers, Look(w)
    PROVE  FollowInv'
<1>1. /\ RowsAreOfCalls'
      /\ \A v : Own(v)' = Own(v) /\ Moved(v)' = Moved(v)
  BY RowsStand DEF Look
<1>2. Types'
  BY DEF Look, FollowInv, Types, vars, Transactions, Legs
<1>3. ASSUME NEW v \in Workers PROVE StageOf(v)'
  <2>1. StageOf(v)
    BY DEF FollowInv
  <2>2. \A i \in Transactions : i = Opening \/ i \in DOMAIN sender
    BY DEF FollowInv, RowsAreOfCalls, Transactions, Legs
  <2>3. CASE v = w
    BY <2>1, <2>2, <2>3, NoCallAssumption DEF Look, StageOf, FollowInv, Types
  <2>4. CASE v # w
    BY <2>1, <2>4 DEF Look, StageOf, FollowInv, Types
  <2> QED BY <2>3, <2>4
<1>4. \A v \in Workers \ late' : OneRow(v)'
  BY <1>1 DEF Look, OneRow, FollowInv, Types
<1>5. ASSUME NEW v \in Workers, told[v] # "none" PROVE Credible(v)' = Credible(v)
  <2>1. at[v] = "done" /\ seen'[v] = seen[v]
    BY <1>5 DEF Look, FollowInv, StageOf, Types
  <2> QED BY <2>1 DEF Look, Credible, vars
<1>6. ToldIsTrue'
  BY <1>1, <1>5 DEF Look, ToldIsTrue, FollowInv
<1> QED BY <1>1, <1>2, <1>3, <1>4, <1>6 DEF FollowInv

\* A new call is one nobody made, so it left no row and is in nobody's seen.
LEMMA SendKeeps ==
    ASSUME FollowInv, NEW w \in Workers, Send(w)
    PROVE  FollowInv'
<1> DEFINE i == CHOOSE j \in Calls \ {Opening} : j \notin DOMAIN sender
<1>0. i \in Calls \ {Opening} /\ i \notin DOMAIN sender
  BY DEF Send, FollowInv, Types
<1> HIDE DEF i
<1>1. /\ i \in Calls /\ i # Opening /\ i \notin DOMAIN sender
      /\ current' = [current EXCEPT ![w] = i]
      /\ inflight' = inflight \cup {i}
      /\ at[w] = "send" /\ at' = [at EXCEPT ![w] = "wait"]
      /\ share' = share /\ seen' = seen /\ told' = told
  BY <1>0 DEF Send, i
<1>2. /\ DOMAIN sender' = DOMAIN sender \cup {i}
      /\ sender' = [j \in DOMAIN sender' |-> sender'[j]]
      /\ sender'[i] = w
      /\ \A j \in DOMAIN sender : sender'[j] = sender[j]
  BY <1>1 DEF Send, i
<1>3. sender' \in [DOMAIN sender' -> Workers]
  BY <1>1, <1>2 DEF FollowInv, Types
<1>4. leg' = leg /\ leg[i] = NoLeg
  BY <1>1 DEF Send, vars, FollowInv, RowsAreOfCalls
<1>5. Types'
  BY <1>1, <1>2, <1>3, <1>4 DEF Send, FollowInv, Types
<1>6. RowsAreOfCalls'
  BY <1>1, <1>2, <1>4 DEF FollowInv, RowsAreOfCalls, FollowsFor, Action, Captures
<1>7. ASSUME NEW v \in Workers PROVE StageOf(v)'
  <2>1. StageOf(v)
    BY DEF FollowInv
  <2>2. CASE v = w
    <3>1. at'[w] = "wait" /\ current'[w] = i /\ i # NoCall /\ told[w] = "none"
      BY <1>1, <2>1, <2>2, NoCallAssumption DEF StageOf, FollowInv, Types
    <3> QED BY <1>1, <1>2, <2>1, <2>2, <3>1 DEF StageOf
  <2>3. CASE v # w
    <3>1. at'[v] = at[v] /\ current'[v] = current[v] /\ current[v] # i
      BY <1>1, <2>1, <2>3, NoCallAssumption DEF StageOf, FollowInv, Types
    <3> QED BY <1>1, <1>2, <2>1, <2>3, <3>1 DEF StageOf
  <2> QED BY <2>2, <2>3
<1>8. \A v : Own(v)' = Own(v)
  BY <1>2, <1>4 DEF Own
<1>9. \A v \in Workers \ late' : OneRow(v)'
  BY <1>8 DEF Send, OneRow, FollowInv, Types
<1>10. \A v : Moved(v)' = Moved(v) /\ Credible(v)' = Credible(v)
  BY <1>1, <1>2, <1>4 DEF Send, Moved, Credible, NoLeg
<1>11. ToldIsTrue'
  BY <1>1, <1>10 DEF Send, ToldIsTrue, FollowInv
<1> QED BY <1>5, <1>6, <1>7, <1>9, <1>11 DEF FollowInv

\* A worker ends with what its own rows say.
LEMMA FinishKeeps ==
    ASSUME FollowInv, NEW w \in Workers, at[w] \in {"wait", "check"},
           NEW status \in {"APPROVED", "DECLINED"}, Finish(w, status),
           UNCHANGED <<vars, share, seen, sender, inflight, late, faults>>,
           status = "APPROVED" => Credible(w) # {},
           status = "DECLINED" /\ w \notin late => Moved(w) = {}
    PROVE  FollowInv'
<1>1. /\ RowsAreOfCalls'
      /\ \A v : Own(v)' = Own(v) /\ Moved(v)' = Moved(v) /\ Credible(v)' = Credible(v)
  BY RowsStand
<1>2. Types'
  BY DEF Finish, FollowInv, Types, vars
<1>3. ASSUME NEW v \in Workers PROVE StageOf(v)'
  <2>1. StageOf(v)
    BY DEF FollowInv
  <2>2. CASE v = w
    BY <2>1, <2>2, NoCallAssumption DEF Finish, StageOf, FollowInv, Types
  <2>3. CASE v # w
    BY <2>1, <2>3 DEF Finish, StageOf, FollowInv, Types
  <2> QED BY <2>2, <2>3
<1>4. ASSUME NEW v \in Workers \ late' PROVE OneRow(v)'
  <2>1. OneRow(v) /\ StageOf(v)
    BY DEF FollowInv
  <2>2. CASE v = w
    <3>1. Own(w) \subseteq {current[w]} /\ current[w] \in Calls
      BY <2>1, <2>2 DEF OneRow, StageOf, FollowInv, Types
    <3> QED BY <1>1, <2>2, <3>1 DEF Finish, OneRow, FollowInv, Types
  <2>3. CASE v # w
    BY <1>1, <2>1, <2>3 DEF Finish, OneRow, FollowInv, Types
  <2> QED BY <2>2, <2>3
<1>5. ToldIsTrue'
  BY <1>1 DEF Finish, ToldIsTrue, FollowInv, Types
<1> QED BY <1>1, <1>2, <1>3, <1>4, <1>5 DEF FollowInv

\* An answer is that of the call the worker waits for, its only row unless late.
LEMMA LearnKeeps ==
    ASSUME FollowInv, NEW w \in Workers, Learn(w)
    PROVE  FollowInv'
<1> DEFINE i == current[w]
<1>1. StageOf(w) /\ (w \notin late => OneRow(w))
  BY DEF FollowInv
<1>2. i \in DOMAIN sender /\ sender[i] = w /\ i # Opening /\ i \in Calls
  BY <1>1 DEF Learn, StageOf, FollowInv, Types
<1>3. leg[i] # NoLeg /\ leg[i].status \in {"APPROVED", "DECLINED"}
  BY <1>2 DEF Learn, Legs, FollowInv, RowsAreOfCalls, FollowsFor
<1>4. leg[i].status = "APPROVED" => i \in Credible(w)
  BY <1>1, <1>2, <1>3 DEF StageOf, Credible, FollowInv, RowsAreOfCalls, FollowsFor
<1>5. ASSUME leg[i].status = "DECLINED", w \notin late PROVE Moved(w) = {}
  BY <1>1, <1>5 DEF Learn, OneRow, Own, Moved, NoLeg
<1> QED BY <1>3, <1>4, <1>5, FinishKeeps DEF Learn

\* The new rows that look like the worker's are of workers with its amount, and
\* all its own are among them: it saw none of those before.
LEMMA MineHoldsOwn ==
    ASSUME FollowInv, NEW w \in Workers
    PROVE  /\ Own(w) \subseteq Mine(w)
           /\ \A i \in Mine(w) :
                /\ leg[i].status \in {"APPROVED", "DECLINED"}
                /\ leg[i].status = "APPROVED" => i \in Credible(w)
<1>1. ASSUME NEW i \in Mine(w)
      PROVE  /\ leg[i].status \in {"APPROVED", "DECLINED"}
             /\ leg[i].status = "APPROVED" => i \in Credible(w)
  <2>1. /\ i \in Calls /\ leg[i] # NoLeg /\ i \notin seen[w]
        /\ leg[i].action = Action /\ Magnitude(leg[i].amount) = share[w]
    BY DEF Mine, Transactions, Legs
  <2>2. i # Opening
    BY <2>1 DEF Action, Captures, FollowInv, RowsAreOfCalls, IsAuth
  <2>3. i \in DOMAIN sender /\ FollowsFor(leg[i], sender[i])
    BY <2>1, <2>2 DEF FollowInv, RowsAreOfCalls
  <2> QED BY <2>1, <2>3 DEF FollowsFor, Credible
<1>2. ASSUME NEW i \in Own(w) PROVE i \in Mine(w)
  <2>1. /\ i \in DOMAIN sender /\ sender[i] = w /\ leg[i] # NoLeg
        /\ i \in Calls /\ i # Opening
    BY DEF Own, FollowInv, Types
  <2>2. i \notin seen[w]
    BY <2>1 DEF FollowInv, StageOf
  <2>3. FollowsFor(leg[i], w)
    BY <2>1 DEF FollowInv, RowsAreOfCalls
  <2> QED BY <2>1, <2>2, <2>3 DEF Mine, Transactions, Legs, FollowsFor
<1> QED BY <1>1, <1>2

\* A check finds all the worker's rows, or none and sends again.
LEMMA CheckKeeps ==
    ASSUME FollowInv, NEW w \in Workers, Check(w)
    PROVE  FollowInv'
<1>1. CASE Mine(w) = {}
  <2>1. /\ RowsAreOfCalls'
        /\ \A v : Own(v)' = Own(v) /\ Moved(v)' = Moved(v) /\ Credible(v)' = Credible(v)
    BY RowsStand DEF Check
  <2>2. Types'
    BY <1>1 DEF Check, FollowInv, Types, vars
  <2>3. ASSUME NEW v \in Workers PROVE StageOf(v)'
    <3>1. StageOf(v)
      BY DEF FollowInv
    <3>2. CASE v = w
      BY <1>1, <3>1, <3>2, NoCallAssumption DEF Check, StageOf, FollowInv, Types
    <3>3. CASE v # w
      BY <1>1, <3>1, <3>3 DEF Check, StageOf, FollowInv, Types
    <3> QED BY <3>2, <3>3
  <2>4. ASSUME NEW v \in Workers \ late' PROVE OneRow(v)'
    <3>1. OneRow(v)
      BY DEF Check, FollowInv
    <3>2. Own(w) = {}
      BY <1>1, MineHoldsOwn
    <3> QED BY <1>1, <2>1, <3>1, <3>2 DEF Check, OneRow, FollowInv, Types
  <2>5. ToldIsTrue'
    BY <1>1, <2>1 DEF Check, ToldIsTrue, FollowInv
  <2> QED BY <2>1, <2>2, <2>3, <2>4, <2>5 DEF FollowInv
<1>2. CASE Mine(w) # {}
  <2> DEFINE status == IF \E i \in Mine(w) : leg[i].status = "APPROVED"
                       THEN "APPROVED" ELSE "DECLINED"
  <2>1. Moved(w) = {i \in Own(w) : leg[i].status = "APPROVED"}
    BY DEF Moved, Own, NoLeg
  <2>2. Own(w) \subseteq Mine(w)
    BY MineHoldsOwn
  <2>3. status = "APPROVED" => Credible(w) # {}
    BY MineHoldsOwn
  <2>4. status = "DECLINED" => Moved(w) = {}
    BY <2>1, <2>2
  <2>5. Finish(w, status) /\ status \in {"APPROVED", "DECLINED"}
    BY <1>2 DEF Check
  <2> HIDE DEF status
  <2> QED BY <2>3, <2>4, <2>5, FinishKeeps DEF Check
<1> QED BY <1>1, <1>2

\* Giving up keeps the call, which may still be processed; after a refusal
\* it is gone for good.
LEMMA GiveUpKeeps ==
    ASSUME FollowInv, NEW w \in Workers, Timeout(w) \/ Refuse(w)
    PROVE  FollowInv'
<1>1. /\ inflight' \subseteq inflight /\ late' = late
      /\ UNCHANGED <<vars, share, seen, current, told, sender>>
      /\ at[w] = "wait"
      /\ \/ at' = [at EXCEPT ![w] = "check"]
         \/ /\ at' = [at EXCEPT ![w] = "send"]
            /\ current[w] \in inflight /\ current[w] \notin inflight'
  BY DEF Timeout, Refuse, GiveUp
<1>2. /\ RowsAreOfCalls'
      /\ \A v : Own(v)' = Own(v) /\ Moved(v)' = Moved(v) /\ Credible(v)' = Credible(v)
  BY <1>1, RowsStand
<1>3. Types'
  BY <1>1 DEF FollowInv, Types, vars
<1>4. ASSUME NEW v \in Workers PROVE StageOf(v)'
  <2>1. StageOf(v)
    BY DEF FollowInv
  <2>2. CASE v = w
    BY <1>1, <2>1, <2>2 DEF StageOf, FollowInv, Types
  <2>3. CASE v # w
    BY <1>1, <2>1, <2>3 DEF StageOf, FollowInv, Types
  <2> QED BY <2>2, <2>3
<1>5. ASSUME NEW v \in Workers \ late' PROVE OneRow(v)'
  <2>1. OneRow(v) /\ v \in Workers \ late
    BY <1>1 DEF FollowInv
  <2>2. current[w] \in inflight => current[w] \notin Own(w)
    BY DEF Own, FollowInv, RowsAreOfCalls
  <2>3. CASE v = w
    BY <1>1, <1>2, <2>1, <2>2, <2>3 DEF OneRow, FollowInv, Types
  <2>4. CASE v # w
    BY <1>1, <1>2, <2>1, <2>4 DEF OneRow, FollowInv, Types
  <2> QED BY <2>3, <2>4
<1>6. ToldIsTrue'
  BY <1>1, <1>2 DEF ToldIsTrue, FollowInv
<1> QED BY <1>2, <1>3, <1>4, <1>5, <1>6 DEF FollowInv

-----------------------------------------------------------------------------
(* The network and the gateway                                             *)

\* A request leaves one row, of its worker and of the worker's amount.
LEMMA ProcessLeaves ==
    ASSUME FollowInv, NEW i \in Calls, Process(i)
    PROVE  /\ i \in DOMAIN sender /\ i # Opening /\ sender[i] \in Workers
           /\ leg[i] = NoLeg
           /\ \E l \in Leg : FollowsFor(l, sender[i]) /\ leg' = [leg EXCEPT ![i] = l]
<1>1. i \in DOMAIN sender /\ i # Opening /\ sender[i] \in Workers /\ leg[i] = NoLeg
  BY DEF Process, FollowInv, Types, RowsAreOfCalls
<1> DEFINE v == share[sender[i]]
<1>2. v \in Nat \ {0} /\ v # Whole
  <2>1. v \in Amounts
    BY <1>1 DEF FollowInv, Types
  <2> HIDE DEF v
  <2> QED BY <2>1, AmountsAssumption, WholeAssumption
<1>3. \E allowed : Handle(i, Action, v, allowed)
  BY <1>2 DEF Process, Requested, CaptureOf, RefundOf, Named, Action
<1>4. PICK status \in {"APPROVED", "DECLINED"} :
        leg' = [leg EXCEPT ![i] = [action |-> Action, status |-> status,
                                   amount |-> Signed(Action, v), settled |-> FALSE]]
  BY <1>3 DEF Handle
<1>5. Signed(Action, v) \in Int /\ Magnitude(Signed(Action, v)) = v
  BY <1>2 DEF Signed, Magnitude
<1>6. Action \in Actions
  BY DEF Action, Actions
<1> DEFINE l == [action |-> Action, status |-> status,
                 amount |-> Signed(Action, v), settled |-> FALSE]
<1>7. l \in Leg /\ FollowsFor(l, sender[i])
  BY <1>5, <1>6 DEF Leg, FollowsFor
<1> QED BY <1>1, <1>4, <1>7

\* It is the row of the call its worker waits for, or makes the worker late.
LEMMA ProcessKeeps ==
    ASSUME FollowInv, NEW i \in Calls, Process(i)
    PROVE  FollowInv'
<1> DEFINE w == sender[i]
<1>1. i \in DOMAIN sender /\ i # Opening /\ w \in Workers /\ leg[i] = NoLeg
  BY ProcessLeaves
<1>2. PICK l \in Leg : FollowsFor(l, w) /\ leg' = [leg EXCEPT ![i] = l]
  BY ProcessLeaves
<1>3. /\ inflight' = inflight \ {i}
      /\ late' = IF current[w] = i THEN late ELSE late \cup {w}
      /\ UNCHANGED <<share, at, seen, current, told, sender>>
  BY DEF Process, workerVars
<1>4. leg'[i] = l /\ l # NoLeg /\ \A j \in Calls : j # i => leg'[j] = leg[j]
  BY <1>2 DEF FollowInv, Types, Leg, NoLeg, Actions
<1>5. Action' = Action
  BY <1>1, <1>4, OpeningAssumption DEF Action, Captures
<1>6. Types'
  <2>1. leg' \in [Calls -> Leg \cup {NoLeg}]
    BY <1>2 DEF FollowInv, Types
  <2> QED BY <1>1, <1>3, <2>1 DEF FollowInv, Types
<1>7. RowsAreOfCalls'
  <2>1. RowsAreOfCalls /\ inflight \subseteq DOMAIN sender /\ DOMAIN sender \subseteq Calls
    BY DEF FollowInv, Types
  <2> QED BY <1>1, <1>2, <1>3, <1>4, <1>5, <2>1, OpeningAssumption
          DEF RowsAreOfCalls, FollowsFor
<1>8. \A v \in Workers : StageOf(v)'
  BY <1>3 DEF FollowInv, StageOf
<1>9. /\ \A v \in Workers : v # w => Own(v)' = Own(v) /\ Moved(v)' = Moved(v)
      /\ Own(w)' = Own(w) \cup {i}
      /\ Moved(w) \subseteq Moved(w)'
  <2>1. \A j \in DOMAIN sender : j # i => leg'[j] = leg[j]
    BY <1>4 DEF FollowInv, Types
  <2>2. ASSUME NEW v \in Workers, v # w
        PROVE  Own(v)' = Own(v) /\ Moved(v)' = Moved(v)
    BY <1>3, <2>1, <2>2 DEF Own, Moved
  <2>3. Own(w)' = Own(w) \cup {i}
    BY <1>1, <1>3, <1>4, <2>1 DEF Own
  <2>4. Moved(w) \subseteq Moved(w)'
    BY <1>1, <1>3, <2>1 DEF Moved, NoLeg
  <2> QED BY <2>2, <2>3, <2>4
<1>10. ASSUME NEW v \in Workers \ late' PROVE OneRow(v)'
  <2>1. v \in Workers \ late /\ OneRow(v)
    BY <1>3 DEF FollowInv
  <2>2. CASE v # w
    BY <1>3, <1>9, <2>1, <2>2 DEF OneRow
  <2>3. CASE v = w
    <3>1. current[w] = i /\ i \in inflight
      BY <1>3, <2>3 DEF Process
    <3>2. at[w] \in {"wait", "check"}
      BY <1>1, <3>1, NoCallAssumption DEF FollowInv, StageOf, Types
    <3> QED BY <1>3, <1>9, <2>1, <2>3, <3>1, <3>2 DEF OneRow
  <2> QED BY <2>2, <2>3
<1>11. ToldIsTrue'
  <2>1. ASSUME NEW v \in Workers, told[v] = "APPROVED"
        PROVE  Credible(v)' # {}
    <3>1. PICK j \in Credible(v) : TRUE
      BY <2>1 DEF FollowInv, ToldIsTrue
    <3>2. j \in Calls /\ j # i
      BY <1>1, <3>1 DEF Credible, FollowInv, Types, NoLeg
    <3>3. j \in Credible(v)'
      BY <1>3, <1>4, <3>1, <3>2 DEF Credible
    <3> QED BY <3>3
  <2>2. ASSUME NEW v \in Workers, told[v] = "DECLINED", v \notin late'
        PROVE  Moved(v)' = {}
    <3>1. v \notin late /\ Moved(v) = {}
      BY <1>3, <2>2 DEF FollowInv, ToldIsTrue
    <3>2. at[v] = "done" /\ current[v] = NoCall
      BY <2>2 DEF FollowInv, StageOf, Types
    <3>3. v # w
      BY <1>3, <2>2, <3>2, NoCallAssumption
    <3> QED BY <1>9, <3>1, <3>3
  <2> QED BY <1>3, <2>1, <2>2 DEF ToldIsTrue
<1> QED BY <1>6, <1>7, <1>8, <1>10, <1>11 DEF FollowInv

\* A lost request moves nothing, and whoever sent it still waits.
LEMMA LoseKeeps ==
    ASSUME FollowInv, NEW i \in Calls, Lose(i)
    PROVE  FollowInv'
<1>1. /\ inflight' \subseteq inflight
      /\ UNCHANGED <<vars, share, at, seen, current, told, sender, late>>
  BY DEF Lose, workerVars
<1>2. /\ RowsAreOfCalls'
      /\ \A v : Own(v)' = Own(v) /\ Moved(v)' = Moved(v) /\ Credible(v)' = Credible(v)
  BY <1>1, RowsStand
<1>3. Types'
  BY <1>1 DEF FollowInv, Types, vars
<1>4. \A v \in Workers : StageOf(v)'
  BY <1>1 DEF FollowInv, StageOf
<1>5. \A v \in Workers \ late' : OneRow(v)'
  BY <1>1, <1>2 DEF FollowInv, OneRow
<1>6. ToldIsTrue'
  BY <1>1, <1>2 DEF ToldIsTrue, FollowInv
<1> QED BY <1>2, <1>3, <1>4, <1>5, <1>6 DEF FollowInv

-----------------------------------------------------------------------------
(* The theorems                                                            *)

\* Each step of a worker, the gateway or the network keeps the invariant.
LEMMA NextKeepsFollowInv == FollowInv /\ [FollowNext]_allVars => FollowInv'
<1> SUFFICES ASSUME FollowInv, [FollowNext]_allVars PROVE FollowInv'
  OBVIOUS
<1>1. ASSUME NEW w \in Workers,
             \/ Look(w) \/ Send(w) \/ Learn(w) \/ Timeout(w) \/ Refuse(w) \/ Check(w)
      PROVE  FollowInv'
  BY <1>1, LookKeeps, SendKeeps, LearnKeeps, GiveUpKeeps, CheckKeeps
<1>2. ASSUME NEW i \in Calls, Process(i) \/ Lose(i)
      PROVE  FollowInv'
  BY <1>2, ProcessKeeps, LoseKeeps
<1>3. CASE UNCHANGED allVars
  <2>1. UNCHANGED <<vars, share, at, seen, current, told, sender, inflight, late>>
    BY <1>3 DEF allVars, workerVars
  <2> QED BY <2>1 DEF vars, FollowInv, Types, RowsAreOfCalls, StageOf, OneRow, Own,
                      ToldIsTrue, Moved, Credible, FollowsFor, Action, Captures
<1> QED BY <1>1, <1>2, <1>3 DEF FollowNext

\* The invariant of the workers.
LEMMA FollowInvariant == FollowSpec => []FollowInv
BY FollowInitInv, NextKeepsFollowInv, PTL DEF FollowSpec

\* However many workers share an order and however often their calls are lost,
\* refused, timed out and sent again: a worker whose money moved twice was late.
THEOREM MovesOnceUnlessLate == FollowSpec => []TwiceOnlyWhenLate
<1>1. FollowInv => TwiceOnlyWhenLate
  <2> SUFFICES ASSUME FollowInv, NEW w \in Workers \ late
               PROVE  Cardinality(Moved(w)) <= 1
    BY DEF TwiceOnlyWhenLate
  <2>1. PICK j : Own(w) \subseteq {j}
    BY DEF FollowInv, Types, OneRow
  <2>2. Moved(w) \in SUBSET {j}
    BY <2>1 DEF Moved, Own, NoLeg
  <2>3. IsFiniteSet({j}) /\ Cardinality({j}) = 1
    BY FS_Singleton
  <2> QED BY <2>2, <2>3, FS_Subset
<1> QED BY <1>1, FollowInvariant, PTL

\* What a worker ends with is what became of money of its amount, equal amounts
\* of others included.
THEOREM WorkersLearnTheTruth == FollowSpec => []ToldIsTrue
BY FollowInvariant, PTL DEF FollowInv
=============================================================================
