---------------------------- MODULE OrderLedger ----------------------------
(***************************************************************************)
(* One order, the legs its calls leave at the gateway, and the figures     *)
(* to_order_status derives from them: the aggregate behind                 *)
(* InovioClient.status(), "the only correct source of net figures".        *)
(*                                                                         *)
(* Each operation of InovioClient sends a REQUEST_ACTION; what the gateway *)
(* does with it (Handle, Conclude, Batch) is external and follows the      *)
(* examples and fixtures of the repository.  book is the position the      *)
(* gateway really holds; the SDK never sees it, only the legs.             *)
(***************************************************************************)
EXTENDS Integers, FiniteSetsExt

CONSTANTS
    Calls,       \* identities of the calls made on the order
    Amounts,     \* amounts of money a merchant may name, in minor units
    Whole,       \* no amount given: all that is left to capture or refund
    Operations   \* the methods of InovioClient the merchant uses

AllOperations == {"sale", "authorize", "force_credit", "capture",
                  "capture_line_item", "refund", "reverse", "reverse_capture",
                  "update_order"}

ASSUME AmountsAssumption == Amounts \subseteq Nat \ {0}
ASSUME WholeAssumption == Whole \notin Amounts
ASSUME OperationsAssumption == Operations \subseteq AllOperations

VARIABLES
    leg,     \* the transaction row each call left, or NoLeg
    book,    \* authorized, captured and refunded money as the gateway has it
    batched  \* has a settlement batch run over the order?

vars == <<leg, book, batched>>

Actions == {"CCAUTHCAP", "CCAUTHORIZE", "CCCREDIT", "CCCAPTURE", "CCREVERSE",
            "CCREVERSECAP", "CCTRANSUPDATE"}
Leg == [action : Actions, status : {"APPROVED", "DECLINED", "PENDING"},
        amount : Int, settled : BOOLEAN]
NoLeg == [action |-> "none", status |-> "none", amount |-> 0, settled |-> FALSE]

Legs == {i \in Calls : leg[i] # NoLeg}

-----------------------------------------------------------------------------
(* to_order_status                                                         *)

\* Mutants: a sale is no capture; a void is a refund.
IsCaptureButNotSale(a) == a = "CCCAPTURE"
IsRefundOrVoid(a) == a \in {"CCCREDIT", "CCREVERSE", "CCREVERSECAP"}

\* The regular expressions of to_order_status on the actions of card orders.
IsAuth(a) == a \in {"CCAUTHORIZE", "CCAUTHCAP"}
IsCapture(a) == a \in {"CCCAPTURE", "CCAUTHCAP"}
IsVoid(a) == a \in {"CCREVERSE", "CCREVERSECAP"}
IsRefund(a) == a = "CCCREDIT"

Magnitude(n) == IF n < 0 THEN -n ELSE n

Approved(Kind(_)) ==
    {i \in Legs : Kind(leg[i].action) /\ leg[i].status = "APPROVED"}

Amount == [i \in Calls |-> leg[i].amount]
AmountMagnitude == [i \in Calls |-> Magnitude(leg[i].amount)]

\* Voids reduce what was authorized; credit and void legs arrive negative.
Authorized ==
    SumFunctionOnSet(Amount, Approved(IsAuth))
      - SumFunctionOnSet(AmountMagnitude, Approved(IsVoid))

Captured == SumFunctionOnSet(Amount, Approved(IsCapture))
\* Mutant: the sign a credit leg arrives with is kept.
RefundedSigned == SumFunctionOnSet(Amount, Approved(IsRefund))

Refunded == SumFunctionOnSet(AmountMagnitude, Approved(IsRefund))

\* Mutants: every leg must be settled; an approval is as good as a settlement.
SettledLegsAll == Legs # {} /\ \A i \in Legs : leg[i].settled
SettledWhenApproved ==
    Legs # {} /\ \A i \in Legs : IsAuth(leg[i].action) => leg[i].status = "APPROVED"

\* Every leg that is an authorization, approved or not, must be settled.
Settled == Legs # {} /\ \A i \in Legs : IsAuth(leg[i].action) => leg[i].settled

OrderStatus ==
    [authorized |-> Authorized, captured |-> Captured, refunded |-> Refunded,
     net |-> Captured - Refunded, outstanding |-> Authorized - Captured,
     settled |-> Settled]

-----------------------------------------------------------------------------
(* The gateway                                                             *)

Init ==
    /\ leg = [i \in Calls |-> NoLeg]
    /\ book = [authorized |-> 0, captured |-> 0, refunded |-> 0]
    /\ batched = FALSE

Opened == Legs # {}

\* The book once a leg is approved.
Posted(b, action, v) ==
    CASE action = "CCAUTHORIZE" -> [b EXCEPT !.authorized = @ + v]
      [] action = "CCAUTHCAP" -> [authorized |-> b.authorized + v,
                                  captured |-> b.captured + v,
                                  refunded |-> b.refunded]
      [] action = "CCCAPTURE" -> [b EXCEPT !.captured = @ + v]
      [] action = "CCCREDIT" -> [b EXCEPT !.refunded = @ + v]
      [] action = "CCREVERSE" -> [b EXCEPT !.authorized = @ - v]
      [] action = "CCREVERSECAP" -> [b EXCEPT !.captured = @ - v]
      [] action = "CCTRANSUPDATE" -> b

Signed(action, v) == IF IsVoid(action) \/ IsRefund(action) THEN -v ELSE v

\* A request leaves a leg; the gateway may approve it only when it is allowed,
\* and may always decline.
Handle(i, action, v, allowed) ==
    /\ leg[i] = NoLeg
    /\ \E status \in {"DECLINED"} \cup (IF allowed THEN {"APPROVED"} ELSE {}) :
         /\ leg' = [leg EXCEPT ![i] =
                      [action |-> action, status |-> status,
                       amount |-> Signed(action, v), settled |-> FALSE]]
         /\ book' = IF status = "APPROVED" THEN Posted(book, action, v) ELSE book
    /\ UNCHANGED batched

\* An order can begin PENDING: a 3DS challenge, a voucher to pay.
HandlePending(i, action, v) ==
    /\ leg[i] = NoLeg
    /\ leg' = [leg EXCEPT ![i] = [action |-> action, status |-> "PENDING",
                                  amount |-> Signed(action, v), settled |-> FALSE]]
    /\ UNCHANGED <<book, batched>>

Conclude(i) ==
    /\ leg[i] # NoLeg /\ leg[i].status = "PENDING"
    /\ \E status \in {"APPROVED", "DECLINED"} :
         /\ leg' = [leg EXCEPT ![i].status = status]
         /\ book' = IF status = "APPROVED"
                    THEN Posted(book, leg[i].action, Magnitude(leg[i].amount))
                    ELSE book
    /\ UNCHANGED batched

\* The nightly batch flips TRANS_SETTLED on what was approved by then.
Batch ==
    /\ \E i \in Legs : leg[i].status = "APPROVED" /\ ~leg[i].settled
    /\ leg' = [i \in Calls |->
                 IF leg[i].status = "APPROVED" THEN [leg[i] EXCEPT !.settled = TRUE]
                 ELSE leg[i]]
    /\ batched' = TRUE
    /\ UNCHANGED book

\* What is left to capture, and to refund.
Uncaptured == book.authorized - book.captured
Unrefunded == book.captured - book.refunded

Named(v, rest) == IF v = Whole THEN rest ELSE v

-----------------------------------------------------------------------------
(* The operations of InovioClient                                          *)

Open(i, operation, action) ==
    /\ operation \in Operations
    /\ ~Opened
    /\ \E v \in Amounts :
         Handle(i, action, v, TRUE) \/ HandlePending(i, action, v)

Sale(i) == Open(i, "sale", "CCAUTHCAP")
Authorize(i) == Open(i, "authorize", "CCAUTHORIZE")
ForceCredit(i) == Open(i, "force_credit", "CCCREDIT")

CaptureOf(i, v) ==
    LET n == Named(v, Uncaptured) IN
    Opened /\ Handle(i, "CCCAPTURE", n, 0 < n /\ n <= Uncaptured)

Capture(i) ==
    /\ "capture" \in Operations
    /\ \E v \in Amounts \cup {Whole} : CaptureOf(i, v)

\* A line item is captured by a stated amount: without one the call is refused
\* before anything is sent.
CaptureLineItem(i) ==
    /\ "capture_line_item" \in Operations
    /\ Opened
    /\ \E v \in Amounts : Handle(i, "CCCAPTURE", v, v <= Uncaptured)

RefundOf(i, v) ==
    LET n == Named(v, Unrefunded) IN
    Opened /\ Handle(i, "CCCREDIT", n, 0 < n /\ n <= Unrefunded)

Refund(i) ==
    /\ "refund" \in Operations
    /\ \E v \in Amounts \cup {Whole} : RefundOf(i, v)

\* Voids the authorization; nothing was captured, so nothing is returned.
Reverse(i) ==
    /\ "reverse" \in Operations
    /\ Opened
    /\ Handle(i, "CCREVERSE", book.authorized,
              book.authorized > 0 /\ book.captured = 0 /\ ~batched)

\* Voids a capture made in error, before the batch.
ReverseCapture(i) ==
    /\ "reverse_capture" \in Operations
    /\ Opened
    /\ Handle(i, "CCREVERSECAP", book.captured,
              book.captured > 0 /\ book.refunded = 0 /\ ~batched)

\* Attaches a receipt; no money moves.
UpdateOrder(i) ==
    /\ "update_order" \in Operations
    /\ Opened
    /\ Handle(i, "CCTRANSUPDATE", 0, TRUE)

Next ==
    \/ \E i \in Calls :
         \/ Sale(i) \/ Authorize(i) \/ ForceCredit(i)
         \/ Capture(i) \/ CaptureLineItem(i) \/ Refund(i)
         \/ Reverse(i) \/ ReverseCapture(i) \/ UpdateOrder(i)
         \/ Conclude(i)
    \/ Batch

Spec == Init /\ [][Next]_vars

-----------------------------------------------------------------------------
(* Properties                                                              *)

\* The ledger is well formed, and what to_order_status returns never reads as a
\* negative capture or refund, although credit and void legs arrive negative.
TypeOK ==
    /\ leg \in [Calls -> Leg \cup {NoLeg}]
    /\ book \in [authorized : Int, captured : Int, refunded : Int]
    /\ batched \in BOOLEAN
    /\ OrderStatus \in [authorized : Int, captured : Nat, refunded : Nat, net : Int,
                       outstanding : Int, settled : BOOLEAN]

CaptureVoided == Approved(LAMBDA a : a = "CCREVERSECAP") # {}

\* Until a capture is voided, the figures of an order are the money the gateway
\* holds, takes and owes, through partial captures, partial refunds, voids of
\* the authorization, declined legs and legs still pending.
FiguresMatchBook ==
    ~CaptureVoided =>
        /\ OrderStatus.authorized = book.authorized
        /\ OrderStatus.captured = book.captured
        /\ OrderStatus.refunded = book.refunded
        /\ OrderStatus.outstanding = Uncaptured

\* Whatever the merchant does with the order, net never falls short of what it
\* keeps, outstanding never promises more than there is left to capture, and
\* refunded is exactly what went back.
NeverPromisesTooMuch ==
    /\ OrderStatus.net >= Unrefunded
    /\ OrderStatus.outstanding <= Uncaptured
    /\ OrderStatus.refunded = book.refunded

\* settled is a fact the batch writes: no order that was authorized reads as
\* settled before.
SettledOnlyByBatch ==
    OrderStatus.settled /\ (\E i \in Legs : IsAuth(leg[i].action)) => batched

\* net is what the merchant keeps of the order, voided captures included.
NetIsWhatTheMerchantKeeps == OrderStatus.net = Unrefunded

\* An order that reads as settled stays settled: nothing done to it later, not
\* a second capture, a refund or a declined call, takes it back.
SettledStays == [][OrderStatus.settled => OrderStatus'.settled]_vars
=============================================================================
