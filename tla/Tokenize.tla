------------------------------ MODULE Tokenize ------------------------------
(***************************************************************************)
(* Purchases with a token: client.tokenize(card) at the token service, a   *)
(* second endpoint that checks a signature over a timestamp, then sale()   *)
(* with the single-use token it issued.                                    *)
(*                                                                         *)
(* Time matters: the timestamp is taken before the connection is made and  *)
(* lives Window, and nothing bounds how long the service takes to see it:  *)
(* timeout_ms is the limit of each socket operation, not of the call.  An  *)
(* exchange the network does not disturb is over within Quick; a slower    *)
(* one may last, and its signature may have run out when it arrives.       *)
(* Time is counted in ticks.                                               *)
(*                                                                         *)
(* The merchant begins again with a new token when an attempt fails, and   *)
(* keeps one order id per purchase.  MaxFaults bounds how many exchanges   *)
(* are lost or slow.  A token issued to a caller who gave up is never used *)
(* and does not appear.                                                    *)
(***************************************************************************)
EXTENDS FiniteSets, Naturals

CONSTANTS
    Purchases,
    Window,     \* the life of a signature at the token service (300 seconds)
    Quick,      \* how long a token request takes on a network in order
    MaxSkew,    \* how far the merchant's clock may be behind the service's
    UidLengths, \* lengths of the unique_id a caller may pass; 0: none is passed
    MaxFaults

ASSUME PurchasesAssumption == IsFiniteSet(Purchases)
ASSUME TimesAssumption == {Window, Quick, MaxSkew} \subseteq Nat
ASSUME UidLengthsAssumption == UidLengths \subseteq Nat
ASSUME MaxFaultsAssumption == MaxFaults \in Nat

VARIABLES
    skew,      \* how far the merchant's clock is behind
    purchase,  \* each purchase's card and unique_id
    at,        \* where it is
    age,       \* how old the signature of its token request is
    wait,      \* how long that request has taken, up to Quick + 1
    token,     \* the token it holds: what expiry it carries, or "none"
    ordered,   \* purchases the gateway has an order of
    faults

fixed == <<skew, purchase>>
vars == <<skew, purchase, at, age, wait, token, ordered, faults>>

Expiries == {"MMYYYY", "malformed"}

\* A Card made by hand, not by PaymentMethods.card, may have any expiry.
Init ==
    /\ skew \in 0..MaxSkew
    /\ purchase \in [Purchases -> [expiry : Expiries, uid : UidLengths]]
    /\ at = [p \in Purchases |-> "start"]
    /\ age = [p \in Purchases |-> 0]
    /\ wait = [p \in Purchases |-> 0]
    /\ token = [p \in Purchases |-> "none"]
    /\ ordered = {}
    /\ faults = 0

Move(p, step) == at' = [at EXCEPT ![p] = step]

-----------------------------------------------------------------------------
(* tokenize_card                                                           *)

\* Mutant: 32 characters, the length of the generated id, are too many.
UidAllowedBelow32(n) == n < 32

\* Without a unique_id, 32 hexadecimal digits are generated.
UidAllowed(n) == n = 0 \/ n <= 32

RefuseUid(p) ==
    /\ at[p] = "start"
    /\ ~UidAllowed(purchase[p].uid)
    /\ Move(p, "ValidationError")
    /\ UNCHANGED <<fixed, age, wait, token, ordered, faults>>

\* Mutant: the timestamp of the first attempt is used again.
SignedOnce(p) == age

\* Every call signs the time it is made at.
Signed(p) == [age EXCEPT ![p] = 0]

Tokenize(p) ==
    /\ at[p] = "start"
    /\ UidAllowed(purchase[p].uid)
    /\ age' = Signed(p)
    /\ wait' = [wait EXCEPT ![p] = 0]
    /\ Move(p, "requesting")
    /\ UNCHANGED <<fixed, token, ordered, faults>>

\* The service takes the request up and answers with a TOKEN_GUID.
Issued(p) == at[p] = "requesting" /\ age[p] + skew <= Window

\* Mutant: the token takes only the card's number with it.
CarriedNothing(p) == "none"

\* The expiry PaymentMethods.token(guid, card.expiry, card.cvv) hands on.
Carried(p) == purchase[p].expiry

ReceiveToken(p) ==
    /\ Issued(p)
    /\ purchase[p].expiry # "malformed"
    /\ token' = [token EXCEPT ![p] = Carried(p)]
    /\ Move(p, "pay")
    /\ UNCHANGED <<fixed, age, wait, ordered, faults>>

\* PaymentMethods.token refuses the card's expiry once the token is issued.
RefuseExpiry(p) ==
    /\ Issued(p)
    /\ purchase[p].expiry = "malformed"
    /\ Move(p, "TypeError")
    /\ UNCHANGED <<fixed, age, wait, token, ordered, faults>>

\* ERROR_CODE 121: ConfigurationError, "signature mismatch -- check the site key".
\* The key is right, and the merchant tries again.
RefuseSignature(p) ==
    /\ at[p] = "requesting" /\ age[p] + skew > Window
    /\ Move(p, "start")
    /\ UNCHANGED <<fixed, age, wait, token, ordered, faults>>

-----------------------------------------------------------------------------
(* sale() with the token, time and the network                             *)

Pay(p) ==
    /\ at[p] = "pay"
    /\ Move(p, "paying")
    /\ UNCHANGED <<fixed, age, wait, token, ordered, faults>>

\* Without the expiry the gateway refuses the token: API_RESPONSE 110.
Accepted(p) == p \in ordered \/ token[p] = "MMYYYY"

ReceivePayment(p) ==
    /\ at[p] = "paying"
    /\ token' = [token EXCEPT ![p] = "none"]
    /\ IF Accepted(p) THEN Move(p, "paid") /\ ordered' = ordered \cup {p}
                      ELSE Move(p, "start") /\ UNCHANGED ordered
    /\ UNCHANGED <<fixed, age, wait, faults>>

Slow(p) == at[p] = "requesting" /\ wait[p] > Quick

\* An exchange that is lost, refused at the API tier or answered by something
\* else ends in an exception, and the purchase begins again; a sale's order may
\* have been made.  For a slow one the fault has been counted.
Fail(p) ==
    /\ at[p] \in {"requesting", "paying"}
    /\ IF Slow(p) THEN UNCHANGED faults
                  ELSE faults < MaxFaults /\ faults' = faults + 1
    /\ Move(p, "start")
    /\ token' = [token EXCEPT ![p] = "none"]
    /\ \/ UNCHANGED ordered
       \/ at[p] = "paying" /\ Accepted(p) /\ ordered' = ordered \cup {p}
    /\ UNCHANGED <<fixed, age, wait>>

\* A request that outlasts Quick is a fault.  From then on it may take any time:
\* ages stop counting when they no longer matter.
Tick ==
    LET overdue == {p \in Purchases : at[p] = "requesting" /\ wait[p] = Quick} IN
    /\ faults' = faults + Cardinality(overdue)
    /\ faults' <= MaxFaults
    /\ wait' = [p \in Purchases |->
                  IF wait[p] > Quick THEN wait[p] ELSE wait[p] + 1]
    /\ age' = [p \in Purchases |-> IF age[p] > Window THEN age[p] ELSE age[p] + 1]
    /\ UNCHANGED <<fixed, at, token, ordered>>

Next ==
    \/ \E p \in Purchases :
         \/ RefuseUid(p) \/ Tokenize(p) \/ ReceiveToken(p)
         \/ RefuseExpiry(p) \/ RefuseSignature(p)
         \/ Pay(p) \/ ReceivePayment(p) \/ Fail(p)
    \/ Tick

\* The merchant goes on, and every exchange comes to an end some time: an answer
\* that never stops dripping in is left out.
Fairness ==
    \A p \in Purchases :
        /\ WF_vars(Tokenize(p)) /\ WF_vars(ReceiveToken(p)) /\ WF_vars(Pay(p))
        /\ WF_vars(ReceivePayment(p)) /\ WF_vars(RefuseUid(p))
        /\ WF_vars(RefuseExpiry(p)) /\ WF_vars(RefuseSignature(p))

Spec == Init /\ [][Next]_vars /\ Fairness

-----------------------------------------------------------------------------
(* Properties                                                              *)

\* A request that is not slow arrives before its signature runs out.
ClockGood == skew + Quick <= Window

Payable(p) == purchase[p].expiry = "MMYYYY" /\ purchase[p].uid <= 32

\* With such a clock every purchase that can be made is made, whatever exchanges
\* are lost, or so slow that the service finds a signature mismatch: the next
\* attempt is signed afresh.  One that cannot be made ends in an exception.
EveryPurchaseEnds ==
    ClockGood => \A p \in Purchases :
        <>(at[p] \in IF Payable(p) THEN {"paid"} ELSE {"TypeError", "ValidationError"})
=============================================================================
