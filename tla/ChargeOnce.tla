----------------------------- MODULE ChargeOnce -----------------------------
(***************************************************************************)
(* What the SDK promises a merchant who gives every order an idempotency   *)
(* id and leaves idempotency.mode alone (README: "retry-safe by default"): *)
(* behind each id there is one order, decided once, and whatever is said   *)
(* of it is what was decided.  No calls, no network, no retries.           *)
(***************************************************************************)
CONSTANT Orders

VARIABLES
    state,  \* "none", "open" or how the gateway decided each order
    told    \* the final decisions the merchant's threads were told of

vars == <<state, told>>

Final == {"APPROVED", "DECLINED", "FAILED"}

Init ==
    /\ state = [o \in Orders |-> "none"]
    /\ told = [o \in Orders |-> {}]

Decide(o) ==
    /\ state[o] = "none"
    /\ \E s \in Final \cup {"open"} : state' = [state EXCEPT ![o] = s]
    /\ UNCHANGED told

Settle(o) ==
    /\ state[o] = "open"
    /\ \E s \in Final : state' = [state EXCEPT ![o] = s]
    /\ UNCHANGED told

\* FAILED is left out: an open order may read as FAILED before it is decided.
Tell(o) ==
    /\ state[o] \in {"APPROVED", "DECLINED"}
    /\ told' = [told EXCEPT ![o] = @ \cup {state[o]}]
    /\ UNCHANGED state

Next == \E o \in Orders : Decide(o) \/ Settle(o) \/ Tell(o)

Spec == Init /\ [][Next]_vars
=============================================================================
