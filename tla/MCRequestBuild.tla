--------------------------- MODULE MCRequestBuild ---------------------------
(* RequestBuild on requests of up to three line items in two currencies.   *)
EXTENDS RequestBuild

CONSTANTS usd, eur

MCCurrencies == {usd, eur}
MCItems == UNION {[1 .. k -> [count : {1, 10, 11}, currency : MCCurrencies]] :
                    k \in 0 .. 3}
Plain == [method |-> "card", items |-> <<[count |-> 1, currency |-> usd]>>,
          amount |-> None, wait |-> None, id |-> None, mode |-> None,
          rebill |-> None, rebillType |-> None]

\* The checks against each other.
CheckedRequests ==
    {[Plain EXCEPT !.method = m, !.items = s, !.amount = a, !.wait = w] :
        m \in {"card", "token", "savedCard", "bankAccount"}, s \in MCItems,
        a \in MCCurrencies \cup {None}, w \in {None, 29, 30, 600, 601}}

\* The options that are looked up in a table.
OptionalParts ==
    {[Plain EXCEPT !.id = x, !.mode = m, !.rebill = b, !.rebillType = t] :
        x \in {None, Empty, "order"}, m \in Choices(IdempotencyWire),
        b \in Choices(RebillWire), t \in Choices(RebillTypeWire)}

MCRequests == CheckedRequests \cup OptionalParts
=============================================================================
