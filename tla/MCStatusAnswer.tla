--------------------------- MODULE MCStatusAnswer ---------------------------
(* StatusAnswer on tables of up to two rows that lack one thing or another,*)
(* on tables of three of the rows that differ most, and on single          *)
(* transactions with every mixture of fields and prompts.                  *)
EXTENDS StatusAnswer, MCResultMapper, SequencesExt

MCCurrencies == {"USD", "EUR"}

Common(r) ==
    [status |-> r.status, lineItem |-> r.lineItem, value |-> r.value,
     currency |-> r.currency, rate |-> r.rate, settledValue |-> r.settledValue,
     settledCurrency |-> r.settledCurrency, prompts |-> r.prompts,
     code |-> CHOOSE c \in CodesFor(r.currency) : TRUE,
     kind |-> "auth", amount |-> 1, po |-> TRUE, xtl |-> FALSE]

\* An amount in each currency, malformed, without a currency and without a value.
Moneys == {<<"good", "good", "USD">>, <<"good", "good", "EUR">>, <<"good", "bad", "malformed">>,
           <<"good", "absent", "empty">>, <<"good", "absent", "missing">>,
           <<"absent", "good", "USD">>, <<"absent", "bad", "malformed">>}

Plain == {[Common(NoFields) EXCEPT !.status = s, !.value = m[1], !.currency = m[2], !.code = m[3],
                                   !.kind = k, !.po = p, !.xtl = x] :
            s \in {"APPROVED", "DECLINED"}, m \in Moneys, k \in {"auth", "capture"},
            p \in BOOLEAN, x \in BOOLEAN}

Broken == {[Common(NoFields) EXCEPT !.lineItem = "empty"], [Common(NoFields) EXCEPT !.rate = "bad"]}

\* One row names the order by both ids; each amount has a currency or no code.
Few == {NoList} \cup {p \in Plain : p.po = p.xtl /\ p.value = "good"
                                   /\ p.code \in {"USD", "EUR", "missing"}}

MCBodies ==
    [shape : {"table", "foreignCase"}, po : BOOLEAN,
     rows : BoundedSeq(Plain \cup Broken \cup {NoList}, 2) \cup [1 .. 3 -> Few]]
      \cup [shape : {"flat"}, po : {FALSE},
            rows : {<<r>> : r \in Plain \cup {Common(r) : r \in MCResponses}}]
=============================================================================
