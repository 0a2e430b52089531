# A TLA+ verification of the Inovio Gateway Python SDK

The SDK (`src/src/inovio_gateway`) is a synchronous, stateless client of a card
payment gateway: every method builds a flat map of parameters, posts it, reads
one answer and maps it to a typed result or an exception. The code is small; what
is hard about it is everything between two of its lines: the network, the
gateway, other threads with the same order id, and retries. The modules here
model that, and the pure parts of the code whose mistakes would move money.

## The system

| part | state | operations | talks to |
|---|---|---|---|
| `client.py` `InovioClient` | immutable after `__init__` | `sale`, `authorize`, `force_credit` (all `_transact`), `capture`, `capture_line_item`, `refund`, `reverse`, `reverse_capture`, `update_order`, `status`, `tokenize`, `test_auth`, `test_availability` | request builder, transport, mapper |
| `request/` | none | `build_transaction_params`: checks and wire names | `model/` |
| `transport/` | none | `send` (timeouts, HTTP status), `normalize_response` | `HttpClient` (urllib), gateway |
| `result/mapper.py` | none | `to_transaction_result`, `to_order_status` | enums, refs, money |
| `errors/` | the idempotency key of a timed-out call | `recovery_hint` | the merchant's code |
| `model/`, `refs/` | values | validating constructors | |
| `tokenize.py` | none | `tokenize_card`, signatures | token service |
| `enums/generated.py` | tables | generated by `scripts/generate_enums.py` from `spec/` | |
| `examples/`, `tests/`, `spec/` | | evidence of what the gateway answers | |
| the gateway (not here) | orders, legs, batches | deduplication by `XTL_ORDER_ID`, decisions, settlement | |

Because the client is immutable, threads may share it and calls overlap freely.
What interacts are the calls, through the gateway's orders.

Hard behaviours, and what makes the parts correct:

* **Timeouts and retries.** A call that ended in an exception may have charged.
  An order id with the default mode must make its repetition safe, the timeout
  must name the order, and asking about it must lead to an answer.
* **Overlap and reordering.** A request may be processed after its caller gave up
  and retried; two threads may use one order id; an answer may be about an order
  that is decided later. No caller may be told of an approval that is not there,
  and no two callers contradicting outcomes.
* **Errors against declines.** An API-tier exception must mean no order was made.
* **Follow-ups without a key.** `capture` and `refund` carry no idempotency id. A
  caller that lost the answer has only the order's transactions to go by.
* **Time.** A token request is signed for 300 seconds, and nothing bounds how long
  it takes to arrive: `timeout_ms` is the limit of each socket operation.
* **Answers that cannot be read.** The answer of a charge that went through may
  hold a field that a constructor refuses.
* **Long sequences on one order.** Partial captures and refunds, voids, declines,
  pending legs and batches: the derived figures must be the gateway's.
* **Wire quirks.** Aliases, letter case, empty and null fields, repeated columns:
  what an answer says must not depend on how it is spelled.
* **Request checks spread over a loop.** What is posted must be acceptable as a
  whole.

`PROJECT.json` lists each hazard at its line with the property that covers it,
or why none does yet.

## The modules

| module | models | proofs |
|---|---|---|
| `ChargeOnce` | the promise: behind each order id one order, decided once, reported as decided | `Payments_proofs` |
| `Payments` | every call of `_transact` and `status()` by order id, the network, the gateway | `Payments_proofs` |
| `Recovery` | a merchant's worker that drives orders to a known outcome over `Payments` | `Recovery_proofs` |
| `OrderLedger` | one order: all operations, its legs, and `to_order_status` | `OrderLedger_proofs`, `Sums_proofs` |
| `FollowUps` | workers that capture or refund over `OrderLedger` when answers get lost | `OrderLedger_proofs` |
| `Tokenize` | `tokenize()` with its signature in time, and the sale with the token | |
| `ResultMapper` | `to_transaction_result` on missing, empty and malformed fields | `StatusAnswer_proofs` |
| `Responses` | `normalize_response` and `_extract_legs`, field by field | `Responses_proofs` |
| `StatusAnswer` | an answer to `status()` from the body to the `OrderStatus`, row by row | `StatusAnswer_proofs`, `Sums_proofs` |
| `RequestBuild` | `build_transaction_params` | `RequestBuild_proofs` |
| `MC*` | constants for the runs | |

### Payments

`pc`, `req`, `outcome` are the Python call: built and posted (`Post`), waiting,
returned. The merchant's id and its `idempotency.mode` are reduced to an element
of `Orders` and `Mode[id]`; `NoId` is a request without idempotency or with an
empty `xtl_order_id`, for which `_put` writes no id. `WireMode` is what goes out
as `UNIQUE_XTL_ORDER_ID`, `ErrorKey` what a timeout error carries.

The ways a call can end are the branches of `send()` and `_raise_if_api_error`:
`Receive` (result, order status or API-tier exception), `ReceiveUnreadable` (an
answer the mapper raises on, see `ResultMapper`), `Misanswered` (an
intermediary's page under HTTP 200, which is read as form-encoded text and comes
back as FAILED), `ConnectTimeout` (a `URLError` whose text contains "timed out"),
`ReadTimeout` (a bare `socket.timeout`, the builtin `TimeoutError` only since
Python 3.10, constant `BuiltinTimeout`), `NetworkFails` (`TransportError`, or the
`OSError` of a dropped connection that `send()` does not catch), `RejectLocally`.
`Unwrapped` stands for every exception that is no `InovioError`. A timeout or a
failure leaves the request where it is: in flight, processed, or lost.

The gateway is external. It may refuse any request at the API tier, decides new
orders in any way, deduplicates by id as `UNIQUE_XTL_ORDER_ID` asks it to
(`Deduplicated`), reports the orders of an id, and decides open orders later
(`Settle`). `leg[i]` is the order call `i` created.

A `status()` call is by merchant order id; by gateway id it takes the same path.

`ChargeOnce` is the abstract specification: `state[o]` and the set `told[o]`. The
mapping takes `state` from the legs of each retry-safe order and `told` from the
outcomes. `FAILED` is not part of `told`: a status the enum does not know reads
as FAILED, also when the order is open and approved later. That is the documented
choice (`mapper.py:91`), and why the promise is about APPROVED and DECLINED.

### Recovery

The worker is the merchant's code, after `examples/14_timeout_recovery.py` and
`InovioTimeoutError.recovery_hint`. It stops at a final answer (`Final`): APPROVED
or DECLINED of a call, or any final status in a `status()`. FAILED as the status
of a *result* is not final, because it is also what an unknown status, a refusal
outside the code table and an intermediary's page read as. Policy `ask` calls
`status()` until it answers and repeats the call when there are no transactions;
policy `askThenRetry` repeats the call, under the same id, also when `status()`
raised. After a timeout the worker asks by the id it finds in the error (`key`); an
error without one would leave it nothing to ask by. `unreadable` says, for the
whole run, in which answers an order's data cannot be mapped: such an answer is
unreadable every time it comes. `EveryOrderResolves` is about the orders `status()`
can read; for the others the worker has no way to learn the outcome, repeats its
charge under the same id and never ends, which `RaisesOnlyOnMalformed` and
`RowsCoverForEachOther` narrow to malformed fields. Calls are those of `Payments`; identities of calls that left nothing
behind are reused (`Forget`), so a few identities serve arbitrarily many calls.

### OrderLedger

`leg` is what `status()` returns, one row per call; `book` is the money as the
gateway holds it, which the SDK never sees. Each operation of the client leaves a
leg with its `REQUEST_ACTION`, approved or declined; opening legs may be pending
first. Amounts are small integers (`Decimal` is exact, so nothing is lost), and
`Whole` is the call without an amount. The figures are translated expression by
expression, with the regular expressions as sets of actions.

### FollowUps

Extends `OrderLedger`: the gateway takes a follow-up with the ledger's own
`CaptureOf` and `RefundOf`. Around them are requests in flight (`inflight`), the
call each worker waits for (`current`), and the workers, which are the merchant's
code (`Mine` and `Check` translate nothing in the SDK): look at the transactions,
send, and after any end that says nothing of the order look again for a new
transaction of the own kind and amount, sending again when there is none.
`status()` is one step, since one that fails is asked again. `late` marks a worker
one of whose requests was processed after it gave up on it.

`TwiceOnlyWhenLate` is the sharpest statement that holds: a late worker may move its
money twice, and without an idempotency id nothing the SDK offers prevents it. Any
other worker never does, however calls are lost, refused or timed out.

`share` is every assignment of amounts to workers, equal ones included. Workers
with equal amounts cannot tell their transactions apart, since a row of `status()`
names no sender: one that timed out may take the other's approval for its own and
stop without having moved anything. That happens in this run. `ToldIsTrue` says
what is left: an approval of exactly its amount, made since it looked, and its own
whenever no other worker has that amount; a DECLINED means that it moved nothing.

### Tokenize

Per purchase: `age` of the signature, `wait` of the token request, `token` with the
expiry it carries. The service accepts a signature when `age + skew` is within
`Window`. No limit of the SDK enters: `urlopen` applies `timeout_ms` to each socket
operation (each address tried, each read), and name resolution has none. So the
module says what a network in order does: a request that nothing disturbs arrives
within `Quick`. A request that outlasts `Quick` is a fault and may take any time;
its signature may then have run out, and the caller is told to check the site key
(`RefuseSignature`). Every attempt takes a new token (it is single-use) with a new
signature, and a sale repeats under its order id. `ClockGood` says what it takes
for a purchase to be made in the end: a request that is not slow arrives within the
signature's life, `skew + Quick <= 300 s`. A merchant that takes the
`ConfigurationError` for final, as its message suggests, would stop with the right
key; the merchant here begins again.

### ResultMapper

One step: an answer, abstracted to what the mapper tells apart (each field
absent, good or bad; the rate also zero; the set of prompts), becomes a result or
an exception, in the order the mapper reads the fields. It is where the
`ReceiveUnreadable` of `Payments` comes from.

### Responses

A body is a sequence of fields (or the cells of one table row); each step is one
`put` or one `setdefault`. A field is spelled exactly, in another case, or
padded, and holds a value, the empty string or null. A padded column is not
stripped, so its cells are stored under a name nobody looks up (`Unknown`).
`OrderDoesNotMatter` names the one case in which the reading differs from what the
body says, an empty canonical field beside a filled alias (`HiddenByBlank`): see the
divergences below.

### StatusAnswer

The whole path of an answer to `status()`, over `ResultMapper`: is the body a table
(`Normalize`), which elements of `DATA` become legs (`ExtractRow`), what happens
without any (`EndOfRows`: the answer itself is taken for the one leg), the mapper
on each leg in turn (`MapLeg`, which is `Next` of `ResultMapper`), one leg that
cannot be mapped (`RefuseLeg`), and what the aggregate makes of rows that lack an
amount, a currency or an id. No empty cell of a row reaches its leg (`Cells`), so no
empty cell can refuse a table (`RowsCoverForEachOther`); in an answer that is no
table an empty line item can. `authorized` and `captured` stand for all sums. An
approved row without a currency drops out of the sums, and rows of several
currencies are summed as one; `FiguresAreOfAllRows` says when neither happens.
Whatever the form and whatever is missing, nothing is invented: `ApprovedIsWritten`
bounds approvals and sums by the approved rows. It does not say that none is lost,
because in other-case tables they are (see the divergences below).

### RequestBuild

The builder's loop with its local `currency`; each step is a check that raises
or a group of writes. `params` holds numbered parameters with their values.
`IdempotencyWire`, `RebillWire` and `RebillTypeWire` are the tables of the source; a
string they lack is a `KeyError` in the middle of the build (`RefuseMode`,
`RefuseRebill`). That the default mode deduplicates is a matter of `Payments`.

## The runs

| run | shows | bounds |
|---|---|---|
| `payments` | type correctness, `NoDoubleCharge`, `ApprovedMeansCharged`, `AnswersAgree`, `ApiErrorMeansNoOrder`; `ImplementsChargeOnce` on the retry-safe id | 3 calls, one id per mode, a refusing code with and without exception, verdicts APPROVED, DECLINED and one the enum lacks |
| `payments_python38` | violated: `TimeoutIsInovioTimeoutError` | 3 calls, 1 id, `BuiltinTimeout = FALSE` |
| `recovery` | `ResolvedMeansDecided`, `EveryOrderResolves` | 1 order, its answers readable or not, 4 call identities, 2 faults, verdicts APPROVED, PENDING and unlisted, open orders decided either way |
| `recovery_by_status` | violated: `EveryOrderResolves` under policy `ask` | same |
| `order_ledger` | `FiguresMatchBook`, `NeverPromisesTooMuch`, `SettledOnlyByBatch`, `SettledStays` | 4 calls, amounts 1 to 3, every operation |
| `order_ledger_void` | violated: `NetIsWhatTheMerchantKeeps` | authorize, capture, reverse_capture |
| `follow_ups` | `TwiceOnlyWhenLate`, `ToldIsTrue`, `EveryWorkerFinishes` | 2 workers on one order with every pair of amounts 1 to 3, 4 follow-up calls, 2 faults |
| `tokenize` | `EveryPurchaseEnds` | 2 purchases, ticks of a minute: window 5, quick 2, skew 0 to 4; 2 lost or slow exchanges |
| `result_mapper_blank` | violated: `BlankIsAbsent` | every mixture of fields of one transaction |
| `responses` | `OrderDoesNotMatter`, `AliasIsFound`, `FirstFilledColumnIsRead` | 3 fields, one aliased name, two values |
| `status_answer` | of each leg `RaisesOnlyOnMalformed`, `ReportsOnlyWhatWasWritten`, `PendingIsActionable`; of the order `AllRowsOrNone`, `FiguresAreOfAllRows`, `RowsCoverForEachOther`, `ApprovedIsWritten` | tables of up to 2 rows that lack one thing or another, 3 rows of those that differ most, 2 currencies; single transactions with every mixture of fields, and every status with every set of prompts |
| `request_build` | `BuiltIffAcceptable`, `WireItemsMatch` | 3 line items, 2 currencies, limits on both sides, options in and outside the wire tables |

Why the bounds are enough: a wrong deduplication needs two calls and an answer;
a contradiction needs the order, a caller of it and a third that asks; the proofs
lift the properties of `payments` to any number (PENDING and RUNNING included,
which the run leaves to `recovery`). Two faults let a worker lose a charge and then
the question, or be refused and misanswered. Four ledger calls make authorize, two
follow-ups and a void; amounts 1 to 3 allow two partial captures and an over-long
one. In `follow_ups`, two workers need one call each and each fault costs one
more, which is the four there are. In `tokenize` a minute per tick gives a
signature five; skew 0 to 3 satisfy `ClockGood`, skew 4 does not, and a slow request
meets `RefuseSignature` under each. Three fields allow alias, canonical name and a
repetition. Two rows are what it takes for one to lack what the other has.

Symmetry over calls is used in runs without liveness only. `CHECK_DEADLOCK FALSE`
everywhere: calls end, an order may be left alone, a reading is finished.

### Fairness

`recovery` assumes weak fairness of the worker's own steps (it runs), of the
delivery of a whole answer and of the timeout of a call that can get none
(`urlopen` is given `timeout_ms`, so a silent connection raises), of the gateway taking
up a request that reached it, and of the reuse of call identities, which is an
artefact of the bound. It also assumes that the gateway decides the orders it left
open: the worker wants the decision, and asks until there is one. Nothing is
assumed of faults, which are finitely many.

`follow_ups` assumes the same of its workers and of the gateway, and that a call
without an answer times out. `tokenize` assumes that the merchant goes on, that
every exchange comes to an end some time, however slow, and that finitely many are
lost or slow; nothing is assumed of `Tick`. An answer that drips in for ever keeps
its caller waiting for ever: `timeout_ms` does not end such a call, and the fairness
of all three modules leaves it out.

## The proofs

`Payments_proofs`, from the assumptions named in `Payments` (the constants have
their types and `NoId` is no order id), for any number of calls and ids:

* `TypeCorrect`, and from it a bookkeeping invariant: what a call's stage says of
  its request, its answer and its order (a request in flight has no order yet, an
  answer with an error code belongs to a call without one).
* `AtMostOneCharge`: only `GatewayDecides` creates an order; it needs
  `~Deduplicated`, and lemma `RepeatIsDeduplicated` shows that the mode the SDK
  sends makes a repeated id deduplicated unless it is OFF.
* `ApprovalIsReal`, `CallersAgree`: neither property is inductive, since an
  approval is first on the wire and told later. The invariant `IInv` adds
  `RepliesVouched` (an answer on the wire that says APPROVED, or DECLINED for a
  retry-safe id, has an order with that status behind it) and `ToldVouched` (the
  same of what was told). Decided orders stay decided (`DecidedOrdersStay`), so
  what is vouched for remains so (`VouchedStays`). Two contradicting answers would
  then need two orders of one id, which `NoDoubleCharge` excludes.
* `RefusedMeansNoOrder`: an API exception comes from an error code, and an error
  code from a request that was not processed.

`PaymentsImplementsChargeOnce`, in the same module and over the same invariant. A
retry-safe id has at most one leg (`NoDoubleCharge`), so the state of its order is
that leg's status (`StateIsLeg`), which spares every step the quantifiers of
`StateOf`. `GatewayDecides` is then `Decide`, the gateway's `Settle` is `Settle`, a
call that returns is `Tell` or is not seen (`ReturnTells`, where `ToldVouched` says
that what is told is the order's decision), and nothing else is seen. Calls
outside the retry-safe ids are not seen at all.

`Recovery_proofs`, for any number of orders, calls and faults and either policy:
`ResolvedIsDecided` and `WorkersChargeOnce`. A worker's step is a step of
`Payments` or none, so the invariant of `Payments` carries over, except through
`Forget`: that a forgotten identity had no order and nobody waiting for it is what
has to be shown. Lemma `TimeoutCarriesId` is part of it: the id a worker asks by is
that of its order. `RecoveryInv` adds that the rows of an answer are orders of the id
asked about, that a worker waits for a call of its own order, and that a worker
which stopped knows of an order and of its decision; there is one of them by
`NoDoubleCharge`, and its decision stays.

`StatusAnswer_proofs`, for any answers and for tables of any length:
`RaisesOnlyForCause`, `ResultsAreWhole` and `PromptsReachTheCustomer`, each of one
answer (`Spec`) and of every leg of an order (`StatusSpec`). The invariant
`OutcomeFits` ties an outcome to the answer it was made of; the last theorem needs
`_next_action` by its branches. `WholeTableOrNone`, `MissingFieldsAreCovered`,
`FiguresOfCompleteTables` and `NothingIsInvented` are about the order. None of
them holds step by step: `StatusInv` says that after `n` elements of `DATA` the
legs are the rows among them, each at the number of rows up to it (`LegsAreRows`,
`Place`), that the results are those legs, mapped and readable, and for what reason
an answer was given (`AnswerFits`). That summing never refuses a table needs the
first amount's currency traced to its row; that the figures are the rows' needs
the sum carried from legs to rows (`SumOfImage`), which `PlacesDiffer` allows, and
that they never exceed the rows' that a part sums to no more (`SumOfPart`).

`OrderLedger_proofs`, for any number of calls and any amounts:

* `SettledAfterBatch` and `SettledForGood`. The invariant has the types of rows and
  book, and that no row is flagged before a batch. Every method opens an order or
  leaves a row that is no authorization (`OperationsLeave`), so none of them can add
  an unsettled authorization to a settled order.
* `FiguresAreOfTheirTypes`, `FiguresAreTheBook`, `FiguresPromiseTooLittle` and
  `NetIsOffByVoids`. The figures are sums over the approved rows, the book is kept
  call by call. That they agree is not inductive, since a voided capture parts them:
  `FiguresInv` says that they differ by the captures voided so far and by nothing
  else, that each row has the sign of its action, and that there are finitely many.
  A call that is approved adds one term to each sum and the same amount to the book.
  The last theorem says how far `net` is off in the divergence that
  `order_ledger_void` shows: by the voided captures, exactly.
* `MovesOnceUnlessLate` and `WorkersLearnTheTruth`, of the workers of `FollowUps`, for
  any number of them, of calls and of faults and any amounts. The invariant says, by the stage a
  worker is at, where its requests and its rows are: a row of its own that it has
  not seen belongs to the call it waits for, or it is late.

`Sums_proofs` is what both need of `SumFunctionOnSet`, the community modules' sum over
a set: that it takes its terms in any order (`SumAdds`), depends on nothing but the
terms (`SumOfSame`), may rename them (`SumOfImage`) and grows with the set
(`SumOfPart`). The library's induction
theorems take an operator and cannot be instantiated here; `SubsetInduction` takes
the *set* of the subsets a statement holds of and argues by a minimal exception.
`SumExists` builds the function the fold is defined by, which is what makes its
recursive definition usable at all.

`Responses_proofs`: `ResponsesTypeCorrect`, `AnyOrderReadsTheSame`,
`AliasesAreFound` and `FirstFilledCellIsRead`, for bodies of any length. The invariant
(`Holds`) says what each field holds after the fields read so far: a value under
its own name if one was read, else one under an alias, else none. It needs no
order, which is the point.

`RequestBuild_proofs`, for any requests: `BuilderTypeCorrect` and
`BuildsWhatIsAcceptable`. Its invariant says what the checks passed so far have
established; the step that needs it is the refused currency, where the mismatch
with the running currency has to be traced to the amount or to an earlier item.
`WireSaysTheItems` adds `ParamsWritten`: which parameters are
written at each stage, and no others (`BuiltParams`, `ParamNames`). The values are
counted by the bijection from the item numbers.

Only model-checked: liveness (`EveryOrderResolves`, `EveryWorkerFinishes`,
`EveryPurchaseEnds`), which these provers do not reach. Every invariant and every
other action property that a passing run checks is also a theorem. Each invariant a
proof rests on was first checked by TLC on the instance of its run.

## Where the code and its documentation part

Shown by runs: `status()` of an unknown order raises instead of returning no
transactions; a voided capture still counts in `net`; read timeouts escape as
`socket.timeout` before Python 3.10; an empty line-item field makes the mapper
raise on the answer of a charge that went through.

Seen while modelling, not run:

* API code 500 raises nothing although `errors/__init__.py:37` lists it under
  `ConfigurationError`.
* An order that is an unreferenced credit has no authorization leg, so it reads as
  settled at once (`mapper.py:230`; `src/README.md:46` says almost always false).
* An empty `XTL_ORDER_ID` hides the id that came as `XTL_PO_ID`
  (`transport/__init__.py:82`), although an empty value is to be treated as absent
  (`spec/conformance-fixtures.json:631`). `Responses` shows it (`HiddenByBlank`).
* A table whose `COLUMNS` and `DATA` come in any other case is flattened before
  keys are upper-cased (`transport/__init__.py:95`), although responses are
  case-insensitive (`:5`): an order each row of which could be read is refused, and
  with a `PO_ID` beside the table it is returned with one FAILED transaction that
  is not in it: its approved transactions are lost. `StatusAnswer` shows both
  (`foreignCase`).
* Legs of different currencies are summed as one, under the currency of the first
  (`mapper.py:182`); a leg without a currency is in no sum.
* An idempotency mode or recurring option the tables lack is a `KeyError`, not a
  `ValidationError` (`request/__init__.py:179`, `:188`, `:190`).
* `timeout_ms` bounds each socket operation, not the call
  (`transport/__init__.py:57`).
* A `PO_ID` beside a table is not seen (`client.py:210`): a table of rows without one
  is refused.
* Table rows get no aliases although `transport/__init__.py:3-8` says quirks are
  normalized once.
* Fees and the partial-authorization minimum go out without a check of their
  currency although `request/__init__.py:127` says currencies cannot be mixed.
* A timed-out capture or refund is told to "set idempotency.xtl_order_id on future
  requests" (`errors/__init__.py:70-73`), which these calls do not take, and among
  equal amounts `status()` does not tell whose transaction it shows.
* Whatever the token service answers without a `TOKEN_GUID`, a passing failure
  included, becomes a `ConfigurationError` (`tokenize.py:139`).
* An order under a status the enum lacks reads as FAILED in `status()` while it is
  still open; a merchant cannot tell it from one that failed.
* An endpoint that does not end in `pmt_service.cfm` gives a token endpoint equal
  to it (`client.py:57`).

## Not modelled, and the plan

1. `status()` in `FollowUps` through the answers of `StatusAnswer` that are refused
   for good, instead of one step that is repeated until it succeeds.
2. That `FollowUps` implements an abstract specification in which each worker's money
   moves once or not at all, late calls apart, as `Payments` implements `ChargeOnce`.

Left out for good: regular-expression checks of card numbers, money and
references (no state; unit tests reach them), the contents of the service, AVS
and CVV tables, `generate_enums.py`, HTTP headers and TLS, HMAC computation. The
health checks change nothing at the gateway and take the path of `status()`.
`verify_token_response` is a helper nothing in the SDK calls.
