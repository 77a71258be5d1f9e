# A verification of evm-token-canonicalizer

TLA+ modules of the parts of `src/evm_canon` that carry the program's own logic,
TLC configurations that check them on small instances, and proofs for every
value of the constants. Paths below are relative to the repository; line numbers
are those of the commit the modules were written against. `PROJECT.json` maps
every definition to the lines it stands for and lists the runs, their mutants,
the hazards and the theorems.

## 1. The system

The program is a Python service. Each endpoint is one call of a function from a
JSON payload to a JSON answer; nothing is written to disk, and the data the
functions look things up in (a token registry, a signature set) are snapshots
pinned to a date and read once. What varies between calls is outside: the EVM
nodes asked over JSON-RPC, and a language model a deployment may wire in.

| component | source | state it keeps | operations |
|---|---|---|---|
| lot matching engine | `lots.py:33-162, 362-496` | per asset a list of lots, the disposals, three running totals, for the time of a call | check the header, read trades, sort, match buys and sells (FIFO, LIFO, HIFO, ACB), total |
| ledger views | `lots.py:88-358` | running balances | `balances`, `check_ledger`, `holding_period`, `project` |
| ENS resolver | `ens.py` | the attempt: endpoint, resolver, name found | up to four `eth_call`s per attempt, failover over the endpoints |
| canonicalization pipeline | `pipeline.py` | fields of the result and of the report, filled stage by stage | detect, chain, asset, ambiguity, amount, time, validate |
| field detection | `detect.py` | none | assign values to slots |
| resolvers | `resolve.py` | none | addresses, chains, decimals on chain, amounts, timestamps |
| token registry | `registry.py` | a constant snapshot with its indexes | lookups by address, symbol, chain |
| ambiguity picker | `llm.py` | none | ask the model, accept only a candidate |
| schema validation | `validate.py` | none | default or caller's JSON schema |
| calldata encoder | `encode.py` | the report of a call: the reading of amounts | find the function, the token, coerce, encode, flag |
| calldata decoder | `decoder.py` | none | refuse, decode, flag |
| HTTP server | `server.py` | requests under way, the event loop, the self-ping thread | routes behind a payment gate, body wrapping, forced methods and functions, self-ping |
| discovery, billing stub, CLI, scripts | `discovery.py`, `wellknown.py`, `payment.py`, `cli.py`, `scripts/` | none | declarations, input and output |

How they interact: the routes of the server call one function each. `/lots/*`
views first run the engine and project its answer, except `balances` and
`check_ledger`, which read the ledger again with code of their own. The pipeline
calls detection, the resolvers, the registry, the picker and validation in a
fixed order, and the first that raises a `CanonError` decides the answer. The
encoder shares the registry with the pipeline, and its signature set and risk
rules with the decoder.

What is hard in it:

* **Long legal sequences.** Which lots a sell consumes depends on everything
  before it. Lots are edited in place, dropped, merged into pools.
* **Two implementations of one thing.** `check_ledger` and `balances` repeat the
  engine's checks; encoder and decoder apply one set of rules to values that
  reach them by different ways.
* **Ordering of stages and of tests.** A chain not known yet becomes known when
  the asset is; a type test that comes first hides a later one.
* **An outside that changes.** ENS records change between the calls of a lookup,
  endpoints fail or disagree, the model answers anything, results are submitted
  again.
* **One loop for everybody.** The POST handlers are coroutines that call blocking
  network code; bodies arrive piecemeal; payment is verified before a handler
  runs and settled after it; the platform stops an instance it thinks idle.
* **Numbers.** Rounded quotients, contexts of 28, 50 and 300 digits, limits of
  unsigned types, `NaN` and `Infinity` which `Decimal` reads.

What makes each correct is stated by the properties in section 3; the hazards
they answer to are in `PROJECT.json`, each at its line.

## 2. The modules

| module | models | one behaviour is |
|---|---|---|
| `PositionLedger` | the abstract promise of the engine: a position per asset, the first oversell refused, nothing clamped | a ledger honoured entry by entry |
| `LotLedger` | `_calculate` of `lots.py` | one call: header, reading, sort, matching, lot by lot |
| `LedgerViews` | `balances`, `check_ledger`, `holding_period` as operators over the ledger of a `LotLedger` call | the same call |
| `EnsResolution` | `resolve()` of `ens.py` | one request, one action per `eth_call` |
| `TokenRegistry` | `registry.py`: lookups over a constant snapshot | (operators only) |
| `DecimalMath` | rounding half to even, rounding to a context, trailing zeros | (operators only) |
| `Canonicalize` | `canonicalize()` and what it calls | one payload through the stages, then perhaps its result once more |
| `HttpServer` | `server.py`: routes, payment gate, event loop, self-ping, and the platform as its comment describes it | any number of requests of several clients |
| `CalldataCodec` | `encode_call` and `decode_calldata` | one call encoded, then calldata decoded |
| `ArithmeticLemmas` | proofs: sums over finite sets, folds, sorted enumerations, rounding, digits | |
| `LotLedger_proofs` | proofs: types, the order of consumption, quantities, that `LotLedger` implements `PositionLedger` | |
| `LotLedger_costs` | proofs: no cost is lost, pools average, HIFO is optimal | |
| `LedgerViews_proofs` | proofs: the views agree with the engine, the order of processing | |
| `HttpServer_proofs` | proofs: types and the queue, payment, forced choices, the self-ping | |
| `EnsResolution_proofs` | proofs: verdicts, steady answers, failover, number of calls | |
| `Canonicalize_proofs` | proofs: all properties of the pipeline, fixed points included | |
| `CalldataCodec_proofs` | proofs: all properties of the codec, the way there and back included | |
| `MC*` | instances for TLC; `MCRegistry` is the snapshot two of them share, `MCLedger` instantiates `LedgerViews` and with it `LotLedger` | |

`LedgerViews` extends `LotLedger`, since the views are judged against the
engine. `Canonicalize` and `CalldataCodec` extend `TokenRegistry` and
`DecimalMath`. `LotLedger` instantiates `PositionLedger` under the refinement
mapping `Positions`.

### State and actions against the code

**LotLedger.** `phase` is the place in `_calculate`: `header` (lines 362-378),
`parse` (380-403, one action per trade, the first failing check decides the
error), `match` and `consume` (415-476), `done`, `failed`. The code keeps a
Python list of lots per asset and drops the empty ones; the model names a lot by
the place in the sorted ledger of the buy that opened it and keeps what is left
of it in `held`. Each list is then the increasing sequence of places with
something left, which is what appending and dropping maintain. `taken` is the
`consumed` trail of each disposal. `ConsumeLot` is one turn of the `while` loop;
`FinishSell` is what follows it; `MergeIntoPool` is the branch for ACB.
Quantities and prices are integers. Money is an integer number of 1/`Scale`, the
finest fraction there is, and every operation that makes it is rounded half to
even to `Digits` significant digits, as each of them is rounded to 50 in the code:
the product and the sum of a cost, the quotient of a unit cost, the product, the
sum and the quotient of a merge (`PoolCost`, line 425 and 427), the product and the
running sum of a basis (`Consume`, line 461), proceeds, and the totals. Sums of
*amounts* are taken to fit 50 digits.

**LedgerViews.** Each view is a function from the request to an answer, so it is
an operator and not an action. `Issues` is the list `check_ledger` builds, with
its running balance that restarts from zero after an oversell (`Settle`);
`Bucket` is one side of the split of a disposal by holding period, added up portion
by portion with the roundings of lines 128-135. The running
balance of `check_ledger` is added up in a context of `CheckerDigits` digits, as
the code adds in Python's default context and not in the engine's.

**EnsResolution.** `Validate` is everything before the first network call.
`AskRegistry` and `AskResolver` are one `eth_call` each, answered from the
*current* records of the endpoint, with the branch the code takes on the answer;
`CallRaises` is the `except` that goes on to the next endpoint or gives up. Its
`Restart` drops what the attempt had found, as the code's loop body does.
`ViewChanges` is the chain, or a node behind a load balancer: between any two
calls an endpoint may come to show other records. `namehash` is injective;
the ABI decoding of replies is external.

**Canonicalize.** One action per way a stage can end, in the order of
`_canonicalize`. A payload is what detection makes of the JSON object: several
aliases of a key are one key, texts are stripped, and values come as cells that
say which form they had (integer, digits, more digits than `int()` takes, fraction,
float, infinity, NaN, other), because detection and conversion branch on it. The hint object is a JSON object. What the
node and the model answer is a free choice (`ReadDecimals`, `PickCandidate`).
`raised` is the end of a call that leaves `canonicalize()` with an exception
other than `CanonError`: endless digits in detection (`RaiseOnDetection`), a
model's address that is no text (`PickRaises`), an amount that cannot be converted
(`Unconvertible`: negative, infinite, too long to print, or shifted out of the
context's range), a time that is no number or leaves the calendar
(`RaiseOnTimestamp`). `Resubmit` is an agent that hands a result in as the
raw object of a second call. The confidence number and the notes are left out.

**CalldataCodec.** Encoding runs `function`, `token`, `arguments`, `coerce` (one
action per argument) and `encoded`. Types are records; the order of `_coerce`'s
tests is kept, so that an array of integers is treated as an integer, as its
test comes first. Calldata is the signature and one word per argument; keccak is
injective on the signature set and `eth_abi` is external, with what it refuses
(`TooLong`, `NoArray`) and pads. `Deliver` is what a caller then posts to the
decoder: the calldata, the same without its last word, with an unknown selector,
too short, empty, not hexadecimal, or without an object around it; with a value in
wei, one that is no number, or one of endless digits.

**HttpServer.** `stage` is how far the request of a client is. `arrived`,
`verified`, `rejected`, `read`, `pooled` and `settled` are callbacks the event
loop has to run, in the order of `ready`; `verifying` and `settling` wait for the
facilitator, `body` for the client (`await request.json()`, `server.py:342`),
`pool` for the thread a plain handler runs in. A coroutine that calls out
(`/resolve` asks a node, `/canonicalize` a node or a model) keeps the loop: `busy`
is its client until `CallReturns`, and no other callback runs. `Wrapped`,
`WithForced`, `Computation`, `Choice` and `Part` are what a route makes of a body:
where `raw` comes from, which fields a narrow route writes into it, which
function it calls and what of its answer it sends; the functions themselves are
the other modules. `Finish` is the reply of a handler on its way through the
middleware: below 400 it is settled first. Settling takes two steps. The
facilitator takes the payment (`PaymentLands`), and then its answer comes
(`FacilitatorAnswers`), which tells whether it did; or the answer is lost or too
late, at any moment before or after the payment landed (`SettlementUnheard`), and
the middleware refuses with 402. `unheard` remembers that it was: such a payment may
still land afterwards, and so may one that was being settled when the instance was
stopped. A payment that lands only after its client has sent another request is not
followed. `pinger` is the self-ping thread with
the time it has spent in its present phase, `idle` what the platform counts, and
`StopInstance` the platform, which loses whatever is under way. The next request
that arrives starts the instance again. The middleware, the loop of `asyncio` and
the platform are not in the repository; they are modelled as `server.py` relies on
them and marked external.

## 3. The runs

All are run by `tlc -config <cfg> <module>`. Deadlock is checked in
the runs of `HttpServer`; it is off in the others, in which one behaviour is one
call and a call that has been answered has no next step.

### Runs that pass

`ledger` (`MCLedger.cfg`): every ledger of up to four of eight well formed trades
under each of the four methods, and ledgers with a malformed trade, an unknown
method or too many trades.

* `ConsumptionDiscipline`, `LotsOfThePast`: a sell touches a lot only when every
  lot the method prefers is empty, and only lots of its asset bought before.
* `LotsConserved`, `NoSilentClamp`: what is left of a lot and what sells took
  make up what was bought; a sell is honoured in full.
* `PoolAverages`, `CostConserved`: the average of a pool stays between the
  cheapest and the dearest purchase; basis reported plus cost of what is left is
  what was paid. Both hold up to what rounding can add: three roundings a merge for the first; five a trade and two for each lot a sell took
  from for the second, and half a unit of the grid for each unit whose cost was a
  quotient. The run has ledgers where the product with a rounded unit cost does not
  fit, which is the rule in the code. There, in 50 digits, two purchases of 1.1 at 9 with a
  fee of 0.6, and a sell of 0.05 between them, leave a pool one last digit below
  its cheapest purchase.
* `HifoMaximisesBasis`: under HIFO no other choice among the lots on hand gives a
  larger basis, before it is rounded.
* `ImplementsPositions`: the engine implements `PositionLedger`, in which lots and
  methods do not exist.
* `BalancesAgree` and `BalancesSurvive` relate `balances` to the engine;
  `CheckerAccepts`, `CheckerFindsOversell` and `CheckerCompleteWithinLimits` relate
  `check_ledger` to it in both directions, for running balances that fit the
  checker's digits (`FitsChecker`), the last also for finite numbers and ledgers
  within `MAX_TRADES`. `HoldingSplitComplete` says the two parts of a disposal make
  up the disposal: its amount exactly, its basis and proceeds up to the rounding of
  each operation. (Lots of 1.1 costing 10.5 and of 3 costing 10, sold together, are
  reported with a basis of 20.5, and in parts that add up to 20.4999...)

`ens` (`MCEnsResolution.cfg`): every request against three ways to configure the
endpoints, five worlds of records and up to two changes of what an endpoint
shows. `VerdictGrounded`: a verdict rests on what one endpoint said within one
attempt. `SteadyAnswers`: if the records did not change during the attempt, the
reply is what they say. `FailoverInOrder`: endpoints are tried in order and the
network is blamed only after the last. `Termination`.

`canonicalize` (`MCCanonicalize.cfg`): every way of naming an asset with or
without a chain, and every form of amount, decimals and time.
`IdentityGrounded`, `RegistryWins`, `DecimalsGrounded`: nothing about the asset is
made up, and the registry overrides the caller. `AmbiguityNeverGuessed`: where a
symbol could mean another asset, the model named the one reported.
`ImpostorsFlagged`: the scam flag is raised exactly when it should be.
`AmountsExactWithinPrecision`, `InferencesReported`. `Idempotent`: a result
submitted again comes out the same.

`codec` (`MCCalldataCodec.cfg`): every form of amount with every way of naming the
token, and the functions of the signature set that differ in what the code does
with them, each with many spellings of arguments. `RoundTrip`: what the encoder
made the decoder reads as the caller meant it, with the same warnings.
`WarnedBeforeSigning`: no large allowance, operator approval or native value
passes without a warning. `DecoderIsHonest`: what could not be read is not
presented as harmless. `DecimalsOfTheToken`: a registered contract is scaled by
the registry's decimals. `PlainAmountsAsWritten`.

`server` (`MCHttpServer.cfg`): one client with twenty-one kinds of requests, paid and
unpaid, wrapped and bare, with forced and chosen methods, broken bodies and calls
out; another whose lookups block and whose bodies may never end.
`ChargedForDelivery`: settlement is asked for only over a reply, nobody pays for a
bad body or an exception, no reply of a gated route goes out unpaid, under either
verb, and whoever paid and got a 402 is one whose settlement's answer was lost.
`AnsweredAsAsked`: the method or
function computed is the one the route is named after, or the one the caller
chose. `KeptAwake`: the instance is stopped only if a ping failed to reach it
since its last traffic. `Answered`: every request whose body comes is answered,
whatever the other client does, unless the instance is stopped under it.

### Runs that show a disagreement

Each checks one sentence of the docs and TLC finds it violated; the trace is
short and the code does the same.

| run | the sentence | what the code does |
|---|---|---|
| `ledger_units` | trades are processed in chronological order (`lots.py:16`) | raw times are compared, so seconds and milliseconds of one ledger sort by magnitude |
| `ledger_checker` | every problem reported at once (`server.py:94`) | infinite prices and too many trades pass as ok; a `NaN` raises |
| `canonicalize_raises` | it never raises on bad input (`pipeline.py:5`) | a negative integer amount raises `ValueError`, an infinite float `OverflowError`; so do endless digits, decimals out of range, a model's address that is no text, an infinite time |
| `codec_exotic` | an amount is never off by 10^18 (`encode.py:14-17`) | `"+1.5"` and `"1.5e0"` become 1 base unit, `"-0.5"` becomes 0 |
| `codec_readings` | every response reports which reading was used (`encode.py:16`) | only the first reading of a call is reported |
| `codec_arrays` | the same signature set the decoder understands (`encode.py:7-8`) | a list for a `uint256[]` parameter is refused as no number |
| `server_typed` | every response is a result and report or a typed error (`README.md:17`) | a narrow route given a `raw` that is not an object raises `TypeError` and answers 500 |

Met while modelling, without a run of their own: `encode.py:104` shifts a human
amount in Python's default context, so one of more than 28 digits is rounded
although `encode.py:3-4` speaks of the exact bytes (`PlainAmountsAsWritten` states
what holds within the context); the error for an unreadable time of sale names
`raw.trades[i]` with `i` counting disposals (`lots.py:122`); a bare body with a field
of its own called `hints` or `method` loses it from `raw` on every route
(`server.py:331`, `351-354`); one ping that fails is enough for the platform to stop
the instance, since the next comes a whole pause later (600 + 600 s against
15 min, `server.py:309`); the manifest promises "GET any path for its contract,
free" (`server.py:425`) while `add_paid` gates GET as well, by intention (`server.py:208-209`,
`239`), so that `ChargedForDelivery`, which follows `add_paid`, contradicts the manifest;
money is rounded to 50 digits, so the gains of a ledger sold out completely add up to what was paid only
within the bound of `CostConserved`, although `server.py:80-85` speaks of exact
decimal math; `scaleb` in the pipeline rounds to 300 digits
(`AmountsExactWithinPrecision` states the part that holds, `resolve.py:139-140`
claims all of it); with `prefer: onchain` the chain is asked only if the
contract is not registered and no decimals were given (`pipeline.py:97` against
`SKILL.md:54`); `int(Decimal("Infinity"))` (`encode.py:112`), more digits than `int()` takes and
what looks like digits to `isdigit()` only (`encode.py:97`, `158`), decimals that
shift out of the context's range (`encode.py:104`), bytes too long for their type
and an integer for an array (`encode.py:235`) end the encoder in an untyped
exception, and endless digits of wei the decoder (`decoder.py:130`), which the
refusal `raises` of `CalldataCodec` stands for; and the difference of two infinities
(`lots.py:330`) ends `check_ledger` in one (`TakesInfinity`).

### Bounds, and why they are enough

* Ledgers have up to four trades of two assets. The shortest ledger in which an
  engine property can go wrong has two lots, a sell that takes all of one and
  part of the other, and a second sell that goes on from there: four trades. The
  eight trades give unit costs that are exact, that are rounded, and that
  differ, two spellings of an asset, equal times, proceeds below zero, and sells
  that need one lot, two, or more than there is.
* `Digits` = 4 and `Scale` = 1000: unit costs of 3.5, 7.667, 5 and 12.67, of which two
  are rounded quotients. Three times 7.667 has five digits, so products with them and
  sums are rounded as well. `MilliFrom` = 100 and
  `PerSecond` = 10 stand for 10^12 and 1000; `SecondsPerDay` = 2 puts holding
  times on, below and above each cutoff.
* ENS: two names, two addresses, two resolver contracts, three endpoints, at most
  two in one request. Two changes of view let a name move away and back, or move
  on both endpoints.
* Registry: three chains, two native assets, one under two names, a symbol on two
  chains and one twice on a chain (as `ambiguous_registry` of `tests/conftest.py:17` constructs).
  Decimals 1 and 3 stand for 6 and 18, `MaxDecimals` = 3 for 255, `Precision` = 3
  for 28 and 300 digits, `MaxExponent` = 5 for 999999, `TextLimit` = 5 for the 4300
  digits that `int()` and `str()` convert; the limits of timestamps are 10, 20 and
  200. `Places` and `ShiftLimit` follow from these as in the decimal module. Human
  amounts of more places than the smallest number has (a million) are left out.
* Codec: 9999, 999, 99, 9 stand for the largest integers of 256, 160, 48 and 8
  bits and 500 for 2^128; amounts lie on either side of each.

* Views: `CheckerDigits` = 1, so that running balances of two digits occur, are
  rounded, and are told apart by `FitsChecker`.
* Server: two clients are enough for one to stand in the other's way: to hold the
  loop, be ahead in the queue, stall, or be lost with him. The requests of the
  first take every branch of the body's treatment, an empty method that another
  replaces included; those of the second are the ways of being slow. `Wait` = 2, `Timeout` = 1 and `IdleLimit` = 5 keep
  `Wait + 2 * Timeout < IdleLimit` (600 + 2 * 30 < 900 in the code) as tight as it
  can be; the theorem covers every choice.

The numbers are scaled, their order is not: every comparison in the code that
separates two cases separates two values of the instance. Every property has a
mutant of the code, an operator beside the original, under which its run fails.

### Fairness

The handler of `EnsResolution` is one function run to its end by one thread, so a
step that can be taken is taken: weak fairness of `Handler`, nothing stronger.
Every `eth_call` returns, raises, or times out after ten seconds (`ens.py:47`). No
fairness is assumed of `ViewChanges`. `LotLedger`, `Canonicalize` and
`CalldataCodec` are stated without fairness: their loops are bounded `for`s and a
`while` that consumes, and nothing there has to wait.

In `HttpServer` the loop runs what is ready (`LoopTurn`); a blocking call ends, if
need be by its timeout (`CallReturns`: ten seconds per `eth_call`); a thread of the
pool runs a handler that only builds a small object (`ThreadAnswers`); the
facilitator answers or its client gives up, after which the middleware refuses,
whatever became of the payment (`FacilitatorVerifies`, `FacilitatorSettles`). That
a payment ever lands is not assumed. The queue is first in, first out, so
weak fairness of the loop as a whole suffices. Of clients only those in `Prompt`
are taken to send the bodies they announced; the others never need to. Neither
time, pings nor the platform are fair: the instance may stop or not. That a ping
arrives or fails within `Timeout` is an assumption: `urlopen`'s timeout
(`server.py:306`) is one for each operation on the socket and each address of the
host, and does not cover the resolution of its name. So it is with the ten seconds of
an `eth_call`.

## 4. The proofs

Checked by TLAPS. About the engine: for every set of requests, assets, spellings and
bounds, from the named assumptions of `LotLedger` (requests are sequences of trades, upper-casing
yields an asset, the bounds are naturals and the scale is positive, what is no number
is no integer; a call rounds less often than once for each unit of its precision,
`RoundingsAssumption`, which a thousand trades do by far; the one about times is only
needed for the views). Each theorem states a property
that a run checks as well, so that the instance and the general claim are the
same formula.

`ArithmeticLemmas` shows what `SumFunctionOnSet` of the community modules computes
for a finite set of indices and integer values. Its definition is recursive and
takes the indices in an order nobody knows. `SumExists` and `SumUnique` show that
there is exactly one function satisfying the recursion, `SumRemove` that any index
may be taken first; the lemmas the proofs need follow: `SumChange` (a function
changed in one place), `SumSupport` (indices of value zero do not count),
`SumCompare`, `SumBound`, `SumReindex` and others. `FoldExists` does the same for
`FoldLeft` over a sequence, by way of `RecursionExists`, and `SortedCovers` and
`SortedUnique` say that a set with a strict order has one increasing enumeration.
The library's induction theorems take an operator as a parameter, which the
provers cannot instantiate; `Induction` and `SubsetInduction` take the predicate as
a *function* into `BOOLEAN` and follow from the well-foundedness of `<` on the
naturals. `RoundDivBound` (a quotient is off by half a unit at most), `RoundDivAtLeast`
and `RoundDivAtMost` (rounding never passes a whole number), `PowersOfTen`,
`DigitCounts` and `DigitsFit` are what `DecimalMath` does to a number. `RoundedFits`
and `RoundedMultiple` say which numbers a decimal context leaves alone, `Divides` when
a division comes back by multiplication, `ShiftedNat` that shifting keeps a natural
a natural, and `TrimmedPlaces` that a decimal without
its trailing zeros is the same number.

`LotLedger_proofs`, types and order:

* `TypeCorrect`: `Spec => []TypeOK`. `TypeOK` is not inductive by itself: that a
  sorted ledger has a slot for each trade needs the header to have been checked
  against `MAX_TRADES` before anything was read, and the loops need `pos` to stay
  where it was before matching began. `Progress` says so and `TypeInv` is the
  conjunction. The lemma that carries it is `AcceptedTrade`: a trade no check
  refuses has a positive amount, a price and a fee not below zero. With
  `RoundDivType` no quantity or cost ever becomes negative, which is where
  `Consume` subtracting the minimum of two amounts matters.
* `DisciplineHolds`: `Spec => []ConsumptionDiscipline`, and `PastHolds`:
  `Spec => []LotsOfThePast`. Both come from `MatchInv`, the conjunction of the
  two with `LotsOpened`: a slot holds something only if it is a buy at a place
  already passed. Without `LotsOpened` the step that opens a lot would have to
  know that no earlier sell preferred it. The step `ConsumeLot` uses that the lot
  consumed is first in the order `Precedes`, which `PrecedesStrict` shows to be
  asymmetric: a lot preferred to the one consumed can hold nothing, and lots
  that were opened never grow again outside a pool.

Its second part, about quantities, has the invariant `QuantityInv`, on top of
`TypeInv` and `MatchInv`:

* `SellInProgress`: what remains of a sell and what it took make up its amount,
  and what remains is available. This is why the loop cannot end for want of lots
  before the sell is honoured, although its condition (`lots.py:454`) allows
  that.
* `SellsHonoured`: a completed disposal took its full amount, and lies behind `pos`,
  so that no later step can add to its trail (`TrailsOfThePast`).
* `LotsConserved` itself. That a lot just opened has given nothing yet is
  `NotYetConsumed`, from `LotsOfThePast`.

`RoundMoves` is the lemma about one turn of the loop: it moves a quantity from
one lot of the asset to the trail of the sell, and so from `Available` to `Sold`.
From these follow `LotsAreConserved` and `NothingIsClamped`.

Its third part proves `Spec => ImplementsPositions`
(`EngineImplementsPositions`) from the same invariant, with one lemma per action
of `PositionLedger`. Under the mapping a sell in progress still counts in the
position, so `BeginSell` and `ConsumeLot` are stutters and `FinishSell` is
`Dispose`; a buy is `Acquire` whether it opens a lot or grows a pool
(`LotGrows`); an oversell is `Refuse`; a request refused before matching is
`Load` of nothing, for which `RefusalsOfReading` shows that no such refusal
passes for an oversell.

`LotLedger_costs` has the invariant `CostInv`, on top of all of these:

* Both theorems on costs speak of `Accounts(w, x, grid, n)`: that `w` differs from `x` by
  no more than `n` roundings and a share of the grid allow. A rounding of a part of `w`
  moves the whole by one part in 2 * `Parts` of it (`KeptBound`), and `Rounds` and
  `Averages` turn that into `n + 1`. The bound is linear in `n`, although errors are
  themselves rounded, because a call rounds less than `Parts` times
  (`RoundingsAssumption`), so what is held never exceeds twice what was paid plus the
  grid (`AccountsBound`).
* `CostIsConserved`: `CostConserved` is not inductive, since a sell under way has
  taken costs out of the lots that no disposal reports yet. `DriftInv` counts them
  (`Sales`), and `BasisInv` keeps for each disposal that its basis is the cost of its
  trail, up to two roundings a portion (`Covers`). `UnitCostBound` gives each opened lot
  half a unit for each of its units; a merge rounds the pool again, and the grid grows
  by the units of the pool as it then is.
* `PoolsAverage` (from `PoolInv`: one lot per asset): the merged unit cost is a weighted
  mean, rounded in its product, its sum and its quotient. `High` and `Low` keep a pool
  within three roundings a purchase of the dearest and the cheapest; `MergeHigh` and
  `MergeLow` are the step, and `HighAndLow` that they imply what is claimed.
* `HifoIsOptimal`: an exchange argument (`GreedyIsBest`). Under HIFO what a sell took has
  a threshold: every lot dearer than the dearest one left was emptied, so any other
  choice of the same amount gives up as much above the threshold as it gains below.

`LedgerViews_proofs` relates to the engine the code that reads the ledger again. It needs
in addition that what is no asset has no spelling in upper case (`ViewsAssumption`),
that times of one kind are ranked (`TimesAssumption`), and that an amount, price or fee is
an integer or one of the named misreadings (`FieldsAssumption`):

* `ReadInv` says that the sorted ledger is a rearrangement of the trades of the request,
  and `Malformed` why a call failed before matching; `NetInv` that the position of an
  asset after `n` trades is `NetAfter`, a difference of two sums over the ledger, and
  that every sell passed so far fitted. From these follow `BalancesMatchEngine` and
  `BalancesSurviveOversells`: `SameMoves` carries the sums from the order of time to the
  order of the request.
* `CheckerFindsEngineOversell`, `CheckerAcceptsMatched` and `CheckerCompletes` follow the
  running balance of `check_ledger`. It sorts the ledger by code of its own: as both
  orders are strict, the two sorted ledgers are one (`SortedUnique`, `SettledTrades`).
  `TrackStep` shows that its balance is `NetAfter` up to the first oversell, since the
  sums that `FitsChecker` bounds fit its digits and are not rounded (`NetFits`,
  `DigitsFit`). `FlawlessTrade` and `FaultyTrade` compare its tests of one trade with the
  engine's, in both directions.
* `UnitsAreChronological` is what remains of `Chronological`, which the run `ledger_units`
  violates: between numbers of the same unit the order is that of the instants, since
  division by a thousand is monotone (`DivisionMonotone`).
* `HoldingSplits` needs only the costs: every portion of a disposal is counted on one
  side, and a fold over the portions of a side adds a product, a quotient and a sum to
  the proceeds, and a product and a sum to the basis, each with its rounding.

`HttpServer_proofs`, for any clients, requests, waits and sets of paths that may
raise, from the named assumptions of `HttpServer`: the limits of time
(`TimesAssumption`), requests for which there is a route (`RequestsAssumption`), and
that nobody is a client (`ClientsAssumption`).

* `TypeCorrect`: `TypeOK` with its bookkeeping of the queue. `TypeInv` adds domains
  and that whoever is not `away` sent one of his requests. `Joins`, `Leaves` and
  `Stays` are the three things a step can do to the queue, with `AppendQueue` and
  `TailQueue` about sequences without repetition.
* `ChargedHolds`: `PaymentInv` says where the payment of a request stands at each
  stage. It needs that a request past the gate of a gated route has paid
  (`Admitted`), that what waits for settlement is a 200, that a payment lands only then
  or after the answer to its settlement was lost, and what `unheard` means: the request
  was refused after its handler had answered. `OneClient` reduces a step to the client it is about.
* `AsAskedHolds`: `ReplyInv` says that a reply is a bare status or the computed
  answer to the very request; the rest is `ChoiceAsAsked`, a fact about
  `Wrapped`, `WithForced` and `Choice` for every body whatever its keys.
* `KeptAwakeHolds`: `PingerInv` bounds the time without traffic by the phase of the
  thread, as long as no ping was missed: `since` after a ping got through,
  `Timeout + since` in the pause, `Timeout + Wait + since` while the next is on its
  way, so never more than `Wait + 2 * Timeout`.

`EnsResolution_proofs`, for any names, records, number of changes and list of
different endpoints (`EndpointsAssumption`), where what a resolver holds for an
address is read as a name and for a name as an address (`WorldsAssumption`):

* All four properties of the `ens` run's handler are consequences of one invariant,
  `Inv`. An attempt is about one of three things: the address of the caller's name
  (`Forward`), the name of the caller's address (`Reverse`), or whether that name
  leads back (`Checking`). `Heard` says what the log then holds: nothing of an
  endpoint still to be asked, nothing of the present one while `Reverse`, and
  exactly the naming of the address while `Checking`. That is why the verdict can
  rest on no other answer (`VerdictIsGrounded`), and why the endpoints must be
  different: the `Restart` of `CallRaises` forgets what the attempt found, and the
  next endpoint has said nothing yet. `Agreeing` says the same of the records as
  long as they stand still (`SteadyIsTrue`).
* `NameFound`, `ForwardEnds`, `ReverseEnds` and `CheckingEnds` are the four ways an
  answer can be taken; `AskRegistry` and `AskResolver` come down to them through
  `Answers`, which says what is known of an answer whichever call gave it.
* `FailoverOrdered` needs `Outcome` of the invariant: no reply exists before the end.
* `HandlerCountsDown` is what can be proved of termination. `StepsLeft` bounds the calls a
  request may still make, four for each endpoint; every step of the handler lowers it, a
  change of records leaves it alone (`CountsDown`). `Termination`, which TLC checks, adds
  that a handler that can go on does.

`Canonicalize_proofs`, for any finite snapshot with one entry per chain and per
chain and address, whose symbols and names are texts and whose decimals are naturals
(`SnapshotAssumption`), any texts where an address is its own checksum
(`TextAssumption`), any payloads detection can make of a JSON object
(`PayloadsAssumption`, from the tests in `detect.py`), and any limits in the order
the code has them (`NumbersAssumption`); `FixedPoints` also needs that a native asset
goes by its own symbol, that no token of its chain has that symbol, and that its
symbol and name are no addresses (`NativeAssumption`; so it is in
`registry-tokenlists@2026-07-01.json`):

* `IdentityHolds`, `RegistryHolds`, `NothingGuessed`, `ImpostorsHold` and `DecimalsHold`
  are five views of the same fact: what the stage that settles the asset writes.
  `ListedSettles`, `UnlistedSettles` and `AdoptedSettles` show all five for a
  listed contract, an unlisted one and a ticker, `StaysSettled` that no later stage
  touches what they speak of. `RegistryHolds` needs that the snapshot has one entry
  per contract, also for the path that looked the contract up by another key; and
  that a native asset, whose address is `Absent`, is never mistaken for a listed
  contract (`NoneIsNoAddress`, `CandidateKinds`).
* The invariant adds what the two waits know while the outside answers: `Reading`,
  that only an unlisted contract of a caller who opted in is asked for its
  decimals, and `Picking`, that a model is only asked about a ticker already
  reported as ambiguous. `OneChainMeant` shows that the caller's chain is one
  chain, so that `GivenChain`, which the properties use, is what the stage found.
* A second call with the result (`Resubmit`) starts from nothing but the payload, so
  these five cover it whatever the payload it makes.
* `TypeCorrect` has one lemma per stage. Its substance is the amount: that a raw and a
  human amount are there together and are naturals rests on the guards of
  `ConvertAmount`, since what the caller sends may be negative.
* `InferencesHold`: `Reported` says for each stage what has been listed as inferred so
  far and why no later stage takes the ground away from it. The claim is an equivalence
  for the chain and the raw amount; for decimals and times it goes one way, and of what
  the registry supplies, which the code never lists (`pipeline.py:85`, `140`), it says
  nothing.
* `AmountsHold`: `ConvertsExactly` is the stage, `Exact` that no later one touches it.
  A raw amount within the precision is not rounded when it becomes human, nor when
  trailing zeros are dropped (`HumanExact`, from `TrimmedPlaces`), as long as its last
  digit is not below the smallest number of the context (`Places`); a human amount is
  only shifted, and the zeros a shift appends do not count against the context
  (`RawExact`, from `RoundedMultiple` and `PowersAdd`); no raw amount is reported only
  if the number is not whole (`NoRawExact`).
* `FixedPoints` takes the first call's result through all stages again. `Canonical` says
  what a result can be: its asset is listed, unlisted, native or unnamed, and its amount
  is the one shown for these decimals. `Remembered` says the same of `earlier`, and what
  detection reads back from it; `Repeats` follows the second call stage by stage. A
  listed contract is found under its own address, a native asset under its own symbol,
  which is where `NativeAssumption` is needed: a token of that symbol on the same chain
  would make the second call ambiguous. The raw amount comes back as digits and is
  converted by the same decimals, which showed it before.

`CalldataCodec_proofs`, for any registry (`SnapshotAssumption`, `TextAssumption`), any
signatures with one entry to a full signature and different parameter names
(`SignatureAssumption`), and any calls whose arguments are cells (`CallsAssumption`):

* `RegistryScales`: `TokenInv` says that the token a transaction goes to is one the call
  could mean; `ListedDecimals` that each of these, if it is a listed contract of a stated
  chain, has the registry's decimals. An address without a stated chain is the case where
  the caller's decimals stand, and then the transaction has no chain either.
* The rest stands on `EncodeInv`. `TakenUpTo` says that the arguments so far are exactly
  what the caller gave for them, none of them refused, and `HandedOver` that a transaction
  carries all of them, with the flags of that moment. The types cannot be
  proved without it: a coerced argument is a value of its type only because the cell it
  came from was not refused (`CoercedTyped`, from `FirstIsOne` about the first refusal
  among the items of an array).
* `TypeCorrect`: every integer accepted fits its parameter (`NumberWithin`).
* `WarningsHold` and half of `ThereAndBack` are about `RiskFlags`. The parameters that
  grant something must be recognisable: an approval has one amount, an unsigned integer,
  and an operator is approved by a Boolean (`AllowanceAssumption`; so it is in
  `sigdb@2026-07-10.json`). `SameFlags` shows that the decoder, which computes the flags
  from the padded words, raises the same as the encoder did from the arguments.
* `PlainAmountsHold`: `FractionExact` says that a fraction whose digits fit into the
  context is scaled without rounding, and divided without remainder or refused. The
  violation `AmountsAsWritten` shows what happens to other spellings.
* `DecoderHonest` and `ThereAndBack`: `AnswerInv` lists the four answers of the decoder.
  The first needs that words are never `Absent` (`WordsTyped`, `NoneAssumption`). The
  second needs that a full signature names one entry, so that the selector leads back to
  the signature encoded, and `WordMeant`: padding keeps the bytes, arrays keep their
  items in order, and what `Encodable` lets through is no array taken for an integer.

* `ReadingHoldsUnmixed` is what remains of `ReadingsReported`, which `codec_readings`
  violates. `ReadingInv` says that the reading told is that of some argument, and of none
  only if no argument has one; so it is everybody's unless a call writes one amount with
  a fraction and another without (`Unmixed`).

Every invariant and every safety property of an action that a passing run checks is
stated by a theorem. Model-checked only are the violations, which are facts about
instances, and `Termination` and `Answered`: liveness under fairness is out of the
prover's reach.

## 5. Not modelled

* `server.py:114-227`: which facilitator is used and with what credentials and
  prices, decided once from the environment; the texts of the usage and manifest
  routes; requests for which there is no route.
* `discovery.py`, `wellknown.py`, `payment.py`, `cli.py`, `scripts/`, deployment:
  declarations, formatting, input and output, a stub that is never settled.
* `checksum_batch`: one pure function mapped over a list.
* Formatting of numbers and texts, confidence, notes; stripping of texts and the
  table of key aliases; rounding of *sums* of amounts.

## 6. Plan

Done, in this order: the engine with its abstraction; the views; ENS; the
pipeline with the registry; the codec; the proofs about the engine's types,
order of consumption, quantities, refinement and costs, and about the views; the HTTP server and the proofs
about it; the proofs about ENS; the proofs about the pipeline, from the origin of an
asset to the fixed points; the proofs about the codec.

