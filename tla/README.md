# A TLA+ verification of MSIM

MSIM is a market-microstructure simulator in C++: a limit order book with
price-time priority, a matching engine with auctions, price bands and circuit
breakers, and simulators, agents and a live gateway on top.  This directory
holds TLA+ modules translated from `src/src` and `src/include/msim`, TLC
configurations that check them on small instances, and proofs checked by TLAPS.

File names below are those of the repository; `x.cpp:10` is line 10.

## 1. Inventory

| Part | State | Operations | Model |
|---|---|---|---|
| `OrderBook` (`book.hpp`, `book.cpp`) | `bids_`, `asks_` (price -> FIFO list + `total_qty`), `loc_` (id -> side, price, iterator) | `add_resting_limit`, `cancel`, `modify_qty`, `best_bid/ask`, `depth`, `is_crossed` | `OrderBook` |
| `RuleSet` (`rules.hpp`, `rules.cpp`) | configuration, phase, last trade price | `pre_accept`, `on_trades`, `set_phase` | `Rules`, fields of an engine |
| `MatchingEngine` | book, rules, auction queue, `auction_end_ts_`, `tal_end_ts_`, `cb_ref_price_`, halt and reopen times, `next_trade_id_` | `process`, `flush`, `start_trading_at_last`, `start_closing_auction`, `book_mut` | `Engine`, `MatchingEngine` |
| `SessionController` (`session.hpp`) | a schedule, two "started" flags | `on_time` | `Session` |
| `World` (`world.cpp`) | engine, agents, accounts, order meta | `run`: flush, view, agents in order, top of book | `World` |
| `Ledger` (`ledger.hpp`) | accounts: cash, position, traded quantity | `apply_trades_to_accounts`, snapshots | `Ledger` |
| Agents (`agents/*`) | market maker: quote ids and refresh time; noise trader: next id | `step` | `Agents` |
| `Simulator` (`simulator.cpp`), `OrderFlowGenerator` (`order_flow.cpp`) | engine; next id | `run`: events sorted by time; `generate` | `Replay` |
| `LiveWorld` (`live_world.*`) | engine under `engine_mtx_`, cache under `cache_mtx_`, `cur_ts_`, `running_`, `stop_`, worker thread | `start`, `stop`, worker loop, `submit_order`, `cancel_order`, `modify_qty`, reads of the cache | `LiveWorld` |
| Gateway (`gateway_main.cpp`) | a `LiveWorld`; maker, aggressor, drift, console and main threads; the HTTP server; the ids of the maker's ladder | `start/stop_background_flow`, HTTP handlers, `main` | `Gateway` |
| `Rng`, `main.cpp`, `web/` | - | random numbers, command line, browser UI | not modelled |

**Interactions.**  Everything is a synchronous call into one engine.  `World::run`
and the live worker call `flush(ts)` once per time step, then `process`, `cancel`
and `modify_qty` for every agent.  A `SessionController` is called once per step
by its user, sets the phase and flushes.  `process` begins with a flush of its
own.  The live gateway calls from many threads, serialised by `engine_mtx_`;
readers see a cache that every call updates.

**What is hard.**

- Orders move between two homes.  A halt drains the book into the auction
  queue, the uncrossing puts what is left of the queue back into a book that may
  not be empty, and cancels look only at the book.
- The book keeps three containers in step, edited in three styles: through
  locators (`cancel`, `modify_qty`), directly (matching), wholesale (the breaker).
- Timers have no thread.  A halt, an auction or trading-at-last ends when
  somebody calls, at or after its time; one late flush may have to end a halt and
  its reopening auction, whose prints may start the next halt.
- The session overrides the phase whatever it is.
- Pre-checks and execution are two steps: the FOK liquidity check and the
  matching with self-trade prevention, the clearing volume and the pairing.
- Live: `cur_ts_` is read before the mutex is taken, the worker ends by itself
  without being joined, cache updates carry their caller's time.
- The gateway: a ladder is replaced in many calls, between which everybody else
  trades and phases change; `main` stops its threads wherever they are.
- Nothing keeps order ids unique: the locator of an older order with the same id is
  lost.

**What makes each part correct.**  Book: never crossed, totals exact, locators
exact, FIFO.  Engine: price-time priority, limits respected, nothing lost,
duplicated or overfilled, FOK, IOC and market-to-limit outcomes, nothing trades
in a halt, an auction executes the maximal volume at one price, every call phase
ends.  Session: the day closes once, through its closing auction, and stays
closed.  Ledger: cash and positions balance over all owners.  Market maker: at
most one live bid and ask.  Simulator: a tape in time order.  Gateway: one ladder
at a time, no quotes left at the end, and an end.  LiveWorld: no deadlock, the cache shows a state the engine was in, its
series is in time order, the worker is joined.

`PROJECT.json` lists the hazards at their lines with the properties that cover
them, and says of the others why no property does.

## 2. Modules

```
MarketTypes   sides, orders, trades, phases, C++ integer operations, maps, loops
 |- OrderBook    the book and its member functions
 |- Rules        configuration, pre_accept, price bands
     Engine         every member function of MatchingEngine, as operators
      MatchingEngine    the state machine: Submit, Advance, CancelOrder, ModifyOrder
       EngineProperties    what it promises
        |- MCEngine           small instances
        |- Session            the session controller around the engine
            MCSession            a small instance
Ledger        accounts and fills, over MarketTypes
Agents        market maker and noise trader, over Rules
World         Engine + Ledger + Agents: the time steps of World::run
 MCWorld         small instances
LiveWorld     Engine + worker thread, callers, cache, life cycle
 |- MCLive         a small instance
 |- Gateway        LiveWorld + market maker, aggressors, drift, requests, console, main
     MCGateway       a small instance
Replay        Engine + a generator of events and the simulator that replays them
 MCReplay        a small instance
Exchange      what the engine promises, abstractly; EngineProperties instantiates it
 ExchangeProofs  what follows from the promise
OrderBookProofs    induction, loops and sums; the book's functions
 EngineProofs         the engine's functions: types, good books, the tape of prints
  |- ReplayProofs         the replay
  |- AccountProofs        the engine's functions: what becomes of every order
      |- MatchingEngineProofs the machine and the session: accounts, refinement,
      |                       priority, outcomes of orders, auctions
      |- LiveWorldProofs      the live world and the gateway
      |- WorldProofs          the world of agents
```

An engine is a record `eng` with one field per member of the C++ class, so a
member function is an operator from an engine and its arguments to an engine and
a result.  That is how the early returns, the order of assignments and the trailing
calls of the code stay together in one atomic action: `Submit(o, ts)` is all of
`process(o)`, with its flush, its matching, its `on_trades` and its circuit breaker.

| TLA+ | Code |
|---|---|
| `book.levels[side]`, `book.loc` | `bids_`, `asks_`, `loc_` |
| `Node(q, id)` | the iterator of a locator (see the comment in `OrderBook`) |
| `Best` | `best_bid`, `best_ask`: `begin()` of the maps |
| `Match`, `MatchStep`, `Fill` | `match_buy` and `match_sell`, one loop for both sides |
| `Halt`, `Drained` | `matching_engine.cpp:40-59` |
| `PairStep`, `Restock` | the loops of `uncross_auction` |
| `Preferred` | the scan of `compute_clearing_price`, as a preference order |
| `Settled` | the end of `process`, `matching_engine.cpp:401-410` |
| `Submit`, `Advance`, `CancelOrder`, `ModifyOrder` | `world.cpp:27-89` |
| `OnTime` | `SessionController::on_time` |
| `BeginStep`, `MakerTurn`, `NoiseTurn`, `EndStep` | `world.cpp:27-49`, one turn of `:52-89` each, the loop header |
| `Execute`, `Known`, `Booked` | the branches of `world.cpp:67-88`, `order_meta_`, recording and booking |
| `MakerStep`, `NoiseSteps` | `MarketMaker::step`, `NoiseTrader::generate_actions` behind `Agent::step` |
| `ApplyTrades`, `ApplyFill` | `apply_trades_to_accounts`, `Account::apply_fill` |
| `PrepareOrder`, `Submit` | `submit_order` before and under the mutex: `live_world.cpp:113-121`, `:123-133` |
| `CancelOrder`, `ModifyOrder` (`Edit`) | `cancel_order`, `modify_qty` |
| `WorkerHead`, `WorkerFlush`, `WorkerAct`, `WorkerUnlock`, `WorkerEnd` | `live_world.cpp:181-184`, `:186-209`, one action of `:211-224`, `:228`, `:231` |
| `Updated`, `RecentTrades` | `update_cache_with_engine_locked_`, `snapshot` |
| `Start`, `Stop`, `Destroy`, `Joined` | `start`, `stop`, `~LiveWorld`, the return of `join()` |
| `MakerHead`, `MakerCancel`, `MakerRead`, `MakerPrepare`, `MakerSubmit`, `MakerEnd` | `gateway_main.cpp:195`, one id of `:197-202` or of the sweep `:262-266`, `:204-206`, one order of `:208-257`, the end of the thread |
| `AggrPrepare`, `AggrSubmit`, `AggrEnd`; `Drift` | `:282-300`; `:169-179` |
| `Launch`, `ListenReturn`, `FlowJoined`, `WorldJoined`, `Exit` | `:332-351` and `listen()`; its return and `:309`; `:311-317` and `world.stop()`; its return; `:537-538` |
| `HandlerCalls`, `HandlerSubmits`; `Quit`, `QuitMissed` | the POST handlers `:467-524`; the console thread `:342-351` |
| `Generate`, `Sorted`, `ReplayAdd`, `ReplayCancel`, `ReplayModify` | `order_flow.cpp:45-73`, `simulator.cpp:29-42`, `:50-59`, `:60-63`, `:64-67` |

The machine of `MatchingEngine` lets any caller make any call at any time and has
the general theorems; `World` is the one caller whose accounts and agents are
modelled.  Its `tape` is `out.trades`, and `sent` is a history of the orders
submitted.  The turn of an agent is one action: its `step` and the execution of
all its actions, which in the code nothing interrupts.  The noise trader's random draws are
choices from their ranges; its probabilities are left out.

`LiveWorld` is at the grain of what threads can see of each other.  The atomics
`cur_ts_`, `stop_`, `running_` and `manual_seq_` are read and written outside the
mutex, so the code around them has steps of its own.  What runs under
`engine_mtx_` is seen by others only through the cache and by its release:
a call of another thread updates the cache once, at its end, and is one action; the
worker updates it several times in a step and has one action per update, during
which it holds the mutex (`Unlocked`).  Readers change nothing: they see `cache`.
What the agents of a step do is any member of `AgentSteps`; they see one view and
position 0.  A thread object destroyed or assigned while joinable ends the process,
which is the state "terminated" of the owner.

`Gateway` runs the actions of `LiveWorld` from its threads: `calls`, `caller` and the
preparation of an order are those of `LiveWorld`, so a thread that has read `cur_ts_`
may wait for the mutex while everything else goes on.  What a thread computes
between two calls is part of one of them.  `main` up to `listen()` is one action: a
quit read before it has the effect of none (`Server::stop` of cpp-httplib does nothing
until the server listens), which is `QuitMissed`.  Requests are accepted while the
server runs, and answered although it stops.  The sleeps of the threads have no
length.  `queued` is a history of the orders that have waited in an auction queue.

`Replay` first makes its vector, a caller's or a generated one, then sorts it, then
runs it.  The generator's `ref_mid` of 10000 is the code's; the number of early ids
without cancels, 5 in the code, is a constant.  Vectors of callers may use an id
twice, which nothing forbids.

Abstractions, all named where they are made: quantities and times are unbounded
integers (overflow is not modelled); an order's own timestamp is dropped, because
the book keeps arrival by position and the uncrossing overwrites it; the price
of a market order is any price, never read; the configuration does not change
during a behaviour; logging and counters of results are left out.  A loop is
`Iterate`, a recursive function; the matching loop is cut after `MaxLoop` turns,
and an engine whose loop had not ended by then is `spinning` and takes no more
calls.  `TypeOK` does not forbid that, but deadlock checking does in every run, and
`MachineReturns` and `SessionReturns` prove that it never happens (`CallsReturn`).

`submitted`, `traded` and `out` of `MatchingEngine` are history variables: the
orders seen, what each has traded, and the latest call with its result.

The definitions marked "Mutant" in comments are plausible wrong versions of an
operator.  Nothing refers to them.  For each property of each passing run,
`PROJECT.json` names one whose substitution makes the property fail.

## 3. Runs

| Run | Asks | Bounds |
|---|---|---|
| `Matching.cfg` | continuous matching: book integrity, priority, accounting, FOK and market-to-limit, under all three self-trade modes | 6 orders in any order and subset, cancels and reductions to 1 at any moment, time 0 |
| `Auctions.cfg` | volatility auctions, halts, reopening auctions; calls at any nondecreasing times; every call phase ends; the engine implements `Exchange` | 6 orders, 3 configurations, arrivals to time 2, late flushes to 3, ticks to 8 |
| `Session.cfg` | a trading day over halts and auctions closes and stays closed | 5 orders, 2 configurations, 2 schedules, time to 7 |
| `World.cfg` | agents and accounts over time steps, in continuous trading and through auctions and halts: recording and booking of every print, quotes replaced, no self-trade | 4 steps, 3 configurations, 2 casts, orders of 1 or 2, offsets 1 and 2 |
| `Live.cfg` | a worker, callers and an owner: cache, clock and life cycle | `dt_ns` = 0, horizon 2, 2 callers, 2 calls, 2 starts, caches of 2 trades, 1 top and 2 levels, 2 configurations |
| `Gateway.cfg` | the gateway's threads against each other, against auctions and halts, and against the shutdown | a ladder of one level, 2 ladders, jitters -1 and 1, fundamental 1 and 2, one request, which names its id, or order of an aggressor, worker to time 1 |
| `Replay.cfg` | replay of caller's vectors and of generated flows | 3 vectors of 5 or 6 events in every arrangement, generated flows of up to 4 events with offsets and quantities 1 and 2, 3 configurations |
| five violation runs | see section 5 | as the run they are derived from |

Why this is enough.  With prices 8..12, a last price of 10, bands of 10 % and a
breaker at 15 %, the orders of `Auctions.cfg` reach: an auction started by a
band breach over a book that stays in place, a halt that drains both sides, a
reopening auction with leftovers on both sides, a late flush that ends halt and
auction at once, and a second halt out of the first one's reopening.  `Matching.cfg`
has two makers at one price, two levels, owners that meet themselves, a FOK that
fits and one that does not, and a market order larger than the book.  `MaxLoop` = 8
exceeds the orders a sweep can meet.  `LastArrival` stops submissions so that the
calls have time to end, and `LastJump` the flushes that come late; after that the clock
ticks as a world's loop does; `MaxTs` is where the clock stops, past every end time a
call of that run can set, so a property about what comes after an end is not
satisfied by the bound: `CallEnds` and `DayEnds` need the market to have resumed or
closed by then.

The world has no clock of its own: `Horizon` is the code's `t_end` and `Dt` its
`dt_ns`.  With a halt, an auction and a reopening of one step each, four steps
are enough for quotes, a fall that halts, the reopening and its prints, and for
orders sent two steps before they are filled.  The maker's spread of 2 and skew of 2 per
share let a single fill move its bid to its old ask.  `IdSpan` stands for 2^32; `MCIds`
are exactly the ids each agent may give out.

In `Live.cfg` the requested `dt_ns` of 0 shows the clamp of `live_world.cpp:179`.  The agents
quote in step 0 and cancel in step 1; the two callers' orders, submitted at any
moment and late by any number of steps, breach the band or fall far enough to halt,
so that an auction or a halt starts and ends within one run of the worker.  There
are up to 4 prints against a cache of 2.  Two starts suffice for a restart after `stop()`
and after the worker's own end.

In `Gateway.cfg` time stops at 1: an auction or a halt that starts at 0 ends there, one
that starts later stays on, so the sweep meets both.  Two ladders are what a replacement
needs; at a fundamental of 1 both kinds of quotes meet the floor, at 2 the lowest ask may
meet a raised bid if the clamping were wrong; the fundamental drifts between the two at any
moment.  `MaxCalls` = 1 lets a request (an order or the cancel of the first bid) or an
aggressor's order come at any moment of that; the request names an id outside the spans the gateway numbers from, and one that leaves
it to the world would differ in its number only (`Live.cfg` has those).  The reference price of the
bands and of the breaker is whatever traded first.  The horizon, a year in the code, is out of reach.
In `Replay.cfg` the vectors are a rise into an auction that prints, a fall into a halt, and
five events at one time with an id used twice; their arrangements include those whose
cancels come in an overdue auction and those whose last orders stay in the queue.  The
configurations are just calm at the width of the placement (`Calm`), too narrow, and with
a breaker that is too sensitive.

**Fairness.**  Of the engine, only that time passes: `WF_now(TimePasses)`.  `World::run` and the
live worker are loops that advance `ts` by `dt` and flush until their horizon,
whatever the agents do, so a tick is never withheld for ever; nothing is assumed
of submissions, cancels or modifications.  In `LiveWorld` it is that the worker moves on
(`WF_worker(WorkerMoves)`) and that `join()` returns once its thread has ended.  `std::mutex`
promises no fairness; the callers of the code sleep between their calls
(`gateway_main.cpp:259`, `:300`), and a call holds the mutex for a bounded time.  Nothing is assumed
of the callers and the owner there.  In `Gateway` every thread of the process moves on; a thread
that waits for the mutex finds it free again and again, never for good, since the worker
takes it in every step, so it needs strong fairness (`SF_mm`, `SF_aggr`, `SF_caller`), which is
the assumption that the system hands the mutex to every thread at some time.  Nothing is
assumed of those who send requests or type at the console.  Without a caller the engine does
nothing, and the code makes no other promise.

**Properties.**  State: `NotCrossed`, `BookSound`, `BookConsistent`, `OnePlace`,
`LimitsRespected`, `QueueOnlyInCall`.  Steps: `PriceTimePriority`,
`FifoKept`, `NothingLost`, `FokAllOrNothing`, `MarketToLimitRests`, `CallFreezes`,
`AuctionMaximal`, `ClosedIsFinal`, `ClosingUncrosses`.  Refinement: `ImplementsExchange`.
Liveness: `CallEnds`, `DayEnds`.  World: `TapeExact`, `LedgerExact`, `NothingOverdue`,
`QuotesReplaced`, `NoMakerSelfTrade`.  LiveWorld: `CacheCurrent`, `TapeCached`,
`RestMeansEnded`, `CleanUnlessHorizon`, `OnlySubmitsGoBack`, `NoEarlyEnd`, `WorkerEnds`.
Gateway: `LadderRemembered`, `ShutdownSweeps`, `SelfTradeAtFloor`, `ExitEnds`.  Replay:
`TapeInTime`, `ReuseOrphans`, `FlowRests`.  Each is stated in words above its definition, with its exceptions:
`FokAllOrNothing` is about engines without self-trade prevention because with it
the claim is false (section 5), and `NothingLost` leaves out CancelTaker, whose
purpose is to drop the taker.  `QuotesReplaced` and `NoMakerSelfTrade`
are about worlds without auctions and halts, across which the first fails
(section 5).
`NothingOverdue` supposes that `dt` is not longer than a halt: a late flush times the
halt it triggers from the end of the auction, which may be over by then.

**The refinement.**  `Exchange` has orders with a quantity open and a quantity traded, and
suspensions with an announced end; no book, queue, price or phase.  Its step says
that an order which has entered never trades or keeps more than it had, that buyers
trade what sellers trade, and that a suspended exchange prints nothing before the end it
announced.  `EngineProperties!Promise` maps the engine to it: `open` is what an
order has in the queue and in the book together, `frozen` a halt or an auction, `until`
`auction_end_ts_`.  `ImplementsExchange` is the abstract specification as a property of
`Auctions.cfg`: every step of the engine, with all its loops, is one of its steps or
changes nothing it sees.  That no order is overfilled is then a theorem about the
abstract exchange, and that the engine is one is a theorem too (section 4).

## 4. Proofs

Proved for every set of ids, owners and prices, every configuration, every
bound and every set of orders and schedules.

*The functions* (`OrderBookProofs`, `EngineProofs`, `AccountProofs`):

- `AddGood`, `CancelGood`, `ModifyGood`, `ProcessGood`: they map good books and engines to
  such;
- `AddTidy`, `CancelTidy`, `ModifyTidy`, `FrontTidy`: what each does to the set of resting
  orders, and that locators and orders stay one to one;
- `ProcessTape`: the prints of `process`, those of its flush first, carry the next trade ids
  without a gap;
- `ProcessKept`: `process` neither duplicates an order nor lets one trade and keep
  more than it had.

*The machine* of `MatchingEngine` (`MatchingEngineProofs`):

- `MachineTypes`, `MachineNotCrossed`, `MachineBookSound`: it stays well typed, never crosses
  the book, and keeps every total exact and every locator at a level that holds its order;
- `MachineQueue`, `MachineFreezes`: the auction queue is empty outside calls, and until the
  announced end of a halt or an auction nothing prints;
- `MachineBookConsistent`, `MachineOnePlace`, `MachineLimits`: an order is in one place, where
  a cancel finds it; a print is within both limits;
- `MachineImplements`: it implements `Exchange`; with that
  `MachineNoOverfill` and `MachineClosedForGood`, which `ExchangeNoOverfill` and
  `ExchangeClosedForGood` prove of every exchange;
- `MachinePriority`, `MachineFifo`: matching never passes over an order that comes before the
  maker it trades with, and no order of a level overtakes another;
- `MachineReturns`: its calls return;
- `MachineNothingLost`, `MachineMarketToLimit`, `MachineFok`: a limit order is accounted for to the
  last share, what a market-to-limit order has not traded rests at its last price, a
  fill-or-kill order fills or does nothing;
- `MachineUncrosses`: an auction trades the largest volume, at one price.

*The session* around it (the same module): `SessionTypes`, `SessionNotCrossed`,
`SessionBooks`, `SessionNoOverfill`, `SessionReturns`, and, for schedules whose
trading-at-last is over when the closing auction may begin (`DayOrdered`), `SessionStaysClosed`
and `SessionUncrosses`: the closing auction trades the largest volume at one price and closes the
market for good.  The hypothesis is needed: a trading-at-last window that opens after the close
opens the market again, and one that opens in the closing auction ends it (`session.hpp:20-23`).

*The live world* (`LiveWorldProofs`), for any number of threads, any orders, any agents,
any `dt` and any sizes of the cache: `LiveTypes`, `LiveTape`, `LiveCurrent`, `LiveRests`,
`LiveClean`, `LiveNoEarlyEnd` and `LiveSeries`.  And the gateway over it, for any number of levels
and aggressors: `GatewayLadder` and `GatewaySweeps`.

*The world of agents* (`WorldProofs`), for any cast of makers and noise traders in any order, any
parameters of theirs, any `dt` and any horizon: `WorldTypes`, `WorldTape` and `WorldOverdue`; for
casts whose ids do not meet also `WorldLedger`, `WorldQuotes` and `WorldNoSelfTrade`.

*The replay* (`ReplayProofs`): `VectorInTime`, as long as the events of the vector are well typed, and
`ReplayInTime`, which shows that generated ones are.

The assumptions are those the modules name: ids are naturals, prices a finite
set of integers, `None` is no integer (`MarketAssumption`); the constants of the
machine have their types, no two orders of a behaviour have the same id, and the bounds on
arrivals and jumps are within the bound on time (`MachineAssumption`); times of a schedule
are naturals; agents and callers of a live world deal in ids of `Ids`, those it gives out
included (`CallAssumption`); a cast is a list of makers and noise traders (`WorldAssumption`).
Unique ids are an assumption on the callers: the engine checks
nothing, and `Replay` shows what becomes of a book when an id is used twice.

Some theorems have a hypothesis of their own, which TLC finds true of the instances where
it can:

- `LoopsSuffice` (`MachineReturns`, `SessionReturns`, and the outcomes of single orders): `MaxLoop` is at least the
  number of orders that can arrive, so it bounds no loop of the code.
- `CallsLast` (`MachineUncrosses`): halts and volatility auctions have a positive length, as
  the 5 s of `rules.hpp:62-69` are.  The engine reads an end of 0 as "no end".
- `DayOrdered` and `Prompt`: above and below.
- `ProperCasts` (`World`): owners are distinct and positive and there is at most one noise trader, whose
  ids count from 1 while a maker's start at its owner's span, as in the cast of `main.cpp:63-67`.
- `ProperGateway` (`Gateway`): the ids, prices and owners `main` uses are those of the instance, and the world has
  no agents of its own.
- `NamesApart` (in `ServedSpec`, `LiveWorldProofs`): a condition on the clients of the gateway, step by step.  A request may
  leave the id to the world or name one (`gateway_main.cpp:478`, from the id field of `app.js:497`); one that is named is not
  in the maker's span, no number of the gateway that is still to come, and no id of an order in use.  Any small
  number the user has not used before will do, and so will the id of an old request that is over.  The
  code does not enforce it, and needs it: a request that names the id of a quote breaks both theorems.
- `InRange`, `InSpan`: ids and prices have not left their range yet; a span is 2^32 ids in the code.
- `EventsFit`, `FlowFits` (`Replay`): the ids, owners and prices of the events are among those of
  the instance.

**Good books.**  "Never crossed" is not inductive.  `add_resting_limit` compares
with the best price, so it keeps the book uncrossed only if levels are where they
should be; a level disappears in matching when its `total_qty` is 0, so totals must
be the sums of their lists and the orders positive, or an emptied list would stay
and be quoted; `cancel` and `modify_qty` go through a locator, so an order with
that id must be at the place it names.  `GoodBook` is the conjunction: typed,
uncrossed, levels sound, locators led home.  The engine's queue, prices and times
must be typed for the uncrossing and the halt to produce such a book.  The invariant
`IInv` is `TypeOK` with `GoodBook`; the runs check its parts.

**Loops.**  The code's loops are recursive functions on Nat, and the library's
induction theorems cannot be instantiated here.  `OrderBookProofs` therefore proves
from the well-ordering of finite initial segments that a run exists for any steps on
a set X (`LoopRun`), so that the CHOOSE behind a recursive function
denotes it; it does the same for sums over a list and derives how
a removal, a replacement, an append or a new head changes the sum.  Then each loop
of the engine needs one lemma: a step maps its set of states to itself.

**Accounts.**  A good book may still hold an order twice, or orders without locators.
`Tidy` forbids both, and with it the book is a set `Resting` of orders, so that the functions
can be described by what they do to that set.  In the middle of a call orders are in three
places: the book, the queue, and the hands of the loop (the taker, a drained level, the rest of
an auction's queue).  `Honest` says of a moment that the three have no order in common,
that each order is what a known one has become (`Stems`: only a market order changes its
price), and that for every id what the call has printed so far and what is left of the order
are no more than its *room*, what it could trade when the call began.  Every step
of every loop keeps that; the guards that matter are those of the code: a fill takes the same
quantity off both sides, an emptied order leaves with its locator, a price is allowed by the limit.
Over calls, `Accounts` says that all held orders are in one place and stem from submitted
ones, and the terms of the next call are read from it; `History` keeps the sums
finite.  `AccountInv`, with `IInv`, is the inductive invariant of `BookConsistent`,
`OnePlace` and `LimitsRespected`.

**Priority.**  `KeepsOrder` says of two books that whatever is in a list of both has the same order in
both, apart from one newcomer, who is last; it composes, and each of a removal, a replacement and an
append keeps it.  `Served` adds to it what a matching has printed: the maker of a print was the front of
the best level of a book whose orders are the first book's less those that are gone, so
whoever came before it is gone.  A breaker that follows leaves no book, and
nothing can have been passed over in it.

**The ends of loops.**  Types and accounts hold of a loop wherever it is cut; what a call has achieved
needs that it ended.  With a tidy book each turn of the matching loop either empties the taker or takes an
order off the book: the front of the best level, or an own order, whose cancel finds it because its
locator leads home.  So as many turns as there are orders are enough (`LoopsSuffice`).
When the loop has ended, what is left of a limit order does not cross, `add_resting_limit` does not
refuse it, and `Honest`'s inequality of room becomes an equation: prints and what is left are the quantity,
and a halt's drain lists every order that rests.  `MachineNothingLost` and `MachineMarketToLimit` follow.
For `MachineFok` the liquidity counted by the scan is a sum of the lists of the levels whose price is
allowed; without self-trade prevention a fill takes the same off the taker and off this sum, so if the
sum was enough, a taker that has something left when the loop ends would leave something allowed on the
other side, and the loop would not have ended.

**Auctions.**  What a side offers at a price is a sum over the positions of the queue.  A pairing takes
the same off both sides and removes an order of one of them, so `Len(queue)` turns leave one side with nothing,
and the total of the prints is the smaller of the two sums, the executable volume (`UncrossTrades`).  The
clearing price is the best by three criteria in turn; a best one exists because the candidates are finite
(`ClearingBest`), and the first criterion is the volume.  It remains that the call that finds an
auction over does uncross: `Timed` says that a halt and an auction have an end and that the halt's is not
the later.  The prints of the flush are told from those of the call's own order by
their takers, who have been submitted before.  A closing auction has no halt in front of it, so
`SessionUncrosses` asks nothing of the configuration.

**The refinement.**  A step of the machine is a step of `Exchange` by four lemmas, one per
conjunct of its next-state relation.  `AccountedMaps`: what an order has traded in the call
and what `Live` counts of it afterwards, in book and queue, is at most what it had
(`ProcessKept`, with sums over the places an order can be at, of which there is one).
`TurnoverMaps`: every print adds the same to the sum over buyers and the sum over sellers, by
induction over the prints.  `ClockMoves`.  `SuspensionMaps`: from `MachineFreezes`' lemma, which
needs that without a session an engine is in one of three phases and that its queue
is empty in Continuous (`Calling`), or a flush in Continuous would leave orders behind.
`MachineNoOverfill` and `MachineClosedForGood` are proved of the engine directly, from
`AccountInv` and the first of these lemmas, and so hold under a session too, whose windows
may shorten a suspension and which therefore is no such exchange.

**The day.**  `ClosedIsFinal` needs to know that a closed market has an empty queue
and that neither window of the session can still begin: `DayInv` adds that the closing
auction and the close come only with `close_started`, which comes only at
`closing_start`.

**The tape.**  `OnTape(e, f, trades)` says of a call from engine `e` to `f` that its prints
have the ids from `next_trade_id` on.  It holds of each printing loop, and joining the prints of the flush
with those of the matching keeps it because the second list starts where the first ends.  The cache
then shows the last prints (`Recent`): pushing a list behind it and popping the oldest keeps
that, whatever the size of the cache.

**The live world.**  `RestMeansEnded` alone is not inductive: when `join()` returns and clears
`running_`, the worker must be gone.  `Control` adds why it is: a worker that has been told to stop
is awaited by its owner (`stop_` is set only by a call that then joins), and one that has left its
loop is awaited or beyond its horizon.  The second gives `CleanUnlessHorizon`.
`Data` is the invariant of engine and cache: a good engine, a cache with its last prints,
and ids of submissions that are in range because no more are given out than calls are
made.  `FirstRun` is about time: the clock stands still at 0 before the first start, is the
worker's time during a step and never ahead of it, and no time that a thread has read or that the
series ends with is ahead of the clock.  Every change of the engine and every point of the
series is then made with a time the clock has shown (`Driven`), and an engine leaves a
halt or an auction only in a call whose time is not before the end (`Waits`).  None
of this is true of a second run, which starts at 0 again while the engine keeps its ends;
the two properties say "the first run" for that reason.

**The gateway.**  An id is its owner's span and a number, distinct as long as no owner reaches the last
number of its span.  The invariant `GInv` says where orders are: each is in the book, in the queue, or in the
hands of one thread that has prepared it and waits for the mutex, and no id in use is one that will be
given out again (`Ahead`); an order with a number of its owner and one with an id that a request has named enter
by the same lemma (`PreparedOne`).  Of the maker it says that it cancels the ids it remembers in their order, so that a
quote that rests and has never been queued is among those it has still to cancel
(`ToCancel`).  Cancels of others only take orders away, and the breaker and the uncrossing
move only what is then in `queued`.  `LadderRemembered` reads the invariant while the maker works,
`ShutdownSweeps` when it has ended.

**The world.**  A step of `World::run` folds two lists, the actions of an agent over engine, accounts
and tape, and the trades of a call over the accounts.  `TradesBooked` and `ActionsExecuted` are the
loop lemma for lists: if the k-th member leads from X[k - 1] to X[k], the whole list leads from X[0] to
its last set.  The invariant is that the state an agent finds is typed, has the tape of its engine
(`Taped`, from `OnTape` of each call) and is in time (`Timely`).  `Timely` is what makes
`NothingOverdue` inductive: it adds that a halt ends no later than the auction behind it, and at
the start of a step it speaks of the step before, since only the flush that comes next ends what has run out.
That flush may be late by `dt` and counts the halt that its prints trigger from the end of the auction
(`Clocked`: a print carries the time of its call or of its auction's end), so a halt must last
at least `dt`; with `vol_auction_duration_ns` of 0 an auction would be over when it starts, until the
next call flushes it.  Both are the hypothesis `Prompt` of `WorldOverdue`, which the configurations of
`World.cfg` satisfy.  All theorems about the world speak of the states in which every order sent so far is in the range
of `Order` (`InRange`): the agents compute ids and prices without bound, as the code does up to the width of
its integers, and what comes after an id or a price has left it is not modelled.  `World.cfg` checks, as
a part of `WorldTypeOK`, that nothing there leaves it.

`LedgerExact` compares the accounts with an audit of the tape against `sent`.  It needs that an order that prints is known
by the owner it was sent with: that what the engine holds has been sent, that no two sent orders
share an id (`ProperCasts`, `InSpan`), and that the ledger has met every owner.  `KeptWorlds` carries the
first through the turns of the agents, with `ProcessKept` for each call; adding the cash and
position of one print to the audit is then the same as booking it.

`QuotesReplaced` and `NoMakerSelfTrade` are about worlds in which neither bands nor the breaker are on.  There every
configuration stays in Continuous with an empty queue, so a cancel finds whatever is left of an old quote
(`CalmWorlds`: an order of a maker rests only if it is one of the two ids it remembers).  Old
quotes are cancelled before the new ones come, the new ask is above the new bid, and owners
are distinct, so that a maker cannot meet itself.

**The replay.**  `Sorted` is a permutation in the order of times.  The invariant `InTime` says that what is to
be replayed is sorted and not before the clock, that the tape is sorted and not after it, and that a pending
uncrossing will carry a time no earlier than the tape's: an auction prints with its end for a time
(`Punctual`).  A call then prints between the last print's time and its own.

**Only model-checked.**  `SelfTradeAtFloor` of `Gateway`, `ReuseOrphans` and `FlowRests` of `Replay`, and the
expected violations of section 5.  `CallEnds`, `DayEnds`, `WorkerEnds` and `ExitEnds` are liveness under fairness, which is out
of the prover's reach, as are ENABLED and what a recursive definition computes for every input.

## 5. Where code and documentation disagree

Each is a violation run of one property that states the quoted line.

| Run | Quoted | What happens |
|---|---|---|
| `FokAtomic.cfg` | README.md:52 "FOK: atomic" | with self-trade prevention the pre-check counts the taker's own orders; it fills partially |
| `UncrossKeeps.cfg` | matching_engine.cpp:292 "Restock leftover" | a limit order that crosses the book left in place by a volatility auction is neither traded nor rested |
| `NoRetrigger.cfg` | matching_engine.cpp:90 "won't re-trigger here" | the phase was set to Continuous five lines before; the reopening print halts again |
| `StaleQuotes.cfg` | market_maker.cpp:29 "cancel old quotes (if any)" | cancels look only at the book: a quote that waits in the auction queue survives, its id is forgotten, and it can rest and trade beside the new ones |
| `HaltReopens.cfg` | README.md:88 "expires into a reopening auction" | trading-at-last starting in a halt cancels the reopening |

`CleanUnlessHorizon` in `Live.cfg` fences in a surprise that contradicts no line of the docs:
the worker that reaches its horizon clears `running_` by itself, `stop()` then
returns without joining, and destroying the object or starting it again ends the
process.  The property says that this is the only way to it.

Others were met while translating and have no run of their own.
matching_engine.cpp:342 says "Trading-at-Last: only trade at last trade price": the
order is repriced to the last price, but it prints at a better maker's.  README.md:168
says "To stop the gateway cleanly, type `quit`": one that is read before `listen()` is
lost, and if the worker has come to its horizon before, the process ends by
`std::terminate`.  README.md:51
says of IOC orders "remainder canceled", but one that is queued in an auction or
a halt rests after the uncrossing.  order.hpp:28 says that `is_valid_order` is
used by the rules and the engine, but nobody calls it: limit prices of 0
and below are accepted.

## 6. Plan

Done, in this order: types, book, rules, engine; the machine with its runs; the
session; good books; the world with its ledger and agents; the live
world; the abstract exchange and the refinement; the gateway over the live world; the
generator and the simulator, with reused ids; as theorems, the accounts, the refinement, the session's
day, the live world, the tape, the clock, the ledger and the quotes of the world of agents, the tape of
the replay, the ladder and the sweep of the gateway, priority, the outcomes of orders and the
volume of auctions.  To come, most important first:

1. Proofs: `FlowRests`, which needs the widths of bands and placement against each other, and
   `ReuseOrphans`, which needs the engine's functions over books that are not tidy.
2. The scans (`compute_clearing_price`, the early exit of
   `available_liquidity`) against the loops of the code over bounded inputs.
3. A world whose user drives a session: the trades of the session's flush are
   discarded (`session.hpp:30`).  No caller in the repository does so.

## 7. Not modelled, and why

`Rng` and seeds: every random draw is a choice.  HTTP, JSON, CSV, the
command line and the browser UI are input and output; the GET handlers of the gateway
read the cache of the live world.  Fixed-width overflow of quantities and
prices is listed as a hazard and not modelled.
