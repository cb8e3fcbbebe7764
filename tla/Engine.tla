------------------------------- MODULE Engine -------------------------------
(***************************************************************************)
(* class MatchingEngine (src/matching_engine.cpp) as a value and one       *)
(* operator per member function.  A loop of the code is Iterate over one   *)
(* step of it.  The matching loops have no syntactic bound: they run       *)
(* MaxLoop times here, and an engine whose loop has not ended by then is   *)
(* marked spinning (the call does not return).                             *)
(***************************************************************************)
EXTENDS OrderBook, Rules

CONSTANT MaxLoop  \* bound on the iterations of one matching loop

ASSUME MaxLoopAssumption == MaxLoop \in Nat

(* The type of an engine. *)
IsEngine(e) ==
  /\ e \in [book : {e.book}, cfg : RulesConfig, phase : Phases,
            last : Prices \cup {None}, next_trade_id : Nat, queue : Seq(Order),
            auction_end : Int, tal_end : Int, cb_ref : Prices \cup {None},
            halt_end : Int, reopen_end : Int, spinning : BOOLEAN]
  /\ IsBook(e.book)

(* A default-constructed engine with configuration cfg. *)
NewEngine(cfg) ==
  [book |-> EmptyBook, cfg |-> cfg, phase |-> "Continuous", last |-> None,
   next_trade_id |-> 1, queue |-> <<>>, auction_end |-> 0, tal_end |-> 0,
   cb_ref |-> None, halt_end |-> 0, reopen_end |-> 0, spinning |-> FALSE]

StartTradingAtLast(eng, end) ==
  [eng EXCEPT !.tal_end = end, !.phase = "TradingAtLast"]

StartClosingAuction(eng, end) ==
  [eng EXCEPT !.auction_end = end, !.phase = "ClosingAuction"]

(* Mutant: no guard on an empty list, the last price is reset. *)
OnTradesUnguarded(eng, trades) ==
  [eng EXCEPT !.last = IF trades = <<>> THEN 0 ELSE Last(trades).price]

(* RuleSet::on_trades *)
OnTrades(eng, trades) ==
  IF trades = <<>> THEN eng ELSE [eng EXCEPT !.last = Last(trades).price]

----------------------------------------------------------------------------
(* Circuit breaker *)

(* The side's orders, best level first, in time order within a level. *)
DrainStep(d) ==
  LET best == Best([levels |-> [s \in Sides |-> d.side_levels]], d.side)
  IN  IF best = None THEN d
      ELSE [d EXCEPT !.orders = d.orders \o d.side_levels[best].q,
                     !.side_levels = Erase(d.side_levels, best)]

Drained(book, side) ==
  Iterate(DrainStep,
          [side |-> side, side_levels |-> book.levels[side], orders |-> <<>>],
          Cardinality(DOMAIN book.levels[side])).orders

(* Mutants of the halt: the locators are not cleared, the book is not cleared,
   auction_end_ts_ is not set. *)
HaltKeepsLocators(eng, ts) ==
  [eng EXCEPT !.phase = "Halted", !.halt_end = ts + eng.cfg.halt,
              !.reopen_end = ts + eng.cfg.halt + eng.cfg.reopen,
              !.auction_end = ts + eng.cfg.halt + eng.cfg.reopen,
              !.queue = eng.queue \o Drained(eng.book, "Buy") \o Drained(eng.book, "Sell"),
              !.book = [levels |-> EmptyBook.levels, loc |-> eng.book.loc]]
HaltKeepsBook(eng, ts) ==
  [HaltKeepsLocators(eng, ts) EXCEPT !.book = eng.book]
HaltNoAuctionEnd(eng, ts) ==
  [HaltKeepsLocators(eng, ts) EXCEPT !.book = EmptyBook, !.auction_end = 0]

Halt(eng, ts) ==
  LET halt_end == ts + eng.cfg.halt
  IN  [eng EXCEPT !.phase = "Halted",
                  !.halt_end = halt_end,
                  !.reopen_end = halt_end + eng.cfg.reopen,
                  !.auction_end = halt_end + eng.cfg.reopen,
                  !.queue = eng.queue \o Drained(eng.book, "Buy")
                                      \o Drained(eng.book, "Sell"),
                  !.book = EmptyBook]

MaybeTriggerCircuitBreaker(eng, trades) ==
  IF ~eng.cfg.breaker \/ trades = <<>> \/ eng.phase # "Continuous" THEN eng
  ELSE LET ref   == IF eng.cb_ref = None THEN Head(trades).price ELSE eng.cb_ref
           armed == [eng EXCEPT !.cb_ref = ref]
       IN  IF Last(trades).price > MulDivBps(ref, 10000 - eng.cfg.drop_bps)
           THEN armed
           ELSE Halt(armed, Last(trades).ts)

----------------------------------------------------------------------------
(* Auction *)

QueueInAuction(eng, o) == [eng EXCEPT !.queue = Append(eng.queue, o)]

ReferencePrice(eng) ==
  IF eng.last # None THEN eng.last
  ELSE MidPrice(Best(eng.book, "Buy"), Best(eng.book, "Sell"))

(* Mutant: sells are tested as if they were buys. *)
EligibleAsBuy(o, px) == o.type = "Market" \/ Allows("Buy", o.price, px)

(* Would order o of the queue execute at price px? *)
Eligible(o, px) == o.type = "Market" \/ Allows(o.side, o.price, px)

SideVolume(queue, side, px) ==
  SumFunctionOnSet([i \in DOMAIN queue |-> queue[i].qty],
                   {i \in DOMAIN queue : queue[i].side = side /\ Eligible(queue[i], px)})

ExecutableVolumeAt(queue, px) ==
  Smaller(SideVolume(queue, "Buy", px), SideVolume(queue, "Sell", px))

Distance(a, b) == IF a >= b THEN a - b ELSE b - a

(* Mutant: nearness to the reference price decides first. *)
NearestFirst(queue, ref, a, b) ==
  LET va == ExecutableVolumeAt(queue, a)
      vb == ExecutableVolumeAt(queue, b)
      da == IF ref = None THEN 0 ELSE Distance(a, ref)
      db == IF ref = None THEN 0 ELSE Distance(b, ref)
  IN  \/ da < db
      \/ da = db /\ va > vb
      \/ da = db /\ va = vb /\ a <= b

(* Is a the clearing price the scan prefers to b?  The largest volume wins,
   then the price nearest the reference, then the lower price. *)
Preferred(queue, ref, a, b) ==
  LET va == ExecutableVolumeAt(queue, a)
      vb == ExecutableVolumeAt(queue, b)
      da == IF ref = None THEN 0 ELSE Distance(a, ref)
      db == IF ref = None THEN 0 ELSE Distance(b, ref)
  IN  \/ va > vb
      \/ va = vb /\ da < db
      \/ va = vb /\ da = db /\ a <= b

LimitPrices(queue) ==
  {queue[i].price : i \in {k \in DOMAIN queue : queue[k].type = "Limit"}}

ComputeClearingPrice(eng) ==
  LET candidates == LimitPrices(eng.queue)
      ref  == ReferencePrice(eng)
      best == {p \in candidates :
                 /\ ExecutableVolumeAt(eng.queue, p) > 0
                 /\ \A q \in candidates : Preferred(eng.queue, ref, p, q)}
  IN  IF best = {} THEN None ELSE CHOOSE p \in best : TRUE

(* The queue positions in S in the order std::sort gives them: every ts is
   the uncrossing time by then, so the order is by id. *)
First(queue, S) ==
  CHOOSE i \in S : \A j \in S : \/ queue[i].id < queue[j].id
                                \/ queue[i].id = queue[j].id /\ i <= j

(* One trade between the first buy and the first sell with quantity left. *)
PairStep(px, ts, u) ==
  LET open(side) == {i \in DOMAIN u.queue : /\ u.queue[i].side = side
                                            /\ Eligible(u.queue[i], px)
                                            /\ u.queue[i].qty > 0}
      b == First(u.queue, open("Buy"))
      s == First(u.queue, open("Sell"))
      q == Smaller(u.queue[b].qty, u.queue[s].qty)
      fill(i) == [u.queue[i] EXCEPT !.qty = u.queue[i].qty - q]
      trade == [id |-> u.next, ts |-> ts, price |-> px, qty |-> q,
                maker |-> u.queue[s].id, taker |-> u.queue[b].id]
  IN  IF open("Buy") = {} \/ open("Sell") = {} THEN u
      ELSE [queue |-> [i \in DOMAIN u.queue |->
                         IF i \in {b, s} THEN fill(i) ELSE u.queue[i]],
            trades |-> Append(u.trades, trade), next |-> u.next + 1]

Paired(eng, px, ts) ==
  LET Step(u) == PairStep(px, ts, u)
  IN  Iterate(Step, [queue |-> eng.queue, trades |-> <<>>, next |-> eng.next_trade_id],
              Len(eng.queue))

(* for (o : S) (void)book_.add_resting_limit(o); by_id: in the sorted order,
   otherwise in queue order.  An order the book refuses is gone. *)
RestockStep(queue, by_id, r) ==
  LET i == IF by_id THEN First(queue, r.todo)
           ELSE CHOOSE k \in r.todo : \A j \in r.todo : k <= j
  IN  IF r.todo = {} THEN r
      ELSE [todo |-> r.todo \ {i}, book |-> AddRestingLimit(r.book, queue[i]).book]

Restock(book, queue, S, by_id) ==
  LET Step(r) == RestockStep(queue, by_id, r)
  IN  Iterate(Step, [todo |-> S, book |-> book], Len(queue)).book

LimitsLeft(queue) ==
  {i \in DOMAIN queue : queue[i].type = "Limit" /\ queue[i].qty > 0}

(* The leftovers of the paired queue go back to the book: the eligible buys,
   the eligible sells, then the rest. *)
Leftovers(eng, px, u) ==
  LET left(side) == {i \in LimitsLeft(u.queue) : /\ u.queue[i].side = side
                                                 /\ Eligible(u.queue[i], px)}
      others == LimitsLeft(u.queue) \ (left("Buy") \cup left("Sell"))
      book1 == Restock(eng.book, u.queue, left("Buy"), TRUE)
      book2 == Restock(book1, u.queue, left("Sell"), TRUE)
      book3 == Restock(book2, u.queue, others, FALSE)
  IN  [eng |-> [eng EXCEPT !.book = book3, !.queue = <<>>, !.next_trade_id = u.next],
       trades |-> u.trades]

(* uncross_auction when there is a clearing price *)
UncrossAt(eng, px, ts) == Leftovers(eng, px, Paired(eng, px, ts))

UncrossAuction(eng, ts) ==
  LET px == ComputeClearingPrice(eng)
  IN  IF px # None THEN UncrossAt(eng, px, ts)
      ELSE [eng |-> [eng EXCEPT !.book = Restock(eng.book, eng.queue,
                                                 LimitsLeft(eng.queue), FALSE),
                                !.queue = <<>>],
            trades |-> <<>>]

----------------------------------------------------------------------------
(* Matching: match_buy and match_sell, which mirror each other *)

(* The condition of the loop: something to match, and at an allowed price. *)
CanMatch(m) ==
  LET best == Best(m.book, Opposite(m.taker.side))
  IN  /\ m.taker.qty > 0
      /\ best # None
      /\ m.taker.type = "Limit" => Allows(m.taker.side, m.taker.price, best)

(* The taker trades with the maker at the front of the best level. *)
Fill(m, ts) ==
  LET side  == Opposite(m.taker.side)
      px    == Best(m.book, side)
      level == m.book.levels[side][px]
      maker == Head(level.q)
      q     == Smaller(m.taker.qty, maker.qty)
      left  == [maker EXCEPT !.qty = maker.qty - q]
      rest  == [q |-> IF left.qty = 0 THEN Tail(level.q) ELSE <<left>> \o Tail(level.q),
                total_qty |-> level.total_qty - q]
      trade == [id |-> m.next, ts |-> ts, price |-> px, qty |-> q,
                maker |-> maker.id, taker |-> m.taker.id]
  IN  [book |-> [levels |-> IF rest.total_qty = 0 THEN DropLevel(m.book, side, px)
                            ELSE SetLevel(m.book, side, px, rest),
                 loc |-> IF left.qty = 0 THEN Erase(m.book.loc, maker.id)
                         ELSE m.book.loc],
       taker |-> [m.taker EXCEPT !.qty = m.taker.qty - q],
       trades |-> Append(m.trades, trade),
       next |-> m.next + 1]

(* One iteration of the loop. *)
MatchStep(stp, ts, m) ==
  LET side  == Opposite(m.taker.side)
      px    == Best(m.book, side)
      front == m.book.levels[side][px].q
      own   == stp # "None" /\ Head(front).owner = m.taker.owner
  IN  IF ~CanMatch(m) THEN m
      ELSE IF front = <<>>
      THEN [m EXCEPT !.book = [levels |-> DropLevel(m.book, side, px), loc |-> m.book.loc]]
      ELSE IF own /\ stp = "CancelTaker" THEN [m EXCEPT !.taker = [m.taker EXCEPT !.qty = 0]]
      ELSE IF own THEN [m EXCEPT !.book = Cancel(m.book, Head(front).id).book]
      ELSE Fill(m, ts)

Match(eng, o, ts) ==
  LET Step(m) == MatchStep(eng.cfg.stp, ts, m)
  IN  Iterate(Step, [book |-> eng.book, taker |-> o, trades |-> <<>>,
                     next |-> eng.next_trade_id], MaxLoop)

AfterMatch(eng, m) ==
  [eng EXCEPT !.book = m.book, !.next_trade_id = m.next,
              !.spinning = eng.spinning \/ CanMatch(m)]

(* What is left of the taker is put to rest, if the book takes it. *)
RestLeft(eng, m, left) ==
  LET add == AddRestingLimit(m.book, left)
  IN  [eng |-> AfterMatch(eng, [m EXCEPT !.book = add.book]), trades |-> m.trades,
       resting |-> IF add.ok THEN left ELSE None]

Unrested(eng, m) ==
  [eng |-> AfterMatch(eng, m), trades |-> m.trades, resting |-> None]

(* Mutants: the remainder rests at the first price of the sweep; the remainder
   of a partial fill is forgotten. *)
MarketToFirstPrice(eng, o, ts) ==
  LET m == Match(eng, o, ts)
  IN  IF o.style = "MarketToLimit" /\ m.taker.qty > 0 /\ m.trades # <<>>
      THEN RestLeft(eng, m, [m.taker EXCEPT !.type = "Limit", !.tif = "GTC",
                               !.price = Head(m.trades).price, !.style = "PureMarket"])
      ELSE Unrested(eng, m)
LimitForgetsRest(eng, o, ts) ==
  LET m == Match(eng, o, ts)
  IN  IF o.tif # "IOC" /\ m.trades = <<>> THEN RestLeft(eng, m, m.taker)
      ELSE Unrested(eng, m)

ProcessMarket(eng, o, ts) ==
  LET m == Match(eng, o, ts)
  IN  IF o.style = "MarketToLimit" /\ m.taker.qty > 0 /\ m.trades # <<>>
      THEN RestLeft(eng, m, [m.taker EXCEPT !.type = "Limit", !.tif = "GTC",
                               !.price = Last(m.trades).price, !.style = "PureMarket"])
      ELSE Unrested(eng, m)

ProcessLimit(eng, o, ts) ==
  LET m == Match(eng, o, ts)
  IN  IF o.tif # "IOC" /\ m.taker.qty > 0 THEN RestLeft(eng, m, m.taker)
      ELSE Unrested(eng, m)

(* Mutant: levels beyond the limit are counted. *)
AllLiquidity(book, o) ==
  LET side == Opposite(o.side)
  IN  MapThenSumSet(LAMBDA p : QtyOf(book.levels[side][p].q), DOMAIN book.levels[side])

(* The scan stops once it has seen enough; only "is it enough" is used. *)
AvailableLiquidity(book, o) ==
  LET side == Opposite(o.side)
      px == {p \in DOMAIN book.levels[side] :
               o.type = "Limit" => Allows(o.side, o.price, p)}
  IN  MapThenSumSet(LAMBDA p : QtyOf(book.levels[side][p].q), px)

----------------------------------------------------------------------------
(* Volatility interruption *)

FirstExecutionPrice(book, o) ==
  LET best == Best(book, Opposite(o.side))
  IN  IF best = None THEN None
      ELSE IF o.type = "Market" \/ Allows(o.side, o.price, best) THEN best ELSE None

ShouldTriggerVolatilityAuction(eng, o) ==
  LET exec == FirstExecutionPrice(eng.book, o)
      ref  == ReferencePrice(eng)
  IN  /\ eng.cfg.volatility
      /\ eng.phase = "Continuous"
      /\ exec # None
      /\ ref # None
      /\ BreachesBand(eng.cfg, exec, ref)

----------------------------------------------------------------------------
(* flush and process *)

ExpireTradingAtLast(eng, ts) ==
  IF eng.phase = "TradingAtLast" /\ eng.tal_end > 0 /\ ts >= eng.tal_end
  THEN [eng EXCEPT !.phase = "Continuous"] ELSE eng

(* Mutant: a halt expires into continuous trading. *)
HaltResumes(eng, ts) ==
  IF eng.phase = "Halted" /\ eng.halt_end > 0 /\ ts >= eng.halt_end
  THEN [eng EXCEPT !.phase = "Continuous"] ELSE eng

ExpireHalt(eng, ts) ==
  IF eng.phase = "Halted" /\ eng.halt_end > 0 /\ ts >= eng.halt_end
  THEN [eng EXCEPT !.phase = "Auction"] ELSE eng

(* Mutants: the end of the auction is not awaited, or missed by one; a closed
   market is treated like an auction. *)
AuctionDueEarly(eng, ts) ==
  eng.phase \in {"Auction", "ClosingAuction"} /\ eng.auction_end > 0
AuctionDueLate(eng, ts) ==
  /\ eng.phase \in {"Auction", "ClosingAuction"}
  /\ eng.auction_end > 0 /\ ts > eng.auction_end
AuctionDueClosed(eng, ts) ==
  /\ eng.phase \in {"Auction", "ClosingAuction", "Closed"}
  /\ eng.auction_end > 0 /\ ts >= eng.auction_end

AuctionDue(eng, ts) ==
  /\ eng.phase \in {"Auction", "ClosingAuction"}
  /\ eng.auction_end > 0 /\ ts >= eng.auction_end

(* u is the outcome of the uncrossing. *)
EndAuction(eng, u) ==
  LET next == [u.eng EXCEPT !.phase = IF eng.phase = "ClosingAuction" THEN "Closed"
                                      ELSE "Continuous"]
  IN  [eng |-> MaybeTriggerCircuitBreaker(OnTrades(next, u.trades), u.trades),
       trades |-> u.trades]

ExpireAuction(eng, ts) ==
  IF AuctionDue(eng, ts) THEN EndAuction(eng, UncrossAuction(eng, eng.auction_end))
  ELSE [eng |-> eng, trades |-> <<>>]

Flush(eng, ts) == ExpireAuction(ExpireHalt(ExpireTradingAtLast(eng, ts), ts), ts)

(* MatchResult; filled_qty is FilledQty of its trades.  The trades of the
   flush come first: process() returns them to the next caller. *)
Result(eng, trades, resting, status) ==
  [eng |-> eng, trades |-> trades, resting |-> resting, status |-> status]

FilledQty(trades) == QtyOf(trades)

(* The part of it that is order id's. *)
TradedBy(id, trades) ==
  QtyOf([k \in DOMAIN trades |->
           [qty |-> IF id \in {trades[k].maker, trades[k].taker} THEN trades[k].qty ELSE 0]])

(* The end of process(): r is the outcome of the matching. *)
Settled(flushed, r) ==
  LET trades == flushed \o r.trades
  IN  Result(MaybeTriggerCircuitBreaker(OnTrades(r.eng, trades), trades),
             trades, r.resting, "Accepted")

ProcessTradingAtLast(eng, flushed, o, ts) ==
  IF eng.last = None THEN Result(eng, flushed, None, "NoReferencePrice")
  ELSE IF o.type = "Limit" /\ o.price # eng.last
  THEN Result(eng, flushed, None, "PriceNotAtLast")
  ELSE Settled(flushed, ProcessLimit(eng, [o EXCEPT !.type = "Limit", !.price = eng.last], ts))

ProcessContinuous(eng, flushed, o, ts) ==
  IF ShouldTriggerVolatilityAuction(eng, o)
  THEN Result(QueueInAuction([eng EXCEPT !.phase = "Auction",
                                         !.auction_end = ts + eng.cfg.vol_auction], o),
              flushed, None, "Accepted")
  ELSE IF o.tif = "FOK" /\ AvailableLiquidity(eng.book, o) < o.qty
  THEN Settled(flushed, [eng |-> eng, trades |-> <<>>, resting |-> None])
  ELSE Settled(flushed, IF o.type = "Market" THEN ProcessMarket(eng, o, ts)
                        ELSE ProcessLimit(eng, o, ts))

(* process() after its flush, whose outcome is f. *)
ProcessFlushed(f, o, ts) ==
  LET eng    == f.eng
      status == PreAccept(eng.cfg, eng.phase, o)
  IN  IF status # "Accepted" THEN Result(eng, f.trades, None, status)
      ELSE CASE eng.phase = "Closed" -> Result(eng, f.trades, None, "Accepted")
             [] eng.phase = "Halted" ->
                  IF eng.cfg.queue_halt
                  THEN Result(QueueInAuction(eng, o), f.trades, None, "Accepted")
                  ELSE Result(eng, f.trades, None, "MarketHalted")
             [] eng.phase = "TradingAtLast" -> ProcessTradingAtLast(eng, f.trades, o, ts)
             [] eng.phase \in {"Auction", "ClosingAuction"} ->
                  Result(QueueInAuction(eng, o), f.trades, None, "Accepted")
             [] eng.phase = "Continuous" -> ProcessContinuous(eng, f.trades, o, ts)

Process(eng, o, ts) == ProcessFlushed(Flush(eng, ts), o, ts)
=============================================================================
