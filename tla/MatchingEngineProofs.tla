------------------------ MODULE MatchingEngineProofs ------------------------
(***************************************************************************)
(* The invariants of the engine as theorems of the specifications, with    *)
(* and without a session controller, for every set of orders, schedules,   *)
(* configurations, prices and times.                                       *)
(*                                                                         *)
(* NotCrossed and BookSound are not inductive by themselves: whether a     *)
(* step keeps them depends on the types of every field the engine reads,   *)
(* the queue of the auction included, and on each other (a level is erased *)
(* when its total_qty says so, an order is found through its locator).     *)
(* GoodBook puts them together, and the type invariant completes it.       *)
(*                                                                         *)
(* Then the accounts: what one call does to them (AccountProofs) is put    *)
(* together to invariants of any sequence of calls, and the engine is shown*)
(* to implement the abstract exchange.                                     *)
(*                                                                         *)
(* Last comes what single calls achieve: matching keeps to price and time, *)
(* its loop ends, and with that an order is accounted for exactly, market- *)
(* to-limit and fill-or-kill orders come out as they should, and an auction*)
(* trades the largest volume there is.                                     *)
(***************************************************************************)
EXTENDS Session, AccountProofs

(* The inductive invariant. *)
IInv == TypeOK /\ GoodBook(eng.book)

(* It contains the invariants of the runs. *)
LEMMA Contained == IInv => TypeOK /\ NotCrossed /\ BookSound
<1>1. SUFFICES ASSUME IInv PROVE NotCrossed /\ BookSound
  BY DEF IInv
<1> DEFINE book == eng.book
<1>2. GoodBook(book) /\ IsBook(book)
  BY <1>1 DEF IInv, GoodBook
<1>3. NotCrossed
  BY <1>2 DEF GoodBook, Uncrossed, NotCrossed
<1>4. ASSUME NEW s \in Sides, NEW p \in DOMAIN book.levels[s]
      PROVE LET level == book.levels[s][p]
            IN  /\ level.total_qty = QtyOf(level.q)
                /\ \A k \in DOMAIN level.q : level.q[k].qty > 0
  <2> DEFINE level == book.levels[s][p]
  <2>1. Sound(level)
    BY <1>2 DEF GoodBook, LevelsSound
  <2>2. level.q \in Seq(Order)
    BY <1>2, BookParts DEF IsMap, Level
  <2> HIDE DEF level
  <2>3. DOMAIN level.q = 1 .. Len(level.q)
    BY <2>2, LenProperties
  <2>4. QED BY <2>1, <2>3 DEF Sound, level
<1>5. ASSUME NEW id \in DOMAIN book.loc
      PROVE LET at == book.loc[id]
            IN  /\ at.price \in DOMAIN book.levels[at.side]
                /\ \E k \in DOMAIN book.levels[at.side][at.price].q :
                     book.levels[at.side][at.price].q[k].id = id
  <2> DEFINE at == book.loc[id]
             level == book.levels[at.side][at.price]
  <2>1. at.price \in DOMAIN book.levels[at.side] /\ Holds(level, id)
    BY <1>2 DEF GoodBook, Located
  <2>2. at.side \in Sides
    <3>1. IsMap(book.loc, Ids, Locator) BY <1>2 DEF IsBook
    <3> HIDE DEF book
    <3>2. book.loc[id] \in Locator BY <3>1 DEF IsMap
    <3>3. QED BY <3>2 DEF Locator
  <2>3. level.q \in Seq(Order)
    BY <1>2, <2>1, <2>2, BookParts DEF IsMap, Level
  <2> HIDE DEF level
  <2>4. DOMAIN level.q = 1 .. Len(level.q)
    BY <2>3, LenProperties
  <2>5. QED BY <2>1, <2>4 DEF Holds, level
<1>6. BookSound
  BY <1>4, <1>5 DEF BookSound
<1>7. QED BY <1>3, <1>6

(* The initial states satisfy it. *)
LEMMA InitGood == Init => IInv
<1>1. SUFFICES ASSUME Init PROVE IInv
  OBVIOUS
<1>2. PICK cfg \in Configs : eng = NewEngine(cfg)
  BY <1>1 DEF Init
<1>3. GoodEngine(eng)
  BY <1>2, NewEngineGood, MachineAssumption
<1>4. out.trades = <<>> /\ out.call = "none" /\ out.order = None /\ out.status = "Accepted"
  BY <1>1 DEF Init, Quiet
<1>5. <<>> \in Seq(Trade)
  OBVIOUS
<1>6. now \in Int /\ submitted \subseteq Incoming
  BY <1>1 DEF Init
<1>7. QED BY <1>3, <1>4, <1>5, <1>6 DEF IInv, TypeOK, GoodEngine, Statuses

(* Every time a caller may use is an integer. *)
LEMMA TimesInt ==
  ASSUME NEW last, NEW ts \in Times(last)
  PROVE ts \in Int
BY DEF Times

(* process *)
LEMMA SubmitKeeps ==
  ASSUME IInv, NEW o \in Incoming, NEW ts \in Int, Submit(o, ts)
  PROVE IInv'
<1> DEFINE r == Process(eng, o, ts)
<1>1. o \in Order
  BY MachineAssumption
<1>2. GoodResult(r)
  BY <1>1, ProcessGood DEF IInv, TypeOK, GoodEngine
<1>3. /\ eng' = r.eng /\ now' = ts /\ submitted' = submitted \cup {o}
      /\ out'.call = "submit" /\ out'.order = o
      /\ out'.trades = r.trades /\ out'.status = r.status
  BY DEF Submit, Submitted
<1> HIDE DEF r
<1>4. QED BY <1>2, <1>3 DEF IInv, TypeOK, GoodResult, GoodOutcome, GoodEngine

(* flush *)
LEMMA AdvanceKeeps ==
  ASSUME IInv, NEW ts \in Int, Advance(ts)
  PROVE IInv'
<1> DEFINE f == Flush(eng, ts)
<1>1. GoodOutcome(f)
  BY FlushGood DEF IInv, TypeOK, GoodEngine
<1>2. /\ eng' = f.eng /\ now' = ts /\ submitted' = submitted
      /\ out'.call = "advance" /\ out'.order = None
      /\ out'.trades = f.trades /\ out'.status = "Accepted"
  BY DEF Advance, Flushed, Quiet
<1> HIDE DEF f
<1>3. QED BY <1>1, <1>2 DEF IInv, TypeOK, GoodOutcome, GoodEngine, Statuses

(* book_mut() and what the caller does with it. *)
LEMMA BookKeeps ==
  ASSUME IInv, NEW b, GoodBook(b), NEW call \in {"cancel", "modify"},
         eng' = [eng EXCEPT !.book = b], out' = Quiet(call),
         now' = now, submitted' = submitted
  PROVE IInv'
<1>1. GoodEngine([eng EXCEPT !.book = b])
  <2>1. GoodEngine(eng) BY DEF IInv, TypeOK, GoodEngine
  <2>2. <<>> \in Seq(Order) OBVIOUS
  <2>3. QED BY <2>1, <2>2, SetBook
<1>2. out'.trades = <<>> /\ out'.call = call /\ out'.order = None /\ out'.status = "Accepted"
  BY DEF Quiet
<1>3. <<>> \in Seq(Trade)
  OBVIOUS
<1>4. QED BY <1>1, <1>2, <1>3 DEF IInv, TypeOK, GoodEngine, Statuses

(* cancel *)
LEMMA CancelKeeps ==
  ASSUME IInv, NEW id, CancelOrder(id)
  PROVE IInv'
<1> DEFINE b == Cancel(eng.book, id).book
<1>1. GoodBook(b)
  BY CancelGood DEF IInv
<1>2. eng' = [eng EXCEPT !.book = b] /\ out' = Quiet("cancel") /\ now' = now /\ submitted' = submitted
  BY DEF CancelOrder
<1> HIDE DEF b
<1>3. QED BY <1>1, <1>2, BookKeeps

(* modify_qty *)
LEMMA ModifyKeeps ==
  ASSUME IInv, NEW id, NEW n \in Int, ModifyOrder(id, n)
  PROVE IInv'
<1> DEFINE b == ModifyQty(eng.book, id, n).book
<1>1. GoodBook(b)
  BY ModifyGood DEF IInv
<1>2. eng' = [eng EXCEPT !.book = b] /\ out' = Quiet("modify") /\ now' = now /\ submitted' = submitted
  BY DEF ModifyOrder
<1> HIDE DEF b
<1>3. QED BY <1>1, <1>2, BookKeeps

(* A step that changes none of the variables. *)
LEMMA StutterKeeps == IInv /\ UNCHANGED vars => IInv'
BY DEF IInv, TypeOK, vars

(* Every step of the machine keeps the invariant. *)
LEMMA NextKeeps == IInv /\ [Next]_vars => IInv'
<1>1. SUFFICES ASSUME IInv, [Next]_vars PROVE IInv'
  OBVIOUS
<1>2. ASSUME NEW o \in Incoming, NEW ts \in Times(LastArrival), Submit(o, ts) PROVE IInv'
  BY <1>1, <1>2, TimesInt, SubmitKeeps
<1>3. ASSUME NEW ts \in Times(LastJump), Advance(ts) PROVE IInv'
  BY <1>1, <1>3, TimesInt, AdvanceKeeps
<1>4. CASE Tick
  <2>1. Smaller(now + 1, MaxTs) \in Int
    BY <1>1, MachineAssumption DEF IInv, TypeOK, Smaller
  <2>2. QED BY <1>1, <1>4, <2>1, AdvanceKeeps DEF Tick
<1>5. ASSUME NEW o \in submitted, CancelOrder(o.id) PROVE IInv'
  BY <1>1, <1>5, CancelKeeps
<1>6. ASSUME NEW o \in submitted, NEW n \in NewQtys, ModifyOrder(o.id, n) PROVE IInv'
  <2>1. n \in Int BY MachineAssumption
  <2>2. QED BY <1>1, <1>6, <2>1, ModifyKeeps
<1>7. CASE UNCHANGED vars
  BY <1>1, <1>7, StutterKeeps
<1>8. QED BY <1>1, <1>2, <1>3, <1>5, <1>6, <1>7, <1>4 DEF Next

(* The inductive invariant holds of the machine. *)
THEOREM MachineInvariant == Spec => []IInv
BY InitGood, NextKeeps, PTL DEF Spec

(* Every state of the machine is well typed: an engine stays a value of class
   MatchingEngine through any sequence of calls. *)
THEOREM MachineTypes == Spec => []TypeOK
BY MachineInvariant, Contained, PTL

(* No sequence of submissions, flushes, cancels and modifications crosses the
   book. *)
THEOREM MachineNotCrossed == Spec => []NotCrossed
BY MachineInvariant, Contained, PTL

(* Level totals are exact and locators never dangle. *)
THEOREM MachineBookSound == Spec => []BookSound
BY MachineInvariant, Contained, PTL

----------------------------------------------------------------------------
(* Calls: auctions and the halts that end in one.  Without a session         *)
(* controller the engine knows three phases, and the queue is empty in the   *)
(* one that trades.                                                          *)

Calling(e) ==
  /\ e.phase \in {"Continuous", "Halted", "Auction"}
  /\ e.phase = "Continuous" => e.queue = <<>>

(* What on_trades and the breaker do to the phase and the queue. *)
LEMMA OnTradesPhase ==
  ASSUME NEW e, GoodEngine(e), NEW trades
  PROVE OnTrades(e, trades).phase = e.phase /\ OnTrades(e, trades).queue = e.queue
BY DEF OnTrades, GoodEngine, IsEngine

LEMMA BreakerPhase ==
  ASSUME NEW e, GoodEngine(e), NEW trades
  PROVE LET new == MaybeTriggerCircuitBreaker(e, trades)
        IN  \/ new.phase = e.phase /\ new.queue = e.queue
            \/ e.phase = "Continuous" /\ new.phase = "Halted"
<1> DEFINE ref == IF e.cb_ref = None THEN Head(trades).price ELSE e.cb_ref
           armed == [e EXCEPT !.cb_ref = ref]
<1>1. CASE ~e.cfg.breaker \/ trades = <<>> \/ e.phase # "Continuous"
  BY <1>1 DEF MaybeTriggerCircuitBreaker
<1>2. CASE ~(~e.cfg.breaker \/ trades = <<>> \/ e.phase # "Continuous")
  <2>1. armed.phase = e.phase /\ armed.queue = e.queue
    BY DEF GoodEngine, IsEngine
  <2>2. Halt(armed, Last(trades).ts).phase = "Halted"
    BY DEF GoodEngine, IsEngine, Halt
  <2>3. MaybeTriggerCircuitBreaker(e, trades) \in {armed, Halt(armed, Last(trades).ts)}
    <3>1. MaybeTriggerCircuitBreaker(e, trades) =
            IF Last(trades).price > MulDivBps(ref, 10000 - armed.cfg.drop_bps)
            THEN armed ELSE Halt(armed, Last(trades).ts)
      BY <1>2 DEF MaybeTriggerCircuitBreaker
    <3> HIDE DEF armed, ref
    <3>2. QED BY <3>1
  <2> HIDE DEF armed
  <2>4. QED BY <1>2, <2>1, <2>2, <2>3
<1>3. QED BY <1>1, <1>2

LEMMA TradesCall ==
  ASSUME NEW e, GoodEngine(e), Calling(e), NEW trades \in Seq(Trade)
  PROVE Calling(MaybeTriggerCircuitBreaker(OnTrades(e, trades), trades))
<1> DEFINE told == OnTrades(e, trades)
<1>1. GoodEngine(told) /\ told.phase = e.phase /\ told.queue = e.queue
  BY OnTradesGood, OnTradesPhase
<1> HIDE DEF told
<1>2. Calling(MaybeTriggerCircuitBreaker(told, trades))
  BY <1>1, BreakerPhase DEF Calling
<1>3. QED BY <1>2 DEF told

(* The uncrossing leaves an empty queue. *)
LEMMA UncrossEmpties ==
  ASSUME NEW e, GoodEngine(e), NEW ts
  PROVE UncrossAuction(e, ts).eng.queue = <<>>
BY DEF UncrossAuction, UncrossAt, Leftovers, GoodEngine, IsEngine

(* flush: a halt expires into the auction, an auction into continuous trading
   with an empty queue, or into the halt its own prints trigger. *)
LEMMA FlushCalls ==
  ASSUME NEW e0, GoodEngine(e0), Calling(e0), NEW ts \in Int
  PROVE /\ Calling(Flush(e0, ts).eng)
        /\ e0.phase \in {"Halted", "Auction"} /\ ts < e0.auction_end =>
             /\ Flush(e0, ts) = [eng |-> ExpireHalt(e0, ts), trades |-> <<>>]
             /\ ExpireHalt(e0, ts).phase \in {"Halted", "Auction"}
             /\ e0.phase = "Halted" /\ ts < e0.halt_end => ExpireHalt(e0, ts).phase = "Halted"
             /\ ExpireHalt(e0, ts).queue = e0.queue
             /\ ExpireHalt(e0, ts).auction_end = e0.auction_end
<1> DEFINE e == ExpireHalt(e0, ts)
           u == UncrossAuction(e, e.auction_end)
           next == [u.eng EXCEPT !.phase = "Continuous"]
<1>1. ExpireTradingAtLast(e0, ts) = e0
  BY DEF Calling, ExpireTradingAtLast
<1>2. Flush(e0, ts) = ExpireAuction(e, ts)
  BY <1>1 DEF Flush
<1>3. /\ GoodEngine(e) /\ Calling(e) /\ e.queue = e0.queue /\ e.auction_end = e0.auction_end
      /\ e0.phase = "Continuous" => e.phase = "Continuous"
      /\ e0.phase # "Continuous" => e.phase \in {"Halted", "Auction"}
      /\ e0.phase = "Halted" /\ ts < e0.halt_end => e.phase = "Halted"
  <2>1. GoodEngine(e) BY ExpireGood
  <2>2. e0.halt_end \in Int BY EngineFields
  <2>3. QED BY <2>1, <2>2 DEF ExpireHalt, Calling, GoodEngine, IsEngine
<1> HIDE DEF e
<1>4. e0.auction_end \in Int
  BY EngineFields
<1>5. CASE ~AuctionDue(e, ts)
  <2>1. Flush(e0, ts) = [eng |-> e, trades |-> <<>>]
    BY <1>2, <1>5 DEF ExpireAuction
  <2>2. QED BY <1>3, <2>1 DEF e
<1>6. CASE AuctionDue(e, ts)
  <2>1. e.phase = "Auction" /\ ts >= e0.auction_end
    BY <1>3, <1>6 DEF AuctionDue, Calling
  <2>2. Flush(e0, ts) = [eng |-> MaybeTriggerCircuitBreaker(OnTrades(next, u.trades), u.trades),
                         trades |-> u.trades]
    BY <1>2, <1>6, <2>1 DEF ExpireAuction, EndAuction
  <2>3. GoodEngine(u.eng) /\ u.trades \in Seq(Trade) /\ u.eng.queue = <<>>
    BY <1>3, <1>4, UncrossGood, UncrossEmpties DEF GoodOutcome
  <2> HIDE DEF u
  <2>4. GoodEngine(next) /\ Calling(next)
    <3>1. "Continuous" \in Phases /\ 0 \in Int BY DEF Phases
    <3>2. GoodEngine(next) BY <2>3, <3>1, SetPhase
    <3>3. QED BY <2>3, <3>2 DEF Calling, GoodEngine, IsEngine
  <2> HIDE DEF next
  <2>5. Calling(MaybeTriggerCircuitBreaker(OnTrades(next, u.trades), u.trades))
    BY <2>3, <2>4, TradesCall
  <2>6. ~(ts < e0.auction_end)
    BY <1>4, <2>1
  <2>7. QED BY <2>2, <2>5, <2>6
<1>7. QED BY <1>5, <1>6

(* The end of process() in the phase Continuous. *)
LEMMA SettledCalls ==
  ASSUME NEW flushed \in Seq(Trade), NEW r, GoodOutcome(r), Calling(r.eng)
  PROVE Calling(Settled(flushed, r).eng)
<1> DEFINE trades == flushed \o r.trades
<1>1. trades \in Seq(Trade)
  <2> DEFINE new == r.trades
  <2>1. new \in Seq(Trade) BY DEF GoodOutcome
  <2> HIDE DEF new
  <2>2. flushed \o new \in Seq(Trade) BY <2>1, ConcatProperties
  <2>3. QED BY <2>2 DEF new
<1>2. Settled(flushed, r).eng = MaybeTriggerCircuitBreaker(OnTrades(r.eng, trades), trades)
  BY DEF Settled, Result
<1> HIDE DEF trades
<1>3. QED BY <1>1, <1>2, TradesCall DEF GoodOutcome

LEMMA RestLeftPhase ==
  ASSUME NEW e, GoodEngine(e), NEW m, NEW left
  PROVE /\ RestLeft(e, m, left).eng.phase = e.phase /\ RestLeft(e, m, left).eng.queue = e.queue
        /\ Unrested(e, m).eng.phase = e.phase /\ Unrested(e, m).eng.queue = e.queue
BY DEF RestLeft, Unrested, AfterMatch, GoodEngine, IsEngine

LEMMA ContinuousCalls ==
  ASSUME NEW e, GoodEngine(e), Calling(e), e.phase = "Continuous",
         NEW flushed \in Seq(Trade), NEW o \in Order, NEW ts \in Int
  PROVE Calling(ProcessContinuous(e, flushed, o, ts).eng)
<1> DEFINE end == ts + e.cfg.vol_auction
           auction == [e EXCEPT !.phase = "Auction", !.auction_end = end]
           nothing == [eng |-> e, trades |-> <<>>, resting |-> None]
           queued == Result(QueueInAuction(auction, o), flushed, None, "Accepted")
<1>1. Calling(queued.eng)
  BY DEF Calling, Result, QueueInAuction, GoodEngine, IsEngine
<1>2. GoodOutcome(nothing) /\ Calling(nothing.eng)
  BY DEF GoodOutcome
<1>3. Calling(ProcessMarket(e, o, ts).eng) /\ Calling(ProcessLimit(e, o, ts).eng)
  BY RestLeftPhase DEF Calling, ProcessMarket, ProcessLimit
<1>4. GoodOutcome(ProcessMarket(e, o, ts)) /\ GoodOutcome(ProcessLimit(e, o, ts))
  BY ProcessMarketGood, ProcessLimitGood
<1>5. ProcessContinuous(e, flushed, o, ts) \in
        {queued, Settled(flushed, nothing), Settled(flushed, ProcessMarket(e, o, ts)),
         Settled(flushed, ProcessLimit(e, o, ts))}
  BY DEF ProcessContinuous
<1> HIDE DEF queued, nothing
<1>6. QED BY <1>1, <1>2, <1>3, <1>4, <1>5, SettledCalls

(* process: in a call the order is queued or refused. *)
LEMMA ProcessCalls ==
  ASSUME NEW e0, GoodEngine(e0), Calling(e0), NEW o \in Order, NEW ts \in Int
  PROVE LET r == Process(e0, o, ts)
        IN  /\ Calling(r.eng)
            /\ e0.phase \in {"Halted", "Auction"} /\ ts < e0.auction_end =>
                 /\ r.trades = <<>> /\ r.eng.phase = ExpireHalt(e0, ts).phase
                 /\ r.eng.queue \in {e0.queue, Append(e0.queue, o)}
                 /\ r.eng.auction_end = e0.auction_end
<1> DEFINE f == Flush(e0, ts)
           e == f.eng
           flushed == f.trades
           status == PreAccept(e.cfg, e.phase, o)
           refused(s) == Result(e, flushed, None, s)
           queued == Result(QueueInAuction(e, o), flushed, None, "Accepted")
           r == Process(e0, o, ts)
<1>1. GoodEngine(e) /\ flushed \in Seq(Trade) /\ Calling(e)
  BY FlushGood, FlushCalls DEF GoodOutcome
<1>2. \/ \E s \in {status, "MarketHalted"} : r = refused(s)
      \/ e.phase \in {"Halted", "Auction"} /\ r = queued
      \/ e.phase = "Continuous" /\ r = ProcessContinuous(e, flushed, o, ts)
  BY <1>1 DEF Process, ProcessFlushed, Calling
<1>3. /\ Calling(queued.eng) \/ e.phase = "Continuous"
      /\ queued.eng.phase = e.phase /\ queued.eng.queue = Append(e.queue, o)
      /\ queued.eng.auction_end = e.auction_end
  BY <1>1 DEF Calling, Result, QueueInAuction, GoodEngine, IsEngine
<1>4. Calling(ProcessContinuous(e, flushed, o, ts).eng) \/ e.phase # "Continuous"
  BY <1>1, ContinuousCalls
<1>5. Calling(r.eng)
  <2>1. \A s : refused(s).eng = e BY DEF Result
  <2> HIDE DEF r, e, flushed, queued, refused
  <2>2. QED BY <1>1, <1>2, <1>3, <1>4, <2>1
<1>6. ASSUME e0.phase \in {"Halted", "Auction"}, ts < e0.auction_end
      PROVE /\ r.trades = <<>> /\ r.eng.phase = ExpireHalt(e0, ts).phase
            /\ r.eng.queue \in {e0.queue, Append(e0.queue, o)}
            /\ r.eng.auction_end = e0.auction_end
  <2>1. /\ e = ExpireHalt(e0, ts) /\ flushed = <<>> /\ e.queue = e0.queue
        /\ e.phase \in {"Halted", "Auction"} /\ e.auction_end = e0.auction_end
    BY <1>6, FlushCalls
  <2>2. queued.trades = flushed /\ \A s : refused(s).eng = e /\ refused(s).trades = flushed
    BY DEF Result
  <2> HIDE DEF r, e, flushed, queued, refused
  <2>3. QED BY <1>2, <1>3, <2>1, <2>2
<1>7. QED BY <1>5, <1>6

CallInv == IInv /\ Calling(eng)

LEMMA CallNext == CallInv /\ [Next]_vars => CallInv'
<1>1. SUFFICES ASSUME CallInv, [Next]_vars PROVE Calling(eng)'
  BY NextKeeps DEF CallInv
<1>2. GoodEngine(eng) /\ Calling(eng) /\ now \in Int
  BY <1>1 DEF CallInv, IInv, TypeOK, GoodEngine
<1>3. ASSUME NEW o \in Incoming, NEW ts \in Times(LastArrival), Submit(o, ts) PROVE Calling(eng')
  <2>1. o \in Order /\ ts \in Int BY TimesInt, MachineAssumption
  <2>2. eng' = Process(eng, o, ts).eng BY <1>3 DEF Submit, Submitted
  <2>3. QED BY <1>2, <2>1, <2>2, ProcessCalls
<1>4. ASSUME NEW ts \in Int, Advance(ts) PROVE Calling(eng')
  BY <1>2, <1>4, FlushCalls DEF Advance, Flushed
<1>5. ASSUME NEW ts \in Times(LastJump), Advance(ts) PROVE Calling(eng')
  BY <1>4, <1>5, TimesInt
<1>6. CASE Tick
  <2>1. Smaller(now + 1, MaxTs) \in Int BY <1>2, MachineAssumption DEF Smaller
  <2>2. QED BY <1>4, <1>6, <2>1 DEF Tick
<1>7. ASSUME NEW b, eng' = [eng EXCEPT !.book = b] PROVE Calling(eng')
  BY <1>2, <1>7 DEF Calling, GoodEngine, IsEngine
<1>8. ASSUME NEW o \in submitted, CancelOrder(o.id) PROVE Calling(eng')
  BY <1>7, <1>8 DEF CancelOrder
<1>9. ASSUME NEW o \in submitted, NEW n \in NewQtys, ModifyOrder(o.id, n) PROVE Calling(eng')
  BY <1>7, <1>9 DEF ModifyOrder
<1>10. CASE UNCHANGED vars
  BY <1>2, <1>10 DEF vars
<1>11. Calling(eng)' <=> Calling(eng')
  BY DEF Calling
<1>12. QED BY <1>1, <1>3, <1>5, <1>6, <1>8, <1>9, <1>10, <1>11 DEF Next

LEMMA CallInit == Init => CallInv
<1>1. SUFFICES ASSUME Init PROVE CallInv
  OBVIOUS
<1>2. PICK cfg \in Configs : eng = NewEngine(cfg)
  BY <1>1 DEF Init
<1>3. Calling(eng)
  BY <1>2 DEF NewEngine, Calling
<1>4. QED BY <1>1, <1>3, InitGood DEF CallInv

(* Nothing is stranded in the auction queue: outside halts and auctions it is
   empty. *)
THEOREM MachineQueue == Spec => []QueueOnlyInCall
<1>1. CallInv => QueueOnlyInCall
  BY DEF CallInv, Calling, QueueOnlyInCall
<1>2. QED BY <1>1, CallInit, CallNext, PTL DEF Spec

(* A list is a prefix of what it becomes when an order joins it. *)
LEMMA JoinsBehind ==
  ASSUME NEW q \in Seq(Order), NEW o \in Order
  PROVE IsPrefix(q, q) /\ IsPrefix(q, Append(q, o))
<1>1. Len(q) \in Nat
  BY LenProperties
<1>2. Append(q, o) \in Seq(Order) /\ Len(Append(q, o)) = Len(q) + 1
  BY AppendProperties
<1>3. SubSeq(q, 1, Len(q)) = SubSeq(Append(q, o), 1, Len(q))
  <2>1. \A i \in 1 .. Len(q) : Append(q, o)[i] = q[i]
    BY AppendProperties
  <2>2. QED BY <1>1, <1>2, <2>1
<1>4. QED BY <1>1, <1>2, <1>3 DEF IsPrefix

(* A call of the machine while it holds: before the announced end. *)
CallHolds ==
  /\ out'.trades = <<>> /\ eng'.auction_end = eng.auction_end
  /\ eng'.phase \in {"Halted", "Auction"}
  /\ eng.phase = "Halted" /\ now' < eng.halt_end => eng'.phase = "Halted"
  /\ IsPrefix(eng.queue, eng'.queue)

LEMMA CallHeld ==
  ASSUME CallInv, Next, eng.phase \in {"Halted", "Auction"}, now' < eng.auction_end
  PROVE CallHolds
<1>1. /\ GoodEngine(eng) /\ Calling(eng) /\ now \in Int /\ eng.queue \in Seq(Order)
      /\ IsPrefix(eng.queue, eng.queue)
  <2>1. GoodEngine(eng) /\ Calling(eng) /\ now \in Int /\ eng.queue \in Seq(Order)
    BY EngineFields DEF CallInv, IInv, TypeOK, GoodEngine
  <2> DEFINE q == eng.queue
  <2>2. Len(q) \in Nat BY <2>1, LenProperties
  <2>3. IsPrefix(q, q) BY <2>2 DEF IsPrefix
  <2>4. QED BY <2>1, <2>3
<1>2. ASSUME now' \in Int, out'.trades = <<>>, eng'.auction_end = eng.auction_end,
             eng'.phase = ExpireHalt(eng, now').phase, IsPrefix(eng.queue, eng'.queue)
      PROVE CallHolds
  BY <1>1, <1>2, FlushCalls DEF CallHolds
<1>3. ASSUME NEW o \in Incoming, NEW ts \in Times(LastArrival), Submit(o, ts) PROVE CallHolds
  <2>1. o \in Order /\ ts \in Int BY TimesInt, MachineAssumption
  <2>2. /\ eng' = Process(eng, o, ts).eng /\ out'.trades = Process(eng, o, ts).trades
        /\ now' = ts
    BY <1>3 DEF Submit, Submitted
  <2>3. /\ out'.trades = <<>> /\ eng'.auction_end = eng.auction_end
        /\ eng'.phase = ExpireHalt(eng, now').phase
        /\ eng'.queue \in {eng.queue, Append(eng.queue, o)}
    BY <1>1, <2>1, <2>2, ProcessCalls
  <2>4. IsPrefix(eng.queue, eng'.queue)
    BY <1>1, <2>1, <2>3, JoinsBehind
  <2>5. QED BY <1>2, <2>1, <2>2, <2>3, <2>4
<1>4. ASSUME NEW ts \in Int, Advance(ts) PROVE CallHolds
  <2>1. /\ eng' = Flush(eng, ts).eng /\ out'.trades = Flush(eng, ts).trades
        /\ now' = ts
    BY <1>4 DEF Advance, Flushed, Quiet
  <2>2. /\ out'.trades = <<>> /\ eng'.auction_end = eng.auction_end
        /\ eng'.phase = ExpireHalt(eng, now').phase /\ eng'.queue = eng.queue
    BY <1>1, <1>4, <2>1, FlushCalls
  <2>3. IsPrefix(eng.queue, eng'.queue)
    BY <1>1, <2>2
  <2>4. QED BY <1>2, <1>4, <2>1, <2>2, <2>3
<1>5. Smaller(now + 1, MaxTs) \in Int
  BY <1>1, MachineAssumption DEF Smaller
<1>6. ASSUME NEW b, NEW call, eng' = [eng EXCEPT !.book = b], out' = Quiet(call), now' = now
      PROVE CallHolds
  <2>1. /\ out'.trades = <<>> /\ eng'.phase = eng.phase /\ eng'.queue = eng.queue
        /\ eng'.auction_end = eng.auction_end
    BY <1>1, <1>6 DEF GoodEngine, IsEngine, Quiet
  <2>2. IsPrefix(eng.queue, eng'.queue)
    BY <1>1, <2>1
  <2>3. QED BY <2>1, <2>2 DEF CallHolds
<1>7. ASSUME NEW o \in submitted, CancelOrder(o.id) \/ \E n \in NewQtys : ModifyOrder(o.id, n)
      PROVE CallHolds
  BY <1>6, <1>7 DEF CancelOrder, ModifyOrder
<1>8. QED BY <1>3, <1>4, <1>5, <1>7, TimesInt DEF Next, Tick

(* From the halt to the end of the reopening auction, as during a volatility
   auction, no call makes the engine print, trade continuously, shorten the halt
   or take an order out of the queue. *)
THEOREM MachineFreezes == Spec => CallFreezes
<1> DEFINE Freezes ==
      ( /\ eng.phase \in {"Halted", "Auction"} /\ now' < eng.auction_end )
      => /\ out'.trades = <<>>
         /\ eng'.phase \in {"Halted", "Auction"}
         /\ eng.phase = "Halted" /\ now' < eng.halt_end => eng'.phase = "Halted"
         /\ IsPrefix(eng.queue, eng'.queue)
<1>1. CallInv /\ Next => Freezes
  BY CallHeld DEF CallHolds
<1>2. CallInv /\ [Next]_vars => [Freezes]_vars
  BY <1>1
<1>3. QED BY <1>2, CallInit, CallNext, PTL DEF Spec, CallFreezes

----------------------------------------------------------------------------
(* With a session controller *)

(* The schedule of the session never changes. *)
SessionInv == IInv /\ sess.at \in Schedules

(* on_time *)
LEMMA OnTimeKeeps ==
  ASSUME SessionInv, NEW ts \in Int, OnTime(ts)
  PROVE SessionInv'
<1> DEFINE e1 == IF TalStarts(ts) THEN StartTradingAtLast(eng, sess.at.tal_end) ELSE eng
           e2 == Started(ts)
           f  == Flush(e2, ts)
<1>1. /\ eng' = f.eng /\ now' = ts /\ submitted' = submitted /\ sess'.at = sess.at
      /\ out'.call = "on_time" /\ out'.order = None
      /\ out'.trades = f.trades /\ out'.status = "Accepted"
  BY DEF OnTime, Flushed, Quiet, SessionInv
<1>2. sess.at.tal_end \in Int /\ sess.at.closing_end \in Int
  BY ScheduleAssumption DEF SessionInv
<1>3. "TradingAtLast" \in Phases /\ "ClosingAuction" \in Phases
  BY DEF Phases
<1>4. GoodEngine(eng)
  BY DEF SessionInv, IInv, TypeOK, GoodEngine
<1>5. GoodEngine(e1)
  BY <1>2, <1>3, <1>4, SetPhase DEF StartTradingAtLast
<1>6. GoodEngine(e2)
  <2>1. e2 = IF ClosingStarts(ts) THEN StartClosingAuction(e1, sess.at.closing_end) ELSE e1
    BY DEF Started
  <2> HIDE DEF e1, e2
  <2>2. QED BY <1>2, <1>3, <1>5, <2>1, SetPhase DEF StartClosingAuction
<1> HIDE DEF e2
<1>7. GoodOutcome(f)
  BY <1>6, FlushGood
<1> HIDE DEF f
<1>8. QED BY <1>1, <1>7 DEF SessionInv, IInv, TypeOK, GoodOutcome, GoodEngine, Statuses

(* Every step of the session keeps the invariant. *)
LEMMA SessionNextKeeps == SessionInv /\ [SessionNext]_svars => SessionInv'
<1>1. SUFFICES ASSUME SessionInv, [SessionNext]_svars PROVE SessionInv'
  OBVIOUS
<1>2. now \in Int
  BY <1>1 DEF SessionInv, IInv, TypeOK
<1>3. CASE SessionTick
  <2>1. Smaller(now + 1, MaxTs) \in Int BY <1>2, MachineAssumption DEF Smaller
  <2>2. QED BY <1>1, <1>3, <2>1, OnTimeKeeps DEF SessionTick
<1>4. ASSUME NEW o \in Incoming, Submit(o, now), UNCHANGED sess PROVE SessionInv'
  BY <1>1, <1>2, <1>4, SubmitKeeps DEF SessionInv
<1>5. ASSUME NEW o \in submitted, CancelOrder(o.id), UNCHANGED sess PROVE SessionInv'
  BY <1>1, <1>5, CancelKeeps DEF SessionInv
<1>6. CASE UNCHANGED svars
  BY <1>1, <1>6, StutterKeeps DEF SessionInv, svars, vars
<1>7. QED BY <1>1, <1>3, <1>4, <1>5, <1>6 DEF SessionNext

(* The inductive invariant holds of the session. *)
THEOREM SessionInvariant == SessionSpec => []SessionInv
<1>1. SessionInit => SessionInv
  BY InitGood DEF SessionInit, SessionInv
<1>2. QED BY <1>1, SessionNextKeeps, PTL DEF SessionSpec

(* A session keeps the types, whenever its windows start. *)
THEOREM SessionTypes == SessionSpec => []TypeOK
<1>1. SessionInv => TypeOK
  BY DEF SessionInv, IInv
<1>2. QED BY <1>1, SessionInvariant, PTL

(* A session never crosses the book, although its windows override halts and
   auctions. *)
THEOREM SessionNotCrossed == SessionSpec => []NotCrossed
<1>1. SessionInv => NotCrossed
  BY Contained DEF SessionInv
<1>2. QED BY <1>1, SessionInvariant, PTL

----------------------------------------------------------------------------
(* The accounts of the machine *)

(* Of the engine, the history and the latest result: with the type invariant
   the inductive invariant of this module. *)
Accounts ==
  /\ Placed(eng) /\ FromKnown(Held(eng), submitted)
  /\ PrintsOK(out.trades, submitted)

----------------------------------------------------------------------------
(* The calls of the machine *)

(* The orders a call brings: an order for nothing is refused. *)
Brought(new) == {o \in new : o.qty > 0}

(* A call of the machine, seen by its accounts: new is the order that enters,
   if one does. *)
CallTerms(new) == Terms(submitted \cup new, Held(eng) \cup Brought(new))

CallStep(new) ==
  /\ submitted' = submitted \cup new
  /\ traded' = [id \in Ids |-> traded[id] + TradedBy(id, out'.trades)]
  /\ Kept(eng', {}, out'.trades, CallTerms(new))

(* Order ids are unique, so a newcomer is none of the orders the engine holds. *)
LEMMA Newcomer ==
  ASSUME NEW known, known \subseteq Incoming, NEW o \in Incoming \ known,
         NEW L, FromKnown(L, known)
  PROVE Apart(L, {o}) /\ Stems(o, known \cup {o}) /\ FromKnown(L, known \cup {o})
<1>1. \A s \in known : s.id # o.id
  BY MachineAssumption
<1>2. Apart(L, {o})
  BY <1>1 DEF FromKnown, Stems, Apart
<1>3. Stems(o, known \cup {o})
  BY <1>1 DEF Stems
<1>4. FromKnown(L, known \cup {o})
  BY <1>2 DEF FromKnown, Stems, Apart
<1>5. QED BY <1>2, <1>3, <1>4

LEMMA CallBase ==
  ASSUME IInv, Accounts, NEW new \in {{}} \cup {{o} : o \in Incoming \ submitted}
  PROVE LET V == Brought(new)
            L == Held(eng) \cup V
            c == CallTerms(new)
        IN  /\ OneEach(L) /\ L \subseteq Order /\ FromKnown(L, submitted \cup new)
            /\ submitted \cup new \subseteq Order
            /\ IsTerms(c) /\ Kept(eng, V, <<>>, c)
<1> DEFINE V == Brought(new)
           L == Held(eng) \cup V
           known == submitted \cup new
           c == CallTerms(new)
<1>1. GoodEngine(eng) /\ submitted \subseteq Incoming
  BY DEF IInv, TypeOK, GoodEngine
<1>2. Placed(eng) /\ FromKnown(Held(eng), submitted)
  BY DEF Accounts
<1>3. Incoming \subseteq Order /\ new \subseteq Incoming
  BY MachineAssumption
<1>4. /\ Apart(Held(eng), V) /\ OneEach(V) /\ V \subseteq Order /\ known \subseteq Order
      /\ FromKnown(L, known)
  <2>1. CASE new = {}
    <3>1. V = {} /\ known = submitted /\ L = Held(eng)
      BY <2>1 DEF Brought
    <3> HIDE DEF V, known, L
    <3>2. QED BY <1>1, <1>2, <1>3, <3>1 DEF Apart, OneEach
  <2>2. ASSUME NEW o \in Incoming \ submitted, new = {o}
        PROVE /\ Apart(Held(eng), V) /\ OneEach(V) /\ V \subseteq Order /\ known \subseteq Order
              /\ FromKnown(L, known)
    <3>1. /\ Apart(Held(eng), {o}) /\ Stems(o, submitted \cup {o})
          /\ FromKnown(Held(eng), submitted \cup {o})
      BY <1>1, <1>2, Newcomer
    <3>2. \A x \in V : x = o /\ o.qty > 0
      BY <2>2 DEF Brought
    <3>3. o \in Order /\ o.qty \in Int
      BY <1>3 DEF Order
    <3>4. known = submitted \cup {o}
      BY <2>2
    <3>5. L = Held(eng) \cup V
      OBVIOUS
    <3> HIDE DEF V, known, L
    <3>6. FromKnown(L, known)
      <4>1. FromKnown(Held(eng), known) /\ Stems(o, known)
        BY <3>1, <3>4
      <4>2. \A x \in V : Stems(x, known) /\ x.qty \in Nat
        BY <3>2, <3>3, <4>1
      <4>3. QED BY <3>5, <4>1, <4>2 DEF FromKnown
    <3>7. Apart(Held(eng), V)
      BY <3>1, <3>2 DEF Apart
    <3>8. QED BY <1>1, <1>3, <3>2, <3>3, <3>4, <3>6, <3>7 DEF OneEach
  <2>3. QED BY <2>1, <2>2
<1>5. c = Terms(known, L)
  BY DEF CallTerms
<1> HIDE DEF V, known, c
<1>6. OneEach(L) /\ L \subseteq Order /\ IsTerms(c) /\ Kept(eng, V, <<>>, c)
  BY <1>1, <1>2, <1>4, <1>5, CallBegins
<1>7. QED BY <1>4, <1>6 DEF V, known, c

LEMMA SubmitCall ==
  ASSUME IInv, Accounts, NEW o \in Incoming, NEW ts \in Int, Submit(o, ts)
  PROVE o \in Incoming \ submitted /\ CallStep({o})
<1> DEFINE V == Brought({o})
           c == CallTerms({o})
           r == Process(eng, o, ts)
<1>1. /\ o \in Incoming \ submitted /\ submitted' = submitted \cup {o}
      /\ eng' = r.eng /\ out'.trades = r.trades
      /\ traded' = [id \in Ids |-> traded[id] + TradedBy(id, r.trades)]
  BY DEF Submit, Submitted, Record
<1>2. IsTerms(c) /\ Kept(eng, V, <<>>, c)
  BY <1>1, CallBase
<1>3. V = IF o.qty > 0 THEN {o} ELSE {}
  BY DEF Brought
<1>4. GoodEngine(eng) /\ o \in Order
  BY MachineAssumption DEF IInv, TypeOK, GoodEngine
<1> HIDE DEF V, c
<1>5. Kept(r.eng, {}, r.trades, c)
  BY <1>2, <1>3, <1>4, ProcessKept
<1> HIDE DEF r
<1>6. QED BY <1>1, <1>5 DEF CallStep, c

(* flush, of the engine or of one with the same book and queue *)
LEMMA FlushCall ==
  ASSUME IInv, Accounts, NEW e, GoodEngine(e), e.book = eng.book, e.queue = eng.queue,
         NEW ts \in Int, NEW call, Flushed(call, ts, Flush(e, ts))
  PROVE CallStep({})
<1> DEFINE c == CallTerms({})
           f == Flush(e, ts)
<1>1. /\ submitted' = submitted \cup {} /\ eng' = f.eng /\ out'.trades = f.trades
      /\ traded' = [id \in Ids |-> traded[id] + TradedBy(id, f.trades)]
  BY DEF Flushed, Record, Quiet
<1>2. IsTerms(c) /\ Kept(eng, {}, <<>>, c)
  <2>1. Brought({}) = {} BY DEF Brought
  <2>2. IsTerms(c) /\ Kept(eng, Brought({}), <<>>, c) BY CallBase
  <2>3. QED BY <2>1, <2>2
<1> HIDE DEF c
<1>3. Kept(e, {}, <<>>, c)
  BY <1>2, KeptElsewhere
<1>4. Kept(f.eng, {}, f.trades, c)
  BY <1>2, <1>3, FlushKept
<1> HIDE DEF f
<1>5. QED BY <1>1, <1>4 DEF CallStep, c

(* cancel and modify_qty *)
LEMMA BookCall ==
  ASSUME IInv, Accounts, traded \in [Ids -> Int], NEW id, NEW n \in Int,
         NEW new \in {Cancel(eng.book, id).book, ModifyQty(eng.book, id, n).book},
         NEW call, eng' = [eng EXCEPT !.book = new], out' = Quiet(call),
         submitted' = submitted, traded' = traded
  PROVE CallStep({})
<1> DEFINE c == CallTerms({})
           book == eng.book
           Q == Range(eng.queue) \cup {}
<1>1. IsTerms(c) /\ Honest(book, Q, <<>>, c) /\ Distinct(eng.queue) /\ Apart(Range(eng.queue), {})
  <2>1. Brought({}) = {} BY DEF Brought
  <2>2. IsTerms(c) /\ Kept(eng, Brought({}), <<>>, c) BY CallBase
  <2> HIDE DEF c
  <2>3. IsTerms(c) /\ Kept(eng, {}, <<>>, c) BY <2>1, <2>2
  <2>4. QED BY <2>3 DEF Kept
<1>2. eng'.book = new /\ eng'.queue = eng.queue
  BY DEF IInv, TypeOK, IsEngine
<1>3. new \in {Cancel(book, id).book, ModifyQty(book, id, n).book}
  OBVIOUS
<1> HIDE DEF book, c, Q
<1>4. Honest(new, Q, <<>>, c)
  BY <1>1, <1>3, HonestCancel, HonestModify
<1>5. Kept(eng', {}, <<>>, c)
  BY <1>1, <1>2, <1>4 DEF Kept, Q
<1>6. out'.trades = <<>>
  BY DEF Quiet
<1>7. traded' = [x \in Ids |-> traded[x] + TradedBy(x, <<>>)]
  <2>1. \A x \in Ids : TradedBy(x, <<>>) = 0 /\ traded[x] \in Int BY NothingTraded
  <2>2. \A x \in Ids : traded[x] + TradedBy(x, <<>>) = traded[x] BY <2>1
  <2>3. QED BY <2>2
<1>8. QED BY <1>5, <1>6, <1>7 DEF CallStep, c

(* What every call leaves. *)
LEMMA CallLeaves ==
  ASSUME IInv, Accounts, NEW new \in {{}} \cup {{o} : o \in Incoming \ submitted}, CallStep(new)
  PROVE Accounts'
<1> DEFINE c == CallTerms(new)
<1>1. /\ Kept(eng', {}, out'.trades, c) /\ submitted' = submitted \cup new
  BY DEF CallStep
<1>2. c.known = submitted \cup new
  BY DEF CallTerms, Terms
<1> HIDE DEF c
<1>3. /\ Placed(eng') /\ FromKnown(Held(eng'), submitted') /\ PrintsOK(out'.trades, submitted')
  <2> DEFINE T == out'.trades
             e == eng'
             S == submitted'
  <2>1. Kept(e, {}, T, c) /\ c.known = S
    BY <1>1, <1>2
  <2> HIDE DEF T, e, S
  <2>2. Placed(e) /\ FromKnown(Held(e), c.known) /\ PrintsOK(T, c.known)
    BY <2>1, CallEnded
  <2>3. Placed(e) /\ FromKnown(Held(e), S) /\ PrintsOK(T, S)
    BY <2>1, <2>2
  <2>4. QED BY <2>3 DEF T, e, S
<1>4. QED BY <1>3 DEF Accounts

----------------------------------------------------------------------------
(* What a list of prints trades, print by print *)

(* Prints between known orders add to what those have traded, and to nothing
   else. *)
LEMMA PrintsCount ==
  ASSUME NEW known, known \subseteq Order, NEW trades \in Seq(Trade), PrintsOK(trades, known),
         NEW id
  PROVE /\ TradedBy(id, trades) \in Nat
        /\ (\A o \in known : o.id # id) => TradedBy(id, trades) = 0
<1> DEFINE S(k) == TradedBy(id, Printed(trades, k))
           Good(n) == n \in Nat /\ ((\A o \in known : o.id # id) => n = 0)
           A == {k \in Nat : k <= Len(trades) => Good(S(k))}
<1>1. Len(trades) \in Nat
  BY PrintedGrows
<1>2. 0 \in A
  <2>1. S(0) = 0 BY PrintedGrows, NothingTraded
  <2> HIDE DEF S
  <2>2. QED BY <2>1
<1>3. ASSUME NEW k \in Nat, k \in A PROVE k + 1 \in A
  <2>1. SUFFICES ASSUME k + 1 <= Len(trades) PROVE Good(S(k + 1))
    OBVIOUS
  <2> DEFINE t == trades[k + 1]
  <2>2. Good(S(k))
    BY <1>1, <1>3, <2>1
  <2>3. /\ Printed(trades, k) \in Seq(Trade) /\ t \in Trade /\ k + 1 \in 1 .. Len(trades)
        /\ Printed(trades, k + 1) = Append(Printed(trades, k), t)
    BY <1>1, <2>1, PrintedGrows
  <2>4. t.qty \in Nat
    BY <2>3 DEF PrintsOK, TradeOK, Trade
  <2>5. (\A o \in known : o.id # id) => id \notin {t.maker, t.taker}
    BY <2>3 DEF PrintsOK, TradeOK
  <2> HIDE DEF t
  <2>6. S(k + 1) = S(k) + (IF id \in {t.maker, t.taker} THEN t.qty ELSE 0)
    <3> DEFINE p == Printed(trades, k)
               r == Printed(trades, k + 1)
    <3>1. p \in Seq(Trade) /\ t \in Trade /\ r = Append(p, t)
      BY <2>3
    <3> HIDE DEF p, r
    <3>2. TradedBy(id, r) = TradedBy(id, p) + (IF id \in {t.maker, t.taker} THEN t.qty ELSE 0)
      BY <3>1, TradedGrows
    <3>3. S(k + 1) = TradedBy(id, r) /\ S(k) = TradedBy(id, p)
      BY DEF p, r
    <3> HIDE DEF S
    <3>4. QED BY <3>2, <3>3
  <2> HIDE DEF S
  <2>7. QED BY <2>2, <2>4, <2>5, <2>6
<1>4. A = Nat
  <2> HIDE DEF A
  <2>1. A \subseteq Nat BY DEF A
  <2>2. QED BY <1>2, <1>3, <2>1, InductSet
<1>5. Good(S(Len(trades)))
  <2> HIDE DEF S, Good
  <2>1. Len(trades) \in A BY <1>1, <1>4
  <2>2. QED BY <1>1, <2>1
<1>6. S(Len(trades)) = TradedBy(id, trades)
  BY PrintedGrows
<1>7. QED BY <1>5, <1>6

----------------------------------------------------------------------------
(* The accounts over any sequence of calls *)

(* Only orders that were submitted have traded. *)
History ==
  /\ IsFiniteSet(submitted)
  /\ traded \in [Ids -> Nat]
  /\ \A id \in Ids : (\A o \in submitted : o.id # id) => traded[id] = 0

AccountInv == IInv /\ Accounts /\ History

Newcomers == {{}} \cup {{o} : o \in Incoming \ submitted}

LEMMA AccountInit == Init => AccountInv
<1>1. SUFFICES ASSUME Init PROVE Accounts /\ History
  BY InitGood DEF AccountInv
<1>2. PICK cfg \in Configs : eng = NewEngine(cfg)
  BY <1>1 DEF Init
<1>3. eng.book = EmptyBook /\ eng.queue = <<>>
  BY <1>2 DEF NewEngine
<1>4. Tidy(EmptyBook) /\ Resting(EmptyBook) = {}
  BY EmptyTidy
<1>5. Range(eng.queue) = {} /\ Distinct(eng.queue)
  BY <1>3, EmptyRange
<1>6. Placed(eng) /\ Held(eng) = {}
  BY <1>3, <1>4, <1>5 DEF Placed, Held, Apart
<1>7. out.trades = <<>> /\ submitted = {} /\ traded = [id \in Ids |-> 0]
  BY <1>1 DEF Init, Quiet
<1>8. FromKnown(Held(eng), submitted) /\ PrintsOK(out.trades, submitted)
  BY <1>6, <1>7 DEF FromKnown, PrintsOK
<1>9. History
  BY <1>7, FS_EmptySet DEF History
<1>10. QED BY <1>6, <1>8, <1>9 DEF Accounts

LEMMA HistoryGrows ==
  ASSUME AccountInv, NEW new \in Newcomers, CallStep(new)
  PROVE History'
<1> DEFINE T == out'.trades
           known == submitted'
           c == CallTerms(new)
           e == eng'
<1>1. /\ known = submitted \cup new /\ Kept(e, {}, T, c)
      /\ traded' = [id \in Ids |-> traded[id] + TradedBy(id, T)]
  BY DEF CallStep
<1>2. known \subseteq Order /\ c.known = known
  BY <1>1, MachineAssumption DEF AccountInv, IInv, TypeOK, Newcomers, CallTerms, Terms
<1>3. IsFiniteSet(known)
  <2>1. IsFiniteSet(submitted) BY DEF AccountInv, History
  <2>2. new = {} \/ \E o : new = {o} BY DEF Newcomers
  <2>3. IsFiniteSet(new) BY <2>2, FS_EmptySet, FS_Singleton
  <2>4. QED BY <1>1, <2>1, <2>3, FS_Union
<1>4. \A id \in Ids : traded[id] \in Nat
  BY DEF AccountInv, History
<1>5. \A id \in Ids : (\A o \in submitted : o.id # id) => traded[id] = 0
  BY DEF AccountInv, History
<1> HIDE DEF T, known, c, e
<1>6. T \in Seq(Trade) /\ PrintsOK(T, known)
  BY <1>1, <1>2, CallEnded
<1>7. \A id : /\ TradedBy(id, T) \in Nat
              /\ (\A o \in known : o.id # id) => TradedBy(id, T) = 0
  BY <1>2, <1>6, PrintsCount
<1>8. traded' \in [Ids -> Nat]
  BY <1>1, <1>4, <1>7
<1>9. ASSUME NEW id \in Ids, \A o \in known : o.id # id PROVE traded'[id] = 0
  BY <1>1, <1>4, <1>5, <1>7, <1>9
<1>10. QED BY <1>3, <1>8, <1>9 DEF History, known

(* Every call of the machine is a step of its accounts. *)
LEMMA NextCalls ==
  ASSUME AccountInv, Next
  PROVE \E new \in Newcomers : CallStep(new)
<1>1. IInv /\ Accounts /\ traded \in [Ids -> Int] /\ GoodEngine(eng) /\ now \in Int
  BY DEF AccountInv, History, IInv, TypeOK, GoodEngine
<1>2. {} \in Newcomers /\ \A o \in Incoming \ submitted : {o} \in Newcomers
  BY DEF Newcomers
<1>3. ASSUME NEW o \in Incoming, NEW ts \in Times(LastArrival), Submit(o, ts)
      PROVE \E new \in Newcomers : CallStep(new)
  <2>1. ts \in Int BY TimesInt
  <2>2. o \in Incoming \ submitted /\ CallStep({o}) BY <1>1, <1>3, <2>1, SubmitCall
  <2>3. QED BY <1>2, <2>2
<1>4. ASSUME NEW ts \in Int, Advance(ts) PROVE CallStep({})
  BY <1>1, <1>4, FlushCall DEF Advance
<1>5. ASSUME NEW ts \in Times(LastJump), Advance(ts) PROVE CallStep({})
  BY <1>4, <1>5, TimesInt
<1>6. ASSUME Tick PROVE CallStep({})
  <2>1. Smaller(now + 1, MaxTs) \in Int BY <1>1, MachineAssumption DEF Smaller
  <2>2. QED BY <1>4, <1>6, <2>1 DEF Tick
<1>7. ASSUME NEW o \in submitted, CancelOrder(o.id) PROVE CallStep({})
  <2>1. /\ eng' = [eng EXCEPT !.book = Cancel(eng.book, o.id).book]
        /\ out' = Quiet("cancel") /\ submitted' = submitted /\ traded' = traded /\ 0 \in Int
    BY <1>7 DEF CancelOrder
  <2>2. QED BY <1>1, <2>1, BookCall
<1>8. ASSUME NEW o \in submitted, NEW n \in NewQtys, ModifyOrder(o.id, n) PROVE CallStep({})
  <2>1. /\ eng' = [eng EXCEPT !.book = ModifyQty(eng.book, o.id, n).book]
        /\ out' = Quiet("modify") /\ submitted' = submitted /\ traded' = traded /\ n \in Int
    BY <1>8, MachineAssumption DEF ModifyOrder
  <2>2. QED BY <1>1, <2>1, BookCall
<1>9. QED BY <1>2, <1>3, <1>5, <1>6, <1>7, <1>8 DEF Next

LEMMA CallKeeps ==
  ASSUME AccountInv, IInv', NEW new \in Newcomers, CallStep(new)
  PROVE AccountInv'
<1>1. IInv /\ Accounts /\ new \in {{}} \cup {{o} : o \in Incoming \ submitted}
  BY DEF AccountInv, Newcomers
<1>2. Accounts'
  BY <1>1, CallLeaves
<1>3. History'
  BY HistoryGrows
<1>4. QED BY <1>2, <1>3 DEF AccountInv

LEMMA AccountStutters ==
  ASSUME AccountInv, UNCHANGED vars
  PROVE AccountInv'
<1>1. IInv'
  BY StutterKeeps DEF AccountInv
<1>2. eng' = eng /\ submitted' = submitted /\ traded' = traded /\ out' = out
  BY DEF vars
<1>3. Accounts' /\ History'
  BY <1>2 DEF AccountInv, Accounts, History
<1>4. QED BY <1>1, <1>3 DEF AccountInv

LEMMA AccountNext == AccountInv /\ [Next]_vars => AccountInv'
<1>1. SUFFICES ASSUME AccountInv, [Next]_vars PROVE AccountInv'
  OBVIOUS
<1>2. IInv'
  BY <1>1, NextKeeps DEF AccountInv
<1>3. CASE Next
  BY <1>1, <1>2, <1>3, NextCalls, CallKeeps
<1>4. CASE UNCHANGED vars
  BY <1>1, <1>4, AccountStutters
<1>5. QED BY <1>1, <1>3, <1>4

(* The inductive invariant of the accounts holds of the machine. *)
THEOREM MachineAccounts == Spec => []AccountInv
BY AccountInit, AccountNext, PTL DEF Spec

----------------------------------------------------------------------------
(* What the accounts say of the book, the queue and the prints *)

LEMMA TidyConsistent == Tidy(eng.book) => BookConsistent
<1> DEFINE book == eng.book
<1>1. SUFFICES ASSUME Tidy(book)
               PROVE /\ \A s \in Sides : \A p \in DOMAIN book.levels[s] : book.levels[s][p].q # <<>>
                     /\ \A at \in Places(book) :
                          LET o == OrderAt(book, at)
                          IN  /\ o.type = "Limit" /\ o.side = at.side /\ o.price = at.px
                              /\ o.id \in DOMAIN book.loc
                              /\ book.loc[o.id] = [side |-> at.side, price |-> at.px]
                     /\ DOMAIN book.loc = {o.id : o \in Resting(book)}
  BY DEF BookConsistent
<1> HIDE DEF book
<1>2. \A s \in Sides : \A p \in DOMAIN book.levels[s] : book.levels[s][p].q # <<>>
  BY <1>1, LevelIs
<1>3. ASSUME NEW at \in Places(book)
      PROVE LET o == OrderAt(book, at)
            IN  /\ o.type = "Limit" /\ o.side = at.side /\ o.price = at.px
                /\ o.id \in DOMAIN book.loc
                /\ book.loc[o.id] = [side |-> at.side, price |-> at.px]
  <2> DEFINE o == OrderAt(book, at)
  <2>1. at = [side |-> o.side, px |-> o.price, i |-> at.i] /\ o \in Resting(book)
    BY <1>1, PlaceIs
  <2>2. at.side = o.side /\ at.px = o.price
    BY <2>1
  <2> HIDE DEF o
  <2>3. /\ o.type = "Limit" /\ o.id \in DOMAIN book.loc
        /\ book.loc[o.id] = [side |-> o.side, price |-> o.price]
    BY <1>1, <2>1, RestingIs
  <2>4. QED BY <2>2, <2>3 DEF o
<1>4. DOMAIN book.loc = {o.id : o \in Resting(book)}
  <2>1. ASSUME NEW id \in DOMAIN book.loc PROVE id \in {o.id : o \in Resting(book)}
    <3>1. \E o \in Resting(book) : o.id = id
      BY <1>1, LocatedRests
    <3>2. QED BY <3>1
  <2>2. ASSUME NEW o \in Resting(book) PROVE o.id \in DOMAIN book.loc
    BY <1>1, RestingIs
  <2>3. QED BY <2>1, <2>2
<1>5. QED BY <1>2, <1>3, <1>4

LEMMA PlacedOnce == GoodEngine(eng) /\ Placed(eng) => OnePlace
<1> DEFINE book == eng.book
           queue == eng.queue
<1>1. SUFFICES ASSUME GoodEngine(eng), Placed(eng)
               PROVE /\ OnceInBook(book)
                     /\ \A i, j \in DOMAIN queue : queue[i].id = queue[j].id => i = j
                     /\ \A a \in Places(book), i \in DOMAIN queue :
                          OrderAt(book, a).id # queue[i].id
  BY DEF OnePlace, OnceInBook
<1>2. /\ Tidy(book) /\ Distinct(queue) /\ Apart(Resting(book), Range(queue))
      /\ queue \in Seq(Order)
  BY <1>1, EngineFields DEF Placed
<1> HIDE DEF book, queue
<1>3. OnceInBook(book)
  BY <1>2, PlacesOnce
<1>4. \A i, j \in DOMAIN queue : queue[i].id = queue[j].id => i = j
  BY <1>2, RangeIs DEF Distinct
<1>5. ASSUME NEW a \in Places(book), NEW i \in DOMAIN queue
      PROVE OrderAt(book, a).id # queue[i].id
  <2>1. OrderAt(book, a) \in Resting(book) /\ queue[i] \in Range(queue)
    BY DEF Resting, Range
  <2>2. QED BY <1>2, <2>1 DEF Apart
<1>6. QED BY <1>3, <1>4, <1>5

LEMMA PrintsRespect == PrintsOK(out.trades, submitted) /\ TypeOK => LimitsRespected
<1> DEFINE T == out.trades
<1>1. SUFFICES ASSUME PrintsOK(T, submitted), TypeOK,
                      NEW i \in DOMAIN T, NEW o \in submitted, o.id \in {T[i].maker, T[i].taker}
               PROVE /\ T[i].qty > 0
                     /\ o.type = "Limit" => Allows(o.side, o.price, T[i].price)
  BY DEF LimitsRespected
<1>2. T \in Seq(Trade)
  BY <1>1 DEF TypeOK
<1> HIDE DEF T
<1>3. i \in 1 .. Len(T)
  BY <1>1, <1>2, LenProperties
<1>4. TradeOK(T[i], submitted)
  BY <1>1, <1>3 DEF PrintsOK
<1>5. QED BY <1>1, <1>4 DEF TradeOK

LEMMA AccountsSay ==
  AccountInv => BookConsistent /\ OnePlace /\ LimitsRespected
<1>1. SUFFICES ASSUME AccountInv PROVE BookConsistent /\ OnePlace /\ LimitsRespected
  OBVIOUS
<1>2. GoodEngine(eng) /\ TypeOK /\ Placed(eng) /\ PrintsOK(out.trades, submitted)
  BY <1>1 DEF AccountInv, IInv, TypeOK, GoodEngine, Accounts
<1>3. Tidy(eng.book)
  BY <1>2 DEF Placed
<1>4. QED BY <1>2, <1>3, TidyConsistent, PlacedOnce, PrintsRespect

(* No sequence of calls leaves an order in the book that a cancel would not find,
   a locator without its order, or a level without orders. *)
THEOREM MachineBookConsistent == Spec => []BookConsistent
BY MachineAccounts, AccountsSay, PTL

(* No sequence of calls puts an order in two places: halts move the book to the
   queue and uncrossings move the queue to the book without a copy left behind. *)
THEOREM MachineOnePlace == Spec => []OnePlace
BY MachineAccounts, AccountsSay, PTL

(* Every print of the machine, of continuous matching and of auctions, is of a
   positive quantity and within the limits of both orders as they were submitted. *)
THEOREM MachineLimits == Spec => []LimitsRespected
BY MachineAccounts, AccountsSay, PTL

----------------------------------------------------------------------------
(* With a session controller: its windows move the phase and the ends, and the
   flush of on_time uncrosses whatever the queue holds by then. *)

SessionAccounts == SessionInv /\ AccountInv

LEMMA StartedKeeps ==
  ASSUME SessionInv, NEW ts
  PROVE /\ GoodEngine(Started(ts))
        /\ Started(ts).book = eng.book /\ Started(ts).queue = eng.queue
        /\ Started(ts).spinning = eng.spinning
<1> DEFINE e1 == IF TalStarts(ts) THEN StartTradingAtLast(eng, sess.at.tal_end) ELSE eng
           e2 == IF ClosingStarts(ts) THEN StartClosingAuction(e1, sess.at.closing_end) ELSE e1
<1>1. sess.at.tal_end \in Int /\ sess.at.closing_end \in Int
  BY ScheduleAssumption DEF SessionInv
<1>2. "TradingAtLast" \in Phases /\ "ClosingAuction" \in Phases
  BY DEF Phases
<1>3. GoodEngine(eng)
  BY DEF SessionInv, IInv, TypeOK, GoodEngine
<1>4. GoodEngine(e1) /\ e1.book = eng.book /\ e1.queue = eng.queue /\ e1.spinning = eng.spinning
  <2>1. GoodEngine(e1)
    BY <1>1, <1>2, <1>3, SetPhase DEF StartTradingAtLast
  <2>2. e1.book = eng.book /\ e1.queue = eng.queue /\ e1.spinning = eng.spinning
    BY <1>3 DEF StartTradingAtLast, GoodEngine, IsEngine
  <2>3. QED BY <2>1, <2>2
<1>5. Started(ts) = e2
  BY DEF Started
<1> HIDE DEF e1
<1>6. GoodEngine(e2)
  BY <1>1, <1>2, <1>4, SetPhase DEF StartClosingAuction
<1>7. e2.book = eng.book /\ e2.queue = eng.queue /\ e2.spinning = eng.spinning
  BY <1>4 DEF StartClosingAuction, GoodEngine, IsEngine
<1>8. QED BY <1>5, <1>6, <1>7

LEMMA SessionCalls ==
  ASSUME SessionAccounts, SessionNext
  PROVE \E new \in Newcomers : CallStep(new)
<1>1. IInv /\ Accounts /\ traded \in [Ids -> Int] /\ now \in Int /\ SessionInv
  BY DEF SessionAccounts, AccountInv, History, IInv, TypeOK
<1>2. {} \in Newcomers /\ \A o \in Incoming \ submitted : {o} \in Newcomers
  BY DEF Newcomers
<1>3. ASSUME SessionTick PROVE CallStep({})
  <2> DEFINE ts == Smaller(now + 1, MaxTs)
  <2>1. ts \in Int BY <1>1, MachineAssumption DEF Smaller
  <2>2. Flushed("on_time", ts, Flush(Started(ts), ts)) BY <1>3 DEF SessionTick, OnTime
  <2> HIDE DEF ts
  <2>3. QED BY <1>1, <2>1, <2>2, StartedKeeps, FlushCall
<1>4. ASSUME NEW o \in Incoming, Submit(o, now)
      PROVE \E new \in Newcomers : CallStep(new)
  <2>1. o \in Incoming \ submitted /\ CallStep({o}) BY <1>1, <1>4, SubmitCall
  <2>2. QED BY <1>2, <2>1
<1>5. ASSUME NEW o \in submitted, CancelOrder(o.id) PROVE CallStep({})
  <2>1. /\ eng' = [eng EXCEPT !.book = Cancel(eng.book, o.id).book]
        /\ out' = Quiet("cancel") /\ submitted' = submitted /\ traded' = traded /\ 0 \in Int
    BY <1>5 DEF CancelOrder
  <2>2. QED BY <1>1, <2>1, BookCall
<1>6. QED BY <1>2, <1>3, <1>4, <1>5 DEF SessionNext

LEMMA SessionAccountsNext == SessionAccounts /\ [SessionNext]_svars => SessionAccounts'
<1>1. SUFFICES ASSUME SessionAccounts, [SessionNext]_svars PROVE SessionAccounts'
  OBVIOUS
<1>2. SessionInv' /\ IInv'
  BY <1>1, SessionNextKeeps DEF SessionAccounts, SessionInv
<1>3. AccountInv
  BY <1>1 DEF SessionAccounts
<1>4. CASE SessionNext
  BY <1>1, <1>2, <1>3, <1>4, SessionCalls, CallKeeps DEF SessionAccounts
<1>5. CASE UNCHANGED svars
  BY <1>2, <1>3, <1>5, AccountStutters DEF SessionAccounts, svars, vars
<1>6. QED BY <1>1, <1>4, <1>5

(* The accounts hold through a trading day as well: a window of the session changes
   the phase and flushes, both of which keep them. *)
THEOREM SessionAccount == SessionSpec => []SessionAccounts
<1>1. SessionInit => SessionAccounts
  BY InitGood, AccountInit DEF SessionInit, SessionInv, SessionAccounts
<1>2. QED BY <1>1, SessionAccountsNext, PTL DEF SessionSpec

(* A trading day keeps its books: whatever halt or auction a window of the
   session overrides, every order stays in one place, findable by a cancel, and no
   print breaks a limit. *)
THEOREM SessionBooks == SessionSpec => [](BookConsistent /\ OnePlace /\ LimitsRespected)
<1>1. SessionAccounts => BookConsistent /\ OnePlace /\ LimitsRespected
  BY AccountsSay DEF SessionAccounts
<1>2. QED BY <1>1, SessionAccount, PTL

----------------------------------------------------------------------------
(* What an order may still trade, as Live adds it up *)

(* The sum over the positions at which id is found, when there is at most one. *)
LEMMA SumAlone ==
  ASSUME NEW f, NEW S, NEW n \in Int,
         \/ S = {} /\ n = 0
         \/ \E x : S = {x} /\ f[x] = n
  PROVE SumFunctionOnSet(f, S) = n
<1>1. CASE S = {} /\ n = 0
  BY <1>1, SumEmpty
<1>2. ASSUME NEW x, S = {x}, f[x] = n PROVE SumFunctionOnSet(f, S) = n
  <2>1. IsFiniteSet(S) /\ x \in S /\ S \ {x} = {} /\ \A y \in S : f[y] \in Int
    BY <1>2, FS_Singleton
  <2>2. SumFunctionOnSet(f, S) = f[x] + SumFunctionOnSet(f, S \ {x})
    BY <2>1, SumPick
  <2>3. SumFunctionOnSet(f, S \ {x}) = 0
    BY <2>1, SumEmpty
  <2>4. QED BY <1>2, <2>2, <2>3
<1>3. QED BY <1>1, <1>2

QueueLive(e, id) ==
  SumFunctionOnSet([i \in DOMAIN e.queue |-> e.queue[i].qty],
                   {i \in DOMAIN e.queue : e.queue[i].id = id})

BookLive(e, id) ==
  SumFunctionOnSet([at \in Places(e.book) |-> OrderAt(e.book, at).qty],
                   {at \in Places(e.book) : OrderAt(e.book, at).id = id})

LEMMA QueueLiveIs ==
  ASSUME NEW e, GoodEngine(e), Placed(e), NEW id
  PROVE /\ \A o \in Range(e.queue) : o.id = id /\ o.qty \in Int => QueueLive(e, id) = o.qty
        /\ (\A o \in Range(e.queue) : o.id # id) => QueueLive(e, id) = 0
<1> DEFINE q == e.queue
           f == [i \in DOMAIN q |-> q[i].qty]
           S == {i \in DOMAIN q : q[i].id = id}
<1>1. q \in Seq(Order) /\ Distinct(q)
  BY EngineFields DEF Placed
<1>2. QueueLive(e, id) = SumFunctionOnSet(f, S)
  BY DEF QueueLive
<1> HIDE DEF q
<1>3. DOMAIN q = 1 .. Len(q)
  BY <1>1, RangeIs
<1>4. ASSUME NEW o \in Range(q), o.id = id, o.qty \in Int
      PROVE SumFunctionOnSet(f, S) = o.qty
  <2>1. PICK i \in DOMAIN q : q[i] = o
    BY DEF Range
  <2>2. S = {i}
    BY <1>1, <1>3, <1>4, <2>1 DEF Distinct
  <2>3. f[i] = o.qty
    BY <2>1
  <2> HIDE DEF f, S
  <2>4. QED BY <1>4, <2>2, <2>3, SumAlone
<1>5. ASSUME \A o \in Range(q) : o.id # id PROVE SumFunctionOnSet(f, S) = 0
  <2>1. S = {}
    BY <1>5 DEF Range
  <2> HIDE DEF f, S
  <2>2. QED BY <2>1, SumEmpty
<1>6. QED BY <1>2, <1>4, <1>5 DEF q

LEMMA BookLiveIs ==
  ASSUME NEW e, GoodEngine(e), Placed(e), OnceInBook(e.book), NEW id
  PROVE /\ \A o \in Resting(e.book) : o.id = id /\ o.qty \in Int => BookLive(e, id) = o.qty
        /\ (\A o \in Resting(e.book) : o.id # id) => BookLive(e, id) = 0
<1> DEFINE book == e.book
           f == [at \in Places(book) |-> OrderAt(book, at).qty]
           S == {at \in Places(book) : OrderAt(book, at).id = id}
<1>1. BookLive(e, id) = SumFunctionOnSet(f, S)
  BY DEF BookLive
<1>2. OnceInBook(book)
  OBVIOUS
<1> HIDE DEF book
<1>3. ASSUME NEW o \in Resting(book), o.id = id, o.qty \in Int
      PROVE SumFunctionOnSet(f, S) = o.qty
  <2>1. PICK at \in Places(book) : OrderAt(book, at) = o
    BY DEF Resting
  <2>2. S = {at}
    BY <1>2, <1>3, <2>1 DEF OnceInBook
  <2>3. f[at] = o.qty
    BY <2>1
  <2> HIDE DEF f, S
  <2>4. QED BY <1>3, <2>2, <2>3, SumAlone
<1>4. ASSUME \A o \in Resting(book) : o.id # id PROVE SumFunctionOnSet(f, S) = 0
  <2>1. S = {}
    BY <1>4 DEF Resting
  <2> HIDE DEF f, S
  <2>2. QED BY <2>1, SumEmpty
<1>5. QED BY <1>1, <1>3, <1>4 DEF book

LEMMA LiveIs ==
  ASSUME NEW e, GoodEngine(e), Placed(e), \A o \in Held(e) : o.qty \in Int, NEW id
  PROVE Live(e, id) = Room(Held(e), id)
<1> DEFINE H == Held(e)
           Q == Range(e.queue)
           R == Resting(e.book)
           a == QueueLive(e, id)
           b == BookLive(e, id)
<1>1. H = R \cup Q /\ OneEach(H) /\ Apart(R, Q)
  BY HeldOnce DEF Held, Placed
<1>2. Live(e, id) = a + b
  BY DEF Live, QueueLive, BookLive
<1>3. OnceInBook(e.book)
  BY PlacesOnce DEF Placed
<1>4. /\ \A o \in Q : o.id = id /\ o.qty \in Int => a = o.qty
      /\ (\A o \in Q : o.id # id) => a = 0
      /\ \A o \in R : o.id = id /\ o.qty \in Int => b = o.qty
      /\ (\A o \in R : o.id # id) => b = 0
  BY <1>3, QueueLiveIs, BookLiveIs
<1>5. /\ \A o \in H : Room(H, o.id) = o.qty /\ o.qty \in Int
      /\ (\A o \in H : o.id # id) => Room(H, id) = 0
  BY <1>1, RoomIs
<1> HIDE DEF H, Q, R, a, b
<1>6. ASSUME NEW o \in Q, o.id = id PROVE a + b = Room(H, id)
  <2>1. a = o.qty /\ b = 0 /\ Room(H, id) = o.qty /\ o.qty \in Int
    BY <1>1, <1>4, <1>5, <1>6 DEF Apart
  <2>2. QED BY <2>1
<1>7. ASSUME NEW o \in R, o.id = id PROVE a + b = Room(H, id)
  <2>1. b = o.qty /\ a = 0 /\ Room(H, id) = o.qty /\ o.qty \in Int
    BY <1>1, <1>4, <1>5, <1>7 DEF Apart
  <2>2. QED BY <2>1
<1>8. ASSUME \A o \in H : o.id # id PROVE a + b = Room(H, id)
  BY <1>1, <1>4, <1>5, <1>8
<1>9. QED BY <1>1, <1>2, <1>6, <1>7, <1>8 DEF H

----------------------------------------------------------------------------
(* What is bought is sold *)

SideTurnover(side, known, trades) ==
  SumFunctionOnSet([o \in known |-> TradedBy(o.id, trades)], {o \in known : o.side = side})

(* A print counts once on each side. *)
LEMMA PrintTurns ==
  ASSUME NEW known, known \subseteq Incoming, IsFiniteSet(known), NEW p \in Seq(Trade),
         NEW t \in Trade, TradeOK(t, known), NEW side \in Sides
  PROVE /\ SideTurnover(side, known, p) \in Int
        /\ SideTurnover(side, known, Append(p, t)) = SideTurnover(side, known, p) + t.qty
<1> DEFINE S == {o \in known : o.side = side}
           r == Append(p, t)
           f == [o \in known |-> TradedBy(o.id, p)]
           g == [o \in known |-> TradedBy(o.id, r)]
<1>1. \A o \in known : /\ f[o] \in Int
                       /\ g[o] = f[o] + (IF o.id \in {t.maker, t.taker} THEN t.qty ELSE 0)
  BY TradedGrows
<1>2. SideTurnover(side, known, p) = SumFunctionOnSet(f, S)
      /\ SideTurnover(side, known, r) = SumFunctionOnSet(g, S)
  BY DEF SideTurnover
<1>3. S \in SUBSET known /\ IsFiniteSet(S)
  <2>1. S \in SUBSET known OBVIOUS
  <2> HIDE DEF S
  <2>2. QED BY <2>1, FS_Subset
<1>4. PICK a \in S : /\ a.id \in {t.maker, t.taker}
                     /\ \A o \in S \ {a} : o.id \notin {t.maker, t.taker}
  <2>1. PICK buy \in known : \E sell \in known :
              /\ buy.side = "Buy" /\ sell.side = "Sell"
              /\ {t.maker, t.taker} = {buy.id, sell.id}
    BY DEF TradeOK
  <2>2. PICK sell \in known : /\ buy.side = "Buy" /\ sell.side = "Sell"
                              /\ {t.maker, t.taker} = {buy.id, sell.id}
    BY <2>1
  <2>3. \A o \in known : o.id \in {t.maker, t.taker} => o = buy \/ o = sell
    BY <2>2, MachineAssumption
  <2>4. CASE side = "Buy"
    BY <2>2, <2>3, <2>4
  <2>5. CASE side = "Sell"
    BY <2>2, <2>3, <2>5
  <2>6. QED BY <2>4, <2>5 DEF Sides
<1>5. t.qty \in Int /\ g[a] = f[a] + t.qty /\ \A x \in S \ {a} : g[x] = f[x]
  <2>1. t.qty \in Int BY DEF Trade
  <2>2. a \in known /\ \A x \in S : x \in known OBVIOUS
  <2> HIDE DEF f, g, S
  <2>3. g[a] = f[a] + t.qty BY <1>1, <1>4, <2>2
  <2>4. ASSUME NEW x \in S \ {a} PROVE g[x] = f[x]
    BY <1>1, <1>4, <2>2
  <2>5. QED BY <2>1, <2>3, <2>4
<1>6. \A x \in S : f[x] \in Int
  BY <1>1, <1>3
<1> HIDE DEF f, g, S
<1>7. SumFunctionOnSet(f, S) \in Int /\ SumFunctionOnSet(g, S) = SumFunctionOnSet(f, S) + t.qty
  BY <1>3, <1>5, <1>6, SumType, SumGrows
<1>8. QED BY <1>2, <1>7

LEMMA TurnoverEven ==
  ASSUME NEW known, known \subseteq Incoming, IsFiniteSet(known),
         NEW trades \in Seq(Trade), PrintsOK(trades, known)
  PROVE SideTurnover("Buy", known, trades) = SideTurnover("Sell", known, trades)
<1> DEFINE Even(p) == SideTurnover("Buy", known, p) = SideTurnover("Sell", known, p)
           A == {k \in Nat : k <= Len(trades) => Even(Printed(trades, k))}
<1>1. Len(trades) \in Nat
  BY PrintedGrows
<1>2. 0 \in A
  <2> DEFINE f == [o \in known |-> TradedBy(o.id, <<>>)]
  <2>1. ASSUME NEW side PROVE SideTurnover(side, known, <<>>) = 0
    <3> DEFINE S == {o \in known : o.side = side}
    <3>1. S \in SUBSET known /\ \A o \in S : f[o] = 0 BY NothingTraded
    <3>2. SideTurnover(side, known, <<>>) = SumFunctionOnSet(f, S) BY DEF SideTurnover
    <3> HIDE DEF S, f
    <3>3. QED BY <3>1, <3>2, FS_Subset, SumZero
  <2>2. Printed(trades, 0) = <<>> BY PrintedGrows
  <2>3. Even(Printed(trades, 0)) BY <2>1, <2>2
  <2>4. QED BY <2>3
<1>3. ASSUME NEW k \in Nat, k \in A PROVE k + 1 \in A
  <2>1. SUFFICES ASSUME k + 1 <= Len(trades) PROVE Even(Printed(trades, k + 1))
    OBVIOUS
  <2> DEFINE p == Printed(trades, k)
             r == Printed(trades, k + 1)
             t == trades[k + 1]
  <2>2. Even(p)
    BY <1>1, <1>3, <2>1
  <2>3. p \in Seq(Trade) /\ t \in Trade /\ k + 1 \in 1 .. Len(trades) /\ r = Append(p, t)
    BY <1>1, <2>1, PrintedGrows
  <2>4. TradeOK(t, known)
    BY <2>3 DEF PrintsOK
  <2> HIDE DEF p, r, t
  <2>5. "Buy" \in Sides /\ "Sell" \in Sides
    BY DEF Sides
  <2>6. /\ SideTurnover("Buy", known, r) = SideTurnover("Buy", known, p) + t.qty
        /\ SideTurnover("Sell", known, r) = SideTurnover("Sell", known, p) + t.qty
    BY <2>3, <2>4, <2>5, PrintTurns
  <2>7. Even(r) BY <2>2, <2>6
  <2>8. QED BY <2>7 DEF r
<1>4. A = Nat
  <2> HIDE DEF A
  <2>1. A \subseteq Nat BY DEF A
  <2>2. QED BY <1>2, <1>3, <2>1, InductSet
<1>5. Even(Printed(trades, Len(trades)))
  <2> HIDE DEF Even
  <2>1. Len(trades) \in A BY <1>1, <1>4
  <2>2. QED BY <1>1, <2>1
<1>6. Printed(trades, Len(trades)) = trades
  BY PrintedGrows
<1>7. QED BY <1>5, <1>6

----------------------------------------------------------------------------
(* The refinement: every call of the engine is a step of Exchange *)

LEMMA InitMaps == Init => Promise!Init
<1>1. SUFFICES ASSUME Init PROVE Promise!Init
  OBVIOUS
<1>2. PICK cfg \in Configs : eng = NewEngine(cfg)
  BY <1>1 DEF Init
<1>3. eng.phase = "Continuous" /\ eng.auction_end = 0
  BY <1>2 DEF NewEngine
<1>4. submitted = {} /\ now = 0
  BY <1>1 DEF Init
<1>5. /\ [o \in submitted |-> Live(eng, o.id)] = [o \in {} |-> 0]
      /\ [o \in submitted |-> traded[o.id]] = [o \in {} |-> 0]
  BY <1>4
<1>6. QED BY <1>3, <1>4, <1>5 DEF Promise!Init

(* What an order had traded and could still trade when the call began. *)
LEMMA BeforeCall ==
  ASSUME AccountInv, NEW new \in Newcomers, NEW o \in submitted \cup new
  PROVE /\ o.id \in Ids /\ traded[o.id] \in Nat /\ Promise!TradedOf(o) = traded[o.id]
        /\ Promise!OpenOf(o) = Room(Held(eng) \cup Brought(new), o.id)
<1> DEFINE V == Brought(new)
           L == Held(eng) \cup V
<1>1. /\ IInv /\ Accounts /\ GoodEngine(eng) /\ submitted \subseteq Incoming
      /\ Placed(eng) /\ FromKnown(Held(eng), submitted)
  BY DEF AccountInv, IInv, TypeOK, GoodEngine, Accounts
<1>2. new \in {{}} \cup {{x} : x \in Incoming \ submitted}
  BY DEF Newcomers
<1>3. o \in Incoming /\ o \in Order /\ o.id \in Ids /\ o.qty \in Int
  BY <1>1, <1>2, MachineAssumption DEF Order
<1>4. traded[o.id] \in Nat /\ ((\A x \in submitted : x.id # o.id) => traded[o.id] = 0)
  BY <1>3 DEF AccountInv, History
<1>5. OneEach(L)
  BY <1>1, <1>2, CallBase
<1>6. /\ \A x \in L : Room(L, x.id) = x.qty
      /\ \A id : (\A x \in L : x.id # id) => Room(L, id) = 0
  BY <1>5, RoomIs
<1>7. CASE o \in submitted
  <2>1. Promise!TradedOf(o) = traded[o.id] /\ Promise!OpenOf(o) = Live(eng, o.id)
    BY <1>7 DEF Promise!TradedOf, Promise!OpenOf
  <2>2. Live(eng, o.id) = Room(Held(eng), o.id)
    BY <1>1, LiveIs DEF FromKnown
  <2>3. \A x \in V : x.id # o.id
    BY <1>1, <1>2, <1>7, MachineAssumption DEF Brought
  <2>4. /\ \A x \in Held(eng) : Room(Held(eng), x.id) = x.qty
        /\ \A id : (\A x \in Held(eng) : x.id # id) => Room(Held(eng), id) = 0
    BY <1>1, HeldOnce, RoomIs
  <2>5. Room(Held(eng), o.id) = Room(L, o.id)
    <3>1. CASE \E x \in Held(eng) : x.id = o.id
      <4>1. PICK x \in Held(eng) : x.id = o.id BY <3>1
      <4>2. x \in L OBVIOUS
      <4> HIDE DEF L
      <4>3. QED BY <1>6, <2>4, <4>1, <4>2
    <3>2. CASE ~ \E x \in Held(eng) : x.id = o.id
      <4>1. \A x \in L : x.id # o.id BY <2>3, <3>2
      <4> HIDE DEF L
      <4>2. QED BY <1>6, <2>4, <3>2, <4>1
    <3>3. QED BY <3>1, <3>2
  <2>6. QED BY <1>3, <1>4, <2>1, <2>2, <2>5
<1>8. CASE o \notin submitted
  <2>1. new = {o}
    BY <1>2, <1>8
  <2>2. Promise!TradedOf(o) = 0 /\ Promise!OpenOf(o) = (IF o.qty > 0 THEN o.qty ELSE 0)
    BY <1>8 DEF Promise!TradedOf, Promise!OpenOf, Promise!Size
  <2>3. \A x \in submitted : x.id # o.id
    BY <1>1, <1>3, <1>8, MachineAssumption
  <2>4. Apart(Held(eng), {o})
    BY <1>1, <1>3, <1>8, Newcomer
  <2>5. \A x \in Held(eng) : x.id # o.id
    BY <2>4 DEF Apart
  <2>6. CASE o.qty > 0
    <3>1. o \in L BY <2>1, <2>6 DEF Brought
    <3> HIDE DEF L
    <3>2. Room(L, o.id) = o.qty BY <1>6, <3>1
    <3>3. QED BY <1>3, <1>4, <2>2, <2>3, <2>6, <3>2 DEF L
  <2>7. CASE ~(o.qty > 0)
    <3>1. \A x \in L : x.id # o.id BY <2>1, <2>5, <2>7 DEF Brought
    <3> HIDE DEF L
    <3>2. Room(L, o.id) = 0 BY <1>6, <3>1
    <3>3. QED BY <1>3, <1>4, <2>2, <2>3, <2>7, <3>2 DEF L
  <2>8. QED BY <2>6, <2>7
<1>9. QED BY <1>7, <1>8

(* What it has traded and may still trade when the call has ended. *)
LEMMA AfterCall ==
  ASSUME AccountInv, AccountInv', NEW new \in Newcomers, CallStep(new),
         NEW o \in submitted'
  PROVE /\ traded'[o.id] = traded[o.id] + TradedBy(o.id, out'.trades)
        /\ TradedBy(o.id, out'.trades) \in Nat
        /\ Live(eng', o.id) \in Nat
        /\ Live(eng', o.id) <= Room(Held(eng) \cup Brought(new), o.id)
                                 - TradedBy(o.id, out'.trades)
<1> DEFINE T == out'.trades
           e == eng'
           known == submitted'
           L == Held(eng) \cup Brought(new)
           H == Held(e)
           c == CallTerms(new)
           id == o.id
<1>1. /\ known = submitted \cup new /\ Kept(e, {}, T, c)
      /\ traded' = [x \in Ids |-> traded[x] + TradedBy(x, T)]
  BY DEF CallStep
<1>2. /\ known \subseteq Incoming /\ GoodEngine(e) /\ Placed(e) /\ FromKnown(H, known)
      /\ T \in Seq(Trade) /\ PrintsOK(T, known)
  BY DEF AccountInv, IInv, TypeOK, GoodEngine, Accounts
<1>3. known \subseteq Order /\ id \in Ids
  BY <1>2, MachineAssumption DEF Order
<1>4. /\ OneEach(L) /\ L \subseteq Order /\ FromKnown(L, submitted \cup new)
      /\ submitted \cup new \subseteq Order
  BY CallBase DEF AccountInv, Newcomers
<1>5. c = Terms(submitted \cup new, L)
  BY DEF CallTerms
<1> HIDE DEF T, e, known, L, H, c, id
<1>6. c.room[id] = Room(L, id) /\ Room(L, id) \in Nat
  BY <1>3, <1>4, <1>5, TermsAre
<1>7. TradedBy(id, T) \in Nat
  BY <1>2, <1>3, PrintsCount
<1>8. /\ \A x \in H : TradedBy(x.id, T) + x.qty <= c.room[x.id]
      /\ TradedBy(id, T) <= c.room[id]
  BY <1>1, <1>3, CallEnded DEF H
<1>9. \A x \in H : x.qty \in Nat
  BY <1>2 DEF FromKnown
<1>10. Live(e, id) = Room(H, id)
  BY <1>2, <1>9, LiveIs DEF H
<1>11. /\ \A x \in H : Room(H, x.id) = x.qty
       /\ (\A x \in H : x.id # id) => Room(H, id) = 0
  BY <1>2, HeldOnce, RoomIs DEF H
<1>12. Live(e, id) \in Nat /\ Live(e, id) <= Room(L, id) - TradedBy(id, T)
  <2>1. CASE \E x \in H : x.id = id
    <3>1. PICK x \in H : x.id = id BY <2>1
    <3>2. Live(e, id) = x.qty /\ x.qty \in Nat /\ TradedBy(id, T) + x.qty <= c.room[id]
      BY <1>8, <1>9, <1>10, <1>11, <3>1
    <3>3. QED BY <1>6, <1>7, <3>2
  <2>2. CASE ~ \E x \in H : x.id = id
    <3>1. Live(e, id) = 0 BY <1>10, <1>11, <2>2
    <3>2. QED BY <1>6, <1>7, <1>8, <3>1
  <2>3. QED BY <2>1, <2>2
<1>13. traded'[id] = traded[id] + TradedBy(id, T)
  BY <1>1, <1>3
<1>14. QED BY <1>7, <1>12, <1>13 DEF T, e, L, id

LEMMA AccountedMaps ==
  ASSUME AccountInv, AccountInv', NEW new \in Newcomers, CallStep(new)
  PROVE Promise!Accounted
<1>1. submitted' = submitted \cup new
  BY DEF CallStep
<1>2. ASSUME NEW o \in submitted'
      PROVE /\ traded'[o.id] \in Nat /\ traded'[o.id] >= Promise!TradedOf(o)
            /\ Live(eng', o.id) \in 0 .. (Promise!TradedOf(o) + Promise!OpenOf(o) - traded'[o.id])
  <2> DEFINE b == TradedBy(o.id, out'.trades)
             l == Live(eng', o.id)
             r == Room(Held(eng) \cup Brought(new), o.id)
             old == traded[o.id]
             t == traded'[o.id]
  <2>1. old \in Nat /\ Promise!TradedOf(o) = old /\ Promise!OpenOf(o) = r
    BY <1>1, BeforeCall
  <2>2. t = old + b /\ b \in Nat /\ l \in Nat /\ l <= r - b
    BY AfterCall
  <2>3. r \in Int
    <3>1. r \in Nat
      <4> DEFINE L == Held(eng) \cup Brought(new)
      <4>1. /\ OneEach(L) /\ L \subseteq Order /\ FromKnown(L, submitted \cup new)
            /\ submitted \cup new \subseteq Order
        BY CallBase DEF AccountInv, Newcomers
      <4>2. o.id \in Ids BY <1>1, BeforeCall
      <4> HIDE DEF L
      <4>3. Room(L, o.id) \in Nat BY <4>1, <4>2, TermsAre
      <4>4. QED BY <4>3 DEF L
    <3>2. QED BY <3>1
  <2> HIDE DEF b, l, r, old, t
  <2>4. /\ t \in Nat /\ t >= old /\ l \in 0 .. (old + r - t)
    BY <2>1, <2>2, <2>3
  <2>5. QED BY <2>1, <2>4 DEF l, t
<1>3. QED BY <1>2 DEF Promise!Accounted

LEMMA TurnoverMaps ==
  ASSUME AccountInv, AccountInv', NEW new \in Newcomers, CallStep(new)
  PROVE Promise!Turnover("Buy") = Promise!Turnover("Sell")
<1> DEFINE T == out'.trades
           known == submitted'
           f == [o \in known |-> TradedBy(o.id, T)]
<1>1. submitted' = submitted \cup new
  BY DEF CallStep
<1>2. /\ known \subseteq Incoming /\ IsFiniteSet(known) /\ T \in Seq(Trade) /\ PrintsOK(T, known)
  BY DEF AccountInv, IInv, TypeOK, Accounts, History
<1>3. SideTurnover("Buy", known, T) = SideTurnover("Sell", known, T)
  <2> HIDE DEF T, known
  <2>1. QED BY <1>2, TurnoverEven
<1>4. ASSUME NEW o \in submitted'
      PROVE traded'[o.id] - Promise!TradedOf(o) = TradedBy(o.id, T)
  <2> DEFINE b == TradedBy(o.id, T)
  <2>1. traded[o.id] \in Nat /\ Promise!TradedOf(o) = traded[o.id]
    BY <1>1, BeforeCall
  <2>2. traded'[o.id] = traded[o.id] + b /\ b \in Nat
    BY AfterCall
  <2> HIDE DEF b
  <2>3. traded'[o.id] - Promise!TradedOf(o) = b
    BY <2>1, <2>2
  <2>4. QED BY <2>3 DEF b
<1>5. [o \in submitted' |-> traded'[o.id] - Promise!TradedOf(o)] = f
  BY <1>4
<1>6. ASSUME NEW side
      PROVE Promise!Turnover(side) = SideTurnover(side, known, T)
  <2>1. Promise!Turnover(side) =
          Promise!SumFunctionOnSet([o \in submitted' |-> traded'[o.id] - Promise!TradedOf(o)],
                                   {o \in submitted' : o.side = side})
    BY DEF Promise!Turnover
  <2>2. Promise!Turnover(side) = Promise!SumFunctionOnSet(f, {o \in known : o.side = side})
    BY <1>5, <2>1
  <2>3. \A g, S : Promise!SumFunctionOnSet(g, S) = SumFunctionOnSet(g, S)
    BY DEF Promise!SumFunctionOnSet, Promise!FoldFunctionOnSet, Promise!MapThenFoldSet,
           SumFunctionOnSet, FoldFunctionOnSet, MapThenFoldSet
  <2> HIDE DEF f, known, T
  <2>4. QED BY <2>2, <2>3 DEF SideTurnover, f
<1>7. QED BY <1>3, <1>6

(* Callers never go back in time, nor past the bound. *)
InTime == now \in 0 .. MaxTs

LEMMA ClockMoves ==
  ASSUME InTime, Next
  PROVE InTime' /\ now' >= now
<1>1. now \in Nat /\ now <= MaxTs /\ MaxTs \in Nat /\ LastArrival <= MaxTs /\ LastJump <= MaxTs
      /\ LastArrival \in Nat /\ LastJump \in Nat
  BY MachineAssumption DEF InTime
<1>2. ASSUME NEW ts \in Int, ts >= now, ts <= MaxTs, now' = ts PROVE InTime' /\ now' >= now
  BY <1>1, <1>2 DEF InTime
<1>3. ASSUME NEW o \in Incoming, NEW ts \in Times(LastArrival), Submit(o, ts)
      PROVE InTime' /\ now' >= now
  <2>1. ts \in Int /\ ts >= now /\ ts <= MaxTs BY <1>1 DEF Times
  <2>2. QED BY <1>2, <1>3, <2>1 DEF Submit, Submitted
<1>4. ASSUME NEW ts \in Times(LastJump), Advance(ts) PROVE InTime' /\ now' >= now
  <2>1. ts \in Int /\ ts >= now /\ ts <= MaxTs BY <1>1 DEF Times
  <2>2. QED BY <1>2, <1>4, <2>1 DEF Advance, Flushed
<1>5. CASE Tick
  <2> DEFINE ts == Smaller(now + 1, MaxTs)
  <2>1. ts \in Int /\ ts >= now /\ ts <= MaxTs BY <1>1 DEF Smaller
  <2>2. now' = ts BY <1>5 DEF Tick, Advance, Flushed
  <2> HIDE DEF ts
  <2>3. QED BY <1>2, <2>1, <2>2
<1>6. ASSUME now' = now PROVE InTime' /\ now' >= now
  BY <1>1, <1>6 DEF InTime
<1>7. QED BY <1>3, <1>4, <1>5, <1>6 DEF Next, CancelOrder, ModifyOrder

(* A call during a suspension that lasts trades nothing and leaves its end. *)
LEMMA SuspensionMaps ==
  ASSUME AccountInv, AccountInv', CallInv, Next, NEW new \in Newcomers, CallStep(new),
         eng.phase \in {"Halted", "Auction"}, now' < eng.auction_end
  PROVE Promise!Suspended
<1>1. /\ out'.trades = <<>> /\ eng'.auction_end = eng.auction_end
      /\ eng'.phase \in {"Halted", "Auction"}
  BY CallHeld DEF CallHolds
<1>2. submitted' = submitted \cup new
  BY DEF CallStep
<1>3. ASSUME NEW o \in submitted' PROVE traded'[o.id] = Promise!TradedOf(o)
  <2>1. TradedBy(o.id, out'.trades) = 0
    BY <1>1, NothingTraded
  <2>2. traded[o.id] \in Nat /\ Promise!TradedOf(o) = traded[o.id]
    BY <1>2, BeforeCall
  <2>3. traded'[o.id] = traded[o.id] + TradedBy(o.id, out'.trades)
    BY AfterCall
  <2>4. QED BY <2>1, <2>2, <2>3
<1>4. QED BY <1>1, <1>3 DEF Promise!Suspended

(* The invariant that the refinement needs. *)
MappedInv == AccountInv /\ CallInv /\ InTime

LEMMA StepMaps ==
  ASSUME MappedInv, MappedInv', Next
  PROVE Promise!Next
<1>1. PICK new \in Newcomers : CallStep(new)
  BY NextCalls DEF MappedInv
<1>2. new \in {{}} \cup {{o} : o \in Incoming \ submitted}
  BY DEF Newcomers
<1>3. submitted' = submitted \cup new
  BY <1>1 DEF CallStep
<1>4. now' >= now
  BY ClockMoves DEF MappedInv
<1>5. Promise!Accounted /\ Promise!Turnover("Buy") = Promise!Turnover("Sell")
  BY <1>1, AccountedMaps, TurnoverMaps DEF MappedInv
<1>6. eng.phase \in {"Halted", "Auction"} /\ now' < eng.auction_end => Promise!Suspended
  BY <1>1, SuspensionMaps DEF MappedInv
<1>7. Promise!Step(new)
  BY <1>3, <1>4, <1>5, <1>6 DEF Promise!Step
<1>8. QED BY <1>2, <1>7 DEF Promise!Next

LEMMA MappedNext == MappedInv /\ [Next]_vars => MappedInv'
<1>1. SUFFICES ASSUME MappedInv, [Next]_vars PROVE MappedInv'
  OBVIOUS
<1>2. AccountInv' /\ CallInv'
  BY <1>1, AccountNext, CallNext DEF MappedInv
<1>3. CASE Next
  BY <1>1, <1>2, <1>3, ClockMoves DEF MappedInv
<1>4. CASE UNCHANGED vars
  BY <1>1, <1>2, <1>4 DEF MappedInv, InTime, vars
<1>5. QED BY <1>1, <1>3, <1>4

(* The engine implements Exchange: with its book, its queue, its auctions and its
   halts, and for every mixture of submissions, flushes, cancels and modifications,
   no order trades or keeps more than it had, what is closed stays closed, what is
   bought is sold, and a suspension holds until its announced end. *)
THEOREM MachineImplements == Spec => ImplementsExchange
<1>1. Init => MappedInv
  <2>1. Init => InTime
    BY MachineAssumption DEF Init, InTime
  <2>2. QED BY <2>1, AccountInit, CallInit DEF MappedInv
<1>2. MappedInv /\ MappedInv' /\ [Next]_vars => [Promise!Next]_(Promise!xvars)
  <2>1. SUFFICES ASSUME MappedInv, MappedInv', [Next]_vars
                 PROVE [Promise!Next]_(Promise!xvars)
    OBVIOUS
  <2>2. CASE Next
    BY <2>1, <2>2, StepMaps
  <2>3. CASE UNCHANGED vars
    BY <2>3 DEF vars, Promise!xvars
  <2>4. QED BY <2>1, <2>2, <2>3
<1>3. QED BY <1>1, <1>2, MappedNext, InitMaps, PTL DEF Spec, ImplementsExchange, Promise!Spec

----------------------------------------------------------------------------
(* What the refinement means for one order: of the machine, and of the session,
   whose windows may cut a suspension short but cannot touch the accounts. *)

LEMMA OpenNow ==
  ASSUME AccountInv, NEW o \in submitted
  PROVE /\ traded[o.id] \in Nat /\ Live(eng, o.id) \in Nat
        /\ Promise!TradedOf(o) = traded[o.id] /\ Promise!OpenOf(o) = Live(eng, o.id)
<1>1. {} \in Newcomers
  BY DEF Newcomers
<1>2. traded[o.id] \in Nat
  BY <1>1, BeforeCall
<1>3. /\ GoodEngine(eng) /\ Placed(eng) /\ FromKnown(Held(eng), submitted)
      /\ submitted \subseteq Order /\ o.id \in Ids
  BY MachineAssumption DEF AccountInv, IInv, TypeOK, GoodEngine, Accounts, Order
<1>4. Held(eng) \subseteq Order /\ OneEach(Held(eng))
  BY <1>3, HeldOnce
<1>5. Room(Held(eng), o.id) \in Nat
  BY <1>3, <1>4, TermsAre
<1>6. Live(eng, o.id) = Room(Held(eng), o.id)
  BY <1>3, LiveIs DEF FromKnown
<1>7. QED BY <1>2, <1>5, <1>6 DEF Promise!TradedOf, Promise!OpenOf

LEMMA CallCovers ==
  ASSUME AccountInv, AccountInv', Promise!NoOverfill,
         NEW new \in Newcomers, CallStep(new)
  PROVE Promise!NoOverfill'
<1>1. submitted' = submitted \cup new /\ Promise!Accounted
  BY AccountedMaps DEF CallStep
<1>2. SUFFICES ASSUME NEW o \in submitted'
               PROVE traded'[o.id] + Live(eng', o.id) <= Promise!Size(o)
  BY DEF Promise!NoOverfill, Promise!Size
<1> DEFINE t == traded'[o.id]
           l == Live(eng', o.id)
           before == Promise!TradedOf(o)
           left == Promise!OpenOf(o)
<1>3. o.qty \in Int
  BY MachineAssumption DEF AccountInv, IInv, TypeOK, Order
<1>4. before \in Nat /\ left \in Nat /\ before + left <= Promise!Size(o)
  <2>1. CASE o \in submitted
    BY <2>1, OpenNow DEF Promise!NoOverfill
  <2>2. CASE o \notin submitted
    BY <1>3, <2>2 DEF Promise!TradedOf, Promise!OpenOf, Promise!Size
  <2>3. QED BY <2>1, <2>2
<1>5. t \in Nat /\ l \in 0 .. (before + left - t)
  BY <1>1 DEF Promise!Accounted
<1>6. Promise!Size(o) \in Nat
  BY <1>3 DEF Promise!Size
<1> HIDE DEF t, l, before, left
<1>7. t + l <= Promise!Size(o)
  BY <1>4, <1>5, <1>6
<1>8. QED BY <1>7 DEF t, l

(* What is closed before a call is closed, with the same fills, after it. *)
StaysClosed ==
  \A o \in submitted :
    Live(eng, o.id) = 0 => Live(eng', o.id) = 0 /\ traded'[o.id] = traded[o.id]

LEMMA CallCloses ==
  ASSUME AccountInv, AccountInv', NEW new \in Newcomers, CallStep(new)
  PROVE StaysClosed
<1>1. submitted' = submitted \cup new /\ Promise!Accounted
  BY AccountedMaps DEF CallStep
<1>2. SUFFICES ASSUME NEW o \in submitted, Live(eng, o.id) = 0
               PROVE Live(eng', o.id) = 0 /\ traded'[o.id] = traded[o.id]
  BY DEF StaysClosed
<1> DEFINE t == traded'[o.id]
           l == Live(eng', o.id)
           before == traded[o.id]
<1>3. /\ before \in Nat /\ Promise!TradedOf(o) = before /\ Promise!OpenOf(o) = 0
  BY <1>2, OpenNow
<1>4. o \in submitted'
  BY <1>1
<1>5. t \in Nat /\ t >= before /\ l \in 0 .. (before + 0 - t)
  BY <1>1, <1>3, <1>4 DEF Promise!Accounted
<1> HIDE DEF t, l, before
<1>6. l = 0 /\ t = before
  BY <1>3, <1>5
<1>7. QED BY <1>6 DEF t, l, before

LEMMA NoneAtStart == Init => Promise!NoOverfill
BY DEF Init, Promise!NoOverfill

(* An order entered by its first submission is never filled beyond its quantity,
   with what it has resting or queued: not by an auction that pairs it, matching
   that follows in the same call, an amendment or a second way into the book. *)
THEOREM MachineNoOverfill == Spec => []Promise!NoOverfill
<1>1. AccountInv /\ AccountInv' /\ Promise!NoOverfill /\ [Next]_vars => Promise!NoOverfill'
  <2>1. SUFFICES ASSUME AccountInv, AccountInv', Promise!NoOverfill, [Next]_vars
                 PROVE Promise!NoOverfill'
    OBVIOUS
  <2>2. CASE Next
    BY <2>1, <2>2, NextCalls, CallCovers
  <2>3. CASE UNCHANGED vars
    BY <2>1, <2>3 DEF vars, Promise!NoOverfill, Promise!Size
  <2>4. QED BY <2>1, <2>2, <2>3
<1>2. QED BY <1>1, NoneAtStart, MachineAccounts, PTL DEF Spec

(* What is filled, cancelled or killed is closed for good: no flush, uncrossing or
   restocking brings it back. *)
THEOREM MachineClosedForGood == Spec => [][StaysClosed]_vars
<1>1. AccountInv /\ AccountInv' /\ [Next]_vars => [StaysClosed]_vars
  BY NextCalls, CallCloses
<1>2. QED BY <1>1, MachineAccounts, PTL DEF Spec

(* The same under a session controller, whose windows override halts and auctions. *)
THEOREM SessionNoOverfill == SessionSpec => []Promise!NoOverfill
<1>1. SessionAccounts /\ SessionAccounts' /\ Promise!NoOverfill /\ [SessionNext]_svars
      => Promise!NoOverfill'
  <2>1. SUFFICES ASSUME SessionAccounts, SessionAccounts', Promise!NoOverfill,
                        [SessionNext]_svars
                 PROVE Promise!NoOverfill'
    OBVIOUS
  <2>2. CASE SessionNext
    <3>1. AccountInv /\ AccountInv' BY <2>1 DEF SessionAccounts
    <3>2. QED BY <2>1, <2>2, <3>1, SessionCalls, CallCovers
  <2>3. CASE UNCHANGED svars
    BY <2>1, <2>3 DEF svars, Promise!NoOverfill, Promise!Size
  <2>4. QED BY <2>1, <2>2, <2>3
<1>2. SessionInit => Promise!NoOverfill
  BY NoneAtStart DEF SessionInit
<1>3. QED BY <1>1, <1>2, SessionAccount, PTL DEF SessionSpec

----------------------------------------------------------------------------
(* The closing auction and the end of the day *)

Closing == {"ClosingAuction", "Closed"}

(* What a call on engine e, with the outcome new and trades, does to the end of
   the day: it cannot begin it, it may close the market with an empty queue, and
   it finds a closed market as it leaves it. *)
DayKept(e, new, trades) ==
  /\ new.phase \in Closing => e.phase \in Closing
  /\ new.phase = "Closed" => new.queue = <<>> \/ e.phase = "Closed"
  /\ e.phase = "Closed" =>
       new.phase = "Closed" /\ new.queue = e.queue /\ new.book = e.book /\ trades = <<>>

LEMMA TradesDay ==
  ASSUME NEW e, GoodEngine(e), NEW trades \in Seq(Trade)
  PROVE LET new == MaybeTriggerCircuitBreaker(OnTrades(e, trades), trades)
        IN  \/ new.phase = e.phase /\ new.queue = e.queue
            \/ new.phase = "Halted" /\ e.phase = "Continuous"
<1> DEFINE told == OnTrades(e, trades)
<1>1. GoodEngine(told) /\ told.phase = e.phase /\ told.queue = e.queue
  BY OnTradesGood, OnTradesPhase
<1> HIDE DEF told
<1>2. LET new == MaybeTriggerCircuitBreaker(told, trades)
      IN  \/ new.phase = told.phase /\ new.queue = told.queue
          \/ told.phase = "Continuous" /\ new.phase = "Halted"
  BY <1>1, BreakerPhase
<1>3. QED BY <1>1, <1>2 DEF told

LEMMA FlushDay ==
  ASSUME NEW e0, GoodEngine(e0), NEW ts \in Int
  PROVE DayKept(e0, Flush(e0, ts).eng, Flush(e0, ts).trades)
<1> DEFINE e == ExpireHalt(ExpireTradingAtLast(e0, ts), ts)
           u == UncrossAuction(e, e.auction_end)
           p == IF e.phase = "ClosingAuction" THEN "Closed" ELSE "Continuous"
           next == [u.eng EXCEPT !.phase = p]
           new == MaybeTriggerCircuitBreaker(OnTrades(next, u.trades), u.trades)
<1>1. Flush(e0, ts) = ExpireAuction(e, ts)
  BY DEF Flush
<1>2. GoodEngine(e)
  BY ExpireGood
<1>3. /\ e.phase \in Closing => e.phase = e0.phase
      /\ e0.phase \in Closing => e = e0
  BY DEF ExpireHalt, ExpireTradingAtLast, Closing, GoodEngine, IsEngine
<1> HIDE DEF e
<1>4. CASE ~AuctionDue(e, ts)
  <2>1. Flush(e0, ts) = [eng |-> e, trades |-> <<>>]
    BY <1>1, <1>4 DEF ExpireAuction
  <2>2. QED BY <1>3, <2>1 DEF DayKept, Closing
<1>5. CASE AuctionDue(e, ts)
  <2>1. e.phase \in {"Auction", "ClosingAuction"} /\ e.auction_end \in Int
    BY <1>2, <1>5, EngineFields DEF AuctionDue
  <2>2. Flush(e0, ts) = [eng |-> new, trades |-> u.trades]
    BY <1>1, <1>5 DEF ExpireAuction, EndAuction
  <2>3. GoodEngine(u.eng) /\ u.trades \in Seq(Trade) /\ u.eng.queue = <<>>
    BY <1>2, <2>1, UncrossGood, UncrossEmpties DEF GoodOutcome
  <2> HIDE DEF u
  <2>4. GoodEngine(next) /\ next.phase = p /\ next.queue = <<>>
    <3>1. p \in Phases /\ 0 \in Int BY DEF Phases
    <3>2. GoodEngine(next) BY <2>3, <3>1, SetPhase
    <3>3. QED BY <2>3, <3>2 DEF GoodEngine, IsEngine
  <2> HIDE DEF next
  <2>5. \/ new.phase = p /\ new.queue = <<>>
        \/ new.phase = "Halted" /\ p = "Continuous"
    BY <2>3, <2>4, TradesDay
  <2> HIDE DEF new
  <2>6. e0.phase # "Closed"
    BY <1>3, <2>1 DEF Closing
  <2>7. new.phase \in Closing => e0.phase \in Closing
    BY <1>3, <2>1, <2>5 DEF Closing
  <2>8. QED BY <2>2, <2>5, <2>6, <2>7 DEF DayKept
<1>6. QED BY <1>4, <1>5

LEMMA SettledDay ==
  ASSUME NEW flushed \in Seq(Trade), NEW r, GoodOutcome(r), r.eng.phase \notin Closing
  PROVE Settled(flushed, r).eng.phase \notin Closing
<1> DEFINE trades == flushed \o r.trades
<1>1. trades \in Seq(Trade)
  <2> DEFINE new == r.trades
  <2>1. new \in Seq(Trade) BY DEF GoodOutcome
  <2> HIDE DEF new
  <2>2. flushed \o new \in Seq(Trade) BY <2>1, ConcatProperties
  <2>3. QED BY <2>2 DEF new
<1>2. Settled(flushed, r).eng = MaybeTriggerCircuitBreaker(OnTrades(r.eng, trades), trades)
  BY DEF Settled, Result
<1> HIDE DEF trades
<1>3. GoodEngine(r.eng)
  BY DEF GoodOutcome
<1>4. QED BY <1>1, <1>2, <1>3, TradesDay DEF Closing

(* process() in a phase that is not of the closing: it does not begin it. *)
LEMMA OpenDay ==
  ASSUME NEW e, GoodEngine(e), e.phase \notin Closing,
         NEW flushed \in Seq(Trade), NEW o \in Order, NEW ts \in Int
  PROVE /\ ProcessTradingAtLast(e, flushed, o, ts).eng.phase \notin Closing
        /\ ProcessContinuous(e, flushed, o, ts).eng.phase \notin Closing
<1> DEFINE at_last == [o EXCEPT !.type = "Limit", !.price = e.last]
           end == ts + e.cfg.vol_auction
           auction == [e EXCEPT !.phase = "Auction", !.auction_end = end]
           nothing == [eng |-> e, trades |-> <<>>, resting |-> None]
           queued == Result(QueueInAuction(auction, o), flushed, None, "Accepted")
<1>1. \A s : Result(e, flushed, None, s).eng = e
  BY DEF Result
<1>2. \A p : /\ ProcessLimit(e, p, ts).eng.phase = e.phase
             /\ ProcessMarket(e, p, ts).eng.phase = e.phase
  BY RestLeftPhase DEF ProcessLimit, ProcessMarket
<1>3. \A p \in Order : /\ Settled(flushed, ProcessLimit(e, p, ts)).eng.phase \notin Closing
                       /\ Settled(flushed, ProcessMarket(e, p, ts)).eng.phase \notin Closing
  BY <1>2, ProcessLimitGood, ProcessMarketGood, SettledDay
<1>4. ProcessTradingAtLast(e, flushed, o, ts).eng.phase \notin Closing
  <2>1. e.last # None => at_last \in Order
    <3>1. e.last # None => e.last \in Prices BY EngineFields
    <3>2. QED BY <3>1 DEF Order
  <2>2. ProcessTradingAtLast(e, flushed, o, ts) =
          IF e.last = None THEN Result(e, flushed, None, "NoReferencePrice")
          ELSE IF o.type = "Limit" /\ o.price # e.last
          THEN Result(e, flushed, None, "PriceNotAtLast")
          ELSE Settled(flushed, ProcessLimit(e, at_last, ts))
    BY DEF ProcessTradingAtLast
  <2> HIDE DEF at_last
  <2>3. QED BY <1>1, <1>3, <2>1, <2>2
<1>5. queued.eng.phase \notin Closing
  BY DEF Result, QueueInAuction, Closing, GoodEngine, IsEngine
<1>6. Settled(flushed, nothing).eng.phase \notin Closing
  <2>1. GoodOutcome(nothing) /\ nothing.eng.phase \notin Closing BY DEF GoodOutcome
  <2> HIDE DEF nothing
  <2>2. QED BY <2>1, SettledDay
<1>7. ProcessContinuous(e, flushed, o, ts) \in
        {queued, Settled(flushed, nothing), Settled(flushed, ProcessMarket(e, o, ts)),
         Settled(flushed, ProcessLimit(e, o, ts))}
  BY DEF ProcessContinuous
<1> HIDE DEF queued, nothing
<1>8. QED BY <1>3, <1>4, <1>5, <1>6, <1>7

LEMMA ProcessDay ==
  ASSUME NEW e0, GoodEngine(e0), NEW o \in Order, NEW ts \in Int
  PROVE DayKept(e0, Process(e0, o, ts).eng, Process(e0, o, ts).trades)
<1> DEFINE f == Flush(e0, ts)
           e == f.eng
           flushed == f.trades
           status == PreAccept(e.cfg, e.phase, o)
           refused(s) == Result(e, flushed, None, s)
           queued == Result(QueueInAuction(e, o), flushed, None, "Accepted")
           r == Process(e0, o, ts)
<1>1. GoodEngine(e) /\ flushed \in Seq(Trade) /\ DayKept(e0, e, flushed)
  BY FlushGood, FlushDay DEF GoodOutcome
<1>2. \/ \E s \in {status, "Accepted", "MarketHalted"} : r = refused(s)
      \/ e.phase \in {"Halted", "Auction", "ClosingAuction"} /\ r = queued
      \/ e.phase = "TradingAtLast" /\ r = ProcessTradingAtLast(e, flushed, o, ts)
      \/ e.phase = "Continuous" /\ r = ProcessContinuous(e, flushed, o, ts)
  <2>1. r = IF status # "Accepted" THEN Result(e, flushed, None, status)
            ELSE CASE e.phase = "Closed" -> Result(e, flushed, None, "Accepted")
                   [] e.phase = "Halted" ->
                        IF e.cfg.queue_halt
                        THEN Result(QueueInAuction(e, o), flushed, None, "Accepted")
                        ELSE Result(e, flushed, None, "MarketHalted")
                   [] e.phase = "TradingAtLast" -> ProcessTradingAtLast(e, flushed, o, ts)
                   [] e.phase \in {"Auction", "ClosingAuction"} ->
                        Result(QueueInAuction(e, o), flushed, None, "Accepted")
                   [] e.phase = "Continuous" -> ProcessContinuous(e, flushed, o, ts)
    BY DEF Process, ProcessFlushed
  <2>2. e.phase \in Phases BY <1>1, EngineFields
  <2> HIDE DEF r, f, status
  <2>3. QED BY <2>1, <2>2 DEF Phases
<1>3. /\ \A s : refused(s).eng = e /\ refused(s).trades = flushed
      /\ queued.eng.phase = e.phase
  BY <1>1 DEF Result, QueueInAuction, GoodEngine, IsEngine
<1> HIDE DEF r, f, status, refused, queued
<1>4. CASE \E s \in {status, "Accepted", "MarketHalted"} : r = refused(s)
  <2>1. DayKept(e0, r.eng, r.trades) BY <1>1, <1>3, <1>4
  <2>2. QED BY <2>1 DEF r
<1>5. CASE e.phase \in {"Halted", "Auction", "ClosingAuction"} /\ r = queued
  <2>1. e0.phase # "Closed" BY <1>1, <1>5 DEF DayKept
  <2>2. DayKept(e0, r.eng, r.trades) BY <1>1, <1>3, <1>5, <2>1 DEF DayKept
  <2>3. QED BY <2>2 DEF r
<1>6. CASE \/ e.phase = "TradingAtLast" /\ r = ProcessTradingAtLast(e, flushed, o, ts)
           \/ e.phase = "Continuous" /\ r = ProcessContinuous(e, flushed, o, ts)
  <2>1. e0.phase # "Closed" /\ e.phase \notin Closing BY <1>1, <1>6 DEF DayKept, Closing
  <2> HIDE DEF e, flushed
  <2>2. r.eng.phase \notin Closing BY <1>1, <1>6, <2>1, OpenDay
  <2>3. DayKept(e0, r.eng, r.trades) BY <2>1, <2>2 DEF DayKept, Closing
  <2>4. QED BY <2>3 DEF r
<1>7. QED BY <1>2, <1>4, <1>5, <1>6

(* Trading-at-last is over when the closing auction may begin. *)
DayOrdered == \A s \in Schedules : s.tal_end <= s.closing_start

(* The market closes in the closing auction only, which has begun by then. *)
DayInv ==
  /\ SessionAccounts
  /\ now \in 0 .. MaxTs
  /\ eng.phase \in Closing => sess.close_started
  /\ sess.close_started => sess.at.closing_start <= now
  /\ eng.phase = "Closed" => eng.queue = <<>>

(* A step finds a closed market and leaves it closed. *)
DayOver ==
  eng.phase = "Closed" =>
    /\ eng'.phase = "Closed" /\ out'.trades = <<>>
    /\ eng'.queue = <<>> /\ Resting(eng'.book) \subseteq Resting(eng.book)

LEMMA DayFields ==
  ASSUME DayInv
  PROVE /\ GoodEngine(eng) /\ Tidy(eng.book) /\ now \in 0 .. MaxTs /\ MaxTs \in Nat
        /\ sess.at \in Schedules /\ sess.at.tal_end \in Nat /\ sess.at.closing_start \in Nat
        /\ sess.at.closing_end \in Nat
BY ScheduleAssumption, MachineAssumption
   DEF DayInv, SessionAccounts, SessionInv, AccountInv, IInv, TypeOK, GoodEngine, Accounts, Placed

(* on_time, with the windows that start. *)
LEMMA OnTimeDay ==
  ASSUME DayOrdered, DayInv, SessionTick
  PROVE /\ DayOver /\ now' \in 0 .. MaxTs
        /\ eng'.phase \in Closing => sess'.close_started
        /\ sess'.close_started => sess'.at.closing_start <= now'
        /\ eng'.phase = "Closed" => eng'.queue = <<>>
<1> DEFINE ts == Smaller(now + 1, MaxTs)
           e == Started(ts)
           f == Flush(e, ts)
<1>1. /\ eng' = f.eng /\ out'.trades = f.trades /\ now' = ts
      /\ sess'.at = sess.at /\ sess'.close_started = (sess.close_started \/ ClosingStarts(ts))
  BY DEF SessionTick, OnTime, Flushed, Quiet, SessionInv, DayInv
<1>2. ts \in now .. MaxTs /\ ts \in Int /\ ts \in 0 .. MaxTs
  BY DayFields DEF Smaller
<1> HIDE DEF ts
<1>3. GoodEngine(e)
  BY <1>2, StartedKeeps DEF DayInv, SessionAccounts
<1>4. DayKept(e, f.eng, f.trades)
  BY <1>2, <1>3, FlushDay
<1>5. sess'.close_started => sess'.at.closing_start <= ts
  <2>1. ClosingStarts(ts) => sess.at.closing_start <= ts
    BY <1>2, DayFields DEF ClosingStarts
  <2>2. sess.close_started => sess.at.closing_start <= ts
    BY <1>2, DayFields DEF DayInv
  <2>3. QED BY <1>1, <2>1, <2>2
<1>6. e.phase \in Closing => ClosingStarts(ts) \/ e.phase = eng.phase
  BY DayFields DEF Started, StartTradingAtLast, StartClosingAuction, Closing, GoodEngine, IsEngine
<1>7. e.phase = "Closed" => eng.phase = "Closed"
  BY <1>6, DayFields DEF Started, StartTradingAtLast, StartClosingAuction, Closing, GoodEngine, IsEngine
<1>8. e.queue = eng.queue
  BY <1>2, StartedKeeps DEF DayInv, SessionAccounts
<1>9. sess.close_started => ~TalStarts(ts) /\ ~ClosingStarts(ts)
  <2>1. sess.close_started => sess.at.closing_start <= ts
    BY <1>2, DayFields DEF DayInv
  <2>2. TalStarts(ts) => ts < sess.at.tal_end
    BY DEF TalStarts
  <2>3. sess.at.tal_end <= sess.at.closing_start
    BY DayFields DEF DayOrdered
  <2>4. QED BY <1>2, <2>1, <2>2, <2>3, DayFields DEF ClosingStarts
<1>10. sess.close_started => e = eng
  BY <1>9 DEF Started
<1>11. eng.phase \in Closing => sess.close_started
  BY DEF DayInv
<1> HIDE DEF e, f
<1>12. DayOver
  <2>1. SUFFICES ASSUME eng.phase = "Closed"
                 PROVE /\ eng'.phase = "Closed" /\ out'.trades = <<>>
                       /\ eng'.queue = <<>> /\ Resting(eng'.book) \subseteq Resting(eng.book)
    BY DEF DayOver
  <2>2. e = eng /\ eng.queue = <<>> BY <1>10, <1>11, <2>1 DEF Closing, DayInv
  <2>3. QED BY <1>1, <1>4, <2>1, <2>2 DEF DayKept
<1>13. eng'.phase \in Closing => sess'.close_started
  BY <1>1, <1>4, <1>6, <1>11 DEF DayKept
<1>14. eng'.phase = "Closed" => eng'.queue = <<>>
  BY <1>1, <1>4, <1>7, <1>8 DEF DayKept, DayInv
<1>15. QED BY <1>1, <1>2, <1>5, <1>12, <1>13, <1>14

LEMMA DayNext ==
  ASSUME DayOrdered, DayInv, SessionNext
  PROVE DayInv' /\ DayOver
<1>1. SessionAccounts'
  BY SessionAccountsNext DEF DayInv
<1>2. ASSUME sess' = sess, now' = now, DayKept(eng, eng', out'.trades)
      PROVE DayInv' /\ DayOver
  BY <1>1, <1>2 DEF DayInv, DayKept, DayOver
<1>3. CASE SessionTick
  BY <1>1, <1>3, OnTimeDay DEF DayInv
<1>4. ASSUME NEW o \in Incoming, Submit(o, now), UNCHANGED sess PROVE DayInv' /\ DayOver
  <2>1. o \in Order /\ now \in Int BY DayFields, MachineAssumption
  <2>2. /\ eng' = Process(eng, o, now).eng /\ out'.trades = Process(eng, o, now).trades
        /\ now' = now
    BY <1>4 DEF Submit, Submitted
  <2>3. DayKept(eng, eng', out'.trades)
    BY <2>1, <2>2, DayFields, ProcessDay
  <2>4. QED BY <1>2, <1>4, <2>2, <2>3
<1>5. ASSUME NEW o \in submitted, CancelOrder(o.id), UNCHANGED sess PROVE DayInv' /\ DayOver
  <2> DEFINE book == Cancel(eng.book, o.id).book
  <2>1. Resting(book) \subseteq Resting(eng.book)
    BY DayFields, CancelTidy
  <2>2. /\ eng'.book = book /\ eng'.phase = eng.phase /\ eng'.queue = eng.queue
        /\ out'.trades = <<>> /\ now' = now
    BY <1>5, DayFields DEF CancelOrder, Quiet, GoodEngine, IsEngine
  <2> HIDE DEF book
  <2>3. QED BY <1>1, <1>5, <2>1, <2>2 DEF DayInv, DayOver
<1>6. QED BY <1>3, <1>4, <1>5 DEF SessionNext

(* Once closed the market stays closed, whatever is submitted or cancelled
   afterwards: nothing prints, nothing is queued and nothing joins the book.  It needs
   a schedule whose trading-at-last ends before the closing auction begins: the
   window of a later one would open the market again (session.hpp:20-23). *)
THEOREM SessionStaysClosed == DayOrdered => (SessionSpec => ClosedIsFinal)
<1>1. DayOrdered /\ SessionInit => DayInv
  <2>1. SUFFICES ASSUME SessionInit PROVE DayInv
    OBVIOUS
  <2>2. SessionAccounts
    BY <2>1, InitGood, AccountInit DEF SessionInit, SessionInv, SessionAccounts
  <2>3. PICK cfg \in Configs : eng = NewEngine(cfg)
    BY <2>1 DEF SessionInit, Init
  <2>4. now = 0 /\ 0 \in 0 .. MaxTs /\ sess.close_started = FALSE /\ eng.phase = "Continuous"
    BY <2>1, <2>3, MachineAssumption DEF SessionInit, Init, NewEngine
  <2>5. QED BY <2>2, <2>4 DEF DayInv, Closing
<1>2. DayOrdered /\ DayInv /\ [SessionNext]_svars => DayInv' /\ [DayOver]_svars
  <2>1. SUFFICES ASSUME DayOrdered, DayInv, [SessionNext]_svars
                 PROVE DayInv' /\ [DayOver]_svars
    OBVIOUS
  <2>2. CASE SessionNext
    BY <2>1, <2>2, DayNext
  <2>3. CASE UNCHANGED svars
    <3>1. SessionAccounts' BY <2>1, SessionAccountsNext DEF DayInv
    <3>2. QED BY <2>1, <2>3, <3>1 DEF DayInv, svars
  <2>4. QED BY <2>1, <2>2, <2>3
<1>3. DayOrdered => []DayOrdered
  <2>1. DayOrdered => DayOrdered'
    BY DEF DayOrdered
  <2>2. QED BY <2>1, PTL
<1>4. [DayOver]_svars =>
        [eng.phase = "Closed" =>
           /\ eng'.phase = "Closed" /\ out'.trades = <<>>
           /\ eng'.queue = <<>> /\ Resting(eng'.book) \subseteq Resting(eng.book)]_svars
  BY DEF DayOver
<1>5. QED BY <1>1, <1>2, <1>3, <1>4, PTL DEF SessionSpec, ClosedIsFinal

----------------------------------------------------------------------------
(* Price-time priority *)

Gone(book, id) == \A o \in Resting(book) : o.id # id

(* What a call in Continuous has done so far to the book old: those that are in
   the book still are in order, but for the orders with an id in X, which may
   have joined; and each maker was met at its price, with nothing before it. *)
Served(book, trades, old, X) ==
  /\ KeepsOrder(book, old, X)
  /\ \A k \in DOMAIN trades : \A m \in Places(old) :
       OrderAt(old, m).id = trades[k].maker =>
         /\ trades[k].price = m.px
         /\ \A a \in Places(old) : Before(a, m) => Gone(book, OrderAt(old, a).id)

(* A resting order was there, at its side and its price, or it has joined. *)
LEMMA WasThere ==
  ASSUME NEW new, NEW old, NEW X, KeepsOrder(new, old, X), GoodBook(new), GoodBook(old),
         NEW at \in Places(new), OrderAt(new, at).id \notin X
  PROVE \E c \in Places(old) : /\ c.side = at.side /\ c.px = at.px
                               /\ OrderAt(old, c).id = OrderAt(new, at).id
<1>1. at.i <= at.i
  <2>1. at.i \in DOMAIN new.levels[at.side][at.px].q /\ at.side \in Sides
        /\ at.px \in DOMAIN new.levels[at.side]
    BY DEF Places
  <2>2. ListAt(new, at.side, at.px) = new.levels[at.side][at.px].q
    BY <2>1 DEF ListAt
  <2>3. ListAt(new, at.side, at.px) \in Seq(Order)
    BY <2>1, ListIs
  <2>4. at.i \in 1 .. Len(ListAt(new, at.side, at.px))
    BY <2>1, <2>2, <2>3, LenProperties
  <2>5. QED BY <2>4
<1>2. PICK c \in Places(old), d \in Places(old) :
        /\ d.side = at.side /\ d.px = at.px
        /\ OrderAt(old, d).id = OrderAt(new, at).id
  BY <1>1, PlacesInOrder
<1>3. QED BY <1>2

LEMMA StaysGone ==
  ASSUME NEW new, NEW old, NEW X, KeepsOrder(new, old, X), GoodBook(new), GoodBook(old),
         NEW id, id \notin X, Gone(old, id)
  PROVE Gone(new, id)
<1>1. SUFFICES ASSUME NEW at \in Places(new), OrderAt(new, at).id = id PROVE FALSE
  BY DEF Gone, Resting
<1>2. PICK c \in Places(old) : OrderAt(old, c).id = OrderAt(new, at).id
  BY <1>1, WasThere
<1>3. QED BY <1>1, <1>2 DEF Gone, Resting

(* Served goes on while nothing prints. *)
LEMMA StaysServed ==
  ASSUME NEW new, NEW book, NEW old, GoodBook(new), GoodBook(book), GoodBook(old),
         NEW trades, NEW X, NEW Y, X \subseteq Y,
         \A a \in Places(old) : OrderAt(old, a).id \notin Y,
         Served(book, trades, old, X), KeepsOrder(new, book, Y)
  PROVE Served(new, trades, old, Y)
<1>1. KeepsOrder(new, old, Y)
  <2>1. KeepsOrder(book, old, Y) BY KeepsBut DEF Served
  <2>2. QED BY <2>1, KeepsThrough
<1>2. ASSUME NEW k \in DOMAIN trades, NEW m \in Places(old), OrderAt(old, m).id = trades[k].maker
      PROVE /\ trades[k].price = m.px
            /\ \A a \in Places(old) : Before(a, m) => Gone(new, OrderAt(old, a).id)
  <2>1. /\ trades[k].price = m.px
        /\ \A a \in Places(old) : Before(a, m) => Gone(book, OrderAt(old, a).id)
    BY <1>2 DEF Served
  <2>2. ASSUME NEW a \in Places(old), Before(a, m) PROVE Gone(new, OrderAt(old, a).id)
    BY <2>1, <2>2, StaysGone
  <2>3. QED BY <2>1, <2>2
<1>3. QED BY <1>1, <1>2 DEF Served

(* The front of the best level is first of what is in the book still. *)
LEMMA FrontFirst ==
  ASSUME NEW book, Tidy(book), NEW old, Tidy(old), KeepsOrder(book, old, {}),
         NEW side \in Sides, Best(book, side) # None,
         NEW m \in Places(old), OrderAt(old, m).id = FrontOf(book, side).id
  PROVE /\ m.px = Best(book, side)
        /\ \A a \in Places(old) : Before(a, m) => Gone(book, OrderAt(old, a).id)
<1> DEFINE px == Best(book, side)
           maker == FrontOf(book, side)
           f == [side |-> side, px |-> px, i |-> 1]
<1>1. GoodBook(book) /\ GoodBook(old)
  BY DEF Tidy
<1>2. /\ px \in DOMAIN book.levels[side]
      /\ \A p \in DOMAIN book.levels[side] : ~Better(side, p, px)
  BY <1>1, FrontRests, BestIsBest DEF GoodBook
<1>3. f \in Places(book) /\ OrderAt(book, f) = maker
  <2> DEFINE q == book.levels[side][px].q
  <2>1. q \in Seq(Order) /\ q # <<>>
    BY <1>2, LevelIs
  <2>2. maker = Head(q)
    BY DEF FrontOf
  <2> HIDE DEF q, maker
  <2>3. maker = q[1] /\ 1 \in 1 .. Len(q) /\ DOMAIN q = 1 .. Len(q)
    BY <2>1, <2>2, TailOrders, LenProperties
  <2>4. f \in Places(book)
    BY <1>2, <2>3 DEF Places, q
  <2>5. OrderAt(book, f) = q[1]
    BY DEF OrderAt, q
  <2>6. QED BY <2>3, <2>4, <2>5
<1>4. f.side = side /\ f.px = px /\ f.i = 1
  OBVIOUS
<1> HIDE DEF f, px, maker
<1>5. m.side = side /\ m.px = px
  <2>1. PICK c \in Places(old) : /\ c.side = f.side /\ c.px = f.px
                                 /\ OrderAt(old, c).id = OrderAt(book, f).id
    BY <1>1, <1>3, WasThere
  <2>2. c = m
    BY <1>3, <2>1, PlacesOnce DEF OnceInBook, maker
  <2>3. QED BY <1>4, <2>1, <2>2
<1>6. ASSUME NEW a \in Places(old), Before(a, m), NEW c \in Places(book),
             OrderAt(book, c).id = OrderAt(old, a).id
      PROVE FALSE
  <2>1. c.side = a.side /\ c.px = a.px
    <3>1. PICK d \in Places(old) : /\ d.side = c.side /\ d.px = c.px
                                   /\ OrderAt(old, d).id = OrderAt(book, c).id
      BY <1>1, WasThere
    <3>2. d = a BY <1>6, <3>1, PlacesOnce DEF OnceInBook
    <3>3. QED BY <3>1, <3>2
  <2>2. c.side = side /\ c.px \in DOMAIN book.levels[side] /\ a.px = c.px
        /\ c.i \in DOMAIN book.levels[c.side][c.px].q
    BY <1>5, <1>6, <2>1 DEF Before, Places
  <2>3. ~Better(side, a.px, px)
    BY <1>2, <2>2
  <2>4. a.px = px /\ a.i < m.i
    BY <1>5, <1>6, <2>1, <2>2, <2>3 DEF Before
  <2>5. f.side = c.side /\ f.px = c.px /\ f.i <= c.i
    <3>1. c.i \in Nat /\ c.i >= 1
      <4> DEFINE q == book.levels[c.side][c.px].q
      <4>1. q \in Seq(Order) BY <2>2, LevelIs
      <4>2. c.i \in 1 .. Len(q) BY <2>2, <4>1, LenProperties
      <4> HIDE DEF q
      <4>3. QED BY <4>2
    <3>2. QED BY <1>4, <2>2, <2>4, <3>1
  <2>6. PICK u \in Places(old), v \in Places(old) :
          /\ u.i \in Nat /\ v.i \in Nat /\ u.i <= v.i
          /\ OrderAt(old, u).id = OrderAt(book, f).id
          /\ OrderAt(old, v).id = OrderAt(book, c).id
    BY <1>1, <1>3, <2>5, PlacesInOrder
  <2>7. u = m /\ v = a
    BY <1>3, <1>6, <2>6, PlacesOnce DEF OnceInBook, maker
  <2>8. QED BY <2>4, <2>6, <2>7
<1>7. QED BY <1>5, <1>6 DEF Gone, Resting, px

(* One iteration of the matching loop. *)
LEMMA MatchStepServes ==
  ASSUME NEW old, Tidy(old), NEW m \in MatchStates, Tidy(m.book),
         Served(m.book, m.trades, old, {}), NEW stp, NEW ts \in Int
  PROVE LET n == MatchStep(stp, ts, m)
        IN  Tidy(n.book) /\ Served(n.book, n.trades, old, {})
<1> DEFINE b == m.taker
           book == m.book
           side == Opposite(b.side)
           px == Best(book, side)
           front == book.levels[side][px].q
           own == stp # "None" /\ Head(front).owner = b.owner
           killed == [m EXCEPT !.taker = [b EXCEPT !.qty = 0]]
           cut == Cancel(book, Head(front).id).book
           passed == [m EXCEPT !.book = cut]
           n == MatchStep(stp, ts, m)
<1>1. /\ m = [book |-> book, taker |-> b, trades |-> m.trades, next |-> m.next]
      /\ b \in Order /\ b.side \in Sides /\ m.trades \in Seq(Trade) /\ m.next \in Nat
      /\ GoodBook(book) /\ GoodBook(old) /\ b.qty \in Int
  BY DEF MatchStates, Order, Tidy
<1>2. side \in Sides
  BY <1>1 DEF Opposite, Sides
<1>3. ASSUME CanMatch(m)
      PROVE /\ px # None /\ front # <<>> /\ b.qty > 0
            /\ FrontOf(book, side).qty \in Int /\ FrontOf(book, side).qty > 0
            /\ FrontOf(book, side) \in Order /\ px \in Prices
  <2>1. px # None /\ b.qty > 0
    BY <1>3 DEF CanMatch
  <2>2. px \in Prices
    BY <1>1, <1>2, <2>1, BestType DEF GoodBook
  <2>3. QED BY <1>2, <2>1, <2>2, FrontRests
<1>4. CASE ~CanMatch(m)
  <2>1. n = m BY <1>4 DEF MatchStep
  <2>2. QED BY <2>1
<1>5. CASE CanMatch(m) /\ own /\ stp = "CancelTaker"
  <2>1. n = killed BY <1>3, <1>5 DEF MatchStep
  <2>2. killed.book = book /\ killed.trades = m.trades BY <1>1
  <2>3. QED BY <2>1, <2>2
<1>6. CASE CanMatch(m) /\ own /\ stp # "CancelTaker"
  <2>1. n = passed BY <1>3, <1>6 DEF MatchStep
  <2>2. passed.book = cut /\ passed.trades = m.trades
    BY <1>1
  <2>3. Tidy(cut) /\ KeepsOrder(cut, book, {})
    <3> HIDE DEF book, front
    <3>1. Tidy(book) BY DEF book
    <3>2. QED BY <1>1, <3>1, CancelTidy, CancelInOrder
  <2>4. Served(cut, m.trades, old, {})
    <3>1. GoodBook(cut) /\ \A a \in Places(old) : OrderAt(old, a).id \notin {}
      BY <2>3 DEF Tidy
    <3>2. Served(book, m.trades, old, {}) OBVIOUS
    <3> HIDE DEF cut, book
    <3>3. QED BY <1>1, <2>3, <3>1, <3>2, StaysServed
  <2>5. QED BY <2>1, <2>2, <2>3, <2>4
<1>7. CASE CanMatch(m) /\ ~own
  <2> DEFINE a == FrontOf(book, side)
             q == Smaller(b.qty, a.qty)
             t == [id |-> m.next, ts |-> ts, price |-> px, qty |-> q,
                   maker |-> a.id, taker |-> b.id]
             new == FrontFilled(book, side, q)
             trades == Append(m.trades, t)
  <2>1. n = Fill(m, ts)
    BY <1>3, <1>7 DEF MatchStep
  <2>2. n.book = new /\ n.trades = trades
    <3>1. Fill(m, ts).book = new /\ Fill(m, ts).trades = trades
      BY DEF Fill, FrontFilled, FrontOf
    <3> HIDE DEF n, new, trades
    <3>2. QED BY <2>1, <3>1
  <2>3. q \in Int /\ 0 < q /\ q <= a.qty
    BY <1>1, <1>3, <1>7 DEF Smaller
  <2>4. GoodBook(new)
    <3>1. front # <<>> BY <1>3, <1>7
    <3>2. Fill(m, ts) \in MatchStates BY <1>7, <3>1, FillGood
    <3>3. QED BY <2>1, <2>2, <3>2, GoodBookSet DEF MatchStates
  <2>5. Tidy(new) /\ KeepsOrder(new, book, {})
    <3>1. Tidy(book) /\ Best(book, side) # None BY <1>3, <1>7
    <3>2. q <= FrontOf(book, side).qty /\ GoodBook(FrontFilled(book, side, q)) BY <2>3, <2>4
    <3> HIDE DEF book, side, q
    <3>3. QED BY <1>2, <2>3, <3>1, <3>2, FrontTidy, FrontInOrder
  <2>6. Served(new, m.trades, old, {})
    <3>1. \A x \in Places(old) : OrderAt(old, x).id \notin {}
      OBVIOUS
    <3>2. Served(book, m.trades, old, {}) OBVIOUS
    <3> HIDE DEF new, book
    <3>3. QED BY <1>1, <2>4, <2>5, <3>1, <3>2, StaysServed
  <2>7. /\ t.price = px /\ t.maker = a.id
        /\ DOMAIN trades = 1 .. Len(m.trades) + 1 /\ Len(m.trades) \in Nat
        /\ DOMAIN m.trades = 1 .. Len(m.trades)
        /\ \A k \in 1 .. Len(m.trades) : trades[k] = m.trades[k]
        /\ trades[Len(m.trades) + 1] = t
    <3>1. a.id \in Ids /\ b.id \in Ids BY <1>1, <1>3, <1>7 DEF Order
    <3>2. t \in Trade BY <1>1, <1>3, <1>7, <2>3, <3>1 DEF Trade
    <3>3. t.price = px /\ t.maker = a.id OBVIOUS
    <3> HIDE DEF t
    <3>4. QED BY <1>1, <3>2, <3>3, AppendProperties, LenProperties
  <2>8. ASSUME NEW x \in Places(old), OrderAt(old, x).id = t.maker
        PROVE /\ t.price = x.px
              /\ \A y \in Places(old) : Before(y, x) => Gone(new, OrderAt(old, y).id)
    <3>1. KeepsOrder(book, old, {}) /\ Tidy(book) /\ Best(book, side) # None
      BY <1>3, <1>7 DEF Served
    <3>2. OrderAt(old, x).id = FrontOf(book, side).id BY <2>7, <2>8
    <3> HIDE DEF t, new, book, side
    <3>3. /\ x.px = Best(book, side)
          /\ \A y \in Places(old) : Before(y, x) => Gone(book, OrderAt(old, y).id)
      BY <1>2, <3>1, <3>2, FrontFirst
    <3>4. ASSUME NEW y \in Places(old), Before(y, x) PROVE Gone(new, OrderAt(old, y).id)
      <4>1. Gone(book, OrderAt(old, y).id) BY <3>3, <3>4
      <4>2. QED BY <1>1, <2>4, <2>5, <4>1, StaysGone
    <3>5. QED BY <2>7, <3>3, <3>4
  <2> HIDE DEF t, new, trades
  <2>9. Served(new, trades, old, {})
    <3>1. \A k \in DOMAIN trades : \/ k \in DOMAIN m.trades /\ trades[k] = m.trades[k]
                                   \/ trades[k] = t
      BY <2>7
    <3>2. QED BY <2>6, <2>8, <3>1 DEF Served
  <2>10. QED BY <2>2, <2>5, <2>9
<1>8. QED BY <1>4, <1>5, <1>6, <1>7

LEMMA MatchServes ==
  ASSUME NEW e, Tidy(e.book), e.next_trade_id \in Nat, NEW o \in Order, NEW ts \in Int
  PROVE LET m == Match(e, o, ts)
        IN  m \in MatchStates /\ Tidy(m.book) /\ Served(m.book, m.trades, e.book, {})
<1> DEFINE X == {m \in MatchStates : Tidy(m.book) /\ Served(m.book, m.trades, e.book, {})}
           start == [book |-> e.book, taker |-> o, trades |-> <<>>, next |-> e.next_trade_id]
<1>1. start \in X
  <2>1. GoodBook(e.book) BY DEF Tidy
  <2>2. start \in MatchStates BY <2>1, GoodBookSet DEF MatchStates
  <2>3. start.book = e.book /\ DOMAIN start.trades = {} OBVIOUS
  <2> HIDE DEF start
  <2>4. Served(start.book, start.trades, e.book, {})
    BY <2>3, KeepsSame DEF Served
  <2>5. QED BY <2>2, <2>3, <2>4
<1>2. ASSUME NEW m \in X PROVE MatchStep(e.cfg.stp, ts, m) \in X
  <2>1. m \in MatchStates /\ Tidy(m.book) /\ Served(m.book, m.trades, e.book, {})
    OBVIOUS
  <2>2. MatchStep(e.cfg.stp, ts, m) \in MatchStates BY <2>1, MatchStepType
  <2>3. QED BY <2>1, <2>2, MatchStepServes
<1> HIDE DEF X
<1>3. Match(e, o, ts) \in X
  BY <1>1, <1>2, MatchStays
<1>4. QED BY <1>3 DEF X

(* The matching of an order whose id does not rest, and the rest of it. *)
LEMMA MatchedServes ==
  ASSUME NEW e, GoodEngine(e), Tidy(e.book), NEW o \in Order, Gone(e.book, o.id), NEW ts \in Int
  PROVE LET limit == ProcessLimit(e, o, ts)
            market == ProcessMarket(e, o, ts)
        IN  /\ Served(limit.eng.book, limit.trades, e.book, {o.id}) /\ GoodBook(limit.eng.book)
            /\ Served(market.eng.book, market.trades, e.book, {o.id}) /\ GoodBook(market.eng.book)
<1> DEFINE m == Match(e, o, ts)
           left == [m.taker EXCEPT !.type = "Limit", !.tif = "GTC",
                                   !.price = Last(m.trades).price, !.style = "PureMarket"]
           limit == ProcessLimit(e, o, ts)
           market == ProcessMarket(e, o, ts)
           X == {o.id}
<1>1. m \in MatchStates /\ Tidy(m.book) /\ Served(m.book, m.trades, e.book, {})
  <2>1. e.next_trade_id \in Nat BY EngineFields
  <2>2. QED BY <2>1, MatchServes
<1>2. m.taker.id = o.id
  <2> DEFINE Y == {x \in MatchStates : x.taker.id = o.id}
             start == [book |-> e.book, taker |-> o, trades |-> <<>>, next |-> e.next_trade_id]
  <2>1. start \in Y
    <3>1. e.next_trade_id \in Nat /\ GoodBook(e.book) BY EngineFields DEF Tidy
    <3>2. QED BY <3>1, GoodBookSet DEF MatchStates
  <2>2. ASSUME NEW x \in Y PROVE MatchStep(e.cfg.stp, ts, x) \in Y
    <3>1. x \in MatchStates /\ x.taker.id = o.id OBVIOUS
    <3>2. MatchStep(e.cfg.stp, ts, x) \in MatchStates BY <3>1, MatchStepType
    <3>3. MatchStep(e.cfg.stp, ts, x).taker.id = o.id
      BY <3>1 DEF MatchStep, Fill, MatchStates, Order
    <3>4. QED BY <3>2, <3>3
  <2> HIDE DEF Y, start
  <2>3. Match(e, o, ts) \in Y BY <2>1, <2>2, MatchStays DEF start
  <2>4. QED BY <2>3 DEF Y
<1>3. /\ limit = IF o.tif # "IOC" /\ m.taker.qty > 0 THEN RestLeft(e, m, m.taker) ELSE Unrested(e, m)
      /\ market = IF o.style = "MarketToLimit" /\ m.taker.qty > 0 /\ m.trades # <<>>
                  THEN RestLeft(e, m, left) ELSE Unrested(e, m)
  BY DEF ProcessLimit, ProcessMarket
<1> HIDE DEF m, limit, market
<1>4. m.taker \in Order /\ m.trades \in Seq(Trade) /\ GoodBook(m.book) /\ GoodBook(e.book)
  BY <1>1 DEF MatchStates, Tidy
<1>5. m.trades # <<>> => left \in Order /\ left.id = o.id
  <2>1. m.trades # <<>> => Last(m.trades).price \in Prices BY <1>4, EndTrades DEF Trade
  <2>2. QED BY <1>2, <1>4, <2>1 DEF Order
<1> HIDE DEF left
<1>6. \A a \in Places(e.book) : OrderAt(e.book, a).id \notin X
  BY DEF Gone, Resting
<1>7. ASSUME NEW x \in Order, x.id = o.id
      PROVE LET r == RestLeft(e, m, x)
            IN  Served(r.eng.book, r.trades, e.book, X) /\ GoodBook(r.eng.book)
  <2> DEFINE b == AddRestingLimit(m.book, x).book
  <2>1. RestLeft(e, m, x).eng.book = b /\ RestLeft(e, m, x).trades = m.trades
    BY <1>1 DEF RestLeft, AfterMatch, GoodEngine, IsEngine, MatchStates
  <2>2. GoodBook(b) /\ KeepsOrder(b, m.book, X)
    BY <1>4, <1>7, AddGood, AddInOrder
  <2> HIDE DEF b
  <2>3. Served(b, m.trades, e.book, X)
    BY <1>1, <1>4, <1>6, <2>2, StaysServed
  <2>4. QED BY <2>1, <2>2, <2>3
<1>8. LET r == Unrested(e, m)
      IN  Served(r.eng.book, r.trades, e.book, X) /\ GoodBook(r.eng.book)
  <2>1. Unrested(e, m).eng.book = m.book /\ Unrested(e, m).trades = m.trades
    BY DEF Unrested, AfterMatch, GoodEngine, IsEngine
  <2>2. KeepsOrder(m.book, m.book, X)
    BY KeepsSame
  <2>3. Served(m.book, m.trades, e.book, X)
    BY <1>1, <1>4, <1>6, <2>2, StaysServed
  <2>4. QED BY <1>4, <2>1, <2>3
<1> HIDE DEF X
<1>9. Served(limit.eng.book, limit.trades, e.book, X) /\ GoodBook(limit.eng.book)
  BY <1>2, <1>3, <1>4, <1>7, <1>8
<1>10. Served(market.eng.book, market.trades, e.book, X) /\ GoodBook(market.eng.book)
  BY <1>3, <1>5, <1>7, <1>8
<1>11. QED BY <1>9, <1>10 DEF limit, market, X

(* Where nothing printed, the order of the levels is all there is to keep. *)
LEMMA NothingServed ==
  ASSUME NEW new, NEW old, NEW X, KeepsOrder(new, old, X)
  PROVE Served(new, <<>>, old, X)
BY DEF Served

(* What the breaker leaves of the book: the same, or nothing. *)
LEMMA BreakerBook ==
  ASSUME NEW e, GoodEngine(e), NEW trades \in Seq(Trade)
  PROVE MaybeTriggerCircuitBreaker(OnTrades(e, trades), trades).book \in {e.book, EmptyBook}
<1> DEFINE told == OnTrades(e, trades)
           ref == IF told.cb_ref = None THEN Head(trades).price ELSE told.cb_ref
           armed == [told EXCEPT !.cb_ref = ref]
           new == MaybeTriggerCircuitBreaker(told, trades)
<1>1. told.book = e.book /\ GoodEngine(told)
  BY OnTradesGood DEF OnTrades, GoodEngine, IsEngine
<1>2. new \in {told, armed, Halt(armed, Last(trades).ts)}
  BY DEF MaybeTriggerCircuitBreaker
<1> HIDE DEF told
<1>3. armed.book = told.book /\ Halt(armed, Last(trades).ts).book = EmptyBook
  BY <1>1 DEF GoodEngine, IsEngine, Halt
<1> HIDE DEF armed, new
<1>4. new.book \in {e.book, EmptyBook}
  BY <1>1, <1>2, <1>3
<1>5. QED BY <1>4 DEF new, told

LEMMA SettledServes ==
  ASSUME NEW r, GoodOutcome(r), NEW old, NEW X, Served(r.eng.book, r.trades, old, X)
  PROVE Served(Settled(<<>>, r).eng.book, Settled(<<>>, r).trades, old, X)
<1> DEFINE trades == <<>> \o r.trades
           e == r.eng
<1>1. trades = r.trades
  <2> DEFINE T == r.trades
  <2>1. T \in Seq(Trade) BY DEF GoodOutcome
  <2> HIDE DEF T
  <2>2. <<>> \o T = T BY <2>1, ConcatEmptySeq
  <2>3. QED BY <2>2 DEF T
<1>2. /\ Settled(<<>>, r).eng = MaybeTriggerCircuitBreaker(OnTrades(e, trades), trades)
      /\ Settled(<<>>, r).trades = trades
  BY DEF Settled, Result
<1>3. GoodEngine(e) /\ r.trades \in Seq(Trade) /\ Served(e.book, r.trades, old, X)
  BY DEF GoodOutcome
<1> HIDE DEF trades, e
<1>4. Settled(<<>>, r).eng.book \in {e.book, EmptyBook}
  BY <1>1, <1>2, <1>3, BreakerBook
<1>5. Served(EmptyBook, r.trades, old, X)
  <2>1. KeepsOrder(EmptyBook, old, X) BY EmptyInOrder
  <2>2. \A id : Gone(EmptyBook, id) BY EmptyTidy DEF Gone
  <2>3. QED BY <1>3, <2>1, <2>2 DEF Served
<1>6. QED BY <1>1, <1>2, <1>3, <1>4, <1>5

(* process in Continuous: the order may join the book, the rest is served in turn. *)
LEMMA ProcessServes ==
  ASSUME NEW e, GoodEngine(e), Tidy(e.book), e.phase = "Continuous",
         NEW o \in Order, Gone(e.book, o.id), NEW ts \in Int
  PROVE LET r == Process(e, o, ts) IN Served(r.eng.book, r.trades, e.book, {o.id})
<1> DEFINE f == Flush(e, ts)
           status == PreAccept(e.cfg, e.phase, o)
           auction == [e EXCEPT !.phase = "Auction", !.auction_end = ts + e.cfg.vol_auction]
           nothing == [eng |-> e, trades |-> <<>>, resting |-> None]
           refused == Result(e, <<>>, None, status)
           queued == Result(QueueInAuction(auction, o), <<>>, None, "Accepted")
           limit == ProcessLimit(e, o, ts)
           market == ProcessMarket(e, o, ts)
           r == Process(e, o, ts)
           X == {o.id}
           Fine(x) == Served(x.eng.book, x.trades, e.book, X)
<1>1. f = [eng |-> e, trades |-> <<>>]
  BY DEF Flush, ExpireAuction, ExpireHalt, ExpireTradingAtLast, AuctionDue
<1>2. r \in {refused, queued, Settled(<<>>, nothing), Settled(<<>>, limit), Settled(<<>>, market)}
  <2>1. r = ProcessFlushed(f, o, ts) BY DEF Process
  <2>2. f.eng = e /\ f.trades = <<>> BY <1>1
  <2> HIDE DEF f, r
  <2>3. r = IF status # "Accepted" THEN refused ELSE ProcessContinuous(e, <<>>, o, ts)
    BY <2>1, <2>2 DEF ProcessFlushed
  <2>4. ProcessContinuous(e, <<>>, o, ts) \in
          {queued, Settled(<<>>, nothing), Settled(<<>>, limit), Settled(<<>>, market)}
    BY DEF ProcessContinuous
  <2> HIDE DEF refused, queued, nothing, limit, market, status
  <2>5. QED BY <2>3, <2>4
<1>3. /\ refused.eng = e /\ refused.trades = <<>>
      /\ queued.eng.book = e.book /\ queued.trades = <<>>
      /\ nothing.eng = e /\ nothing.trades = <<>> /\ GoodOutcome(nothing)
  <2>1. /\ refused.eng = e /\ refused.trades = <<>> /\ queued.trades = <<>>
        /\ nothing.eng = e /\ nothing.trades = <<>>
    BY DEF Result
  <2>2. queued.eng.book = e.book
    BY DEF Result, QueueInAuction, GoodEngine, IsEngine
  <2> HIDE DEF nothing
  <2>3. GoodOutcome(nothing)
    BY <2>1 DEF GoodOutcome
  <2>4. QED BY <2>1, <2>2, <2>3
<1>4. GoodOutcome(limit) /\ GoodOutcome(market)
  BY ProcessLimitGood, ProcessMarketGood
<1>5. Fine(limit) /\ Fine(market)
  BY MatchedServes
<1> HIDE DEF r, refused, queued, nothing, limit, market
<1>6. Served(e.book, <<>>, e.book, X)
  BY KeepsSame, NothingServed
<1>7. Fine(refused) /\ Fine(queued) /\ Fine(nothing)
  BY <1>3, <1>6
<1>8. Fine(Settled(<<>>, nothing)) /\ Fine(Settled(<<>>, limit)) /\ Fine(Settled(<<>>, market))
  BY <1>3, <1>4, <1>5, <1>7, SettledServes
<1> HIDE DEF Fine
<1>9. Fine(r)
  BY <1>2, <1>7, <1>8
<1>10. QED BY <1>9 DEF Fine, r

(* Any call of the machine in Continuous: X holds an order that enters. *)
LEMMA CallServes ==
  ASSUME AccountInv, Next, eng.phase = "Continuous"
  PROVE \E X : /\ Served(eng'.book, out'.trades, eng.book, X)
               /\ \A a \in Places(eng.book) : OrderAt(eng.book, a).id \notin X
<1> DEFINE book == eng.book
           Fine == \E X : /\ Served(eng'.book, out'.trades, book, X)
                          /\ \A a \in Places(book) : OrderAt(book, a).id \notin X
<1>1. /\ GoodEngine(eng) /\ Tidy(book) /\ GoodBook(book) /\ now \in Int
      /\ FromKnown(Held(eng), submitted) /\ submitted \subseteq Incoming /\ IsEngine(eng)
  BY DEF AccountInv, Accounts, IInv, TypeOK, GoodEngine, Placed
<1>2. ASSUME NEW o \in Incoming, NEW ts \in Times(LastArrival), Submit(o, ts)
      PROVE Fine
  <2> DEFINE r == Process(eng, o, ts)
  <2>1. ts \in Int /\ o \in Incoming \ submitted /\ o \in Order
    BY <1>1, <1>2, TimesInt, MachineAssumption DEF Submit
  <2>2. eng' = r.eng /\ out'.trades = r.trades
    BY <1>2 DEF Submit, Submitted
  <2>3. Apart(Held(eng), {o})
    BY <1>1, <2>1, Newcomer
  <2>4. Gone(book, o.id)
    BY <2>3 DEF Apart, Held, Gone
  <2> HIDE DEF book
  <2>5. Served(r.eng.book, r.trades, book, {o.id})
    BY <1>1, <2>1, <2>4, ProcessServes DEF book
  <2>6. \A a \in Places(book) : OrderAt(book, a).id \notin {o.id}
    BY <2>4 DEF Gone, Resting
  <2> HIDE DEF r
  <2>7. QED BY <2>2, <2>5, <2>6
<1>3. ASSUME NEW new, eng'.book = new, out'.trades = <<>>, KeepsOrder(new, book, {})
      PROVE Fine
  <2>1. Served(new, <<>>, book, {}) BY <1>3, NothingServed
  <2>2. QED BY <1>3, <2>1
<1>4. ASSUME NEW ts, Advance(ts) PROVE Fine
  <2>1. Flush(eng, ts) = [eng |-> eng, trades |-> <<>>]
    BY DEF Flush, ExpireAuction, ExpireHalt, ExpireTradingAtLast, AuctionDue
  <2>2. eng' = eng /\ out'.trades = <<>>
    BY <1>4, <2>1 DEF Advance, Flushed, Quiet
  <2>3. eng'.book = book /\ KeepsOrder(book, book, {}) BY <2>2, KeepsSame
  <2> HIDE DEF book, Fine
  <2>4. QED BY <1>3, <2>2, <2>3
<1>5. ASSUME NEW id, CancelOrder(id) PROVE Fine
  <2>1. eng'.book = Cancel(book, id).book /\ out'.trades = <<>>
    BY <1>1, <1>5 DEF CancelOrder, Quiet, IsEngine
  <2>2. KeepsOrder(Cancel(book, id).book, book, {})
    BY <1>1, CancelInOrder
  <2> HIDE DEF book, Fine
  <2>3. QED BY <1>3, <2>1, <2>2
<1>6. ASSUME NEW id, NEW n \in NewQtys, ModifyOrder(id, n) PROVE Fine
  <2>1. eng'.book = ModifyQty(book, id, n).book /\ out'.trades = <<>> /\ n \in Int
    BY <1>1, <1>6, MachineAssumption DEF ModifyOrder, Quiet, IsEngine
  <2>2. KeepsOrder(ModifyQty(book, id, n).book, book, {})
    BY <1>1, <2>1, ModifyInOrder
  <2> HIDE DEF book, Fine
  <2>3. QED BY <1>3, <2>1, <2>2
<1> HIDE DEF Fine
<1>7. Fine
  BY <1>2, <1>4, <1>5, <1>6 DEF Next, Tick
<1>8. QED BY <1>7 DEF Fine

(* When continuous matching trades with a maker, every order that had priority
   over it is gone from the book: matching never passes over an order. *)
THEOREM MachinePriority == Spec => PriceTimePriority
<1> DEFINE Priority ==
      eng.phase = "Continuous" =>
        \A k \in DOMAIN out'.trades : \A m \in Places(eng.book) :
          OrderAt(eng.book, m).id = out'.trades[k].maker =>
            /\ out'.trades[k].price = m.px
            /\ \A a \in Places(eng.book) :
                 Before(a, m) => \A o \in Resting(eng'.book) :
                                   o.id # OrderAt(eng.book, a).id
<1>1. AccountInv /\ Next => Priority
  <2>1. SUFFICES ASSUME AccountInv, Next, eng.phase = "Continuous" PROVE Priority
    OBVIOUS
  <2>2. PICK X : Served(eng'.book, out'.trades, eng.book, X)
    BY <2>1, CallServes
  <2>3. QED BY <2>2 DEF Served, Gone
<1>2. AccountInv /\ [Next]_vars => [Priority]_vars
  BY <1>1
<1>3. QED BY <1>2, AccountInit, AccountNext, PTL DEF Spec, PriceTimePriority

(* Two orders of a level that both stay keep their order, and whoever joins the
   level joins behind those that stay. *)
THEOREM MachineFifo == Spec => FifoKept
<1> DEFINE Fifo ==
      eng.phase = "Continuous" /\ eng'.phase = "Continuous" =>
        \A a, b \in Places(eng'.book) :
          a.side = b.side /\ a.px = b.px /\ a.i < b.i =>
            \A c \in Places(eng.book) :
              OrderAt(eng.book, c).id = OrderAt(eng'.book, b).id =>
                \E d \in Places(eng.book) :
                  /\ OrderAt(eng.book, d).id = OrderAt(eng'.book, a).id
                  /\ Before(d, c)
<1>1. AccountInv /\ AccountInv' /\ Next => Fifo
  <2> DEFINE old == eng.book
             new == eng'.book
  <2>1. SUFFICES ASSUME AccountInv, AccountInv', Next, eng.phase = "Continuous",
                        NEW a \in Places(new), NEW b \in Places(new),
                        a.side = b.side, a.px = b.px, a.i < b.i,
                        NEW c \in Places(old), OrderAt(old, c).id = OrderAt(new, b).id
                 PROVE \E d \in Places(old) : /\ OrderAt(old, d).id = OrderAt(new, a).id
                                              /\ Before(d, c)
    OBVIOUS
  <2>2. PICK X : /\ Served(new, out'.trades, old, X)
                 /\ \A x \in Places(old) : OrderAt(old, x).id \notin X
    BY <2>1, CallServes
  <2>3. GoodBook(old) /\ GoodBook(new) /\ Tidy(old) /\ Tidy(new)
    BY <2>1 DEF AccountInv, Accounts, IInv, Placed
  <2>4. KeepsOrder(new, old, X) /\ OrderAt(new, b).id \notin X
    BY <2>1, <2>2 DEF Served
  <2> HIDE DEF old, new
  <2>5. a.i <= b.i
    <3> DEFINE q == new.levels[a.side][a.px].q
    <3>1. a.i \in DOMAIN q /\ b.i \in DOMAIN q /\ a.side \in Sides /\ a.px \in DOMAIN new.levels[a.side]
      BY <2>1 DEF Places
    <3>2. q \in Seq(Order) BY <2>3, <3>1, LevelIs
    <3> HIDE DEF q
    <3>3. DOMAIN q = 1 .. Len(q) /\ Len(q) \in Nat BY <3>2, LenProperties
    <3>4. QED BY <2>1, <3>1, <3>3
  <2>6. \E d, e \in Places(old) :
          /\ d.side = a.side /\ d.px = a.px /\ e.side = a.side /\ e.px = a.px
          /\ d.i \in Nat /\ e.i \in Nat /\ d.i <= e.i /\ (a.i < b.i => d.i < e.i)
          /\ OrderAt(old, d).id = OrderAt(new, a).id
          /\ OrderAt(old, e).id = OrderAt(new, b).id
    BY <2>1, <2>3, <2>4, <2>5, PlacesInOrder
  <2>7. PICK d \in Places(old), e \in Places(old) :
          /\ d.side = a.side /\ d.px = a.px /\ e.side = a.side /\ e.px = a.px
          /\ d.i < e.i
          /\ OrderAt(old, d).id = OrderAt(new, a).id
          /\ OrderAt(old, e).id = OrderAt(new, b).id
    BY <2>1, <2>6
  <2>8. e = c
    BY <2>1, <2>3, <2>7, PlacesOnce DEF OnceInBook
  <2>9. Before(d, c)
    BY <2>7, <2>8 DEF Before
  <2>10. QED BY <2>7, <2>9
<1>2. AccountInv /\ AccountInv' /\ [Next]_vars => [Fifo]_vars
  BY <1>1
<1>3. QED BY <1>2, AccountInit, AccountNext, PTL DEF Spec, FifoKept

----------------------------------------------------------------------------
(* The matching loops end *)

RestingIds(book) == {x.id : x \in Resting(book)}

(* An iteration that does not empty the taker takes an order off the book. *)
LEMMA MatchStepLess ==
  ASSUME NEW m \in MatchStates, Tidy(m.book), CanMatch(m), NEW stp, NEW ts \in Int
  PROVE LET n == MatchStep(stp, ts, m)
        IN  /\ Tidy(n.book)
            /\ \/ ~CanMatch(n)
               \/ \E id \in RestingIds(m.book) : RestingIds(n.book) \subseteq RestingIds(m.book) \ {id}
<1> DEFINE b == m.taker
           book == m.book
           side == Opposite(b.side)
           px == Best(book, side)
           front == book.levels[side][px].q
           own == stp # "None" /\ Head(front).owner = b.owner
           killed == [m EXCEPT !.taker = [b EXCEPT !.qty = 0]]
           cut == Cancel(book, Head(front).id).book
           passed == [m EXCEPT !.book = cut]
           n == MatchStep(stp, ts, m)
           a == FrontOf(book, side)
<1>1. /\ m = [book |-> book, taker |-> b, trades |-> m.trades, next |-> m.next]
      /\ b \in Order /\ b.side \in Sides /\ b.qty \in Int
  BY DEF MatchStates, Order
<1>2. side \in Sides
  BY <1>1 DEF Opposite, Sides
<1>3. /\ px # None /\ front # <<>> /\ b.qty > 0
      /\ a \in Resting(book) /\ a.qty \in Int /\ a.qty > 0 /\ a = Head(front)
  <2>1. px # None /\ b.qty > 0
    BY DEF CanMatch
  <2>2. QED BY <1>2, <2>1, FrontRests DEF FrontOf
<1>4. a.id \in RestingIds(book)
  BY <1>3 DEF RestingIds
<1>5. CASE own /\ stp = "CancelTaker"
  <2>1. n = killed BY <1>3, <1>5 DEF MatchStep
  <2>2. killed.book = book /\ ~CanMatch(killed) BY <1>1 DEF CanMatch, Order
  <2>3. QED BY <2>1, <2>2
<1>6. CASE own /\ stp # "CancelTaker"
  <2>1. n = passed BY <1>3, <1>6 DEF MatchStep
  <2>2. passed.book = cut BY <1>1
  <2>3. Tidy(cut) /\ Resting(cut) = {x \in Resting(book) : x.id # a.id}
    <3>1. Tidy(book) OBVIOUS
    <3> HIDE DEF book, a
    <3>2. Tidy(Cancel(book, a.id).book)
          /\ Resting(Cancel(book, a.id).book) = {x \in Resting(book) : x.id # a.id}
      BY <3>1, CancelTidy
    <3>3. QED BY <1>3, <3>2
  <2> HIDE DEF cut, book, a, n, passed
  <2>4. RestingIds(cut) \subseteq RestingIds(book) \ {a.id}
    BY <2>3 DEF RestingIds
  <2>5. Tidy(n.book) /\ \E id \in RestingIds(book) : RestingIds(n.book) \subseteq RestingIds(book) \ {id}
    BY <1>4, <2>1, <2>2, <2>3, <2>4
  <2>6. QED BY <2>5 DEF n, book
<1>7. CASE ~own
  <2> DEFINE q == Smaller(b.qty, a.qty)
             new == FrontFilled(book, side, q)
  <2>1. n = Fill(m, ts)
    BY <1>3, <1>7 DEF MatchStep
  <2>2. Fill(m, ts).book = new /\ Fill(m, ts).taker = [b EXCEPT !.qty = b.qty - q]
    BY DEF Fill, FrontFilled, FrontOf
  <2>3. q \in Int /\ 0 < q /\ q <= a.qty /\ (q = b.qty \/ q = a.qty)
    <3>1. b.qty \in Int /\ a.qty \in Int /\ b.qty > 0 /\ a.qty > 0
      BY <1>1, <1>3
    <3> HIDE DEF b, a
    <3>2. QED BY <3>1 DEF Smaller
  <2>4. GoodBook(new)
    <3>1. Fill(m, ts) \in MatchStates BY <1>3, FillGood
    <3>2. QED BY <2>2, <3>1, GoodBookSet DEF MatchStates
  <2>5. /\ Tidy(new)
        /\ \A x \in Resting(new) : \/ x \in Resting(book) /\ x.id # a.id
                                   \/ x.id = a.id /\ q < a.qty
    <3> DEFINE left == [a EXCEPT !.qty = a.qty - q]
    <3>1. Tidy(book) /\ px # None BY <1>3
    <3>2. /\ Tidy(new)
          /\ \A x \in Resting(new) : \/ x \in Resting(book) /\ x.id # a.id
                                     \/ x = left /\ left.qty > 0
      <4> HIDE DEF book, side, q
      <4>1. QED BY <1>2, <2>3, <2>4, <3>1, FrontTidy
    <3>3. left.id = a.id /\ left.qty = a.qty - q
      <4>1. a \in Order BY <1>3, RestingIs
      <4> HIDE DEF a, q
      <4>2. QED BY <4>1 DEF Order
    <3>4. a.qty \in Int /\ q \in Int BY <1>3, <2>3
    <3> HIDE DEF left, a, q, new, book
    <3>5. ASSUME NEW x \in Resting(new)
          PROVE \/ x \in Resting(book) /\ x.id # a.id
                \/ x.id = a.id /\ q < a.qty
      <4>1. CASE x = left /\ left.qty > 0
        BY <3>3, <3>4, <4>1
      <4>2. QED BY <3>2, <4>1
    <3>6. QED BY <3>2, <3>5
  <2>6. CASE q = b.qty
    <3>1. Fill(m, ts).taker.qty = 0
      <4> HIDE DEF q
      <4>1. QED BY <1>1, <2>2, <2>6 DEF Order
    <3>2. ~CanMatch(Fill(m, ts)) BY <3>1 DEF CanMatch
    <3>3. QED BY <2>1, <2>2, <2>5, <3>2
  <2>7. CASE q = a.qty
    <3> HIDE DEF n, new, book, a, q
    <3>1. RestingIds(new) \subseteq RestingIds(book) \ {a.id}
      <4>0. a.qty \in Int BY <1>3
      <4>1. ~(q < a.qty) BY ONLY <4>0, <2>7
      <4>2. \A x \in Resting(new) : x \in Resting(book) /\ x.id # a.id
        BY <2>5, <4>1
      <4>3. QED BY <4>2 DEF RestingIds
    <3>2. Tidy(n.book) /\ \E id \in RestingIds(book) : RestingIds(n.book) \subseteq RestingIds(book) \ {id}
      BY <1>4, <2>1, <2>2, <2>5, <3>1
    <3>3. QED BY <3>2 DEF n, book
  <2>8. QED BY <2>3, <2>6, <2>7
<1>8. QED BY <1>5, <1>6, <1>7

(* So the loop ends after at most as many iterations as orders rest. *)
LEMMA MatchEnds ==
  ASSUME NEW e, Tidy(e.book), e.next_trade_id \in Nat, NEW o \in Order, NEW ts \in Int,
         IsFiniteSet(RestingIds(e.book)), Cardinality(RestingIds(e.book)) <= MaxLoop
  PROVE ~CanMatch(Match(e, o, ts))
<1> DEFINE start == [book |-> e.book, taker |-> o, trades |-> <<>>, next |-> e.next_trade_id]
           X == {m \in MatchStates : Tidy(m.book)}
           N == Cardinality(RestingIds(e.book))
           Z == [k \in Nat |->
                   {m \in X : \/ ~CanMatch(m)
                              \/ /\ IsFiniteSet(RestingIds(m.book))
                                 /\ Cardinality(RestingIds(m.book)) + k <= N}]
<1>1. start \in X /\ start.book = e.book
  <2>1. GoodBook(e.book) BY DEF Tidy
  <2>2. start \in MatchStates BY <2>1, GoodBookSet DEF MatchStates
  <2>3. QED BY <2>2
<1>2. N \in Nat /\ MaxLoop \in Nat /\ N <= MaxLoop
  BY FS_CardinalityType, MaxLoopAssumption
<1>3. ASSUME NEW m \in X PROVE MatchStep(e.cfg.stp, ts, m) \in X
  <2>1. m \in MatchStates /\ Tidy(m.book)
    OBVIOUS
  <2>2. MatchStep(e.cfg.stp, ts, m) \in MatchStates BY <2>1, MatchStepType
  <2>3. CASE ~CanMatch(m)
    BY <2>1, <2>3 DEF MatchStep
  <2>4. CASE CanMatch(m)
    BY <2>1, <2>2, <2>4, MatchStepLess
  <2>5. QED BY <2>3, <2>4
<1>4. start \in Z[0]
  <2>1. N + 0 <= N BY <1>2
  <2> HIDE DEF start, X
  <2>2. QED BY <1>1, <2>1
<1>5. ASSUME NEW k \in Nat, NEW m \in X, m \in Z[k]
      PROVE MatchStep(e.cfg.stp, ts, m) \in Z[k + 1]
  <2> DEFINE n == MatchStep(e.cfg.stp, ts, m)
             I == RestingIds(m.book)
             J == RestingIds(n.book)
  <2>1. n \in X /\ k + 1 \in Nat
    BY <1>3
  <2>2. m \in MatchStates /\ Tidy(m.book)
    OBVIOUS
  <2>3. \/ ~CanMatch(m)
        \/ IsFiniteSet(I) /\ Cardinality(I) + k <= N
    BY <1>5
  <2>4. SUFFICES ~CanMatch(n) \/ (IsFiniteSet(J) /\ Cardinality(J) + (k + 1) <= N)
    <3> HIDE DEF X, N
    <3>1. QED BY <2>1
  <2>5. CASE ~CanMatch(m)
    <3>1. n = m BY <2>5 DEF MatchStep
    <3>2. QED BY <2>5, <3>1
  <2>6. CASE CanMatch(m)
    <3>1. IsFiniteSet(I) /\ Cardinality(I) + k <= N
      BY <2>3, <2>6
    <3>2. \/ ~CanMatch(n)
          \/ \E id \in I : J \subseteq I \ {id}
      BY <2>2, <2>6, MatchStepLess
    <3> HIDE DEF I, J, n, N, X, Z
    <3>3. ASSUME NEW id \in I, J \subseteq I \ {id}
          PROVE IsFiniteSet(J) /\ Cardinality(J) + (k + 1) <= N
      <4>1. /\ IsFiniteSet(I \ {id}) /\ Cardinality(I \ {id}) = Cardinality(I) - 1
            /\ Cardinality(I) \in Nat
        BY <3>1, FS_RemoveElement, FS_CardinalityType
      <4>2. IsFiniteSet(J) /\ Cardinality(J) <= Cardinality(I \ {id}) /\ Cardinality(J) \in Nat
        BY <3>3, <4>1, FS_Subset, FS_CardinalityType
      <4>3. Cardinality(J) + (k + 1) <= N
        BY <1>2, <3>1, <4>1, <4>2
      <4>4. QED BY <4>2, <4>3
    <3>4. QED BY <3>2, <3>3
  <2>7. QED BY <2>5, <2>6
<1> DEFINE m == Match(e, o, ts)
<1>7. m \in X \cap Z[MaxLoop]
  <2>1. start \in X BY <1>1
  <2>2. \A x \in X : MatchStep(e.cfg.stp, ts, x) \in X BY <1>3
  <2>3. \A k \in Nat : \A x \in X : x \in Z[k] => MatchStep(e.cfg.stp, ts, x) \in Z[k + 1]
    BY <1>5
  <2> HIDE DEF Z, X
  <2>4. QED BY <1>4, <2>1, <2>2, <2>3, MatchCounts
<1>8. m \in X /\ (~CanMatch(m) \/ (/\ IsFiniteSet(RestingIds(m.book))
                                   /\ Cardinality(RestingIds(m.book)) + MaxLoop <= N))
  BY <1>2, <1>7
<1> HIDE DEF m, Z, N
<1>9. SUFFICES ASSUME CanMatch(m) PROVE FALSE
  BY DEF m
<1>10. RestingIds(m.book) = {}
  <2> DEFINE I == RestingIds(m.book)
  <2>1. IsFiniteSet(I) /\ Cardinality(I) + MaxLoop <= N BY <1>8, <1>9
  <2> HIDE DEF I
  <2>2. Cardinality(I) \in Nat BY <2>1, FS_CardinalityType
  <2>3. Cardinality(I) = 0 BY <1>2, <2>1, <2>2
  <2>4. I = {} BY <2>1, <2>3, FS_EmptySet
  <2>5. QED BY <2>4 DEF I
<1>11. QED
  <2> DEFINE side == Opposite(m.taker.side)
  <2>1. m \in MatchStates /\ Tidy(m.book) BY <1>8 DEF X
  <2>2. side \in Sides BY <2>1 DEF MatchStates, Order, Opposite, Sides
  <2>3. Best(m.book, side) # None BY <1>9 DEF CanMatch
  <2> HIDE DEF side
  <2>4. FrontOf(m.book, side) \in Resting(m.book) BY <2>1, <2>2, <2>3, FrontRests
  <2>5. QED BY <1>10, <2>4 DEF RestingIds

(* Then what is done with the rest of the order does not start the loop again:
   an order that joins the book joins its own side. *)
LEMMA RestReturns ==
  ASSUME NEW e, GoodEngine(e), NEW m \in MatchStates, ~CanMatch(m),
         NEW left \in Order, left.side = m.taker.side
  PROVE /\ RestLeft(e, m, left).eng.spinning = e.spinning
        /\ Unrested(e, m).eng.spinning = e.spinning
<1> DEFINE book == m.book
           side == Opposite(m.taker.side)
           new == AddRestingLimit(book, left).book
           n == [m EXCEPT !.book = new]
<1>1. side # left.side
  BY DEF Opposite, MatchStates, Order, Sides
<1>2. new.levels[side] = book.levels[side]
  <2>1. GoodBook(book) BY GoodBookSet DEF MatchStates
  <2>2. book.levels = [s \in Sides |-> book.levels[s]] /\ side \in Sides
    BY <2>1 DEF GoodBook, IsBook, Opposite, Sides
  <2>3. new = book \/ \E s : new.levels = [book.levels EXCEPT ![left.side] = s]
    <3> DEFINE b == book
               lvls == b.levels[left.side]
               level == IF left.price \in DOMAIN lvls THEN lvls[left.price] ELSE EmptyLevel
               grown == [q |-> Append(level.q, left), total_qty |-> level.total_qty + left.qty]
               loc == Put(b.loc, left.id, [side |-> left.side, price |-> left.price])
               full == Put(lvls, left.price, grown)
    <3>1. \/ AddRestingLimit(b, left) = Failed(b)
          \/ AddRestingLimit(b, left) = Done([levels |-> [b.levels EXCEPT ![left.side] = full],
                                             loc |-> loc])
      BY DEF AddRestingLimit, SetLevel
    <3> HIDE DEF b, lvls, level, grown, loc, full
    <3>2. \/ AddRestingLimit(b, left).book = b
          \/ AddRestingLimit(b, left).book.levels = [b.levels EXCEPT ![left.side] = full]
      BY <3>1 DEF Done, Failed
    <3>3. \/ AddRestingLimit(b, left).book = b
          \/ \E s : AddRestingLimit(b, left).book.levels = [b.levels EXCEPT ![left.side] = s]
      BY <3>2
    <3>4. QED BY <3>3 DEF b
  <2> DEFINE lv == book.levels
             z == left.side
  <2>4. side \in DOMAIN lv /\ side # z BY <1>1, <2>2
  <2>5. new.levels = lv \/ \E s : new.levels = [lv EXCEPT ![z] = s] BY <2>3
  <2> HIDE DEF book, side, new, lv, z
  <2>6. ASSUME NEW s PROVE [lv EXCEPT ![z] = s][side] = lv[side]
    <3> DEFINE y == side
    <3>1. y \in DOMAIN lv /\ y # z BY <2>4
    <3> HIDE DEF y
    <3>2. [lv EXCEPT ![z] = s] = [j \in DOMAIN lv |-> IF j = z THEN s ELSE lv[j]]
      OBVIOUS
    <3>3. QED BY ONLY <3>1, <3>2 DEF y
  <2>7. QED BY <2>5, <2>6 DEF lv
<1>3. n.book = new /\ n.taker = m.taker
  BY DEF MatchStates
<1> HIDE DEF new, n
<1>4. Best(n.book, side) = Best(book, side)
  <2> DEFINE s == side
  <2>1. \A x, y : x.levels[s] = y.levels[s] => Best(x, s) = Best(y, s)
    <3> HIDE DEF s
    <3>1. SUFFICES ASSUME NEW x, NEW y, x.levels[s] = y.levels[s] PROVE Best(x, s) = Best(y, s)
      OBVIOUS
    <3> DEFINE Top(S) == IF S = {} THEN None ELSE CHOOSE p \in S : \A q \in S : ~Better(s, q, p)
    <3>2. Best(x, s) = Top(DOMAIN x.levels[s]) /\ Best(y, s) = Top(DOMAIN y.levels[s])
      BY DEF Best
    <3> HIDE DEF Top
    <3>3. QED BY <3>1, <3>2
  <2>2. n.book.levels[s] = book.levels[s] BY <1>2, <1>3
  <2> HIDE DEF s, book
  <2>3. QED BY <2>1, <2>2 DEF s
<1>5. ~CanMatch(n)
  BY <1>3, <1>4 DEF CanMatch
<1>6. \A x : ~CanMatch(x) => AfterMatch(e, x).spinning = e.spinning
  <2>1. e.spinning \in BOOLEAN BY EngineFields
  <2>2. QED BY <2>1 DEF AfterMatch, GoodEngine, IsEngine
<1>7. QED BY <1>5, <1>6 DEF RestLeft, Unrested, n, new

LEMMA MatchedReturns ==
  ASSUME NEW e, GoodEngine(e), Tidy(e.book), NEW o \in Order, NEW ts \in Int,
         IsFiniteSet(RestingIds(e.book)), Cardinality(RestingIds(e.book)) <= MaxLoop
  PROVE /\ ProcessLimit(e, o, ts).eng.spinning = e.spinning
        /\ ProcessMarket(e, o, ts).eng.spinning = e.spinning
<1> DEFINE m == Match(e, o, ts)
           left == [m.taker EXCEPT !.type = "Limit", !.tif = "GTC",
                                   !.price = Last(m.trades).price, !.style = "PureMarket"]
           limit == ProcessLimit(e, o, ts)
           market == ProcessMarket(e, o, ts)
<1>1. m \in MatchStates /\ ~CanMatch(m)
  BY EngineFields, MatchType, MatchEnds
<1>2. /\ limit = IF o.tif # "IOC" /\ m.taker.qty > 0 THEN RestLeft(e, m, m.taker) ELSE Unrested(e, m)
      /\ market = IF o.style = "MarketToLimit" /\ m.taker.qty > 0 /\ m.trades # <<>>
                  THEN RestLeft(e, m, left) ELSE Unrested(e, m)
  BY DEF ProcessLimit, ProcessMarket
<1> HIDE DEF m, limit, market
<1>3. m.taker \in Order /\ m.trades \in Seq(Trade)
  BY <1>1 DEF MatchStates
<1>4. m.trades # <<>> => left \in Order /\ left.side = m.taker.side
  <2>1. m.trades # <<>> => Last(m.trades).price \in Prices BY <1>3, EndTrades DEF Trade
  <2>2. QED BY <1>3, <2>1 DEF Order
<1> HIDE DEF left
<1>5. limit.eng.spinning = e.spinning /\ market.eng.spinning = e.spinning
  BY <1>1, <1>2, <1>3, <1>4, RestReturns
<1>6. QED BY <1>5 DEF limit, market

(* process() returns when the flush leaves no more orders than the loop has
   iterations. *)
LEMMA ProcessReturns ==
  ASSUME NEW e0, GoodEngine(e0), NEW o \in Order, NEW t \in Int, NEW e, e = Flush(e0, t).eng,
         Tidy(e.book), IsFiniteSet(RestingIds(e.book)), Cardinality(RestingIds(e.book)) <= MaxLoop
  PROVE Process(e0, o, t).eng.spinning = e0.spinning
<1> DEFINE f == Flush(e0, t)
           flushed == f.trades
           x == [o EXCEPT !.type = "Limit", !.price = e.last]
           nothing == [eng |-> e, trades |-> <<>>, resting |-> None]
           auction == [e EXCEPT !.phase = "Auction", !.auction_end = t + e.cfg.vol_auction]
           r == Process(e0, o, t)
<1>1. GoodEngine(e) /\ flushed \in Seq(Trade) /\ e.spinning = e0.spinning
  BY FlushGood, FlushConfig DEF GoodOutcome
<1>2. \A y \in Order : /\ ProcessMarket(e, y, t).eng.spinning = e.spinning
                       /\ ProcessLimit(e, y, t).eng.spinning = e.spinning
                       /\ GoodOutcome(ProcessMarket(e, y, t))
                       /\ GoodOutcome(ProcessLimit(e, y, t))
  BY <1>1, MatchedReturns, ProcessMarketGood, ProcessLimitGood
<1>3. /\ QueueInAuction(e, o).spinning = e.spinning
      /\ QueueInAuction(auction, o).spinning = e.spinning
  BY <1>1 DEF QueueInAuction, GoodEngine, IsEngine
<1>4. GoodOutcome(nothing) /\ nothing.eng = e
  BY <1>1 DEF GoodOutcome
<1>5. e.last # None => x \in Order
  <2>1. e.last \in Prices \cup {None} /\ "Limit" \in {"Limit", "Market"} BY <1>1, EngineFields
  <2>2. QED BY <2>1 DEF Order
<1>6. \/ r.eng = e \/ r.eng = QueueInAuction(e, o) \/ r.eng = QueueInAuction(auction, o)
      \/ r = Settled(flushed, nothing)
      \/ r = Settled(flushed, ProcessMarket(e, o, t))
      \/ r = Settled(flushed, ProcessLimit(e, o, t))
      \/ e.last # None /\ r = Settled(flushed, ProcessLimit(e, x, t))
  <2>1. \A a, s : Result(a, flushed, None, s).eng = a BY DEF Result
  <2>2. r = ProcessFlushed(f, o, t) /\ f.eng = e BY DEF Process
  <2>3. e.phase \in Phases BY <1>1, EngineFields
  <2> HIDE DEF r, f
  <2>4. \/ r.eng = e \/ r.eng = QueueInAuction(e, o)
        \/ r = ProcessTradingAtLast(e, flushed, o, t)
        \/ r = ProcessContinuous(e, flushed, o, t)
    BY <2>1, <2>2, <2>3 DEF ProcessFlushed, Phases
  <2>5. \/ ProcessTradingAtLast(e, flushed, o, t).eng = e
        \/ e.last # None /\
             ProcessTradingAtLast(e, flushed, o, t) = Settled(flushed, ProcessLimit(e, x, t))
    BY <2>1 DEF ProcessTradingAtLast
  <2>6. \/ ProcessContinuous(e, flushed, o, t).eng = QueueInAuction(auction, o)
        \/ ProcessContinuous(e, flushed, o, t) \in
             {Settled(flushed, nothing), Settled(flushed, ProcessMarket(e, o, t)),
              Settled(flushed, ProcessLimit(e, o, t))}
    BY <2>1 DEF ProcessContinuous
  <2> HIDE DEF flushed, x, nothing, auction
  <2>7. QED BY <2>4, <2>5, <2>6
<1> HIDE DEF r, flushed, x, nothing, auction
<1>7. r.eng.spinning = e.spinning
  BY <1>1, <1>2, <1>3, <1>4, <1>5, <1>6, SettledConfig
<1>8. QED BY <1>1, <1>7 DEF r

(* No more orders rest than may arrive: MaxLoop bounds no loop of the code. *)
IncomingIds == {o.id : o \in Incoming}

LoopsSuffice == IsFiniteSet(IncomingIds) /\ Cardinality(IncomingIds) <= MaxLoop

LEMMA LoopsStay == LoopsSuffice => []LoopsSuffice
<1>1. LoopsSuffice => LoopsSuffice'
  BY DEF LoopsSuffice, IncomingIds
<1>2. QED BY <1>1, PTL

LEMMA FewRest ==
  ASSUME LoopsSuffice, NEW book, NEW known, known \subseteq Incoming, FromKnown(Resting(book), known)
  PROVE IsFiniteSet(RestingIds(book)) /\ Cardinality(RestingIds(book)) <= MaxLoop
<1>1. RestingIds(book) \subseteq IncomingIds
  BY DEF RestingIds, IncomingIds, FromKnown, Stems
<1>2. IsFiniteSet(RestingIds(book)) /\ Cardinality(RestingIds(book)) <= Cardinality(IncomingIds)
  BY <1>1, FS_Subset DEF LoopsSuffice
<1>3. Cardinality(RestingIds(book)) \in Nat /\ Cardinality(IncomingIds) \in Nat
  BY <1>2, FS_CardinalityType DEF LoopsSuffice
<1>4. QED BY <1>2, <1>3, MaxLoopAssumption DEF LoopsSuffice

LEMMA SubmitReturns ==
  ASSUME LoopsSuffice, AccountInv, ~eng.spinning,
         NEW o \in Incoming, NEW ts \in Int, Submit(o, ts)
  PROVE ~eng'.spinning
<1> DEFINE c == CallTerms({o})
           V == Brought({o})
           e == Flush(eng, ts).eng
<1>1. IInv /\ Accounts /\ GoodEngine(eng) /\ o \in Incoming \ submitted /\ o \in Order
      /\ submitted \cup {o} \subseteq Incoming
  BY MachineAssumption DEF AccountInv, IInv, TypeOK, GoodEngine, Submit
<1>2. IsTerms(c) /\ Kept(eng, V, <<>>, c) /\ c.known = submitted \cup {o}
  BY <1>1, CallBase DEF CallTerms, Terms
<1> HIDE DEF c, V
<1>3. Kept(e, {}, Flush(eng, ts).trades, c)
  <2>1. Kept(e, V, Flush(eng, ts).trades, c) BY <1>1, <1>2, FlushKept
  <2> HIDE DEF e
  <2>2. QED BY <1>2, <2>1, KeptDrop
<1> HIDE DEF e
<1>4. Tidy(e.book) /\ FromKnown(Resting(e.book), submitted \cup {o})
  <2>1. Placed(e) /\ FromKnown(Held(e), c.known) BY <1>3, CallEnded
  <2>2. QED BY <1>2, <2>1 DEF Placed, Held, FromKnown
<1>5. IsFiniteSet(RestingIds(e.book)) /\ Cardinality(RestingIds(e.book)) <= MaxLoop
  BY <1>1, <1>4, FewRest
<1>6. Process(eng, o, ts).eng.spinning = eng.spinning
  BY <1>1, <1>4, <1>5, ProcessReturns DEF e
<1>7. QED BY <1>6 DEF Submit, Submitted

LEMMA FlushReturns ==
  ASSUME NEW e, GoodEngine(e), ~e.spinning, NEW ts \in Int, NEW call, Flushed(call, ts, Flush(e, ts))
  PROVE ~eng'.spinning
BY FlushConfig DEF Flushed

LEMMA BookReturns ==
  ASSUME IInv, CallsReturn, NEW new, eng' = [eng EXCEPT !.book = new]
  PROVE CallsReturn'
BY DEF IInv, TypeOK, IsEngine, CallsReturn

(* The engine answers every call: however the book looks, each iteration of the
   matching loop ends the order or takes one off the book. *)
THEOREM MachineReturns == LoopsSuffice => (Spec => []CallsReturn)
<1>1. Init => CallsReturn
  BY DEF Init, NewEngine, CallsReturn
<1>2. LoopsSuffice /\ AccountInv /\ CallsReturn /\ [Next]_vars => CallsReturn'
  <2>1. SUFFICES ASSUME LoopsSuffice, AccountInv, CallsReturn, [Next]_vars PROVE CallsReturn'
    OBVIOUS
  <2>2. GoodEngine(eng) /\ IInv /\ now \in Int
    BY <2>1 DEF AccountInv, IInv, TypeOK, GoodEngine
  <2>3. ASSUME NEW o \in Incoming, NEW ts \in Times(LastArrival), Submit(o, ts) PROVE CallsReturn'
    <3>1. ts \in Int BY TimesInt
    <3>2. QED BY <2>1, <2>3, <3>1, SubmitReturns DEF CallsReturn
  <2>4. ASSUME NEW ts \in Int, Advance(ts) PROVE CallsReturn'
    BY <2>1, <2>2, <2>4, FlushReturns DEF CallsReturn, Advance
  <2>5. ASSUME NEW ts \in Times(LastJump), Advance(ts) PROVE CallsReturn'
    BY <2>4, <2>5, TimesInt
  <2>6. CASE Tick
    <3>1. Smaller(now + 1, MaxTs) \in Int BY <2>2, MachineAssumption DEF Smaller
    <3>2. QED BY <2>4, <2>6, <3>1 DEF Tick
  <2>7. ASSUME NEW o \in submitted, CancelOrder(o.id) PROVE CallsReturn'
    BY <2>1, <2>2, <2>7, BookReturns DEF CancelOrder
  <2>8. ASSUME NEW o \in submitted, NEW n \in NewQtys, ModifyOrder(o.id, n) PROVE CallsReturn'
    BY <2>1, <2>2, <2>8, BookReturns DEF ModifyOrder
  <2>9. CASE UNCHANGED vars
    BY <2>1, <2>9 DEF vars, CallsReturn
  <2>10. QED BY <2>1, <2>3, <2>5, <2>6, <2>7, <2>8, <2>9 DEF Next
<1>3. QED BY <1>1, <1>2, LoopsStay, AccountInit, AccountNext, PTL DEF Spec

(* The same through a trading day: in trading-at-last the order that is matched
   is a limit order at the last price. *)
THEOREM SessionReturns == LoopsSuffice => (SessionSpec => []CallsReturn)
<1>1. SessionInit => CallsReturn
  BY DEF SessionInit, Init, NewEngine, CallsReturn
<1>2. LoopsSuffice /\ SessionAccounts /\ CallsReturn /\ [SessionNext]_svars => CallsReturn'
  <2>1. SUFFICES ASSUME LoopsSuffice, SessionAccounts, CallsReturn, [SessionNext]_svars
                 PROVE CallsReturn'
    OBVIOUS
  <2>2. AccountInv /\ SessionInv /\ IInv /\ now \in Int
    BY <2>1 DEF SessionAccounts, AccountInv, IInv, TypeOK
  <2>3. CASE SessionTick
    <3> DEFINE ts == Smaller(now + 1, MaxTs)
    <3>1. ts \in Int BY <2>2, MachineAssumption DEF Smaller
    <3>2. Flushed("on_time", ts, Flush(Started(ts), ts)) BY <2>3 DEF SessionTick, OnTime
    <3> HIDE DEF ts
    <3>3. GoodEngine(Started(ts)) /\ ~Started(ts).spinning
      BY <2>1, <2>2, StartedKeeps DEF CallsReturn
    <3>4. QED BY <3>1, <3>2, <3>3, FlushReturns DEF CallsReturn
  <2>4. ASSUME NEW o \in Incoming, Submit(o, now) PROVE CallsReturn'
    BY <2>1, <2>2, <2>4, SubmitReturns DEF CallsReturn
  <2>5. ASSUME NEW o \in submitted, CancelOrder(o.id) PROVE CallsReturn'
    BY <2>1, <2>2, <2>5, BookReturns DEF CancelOrder
  <2>6. CASE UNCHANGED svars
    BY <2>1, <2>6 DEF svars, CallsReturn
  <2>7. QED BY <2>1, <2>3, <2>4, <2>5, <2>6 DEF SessionNext
<1>3. SessionSpec => []SessionAccounts
  BY SessionAccount
<1>4. QED BY <1>1, <1>2, <1>3, LoopsStay, PTL DEF SessionSpec

----------------------------------------------------------------------------
(* What continuous matching leaves of the order *)

(* While the order is not killed, what it has printed and what is left of it
   add up. *)
LEMMA MatchStepExact ==
  ASSUME NEW m \in MatchStates, Tidy(m.book), m.taker.qty \in Nat,
         NEW stp, stp # "CancelTaker", NEW ts \in Int
  PROVE LET n == MatchStep(stp, ts, m)
            id == m.taker.id
        IN  /\ SameTerms(n.taker, m.taker) /\ n.taker.qty \in Nat
            /\ TradedBy(id, n.trades) + n.taker.qty = TradedBy(id, m.trades) + m.taker.qty
<1> DEFINE b == m.taker
           book == m.book
           side == Opposite(b.side)
           px == Best(book, side)
           front == book.levels[side][px].q
           own == stp # "None" /\ Head(front).owner = b.owner
           a == FrontOf(book, side)
           passed == [m EXCEPT !.book = Cancel(book, Head(front).id).book]
           n == MatchStep(stp, ts, m)
           id == b.id
<1>1. /\ m = [book |-> book, taker |-> b, trades |-> m.trades, next |-> m.next]
      /\ b \in Order /\ b.side \in Sides /\ b.id \in Ids
      /\ m.trades \in Seq(Trade) /\ m.next \in Nat
  BY DEF MatchStates, Order
<1>2. side \in Sides
  BY <1>1 DEF Opposite, Sides
<1>3. CASE ~CanMatch(m)
  <2>1. n = m BY <1>3 DEF MatchStep
  <2>2. QED BY <2>1 DEF SameTerms
<1>4. ASSUME CanMatch(m)
      PROVE /\ px # None /\ front # <<>> /\ b.qty > 0 /\ px \in Prices
            /\ a \in Order /\ a.qty \in Int /\ a.qty > 0 /\ a = Head(front)
  <2>1. px # None /\ b.qty > 0
    BY <1>4 DEF CanMatch
  <2>2. px \in Prices
    BY <1>2, <2>1, BestType DEF Tidy, GoodBook
  <2>3. QED BY <1>2, <2>1, <2>2, FrontRests DEF FrontOf
<1>5. CASE CanMatch(m) /\ own
  <2>1. n = passed BY <1>4, <1>5 DEF MatchStep
  <2>2. passed.taker = b /\ passed.trades = m.trades BY <1>1
  <2> HIDE DEF n, passed
  <2>3. QED BY <2>1, <2>2 DEF SameTerms, n
<1>6. CASE CanMatch(m) /\ ~own
  <2> DEFINE q == Smaller(b.qty, a.qty)
             t == [id |-> m.next, ts |-> ts, price |-> px, qty |-> q,
                   maker |-> a.id, taker |-> b.id]
             less == [b EXCEPT !.qty = b.qty - q]
  <2>1. n = Fill(m, ts)
    BY <1>4, <1>6 DEF MatchStep
  <2>2. Fill(m, ts).taker = less /\ Fill(m, ts).trades = Append(m.trades, t)
    BY DEF Fill, FrontOf
  <2>3. q \in Int /\ 0 < q /\ q <= b.qty
    <3>1. b.qty \in Int /\ a.qty \in Int /\ b.qty > 0 /\ a.qty > 0
      BY <1>4, <1>6
    <3> HIDE DEF b, a
    <3>2. QED BY <3>1 DEF Smaller
  <2>4. t \in Trade
    <3>1. a.id \in Ids BY <1>4, <1>6 DEF Order
    <3> HIDE DEF a, b, px, q
    <3>2. QED BY <1>1, <1>4, <1>6, <2>3, <3>1 DEF Trade
  <2>5. t.taker = id /\ t.qty = q
    OBVIOUS
  <2>6. SameTerms(less, b) /\ less.qty = b.qty - q
    <3> HIDE DEF q, b
    <3>1. QED BY <1>1 DEF SameTerms, Order
  <2> HIDE DEF t, q, less, n
  <2>7. TradedBy(id, m.trades) \in Int
        /\ TradedBy(id, Append(m.trades, t)) = TradedBy(id, m.trades) + q
    BY <1>1, <2>4, <2>5, TradedGrows
  <2>8. n.taker = less /\ n.trades = Append(m.trades, t)
    BY <2>1, <2>2
  <2>9. less.qty \in Nat /\ (TradedBy(id, m.trades) + q) + less.qty = TradedBy(id, m.trades) + b.qty
    <3> DEFINE x == TradedBy(id, m.trades)
               y == b.qty
               z == less.qty
    <3>1. x \in Int /\ y \in Nat /\ z = y - q BY <2>6, <2>7
    <3> HIDE DEF x, y, z
    <3>2. z \in Nat /\ (x + q) + z = x + y BY <2>3, <3>1 DEF y
    <3>3. QED BY <3>2 DEF x, y, z
  <2>10. SameTerms(n.taker, b) /\ n.taker.qty \in Nat
         /\ TradedBy(id, n.trades) + n.taker.qty = TradedBy(id, m.trades) + b.qty
    BY <2>6, <2>7, <2>8, <2>9
  <2>11. QED BY <2>10 DEF n
<1>7. QED BY <1>3, <1>5, <1>6

LEMMA MatchExact ==
  ASSUME NEW e, Tidy(e.book), e.next_trade_id \in Nat, e.cfg.stp # "CancelTaker",
         NEW o \in Order, o.qty \in Nat, NEW ts \in Int
  PROVE LET m == Match(e, o, ts)
        IN  /\ m \in MatchStates /\ Tidy(m.book)
            /\ SameTerms(m.taker, o) /\ m.taker.qty \in Nat
            /\ TradedBy(o.id, m.trades) + m.taker.qty = o.qty
<1> DEFINE start == [book |-> e.book, taker |-> o, trades |-> <<>>, next |-> e.next_trade_id]
           stp == e.cfg.stp
           X == {m \in MatchStates :
                   /\ Tidy(m.book) /\ SameTerms(m.taker, o) /\ m.taker.qty \in Nat
                   /\ TradedBy(o.id, m.trades) + m.taker.qty = o.qty}
<1>1. start \in X
  <2>1. GoodBook(e.book) BY DEF Tidy
  <2>2. start \in MatchStates BY <2>1, GoodBookSet DEF MatchStates
  <2>3. start.book = e.book /\ start.taker = o /\ start.trades = <<>> OBVIOUS
  <2>4. TradedBy(o.id, start.trades) = 0 BY <2>3, NothingTraded
  <2>5. 0 + o.qty = o.qty OBVIOUS
  <2> HIDE DEF start
  <2>6. QED BY <2>2, <2>3, <2>4, <2>5 DEF SameTerms
<1>2. ASSUME NEW m \in X PROVE MatchStep(stp, ts, m) \in X
  <2> DEFINE n == MatchStep(stp, ts, m)
  <2>1. /\ m \in MatchStates /\ Tidy(m.book) /\ SameTerms(m.taker, o) /\ m.taker.qty \in Nat
        /\ TradedBy(o.id, m.trades) + m.taker.qty = o.qty /\ stp # "CancelTaker"
    OBVIOUS
  <2> HIDE DEF stp
  <2>2. n \in MatchStates BY <2>1, MatchStepType
  <2>3. Tidy(n.book)
    <3>1. CASE ~CanMatch(m) BY <2>1, <3>1 DEF MatchStep
    <3>2. CASE CanMatch(m) BY <2>1, <3>2, MatchStepLess
    <3>3. QED BY <3>1, <3>2
  <2>4. /\ SameTerms(n.taker, m.taker) /\ n.taker.qty \in Nat
        /\ TradedBy(m.taker.id, n.trades) + n.taker.qty
             = TradedBy(m.taker.id, m.trades) + m.taker.qty
    BY <2>1, MatchStepExact
  <2> HIDE DEF n
  <2>5. m.taker.id = o.id BY <2>1 DEF SameTerms
  <2>6. n \in X BY <2>1, <2>2, <2>3, <2>4, <2>5 DEF SameTerms
  <2>7. QED BY <2>6 DEF n
<1> HIDE DEF X
<1>3. Match(e, o, ts) \in X
  BY <1>1, <1>2, MatchStays DEF start
<1>4. QED BY <1>3 DEF X

(* A halt loses no order, so the end of process() loses none. *)
LEMMA HaltHolds ==
  ASSUME NEW e, GoodEngine(e), Tidy(e.book), NEW ts \in Int
  PROVE Held(e) \subseteq Held(Halt(e, ts))
<1> DEFINE x == e.queue
           y == Drained(e.book, "Buy")
           z == Drained(e.book, "Sell")
           q == x \o y \o z
<1>1. x \in Seq(Order) /\ y \in Seq(Order) /\ z \in Seq(Order)
  BY EngineFields, DrainedTidy DEF Sides
<1>2. Halt(e, ts).queue = q
  BY DEF Halt, GoodEngine, IsEngine
<1>3. \A o \in Resting(e.book) : o \in Range(y) \/ o \in Range(z)
  <2>1. \A o \in Resting(e.book) : o.side = "Buy" \/ o.side = "Sell" BY RestingIs DEF Sides
  <2>2. QED BY <2>1, DrainedAll DEF Sides
<1> HIDE DEF x, y, z
<1>4. Range(q) = (Range(x) \cup Range(y)) \cup Range(z)
  <2>1. x \o y \in Seq(Order) /\ Range(x \o y) = Range(x) \cup Range(y)
    BY <1>1, JoinedRange
  <2> DEFINE xy == x \o y
  <2>2. xy \in Seq(Order) /\ Range(xy) = Range(x) \cup Range(y) BY <2>1
  <2> HIDE DEF xy
  <2>3. Range(xy \o z) = Range(xy) \cup Range(z) BY <1>1, <2>2, JoinedRange
  <2>4. QED BY <2>2, <2>3 DEF xy
<1> HIDE DEF q
<1>5. QED BY <1>2, <1>3, <1>4 DEF Held, x

LEMMA SettledHolds ==
  ASSUME NEW r, GoodOutcome(r), Tidy(r.eng.book)
  PROVE /\ Held(r.eng) \subseteq Held(Settled(<<>>, r).eng)
        /\ Settled(<<>>, r).trades = r.trades
        /\ Settled(<<>>, r).eng.phase = "Continuous" \/ r.trades = <<>> =>
             Settled(<<>>, r).eng.book = r.eng.book
<1> DEFINE e == r.eng
           trades == r.trades
           told == OnTrades(e, trades)
           ref == IF told.cb_ref = None THEN Head(trades).price ELSE told.cb_ref
           armed == [told EXCEPT !.cb_ref = ref]
           new == MaybeTriggerCircuitBreaker(told, trades)
           s == Settled(<<>>, r)
<1>1. GoodEngine(e) /\ trades \in Seq(Trade) /\ Tidy(e.book)
  BY DEF GoodOutcome
<1>2. s.eng = new /\ s.trades = trades
  <2>1. <<>> \o trades = trades
    <3> HIDE DEF trades
    <3>1. QED BY <1>1, ConcatEmptySeq
  <2>2. /\ s.eng = MaybeTriggerCircuitBreaker(OnTrades(e, <<>> \o trades), <<>> \o trades)
        /\ s.trades = <<>> \o trades
    BY DEF Settled, Result
  <2>3. QED BY <2>1, <2>2
<1> HIDE DEF e, trades, s
<1>3. GoodEngine(told) /\ told.book = e.book /\ told.queue = e.queue
  BY <1>1, OnTradesGood DEF OnTrades, GoodEngine, IsEngine
<1>4. \/ new = told
      \/ trades # <<>> /\ new = armed
      \/ trades # <<>> /\ new = Halt(armed, Last(trades).ts)
  BY DEF MaybeTriggerCircuitBreaker
<1>5. \A x : x.book = e.book /\ x.queue = e.queue => Held(x) = Held(e)
  BY DEF Held
<1>6. Held(told) = Held(e)
  BY <1>3, <1>5
<1>7. CASE new = told
  BY <1>2, <1>3, <1>6, <1>7 DEF e, trades, s
<1>8. ASSUME trades # <<>>
      PROVE GoodEngine(armed) /\ armed.book = e.book /\ Held(armed) = Held(e) /\ Last(trades).ts \in Int
  <2>1. Head(trades).price \in Prices /\ Last(trades).ts \in Int
    BY <1>1, <1>8, EndTrades DEF Trade
  <2>2. ref \in Prices \cup {None} BY <1>3, <2>1, EngineFields
  <2> HIDE DEF told, ref
  <2>3. armed.book = told.book /\ armed.queue = told.queue
    BY <1>3 DEF GoodEngine, IsEngine
  <2>4. GoodEngine(armed) BY <1>3, <2>2, SetPrice
  <2>5. QED BY <1>3, <1>5, <2>1, <2>3, <2>4
<1>9. CASE trades # <<>> /\ new = armed
  <2> HIDE DEF armed, new, told
  <2>1. QED BY <1>2, <1>8, <1>9 DEF e, trades, s
<1>10. CASE trades # <<>> /\ new = Halt(armed, Last(trades).ts)
  <2> DEFINE ts == Last(trades).ts
  <2>1. GoodEngine(armed) /\ Tidy(armed.book) /\ Held(armed) = Held(e) /\ ts \in Int
    BY <1>1, <1>8, <1>10
  <2> HIDE DEF armed, ts
  <2>2. Held(armed) \subseteq Held(Halt(armed, ts)) BY <2>1, HaltHolds
  <2>3. Halt(armed, ts).phase = "Halted"
    BY <2>1 DEF Halt, GoodEngine, IsEngine
  <2> HIDE DEF new
  <2>4. QED BY <1>2, <1>10, <2>1, <2>2, <2>3 DEF e, trades, s, ts
<1>11. QED BY <1>4, <1>7, <1>9, <1>10

(* The loop has ended, so the book takes what is left: nothing on the other side
   is at a price it would take. *)
LEMMA LeftRests ==
  ASSUME NEW e, GoodEngine(e), NEW m \in MatchStates, Tidy(m.book), ~CanMatch(m),
         NEW left \in Order, left.side = m.taker.side, left.type = "Limit",
         left.qty = m.taker.qty, left.qty > 0,
         m.taker.type = "Limit" => left.price = m.taker.price,
         Gone(m.book, left.id)
  PROVE LET r == RestLeft(e, m, left)
        IN  /\ Tidy(r.eng.book) /\ left \in Resting(r.eng.book) /\ r.trades = m.trades
            /\ \A x \in Resting(r.eng.book) : x \in Resting(m.book) \/ x = left
<1> DEFINE book == m.book
           add == AddRestingLimit(book, left)
           r == RestLeft(e, m, left)
<1>1. r.eng.book = add.book /\ r.trades = m.trades
  BY DEF RestLeft, AfterMatch, GoodEngine, IsEngine, MatchStates
<1>2. ~WouldCross(book, left)
  <2> DEFINE best == Best(book, Opposite(left.side))
             b == m.taker
  <2>1. \/ best = None
        \/ b.type = "Limit" /\ ~Allows(b.side, b.price, best)
    BY DEF CanMatch
  <2>2. WouldCross(book, left) <=> best # None /\ Allows(left.side, left.price, best)
    BY DEF WouldCross
  <2> HIDE DEF best
  <2>3. b.type = "Limit" => left.price = b.price /\ left.side = b.side
    OBVIOUS
  <2>4. QED BY <2>1, <2>2, <2>3
<1>3. ~(left.type # "Limit" \/ left.qty <= 0 \/ WouldCross(book, left))
  <2>1. left.qty \in Int BY DEF Order
  <2>2. ~(left.qty <= 0) BY <2>1
  <2> HIDE DEF book
  <2>3. QED BY <1>2, <2>2
<1>4. add.ok
  BY <1>3 DEF AddRestingLimit, Done
<1>5. Apart(Resting(book), {left}) /\ Tidy(book)
  BY DEF Apart, Gone
<1> HIDE DEF book, r
<1>6. Tidy(add.book) /\ Resting(add.book) = Resting(book) \cup {left}
  BY <1>4, <1>5, AddTidy
<1> HIDE DEF add
<1>7. QED BY <1>1, <1>6 DEF r, book

LEMMA TradedInt ==
  ASSUME NEW id, NEW trades \in Seq(Trade)
  PROVE TradedBy(id, trades) \in Int
<1> DEFINE q == Parts(id, trades)
<1>1. TradedBy(id, trades) = QtyOf(q) /\ HasQtys(q)
  BY TradedParts
<1> HIDE DEF q
<1>2. PICK f : RunningSum(f, q)
  BY <1>1, RunningSumExists
<1>3. QtyOf(q) = f[Len(q)] /\ Len(q) \in 0 .. Len(q)
  BY <1>1, <1>2, QtyOfIsSum DEF HasQtys
<1>4. QED BY <1>1, <1>2, <1>3 DEF RunningSum

(* The engine has room in its loop for the orders that rest, and o is new. *)
Ready(e, o) ==
  /\ GoodEngine(e) /\ Tidy(e.book) /\ Gone(e.book, o.id)
  /\ IsFiniteSet(RestingIds(e.book)) /\ Cardinality(RestingIds(e.book)) <= MaxLoop

(* What the matching of o does to the accounts. *)
LEMMA MatchedWhole ==
  ASSUME NEW e, NEW o \in Order, Ready(e, o), o.qty \in Nat, e.cfg.stp # "CancelTaker",
         NEW ts \in Int
  PROVE LET m == Match(e, o, ts)
        IN  /\ m \in MatchStates /\ Tidy(m.book) /\ ~CanMatch(m) /\ Gone(m.book, o.id)
            /\ SameTerms(m.taker, o) /\ m.taker \in Order /\ m.taker.qty \in Nat
            /\ m.trades \in Seq(Trade)
            /\ TradedBy(o.id, m.trades) \in Int
            /\ TradedBy(o.id, m.trades) + m.taker.qty = o.qty
<1> DEFINE m == Match(e, o, ts)
<1>1. e.next_trade_id \in Nat /\ Tidy(e.book) /\ GoodBook(e.book)
  BY EngineFields DEF Ready
<1>2. /\ m \in MatchStates /\ Tidy(m.book) /\ SameTerms(m.taker, o) /\ m.taker.qty \in Nat
      /\ TradedBy(o.id, m.trades) + m.taker.qty = o.qty
  BY <1>1, MatchExact
<1>3. ~CanMatch(m)
  BY <1>1, MatchEnds DEF Ready
<1>4. Served(m.book, m.trades, e.book, {})
  BY <1>1, MatchServes
<1> HIDE DEF m
<1>5. Gone(m.book, o.id)
  BY <1>1, <1>2, <1>4, StaysGone DEF Served, Tidy, Ready
<1>6. m.taker \in Order /\ m.trades \in Seq(Trade)
  BY <1>2 DEF MatchStates
<1>7. TradedBy(o.id, m.trades) \in Int
  BY <1>6, TradedInt
<1>8. QED BY <1>2, <1>3, <1>5, <1>6, <1>7 DEF m

LEMMA LimitAccounted ==
  ASSUME NEW e, NEW o \in Order, Ready(e, o), o.qty \in Nat, e.cfg.stp # "CancelTaker",
         o.type = "Limit", o.tif # "IOC", NEW ts \in Int
  PROVE LET r == ProcessLimit(e, o, ts)
        IN  /\ Tidy(r.eng.book)
            /\ \/ TradedBy(o.id, r.trades) = o.qty
               \/ \E x \in Resting(r.eng.book) :
                    x.id = o.id /\ TradedBy(o.id, r.trades) + x.qty = o.qty
<1> DEFINE m == Match(e, o, ts)
           r == ProcessLimit(e, o, ts)
<1>1. GoodEngine(e)
  BY DEF Ready
<1>2. /\ m \in MatchStates /\ Tidy(m.book) /\ ~CanMatch(m) /\ Gone(m.book, o.id)
      /\ SameTerms(m.taker, o) /\ m.taker \in Order /\ m.taker.qty \in Nat
      /\ TradedBy(o.id, m.trades) \in Int
      /\ TradedBy(o.id, m.trades) + m.taker.qty = o.qty
  BY MatchedWhole
<1>3. r = IF m.taker.qty > 0 THEN RestLeft(e, m, m.taker) ELSE Unrested(e, m)
  BY DEF ProcessLimit
<1> HIDE DEF m, r
<1>4. CASE m.taker.qty > 0
  <2> DEFINE left == m.taker
  <2>1. left.type = "Limit" /\ left.id = o.id /\ left.qty > 0 /\ Gone(m.book, left.id)
    BY <1>2, <1>4 DEF SameTerms
  <2>2. /\ Tidy(RestLeft(e, m, left).eng.book) /\ left \in Resting(RestLeft(e, m, left).eng.book)
        /\ RestLeft(e, m, left).trades = m.trades
    BY <1>1, <1>2, <2>1, LeftRests
  <2>3. QED BY <1>2, <1>3, <1>4, <2>1, <2>2 DEF r
<1>5. CASE ~(m.taker.qty > 0)
  <2>1. r.eng.book = m.book /\ r.trades = m.trades
    BY <1>1, <1>3, <1>5 DEF Unrested, AfterMatch, GoodEngine, IsEngine
  <2>2. TradedBy(o.id, m.trades) = o.qty
    BY <1>2, <1>5
  <2>3. QED BY <1>2, <2>1, <2>2 DEF r
<1>6. QED BY <1>4, <1>5

(* A market order whose loop has ended found nothing more on the other side. *)
LEMMA MarketAccounted ==
  ASSUME NEW e, NEW o \in Order, Ready(e, o), o.qty \in Nat, e.cfg.stp # "CancelTaker",
         o.type = "Market", o.style = "MarketToLimit", NEW ts \in Int
  PROVE LET r == ProcessMarket(e, o, ts)
        IN  /\ Tidy(r.eng.book)
            /\ \/ r.trades = <<>> \/ TradedBy(o.id, r.trades) = o.qty
               \/ \E x \in Resting(r.eng.book) :
                    /\ x.id = o.id /\ TradedBy(o.id, r.trades) + x.qty = o.qty
                    /\ x.price = Last(r.trades).price /\ x.qty \in Int
<1> DEFINE m == Match(e, o, ts)
           left == [m.taker EXCEPT !.type = "Limit", !.tif = "GTC",
                                   !.price = Last(m.trades).price, !.style = "PureMarket"]
           r == ProcessMarket(e, o, ts)
<1>1. GoodEngine(e)
  BY DEF Ready
<1>2. /\ m \in MatchStates /\ Tidy(m.book) /\ ~CanMatch(m) /\ Gone(m.book, o.id)
      /\ SameTerms(m.taker, o) /\ m.taker \in Order /\ m.taker.qty \in Nat
      /\ m.trades \in Seq(Trade)
      /\ TradedBy(o.id, m.trades) \in Int
      /\ TradedBy(o.id, m.trades) + m.taker.qty = o.qty
  BY MatchedWhole
<1>3. r = IF m.taker.qty > 0 /\ m.trades # <<>> THEN RestLeft(e, m, left) ELSE Unrested(e, m)
  BY DEF ProcessMarket
<1> HIDE DEF m, r
<1>4. CASE m.taker.qty > 0 /\ m.trades # <<>>
  <2>1. Last(m.trades).price \in Prices BY <1>2, <1>4, EndTrades DEF Trade
  <2>2. left \in Order /\ left.id = o.id /\ left.side = m.taker.side /\ left.type = "Limit"
        /\ left.qty = m.taker.qty /\ left.price = Last(m.trades).price
    BY <1>2, <2>1 DEF Order, SameTerms
  <2>3. m.taker.type # "Limit" BY <1>2 DEF SameTerms
  <2> HIDE DEF left
  <2>4. left.qty > 0 /\ Gone(m.book, left.id) /\ left.qty \in Int BY <1>2, <1>4, <2>2
  <2>5. /\ Tidy(RestLeft(e, m, left).eng.book) /\ left \in Resting(RestLeft(e, m, left).eng.book)
        /\ RestLeft(e, m, left).trades = m.trades
    BY <1>1, <1>2, <2>2, <2>3, <2>4, LeftRests
  <2>6. r = RestLeft(e, m, left) BY <1>3, <1>4
  <2>7. QED BY <1>2, <2>2, <2>4, <2>5, <2>6 DEF r
<1>5. CASE ~(m.taker.qty > 0 /\ m.trades # <<>>)
  <2>1. r.eng.book = m.book /\ r.trades = m.trades
    BY <1>1, <1>3, <1>5 DEF Unrested, AfterMatch, GoodEngine, IsEngine
  <2>2. m.trades = <<>> \/ TradedBy(o.id, m.trades) = o.qty
    BY <1>2, <1>5
  <2>3. QED BY <1>2, <2>1, <2>2 DEF r
<1>6. QED BY <1>4, <1>5

(* process in Continuous: the order is refused, queued or killed for want of
   liquidity, or it is matched. *)
LEMMA ContinuousForms ==
  ASSUME NEW e, GoodEngine(e), Tidy(e.book), e.phase = "Continuous",
         NEW o \in Order, NEW ts \in Int
  PROVE LET r == Process(e, o, ts)
        IN  \/ r.status # "Accepted" /\ r.trades = <<>> /\ r.eng.book = e.book
            \/ /\ o.qty > 0 /\ r.trades = <<>> /\ r.eng.book = e.book
               /\ o \in Held(r.eng) \/ o.tif = "FOK"
            \/ /\ o.qty > 0 /\ (o.tif = "FOK" => ~(AvailableLiquidity(e.book, o) < o.qty))
               /\ r = Settled(<<>>, IF o.type = "Market" THEN ProcessMarket(e, o, ts)
                                    ELSE ProcessLimit(e, o, ts))
<1> DEFINE f == Flush(e, ts)
           status == PreAccept(e.cfg, e.phase, o)
           auction == [e EXCEPT !.phase = "Auction", !.auction_end = ts + e.cfg.vol_auction]
           nothing == [eng |-> e, trades |-> <<>>, resting |-> None]
           refused == Result(e, <<>>, None, status)
           queued == Result(QueueInAuction(auction, o), <<>>, None, "Accepted")
           killed == Settled(<<>>, nothing)
           matched == Settled(<<>>, IF o.type = "Market" THEN ProcessMarket(e, o, ts)
                                    ELSE ProcessLimit(e, o, ts))
           r == Process(e, o, ts)
           short == AvailableLiquidity(e.book, o) < o.qty
<1>1. f = [eng |-> e, trades |-> <<>>]
  BY DEF Flush, ExpireAuction, ExpireHalt, ExpireTradingAtLast, AuctionDue
<1>2. IF status # "Accepted" THEN r = refused
      ELSE \/ r = queued
           \/ o.tif = "FOK" /\ r = killed
           \/ (o.tif = "FOK" => ~short) /\ r = matched
  <2>1. r = ProcessFlushed(f, o, ts) BY DEF Process
  <2>2. f.eng = e /\ f.trades = <<>> BY <1>1
  <2> HIDE DEF f, r
  <2>3. r = IF status # "Accepted" THEN refused ELSE ProcessContinuous(e, <<>>, o, ts)
    BY <2>1, <2>2 DEF ProcessFlushed
  <2>4. \/ ProcessContinuous(e, <<>>, o, ts) = queued
        \/ o.tif = "FOK" /\ ProcessContinuous(e, <<>>, o, ts) = killed
        \/ (o.tif = "FOK" => ~short) /\ ProcessContinuous(e, <<>>, o, ts) = matched
    BY DEF ProcessContinuous
  <2> HIDE DEF refused, queued, killed, matched, status, short
  <2>5. QED BY <2>3, <2>4
<1>3. /\ refused.eng = e /\ refused.trades = <<>> /\ refused.status = status
      /\ queued.trades = <<>> /\ queued.eng = QueueInAuction(auction, o)
  BY DEF Result
<1>4. QueueInAuction(auction, o).book = e.book
      /\ QueueInAuction(auction, o).queue = Append(e.queue, o)
  BY DEF QueueInAuction, GoodEngine, IsEngine
<1>5. o \in Range(Append(e.queue, o))
  <2> DEFINE q == e.queue
  <2>1. q \in Seq(Order) BY EngineFields
  <2> HIDE DEF q
  <2>2. Range(Append(q, o)) = Range(q) \cup {o} BY <2>1, AppendedRange
  <2>3. QED BY <2>2 DEF q
<1>6. killed.trades = <<>> /\ killed.eng.book = e.book
  <2>1. nothing.eng = e /\ nothing.trades = <<>> OBVIOUS
  <2> HIDE DEF nothing
  <2>2. GoodOutcome(nothing) /\ Tidy(nothing.eng.book) BY <2>1 DEF GoodOutcome
  <2>3. Settled(<<>>, nothing).trades = <<>> /\ Settled(<<>>, nothing).eng.book = e.book
    BY <2>1, <2>2, SettledHolds
  <2>4. QED BY <2>3
<1>7. status = "Accepted" => o.qty > 0
  BY NothingRefused
<1> HIDE DEF r, refused, queued, killed, matched, status, short, auction
<1>8. \/ r.status # "Accepted" /\ r.trades = <<>> /\ r.eng.book = e.book
      \/ /\ o.qty > 0 /\ r.trades = <<>> /\ r.eng.book = e.book
         /\ o \in Held(r.eng) \/ o.tif = "FOK"
      \/ o.qty > 0 /\ (o.tif = "FOK" => ~short) /\ r = matched
  <2>1. CASE status # "Accepted" BY <1>2, <1>3, <2>1
  <2>2. CASE status = "Accepted" /\ r = queued
    <3>1. o \in Range(r.eng.queue) BY <1>3, <1>4, <1>5, <2>2
    <3>2. o \in Held(r.eng) BY <3>1 DEF Held
    <3>3. QED BY <1>3, <1>4, <1>7, <2>2, <3>2
  <2>3. CASE status = "Accepted" /\ r # queued
    BY <1>2, <1>6, <1>7, <2>3
  <2>4. QED BY <2>1, <2>2, <2>3
<1>9. QED BY <1>8 DEF r, matched, short

(* The step submits o, which is new, at time ts. *)
Submits(o, ts) ==
  LET r == Process(eng, o, ts)
  IN  /\ o \in Order /\ o \in Incoming /\ ts \in Int /\ out'.order = o /\ o \in submitted'
      /\ Gone(eng.book, o.id)
      /\ eng' = r.eng /\ out'.trades = r.trades /\ out'.status = r.status
      /\ traded'[o.id] = TradedBy(o.id, r.trades)

LEMMA SubmitOnly ==
  ASSUME AccountInv, Next, out'.call = "submit"
  PROVE \E o, ts : Submits(o, ts)
<1>1. \E o \in Incoming, ts \in Times(LastArrival) : Submit(o, ts)
  <2>1. ASSUME NEW ts, Advance(ts) PROVE out'.call = "advance"
    BY <2>1 DEF Advance, Flushed, Quiet
  <2>2. ASSUME NEW id, CancelOrder(id) PROVE out'.call = "cancel"
    BY <2>2 DEF CancelOrder, Quiet
  <2>3. ASSUME NEW id, NEW n, ModifyOrder(id, n) PROVE out'.call = "modify"
    BY <2>3 DEF ModifyOrder, Quiet
  <2>4. QED BY <2>1, <2>2, <2>3 DEF Next, Tick
<1>2. PICK o \in Incoming, ts \in Times(LastArrival) : Submit(o, ts)
  BY <1>1
<1> DEFINE r == Process(eng, o, ts)
           trades == r.trades
<1>3. /\ submitted \subseteq Incoming /\ FromKnown(Held(eng), submitted) /\ GoodEngine(eng)
      /\ now \in Int /\ traded \in [Ids -> Nat]
      /\ \A id \in Ids : (\A s \in submitted : s.id # id) => traded[id] = 0
  BY DEF AccountInv, Accounts, History, IInv, TypeOK, GoodEngine
<1>4. ts \in Int /\ o \in Incoming \ submitted /\ o \in Order /\ o.id \in Ids
  BY <1>2, <1>3, TimesInt, MachineAssumption DEF Submit, Order
<1>5. Apart(Held(eng), {o})
  BY <1>3, <1>4, Newcomer
<1>6. Gone(eng.book, o.id)
  BY <1>5 DEF Apart, Held, Gone
<1>7. trades \in Seq(Trade)
  <2>1. GoodOutcome(r) BY <1>3, <1>4, ProcessGood DEF GoodResult
  <2> HIDE DEF r
  <2>2. QED BY <2>1 DEF GoodOutcome
<1> HIDE DEF trades
<1>8. TradedBy(o.id, trades) \in Int
  BY <1>7, TradedInt
<1>9. /\ eng' = r.eng /\ out'.trades = trades /\ out'.status = r.status /\ out'.order = o
      /\ o \in submitted' /\ traded'[o.id] = traded[o.id] + TradedBy(o.id, trades)
  BY <1>2, <1>4 DEF Submit, Submitted, Record, trades
<1>10. traded[o.id] = 0
  BY <1>3, <1>4, MachineAssumption
<1>11. Submits(o, ts)
  BY <1>4, <1>6, <1>8, <1>9, <1>10 DEF Submits, trades
<1>12. QED BY <1>11

LEMMA SubmitReady ==
  ASSUME LoopsSuffice, AccountInv, NEW o, NEW ts, Submits(o, ts)
  PROVE Ready(eng, o)
<1>1. /\ submitted \subseteq Incoming /\ FromKnown(Held(eng), submitted) /\ GoodEngine(eng)
      /\ Tidy(eng.book)
  BY DEF AccountInv, Accounts, IInv, TypeOK, GoodEngine, Placed
<1>2. FromKnown(Resting(eng.book), submitted)
  BY <1>1 DEF FromKnown, Held
<1>3. IsFiniteSet(RestingIds(eng.book)) /\ Cardinality(RestingIds(eng.book)) <= MaxLoop
  BY <1>1, <1>2, FewRest
<1>4. QED BY <1>1, <1>3 DEF Ready, Submits

(* An order that is held may still trade what is left of it. *)
LEMMA HeldLive ==
  ASSUME AccountInv, NEW x \in Held(eng)
  PROVE Live(eng, x.id) = x.qty
<1>1. GoodEngine(eng) /\ Placed(eng) /\ FromKnown(Held(eng), submitted)
  BY DEF AccountInv, Accounts, IInv, TypeOK, GoodEngine
<1>2. OneEach(Held(eng)) /\ \A o \in Held(eng) : o.qty \in Int
  BY <1>1, HeldOnce DEF FromKnown
<1>3. Live(eng, x.id) = Room(Held(eng), x.id)
  BY <1>1, <1>2, LiveIs
<1>4. QED BY <1>2, <1>3, RoomIs

(* A limit order that may rest is accounted for to the last share: what it has
   not traded is in the book or in the queue. *)
LEMMA SubmitAccounted ==
  ASSUME LoopsSuffice, AccountInv, eng.phase = "Continuous", NEW o, NEW ts, Submits(o, ts),
         o.type = "Limit", o.tif = "GTC", out'.status = "Accepted",
         eng.cfg.stp # "CancelTaker"
  PROVE \/ traded'[o.id] = o.qty
        \/ \E x \in Held(eng') : x.id = o.id /\ traded'[o.id] + x.qty = o.qty
<1> DEFINE r == Process(eng, o, ts)
           l == ProcessLimit(eng, o, ts)
           s == Settled(<<>>, l)
           market == ProcessMarket(eng, o, ts)
<1>1. Ready(eng, o) /\ GoodEngine(eng) /\ Tidy(eng.book) /\ o \in Order /\ ts \in Int
      /\ o.type # "Market" /\ o.tif # "FOK" /\ o.tif # "IOC" /\ o.qty \in Int
  BY SubmitReady DEF Ready, Submits, Order
<1>2. r.status = "Accepted" /\ eng' = r.eng /\ traded'[o.id] = TradedBy(o.id, r.trades)
  BY DEF Submits
<1>3. \/ o.qty > 0 /\ r.trades = <<>> /\ o \in Held(r.eng)
      \/ o.qty > 0 /\ r = s
  <2> HIDE DEF r, s
  <2>1. \/ r.status # "Accepted"
        \/ o.qty > 0 /\ r.trades = <<>> /\ (o \in Held(r.eng) \/ o.tif = "FOK")
        \/ o.qty > 0 /\ r = Settled(<<>>, IF o.type = "Market" THEN market ELSE l)
    BY <1>1, ContinuousForms DEF r
  <2>2. QED BY <1>1, <1>2, <2>1 DEF s
<1>4. CASE o.qty > 0 /\ r.trades = <<>> /\ o \in Held(r.eng)
  <2> HIDE DEF r
  <2>1. TradedBy(o.id, r.trades) = 0 BY <1>4, NothingTraded
  <2>2. QED BY <1>1, <1>2, <1>4, <2>1
<1>5. CASE o.qty > 0 /\ r = s
  <2>1. Tidy(l.eng.book) /\ (\/ TradedBy(o.id, l.trades) = o.qty
                             \/ \E x \in Resting(l.eng.book) :
                                  x.id = o.id /\ TradedBy(o.id, l.trades) + x.qty = o.qty)
    BY <1>1, <1>5, LimitAccounted
  <2>2. GoodOutcome(l) BY <1>1, ProcessLimitGood
  <2> HIDE DEF l
  <2>3. Held(l.eng) \subseteq Held(s.eng) /\ s.trades = l.trades
    BY <2>1, <2>2, SettledHolds
  <2> HIDE DEF s, r
  <2>4. Resting(l.eng.book) \subseteq Held(s.eng) BY <2>3 DEF Held
  <2>5. QED BY <1>2, <1>5, <2>1, <2>3, <2>4
<1> HIDE DEF r, s
<1>6. QED BY <1>3, <1>4, <1>5

(* Matching, queueing and the halt that matching may cause lose no share of a
   limit order good till cancelled. *)
THEOREM MachineNothingLost == LoopsSuffice => (Spec => NothingLost)
<1> DEFINE Whole ==
      ( /\ eng.phase = "Continuous" /\ out'.call = "submit"
        /\ out'.order.tif = "GTC" /\ out'.order.type = "Limit"
        /\ out'.status = "Accepted" /\ eng.cfg.stp # "CancelTaker" )
      => traded'[out'.order.id] + Live(eng', out'.order.id) = out'.order.qty
           HeldFine == \A x \in Held(eng) : Live(eng, x.id) = x.qty
           OpenFine == \A o \in submitted : traded[o.id] \in Nat /\ Live(eng, o.id) \in Nat
<1>1. AccountInv' => HeldFine'
  <2>1. AccountInv => HeldFine BY HeldLive
  <2> HIDE DEF HeldFine
  <2>2. QED BY <2>1, PTL
<1>2. AccountInv' => OpenFine'
  <2>1. AccountInv => OpenFine BY OpenNow
  <2> HIDE DEF OpenFine
  <2>2. QED BY <2>1, PTL
<1> HIDE DEF HeldFine, OpenFine
<1>3. LoopsSuffice /\ AccountInv /\ AccountInv' /\ Promise!NoOverfill' /\ Next => Whole
  <2>1. SUFFICES ASSUME LoopsSuffice, AccountInv, AccountInv', Promise!NoOverfill', Next,
                        eng.phase = "Continuous", out'.call = "submit",
                        out'.order.tif = "GTC", out'.order.type = "Limit",
                        out'.status = "Accepted", eng.cfg.stp # "CancelTaker"
                 PROVE traded'[out'.order.id] + Live(eng', out'.order.id) = out'.order.qty
    OBVIOUS
  <2>2. PICK o, ts : Submits(o, ts) BY <2>1, SubmitOnly
  <2>3. o = out'.order /\ o \in submitted' /\ o \in Order BY <2>2 DEF Submits
  <2> DEFINE t == traded'[o.id]
             l == Live(eng', o.id)
  <2>4. \/ t = o.qty
        \/ \E x \in Held(eng') : x.id = o.id /\ t + x.qty = o.qty
    BY <2>1, <2>2, <2>3, SubmitAccounted
  <2>5. \A x \in Held(eng') : x.id = o.id => l = x.qty
    BY <2>1, <1>1 DEF HeldFine
  <2>6. t \in Nat /\ l \in Nat
    BY <2>1, <2>3, <1>2 DEF OpenFine
  <2>7. t + l <= Promise!Size(o)
    BY <2>1, <2>3 DEF Promise!NoOverfill
  <2>8. o.qty \in Int /\ Promise!Size(o) = (IF o.qty > 0 THEN o.qty ELSE 0)
    BY <2>3 DEF Promise!Size, Order
  <2> HIDE DEF t, l
  <2>9. t + l = o.qty
    BY <2>4, <2>5, <2>6, <2>7, <2>8
  <2>10. QED BY <2>3, <2>9 DEF t, l
<1>4. LoopsSuffice /\ AccountInv /\ AccountInv' /\ Promise!NoOverfill' /\ [Next]_vars
        => [Whole]_vars
  BY <1>3
<1> HIDE DEF Whole
<1>5. Spec => []Promise!NoOverfill
  BY MachineNoOverfill
<1>6. LoopsSuffice => (Spec => [][Whole]_vars)
  BY <1>4, <1>5, LoopsStay, AccountInit, AccountNext, PTL DEF Spec
<1>7. QED BY <1>6 DEF NothingLost, Whole

(* The remainder of a market-to-limit order is in the book, at the last price. *)
LEMMA SubmitToLimit ==
  ASSUME LoopsSuffice, AccountInv, eng.phase = "Continuous", NEW o, NEW ts, Submits(o, ts),
         o.type = "Market", o.style = "MarketToLimit", eng.cfg.stp # "CancelTaker",
         eng'.phase = "Continuous", 0 < traded'[o.id], traded'[o.id] < o.qty
  PROVE \E x \in Resting(eng'.book) :
          /\ x.id = o.id /\ x.qty = o.qty - traded'[o.id]
          /\ x.price = Last(out'.trades).price
<1> DEFINE r == Process(eng, o, ts)
           l == ProcessMarket(eng, o, ts)
           s == Settled(<<>>, l)
           limit == ProcessLimit(eng, o, ts)
           t == traded'[o.id]
<1>1. Ready(eng, o) /\ GoodEngine(eng) /\ Tidy(eng.book) /\ o \in Order /\ ts \in Int
      /\ o.qty \in Int
  BY SubmitReady DEF Ready, Submits, Order
<1>2. eng' = r.eng /\ out'.trades = r.trades /\ t = TradedBy(o.id, r.trades)
  BY DEF Submits
<1>3. o.qty > 0 /\ r = s
  <2>1. r.trades # <<>> BY <1>2, NothingTraded
  <2> HIDE DEF r, s
  <2>2. r.trades = <<>> \/ (o.qty > 0 /\ r = Settled(<<>>, IF o.type = "Market" THEN l ELSE limit))
    BY <1>1, ContinuousForms DEF r
  <2>3. QED BY <2>1, <2>2 DEF s
<1>4. /\ Tidy(l.eng.book)
      /\ \/ l.trades = <<>> \/ TradedBy(o.id, l.trades) = o.qty
         \/ \E x \in Resting(l.eng.book) :
              /\ x.id = o.id /\ TradedBy(o.id, l.trades) + x.qty = o.qty
              /\ x.price = Last(l.trades).price /\ x.qty \in Int
  BY <1>1, <1>3, MarketAccounted
<1>5. GoodOutcome(l)
  BY <1>1, ProcessMarketGood
<1> HIDE DEF l
<1>6. s.trades = l.trades /\ (s.eng.phase = "Continuous" => s.eng.book = l.eng.book)
  BY <1>4, <1>5, SettledHolds
<1>7. TradedBy(o.id, l.trades) \in Int
  BY <1>5, TradedInt DEF GoodOutcome
<1> HIDE DEF s, r
<1>8. l.trades # <<>> /\ TradedBy(o.id, l.trades) = t /\ eng'.book = l.eng.book
      /\ out'.trades = l.trades
  <2>1. TradedBy(o.id, l.trades) = t /\ eng'.book = l.eng.book /\ out'.trades = l.trades
    BY <1>2, <1>3, <1>6
  <2>2. QED BY <2>1, NothingTraded
<1> HIDE DEF t
<1>9. PICK x \in Resting(l.eng.book) :
        /\ x.id = o.id /\ t + x.qty = o.qty
        /\ x.price = Last(l.trades).price /\ x.qty \in Int
  <2>1. t < o.qty BY DEF t
  <2>2. QED BY <1>1, <1>4, <1>7, <1>8, <2>1
<1>10. x.qty = o.qty - t
  BY <1>1, <1>7, <1>8, <1>9
<1>11. QED BY <1>8, <1>9, <1>10 DEF t

(* What a market-to-limit order has not traded rests at its last price: the loop
   ended because the other side had nothing more, so the book takes it. *)
THEOREM MachineMarketToLimit == LoopsSuffice => (Spec => MarketToLimitRests)
<1> DEFINE Rests ==
      LET o == out'.order IN
      ( /\ eng.phase = "Continuous" /\ out'.call = "submit"
        /\ o.type = "Market" /\ o.style = "MarketToLimit" /\ eng.cfg.stp # "CancelTaker"
        /\ eng'.phase = "Continuous" /\ 0 < traded'[o.id] /\ traded'[o.id] < o.qty )
      => \E r \in Resting(eng'.book) :
           r.id = o.id /\ r.qty = o.qty - traded'[o.id] /\ r.price = Last(out'.trades).price
<1>1. LoopsSuffice /\ AccountInv /\ Next => Rests
  <2> DEFINE o == out'.order
  <2>1. SUFFICES ASSUME LoopsSuffice, AccountInv, Next, eng.phase = "Continuous",
                        out'.call = "submit", o.type = "Market", o.style = "MarketToLimit",
                        eng.cfg.stp # "CancelTaker", eng'.phase = "Continuous",
                        0 < traded'[o.id], traded'[o.id] < o.qty
                 PROVE \E r \in Resting(eng'.book) :
                         /\ r.id = o.id /\ r.qty = o.qty - traded'[o.id]
                         /\ r.price = Last(out'.trades).price
    OBVIOUS
  <2>2. PICK x, ts : Submits(x, ts) BY <2>1, SubmitOnly
  <2>3. x = o BY <2>2 DEF Submits
  <2> HIDE DEF o
  <2>4. QED BY <2>1, <2>2, <2>3, SubmitToLimit
<1>2. LoopsSuffice /\ AccountInv /\ [Next]_vars => [Rests]_vars
  BY <1>1
<1> HIDE DEF Rests
<1>3. LoopsSuffice => (Spec => [][Rests]_vars)
  BY <1>2, LoopsStay, AccountInit, AccountNext, PTL DEF Spec
<1>4. QED BY <1>3 DEF MarketToLimitRests, Rests

----------------------------------------------------------------------------
(* Fill or kill: what a taker may trade with *)

(* The prices a taker allows, of the levels of the other side, and what each of
   these levels holds. *)
OpenPrices(book, o) ==
  {p \in DOMAIN book.levels[Opposite(o.side)] :
     o.type = "Limit" => Allows(o.side, o.price, p)}

LevelQtys(book, side) == [p \in DOMAIN book.levels[side] |-> QtyOf(book.levels[side][p].q)]

LEMMA OpenFinite ==
  ASSUME NEW book, GoodBook(book), NEW o \in Order
  PROVE LET side == Opposite(o.side)
            S == OpenPrices(book, o)
            f == LevelQtys(book, side)
        IN  /\ side \in Sides /\ IsFiniteSet(S) /\ S \subseteq Prices
            /\ \A p \in DOMAIN book.levels[side] :
                 /\ book.levels[side][p].total_qty = f[p] /\ f[p] \in Int
                 /\ f[p] = QtyOf(book.levels[side][p].q)
<1> DEFINE side == Opposite(o.side)
           f == LevelQtys(book, side)
<1>1. side \in Sides
  BY DEF Order, Opposite, Sides
<1> HIDE DEF side
<1>2. DOMAIN book.levels[side] \subseteq Prices
  BY <1>1 DEF GoodBook, IsBook, IsMap
<1>3. OpenPrices(book, o) \subseteq Prices
  BY <1>2 DEF OpenPrices, side
<1>4. IsFiniteSet(OpenPrices(book, o))
  BY <1>3, MarketAssumption, FS_Subset
<1>5. ASSUME NEW p \in DOMAIN book.levels[side]
      PROVE /\ book.levels[side][p].total_qty = f[p] /\ f[p] \in Int
            /\ f[p] = QtyOf(book.levels[side][p].q)
  <2>1. book.levels[side][p].total_qty = QtyOf(book.levels[side][p].q)
    BY <1>1, <1>5 DEF GoodBook, LevelsSound, Sound
  <2>2. book.levels[side][p] \in Level
    BY <1>1, <1>5 DEF GoodBook, IsBook, IsMap
  <2>3. f[p] = QtyOf(book.levels[side][p].q)
    BY <1>5 DEF LevelQtys
  <2>4. book.levels[side][p].total_qty \in Int
    BY <2>2 DEF Level
  <2>5. QED BY <2>1, <2>3, <2>4
<1>6. QED BY <1>1, <1>3, <1>4, <1>5 DEF side

(* The scan adds up what the levels at allowed prices hold. *)
LEMMA LiquidityIs ==
  ASSUME NEW book, GoodBook(book), NEW o \in Order
  PROVE AvailableLiquidity(book, o)
          = SumFunctionOnSet(LevelQtys(book, Opposite(o.side)), OpenPrices(book, o))
<1> DEFINE side == Opposite(o.side)
           S == OpenPrices(book, o)
           f == LevelQtys(book, side)
           Eqn(G) == G = [s \in SUBSET S |->
                            IF s = {} THEN 0
                            ELSE QtyOf(book.levels[side][CHOOSE x \in s : TRUE].q)
                                   + G[s \ {CHOOSE x \in s : TRUE}]]
           sum == CHOOSE G : Eqn(G)
<1>1. IsFiniteSet(S) /\ \A p \in S : f[p] \in Int /\ f[p] = QtyOf(book.levels[side][p].q)
  BY OpenFinite DEF OpenPrices
<1>2. AvailableLiquidity(book, o) = sum[S]
  BY DEF AvailableLiquidity, MapThenSumSet, MapThenFoldSet, OpenPrices
<1> HIDE DEF S, f
<1>3. \A s \in SUBSET S : s # {} =>
        f[CHOOSE x \in s : TRUE] = QtyOf(book.levels[side][CHOOSE x \in s : TRUE].q)
  BY <1>1
<1>4. PICK F \in [SUBSET S -> Int] : Sums(F, f, S)
  BY <1>1, SumsExist
<1>5. Eqn(F)
  BY <1>3, <1>4 DEF Sums, SumStep, Some
<1>6. Eqn(sum)
  <2> HIDE DEF Eqn
  <2>1. QED BY <1>5
<1> HIDE DEF sum
<1>7. Sums(sum, f, S)
  BY <1>3, <1>6 DEF Sums, SumStep, Some
<1>8. SumFunctionOnSet(f, S) = F[S]
  BY <1>1, <1>4, SumIs
<1>9. sum[S] = F[S]
  BY <1>1, <1>4, <1>7, SumsUnique
<1>10. QED BY <1>2, <1>8, <1>9 DEF S, f

(* A fill at the front takes from what the taker may trade with exactly what it
   trades. *)
LEMMA FillLiquidity ==
  ASSUME NEW book, Tidy(book), NEW o \in Order, Best(book, Opposite(o.side)) # None,
         o.type = "Limit" => Allows(o.side, o.price, Best(book, Opposite(o.side))),
         NEW n \in Int, GoodBook(FrontFilled(book, Opposite(o.side), n))
  PROVE /\ AvailableLiquidity(book, o) \in Int
        /\ AvailableLiquidity(FrontFilled(book, Opposite(o.side), n), o)
             = AvailableLiquidity(book, o) - n
<1> DEFINE side == Opposite(o.side)
           px == Best(book, side)
           old == book.levels[side]
           new == FrontFilled(book, side, n)
           fresh == new.levels[side]
           left == [FrontOf(book, side) EXCEPT !.qty = FrontOf(book, side).qty - n]
           rest == [q |-> IF left.qty = 0 THEN Tail(old[px].q) ELSE <<left>> \o Tail(old[px].q),
                    total_qty |-> old[px].total_qty - n]
           f == LevelQtys(book, side)
           g == LevelQtys(new, side)
           S == OpenPrices(book, o)
           T == OpenPrices(new, o)
<1>1. /\ side \in Sides /\ IsFiniteSet(S)
      /\ \A p \in DOMAIN old : old[p].total_qty = f[p] /\ f[p] \in Int /\ f[p] = QtyOf(old[p].q)
  BY OpenFinite DEF Tidy
<1>2. \A p \in DOMAIN fresh : fresh[p].total_qty = g[p] /\ g[p] \in Int /\ g[p] = QtyOf(fresh[p].q)
  BY OpenFinite
<1>3. S = {p \in DOMAIN old : o.type = "Limit" => Allows(o.side, o.price, p)}
      /\ T = {p \in DOMAIN fresh : o.type = "Limit" => Allows(o.side, o.price, p)}
  BY DEF OpenPrices
<1>4. px \in DOMAIN old
  BY <1>1, BestType DEF Tidy, GoodBook
<1>5. px \in S
  BY <1>3, <1>4
<1>6. rest.total_qty = old[px].total_qty - n
  OBVIOUS
<1>7. new.levels = IF rest.total_qty = 0 THEN DropLevel(book, side, px)
                   ELSE SetLevel(book, side, px, rest)
  BY DEF FrontFilled
<1>8. DOMAIN book.levels = Sides
  <2>1. IsBook(book) BY DEF Tidy, GoodBook
  <2>2. QED BY <2>1 DEF IsBook
<1> HIDE DEF rest, left, new, side, px
<1>9. /\ DropLevel(book, side, px)[side] = Erase(old, px)
      /\ SetLevel(book, side, px, rest)[side] = Put(old, px, rest)
  BY <1>1, <1>8 DEF DropLevel, SetLevel
<1>10. fresh = IF rest.total_qty = 0 THEN Erase(old, px) ELSE Put(old, px, rest)
  BY <1>7, <1>9
<1> HIDE DEF old, fresh, f, g, S, T
<1>11. /\ SumFunctionOnSet(f, S) \in Int /\ SumFunctionOnSet(f, S \ {px}) \in Int
       /\ SumFunctionOnSet(f, S) = f[px] + SumFunctionOnSet(f, S \ {px})
  <2>1. S \subseteq DOMAIN old BY <1>3
  <2>2. \A p \in S : f[p] \in Int BY <1>1, <2>1
  <2>3. IsFiniteSet(S) BY <1>1
  <2>4. QED BY <1>5, <2>2, <2>3, SumPick
<1>12. SumFunctionOnSet(g, T) = SumFunctionOnSet(f, S) - n
  <2>1. CASE rest.total_qty = 0
    <3>1. fresh = Erase(old, px) BY <1>10, <2>1
    <3>2. T = S \ {px} BY <1>3, <3>1 DEF Erase
    <3>3. \A p \in S \ {px} : f[p] \in Int /\ g[p] = f[p]
      BY <1>1, <1>2, <1>3, <3>1 DEF Erase
    <3>4. IsFiniteSet(S \ {px}) BY <1>1, FS_RemoveElement, <1>5
    <3>5. SumFunctionOnSet(f, S \ {px}) = SumFunctionOnSet(g, S \ {px})
      BY <3>3, <3>4, SumSame
    <3>6. f[px] = n
      <4>1. f[px] \in Int /\ f[px] - n = 0 BY <1>1, <1>4, <1>6, <2>1
      <4>2. QED BY <4>1
    <3>7. QED BY <1>11, <3>2, <3>5, <3>6
  <2>2. CASE rest.total_qty # 0
    <3>1. fresh = Put(old, px, rest) BY <1>10, <2>2
    <3>2. T = S BY <1>3, <1>4, <3>1 DEF Put
    <3>3. \A p \in S \ {px} : g[p] = f[p]
      BY <1>1, <1>2, <1>3, <3>1 DEF Put
    <3>4. g[px] = f[px] + (-n)
      <4>1. px \in DOMAIN fresh /\ fresh[px] = rest BY <1>4, <3>1 DEF Put
      <4>2. g[px] = f[px] - n /\ f[px] \in Int BY <1>1, <1>2, <1>4, <1>6, <4>1
      <4>3. QED BY <4>2
    <3>5. \A p \in S : f[p] \in Int BY <1>1, <1>3
    <3>6. SumFunctionOnSet(g, S) = SumFunctionOnSet(f, S) + (-n)
      BY <1>1, <1>5, <3>3, <3>4, <3>5, SumGrows
    <3>7. QED BY <1>11, <3>2, <3>6
  <2>3. QED BY <2>1, <2>2
<1>13. AvailableLiquidity(book, o) = SumFunctionOnSet(f, S)
  BY LiquidityIs DEF Tidy, f, S, side
<1>14. AvailableLiquidity(new, o) = SumFunctionOnSet(g, T)
  BY LiquidityIs DEF new, g, T, side
<1>15. QED BY <1>11, <1>12, <1>13, <1>14 DEF new, side

(* A loop that has ended has met everything the taker may trade with. *)
LEMMA NoLiquidity ==
  ASSUME NEW m \in MatchStates, Tidy(m.book), ~CanMatch(m), m.taker.qty > 0,
         NEW o, SameTerms(m.taker, o), o \in Order
  PROVE AvailableLiquidity(m.book, o) = 0
<1> DEFINE book == m.book
           side == Opposite(o.side)
           px == Best(book, side)
<1>1. side \in Sides /\ GoodBook(book) /\ IsBook(book)
  BY OpenFinite DEF Tidy, GoodBook
<1>2. px = None \/ (o.type = "Limit" /\ ~Allows(o.side, o.price, px))
  BY DEF CanMatch, SameTerms
<1>3. ASSUME NEW p \in DOMAIN book.levels[side], o.type = "Limit" => Allows(o.side, o.price, p)
      PROVE FALSE
  <2>1. px # None /\ ~Better(side, p, px) /\ px \in DOMAIN book.levels[side]
    <3>1. DOMAIN book.levels[side] # {} BY <1>3
    <3> HIDE DEF book, side
    <3>2. px \in DOMAIN book.levels[side] /\ ~Better(side, p, px)
      BY <1>1, <1>3, <3>1, BestIsBest
    <3>3. DOMAIN book.levels[side] \subseteq Prices BY <1>1 DEF IsBook, IsMap
    <3>4. QED BY <3>2, <3>3, MarketAssumption
  <2>2. p \in Int /\ px \in Int /\ o.price \in Int
    <3>1. DOMAIN book.levels[side] \subseteq Prices BY <1>1 DEF IsBook, IsMap
    <3>2. QED BY <1>3, <2>1, <3>1, MarketAssumption DEF Order
  <2>3. o.side \in Sides /\ ~Allows(o.side, o.price, px) /\ Allows(o.side, o.price, p)
    BY <1>2, <1>3, <2>1 DEF Order
  <2> HIDE DEF px, book
  <2>4. QED BY <2>1, <2>2, <2>3 DEF Allows, Better, Opposite, Sides
<1>4. OpenPrices(book, o) = {}
  BY <1>3 DEF OpenPrices
<1>5. QED BY <1>1, <1>4, LiquidityIs, SumEmpty

(* Without self-trade prevention every iteration takes as much off the other
   side as it takes off the taker. *)
Covers(m, o) ==
  /\ Tidy(m.book) /\ SameTerms(m.taker, o) /\ m.taker.qty \in Nat
  /\ AvailableLiquidity(m.book, o) >= m.taker.qty

LEMMA MatchStepCovers ==
  ASSUME NEW o \in Order, NEW m \in MatchStates, Covers(m, o), NEW ts \in Int
  PROVE MatchStep("None", ts, m) \in MatchStates /\ Covers(MatchStep("None", ts, m), o)
<1> DEFINE b == m.taker
           book == m.book
           side == Opposite(b.side)
           px == Best(book, side)
           front == book.levels[side][px].q
           a == FrontOf(book, side)
           q == Smaller(b.qty, a.qty)
           n == MatchStep("None", ts, m)
           new == FrontFilled(book, side, q)
           less == [b EXCEPT !.qty = b.qty - q]
<1>1. /\ Tidy(book) /\ SameTerms(b, o) /\ b.qty \in Nat /\ b \in Order /\ side \in Sides
      /\ AvailableLiquidity(book, o) >= b.qty /\ side = Opposite(o.side)
  BY DEF Covers, MatchStates, SameTerms, Order, Opposite, Sides
<1>2. n \in MatchStates
  BY MatchStepType
<1>3. CASE ~CanMatch(m)
  <2>1. n = m BY <1>3 DEF MatchStep
  <2>2. QED BY <2>1
<1>4. CASE CanMatch(m)
  <2>1. /\ px # None /\ b.qty > 0
        /\ o.type = "Limit" => Allows(o.side, o.price, px)
    BY <1>1, <1>4 DEF CanMatch, SameTerms
  <2>2. front # <<>> /\ a.qty \in Int /\ a.qty > 0 /\ a = Head(front)
    BY <1>1, <2>1, FrontRests DEF FrontOf
  <2>3. n = Fill(m, ts)
    BY <1>4, <2>2 DEF MatchStep
  <2>4. Fill(m, ts).taker = less /\ Fill(m, ts).book = new
    BY DEF Fill, FrontFilled, FrontOf
  <2>5. q \in Int /\ 0 < q /\ q <= b.qty /\ q <= a.qty
    <3>1. b.qty \in Int /\ a.qty \in Int /\ b.qty > 0 /\ a.qty > 0
      BY <1>1, <2>1, <2>2
    <3> HIDE DEF b, a
    <3>2. QED BY <3>1 DEF Smaller
  <2>6. SameTerms(less, b) /\ less.qty = b.qty - q
    <3> HIDE DEF q, b
    <3>1. QED BY <1>1 DEF SameTerms, Order
  <2> HIDE DEF less, q, n, b
  <2>7. GoodBook(new)
    <3>1. n.book = new BY <2>3, <2>4
    <3> HIDE DEF new
    <3>2. QED BY <1>2, <3>1 DEF MatchStates, GoodBooks
  <2>8. Tidy(new)
    BY <1>1, <2>1, <2>5, <2>7, FrontTidy
  <2>9. /\ AvailableLiquidity(book, o) \in Int
        /\ AvailableLiquidity(new, o) = AvailableLiquidity(book, o) - q
    BY <1>1, <2>1, <2>5, <2>7, FillLiquidity
  <2>10. n.taker = less /\ n.book = new
    BY <2>3, <2>4
  <2> HIDE DEF new, book
  <2>11. less.qty \in Nat /\ AvailableLiquidity(new, o) >= less.qty
    BY <1>1, <2>5, <2>6, <2>9
  <2>12. SameTerms(n.taker, o)
    BY <1>1, <2>6, <2>10 DEF SameTerms
  <2>13. Covers(n, o)
    BY <2>8, <2>10, <2>11, <2>12 DEF Covers
  <2>14. QED BY <1>2, <2>13 DEF n
<1>5. QED BY <1>3, <1>4

(* An order that the scan has found enough for is filled. *)
LEMMA MatchFills ==
  ASSUME NEW e, NEW o \in Order, Ready(e, o), o.qty \in Nat, e.cfg.stp = "None",
         AvailableLiquidity(e.book, o) >= o.qty, NEW ts \in Int
  PROVE LET m == Match(e, o, ts)
        IN  /\ m.taker.qty = 0 /\ TradedBy(o.id, m.trades) = o.qty
            /\ Gone(m.book, o.id) /\ m \in MatchStates /\ Tidy(m.book)
<1> DEFINE start == [book |-> e.book, taker |-> o, trades |-> <<>>, next |-> e.next_trade_id]
           m == Match(e, o, ts)
           X == {x \in MatchStates : Covers(x, o)}
<1>1. e.next_trade_id \in Nat /\ Tidy(e.book) /\ GoodBook(e.book)
  BY EngineFields DEF Ready
<1>2. start \in X
  <2>1. start \in MatchStates BY <1>1, GoodBookSet DEF MatchStates
  <2>2. start.book = e.book /\ start.taker = o OBVIOUS
  <2> HIDE DEF start
  <2>3. QED BY <1>1, <2>1, <2>2 DEF Covers, SameTerms
<1>3. ASSUME NEW x \in X PROVE MatchStep(e.cfg.stp, ts, x) \in X
  BY <1>3, MatchStepCovers
<1>4. /\ m \in MatchStates /\ Tidy(m.book) /\ ~CanMatch(m) /\ Gone(m.book, o.id)
      /\ m.taker.qty \in Nat /\ TradedBy(o.id, m.trades) \in Int
      /\ TradedBy(o.id, m.trades) + m.taker.qty = o.qty
  BY MatchedWhole
<1> HIDE DEF X
<1>5. m \in X
  BY <1>2, <1>3, MatchStays DEF start
<1> HIDE DEF m
<1>6. Covers(m, o)
  BY <1>5 DEF X
<1>7. m.taker.qty = 0
  <2>1. SUFFICES ASSUME m.taker.qty > 0 PROVE FALSE BY <1>4
  <2>2. AvailableLiquidity(m.book, o) = 0
    BY <1>4, <1>6, <2>1, NoLiquidity DEF Covers
  <2>3. QED BY <1>4, <1>6, <2>1, <2>2 DEF Covers
<1>8. QED BY <1>4, <1>7 DEF m

(* Fill or kill in Continuous: all of the order prints, or none of it, and
   nothing of it stays in the book. *)
LEMMA SubmitFok ==
  ASSUME LoopsSuffice, AccountInv, eng.phase = "Continuous", NEW o, NEW ts, Submits(o, ts),
         o.tif = "FOK", eng.cfg.stp = "None"
  PROVE traded'[o.id] \in {0, o.qty} /\ Gone(eng'.book, o.id)
<1> DEFINE m == Match(eng, o, ts)
           r == Process(eng, o, ts)
           market == ProcessMarket(eng, o, ts)
           limit == ProcessLimit(eng, o, ts)
           x == IF o.type = "Market" THEN market ELSE limit
           s == Settled(<<>>, x)
           liquid == AvailableLiquidity(eng.book, o)
<1>1. Ready(eng, o) /\ GoodEngine(eng) /\ GoodBook(eng.book) /\ Tidy(eng.book)
      /\ o \in Order /\ ts \in Int /\ o.qty \in Int
  BY SubmitReady DEF Ready, Submits, Order, Tidy
<1>2. eng' = r.eng /\ traded'[o.id] = TradedBy(o.id, r.trades) /\ Gone(eng.book, o.id)
  BY DEF Submits
<1>3. liquid \in Int
  <2> DEFINE f == LevelQtys(eng.book, Opposite(o.side))
             S == OpenPrices(eng.book, o)
  <2>1. IsFiniteSet(S) /\ \A p \in S : f[p] \in Int
    BY <1>1, OpenFinite DEF OpenPrices
  <2>2. liquid = SumFunctionOnSet(f, S)
    BY <1>1, LiquidityIs
  <2> HIDE DEF f, S
  <2>3. QED BY <2>1, <2>2, SumType
<1>4. \/ r.trades = <<>> /\ r.eng.book = eng.book
      \/ o.qty > 0 /\ liquid >= o.qty /\ r = s
  <2> HIDE DEF r, s, x, liquid
  <2>1. \/ r.trades = <<>> /\ r.eng.book = eng.book
        \/ o.qty > 0 /\ ~(liquid < o.qty) /\ r = s
    BY <1>1, ContinuousForms DEF r, s, x, liquid
  <2>2. QED BY <1>1, <1>3, <2>1
<1>5. CASE r.trades = <<>> /\ r.eng.book = eng.book
  <2> HIDE DEF r
  <2>1. TradedBy(o.id, r.trades) = 0 BY <1>5, NothingTraded
  <2>2. QED BY <1>2, <1>5, <2>1
<1>6. CASE o.qty > 0 /\ liquid >= o.qty /\ r = s
  <2>1. /\ m.taker.qty = 0 /\ TradedBy(o.id, m.trades) = o.qty
        /\ Gone(m.book, o.id) /\ m \in MatchStates /\ Tidy(m.book)
    BY <1>1, <1>6, MatchFills
  <2>2. market = Unrested(eng, m) /\ limit = Unrested(eng, m)
    <3> HIDE DEF m
    <3>1. ~(m.taker.qty > 0) BY <2>1
    <3>2. QED BY <3>1 DEF ProcessMarket, ProcessLimit, m
  <2>3. Unrested(eng, m).eng.book = m.book /\ Unrested(eng, m).trades = m.trades
    <3> HIDE DEF m
    <3>1. QED BY <1>1 DEF Unrested, AfterMatch, GoodEngine, IsEngine
  <2>4. GoodOutcome(x)
    BY <1>1, ProcessMarketGood, ProcessLimitGood
  <2> HIDE DEF m, market, limit, r, liquid
  <2>5. x.eng.book = m.book /\ x.trades = m.trades
    BY <2>2, <2>3
  <2> HIDE DEF x
  <2>6. s.trades = x.trades
    BY <2>1, <2>4, <2>5, SettledHolds
  <2>7. s.eng.book \in {x.eng.book, EmptyBook}
    BY <2>4, BreakerBook DEF Settled, Result, GoodOutcome
  <2> HIDE DEF s
  <2>8. Gone(s.eng.book, o.id)
    BY <2>1, <2>5, <2>7, EmptyTidy DEF Gone
  <2>9. QED BY <1>2, <1>6, <2>1, <2>5, <2>6, <2>8
<1> HIDE DEF r, s
<1>7. QED BY <1>4, <1>5, <1>6

(* Without self-trade prevention the liquidity the scan has counted is what the
   loop meets: a fill-or-kill order fills completely or does nothing. *)
THEOREM MachineFok == LoopsSuffice => (Spec => FokAllOrNothing)
<1> DEFINE Fok == SubmitsFok /\ eng.cfg.stp = "None" => FokOutcome
<1>1. LoopsSuffice /\ AccountInv /\ Next => Fok
  <2>1. SUFFICES ASSUME LoopsSuffice, AccountInv, Next, SubmitsFok, eng.cfg.stp = "None"
                 PROVE FokOutcome
    OBVIOUS
  <2>2. eng.phase = "Continuous" /\ out'.call = "submit" /\ out'.order.tif = "FOK"
    BY <2>1 DEF SubmitsFok
  <2>3. PICK o, ts : Submits(o, ts) BY <2>1, <2>2, SubmitOnly
  <2>4. o = out'.order BY <2>3 DEF Submits
  <2>5. traded'[o.id] \in {0, o.qty} /\ Gone(eng'.book, o.id)
    BY <2>1, <2>2, <2>3, <2>4, SubmitFok
  <2>6. QED BY <2>4, <2>5 DEF FokOutcome, Gone
<1>2. LoopsSuffice /\ AccountInv /\ [Next]_vars => [Fok]_vars
  BY <1>1
<1> HIDE DEF Fok
<1>3. LoopsSuffice => (Spec => [][Fok]_vars)
  BY <1>2, LoopsStay, AccountInit, AccountNext, PTL DEF Spec
<1>4. QED BY <1>3 DEF FokAllOrNothing, Fok

----------------------------------------------------------------------------
(* Auctions: the call that comes after the announced end uncrosses the queue.
   The engine takes an end of 0 for "no end": the lengths of a halt and of a
   volatility auction have to be positive, as the defaults are
   (rules.hpp:62-69). *)

Lasts(cfg) == cfg.halt > 0 /\ cfg.vol_auction > 0

CallsLast == \A cfg \in Configs : Lasts(cfg)

(* A halt and an auction have an end, and the halt is the shorter. *)
Timed(e) ==
  /\ e.phase \in {"Halted", "Auction"} => 0 < e.auction_end
  /\ e.phase = "Halted" => 0 < e.halt_end /\ e.halt_end <= e.auction_end

PrintedLate(trades) == \A k \in 1 .. Len(trades) : trades[k].ts >= 0

LEMMA ToldTimed ==
  ASSUME NEW e, GoodEngine(e), Timed(e), Lasts(e.cfg),
         NEW trades \in Seq(Trade), PrintedLate(trades)
  PROVE Timed(MaybeTriggerCircuitBreaker(OnTrades(e, trades), trades))
<1> DEFINE told == OnTrades(e, trades)
           ref == IF told.cb_ref = None THEN Head(trades).price ELSE told.cb_ref
           armed == [told EXCEPT !.cb_ref = ref]
           halted == Halt(armed, Last(trades).ts)
           new == MaybeTriggerCircuitBreaker(told, trades)
<1>1. /\ GoodEngine(told) /\ told.phase = e.phase /\ told.auction_end = e.auction_end
      /\ told.halt_end = e.halt_end /\ told.cfg = e.cfg
  <2>1. GoodEngine(told) BY OnTradesGood
  <2>2. QED BY <2>1 DEF OnTrades, GoodEngine, IsEngine
<1> HIDE DEF told
<1>2. armed.cfg = e.cfg /\ armed.phase = e.phase /\ armed.auction_end = e.auction_end
      /\ armed.halt_end = e.halt_end
  BY <1>1 DEF GoodEngine, IsEngine
<1>3. ASSUME NEW t PROVE /\ Halt(armed, t).halt_end = t + e.cfg.halt
                         /\ Halt(armed, t).auction_end = (t + e.cfg.halt) + e.cfg.reopen
  <2> DEFINE R(a, b, c, d) == [a EXCEPT !.phase = "Halted", !.halt_end = b, !.reopen_end = c,
                                        !.auction_end = c, !.queue = d, !.book = EmptyBook]
  <2>1. armed \in [book : {e.book}, cfg : {e.cfg}, phase : Phases,
                   last : {told.last}, next_trade_id : {told.next_trade_id},
                   queue : {told.queue}, auction_end : Int, tal_end : Int,
                   cb_ref : {ref}, halt_end : Int, reopen_end : Int, spinning : BOOLEAN]
    BY <1>1 DEF GoodEngine, IsEngine, OnTrades, told
  <2>2. \A b, c, d : R(armed, b, c, d).halt_end = b /\ R(armed, b, c, d).auction_end = c
    BY <2>1
  <2> DEFINE b == t + armed.cfg.halt
             c == b + armed.cfg.reopen
             d == armed.queue \o Drained(armed.book, "Buy") \o Drained(armed.book, "Sell")
  <2>3. Halt(armed, t) = R(armed, b, c, d)
    BY DEF Halt
  <2> HIDE DEF R, armed, d
  <2>4. QED BY <1>2, <2>2, <2>3
<1>4. new = told \/ (trades # <<>> /\ (new = armed \/ new = halted))
  <2>1. new = IF ~told.cfg.breaker \/ trades = <<>> \/ told.phase # "Continuous" THEN told
              ELSE IF Last(trades).price > MulDivBps(ref, 10000 - armed.cfg.drop_bps)
                   THEN armed ELSE halted
    <3>1. told.cfg = armed.cfg BY <1>1, <1>2
    <3>2. QED BY <3>1 DEF MaybeTriggerCircuitBreaker
  <2> HIDE DEF new, armed, halted, ref
  <2>2. QED BY <2>1
<1> HIDE DEF armed, ref, new
<1>5. CASE new = told
  <2>1. Timed(told) BY <1>1 DEF Timed
  <2>2. QED BY <1>5, <2>1 DEF new, told
<1>6. CASE new = armed
  <2>1. Timed(armed) BY <1>2 DEF Timed
  <2>2. QED BY <1>6, <2>1 DEF new, told
<1>7. CASE trades # <<>> /\ new = halted
  <2> DEFINE t == Last(trades).ts
  <2>1. t \in Int /\ t >= 0
    <3>1. Len(trades) \in Nat /\ Len(trades) # 0 BY <1>7, LenProperties, EmptySeq
    <3>2. Len(trades) \in 1 .. Len(trades) BY <3>1
    <3>3. Last(trades) = trades[Len(trades)] BY DEF Last
    <3>4. trades[Len(trades)] \in Trade BY <3>2, ElementOfSeq
    <3>5. QED BY <3>2, <3>3, <3>4 DEF PrintedLate, Trade
  <2>2. e.cfg.halt \in Nat /\ e.cfg.reopen \in Nat /\ e.cfg.halt > 0
    BY EngineFields DEF Lasts
  <2>3. halted.halt_end = t + e.cfg.halt /\ halted.auction_end = (t + e.cfg.halt) + e.cfg.reopen
    BY <1>3
  <2> HIDE DEF t, halted
  <2>4. 0 < halted.halt_end /\ halted.halt_end <= halted.auction_end /\ 0 < halted.auction_end
    BY <2>1, <2>2, <2>3
  <2>5. QED BY <1>7, <2>4 DEF Timed, new, told
<1>8. QED BY <1>4, <1>5, <1>6, <1>7

LEMMA FlushTimed ==
  ASSUME NEW e0, GoodEngine(e0), Calling(e0), Timed(e0), Lasts(e0.cfg), NEW ts \in Int
  PROVE LET f == Flush(e0, ts)
            e == ExpireHalt(e0, ts)
        IN  /\ Timed(f.eng) /\ PrintedLate(f.trades)
            /\ e0.phase \in {"Halted", "Auction"} /\ ts >= e0.auction_end =>
                 /\ f.trades = UncrossAuction(e, e0.auction_end).trades
                 /\ GoodEngine(e) /\ e.queue = e0.queue
<1> DEFINE e == ExpireHalt(e0, ts)
           f == Flush(e0, ts)
           u == UncrossAuction(e, e.auction_end)
           next == [u.eng EXCEPT !.phase = "Continuous"]
<1>1. f = ExpireAuction(e, ts)
  <2>1. ExpireTradingAtLast(e0, ts) = e0 BY DEF Calling, ExpireTradingAtLast
  <2>2. QED BY <2>1 DEF Flush
<1>2. e0.halt_end \in Int /\ e0.auction_end \in Int
  BY EngineFields
<1>3. /\ GoodEngine(e) /\ Calling(e) /\ Timed(e) /\ e.cfg = e0.cfg
      /\ e.queue = e0.queue /\ e.auction_end = e0.auction_end
      /\ e0.phase \in {"Halted", "Auction"} /\ ts >= e0.auction_end =>
           e.phase = "Auction" /\ 0 < e.auction_end
  <2>1. GoodEngine(e) BY ExpireGood
  <2>2. /\ e.cfg = e0.cfg /\ e.queue = e0.queue /\ e.auction_end = e0.auction_end
        /\ e.halt_end = e0.halt_end
        /\ e.phase = IF e0.phase = "Halted" /\ e0.halt_end > 0 /\ ts >= e0.halt_end
                     THEN "Auction" ELSE e0.phase
    BY DEF ExpireHalt, GoodEngine, IsEngine
  <2> HIDE DEF e
  <2>3. Calling(e) /\ Timed(e)
    BY <2>2 DEF Calling, Timed
  <2>4. ASSUME e0.phase \in {"Halted", "Auction"}, ts >= e0.auction_end
        PROVE e.phase = "Auction" /\ 0 < e.auction_end
    BY <1>2, <2>2, <2>4 DEF Timed
  <2>5. QED BY <2>1, <2>2, <2>3, <2>4
<1> HIDE DEF e, f
<1>4. CASE ~AuctionDue(e, ts)
  <2>1. f.eng = e /\ f.trades = <<>> BY <1>1, <1>4 DEF ExpireAuction
  <2>2. PrintedLate(f.trades) BY <2>1 DEF PrintedLate
  <2>3. ~(e0.phase \in {"Halted", "Auction"} /\ ts >= e0.auction_end)
    BY <1>3, <1>4 DEF AuctionDue
  <2>4. QED BY <1>3, <2>1, <2>2, <2>3 DEF e, f
<1>5. CASE AuctionDue(e, ts)
  <2>1. e.phase = "Auction" /\ 0 < e0.auction_end
    BY <1>3, <1>5 DEF AuctionDue, Calling
  <2>2. f.eng = MaybeTriggerCircuitBreaker(OnTrades(next, u.trades), u.trades)
        /\ f.trades = u.trades
    BY <1>1, <1>5, <2>1 DEF ExpireAuction, EndAuction
  <2>3. /\ GoodEngine(u.eng) /\ u.trades \in Seq(Trade) /\ Clocked(e.auction_end, u.trades)
        /\ u.eng.cfg = e.cfg
    <3>1. u.eng.cfg = e.cfg
      BY <1>3 DEF UncrossAuction, UncrossAt, Leftovers, GoodEngine, IsEngine
    <3>2. QED BY <1>2, <1>3, <3>1, UncrossGood, UncrossClock DEF GoodOutcome
  <2>4. f.trades = UncrossAuction(e, e0.auction_end).trades
    BY <1>3, <2>2
  <2> HIDE DEF u
  <2>5. PrintedLate(u.trades)
    BY <1>2, <1>3, <2>1, <2>3 DEF Clocked, PrintedLate
  <2>6. GoodEngine(next) /\ Timed(next) /\ Lasts(next.cfg)
    <3>1. "Continuous" \in Phases BY DEF Phases
    <3>2. GoodEngine(next) BY <2>3, <3>1, SetPhase
    <3>3. next.phase = "Continuous" /\ next.cfg = e0.cfg
      BY <1>3, <2>3 DEF GoodEngine, IsEngine
    <3>4. QED BY <3>2, <3>3 DEF Timed
  <2> HIDE DEF next
  <2>7. Timed(f.eng)
    BY <2>2, <2>3, <2>5, <2>6, ToldTimed
  <2>8. QED BY <1>3, <2>2, <2>4, <2>5, <2>7 DEF e, f
<1>6. QED BY <1>4, <1>5

LEMMA SettledTimed ==
  ASSUME NEW flushed \in Seq(Trade), PrintedLate(flushed), NEW r, GoodOutcome(r),
         Timed(r.eng), Lasts(r.eng.cfg), NEW ts \in Int, ts >= 0, Clocked(ts, r.trades)
  PROVE Timed(Settled(flushed, r).eng) /\ Settled(flushed, r).trades = flushed \o r.trades
<1> DEFINE new == r.trades
           trades == flushed \o new
<1>1. GoodEngine(r.eng) /\ new \in Seq(Trade)
  BY DEF GoodOutcome
<1>2. Settled(flushed, r).eng = MaybeTriggerCircuitBreaker(OnTrades(r.eng, trades), trades)
      /\ Settled(flushed, r).trades = trades
  BY DEF Settled, Result
<1>3. \A k \in 1 .. Len(new) : new[k].ts >= 0
  BY DEF Clocked
<1> HIDE DEF new
<1>4. /\ trades \in Seq(Trade) /\ Len(flushed) \in Nat /\ Len(new) \in Nat
      /\ Len(trades) = Len(flushed) + Len(new)
      /\ \A k \in 1 .. Len(trades) :
           trades[k] = IF k <= Len(flushed) THEN flushed[k] ELSE new[k - Len(flushed)]
  BY <1>1, LenProperties, ConcatProperties
<1> HIDE DEF trades
<1>5. PrintedLate(trades)
  <2>1. ASSUME NEW k \in 1 .. Len(trades) PROVE trades[k].ts >= 0
    <3>1. CASE k <= Len(flushed)
      <4>1. k \in 1 .. Len(flushed) BY <1>4, <3>1
      <4>2. trades[k] = flushed[k] BY <1>4, <3>1
      <4>3. QED BY <4>1, <4>2 DEF PrintedLate
    <3>2. CASE ~(k <= Len(flushed))
      <4>1. k - Len(flushed) \in 1 .. Len(new) BY <1>4, <3>2
      <4>2. trades[k] = new[k - Len(flushed)] BY <1>4, <3>2
      <4>3. QED BY <1>3, <4>1, <4>2
    <3>3. QED BY <3>1, <3>2
  <2>2. QED BY <2>1 DEF PrintedLate
<1>6. Timed(MaybeTriggerCircuitBreaker(OnTrades(r.eng, trades), trades))
  BY <1>1, <1>4, <1>5, ToldTimed
<1>7. QED BY <1>2, <1>6 DEF trades, new

(* The trades of a call are those of its flush, then those of its order. *)
FlushThenOwn(flushed, trades, o) ==
  \E new \in Seq(Trade) : /\ trades = flushed \o new
                          /\ \A k \in DOMAIN new : new[k].taker = o.id

LEMMA ProcessTimed ==
  ASSUME NEW e0, GoodEngine(e0), Calling(e0), Timed(e0), Lasts(e0.cfg),
         NEW o \in Order, NEW ts \in Int, ts >= 0
  PROVE LET r == Process(e0, o, ts)
        IN  /\ Timed(r.eng)
            /\ FlushThenOwn(Flush(e0, ts).trades, r.trades, o)
<1> DEFINE f == Flush(e0, ts)
           e == f.eng
           flushed == f.trades
           status == PreAccept(e.cfg, e.phase, o)
           refused(s) == Result(e, flushed, None, s)
           queued == Result(QueueInAuction(e, o), flushed, None, "Accepted")
           end == ts + e.cfg.vol_auction
           auction == [e EXCEPT !.phase = "Auction", !.auction_end = end]
           called == Result(QueueInAuction(auction, o), flushed, None, "Accepted")
           nothing == [eng |-> e, trades |-> <<>>, resting |-> None]
           matches == {nothing, ProcessMarket(e, o, ts), ProcessLimit(e, o, ts)}
           r == Process(e0, o, ts)
           none == <<>>
<1>1. /\ GoodEngine(e) /\ flushed \in Seq(Trade) /\ Calling(e) /\ e.cfg = e0.cfg
      /\ Timed(e) /\ PrintedLate(flushed)
  BY FlushGood, FlushCalls, FlushConfig, FlushTimed DEF GoodOutcome
<1>2. \/ \E s \in {status, "MarketHalted"} : r = refused(s)
      \/ e.phase \in {"Halted", "Auction"} /\ r = queued
      \/ e.phase = "Continuous" /\ r = ProcessContinuous(e, flushed, o, ts)
  BY <1>1 DEF Process, ProcessFlushed, Calling
<1>3. \/ ProcessContinuous(e, flushed, o, ts) = called
      \/ \E m \in matches : ProcessContinuous(e, flushed, o, ts) = Settled(flushed, m)
  BY DEF ProcessContinuous
<1>4. /\ \A s : refused(s).eng = e /\ refused(s).trades = flushed
      /\ queued.trades = flushed /\ called.trades = flushed
      /\ queued.eng = QueueInAuction(e, o) /\ called.eng = QueueInAuction(auction, o)
  BY DEF Result
<1>5. Timed(QueueInAuction(e, o))
  <2>1. /\ QueueInAuction(e, o).phase = e.phase
        /\ QueueInAuction(e, o).auction_end = e.auction_end
        /\ QueueInAuction(e, o).halt_end = e.halt_end
    BY <1>1 DEF QueueInAuction, GoodEngine, IsEngine
  <2>2. QED BY <1>1, <2>1 DEF Timed
<1>6. Timed(QueueInAuction(auction, o))
  <2>1. end \in Int /\ 0 < end
    <3>1. e.cfg.vol_auction \in Nat /\ e.cfg.vol_auction > 0
      BY <1>1, EngineFields DEF Lasts
    <3>2. QED BY <3>1
  <2> HIDE DEF end
  <2>2. /\ QueueInAuction(auction, o).phase = "Auction"
        /\ QueueInAuction(auction, o).auction_end = end
    BY <1>1, <2>1 DEF QueueInAuction, GoodEngine, IsEngine
  <2>3. QED BY <2>1, <2>2 DEF Timed
<1>7. ASSUME NEW m \in matches, e.phase = "Continuous"
      PROVE /\ GoodOutcome(m) /\ Timed(m.eng) /\ Lasts(m.eng.cfg) /\ Clocked(ts, m.trades)
            /\ m.trades \in Seq(Trade) /\ \A k \in DOMAIN m.trades : m.trades[k].taker = o.id
  <2>1. CASE m = nothing
    <3>1. m.eng = e /\ m.trades = <<>> BY <2>1
    <3> HIDE DEF matches, e, f
    <3>2. QED BY <1>1, <3>1, NoneClocked DEF GoodOutcome
  <2>2. CASE m \in {ProcessMarket(e, o, ts), ProcessLimit(e, o, ts)}
    <3> HIDE DEF matches, e, f
    <3>1. GoodOutcome(m) BY <1>1, <2>2, ProcessMarketGood, ProcessLimitGood
    <3>2. Clocked(ts, m.trades) /\ m.eng.phase = e.phase /\ m.eng.cfg = e.cfg
      BY <1>1, <2>2, ProcessClock
    <3>3. m.trades = Match(e, o, ts).trades
      BY <2>2 DEF ProcessMarket, ProcessLimit, RestLeft, Unrested
    <3>4. \A k \in DOMAIN m.trades : m.trades[k].taker = o.id
      BY <1>1, <3>3, MatchTakers
    <3>5. Timed(m.eng) BY <1>7, <3>2 DEF Timed
    <3>6. QED BY <1>1, <3>1, <3>2, <3>4, <3>5 DEF GoodOutcome
  <2>3. QED BY <2>1, <2>2
<1>8. none \in Seq(Trade) /\ flushed \o none = flushed /\ DOMAIN none = {}
  <2> HIDE DEF flushed
  <2>1. QED BY <1>1
<1> HIDE DEF r, e, flushed, refused, queued, called, auction, matches, none, status, f
<1>9. ASSUME r.eng = e \/ r.eng = QueueInAuction(e, o) \/ r.eng = QueueInAuction(auction, o),
             r.trades = flushed
      PROVE Timed(r.eng) /\ FlushThenOwn(flushed, r.trades, o)
  BY <1>1, <1>5, <1>6, <1>8, <1>9 DEF FlushThenOwn
<1>10. ASSUME e.phase = "Continuous", NEW m \in matches, r = Settled(flushed, m)
       PROVE Timed(r.eng) /\ FlushThenOwn(flushed, r.trades, o)
  <2>1. /\ GoodOutcome(m) /\ Timed(m.eng) /\ Lasts(m.eng.cfg) /\ Clocked(ts, m.trades)
        /\ m.trades \in Seq(Trade) /\ \A k \in DOMAIN m.trades : m.trades[k].taker = o.id
    BY <1>7, <1>10
  <2>2. Timed(Settled(flushed, m).eng) /\ Settled(flushed, m).trades = flushed \o m.trades
    BY <1>1, <2>1, SettledTimed
  <2>3. QED BY <1>10, <2>1, <2>2 DEF FlushThenOwn
<1>11. Timed(r.eng) /\ FlushThenOwn(flushed, r.trades, o)
  <2>1. CASE \E s \in {status, "MarketHalted"} : r = refused(s)
    BY <1>4, <1>9, <2>1
  <2>2. CASE r = queued
    BY <1>4, <1>9, <2>2
  <2>3. CASE e.phase = "Continuous" /\ r = called
    BY <1>4, <1>9, <2>3
  <2>4. CASE e.phase = "Continuous" /\ \E m \in matches : r = Settled(flushed, m)
    BY <1>10, <2>4
  <2>5. QED BY <1>2, <1>3, <2>1, <2>2, <2>3, <2>4
<1>12. QED BY <1>11 DEF r, flushed, f

(* The invariant of the calls with their ends. *)
TimedInv == CallInv /\ InTime /\ Timed(eng) /\ Lasts(eng.cfg)

LEMMA TimedInit == CallsLast /\ Init => TimedInv
<1>1. SUFFICES ASSUME CallsLast, Init PROVE TimedInv
  OBVIOUS
<1>2. PICK cfg \in Configs : eng = NewEngine(cfg)
  BY <1>1 DEF Init
<1>3. Timed(eng) /\ Lasts(eng.cfg)
  BY <1>1, <1>2 DEF NewEngine, Timed, CallsLast
<1>4. InTime
  BY <1>1, MachineAssumption DEF Init, InTime
<1>5. QED BY <1>1, <1>3, <1>4, CallInit DEF TimedInv

LEMMA TimedNext == TimedInv /\ [Next]_vars => TimedInv'
<1>1. SUFFICES ASSUME TimedInv, [Next]_vars PROVE Timed(eng') /\ Lasts(eng'.cfg) /\ InTime'
  <2>1. Timed(eng)' <=> Timed(eng') BY DEF Timed
  <2>2. Lasts(eng.cfg)' <=> Lasts(eng'.cfg) BY DEF Lasts
  <2>3. QED BY <2>1, <2>2, CallNext DEF TimedInv
<1>2. /\ GoodEngine(eng) /\ Calling(eng) /\ Timed(eng) /\ Lasts(eng.cfg) /\ InTime
      /\ now \in Int /\ now >= 0
  BY <1>1, MachineAssumption DEF TimedInv, CallInv, IInv, TypeOK, GoodEngine, InTime
<1>3. ASSUME NEW o \in Incoming, NEW ts \in Times(LastArrival), Submit(o, ts)
      PROVE Timed(eng') /\ Lasts(eng'.cfg)
  <2>1. o \in Order /\ ts \in Int /\ ts >= 0 BY <1>2, TimesInt, MachineAssumption DEF Times
  <2>2. eng' = Process(eng, o, ts).eng BY <1>3 DEF Submit, Submitted
  <2>3. Process(eng, o, ts).eng.cfg = eng.cfg BY <1>2, <2>1, ProcessConfig
  <2>4. Timed(Process(eng, o, ts).eng) BY <1>2, <2>1, ProcessTimed
  <2>5. QED BY <1>2, <2>2, <2>3, <2>4
<1>4. ASSUME NEW ts \in Int, Advance(ts) PROVE Timed(eng') /\ Lasts(eng'.cfg)
  <2>1. eng' = Flush(eng, ts).eng BY <1>4 DEF Advance, Flushed
  <2>2. Flush(eng, ts).eng.cfg = eng.cfg BY <1>2, <1>4, FlushConfig
  <2>3. Timed(Flush(eng, ts).eng) BY <1>2, <1>4, FlushTimed
  <2>4. QED BY <1>2, <2>1, <2>2, <2>3
<1>5. ASSUME NEW ts \in Times(LastJump), Advance(ts) PROVE Timed(eng') /\ Lasts(eng'.cfg)
  BY <1>4, <1>5, TimesInt
<1>6. ASSUME Tick PROVE Timed(eng') /\ Lasts(eng'.cfg)
  <2>1. Smaller(now + 1, MaxTs) \in Int BY <1>2, MachineAssumption DEF Smaller
  <2>2. QED BY <1>4, <1>6, <2>1 DEF Tick
<1>7. ASSUME NEW b, eng' = [eng EXCEPT !.book = b] PROVE Timed(eng') /\ Lasts(eng'.cfg)
  <2>1. /\ eng'.phase = eng.phase /\ eng'.auction_end = eng.auction_end
        /\ eng'.halt_end = eng.halt_end /\ eng'.cfg = eng.cfg
    BY <1>2, <1>7 DEF GoodEngine, IsEngine
  <2>2. QED BY <1>2, <2>1 DEF Timed
<1>8. ASSUME NEW o \in submitted, CancelOrder(o.id) \/ \E n \in NewQtys : ModifyOrder(o.id, n)
      PROVE Timed(eng') /\ Lasts(eng'.cfg)
  BY <1>7, <1>8 DEF CancelOrder, ModifyOrder
<1>9. CASE UNCHANGED vars
  BY <1>2, <1>9 DEF vars, InTime
<1>10. CASE Next
  <2>1. InTime' BY <1>2, <1>10, ClockMoves
  <2>2. Timed(eng') /\ Lasts(eng'.cfg)
    BY <1>3, <1>5, <1>6, <1>8, <1>10 DEF Next
  <2>3. QED BY <2>1, <2>2
<1>11. QED BY <1>1, <1>9, <1>10

(* What the queue of an engine holds has a size. *)
LEMMA QueueSizes ==
  ASSUME AccountInv
  PROVE HasSizes(eng.queue)
<1>1. \A x \in Held(eng) : x.qty \in Nat
  BY DEF AccountInv, Accounts, FromKnown
<1>2. \A i \in DOMAIN eng.queue : eng.queue[i] \in Held(eng)
  BY DEF Held, Range
<1>3. QED BY <1>1, <1>2 DEF HasSizes

(* A volume that is a candidate's, or none, and as large as any, is the largest. *)
LEMMA MaxVolumeIs ==
  ASSUME NEW queue \in Seq(Order), HasSizes(queue), NEW v \in Nat,
         v = 0 \/ \E p \in LimitPrices(queue) : v = ExecutableVolumeAt(queue, p),
         \A p \in LimitPrices(queue) : ExecutableVolumeAt(queue, p) <= v
  PROVE MaxVolume(queue) = v
<1> DEFINE C == LimitPrices(queue)
           S == {0} \cup {ExecutableVolumeAt(queue, p) : p \in C}
           Top(w) == \A p \in C : ExecutableVolumeAt(queue, p) <= w
<1>1. \A p : ExecutableVolumeAt(queue, p) \in Nat
  BY VolumeType
<1>2. v \in S /\ Top(v)
  OBVIOUS
<1>3. ASSUME NEW w \in S, Top(w) PROVE w = v
  <2>1. w \in Nat /\ (w = 0 \/ \E p \in C : w = ExecutableVolumeAt(queue, p))
    BY <1>1
  <2> HIDE DEF C
  <2>2. w <= v BY <1>2, <2>1
  <2>3. v <= w BY <1>2, <1>3, <2>1
  <2>4. QED BY <2>1, <2>2, <2>3
<1>4. MaxVolume(queue) = CHOOSE w \in S : Top(w)
  BY DEF MaxVolume
<1> HIDE DEF S, Top
<1>5. QED BY <1>2, <1>3, <1>4

(* The trades of a call, of which the first are those of its flush. *)
LEMMA PrintedFirst ==
  ASSUME NEW trades \in Seq(Trade), NEW new \in Seq(Trade)
  PROVE /\ PrintedQty(trades \o new, 1 .. Len(trades)) = TradeTotal(trades)
        /\ \A k \in 1 .. Len(trades) : (trades \o new)[k] = trades[k]
        /\ DOMAIN (trades \o new) = 1 .. (Len(trades) + Len(new))
        /\ \A k \in DOMAIN (trades \o new) :
             k \notin 1 .. Len(trades) => /\ k - Len(trades) \in DOMAIN new
                                          /\ (trades \o new)[k] = new[k - Len(trades)]
<1> DEFINE both == trades \o new
           n == Len(trades)
           f == [k \in DOMAIN trades |-> trades[k].qty]
           g == [k \in DOMAIN both |-> both[k].qty]
<1>1. /\ n \in Nat /\ Len(new) \in Nat /\ DOMAIN trades = 1 .. n /\ DOMAIN new = 1 .. Len(new)
      /\ DOMAIN both = 1 .. (n + Len(new))
      /\ \A k \in 1 .. (n + Len(new)) : both[k] = IF k <= n THEN trades[k] ELSE new[k - n]
  BY LenProperties, ConcatProperties
<1> HIDE DEF both, n
<1>2. /\ \A k \in 1 .. n : both[k] = trades[k] /\ k \in 1 .. (n + Len(new))
      /\ \A k \in 1 .. (n + Len(new)) :
           k \notin 1 .. n => k - n \in 1 .. Len(new) /\ both[k] = new[k - n]
  BY <1>1
<1>3. \A k \in 1 .. n : f[k] = trades[k].qty /\ g[k] = trades[k].qty /\ trades[k].qty \in Int
  <2>1. \A k \in 1 .. n : trades[k] \in Trade BY <1>1, ElementOfSeq
  <2>2. QED BY <1>1, <1>2, <2>1 DEF Trade
<1>4. PrintedQty(both, 1 .. n) = SumFunctionOnSet(g, 1 .. n)
      /\ TradeTotal(trades) = SumFunctionOnSet(f, 1 .. n)
  BY <1>1 DEF PrintedQty, TradeTotal
<1> HIDE DEF f, g
<1>5. IsFiniteSet(1 .. n)
  BY <1>1, FS_Interval
<1>6. SumFunctionOnSet(g, 1 .. n) = SumFunctionOnSet(f, 1 .. n)
  BY <1>3, <1>5, SumSame
<1>7. QED BY <1>1, <1>2, <1>4, <1>6 DEF both, n

(* The flush trades orders that were submitted before. *)
LEMMA FlushTakers ==
  ASSUME AccountInv, NEW ts \in Int
  PROVE LET trades == Flush(eng, ts).trades
        IN  /\ trades \in Seq(Trade)
            /\ \A k \in 1 .. Len(trades) : \E s \in submitted : s.id = trades[k].taker
<1> DEFINE c == CallTerms({})
           f == Flush(eng, ts)
           trades == f.trades
<1>1. IInv /\ Accounts /\ GoodEngine(eng)
  BY DEF AccountInv, IInv, TypeOK, GoodEngine
<1>2. IsTerms(c) /\ Kept(eng, {}, <<>>, c) /\ c.known = submitted
  <2>1. Brought({}) = {} BY DEF Brought
  <2>2. IsTerms(c) /\ Kept(eng, Brought({}), <<>>, c) BY <1>1, CallBase
  <2>3. c.known = submitted BY DEF CallTerms, Terms
  <2>4. QED BY <2>1, <2>2, <2>3
<1> HIDE DEF c
<1>3. Kept(f.eng, {}, trades, c)
  BY <1>1, <1>2, FlushKept
<1> HIDE DEF f, trades
<1>4. trades \in Seq(Trade) /\ PrintsOK(trades, submitted)
  BY <1>2, <1>3, CallEnded
<1>5. ASSUME NEW k \in 1 .. Len(trades) PROVE \E s \in submitted : s.id = trades[k].taker
  <2>1. TradeOK(trades[k], submitted) BY <1>4 DEF PrintsOK
  <2>2. QED BY <2>1 DEF TradeOK
<1>6. QED BY <1>4, <1>5 DEF trades, f

(* The prints of the uncrossing in a step are those of the flush. *)
LEMMA UncrossingPrints ==
  ASSUME AccountInv, TimedInv, Next, out'.call \in {"submit", "advance"}
  PROVE LET trades == Flush(eng, now').trades
        IN  /\ now' \in Int /\ trades \in Seq(Trade)
            /\ AuctionPrints = 1 .. Len(trades)
            /\ \A k \in AuctionPrints : out'.trades[k] = trades[k]
            /\ PrintedQty(out'.trades, AuctionPrints) = TradeTotal(trades)
<1>1. /\ GoodEngine(eng) /\ Calling(eng) /\ Timed(eng) /\ Lasts(eng.cfg)
      /\ now \in Int /\ now >= 0 /\ submitted \subseteq Incoming
  BY MachineAssumption DEF TimedInv, CallInv, IInv, TypeOK, GoodEngine, InTime
<1>2. ASSUME NEW o \in Incoming, NEW ts \in Times(LastArrival), Submit(o, ts)
      PROVE LET trades == Flush(eng, now').trades
            IN  /\ now' \in Int /\ trades \in Seq(Trade)
                /\ AuctionPrints = 1 .. Len(trades)
                /\ \A k \in AuctionPrints : out'.trades[k] = trades[k]
                /\ PrintedQty(out'.trades, AuctionPrints) = TradeTotal(trades)
  <2> DEFINE trades == Flush(eng, ts).trades
  <2>1. o \in Order /\ ts \in Int /\ ts >= 0 /\ o \notin submitted
    BY <1>1, <1>2, TimesInt, MachineAssumption DEF Times, Submit
  <2>2. now' = ts /\ out'.call = "submit" /\ out'.order = o
        /\ out'.trades = Process(eng, o, ts).trades
    BY <1>2 DEF Submit, Submitted
  <2>3. trades \in Seq(Trade) /\ \A k \in 1 .. Len(trades) : \E s \in submitted : s.id = trades[k].taker
    BY <2>1, FlushTakers
  <2>4. PICK new \in Seq(Trade) : /\ Process(eng, o, ts).trades = trades \o new
                                  /\ \A k \in DOMAIN new : new[k].taker = o.id
    <3>1. FlushThenOwn(Flush(eng, ts).trades, Process(eng, o, ts).trades, o)
      BY <1>1, <2>1, ProcessTimed
    <3>2. QED BY <3>1 DEF FlushThenOwn
  <2> HIDE DEF trades
  <2>5. \A s \in submitted : s.id # o.id
    BY <1>1, <2>1, MachineAssumption
  <2>6. /\ PrintedQty(trades \o new, 1 .. Len(trades)) = TradeTotal(trades)
        /\ \A k \in 1 .. Len(trades) : (trades \o new)[k] = trades[k]
        /\ DOMAIN (trades \o new) = 1 .. (Len(trades) + Len(new))
        /\ \A k \in DOMAIN (trades \o new) :
             k \notin 1 .. Len(trades) => /\ k - Len(trades) \in DOMAIN new
                                          /\ (trades \o new)[k] = new[k - Len(trades)]
    BY <2>3, PrintedFirst
  <2>7. out'.trades = trades \o new
    BY <2>2, <2>4
  <2>8. AuctionPrints = {k \in DOMAIN (trades \o new) : (trades \o new)[k].taker # o.id}
    BY <2>2, <2>7 DEF AuctionPrints
  <2>9. AuctionPrints = 1 .. Len(trades)
    <3> DEFINE both == trades \o new
    <3>1. Len(trades) \in Nat /\ Len(new) \in Nat BY <2>3, LenProperties
    <3>2. \A k \in 1 .. Len(trades) : k \in DOMAIN both /\ both[k].taker # o.id
      BY <2>3, <2>5, <2>6, <3>1
    <3>3. \A k \in DOMAIN both : k \notin 1 .. Len(trades) => both[k].taker = o.id
      BY <2>4, <2>6
    <3> HIDE DEF both
    <3>4. {k \in DOMAIN both : both[k].taker # o.id} = 1 .. Len(trades)
      BY <3>2, <3>3
    <3>5. QED BY <2>8, <3>4 DEF both
  <2>10. QED BY <2>1, <2>2, <2>3, <2>6, <2>7, <2>9 DEF trades
<1>3. ASSUME NEW ts \in Int, Advance(ts)
      PROVE LET trades == Flush(eng, now').trades
            IN  /\ now' \in Int /\ trades \in Seq(Trade)
                /\ AuctionPrints = 1 .. Len(trades)
                /\ \A k \in AuctionPrints : out'.trades[k] = trades[k]
                /\ PrintedQty(out'.trades, AuctionPrints) = TradeTotal(trades)
  <2> DEFINE trades == Flush(eng, ts).trades
  <2>1. now' = ts /\ out'.call = "advance" /\ out'.trades = trades
    BY <1>3 DEF Advance, Flushed, Quiet
  <2>2. trades \in Seq(Trade)
    BY <1>3, FlushTakers
  <2> HIDE DEF trades
  <2>3. DOMAIN trades = 1 .. Len(trades)
    BY <2>2, LenProperties
  <2>4. AuctionPrints = DOMAIN trades
    BY <2>1 DEF AuctionPrints
  <2>5. PrintedQty(trades, DOMAIN trades) = TradeTotal(trades)
    BY DEF PrintedQty, TradeTotal
  <2>6. QED BY <1>3, <2>1, <2>2, <2>3, <2>4, <2>5 DEF trades
<1>4. (\E o \in Incoming, ts \in Times(LastArrival) : Submit(o, ts)) \/ \E ts \in Int : Advance(ts)
  <2>1. ASSUME NEW id, CancelOrder(id) PROVE out'.call = "cancel"
    BY <2>1 DEF CancelOrder, Quiet
  <2>2. ASSUME NEW id, NEW n, ModifyOrder(id, n) PROVE out'.call = "modify"
    BY <2>2 DEF ModifyOrder, Quiet
  <2>3. Smaller(now + 1, MaxTs) \in Int
    BY <1>1, MachineAssumption DEF Smaller
  <2>4. QED BY <2>1, <2>2, <2>3, TimesInt DEF Next, Tick
<1>5. QED BY <1>2, <1>3, <1>4

(* Whenever a halt or an auction is over, the call that ends it prints at one
   price, and together the largest volume any price of the queue allows: the
   clearing price is the best of the candidates, and the pairing does not stop
   before one side has nothing left at it. *)
THEOREM MachineUncrosses == CallsLast => (Spec => AuctionMaximal)
<1> DEFINE Maximal ==
      ( /\ eng.phase \in {"Halted", "Auction"}
        /\ now' >= eng.auction_end /\ out'.call \in {"submit", "advance"} )
      => /\ \A i, j \in AuctionPrints : out'.trades[i].price = out'.trades[j].price
         /\ PrintedQty(out'.trades, AuctionPrints) = MaxVolume(eng.queue)
<1>1. AccountInv /\ TimedInv /\ Next => Maximal
  <2>1. SUFFICES ASSUME AccountInv, TimedInv, Next, eng.phase \in {"Halted", "Auction"},
                        now' >= eng.auction_end, out'.call \in {"submit", "advance"}
                 PROVE /\ \A i, j \in AuctionPrints : out'.trades[i].price = out'.trades[j].price
                       /\ PrintedQty(out'.trades, AuctionPrints) = MaxVolume(eng.queue)
    OBVIOUS
  <2> DEFINE trades == Flush(eng, now').trades
             e == ExpireHalt(eng, now')
             queue == eng.queue
  <2>2. /\ now' \in Int /\ trades \in Seq(Trade)
        /\ AuctionPrints = 1 .. Len(trades)
        /\ \A k \in AuctionPrints : out'.trades[k] = trades[k]
        /\ PrintedQty(out'.trades, AuctionPrints) = TradeTotal(trades)
    BY <2>1, UncrossingPrints
  <2>3. /\ GoodEngine(eng) /\ Calling(eng) /\ Timed(eng) /\ Lasts(eng.cfg)
        /\ eng.auction_end \in Int /\ queue \in Seq(Order)
    BY <2>1, EngineFields DEF TimedInv, CallInv, IInv, TypeOK, GoodEngine
  <2>4. /\ trades = UncrossAuction(e, eng.auction_end).trades
        /\ GoodEngine(e) /\ e.queue = queue
    BY <2>1, <2>2, <2>3, FlushTimed
  <2>5. HasSizes(queue)
    BY <2>1, QueueSizes
  <2> HIDE DEF trades, e, queue
  <2>6. /\ \A i, j \in DOMAIN trades : trades[i].price = trades[j].price
        /\ \/ TradeTotal(trades) = 0
           \/ \E p \in LimitPrices(queue) : TradeTotal(trades) = ExecutableVolumeAt(queue, p)
        /\ TradeTotal(trades) \in Nat
        /\ \A p \in LimitPrices(queue) : ExecutableVolumeAt(queue, p) <= TradeTotal(trades)
    <3> DEFINE u == UncrossAuction(e, eng.auction_end).trades
    <3>1. HasSizes(e.queue) BY <2>4, <2>5
    <3>2. /\ \A i, j \in DOMAIN u : u[i].price = u[j].price
          /\ \/ TradeTotal(u) = 0
             \/ \E p \in LimitPrices(e.queue) : TradeTotal(u) = ExecutableVolumeAt(e.queue, p)
          /\ TradeTotal(u) \in Nat
          /\ \A p \in LimitPrices(e.queue) : ExecutableVolumeAt(e.queue, p) <= TradeTotal(u)
      BY <2>3, <2>4, <3>1, UncrossTrades
    <3>3. u = trades BY <2>4
    <3> HIDE DEF u
    <3>4. QED BY <2>4, <3>2, <3>3
  <2>7. MaxVolume(queue) = TradeTotal(trades)
    BY <2>3, <2>5, <2>6, MaxVolumeIs
  <2>8. DOMAIN trades = 1 .. Len(trades)
    BY <2>2, LenProperties
  <2>9. QED BY <2>2, <2>6, <2>7, <2>8 DEF queue
<1>2. AccountInv /\ TimedInv /\ [Next]_vars => [Maximal]_vars
  BY <1>1
<1> HIDE DEF Maximal
<1>3. CallsLast => (Spec => [][Maximal]_vars)
  BY <1>2, AccountInit, AccountNext, TimedInit, TimedNext, PTL DEF Spec
<1>4. QED BY <1>3 DEF AuctionMaximal, Maximal

(* The closing auction: it holds until its end, and the call that comes then
   closes the market. *)
LEMMA FlushClosing ==
  ASSUME NEW e, GoodEngine(e), e.phase = "ClosingAuction", e.auction_end > 0, NEW ts \in Int
  PROVE LET f == Flush(e, ts)
        IN  /\ ts < e.auction_end => f.eng = e /\ f.trades = <<>>
            /\ ts >= e.auction_end =>
                 f.eng.phase = "Closed" /\ f.trades = UncrossAuction(e, e.auction_end).trades
<1> DEFINE u == UncrossAuction(e, e.auction_end)
           next == [u.eng EXCEPT !.phase = "Closed"]
           f == Flush(e, ts)
<1>1. f = ExpireAuction(e, ts) /\ e.auction_end \in Int
  BY EngineFields DEF Flush, ExpireHalt, ExpireTradingAtLast
<1>2. AuctionDue(e, ts) <=> ts >= e.auction_end
  BY DEF AuctionDue
<1> HIDE DEF f
<1>3. CASE ts < e.auction_end
  <2>1. ~AuctionDue(e, ts) BY <1>1, <1>2, <1>3
  <2>2. f.eng = e /\ f.trades = <<>> BY <1>1, <2>1 DEF ExpireAuction
  <2>3. ~(ts >= e.auction_end) BY <1>1, <1>3
  <2>4. QED BY <2>2, <2>3 DEF f
<1>4. CASE ~(ts < e.auction_end)
  <2>1. AuctionDue(e, ts) BY <1>1, <1>2, <1>4
  <2>2. f.eng = MaybeTriggerCircuitBreaker(OnTrades(next, u.trades), u.trades)
        /\ f.trades = u.trades
    BY <1>1, <2>1 DEF ExpireAuction, EndAuction
  <2>3. GoodEngine(u.eng) /\ u.trades \in Seq(Trade)
    BY <1>1, UncrossGood DEF GoodOutcome
  <2>4. f.trades = UncrossAuction(e, e.auction_end).trades
    BY <2>2
  <2> HIDE DEF u
  <2>5. GoodEngine(next) /\ next.phase = "Closed"
    <3>1. "Closed" \in Phases BY DEF Phases
    <3>2. GoodEngine(next) BY <2>3, <3>1, SetPhase
    <3>3. QED BY <2>3, <3>2 DEF GoodEngine, IsEngine
  <2> HIDE DEF next
  <2>6. f.eng.phase = "Closed"
    BY <2>2, <2>3, <2>5, TradesDay
  <2>7. QED BY <1>4, <2>4, <2>6 DEF f
<1>5. QED BY <1>3, <1>4

LEMMA ProcessClosing ==
  ASSUME NEW e0, GoodEngine(e0), e0.phase = "ClosingAuction", e0.auction_end > 0,
         NEW o \in Order, NEW ts \in Int
  PROVE LET r == Process(e0, o, ts)
        IN  /\ ts < e0.auction_end => r.eng.auction_end = e0.auction_end
            /\ ts >= e0.auction_end =>
                 /\ r.eng.phase = "Closed"
                 /\ r.trades = UncrossAuction(e0, e0.auction_end).trades
<1> DEFINE f == Flush(e0, ts)
           e == f.eng
           flushed == f.trades
           status == PreAccept(e.cfg, e.phase, o)
           refused(s) == Result(e, flushed, None, s)
           queued == Result(QueueInAuction(e, o), flushed, None, "Accepted")
           r == Process(e0, o, ts)
<1>1. /\ ts < e0.auction_end => e = e0
      /\ ts >= e0.auction_end =>
           e.phase = "Closed" /\ flushed = UncrossAuction(e0, e0.auction_end).trades
  BY FlushClosing
<1>2. GoodEngine(e) /\ e0.auction_end \in Int
  BY FlushGood, EngineFields DEF GoodOutcome
<1>3. e.phase \in {"Closed", "ClosingAuction"}
  BY <1>1, <1>2
<1>4. \/ \E s \in {status, "Accepted"} : r = refused(s)
      \/ e.phase = "ClosingAuction" /\ r = queued
  BY <1>3 DEF Process, ProcessFlushed
<1>5. /\ \A s : refused(s).eng = e /\ refused(s).trades = flushed
      /\ queued.eng.auction_end = e.auction_end
  BY <1>2 DEF Result, QueueInAuction, GoodEngine, IsEngine
<1> HIDE DEF r, f, e, flushed, status, refused, queued
<1>6. CASE \E s \in {status, "Accepted"} : r = refused(s)
  <2>1. r.eng = e /\ r.trades = flushed BY <1>5, <1>6
  <2>2. QED BY <1>1, <2>1 DEF r
<1>7. CASE e.phase = "ClosingAuction" /\ r = queued
  <2>1. ts < e0.auction_end BY <1>1, <1>2, <1>7
  <2>2. r.eng.auction_end = e0.auction_end BY <1>1, <1>5, <1>7, <2>1
  <2>3. ~(ts >= e0.auction_end) BY <1>2, <2>1
  <2>4. QED BY <2>2, <2>3 DEF r
<1>8. QED BY <1>4, <1>6, <1>7

(* The closing auction has an end. *)
ClosingTimed == eng.phase = "ClosingAuction" => eng.auction_end > 0

ClosesWell ==
  ( /\ eng.phase = "ClosingAuction" /\ now' >= eng.auction_end
    /\ out'.call \in {"submit", "on_time"} )
  => /\ eng'.phase = "Closed"
     /\ \A i, j \in DOMAIN out'.trades : out'.trades[i].price = out'.trades[j].price
     /\ PrintedQty(out'.trades, DOMAIN out'.trades) = MaxVolume(eng.queue)

(* The prints of an uncrossing of the queue, as a session sees them. *)
LEMMA ClosingVolume ==
  ASSUME AccountInv, out'.trades = UncrossAuction(eng, eng.auction_end).trades
  PROVE /\ \A i, j \in DOMAIN out'.trades : out'.trades[i].price = out'.trades[j].price
        /\ PrintedQty(out'.trades, DOMAIN out'.trades) = MaxVolume(eng.queue)
<1> DEFINE trades == UncrossAuction(eng, eng.auction_end).trades
           queue == eng.queue
<1>1. GoodEngine(eng) /\ queue \in Seq(Order) /\ eng.auction_end \in Int /\ HasSizes(queue)
  BY QueueSizes, EngineFields DEF AccountInv, IInv, TypeOK, GoodEngine
<1>2. /\ \A i, j \in DOMAIN trades : trades[i].price = trades[j].price
      /\ \/ TradeTotal(trades) = 0
         \/ \E p \in LimitPrices(queue) : TradeTotal(trades) = ExecutableVolumeAt(queue, p)
      /\ TradeTotal(trades) \in Nat
      /\ \A p \in LimitPrices(queue) : ExecutableVolumeAt(queue, p) <= TradeTotal(trades)
  BY <1>1, UncrossTrades
<1> HIDE DEF trades, queue
<1>3. MaxVolume(queue) = TradeTotal(trades)
  BY <1>1, <1>2, MaxVolumeIs
<1>4. PrintedQty(trades, DOMAIN trades) = TradeTotal(trades)
  BY DEF PrintedQty, TradeTotal
<1>5. out'.trades = trades
  BY DEF trades
<1>6. QED BY <1>2, <1>3, <1>4, <1>5 DEF queue

LEMMA ClosingNext ==
  ASSUME DayOrdered, DayInv, ClosingTimed, SessionNext
  PROVE ClosingTimed' /\ ClosesWell
<1>1. /\ GoodEngine(eng) /\ AccountInv /\ now \in Int /\ eng.auction_end \in Int
      /\ eng.phase \in Closing => sess.close_started
  BY DayFields, EngineFields DEF DayInv, SessionAccounts
<1>2. CASE SessionTick
  <2> DEFINE ts == Smaller(now + 1, MaxTs)
             e == Started(ts)
             f == Flush(e, ts)
  <2>1. eng' = f.eng /\ out'.trades = f.trades /\ now' = ts
    BY <1>2 DEF SessionTick, OnTime, Flushed, Quiet
  <2>2. ts \in Int /\ ts >= 0
    BY DayFields DEF Smaller
  <2> HIDE DEF ts
  <2>3. GoodEngine(e)
    BY <2>2, StartedKeeps DEF DayInv, SessionAccounts
  <2>4. eng.phase = "ClosingAuction" => e = eng
    <3>1. SUFFICES ASSUME eng.phase = "ClosingAuction" PROVE ~TalStarts(ts) /\ ~ClosingStarts(ts)
      BY DEF Started
    <3>2. sess.close_started /\ sess.at.closing_start <= now
      BY <1>1, <3>1 DEF DayInv, Closing
    <3>3. ts >= now
      BY DayFields DEF ts, Smaller
    <3>4. sess.at.tal_end <= sess.at.closing_start
      BY DayFields DEF DayOrdered
    <3>5. QED BY <1>1, <2>2, <3>2, <3>3, <3>4, DayFields DEF TalStarts, ClosingStarts
  <2>5. e.phase = "ClosingAuction" => e.auction_end > 0
    <3>1. CASE ClosingStarts(ts)
      <4> DEFINE x == IF TalStarts(ts) THEN StartTradingAtLast(eng, sess.at.tal_end) ELSE eng
                 end == sess.at.closing_end
      <4>1. e = StartClosingAuction(x, end) BY <3>1 DEF Started
      <4>2. "auction_end" \in DOMAIN x
        BY <1>1 DEF StartTradingAtLast, GoodEngine, IsEngine
      <4> HIDE DEF e, x, end
      <4>3. e.auction_end = end
        BY <4>1, <4>2 DEF StartClosingAuction
      <4>4. ts < end /\ end \in Int BY <3>1, DayFields DEF ClosingStarts, end
      <4>5. QED BY <2>2, <4>3, <4>4
    <3>2. CASE ~ClosingStarts(ts)
      <4>1. e = eng \/ e = StartTradingAtLast(eng, sess.at.tal_end)
        BY <3>2 DEF Started
      <4>2. StartTradingAtLast(eng, sess.at.tal_end).phase = "TradingAtLast"
        BY <1>1 DEF StartTradingAtLast, GoodEngine, IsEngine
      <4> HIDE DEF e
      <4>3. QED BY <4>1, <4>2 DEF ClosingTimed
    <3>3. QED BY <3>1, <3>2
  <2> HIDE DEF e, f
  <2>6. DayKept(e, f.eng, f.trades)
    BY <2>2, <2>3, FlushDay DEF f
  <2>7. eng'.phase = "ClosingAuction" => e.phase = "ClosingAuction"
    BY <2>1, <2>6 DEF DayKept, Closing
  <2>8. e.phase = "ClosingAuction" =>
          /\ ts < e.auction_end => f.eng = e
          /\ ts >= e.auction_end =>
               f.eng.phase = "Closed" /\ f.trades = UncrossAuction(e, e.auction_end).trades
    BY <2>2, <2>3, <2>5, FlushClosing DEF f
  <2>9. e.auction_end \in Int
    BY <2>3, EngineFields
  <2>10. ClosingTimed'
    <3>1. SUFFICES ASSUME eng'.phase = "ClosingAuction" PROVE eng'.auction_end > 0
      BY DEF ClosingTimed
    <3>2. QED BY <2>1, <2>2, <2>5, <2>7, <2>8, <2>9, <3>1
  <2>11. ClosesWell
    <3>1. SUFFICES ASSUME eng.phase = "ClosingAuction", now' >= eng.auction_end
                   PROVE /\ eng'.phase = "Closed"
                         /\ out'.trades = UncrossAuction(eng, eng.auction_end).trades
      BY <1>1, ClosingVolume DEF ClosesWell
    <3>2. QED BY <2>1, <2>4, <2>8, <3>1
  <2>12. QED BY <2>10, <2>11
<1>3. ASSUME NEW o \in Incoming, Submit(o, now), UNCHANGED sess PROVE ClosingTimed' /\ ClosesWell
  <2> DEFINE r == Process(eng, o, now)
  <2>1. o \in Order
    BY MachineAssumption
  <2>2. eng' = r.eng /\ out'.trades = r.trades /\ now' = now
    BY <1>3 DEF Submit, Submitted
  <2>3. DayKept(eng, r.eng, r.trades)
    BY <1>1, <2>1, ProcessDay
  <2>4. eng.phase = "ClosingAuction" =>
          /\ now < eng.auction_end => r.eng.auction_end = eng.auction_end
          /\ now >= eng.auction_end =>
               r.eng.phase = "Closed" /\ r.trades = UncrossAuction(eng, eng.auction_end).trades
    BY <1>1, <2>1, ProcessClosing DEF ClosingTimed
  <2> HIDE DEF r
  <2>5. ClosingTimed'
    <3>1. SUFFICES ASSUME eng'.phase = "ClosingAuction" PROVE eng'.auction_end > 0
      BY DEF ClosingTimed
    <3>2. eng.phase = "ClosingAuction" BY <2>2, <2>3, <3>1 DEF DayKept, Closing
    <3>3. QED BY <1>1, <2>2, <2>4, <3>1, <3>2 DEF ClosingTimed
  <2>6. ClosesWell
    <3>1. SUFFICES ASSUME eng.phase = "ClosingAuction", now' >= eng.auction_end
                   PROVE /\ eng'.phase = "Closed"
                         /\ out'.trades = UncrossAuction(eng, eng.auction_end).trades
      BY <1>1, ClosingVolume DEF ClosesWell
    <3>2. QED BY <2>2, <2>4, <3>1
  <2>7. QED BY <2>5, <2>6
<1>4. ASSUME NEW o \in submitted, CancelOrder(o.id), UNCHANGED sess PROVE ClosingTimed' /\ ClosesWell
  <2> DEFINE book == Cancel(eng.book, o.id).book
  <2>1. eng' = [eng EXCEPT !.book = book] /\ out'.call = "cancel"
    BY <1>4 DEF CancelOrder, Quiet
  <2> HIDE DEF book
  <2>2. eng'.phase = eng.phase /\ eng'.auction_end = eng.auction_end
    BY <1>1, <2>1 DEF GoodEngine, IsEngine
  <2>3. QED BY <2>1, <2>2 DEF ClosingTimed, ClosesWell
<1>5. QED BY <1>2, <1>3, <1>4 DEF SessionNext

(* The closing auction ends with the market closed, and with one uncrossing, at a
   single price, of the largest volume its queue allows, whatever halts, auctions
   and orders came before: of the configuration nothing is asked, of the schedule
   that trading-at-last is over when the closing auction begins. *)
THEOREM SessionUncrosses == DayOrdered => (SessionSpec => ClosingUncrosses)
<1> DEFINE Inv == DayInv /\ ClosingTimed
<1>1. DayOrdered /\ SessionInit => Inv
  <2>1. SUFFICES ASSUME SessionInit PROVE DayInv /\ ClosingTimed
    OBVIOUS
  <2>2. SessionAccounts
    BY <2>1, InitGood, AccountInit DEF SessionInit, SessionInv, SessionAccounts
  <2>3. PICK cfg \in Configs : eng = NewEngine(cfg)
    BY <2>1 DEF SessionInit, Init
  <2>4. now = 0 /\ 0 \in 0 .. MaxTs /\ sess.close_started = FALSE /\ eng.phase = "Continuous"
    BY <2>1, <2>3, MachineAssumption DEF SessionInit, Init, NewEngine
  <2>5. QED BY <2>2, <2>4 DEF DayInv, Closing, ClosingTimed
<1>2. DayOrdered /\ Inv /\ [SessionNext]_svars => Inv' /\ [ClosesWell]_svars
  <2>1. SUFFICES ASSUME DayOrdered, DayInv, ClosingTimed, [SessionNext]_svars
                 PROVE DayInv' /\ ClosingTimed' /\ [ClosesWell]_svars
    OBVIOUS
  <2>2. CASE SessionNext
    BY <2>1, <2>2, DayNext, ClosingNext
  <2>3. CASE UNCHANGED svars
    <3>1. SessionAccounts' BY <2>1, SessionAccountsNext DEF DayInv
    <3>2. QED BY <2>1, <2>3, <3>1 DEF DayInv, ClosingTimed, svars
  <2>4. QED BY <2>1, <2>2, <2>3
<1> HIDE DEF Inv
<1>3. DayOrdered => []DayOrdered
  <2>1. DayOrdered => DayOrdered'
    BY DEF DayOrdered
  <2>2. QED BY <2>1, PTL
<1>4. DayOrdered => (SessionSpec => [][ClosesWell]_svars)
  BY <1>1, <1>2, <1>3, PTL DEF SessionSpec
<1>5. QED BY <1>4 DEF ClosingUncrosses, ClosesWell
=============================================================================
