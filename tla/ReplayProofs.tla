---------------------------- MODULE ReplayProofs ----------------------------
(***************************************************************************)
(* The tape of a replay is in the order of time, for every vector of       *)
(* events, whoever has made it, and every configuration.  An auction that  *)
(* is over prints at its scheduled end when the next order comes, so the   *)
(* invariant must know of an auction or a halt that it ends after          *)
(* everything that has been printed before.                                *)
(***************************************************************************)
EXTENDS Replay, EngineProofs

(* The prints are in the order of time; none is later than c. *)
Ordered(trades) ==
  \A i, j \in 1 .. Len(trades) : i < j => trades[i].ts <= trades[j].ts

Until(trades, c) == \A i \in 1 .. Len(trades) : trades[i].ts <= c

Waiting == {"Auction", "ClosingAuction", "Halted"}

(* At time c engine e has printed the tape, and what waits is printed after it. *)
Punctual(e, tape, c) ==
  /\ Ordered(tape) /\ Until(tape, c)
  /\ e.phase \in Waiting => Until(tape, e.auction_end)

LEMMA TradeTime == ASSUME NEW trades \in Seq(Trade), NEW k \in 1 .. Len(trades)
                   PROVE trades[k].ts \in Int
<1>1. trades[k] \in Trade
  BY ElementOfSeq
<1>2. QED BY <1>1 DEF Trade

LEMMA UntilLater ==
  ASSUME NEW trades \in Seq(Trade), NEW c \in Int, NEW d \in Int, Until(trades, c), c <= d
  PROVE Until(trades, d)
BY TradeTime DEF Until

(* Prints of one time follow a tape that is not later. *)
LEMMA OrderedJoins ==
  ASSUME NEW old \in Seq(Trade), NEW new \in Seq(Trade), NEW p \in Int,
         Ordered(old), Until(old, p), Clocked(p, new)
  PROVE LET tape == old \o new
        IN  tape \in Seq(Trade) /\ Ordered(tape) /\ Until(tape, p)
<1> DEFINE tape == old \o new
<1>1. /\ tape \in Seq(Trade) /\ Len(old) \in Nat /\ Len(new) \in Nat
      /\ Len(tape) = Len(old) + Len(new)
      /\ \A k \in 1 .. Len(old) + Len(new) :
           tape[k] = IF k <= Len(old) THEN old[k] ELSE new[k - Len(old)]
  BY ConcatProperties, LenProperties
<1> HIDE DEF tape
<1>2. ASSUME NEW k \in 1 .. Len(tape)
      PROVE \/ k \in 1 .. Len(old) /\ tape[k] = old[k]
            \/ k > Len(old) /\ tape[k].ts = p
  <2>1. CASE k <= Len(old)
    BY <1>1, <2>1
  <2>2. CASE ~(k <= Len(old))
    <3>1. k - Len(old) \in 1 .. Len(new) /\ tape[k] = new[k - Len(old)] /\ k > Len(old)
      BY <1>1, <2>2
    <3>2. QED BY <3>1 DEF Clocked
  <2>3. QED BY <2>1, <2>2
<1>3. Until(tape, p)
  BY <1>2 DEF Until
<1>4. ASSUME NEW i \in 1 .. Len(tape), NEW j \in 1 .. Len(tape), i < j
      PROVE tape[i].ts <= tape[j].ts
  <2>1. CASE j > Len(old) /\ tape[j].ts = p
    BY <1>3, <2>1 DEF Until
  <2>2. CASE j \in 1 .. Len(old) /\ tape[j] = old[j]
    <3>1. i \in 1 .. Len(old) /\ ~(i > Len(old)) BY <1>1, <1>4, <2>2
    <3>2. tape[i] = old[i] BY <1>2, <3>1
    <3>3. QED BY <1>4, <2>2, <3>1, <3>2 DEF Ordered
  <2>3. QED BY <1>2, <2>1, <2>2
<1>5. QED BY <1>1, <1>3, <1>4 DEF Ordered, tape

(* No print of a tape in order is later than the last. *)
LEMMA LastIsLatest ==
  ASSUME NEW old \in Seq(Trade), NEW new \in Seq(Trade), new # <<>>, Ordered(old \o new)
  PROVE Until(old \o new, Last(new).ts) /\ Last(old \o new) = Last(new) /\ Last(new).ts \in Int
<1> DEFINE tape == old \o new
           n == Len(tape)
<1>1. /\ tape \in Seq(Trade) /\ Len(old) \in Nat /\ Len(new) \in Nat
      /\ n = Len(old) + Len(new) /\ Len(new) # 0
      /\ \A k \in 1 .. Len(old) + Len(new) :
           tape[k] = IF k <= Len(old) THEN old[k] ELSE new[k - Len(old)]
  BY ConcatProperties, LenProperties, EmptySeq
<1> HIDE DEF tape
<1>2. tape[n] = Last(new) /\ n \in 1 .. Len(tape)
  <2>1. n \in 1 .. Len(old) + Len(new) /\ ~(n <= Len(old)) /\ n - Len(old) = Len(new)
    BY <1>1
  <2>2. tape[n] = new[Len(new)] BY <1>1, <2>1
  <2>3. QED BY <1>1, <2>1, <2>2 DEF Last
<1>3. tape[n].ts \in Int
  BY <1>1, <1>2, TradeTime
<1>4. ASSUME NEW k \in 1 .. Len(tape) PROVE tape[k].ts <= tape[n].ts
  <2>1. k = n \/ k < n BY <1>1
  <2>2. QED BY <1>2, <1>3, <2>1 DEF Ordered, tape
<1>5. Last(tape) = Last(new)
  BY <1>2 DEF Last
<1>6. QED BY <1>2, <1>3, <1>4, <1>5 DEF Until, tape

----------------------------------------------------------------------------
(* One call *)

(* The end of a call that has printed: a halt ends after the prints it follows. *)
LEMMA BreakerPunctual ==
  ASSUME NEW e, GoodEngine(e), e.phase \notin Waiting, NEW new \in Seq(Trade),
         NEW old \in Seq(Trade), NEW c \in Int, Ordered(old \o new), Until(old \o new, c)
  PROVE Punctual(MaybeTriggerCircuitBreaker(OnTrades(e, new), new), old \o new, c)
<1> DEFINE a == OnTrades(e, new)
           ref == IF a.cb_ref = None THEN Head(new).price ELSE a.cb_ref
           armed == [a EXCEPT !.cb_ref = ref]
           at == Last(new).ts
           r == MaybeTriggerCircuitBreaker(a, new)
           tape == old \o new
<1>1. GoodEngine(a)
  BY OnTradesGood
<1>2. a.phase = e.phase /\ a.cfg = e.cfg
  BY DEF OnTrades, GoodEngine, IsEngine
<1> HIDE DEF a
<1>3. r = a \/ (new # <<>> /\ r \in {armed, Halt(armed, at)})
  <2>1. r = IF ~a.cfg.breaker \/ new = <<>> \/ a.phase # "Continuous" THEN a
            ELSE IF Last(new).price > MulDivBps(ref, 10000 - a.cfg.drop_bps)
                 THEN armed ELSE Halt(armed, at)
    BY DEF MaybeTriggerCircuitBreaker
  <2> HIDE DEF r, armed
  <2>2. QED BY <2>1
<1> HIDE DEF ref
<1>4. armed.phase = e.phase /\ armed.cfg = e.cfg /\ DOMAIN armed = DOMAIN a
  BY <1>1, <1>2 DEF GoodEngine, IsEngine
<1>5. Halt(armed, at).auction_end = at + e.cfg.halt + e.cfg.reopen
  BY <1>1, <1>4 DEF Halt, GoodEngine, IsEngine
<1>6. e.cfg.halt \in Nat /\ e.cfg.reopen \in Nat
  BY EngineFields
<1>7. tape \in Seq(Trade)
  BY ConcatProperties
<1> HIDE DEF r, armed, at
<1>8. CASE r = a \/ r = armed
  BY <1>2, <1>4, <1>8 DEF Punctual, r, a
<1>9. CASE new # <<>> /\ r = Halt(armed, at)
  <2> DEFINE end == r.auction_end
  <2>1. Until(tape, at) /\ at \in Int BY <1>9, LastIsLatest DEF at
  <2>2. end \in Int /\ at <= end BY <1>5, <1>6, <1>9, <2>1
  <2> HIDE DEF end, tape
  <2>3. Until(tape, end) BY <1>7, <2>1, <2>2, UntilLater
  <2>4. Punctual(r, tape, c) BY <2>3 DEF Punctual, end, tape
  <2>5. QED BY <2>4 DEF r, a, tape
<1>10. QED BY <1>3, <1>8, <1>9

(* flush *)
LEMMA FlushPunctual ==
  ASSUME NEW e0, GoodEngine(e0), NEW tape \in Seq(Trade), NEW c \in Int, NEW ts \in Int, c <= ts,
         Punctual(e0, tape, c)
  PROVE LET f == Flush(e0, ts)
        IN  /\ GoodEngine(f.eng) /\ f.trades \in Seq(Trade)
            /\ Punctual(f.eng, tape \o f.trades, ts)
<1> DEFINE a == ExpireTradingAtLast(e0, ts)
           e == ExpireHalt(a, ts)
           at == e.auction_end
           u == UncrossAuction(e, at)
           next == [u.eng EXCEPT !.phase = IF e.phase = "ClosingAuction" THEN "Closed"
                                           ELSE "Continuous"]
           f == Flush(e0, ts)
<1>1. f = ExpireAuction(e, ts)
  BY DEF Flush
<1>2. GoodEngine(a) /\ GoodEngine(e) /\ GoodOutcome(f)
  BY ExpireGood, FlushGood
<1>3. at = e0.auction_end /\ (e.phase \in Waiting => e0.phase \in Waiting)
  <2>1. a.auction_end = e0.auction_end /\ (a.phase \in Waiting => e0.phase \in Waiting)
    BY DEF ExpireTradingAtLast, GoodEngine, IsEngine, Waiting
  <2> HIDE DEF a
  <2>2. e.auction_end = a.auction_end /\ (e.phase \in Waiting => a.phase \in Waiting)
    BY <1>2 DEF ExpireHalt, GoodEngine, IsEngine, Waiting
  <2>3. QED BY <2>1, <2>2
<1>4. at \in Int /\ Until(tape, ts) /\ Ordered(tape)
  BY <1>2, EngineFields, UntilLater DEF Punctual
<1> HIDE DEF e, f, at
<1>5. CASE ~AuctionDue(e, ts)
  <2>1. f.eng = e /\ f.trades = <<>> BY <1>1, <1>5 DEF ExpireAuction
  <2>2. tape \o f.trades = tape BY <2>1, ConcatEmptySeq
  <2>3. Punctual(e, tape, ts) BY <1>3, <1>4 DEF Punctual, at
  <2>4. QED BY <1>2, <2>1, <2>2, <2>3 DEF f, GoodOutcome
<1>6. CASE AuctionDue(e, ts)
  <2>1. e.phase \in Waiting /\ at <= ts
    <3>1. e.phase \in Waiting /\ ts >= at BY <1>6 DEF AuctionDue, at, Waiting
    <3>2. QED BY <1>4, <3>1
  <2>2. Until(tape, at)
    BY <1>3, <2>1 DEF Punctual
  <2>3. GoodEngine(u.eng) /\ u.trades \in Seq(Trade) /\ Clocked(at, u.trades)
    BY <1>2, <1>4, UncrossGood, UncrossClock DEF GoodOutcome
  <2>4. /\ f.eng = MaybeTriggerCircuitBreaker(OnTrades(next, u.trades), u.trades)
        /\ f.trades = u.trades
    BY <1>1, <1>6 DEF ExpireAuction, EndAuction, at
  <2> HIDE DEF u
  <2>5. GoodEngine(next) /\ next.phase \notin Waiting
    <3>1. "Continuous" \in Phases /\ "Closed" \in Phases /\ 0 \in Int BY DEF Phases
    <3>2. GoodEngine([u.eng EXCEPT !.phase = "Continuous"])
          /\ GoodEngine([u.eng EXCEPT !.phase = "Closed"])
      BY <2>3, <3>1, SetPhase
    <3>3. next \in {[u.eng EXCEPT !.phase = "Continuous"], [u.eng EXCEPT !.phase = "Closed"]}
      OBVIOUS
    <3>4. next.phase \in {"Continuous", "Closed"}
      BY <2>3 DEF GoodEngine, IsEngine
    <3> HIDE DEF next
    <3>5. QED BY <3>2, <3>3, <3>4 DEF Waiting
  <2> HIDE DEF next
  <2>6. /\ tape \o u.trades \in Seq(Trade) /\ Ordered(tape \o u.trades)
        /\ Until(tape \o u.trades, at)
    BY <1>4, <2>2, <2>3, OrderedJoins
  <2>7. Until(tape \o u.trades, ts)
    BY <1>4, <2>1, <2>6, UntilLater
  <2>8. Punctual(f.eng, tape \o f.trades, ts)
    BY <2>3, <2>4, <2>5, <2>6, <2>7, BreakerPunctual
  <2>9. QED BY <1>2, <2>8 DEF f, GoodOutcome
<1>7. QED BY <1>5, <1>6

(* The end of process(): r is the outcome of the matching at time ts. *)
LEMMA SettledPunctual ==
  ASSUME NEW old \in Seq(Trade), NEW flushed \in Seq(Trade), NEW ts \in Int,
         Ordered(old \o flushed), Until(old \o flushed, ts),
         NEW r, GoodOutcome(r), r.eng.phase \notin Waiting, Clocked(ts, r.trades)
  PROVE LET s == Settled(flushed, r) IN Punctual(s.eng, old \o s.trades, ts)
<1> DEFINE e == r.eng
           new == r.trades
           s == Settled(flushed, r)
           trades == flushed \o new
<1>1. GoodEngine(e) /\ new \in Seq(Trade) /\ e.phase \notin Waiting /\ Clocked(ts, new)
  BY DEF GoodOutcome
<1>2. /\ s.eng = MaybeTriggerCircuitBreaker(OnTrades(e, trades), trades)
      /\ s.trades = trades
  BY DEF Settled, Result
<1> HIDE DEF s, e, new
<1>3. trades \in Seq(Trade) /\ old \o flushed \in Seq(Trade)
  BY <1>1, ConcatProperties
<1>4. (old \o flushed) \o new = old \o trades
  BY <1>1, ConcatAssociative
<1>5. Ordered((old \o flushed) \o new) /\ Until((old \o flushed) \o new, ts)
  BY <1>1, <1>3, OrderedJoins
<1> HIDE DEF trades
<1>6. Punctual(s.eng, old \o s.trades, ts)
  BY <1>1, <1>2, <1>3, <1>4, <1>5, BreakerPunctual
<1>7. QED BY <1>6 DEF s

LEMMA TradingAtLastPunctual ==
  ASSUME NEW e, GoodEngine(e), e.phase = "TradingAtLast", NEW old \in Seq(Trade),
         NEW flushed \in Seq(Trade), NEW ts \in Int, Punctual(e, old \o flushed, ts),
         NEW o \in Order
  PROVE LET r == ProcessTradingAtLast(e, flushed, o, ts)
        IN  Punctual(r.eng, old \o r.trades, ts)
<1> DEFINE o1 == [o EXCEPT !.type = "Limit", !.price = e.last]
           limit == ProcessLimit(e, o1, ts)
           r == ProcessTradingAtLast(e, flushed, o, ts)
<1>1. \A s : Result(e, flushed, None, s).eng = e /\ Result(e, flushed, None, s).trades = flushed
  BY DEF Result
<1>2. CASE \E s : r = Result(e, flushed, None, s)
  BY <1>1, <1>2
<1>3. CASE e.last # None /\ r = Settled(flushed, limit)
  <2>1. o1 \in Order
    <3>1. e.last \in Prices BY <1>3, EngineFields
    <3>2. QED BY <3>1 DEF Order
  <2> HIDE DEF o1
  <2>2. GoodOutcome(limit) /\ Clocked(ts, limit.trades) /\ limit.eng.phase = "TradingAtLast"
    BY <2>1, ProcessLimitGood, ProcessClock
  <2>3. limit.eng.phase \notin Waiting BY <2>2 DEF Waiting
  <2> HIDE DEF limit, r
  <2>4. Punctual(r.eng, old \o r.trades, ts)
    BY <1>3, <2>2, <2>3, SettledPunctual DEF Punctual
  <2>5. QED BY <2>4 DEF r
<1>4. QED BY <1>2, <1>3 DEF ProcessTradingAtLast

LEMMA ContinuousPunctual ==
  ASSUME NEW e, GoodEngine(e), e.phase = "Continuous", NEW old \in Seq(Trade),
         NEW flushed \in Seq(Trade), NEW ts \in Int, Punctual(e, old \o flushed, ts),
         NEW o \in Order
  PROVE LET r == ProcessContinuous(e, flushed, o, ts)
        IN  Punctual(r.eng, old \o r.trades, ts)
<1> DEFINE end == ts + e.cfg.vol_auction
           auction == [e EXCEPT !.phase = "Auction", !.auction_end = end]
           nothing == [eng |-> e, trades |-> <<>>, resting |-> None]
           queued == Result(QueueInAuction(auction, o), flushed, None, "Accepted")
           market == ProcessMarket(e, o, ts)
           limit == ProcessLimit(e, o, ts)
           r == ProcessContinuous(e, flushed, o, ts)
           tape == old \o flushed
<1>1. Ordered(tape) /\ Until(tape, ts) /\ tape \in Seq(Trade)
  BY ConcatProperties DEF Punctual
<1>2. Punctual(queued.eng, old \o queued.trades, ts)
  <2>1. e.cfg.vol_auction \in Nat BY EngineFields
  <2>2. end \in Int /\ ts <= end BY <2>1
  <2> HIDE DEF end, tape
  <2>3. queued.eng.auction_end = end /\ queued.trades = flushed
    BY DEF Result, QueueInAuction, GoodEngine, IsEngine
  <2>4. Until(tape, end) BY <1>1, <2>2, UntilLater
  <2> HIDE DEF queued
  <2>5. QED BY <1>1, <2>3, <2>4 DEF Punctual, tape
<1>3. GoodOutcome(nothing) /\ nothing.eng.phase \notin Waiting /\ Clocked(ts, nothing.trades)
  BY NoneClocked DEF GoodOutcome, Waiting
<1>4. GoodOutcome(market) /\ GoodOutcome(limit)
  BY ProcessMarketGood, ProcessLimitGood
<1>5. /\ market.eng.phase \notin Waiting /\ Clocked(ts, market.trades)
      /\ limit.eng.phase \notin Waiting /\ Clocked(ts, limit.trades)
  BY ProcessClock DEF Waiting
<1>6. r \in {queued, Settled(flushed, nothing), Settled(flushed, market), Settled(flushed, limit)}
  BY DEF ProcessContinuous
<1> HIDE DEF queued, nothing, market, limit, r
<1>7. \A x \in {nothing, market, limit} :
        Punctual(Settled(flushed, x).eng, old \o Settled(flushed, x).trades, ts)
  BY <1>1, <1>3, <1>4, <1>5, SettledPunctual
<1>8. Punctual(r.eng, old \o r.trades, ts)
  BY <1>2, <1>6, <1>7
<1>9. QED BY <1>8 DEF r

(* process(): what it prints follows what was printed before. *)
LEMMA ProcessPunctual ==
  ASSUME NEW e0, GoodEngine(e0), NEW old \in Seq(Trade), NEW c \in Int, NEW ts \in Int, c <= ts,
         Punctual(e0, old, c), NEW o \in Order
  PROVE LET r == Process(e0, o, ts)
        IN  Punctual(r.eng, old \o r.trades, ts)
<1> DEFINE f == Flush(e0, ts)
           e == f.eng
           flushed == f.trades
           r == Process(e0, o, ts)
           queued == QueueInAuction(e, o)
           last == ProcessTradingAtLast(e, flushed, o, ts)
           cont == ProcessContinuous(e, flushed, o, ts)
           OK(x) == Punctual(x.eng, old \o x.trades, ts)
<1>1. GoodEngine(e) /\ flushed \in Seq(Trade) /\ Punctual(e, old \o flushed, ts)
  BY FlushPunctual
<1>2. r = ProcessFlushed(f, o, ts)
  BY DEF Process
<1> HIDE DEF f, r
<1>3. e.phase = "TradingAtLast" => OK(last)
  BY <1>1, TradingAtLastPunctual
<1>4. e.phase = "Continuous" => OK(cont)
  BY <1>1, ContinuousPunctual
<1>5. ASSUME NEW s PROVE OK(Result(e, flushed, None, s)) /\ OK(Result(queued, flushed, None, s))
  <2>1. queued.phase = e.phase /\ queued.auction_end = e.auction_end
    BY <1>1 DEF QueueInAuction, GoodEngine, IsEngine
  <2> HIDE DEF queued, e, flushed
  <2>2. Punctual(queued, old \o flushed, ts)
    BY <1>1, <2>1 DEF Punctual
  <2>3. QED BY <1>1, <2>2 DEF Result
<1> HIDE DEF OK
<1>6. \/ \E s : r = Result(e, flushed, None, s) \/ r = Result(queued, flushed, None, s)
      \/ e.phase = "TradingAtLast" /\ r = last
      \/ e.phase = "Continuous" /\ r = cont
  <2>1. e.phase \in Phases BY <1>1, EngineFields
  <2> HIDE DEF queued, last, cont
  <2>2. QED BY <1>2, <2>1 DEF ProcessFlushed, queued, last, cont, Phases
<1>7. OK(r)
  BY <1>3, <1>4, <1>5, <1>6
<1>8. QED BY <1>7 DEF OK, r

----------------------------------------------------------------------------
(* The order in which the vector is replayed *)

Inorder(es) ==
  \A k, l \in 1 .. Len(es) : k < l => es[k].ts <= es[l].ts

(* Event j of the vector goes before event i, and the events that do. *)
Earlier(v, j, i) == v[j].ts < v[i].ts \/ (v[j].ts = v[i].ts /\ j < i)

Before(v, i) == {j \in DOMAIN v : Earlier(v, j, i)}

Place(v, k) == CHOOSE i \in DOMAIN v : Cardinality(Before(v, i)) = k - 1

LEMMA EventTime == ASSUME NEW v \in Seq(Event), NEW i \in 1 .. Len(v)
                   PROVE v[i] \in Event /\ v[i].ts \in Nat
<1>1. v[i] \in Event
  BY ElementOfSeq
<1>2. QED BY <1>1 DEF Event

LEMMA BeforeFinite ==
  ASSUME NEW v \in Seq(Event), NEW i \in 1 .. Len(v)
  PROVE /\ IsFiniteSet(Before(v, i)) /\ Before(v, i) \subseteq 1 .. Len(v)
        /\ i \notin Before(v, i)
        /\ Cardinality(Before(v, i)) \in 0 .. Len(v) - 1
<1> DEFINE n == Len(v)
           others == (1 .. n) \ {i}
<1>1. n \in Nat /\ DOMAIN v = 1 .. n
  BY LenProperties
<1>2. Before(v, i) \subseteq 1 .. n
  BY <1>1 DEF Before
<1>3. i \notin Before(v, i)
  BY EventTime DEF Before, Earlier
<1>4. IsFiniteSet(1 .. n) /\ Cardinality(1 .. n) = n
  BY <1>1, FS_Interval
<1>5. IsFiniteSet(others) /\ Cardinality(others) = n - 1
  BY <1>4, FS_RemoveElement
<1>6. Before(v, i) \in SUBSET others
  BY <1>2, <1>3
<1> HIDE DEF others
<1>7. IsFiniteSet(Before(v, i)) /\ Cardinality(Before(v, i)) <= n - 1
  BY <1>5, <1>6, FS_Subset
<1>8. Cardinality(Before(v, i)) \in Nat
  BY <1>7, FS_CardinalityType
<1>9. QED BY <1>1, <1>2, <1>3, <1>7, <1>8

LEMMA EarlierFewer ==
  ASSUME NEW v \in Seq(Event), NEW i \in 1 .. Len(v), NEW j \in 1 .. Len(v), Earlier(v, j, i)
  PROVE Cardinality(Before(v, j)) < Cardinality(Before(v, i))
<1> DEFINE more == Before(v, j) \cup {j}
<1>1. /\ IsFiniteSet(Before(v, j)) /\ j \notin Before(v, j) /\ IsFiniteSet(Before(v, i))
      /\ Cardinality(Before(v, j)) \in Nat /\ Cardinality(Before(v, i)) \in Nat
  BY BeforeFinite, FS_CardinalityType
<1>2. IsFiniteSet(more) /\ Cardinality(more) = Cardinality(Before(v, j)) + 1
  BY <1>1, FS_AddElement
<1>3. more \in SUBSET Before(v, i)
  <2>1. DOMAIN v = 1 .. Len(v) BY LenProperties
  <2>2. ASSUME NEW k \in 1 .. Len(v), Earlier(v, k, j) PROVE Earlier(v, k, i)
    <3>1. v[i].ts \in Nat /\ v[j].ts \in Nat /\ v[k].ts \in Nat BY EventTime
    <3>2. QED BY <2>2, <3>1 DEF Earlier
  <2>3. QED BY <2>1, <2>2 DEF Before
<1> HIDE DEF more
<1>4. Cardinality(more) <= Cardinality(Before(v, i))
  BY <1>1, <1>3, FS_Subset
<1>5. QED BY <1>1, <1>2, <1>4

(* Every place is that of exactly one event. *)
LEMMA PlaceOfOne ==
  ASSUME NEW v \in Seq(Event), NEW k \in 1 .. Len(v)
  PROVE Place(v, k) \in 1 .. Len(v) /\ Cardinality(Before(v, Place(v, k))) = k - 1
<1> DEFINE n == Len(v)
           rank == [i \in 1 .. n |-> Cardinality(Before(v, i))]
<1>1. n \in Nat /\ DOMAIN v = 1 .. n
  BY LenProperties
<1>2. rank \in [1 .. n -> 0 .. n - 1]
  BY BeforeFinite
<1>3. ASSUME NEW i \in 1 .. n, NEW j \in 1 .. n, rank[i] = rank[j] PROVE i = j
  <2>1. v[i].ts \in Nat /\ v[j].ts \in Nat BY EventTime
  <2>2. i = j \/ Earlier(v, i, j) \/ Earlier(v, j, i) BY <1>1, <2>1 DEF Earlier
  <2>3. rank[i] \in Int /\ rank[j] \in Int BY <1>1, <1>2
  <2>4. Earlier(v, i, j) => rank[i] < rank[j] BY EarlierFewer
  <2>5. Earlier(v, j, i) => rank[j] < rank[i] BY EarlierFewer
  <2> HIDE DEF rank
  <2>6. QED BY <1>3, <2>2, <2>3, <2>4, <2>5
<1>4. \A i \in 1 .. n : rank[i] = Cardinality(Before(v, i))
  OBVIOUS
<1> HIDE DEF rank
<1>5. rank \in Injection(1 .. n, 0 .. n - 1)
  BY <1>2, <1>3 DEF Injection, IsInjective
<1>6. /\ IsFiniteSet(0 .. n - 1) /\ Cardinality(0 .. n - 1) = n
      /\ Cardinality(1 .. n) = n
  <2> DEFINE m == n - 1
  <2>1. m \in Int /\ 0 \in Int /\ 1 \in Int /\ n \in Int BY <1>1
  <2>2. ~(0 > m) /\ m - 0 + 1 = n /\ ~(1 > n) /\ n - 1 + 1 = n BY <1>1
  <2> HIDE DEF m, n
  <2>3. IsFiniteSet(0 .. m) /\ Cardinality(0 .. m) = IF 0 > m THEN 0 ELSE m - 0 + 1
    BY <2>1, FS_Interval
  <2>4. Cardinality(1 .. n) = IF 1 > n THEN 0 ELSE n - 1 + 1
    BY <2>1, FS_Interval
  <2>5. QED BY <2>2, <2>3, <2>4 DEF m
<1>7. rank \in Surjection(1 .. n, 0 .. n - 1)
  BY <1>5, <1>6, FS_Injection
<1>8. k - 1 \in 0 .. n - 1
  BY <1>1
<1>9. \E i \in 1 .. n : rank[i] = k - 1
  BY <1>7, <1>8 DEF Surjection
<1>10. \E i \in DOMAIN v : Cardinality(Before(v, i)) = k - 1
  BY <1>1, <1>4, <1>9
<1>11. Place(v, k) \in DOMAIN v /\ Cardinality(Before(v, Place(v, k))) = k - 1
  BY <1>10 DEF Place
<1>12. QED BY <1>1, <1>11

(* The stable sort: the same number of events, in the order of time. *)
LEMMA SortedSorts ==
  ASSUME NEW v \in Seq(Event)
  PROVE Sorted(v) \in Seq(Event) /\ Len(Sorted(v)) = Len(v) /\ Inorder(Sorted(v))
<1> DEFINE n == Len(v)
           s == Sorted(v)
<1>1. n \in Nat /\ DOMAIN v = 1 .. n
  BY LenProperties
<1>2. s = [k \in DOMAIN v |-> v[Place(v, k)]]
  BY DEF Sorted, Place, Before, Earlier
<1> HIDE DEF s
<1>3. s = [k \in 1 .. n |-> v[Place(v, k)]]
  BY <1>1, <1>2
<1>4. ASSUME NEW k \in 1 .. n PROVE v[Place(v, k)] \in Event
  BY PlaceOfOne, EventTime
<1>5. s \in Seq(Event)
  <2>1. s \in [1 .. n -> Event] BY <1>3, <1>4
  <2>2. QED BY <1>1, <2>1, SeqDef
<1>6. Len(s) = n
  BY <1>1, <1>3, <1>5, LenProperties
<1>7. ASSUME NEW k \in 1 .. n, NEW l \in 1 .. n, k < l PROVE s[k].ts <= s[l].ts
  <2> DEFINE i == Place(v, k)
             j == Place(v, l)
  <2>1. /\ i \in 1 .. n /\ Cardinality(Before(v, i)) = k - 1
        /\ j \in 1 .. n /\ Cardinality(Before(v, j)) = l - 1
    BY PlaceOfOne
  <2>2. s[k] = v[i] /\ s[l] = v[j] BY <1>3
  <2> HIDE DEF i, j
  <2>3. v[i].ts \in Nat /\ v[j].ts \in Nat BY <2>1, EventTime
  <2>4. ~Earlier(v, j, i)
    <3>1. Earlier(v, j, i) => l - 1 < k - 1 BY <2>1, EarlierFewer
    <3>2. QED BY <1>1, <1>7, <3>1
  <2>5. QED BY <2>2, <2>3, <2>4 DEF Earlier
<1>8. QED BY <1>5, <1>6, <1>7 DEF Inorder, s

----------------------------------------------------------------------------
(* The invariant *)

(* The vector is one of events: a generated one is, as far as its ids, owners
   and prices are among those of the instance. *)
EventsFit == events \in Seq(Event)

(* The time of the last event that has been replayed. *)
Clock == IF out.tops = <<>> THEN 0 ELSE Last(out.tops).ts

Results(S) ==
  [trades : Seq(Trade), tops : Seq(S), cancel_failures : Int, modify_failures : Int]

(* What is to come is in the order of time and not before the clock, and the
   engine has printed the tape. *)
RunsInTime ==
  /\ GoodEngine(eng)
  /\ \E S : out \in Results(S)
  /\ todo \in Seq(Event) /\ Inorder(todo)
  /\ Clock \in Int /\ \A k \in 1 .. Len(todo) : Clock <= todo[k].ts
  /\ out.tops = <<>> => out.trades = <<>>
  /\ Punctual(eng, out.trades, Clock)

InTime ==
  /\ stage # "run" => RunsInTime /\ todo = <<>> /\ out.tops = <<>>
  /\ EventsFit => RunsInTime

LEMMA TapeFollows == ASSUME RunsInTime PROVE TapeInTime
<1> DEFINE tape == out.trades
<1>1. PICK S : out \in Results(S)
  BY DEF RunsInTime
<1>2. tape \in Seq(Trade)
  BY <1>1 DEF Results
<1>3. Ordered(tape) /\ Until(tape, Clock) /\ (out.tops = <<>> => tape = <<>>)
  BY DEF RunsInTime, Punctual
<1> HIDE DEF tape
<1>4. DOMAIN tape = 1 .. Len(tape)
  BY <1>2, LenProperties
<1>5. ASSUME tape # <<>> PROVE Last(tape).ts <= Last(out.tops).ts
  <2>1. Len(tape) \in 1 .. Len(tape) BY <1>2, <1>5, EmptySeq
  <2>2. Clock = Last(out.tops).ts BY <1>3, <1>5 DEF Clock
  <2>3. QED BY <1>3, <2>1, <2>2 DEF Until, Last
<1>6. QED BY <1>3, <1>4, <1>5 DEF TapeInTime, Ordered, tape

LEMMA AppendsAny ==
  ASSUME NEW S, NEW s \in Seq(S), NEW x
  PROVE /\ Append(s, x) \in Seq(S \cup {x}) /\ Append(s, x) # <<>>
        /\ Last(Append(s, x)) = x
<1> DEFINE T == S \cup {x}
           longer == Append(s, x)
<1>1. s \in Seq(T) /\ x \in T
  <2>1. \E n \in Nat : s \in [1 .. n -> S] BY SeqDef
  <2>2. \E n \in Nat : s \in [1 .. n -> T] BY <2>1
  <2> HIDE DEF T
  <2>3. s \in Seq(T) BY <2>2, SeqDef
  <2>4. QED BY <2>3 DEF T
<1> HIDE DEF T
<1>2. /\ longer \in Seq(T) /\ longer # <<>> /\ Len(longer) = Len(s) + 1
      /\ longer[Len(s) + 1] = x
  BY <1>1, AppendProperties
<1> HIDE DEF longer
<1>3. Last(longer) = x
  BY <1>2 DEF Last
<1>4. QED BY <1>2, <1>3 DEF longer, T

(* The first of the events to come, and those after it. *)
LEMMA NextEvent ==
  ASSUME NEW es \in Seq(Event), es # <<>>, Inorder(es)
  PROVE /\ Head(es) \in Event /\ Head(es).ts \in Nat /\ Head(es) = es[1] /\ 1 \in 1 .. Len(es)
        /\ Tail(es) \in Seq(Event) /\ Inorder(Tail(es))
        /\ \A k \in 1 .. Len(Tail(es)) : Head(es).ts <= Tail(es)[k].ts
<1> DEFINE rest == Tail(es)
<1>1. /\ Head(es) \in Event /\ rest \in Seq(Event) /\ Len(rest) = Len(es) - 1
      /\ \A i \in 1 .. Len(rest) : rest[i] = es[i + 1]
  BY HeadTailProperties
<1>2. Len(es) \in Nat \ {0} /\ Head(es) = es[1]
  BY EmptySeq
<1> HIDE DEF rest
<1>3. 1 \in 1 .. Len(es) /\ \A k \in 1 .. Len(rest) : k + 1 \in 1 .. Len(es) /\ 1 < k + 1
  BY <1>1, <1>2
<1>4. \A k \in 1 .. Len(rest) : Head(es).ts <= rest[k].ts
  BY <1>1, <1>2, <1>3 DEF Inorder
<1>5. ASSUME NEW k \in 1 .. Len(rest), NEW l \in 1 .. Len(rest), k < l
      PROVE rest[k].ts <= rest[l].ts
  <2>1. k + 1 \in 1 .. Len(es) /\ l + 1 \in 1 .. Len(es) /\ k + 1 < l + 1 BY <1>3, <1>5
  <2>2. QED BY <1>1, <2>1 DEF Inorder
<1>6. Head(es).ts \in Nat
  BY <1>1 DEF Event
<1>7. QED BY <1>1, <1>2, <1>3, <1>4, <1>5, <1>6 DEF Inorder, rest

(* An event is done. *)
LEMMA ReplayedInTime ==
  ASSUME RunsInTime, todo # <<>>, NEW next, GoodEngine(next), NEW S, NEW result \in Results(S),
         result.tops = out.tops, Punctual(next, result.trades, Head(todo).ts),
         Replayed(Head(todo), next, result)
  PROVE RunsInTime'
<1> DEFINE e == Head(todo)
           tops == result.tops
           x == Top(e.ts, next.book)
           longer == Append(tops, x)
<1>1. todo \in Seq(Event) /\ Inorder(todo)
  BY DEF RunsInTime
<1>2. /\ e.ts \in Nat /\ Tail(todo) \in Seq(Event) /\ Inorder(Tail(todo))
      /\ \A k \in 1 .. Len(Tail(todo)) : e.ts <= Tail(todo)[k].ts
  BY <1>1, NextEvent
<1>3. x.ts = e.ts
  BY DEF Top
<1>4. tops \in Seq(S)
  BY DEF Results
<1>5. eng' = next /\ todo' = Tail(todo) /\ out' = [result EXCEPT !.tops = longer]
  BY DEF Replayed
<1> HIDE DEF e, x, tops
<1>6. longer \in Seq(S \cup {x}) /\ longer # <<>> /\ Last(longer) = x
  BY <1>4, AppendsAny
<1> HIDE DEF longer
<1>7. /\ out' \in Results(S \cup {x}) /\ out'.tops = longer /\ out'.trades = result.trades
  BY <1>5, <1>6 DEF Results
<1>8. Clock' = e.ts
  BY <1>3, <1>6, <1>7 DEF Clock
<1>9. \E s : out' \in Results(s)
  BY <1>7
<1>10. Punctual(next, result.trades, e.ts)
  BY DEF e
<1>11. Clock' \in Int /\ \A k \in 1 .. Len(todo') : Clock' <= todo'[k].ts
  BY <1>2, <1>5, <1>8
<1>12. Punctual(eng', out'.trades, Clock')
  BY <1>5, <1>7, <1>8, <1>10
<1>13. (out.tops)' # <<>>
  BY <1>6, <1>7
<1>14. QED BY <1>2, <1>5, <1>9, <1>11, <1>12, <1>13 DEF RunsInTime

(* A book that has changed between two prints. *)
LEMMA BookPunctual ==
  ASSUME NEW e, GoodEngine(e), NEW b, GoodBook(b), NEW tape \in Seq(Trade), NEW c \in Int,
         NEW ts \in Int, c <= ts, Punctual(e, tape, c)
  PROVE GoodEngine([e EXCEPT !.book = b]) /\ Punctual([e EXCEPT !.book = b], tape, ts)
<1> DEFINE n == [e EXCEPT !.book = b]
<1>1. GoodEngine(n)
  <2>1. 0 \in Nat /\ <<>> \in Seq(Order) BY EmptySeq
  <2>2. QED BY <2>1, SetBook
<1>2. n.phase = e.phase /\ n.auction_end = e.auction_end
  BY DEF GoodEngine, IsEngine
<1> HIDE DEF n
<1>3. Until(tape, ts)
  BY UntilLater DEF Punctual
<1>4. Punctual(n, tape, ts)
  BY <1>2, <1>3 DEF Punctual
<1>5. QED BY <1>1, <1>4 DEF n

(* Every event of a run. *)
LEMMA EventInTime ==
  ASSUME RunsInTime, ReplayAdd \/ ReplayCancel \/ ReplayModify
  PROVE RunsInTime'
<1> DEFINE e == Head(todo)
           r == Process(eng, OrderOf(e), e.ts)
           traded == [out EXCEPT !.trades = out.trades \o r.trades]
<1>1. todo # <<>>
  BY DEF ReplayAdd, ReplayCancel, ReplayModify, Due
<1>2. PICK S : out \in Results(S)
  BY DEF RunsInTime
<1>3. /\ GoodEngine(eng) /\ Clock \in Int /\ Punctual(eng, out.trades, Clock)
      /\ todo \in Seq(Event) /\ Inorder(todo)
      /\ \A k \in 1 .. Len(todo) : Clock <= todo[k].ts
  BY DEF RunsInTime
<1>4. e \in Event /\ e.ts \in Nat /\ e = todo[1] /\ 1 \in 1 .. Len(todo)
  BY <1>1, <1>3, NextEvent
<1>5. Clock <= e.ts /\ e.ts \in Int /\ out.trades \in Seq(Trade)
  BY <1>2, <1>3, <1>4 DEF Results
<1>6. OrderOf(e) \in Order
  BY <1>4 DEF OrderOf, Event, Order
<1>7. CASE ReplayAdd
  <2>1. Replayed(e, r.eng, traded) BY <1>7 DEF ReplayAdd
  <2>2. GoodEngine(r.eng) /\ r.trades \in Seq(Trade)
    BY <1>3, <1>5, <1>6, ProcessGood DEF GoodResult, GoodOutcome
  <2>3. Punctual(r.eng, out.trades \o r.trades, e.ts)
    BY <1>3, <1>5, <1>6, ProcessPunctual
  <2> HIDE DEF r, e
  <2>4. out.trades \o r.trades \in Seq(Trade) BY <1>5, <2>2, ConcatProperties
  <2>5. /\ traded \in Results(S) /\ traded.tops = out.tops
        /\ traded.trades = out.trades \o r.trades
    BY <1>2, <2>4 DEF Results
  <2> HIDE DEF traded
  <2>6. QED BY <1>1, <2>1, <2>2, <2>3, <2>5, ReplayedInTime DEF e
<1>8. ASSUME NEW b, GoodBook(b), NEW result \in Results(S), result.tops = out.tops,
             result.trades = out.trades, Replayed(e, [eng EXCEPT !.book = b], result)
      PROVE RunsInTime'
  <2>1. /\ GoodEngine([eng EXCEPT !.book = b])
        /\ Punctual([eng EXCEPT !.book = b], out.trades, e.ts)
    BY <1>3, <1>5, <1>8, BookPunctual
  <2>2. QED BY <1>1, <1>8, <2>1, ReplayedInTime
<1>9. GoodBook(eng.book)
  BY <1>3 DEF GoodEngine
<1>10. CASE ReplayCancel
  <2> DEFINE c == Cancel(eng.book, e.id)
             failed == [out EXCEPT !.cancel_failures = out.cancel_failures + 1]
  <2>1. Replayed(e, [eng EXCEPT !.book = c.book], IF c.ok THEN out ELSE failed)
    BY <1>10 DEF ReplayCancel
  <2>2. GoodBook(c.book) BY <1>9, CancelGood
  <2>3. failed \in Results(S) /\ failed.tops = out.tops /\ failed.trades = out.trades
    BY <1>2 DEF Results
  <2> HIDE DEF c, failed, e
  <2>4. QED BY <1>2, <1>8, <2>1, <2>2, <2>3
<1>11. CASE ReplayModify
  <2> DEFINE c == ModifyQty(eng.book, e.id, e.qty)
             failed == [out EXCEPT !.modify_failures = out.modify_failures + 1]
  <2>1. Replayed(e, [eng EXCEPT !.book = c.book], IF c.ok THEN out ELSE failed)
    BY <1>11 DEF ReplayModify
  <2>2. GoodBook(c.book)
    <3>1. e.qty \in Int BY <1>4 DEF Event
    <3>2. QED BY <1>9, <3>1, ModifyGood
  <2>3. failed \in Results(S) /\ failed.tops = out.tops /\ failed.trades = out.trades
    BY <1>2 DEF Results
  <2> HIDE DEF c, failed, e
  <2>4. QED BY <1>2, <1>8, <2>1, <2>2, <2>3
<1>12. QED BY <1>7, <1>10, <1>11

(* The vector is there: nothing has been replayed of it. *)
LEMMA RunsInOrder ==
  ASSUME RunsInTime, out.tops = <<>>, NEW v \in Seq(Event), Runs(v)
  PROVE RunsInTime'
<1>1. todo' = Sorted(v) /\ eng' = eng /\ out' = out
  BY DEF Runs
<1>2. todo' \in Seq(Event) /\ Inorder(todo')
  BY <1>1, SortedSorts
<1>3. Clock = 0 /\ Clock' = 0
  BY <1>1 DEF Clock
<1>4. \A k \in 1 .. Len(todo') : todo'[k].ts \in Nat
  BY <1>2, EventTime
<1>5. \A k \in 1 .. Len(todo') : Clock' <= todo'[k].ts
  BY <1>3, <1>4
<1>6. QED BY <1>1, <1>2, <1>3, <1>5 DEF RunsInTime

LEMMA InTimeInit == ReplayInit => InTime
<1> SUFFICES ASSUME ReplayInit PROVE InTime
  OBVIOUS
<1>1. PICK cfg \in Configs : eng = NewEngine(cfg)
  BY DEF ReplayInit
<1>2. GoodEngine(eng) /\ eng.phase = "Continuous"
  <2>1. cfg \in RulesConfig BY ReplayAssumption
  <2>2. eng.phase = "Continuous" BY <1>1 DEF NewEngine
  <2>3. QED BY <1>1, <2>1, <2>2, NewEngineGood
<1>3. todo = <<>> /\ out.trades = <<>> /\ out.tops = <<>>
      /\ out.cancel_failures = 0 /\ out.modify_failures = 0
  BY DEF ReplayInit
<1>4. \E S : out \in Results(S)
  <2>1. <<>> \in Seq(Trade) /\ <<>> \in Seq({}) BY EmptySeq
  <2>2. out \in Results({}) BY <2>1 DEF ReplayInit, Results
  <2>3. QED BY <2>2
<1>5. Clock = 0
  BY <1>3 DEF Clock
<1>6. todo \in Seq(Event) /\ Len(todo) = 0 /\ Len(out.trades) = 0
  BY <1>3, EmptySeq
<1>7. Inorder(todo) /\ \A k \in 1 .. Len(todo) : Clock <= todo[k].ts
  BY <1>6 DEF Inorder
<1>8. Punctual(eng, out.trades, Clock)
  BY <1>6 DEF Punctual, Ordered, Until
<1>9. RunsInTime
  BY <1>2, <1>3, <1>4, <1>5, <1>6, <1>7, <1>8 DEF RunsInTime
<1>10. QED BY <1>3, <1>9 DEF InTime

LEMMA InTimeStays == InTime /\ [ReplayNext]_vars => InTime'
<1> SUFFICES ASSUME InTime, [ReplayNext]_vars PROVE InTime'
  OBVIOUS
<1>1. ASSUME UNCHANGED <<eng, todo, out>> PROVE RunsInTime => RunsInTime'
  <2>1. Clock' = Clock BY <1>1 DEF Clock
  <2>2. QED BY <1>1, <2>1 DEF RunsInTime
<1>2. CASE StartGenerate \/ Generate
  <2>1. stage # "run" /\ UNCHANGED <<eng, todo, out>>
    BY <1>2 DEF StartGenerate, Generate
  <2>2. QED BY <1>1, <2>1 DEF InTime
<1>3. CASE RunGiven \/ RunGenerated
  <2>1. PICK v : stage # "run" /\ Runs(v)
    BY <1>3 DEF RunGiven, RunGenerated
  <2>2. stage' = "run" /\ events' = v
    BY <2>1 DEF Runs
  <2>3. RunsInTime /\ out.tops = <<>>
    BY <2>1 DEF InTime
  <2>4. ASSUME EventsFit' PROVE RunsInTime'
    <3>1. v \in Seq(Event) BY <2>2, <2>4 DEF EventsFit
    <3>2. QED BY <2>1, <2>3, <3>1, RunsInOrder
  <2>5. QED BY <2>2, <2>4 DEF InTime
<1>4. CASE ReplayAdd \/ ReplayCancel \/ ReplayModify
  <2>1. todo # <<>> /\ stage' = stage /\ events' = events
    BY <1>4 DEF ReplayAdd, ReplayCancel, ReplayModify, Due, Replayed
  <2>2. stage = "run"
    BY <2>1 DEF InTime
  <2>3. ASSUME EventsFit' PROVE RunsInTime'
    <3>1. EventsFit BY <2>1, <2>3 DEF EventsFit
    <3>2. QED BY <1>4, <3>1, EventInTime DEF InTime
  <2>4. QED BY <2>1, <2>2, <2>3 DEF InTime
<1>5. CASE UNCHANGED vars
  BY <1>1, <1>5 DEF InTime, EventsFit, vars
<1>6. QED BY <1>2, <1>3, <1>4, <1>5 DEF ReplayNext, RunEnded

(* However a vector of events is arranged, its tape is in the order of time,
   and no print is later than the event that brought it out. *)
THEOREM VectorInTime == ReplaySpec => [](EventsFit => TapeInTime)
<1>1. InTime => (EventsFit => TapeInTime)
  BY TapeFollows DEF InTime
<1>2. QED BY <1>1, InTimeInit, InTimeStays, PTL DEF ReplaySpec

----------------------------------------------------------------------------
(* What the generator makes *)

(* Its ids, its owners and its prices are among those of the instance. *)
FlowFits ==
  /\ Nat \subseteq Ids /\ {0, 1, 2} \subseteq Owners /\ 0 \in Prices
  /\ \A off \in 1 .. MaxOffset : RefMid - off \in Prices /\ RefMid + off \in Prices

FlowType == EventsFit /\ t \in Nat /\ next_id \in Nat

LEMMA FlowEvents ==
  ASSUME FlowFits, FlowType, NEW ts \in Nat
  PROVE Limits(ts) \cup Markets(ts) \cup Cancels(ts) \subseteq Event
<1>1. /\ \A i \in Nat : i \in Ids
      /\ 0 \in Owners /\ 1 \in Owners /\ 2 \in Owners /\ 0 \in Prices
      /\ next_id \in Ids
  BY DEF FlowFits, FlowType
<1>2. FlowQtys \subseteq Int /\ "Buy" \in Sides /\ 0 \in Int
  BY ReplayAssumption DEF Sides
<1>3. Limits(ts) \subseteq Event
  <2>1. ASSUME NEW side \in Sides, NEW off \in 1 .. MaxOffset
        PROVE LimitPriceAround(RefMid, side, off) \in Prices
    BY DEF FlowFits, LimitPriceAround
  <2>2. QED BY <1>1, <1>2, <2>1 DEF Limits, Event
<1>4. Markets(ts) \subseteq Event
  BY <1>1, <1>2 DEF Markets, Event
<1>5. Cancels(ts) \subseteq Event
  <2>1. \A id \in 1 .. next_id - 1 : id \in Ids BY <1>1
  <2>2. QED BY <1>1, <1>2, <2>1 DEF Cancels, Event
<1>6. QED BY <1>3, <1>4, <1>5

LEMMA FlowStays == FlowFits /\ FlowType /\ [ReplayNext]_vars => FlowType'
<1> SUFFICES ASSUME FlowFits, FlowType, [ReplayNext]_vars PROVE FlowType'
  OBVIOUS
<1>1. CASE Generate
  <2>1. PICK gap \in Gaps : t' = t + gap /\ Generates(t + gap)
    BY <1>1 DEF Generate
  <2>2. t + gap \in Nat
    BY ReplayAssumption DEF FlowType
  <2>3. \A e \in Event : Append(events, e) \in Seq(Event)
    BY AppendProperties DEF FlowType, EventsFit
  <2>4. \/ \E e \in Event : events' = Append(events, e)
        \/ events' = events
    BY <2>1, <2>2, FlowEvents DEF Generates
  <2>5. next_id' \in Nat
    BY <2>1 DEF Generates, FlowType
  <2>6. QED BY <2>1, <2>2, <2>3, <2>4, <2>5 DEF FlowType, EventsFit
<1>2. CASE RunGiven
  <2>1. PICK v \in Vectors : Runs(v) BY <1>2 DEF RunGiven
  <2>2. v \in Seq(Event) BY ReplayAssumption
  <2>3. QED BY <2>1, <2>2 DEF Runs, FlowType, EventsFit
<1>3. CASE RunGenerated
  BY <1>3 DEF RunGenerated, Runs, FlowType, EventsFit
<1>4. CASE ~Generate /\ ~RunGiven /\ ~RunGenerated
  <2>1. UNCHANGED <<events, t, next_id>>
    BY <1>4 DEF ReplayNext, StartGenerate, ReplayAdd, ReplayCancel, ReplayModify, Replayed,
                RunEnded, vars
  <2>2. QED BY <2>1 DEF FlowType, EventsFit
<1>5. QED BY <1>1, <1>2, <1>3, <1>4

(* The tape of every replay is in the order of time: of a vector that a caller
   brings, in whatever order, and of what the generator makes. *)
THEOREM ReplayInTime == FlowFits => (ReplaySpec => []TapeInTime)
<1> SUFFICES ASSUME FlowFits PROVE ReplaySpec => []TapeInTime
  OBVIOUS
<1>1. ReplayInit => FlowType
  BY EmptySeq DEF ReplayInit, FlowType, EventsFit
<1>2. FlowType /\ [ReplayNext]_vars => FlowType'
  BY FlowStays
<1>3. InTime /\ FlowType => TapeInTime
  BY TapeFollows DEF InTime, FlowType
<1>4. QED BY <1>1, <1>2, <1>3, InTimeInit, InTimeStays, PTL DEF ReplaySpec
=============================================================================
