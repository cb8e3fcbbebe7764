-------------------------- MODULE LiveWorldProofs --------------------------
(***************************************************************************)
(* LiveWorld for any number of threads, any orders, any agents, any dt and *)
(* any sizes of the cache: the protocol of the worker and its owner, the   *)
(* types, and what a reader of the cache may rely on while the worker and  *)
(* the calls of other threads take turns.                                  *)
(*                                                                         *)
(* Then the gateway over it, for any number of levels and aggressors: every*)
(* order is in one place, those that threads have prepared included, and a *)
(* resting quote is one the maker remembers or will still cancel.          *)
(***************************************************************************)
EXTENDS Gateway, AccountProofs

----------------------------------------------------------------------------
(* The worker and its owner *)

WorkerPlaces == {"none", "head", "waiting", "step", "out", "ended"}
Ownings == {"idle", "joining", "destroying", "destroyed", "terminated"}

(* Somebody waits for the worker. *)
Awaited == owner \in {"joining", "destroying"}

(* What running_, stop_, the worker and its owner say of each other.  A worker
   that is told to stop is awaited, and a worker that has left its loop is
   awaited or beyond its horizon: without these two facts a worker that ended
   when it was told to could still be there when its owner is done. *)
Control ==
  /\ worker \in [at : WorkerPlaces, ts : Nat, todo : Seq(Action)]
  /\ {running, stop} \subseteq BOOLEAN /\ owner \in Ownings
  /\ RestMeansEnded
  /\ stop /\ worker.at # "none" => Awaited
  /\ worker.at \in {"out", "ended"} => worker.ts > Horizon \/ Awaited
  /\ worker.at \in {"waiting", "step"} => worker.ts <= Horizon
  /\ CleanUnlessHorizon

(* A worker that is started, and none. *)
LEMMA Workers ==
  NewWorker \in [at : WorkerPlaces, ts : Nat, todo : Seq(Action)]
  /\ NoWorker \in [at : WorkerPlaces, ts : Nat, todo : Seq(Action)]
<1> DEFINE none == <<>>
<1>1. none \in Seq(Action)
  OBVIOUS
<1> HIDE DEF none
<1>2. /\ [at |-> "head", ts |-> 0, todo |-> none] \in [at : WorkerPlaces, ts : Nat, todo : Seq(Action)]
      /\ [at |-> "none", ts |-> 0, todo |-> none] \in [at : WorkerPlaces, ts : Nat, todo : Seq(Action)]
  BY <1>1 DEF WorkerPlaces
<1>3. QED BY <1>2 DEF NewWorker, NoWorker, none

(* Where they are. *)
LEMMA WorkersAt ==
  /\ NewWorker.at = "head" /\ NewWorker.ts = 0
  /\ NoWorker.at = "none" /\ NoWorker.ts = 0
BY DEF NewWorker, NoWorker

LEMMA ControlInit == LiveInit => Control
BY Workers, WorkersAt DEF LiveInit, Control, Ownings, Awaited, RestMeansEnded, CleanUnlessHorizon

(* The loop of the worker. *)
LEMMA WorkerControl == Control /\ Worker => Control'
<1> SUFFICES ASSUME Control, Worker PROVE Control'
  OBVIOUS
<1> USE DEF Control, WorkerPlaces, Ownings, Awaited, RestMeansEnded, CleanUnlessHorizon
<1>1. dt_ns \in Int /\ Horizon \in Nat /\ MaxClock \in Nat
  BY LiveAssumption
<1>2. CASE WorkerHead
  BY <1>1, <1>2 DEF WorkerHead, HeadMove, Alive
<1>3. CASE WorkerFlush
  <2>1. PICK acts \in AgentSteps[worker.ts] : worker' = [worker EXCEPT !.at = "step", !.todo = acts]
    BY <1>3 DEF WorkerFlush, FlushMove
  <2>2. worker.at = "waiting" /\ worker.ts \in 0 .. Horizon
    BY <1>1, <1>3 DEF WorkerFlush, FlushMove
  <2>3. acts \in Seq(Action)
    BY <2>1, <2>2, CallAssumption
  <2>4. UNCHANGED <<running, stop, owner>>
    BY <1>3 DEF WorkerFlush
  <2>5. QED BY <1>1, <2>1, <2>2, <2>3, <2>4
<1>4. CASE WorkerAct
  <2>1. worker.todo # <<>> /\ worker.at = "step" /\ worker' = [worker EXCEPT !.todo = Tail(worker.todo)]
    BY <1>4 DEF WorkerAct, ActMove
  <2>2. Tail(worker.todo) \in Seq(Action)
    BY <2>1
  <2>3. UNCHANGED <<running, stop, owner>>
    BY <1>4 DEF WorkerAct
  <2>4. QED BY <1>1, <2>1, <2>2, <2>3
<1>5. CASE WorkerUnlock
  <2> DEFINE ts == Smaller(worker.ts + Step, MaxClock)
  <2>1. ts \in Nat BY <1>1 DEF Smaller, Step
  <2>2. worker.at = "step" /\ worker' = [worker EXCEPT !.at = "head", !.ts = ts]
    BY <1>5 DEF WorkerUnlock, UnlockMove
  <2>3. UNCHANGED <<running, stop, owner>> /\ Alive
    BY <1>5 DEF WorkerUnlock
  <2> HIDE DEF ts
  <2>4. QED BY <1>1, <2>1, <2>2, <2>3 DEF Alive
<1>6. CASE WorkerEnd
  BY <1>1, <1>6 DEF WorkerEnd, EndMove, Alive
<1>7. QED BY <1>2, <1>3, <1>4, <1>5, <1>6 DEF Worker

(* The owner. *)
LEMMA OwnerControl == Control /\ (Start \/ Stop \/ Destroy \/ Joined) => Control'
<1> SUFFICES ASSUME Control, Start \/ Stop \/ Destroy \/ Joined PROVE Control'
  OBVIOUS
<1> USE DEF Control, Ownings, Awaited, RestMeansEnded, CleanUnlessHorizon
<1>1. CASE Start
  BY <1>1, Workers, WorkersAt DEF Start
<1>2. CASE Stop
  BY <1>2 DEF Stop
<1>3. CASE Destroy
  BY <1>3 DEF Destroy
<1>4. CASE Joined
  BY <1>4, Workers, WorkersAt DEF Joined
<1>5. QED BY <1>1, <1>2, <1>3, <1>4

(* The calls of other threads leave the worker and its owner alone. *)
LEMMA CallControl ==
  Control /\ (\E c \in Callers : Call(c) \/ Submit(c)) => UNCHANGED <<worker, running, stop, owner>>
BY DEF Call, PrepareOrder, CancelOrder, ModifyOrder, Edit, Submit

LEMMA ControlNext == Control /\ [LiveNext]_lvars => Control'
<1> SUFFICES ASSUME Control, [LiveNext]_lvars PROVE Control'
  OBVIOUS
<1>1. CASE UNCHANGED <<worker, running, stop, owner>>
  BY <1>1 DEF Control, Awaited, RestMeansEnded, CleanUnlessHorizon
<1>2. CASE Worker
  BY <1>2, WorkerControl
<1>3. CASE Start \/ Stop \/ Destroy \/ Joined
  BY <1>3, OwnerControl
<1>4. CASE \E c \in Callers : Call(c) \/ Submit(c)
  BY <1>1, <1>4, CallControl
<1>5. CASE Over \/ UNCHANGED lvars
  BY <1>1, <1>5 DEF Over, lvars
<1>6. QED BY <1>2, <1>3, <1>4, <1>5 DEF LiveNext

LEMMA ControlAlways == LiveSpec => []Control
BY ControlInit, ControlNext, PTL DEF LiveSpec

(* While running_ is false no thread steps the engine: start() never adds a
   second worker, however its calls and the end of the first one interleave. *)
THEOREM LiveRests == LiveSpec => []RestMeansEnded
<1>1. Control => RestMeansEnded
  BY DEF Control
<1>2. QED BY <1>1, ControlAlways, PTL

(* A start or a destruction ends the process only if the worker has come to its
   horizon by itself, when running_ is false and stop() does not join. *)
THEOREM LiveClean == LiveSpec => []CleanUnlessHorizon
<1>1. Control => CleanUnlessHorizon
  BY DEF Control
<1>2. QED BY <1>1, ControlAlways, PTL

----------------------------------------------------------------------------
(* The cache *)

(* The recent trades are the last prints of engine e. *)
Recent(trades, e) ==
  /\ trades \in Seq(Trade)
  /\ Len(trades) = Smaller(max_cache_trades, e.next_trade_id - 1)
  /\ Serial(e.next_trade_id - Len(trades), trades)

(* Pushing new prints behind the last ones and dropping the oldest leaves the
   last ones. *)
LEMMA LatestRecent ==
  ASSUME NEW e, e.next_trade_id \in Nat, NEW trades, Recent(trades, e),
         NEW f, NEW new \in Seq(Trade), OnTape(e, f, new)
  PROVE Recent(Latest(trades \o new, max_cache_trades), f)
<1> DEFINE n == e.next_trade_id
           max == max_cache_trades
           len == Len(trades)
           all == trades \o new
           lenall == Len(all)
           old == n - len
           next == f.next_trade_id
           r == Latest(all, max)
<1>1. /\ trades \in Seq(Trade) /\ len \in Nat /\ Len(new) \in Nat
      /\ len = IF max <= n - 1 THEN max ELSE n - 1
      /\ n \in Nat /\ max \in Nat
  BY LenProperties, LiveAssumption DEF Recent, Smaller
<1>2. old \in Nat /\ old + len = n
  BY <1>1
<1>3. Serial(old, trades) /\ Serial(n, new) /\ next = n + Len(new)
  BY DEF Recent, OnTape
<1>4. lenall = len + Len(new) /\ Serial(old, all) /\ all \in Seq(Trade)
  <2> HIDE DEF n, old
  <2>1. Serial(old + len, new) BY <1>2, <1>3
  <2>2. Len(all) = Len(trades) + Len(new) /\ Serial(old, all) BY <1>1, <1>2, <1>3, <2>1, SerialJoins
  <2>3. all \in Seq(Trade) BY <1>1, ConcatProperties
  <2>4. QED BY <2>2, <2>3
<1>5. \A k \in 1 .. lenall : all[k].id = old + k - 1
  BY <1>4 DEF Serial
<1>6. r = IF lenall > max THEN SubSeq(all, lenall - max + 1, lenall) ELSE all
  BY DEF Latest
<1>7. lenall \in Nat /\ old + lenall = next /\ next \in Nat
  <2> DEFINE k == Len(new)
  <2>1. k \in Nat /\ lenall = len + k /\ next = n + k BY <1>1, <1>3, <1>4
  <2>2. n \in Nat /\ len \in Nat /\ old \in Nat /\ old + len = n BY <1>1, <1>2
  <2> HIDE DEF k, n, len, lenall, old, next
  <2>3. QED BY <2>1, <2>2
<1> HIDE DEF n, max, len, all, lenall, old, next, r
<1>8. CASE lenall > max
  <2> DEFINE first == lenall - max + 1
             s == SubSeq(all, first, lenall)
  <2>1. first \in Nat /\ first \in 1 .. lenall + 1 /\ lenall - first + 1 = max
    BY <1>1, <1>7, <1>8
  <2>2. r = s
    BY <1>6, <1>8
  <2>3. /\ s \in Seq(Trade)
        /\ Len(s) = IF first <= lenall THEN lenall - first + 1 ELSE 0
        /\ \A i \in 1 .. lenall - first + 1 : s[i] = all[first + i - 1]
    <3>1. lenall = Len(all) BY DEF lenall
    <3> HIDE DEF first
    <3>2. QED BY <1>4, <2>1, <3>1, SubSeqProperties
  <2> HIDE DEF s
  <2>4. Len(s) = max
    BY <1>1, <1>7, <2>1, <2>3
  <2>5. max = IF max <= next - 1 THEN max ELSE next - 1
    BY <1>1, <1>2, <1>3, <1>4, <1>7, <1>8
  <2>6. ASSUME NEW i \in 1 .. max PROVE s[i].id = (next - max) + i - 1
    <3> DEFINE k == first + i - 1
    <3>1. k \in 1 .. lenall
      BY <1>1, <1>7, <2>1
    <3>2. s[i] = all[k] BY <2>1, <2>3
    <3>3. old + k - 1 = (next - max) + i - 1
      <4>1. max \in Nat /\ old \in Nat /\ i \in Nat BY <1>1, <1>2
      <4>2. QED BY <1>7, <4>1
    <3> HIDE DEF k, first
    <3>4. all[k].id = old + k - 1 BY <1>5, <3>1
    <3>5. QED BY <3>2, <3>3, <3>4
  <2> HIDE DEF first
  <2>7. Len(s) = Smaller(max, next - 1)
    BY <2>4, <2>5 DEF Smaller
  <2>8. Serial(next - Len(s), s)
    BY <2>4, <2>6 DEF Serial
  <2>9. QED BY <2>2, <2>3, <2>7, <2>8 DEF Recent, r, max, all, next
<1>9. CASE ~(lenall > max)
  <2>1. lenall = IF max <= next - 1 THEN max ELSE next - 1
    <3> DEFINE k == Len(new)
    <3>1. k \in Nat /\ lenall = len + k /\ next = n + k BY <1>1, <1>3, <1>4
    <3>2. /\ len \in Nat /\ n \in Nat /\ max \in Nat
          /\ len = IF max <= n - 1 THEN max ELSE n - 1
      BY <1>1
    <3> HIDE DEF k
    <3>3. QED BY <1>9, <3>1, <3>2
  <2>2. next - lenall = old
    BY <1>2, <1>7
  <2>3. r = all BY <1>6, <1>9
  <2>4. Len(all) = Smaller(max, next - 1) /\ Serial(next - Len(all), all)
    BY <1>4, <2>1, <2>2 DEF Smaller, lenall
  <2>5. QED BY <1>4, <2>3, <2>4 DEF Recent, r, max, all, next
<1>10. QED BY <1>8, <1>9

(* A cache that shows the last prints of engine e. *)
Shows(c, e) == c.ts \in Int /\ Recent(c.trades, e)

(* A call turns engine e into f and prints trades: a cache that is brought up to
   date shows them, and one that is left alone needs no more if there are none. *)
LEMMA UpdatedShows ==
  ASSUME NEW c, NEW e, GoodEngine(e), Shows(c, e), NEW f, NEW trades \in Seq(Trade),
         OnTape(e, f, trades), NEW ts \in Int
  PROVE /\ Shows(Updated(c, f, ts, trades), f) /\ Updated(c, f, ts, trades).shown = ShownBy(f)
        /\ trades = <<>> => Shows(c, f)
<1>1. e.next_trade_id \in Nat
  BY EngineFields
<1>2. Recent(Latest(c.trades \o trades, max_cache_trades), f)
  BY <1>1, LatestRecent DEF Shows
<1>3. trades = <<>> => f.next_trade_id = e.next_trade_id
  BY <1>1 DEF OnTape
<1>4. QED BY <1>2, <1>3 DEF Updated, Shows, Recent

(* A change of the book prints nothing. *)
LEMMA RebookTape ==
  ASSUME NEW e, GoodEngine(e), NEW b
  PROVE OnTape(e, [e EXCEPT !.book = b], <<>>) /\ <<>> \in Seq(Trade)
<1> DEFINE f == [e EXCEPT !.book = b]
<1>1. f.next_trade_id = e.next_trade_id /\ f.last = e.last /\ e.next_trade_id \in Nat
  BY DEF GoodEngine, IsEngine
<1> HIDE DEF f
<1>2. OnTape(e, f, <<>>)
  BY <1>1, NoneSerial DEF OnTape
<1>3. QED BY <1>2 DEF f

----------------------------------------------------------------------------
(* The engine and the cache under the calls of all threads *)

(* A submission on its way to the mutex. *)
Prepared == [order : Order, ts : Nat]

(* Ids are given out in order, so that there are no more of them than calls. *)
Data ==
  /\ GoodEngine(eng) /\ Shows(cache, eng)
  /\ caller \in [Callers -> Prepared \cup {None}]
  /\ calls \in 0 .. MaxCalls /\ manual_seq \in 1 .. calls + 1
  /\ cur_ts \in Nat

(* A call of process(), whichever thread makes it. *)
LEMMA ProcessShows ==
  ASSUME NEW e, GoodEngine(e), NEW c, Shows(c, e), NEW o \in Order, NEW ts \in Nat
  PROVE LET r == Process(e, o, ts)
        IN  /\ GoodEngine(r.eng) /\ Shows(Updated(c, r.eng, ts, r.trades), r.eng)
            /\ r.trades = <<>> => Shows(c, r.eng)
<1> DEFINE r == Process(e, o, ts)
           f == r.eng
           new == r.trades
<1>1. GoodEngine(f) /\ new \in Seq(Trade)
  BY ProcessGood DEF GoodResult, GoodOutcome
<1>2. OnTape(e, f, new)
  BY ProcessTape
<1> HIDE DEF r, f, new
<1>3. Shows(Updated(c, f, ts, new), f) /\ (new = <<>> => Shows(c, f))
  BY <1>1, <1>2, UpdatedShows
<1>4. QED BY <1>1, <1>3 DEF r, f, new

(* A call of flush(). *)
LEMMA FlushShows ==
  ASSUME NEW e, GoodEngine(e), NEW c, Shows(c, e), NEW ts \in Nat
  PROVE LET r == Flush(e, ts)
        IN  /\ GoodEngine(r.eng) /\ Shows(Updated(c, r.eng, ts, r.trades), r.eng)
            /\ r.trades = <<>> => Shows(c, r.eng)
<1> DEFINE r == Flush(e, ts)
           f == r.eng
           new == r.trades
<1>1. GoodEngine(f) /\ new \in Seq(Trade)
  BY FlushGood DEF GoodOutcome
<1>2. OnTape(e, f, new)
  BY FlushTape
<1> HIDE DEF r, f, new
<1>3. Shows(Updated(c, f, ts, new), f) /\ (new = <<>> => Shows(c, f))
  BY <1>1, <1>2, UpdatedShows
<1>4. QED BY <1>1, <1>3 DEF r, f, new

(* A change of the book that leaves it good. *)
LEMMA RebookShows ==
  ASSUME NEW e, GoodEngine(e), NEW c, Shows(c, e), NEW b, GoodBook(b), NEW ts \in Nat
  PROVE LET f == [e EXCEPT !.book = b]
        IN  GoodEngine(f) /\ Shows(Updated(c, f, ts, <<>>), f)
<1> DEFINE f == [e EXCEPT !.book = b]
           none == <<>>
<1>1. GoodEngine(f)
  <2>1. e.queue \in Seq(Order) /\ e.next_trade_id \in Nat BY EngineFields
  <2>2. QED BY <2>1, SetBook
<1>2. OnTape(e, f, none) /\ none \in Seq(Trade)
  BY RebookTape
<1> HIDE DEF f, none
<1>3. Shows(Updated(c, f, ts, none), f)
  BY <1>2, UpdatedShows
<1>4. QED BY <1>1, <1>3 DEF f, none

(* The engine and the cache, wherever in the code a thread has got. *)
Served == GoodEngine(eng) /\ Shows(cache, eng)

LEMMA SubmitServed ==
  ASSUME Served, NEW c \in Callers, caller \in [Callers -> Prepared \cup {None}], Submit(c)
  PROVE Served'
<1> DEFINE o == caller[c].order
           ts == caller[c].ts
           r == Process(eng, o, ts)
<1>1. o \in Order /\ ts \in Nat
  BY DEF Submit, SubmitMove, Prepared
<1>2. eng' = r.eng /\ cache' = Updated(cache, r.eng, ts, r.trades)
  BY DEF Submit, Processed
<1> HIDE DEF o, ts
<1>3. GoodEngine(r.eng) /\ Shows(Updated(cache, r.eng, ts, r.trades), r.eng)
  BY <1>1, ProcessShows DEF Served
<1> HIDE DEF r
<1>4. QED BY <1>2, <1>3 DEF Served

LEMMA RebookServed ==
  ASSUME Served, NEW b, GoodBook(b), NEW ts \in Nat, Rebooked(eng, b, ts)
  PROVE Served'
<1> DEFINE f == [eng EXCEPT !.book = b]
<1>1. eng' = f /\ cache' = Updated(cache, f, ts, <<>>)
  BY DEF Rebooked
<1>2. GoodEngine(f) /\ Shows(Updated(cache, f, ts, <<>>), f)
  BY RebookShows DEF Served
<1> HIDE DEF f
<1>3. QED BY <1>1, <1>2 DEF Served

(* cancel_order and modify_qty, and the same actions of an agent. *)
LEMMA EditServed ==
  ASSUME Served, NEW id, NEW ts \in Nat, NEW new_qty \in Int,
         \/ Rebooked(eng, Cancel(eng.book, id).book, ts)
         \/ Rebooked(eng, ModifyQty(eng.book, id, new_qty).book, ts)
  PROVE Served'
<1> DEFINE a == Cancel(eng.book, id).book
           b == ModifyQty(eng.book, id, new_qty).book
<1>1. GoodBook(eng.book)
  BY EngineFields DEF Served
<1>2. GoodBook(a) /\ GoodBook(b)
  BY <1>1, CancelGood, ModifyGood
<1>3. Rebooked(eng, a, ts) \/ Rebooked(eng, b, ts)
  OBVIOUS
<1> HIDE DEF a, b
<1>4. QED BY <1>2, <1>3, RebookServed

(* A call of a thread: at most one of its halves. *)
LEMMA CallData ==
  ASSUME Control, Data, NEW c \in Callers, Call(c) \/ Submit(c)
  PROVE Data'
<1> USE DEF Data
<1>1. Served /\ MaxCalls \in Nat /\ ManualOwner \in Owners /\ Orders \subseteq Order
  BY LiveAssumption DEF Served
<1>2. ASSUME NEW o \in Orders, Counted, PrepareOrder(c, o) PROVE Data'
  <2> DEFINE n == Numbered(Owned(o))
             p == [order |-> n, ts |-> cur_ts]
  <2>1. calls < MaxCalls /\ calls' = calls + 1
    BY <1>2 DEF Counted
  <2>2. NextOrderId(Owned(o), manual_seq) \in Ids
    <3>1. manual_seq \in 1 .. MaxCalls BY <1>1, <2>1
    <3>2. QED BY <3>1, CallAssumption
  <2>3. n \in Order
    <3>1. Owned(o) \in Order BY <1>1 DEF Owned, Order
    <3> HIDE DEF Owned, NextOrderId
    <3>2. QED BY <2>2, <3>1 DEF Numbered, Order
  <2>4. p \in Prepared
    BY <2>3 DEF Prepared
  <2>5. caller' = [caller EXCEPT ![c] = p] /\ manual_seq' \in {manual_seq, manual_seq + 1}
        /\ UNCHANGED <<eng, cache, cur_ts>>
    BY <1>2 DEF PrepareOrder
  <2> HIDE DEF n, p
  <2>6. caller' \in [Callers -> Prepared \cup {None}]
    BY <2>4, <2>5
  <2>7. calls' \in 0 .. MaxCalls /\ manual_seq' \in 1 .. calls' + 1
    BY <1>1, <2>1, <2>5
  <2>8. QED BY <2>5, <2>6, <2>7
<1>3. ASSUME Counted, NEW id, NEW new_qty \in Int,
             Edit(c, Cancel(eng.book, id).book) \/ Edit(c, ModifyQty(eng.book, id, new_qty).book)
      PROVE Data'
  <2> DEFINE a == Cancel(eng.book, id).book
             b == ModifyQty(eng.book, id, new_qty).book
  <2>1. Rebooked(eng, a, cur_ts) \/ Rebooked(eng, b, cur_ts)
    BY <1>3 DEF Edit
  <2>2. UNCHANGED <<cur_ts, manual_seq, caller>>
    BY <1>3 DEF Edit
  <2>3. Served'
    BY <1>1, <2>1, EditServed
  <2>4. calls' \in 0 .. MaxCalls /\ manual_seq' \in 1 .. calls' + 1
    BY <1>1, <1>3, <2>2 DEF Counted
  <2>5. QED BY <2>2, <2>3, <2>4 DEF Served
<1>4. ASSUME Submit(c) PROVE Data'
  <2>1. Served' BY <1>1, <1>4, SubmitServed
  <2>2. /\ caller' = [caller EXCEPT ![c] = None]
        /\ UNCHANGED <<cur_ts, manual_seq, calls>>
    BY <1>4 DEF Submit, SubmitMove
  <2>3. QED BY <2>1, <2>2 DEF Served
<1>5. CASE Call(c)
  <2>1. Counted /\ 0 \in Int
    BY <1>5 DEF Call
  <2>2. CASE \E o \in Orders : PrepareOrder(c, o)
    BY <1>2, <2>1, <2>2
  <2>3. CASE \E id \in CancelIds : CancelOrder(c, id)
    BY <1>3, <2>1, <2>3 DEF CancelOrder
  <2>4. CASE \E r \in Reductions : ModifyOrder(c, r[1], r[2])
    <3>1. PICK r \in Reductions : ModifyOrder(c, r[1], r[2]) BY <2>4
    <3>2. r[2] \in Int BY CallAssumption
    <3>3. QED BY <1>3, <2>1, <3>1, <3>2 DEF ModifyOrder
  <2>5. QED BY <1>5, <2>2, <2>3, <2>4 DEF Call
<1>6. QED BY <1>4, <1>5

(* A change of the engine that is put into the cache if it prints. *)
LEMMA CachedServed ==
  ASSUME Served, Control, NEW r, GoodEngine(r.eng), CachedIfTraded(r.eng, r.trades),
         Shows(Updated(cache, r.eng, worker.ts, r.trades), r.eng),
         r.trades = <<>> => Shows(cache, r.eng)
  PROVE Served'
<1>1. /\ eng' = r.eng
      /\ cache' = IF r.trades = <<>> THEN cache ELSE Updated(cache, r.eng, worker.ts, r.trades)
  BY DEF CachedIfTraded
<1>2. QED BY <1>1 DEF Served

(* What an agent may do, by its kind. *)
LEMMA ActionKinds ==
  ASSUME NEW act \in Action
  PROVE /\ act.type \in {"Submit", "Cancel", "ModifyQty"}
        /\ act.type = "Submit" => act.order \in Order
        /\ act.type = "ModifyQty" => act.new_qty \in Int
BY DEF Action

(* The worker. *)
LEMMA WorkerData ==
  ASSUME Control, Data, Worker
  PROVE Data'
<1> DEFINE ts == worker.ts
<1>1. Served /\ ts \in Nat
  BY DEF Served, Data, Control
<1>2. UNCHANGED <<manual_seq, caller, calls>>
  BY DEF Worker, WorkerHead, WorkerFlush, WorkerAct, WorkerUnlock, WorkerEnd
<1>3. cur_ts' \in Nat
  BY <1>1 DEF Worker, WorkerHead, WorkerFlush, WorkerAct, WorkerUnlock, WorkerEnd, Data
<1>4. CASE WorkerHead \/ WorkerEnd
  BY <1>2, <1>3, <1>4 DEF WorkerHead, WorkerEnd, Data
<1>5. CASE WorkerFlush
  <2> DEFINE r == Flush(eng, ts)
  <2>1. CachedIfTraded(r.eng, r.trades)
    BY <1>5 DEF WorkerFlush, Flushed
  <2>2. /\ GoodEngine(r.eng) /\ Shows(Updated(cache, r.eng, ts, r.trades), r.eng)
        /\ r.trades = <<>> => Shows(cache, r.eng)
    <3> HIDE DEF ts
    <3>1. QED BY <1>1, FlushShows DEF Served
  <2> HIDE DEF r
  <2>3. Served' BY <1>1, <2>1, <2>2, CachedServed
  <2>4. QED BY <1>2, <1>3, <2>3 DEF Served, Data
<1>6. CASE WorkerAct
  <2> DEFINE act == Head(worker.todo)
             r == Process(eng, act.order, ts)
  <2>1. act \in Action
    <3>1. worker.todo \in Seq(Action) /\ worker.todo # <<>>
      BY <1>6 DEF Control, WorkerAct, ActMove
    <3>2. QED BY <3>1, HeadTailProperties
  <2>2. \/ act.type = "Submit" /\ CachedIfTraded(r.eng, r.trades)
        \/ Rebooked(eng, Cancel(eng.book, act.id).book, ts)
        \/ act.type = "ModifyQty" /\ Rebooked(eng, ModifyQty(eng.book, act.id, act.new_qty).book, ts)
    <3>1. act.type \in {"Submit", "Cancel", "ModifyQty"}
      BY <2>1, ActionKinds
    <3>2. CASE act.type = "Submit" BY <1>6, <3>2 DEF WorkerAct, AgentSubmits
    <3>3. CASE act.type = "Cancel" BY <1>6, <3>3 DEF WorkerAct
    <3>4. CASE act.type = "ModifyQty" BY <1>6, <3>4 DEF WorkerAct
    <3>5. QED BY <3>1, <3>2, <3>3, <3>4
  <2> HIDE DEF act
  <2>3. ASSUME act.type = "Submit", CachedIfTraded(r.eng, r.trades) PROVE Served'
    <3>1. act.order \in Order BY <2>1, <2>3, ActionKinds
    <3>2. /\ GoodEngine(r.eng) /\ Shows(Updated(cache, r.eng, ts, r.trades), r.eng)
          /\ r.trades = <<>> => Shows(cache, r.eng)
      <4> HIDE DEF ts
      <4>1. QED BY <1>1, <3>1, ProcessShows DEF Served
    <3> HIDE DEF r
    <3>3. QED BY <1>1, <2>3, <3>2, CachedServed
  <2>4. ASSUME Rebooked(eng, Cancel(eng.book, act.id).book, ts) PROVE Served'
    <3> HIDE DEF ts
    <3>1. 0 \in Int OBVIOUS
    <3>2. QED BY <1>1, <2>4, <3>1, EditServed
  <2>5. ASSUME act.type = "ModifyQty",
               Rebooked(eng, ModifyQty(eng.book, act.id, act.new_qty).book, ts)
        PROVE Served'
    <3>1. act.new_qty \in Int BY <2>1, <2>5, ActionKinds
    <3> HIDE DEF ts
    <3>2. QED BY <1>1, <2>5, <3>1, EditServed
  <2>6. Served' BY <2>2, <2>3, <2>4, <2>5
  <2>7. QED BY <1>2, <1>3, <2>6 DEF Served, Data
<1>7. CASE WorkerUnlock
  <2> DEFINE none == <<>>
  <2>1. eng' = eng /\ cache' = Updated(cache, eng, ts, none)
    BY <1>7 DEF WorkerUnlock
  <2>2. none \in Seq(Trade) /\ OnTape(eng, eng, none)
    <3>1. eng.next_trade_id \in Nat BY <1>1, EngineFields DEF Served
    <3>2. QED BY <3>1, NoneSerial DEF OnTape
  <2> HIDE DEF none
  <2>3. Shows(Updated(cache, eng, ts, none), eng)
    BY <1>1, <2>2, UpdatedShows DEF Served
  <2>4. Served' BY <1>1, <2>1, <2>3 DEF Served
  <2>5. QED BY <1>2, <1>3, <2>4 DEF Served, Data
<1>8. QED BY <1>4, <1>5, <1>6, <1>7 DEF Worker

(* The initial state. *)
LEMMA DataInit == LiveInit => Data
<1> SUFFICES ASSUME LiveInit PROVE Data
  OBVIOUS
<1> DEFINE none == <<>>
<1>1. PICK cfg \in Configs : eng = NewEngine(cfg)
  BY DEF LiveInit
<1>2. GoodEngine(eng) /\ eng.next_trade_id = 1
  BY <1>1, NewEngineGood, LiveAssumption DEF NewEngine
<1>3. cache.ts = 0 /\ cache.trades = none
  BY DEF LiveInit, EmptyCache
<1>4. none \in Seq(Trade) /\ Len(none) = 0 /\ Serial(1, none)
  BY NoneSerial
<1> HIDE DEF none
<1>5. Shows(cache, eng)
  BY <1>2, <1>3, <1>4, LiveAssumption DEF Shows, Recent, Smaller
<1>6. QED BY <1>2, <1>5, LiveAssumption DEF LiveInit, Data

LEMMA DataNext == Control /\ Data /\ [LiveNext]_lvars => Data'
<1> SUFFICES ASSUME Control, Data, [LiveNext]_lvars PROVE Data'
  OBVIOUS
<1>1. CASE \E c \in Callers : Call(c) \/ Submit(c)
  BY <1>1, CallData
<1>2. CASE Worker
  BY <1>2, WorkerData
<1>3. CASE UNCHANGED <<eng, cache, caller, calls, manual_seq, cur_ts>>
  BY <1>3 DEF Data
<1>4. CASE Start \/ Stop \/ Destroy \/ Joined \/ Over \/ UNCHANGED lvars
  BY <1>3, <1>4 DEF Start, Stop, Destroy, Joined, Over, lvars
<1>5. QED BY <1>1, <1>2, <1>4 DEF LiveNext

LEMMA DataAlways == LiveSpec => []Data
BY DataInit, DataNext, ControlAlways, PTL DEF LiveSpec

(* The types of the object, its engine and its cache, whatever other threads
   call at whatever moment of the worker's step. *)
THEOREM LiveTypes == LiveSpec => []LiveTypeOK
<1>1. Control /\ Data => LiveTypeOK
  BY DEF Control, Data, LiveTypeOK, GoodEngine, Shows, Recent, Prepared, WorkerPlaces, Ownings
<1>2. QED BY <1>1, ControlAlways, DataAlways, PTL

(* The prints that a snapshot returns. *)
LEMMA RecentShown ==
  ASSUME Recent(cache.trades, eng), eng.next_trade_id \in Nat
  PROVE TapeCached
<1> DEFINE t == cache.trades
           n == eng.next_trade_id
           len == Len(t)
           rev == Reverse(t)
           max == max_cache_trades
           most == Smaller(max, len)
           recent == RecentTrades(max)
<1>1. /\ t \in Seq(Trade) /\ len \in Nat /\ max \in Nat /\ n \in Nat
      /\ len = Smaller(max, n - 1)
      /\ \A k \in 1 .. len : t[k].id = (n - len) + k - 1
  BY LenProperties, LiveAssumption DEF Recent, Serial
<1>2. most = len
  BY <1>1 DEF Smaller
<1>3. recent = SubSeq(rev, 1, most)
  BY DEF RecentTrades
<1>4. rev = [i \in 1 .. len |-> t[(len - i) + 1]]
  BY DEF Reverse
<1>5. ASSUME NEW i \in 1 .. len
      PROVE rev[i] \in Trade /\ rev[i].id = n - i
  <2> DEFINE k == (len - i) + 1
  <2>1. k \in 1 .. len /\ (n - len) + k - 1 = n - i
    <3>1. len \in Nat /\ n \in Int /\ i \in 1 .. len BY <1>1
    <3> HIDE DEF len, n
    <3>2. QED BY <3>1
  <2>2. rev[i] = t[k] BY <1>4
  <2> HIDE DEF k, t, len, rev, n
  <2>3. t[k].id = (n - len) + k - 1 BY <1>1, <2>1
  <2>4. t[k] \in Trade BY <1>1, <2>1, ElementOfSeq DEF len
  <2>5. QED BY <2>1, <2>2, <2>3, <2>4
<1> HIDE DEF rev, recent
<1>6. /\ Len(recent) = len
      /\ \A i \in 1 .. len : recent[i] = rev[i]
      /\ recent \in Seq(Trade)
  <2> DEFINE one == 1
             s == SubSeq(rev, one, len)
  <2>1. one \in Int /\ len \in Int /\ \A i \in one .. len : rev[i] \in Trade
    BY <1>1, <1>5
  <2>2. recent = s
    BY <1>2, <1>3
  <2> HIDE DEF one, len
  <2>3. /\ s \in Seq(Trade)
        /\ Len(s) = IF one <= len THEN len - one + 1 ELSE 0
        /\ \A i \in 1 .. len - one + 1 : s[i] = rev[one + i - 1]
    BY <2>1, SubSeqProperties
  <2> HIDE DEF s
  <2>4. len \in Nat /\ one = 1
    BY <1>1 DEF one
  <2>5. QED BY <2>2, <2>3, <2>4
<1>7. DOMAIN recent = 1 .. len
  BY <1>6, LenProperties
<1>8. Len(recent) = Smaller(max, n - 1)
  BY <1>1, <1>6
<1> HIDE DEF len, n
<1>9. \A i \in DOMAIN recent : recent[i].id = n - i
  BY <1>5, <1>6, <1>7
<1>10. QED BY <1>8, <1>9 DEF TapeCached, recent, n

(* A reader of the cache sees the last prints of the engine, without a gap and
   newest first, also while a step of the worker is under way and whichever
   thread's call printed them. *)
THEOREM LiveTape == LiveSpec => []TapeCached
<1>1. Data => TapeCached
  BY RecentShown, EngineFields DEF Data, Shows
<1>2. QED BY <1>1, DataAlways, PTL

----------------------------------------------------------------------------
(* What a reader sees of the engine *)

(* An empty side has no depth. *)
LEMMA NoDepth ==
  ASSUME NEW side \in Sides, NEW levels \in Nat
  PROVE Depth(EmptyBook, side, levels) = <<>>
<1> DEFINE none == EmptyBook.levels[side]
           s == Ranked(side, none)
           depth == Depth(EmptyBook, side, levels)
<1>1. DOMAIN none = {}
  BY DEF EmptyBook, EmptyMap
<1>2. Cardinality({}) = 0
  BY FS_EmptySet
<1>3. s \in [1 .. 0 -> {}]
  <2>1. \E f \in [1 .. 0 -> {}] : \A i, j \in DOMAIN f : i < j => Better(side, f[i], f[j])
    <3> DEFINE f == [i \in 1 .. 0 |-> i]
    <3>1. f \in [1 .. 0 -> {}] /\ DOMAIN f = {} OBVIOUS
    <3> HIDE DEF f
    <3>2. QED BY <3>1
  <2> HIDE DEF none
  <2>2. s = CHOOSE f \in [1 .. 0 -> {}] : \A i, j \in DOMAIN f : i < j => Better(side, f[i], f[j])
    BY <1>1, <1>2 DEF Ranked
  <2> HIDE DEF s
  <2>3. QED BY <2>1, <2>2
<1>4. Len(s) = 0
  <2> HIDE DEF s
  <2>1. QED BY <1>3
<1>5. depth = [i \in 1 .. Smaller(levels, Len(s)) |-> [price |-> s[i], qty |-> none[s[i]].total_qty]]
  BY DEF Depth
<1>6. Smaller(levels, Len(s)) = 0
  BY <1>4 DEF Smaller
<1> HIDE DEF s, none, depth
<1>7. depth = <<>>
  BY <1>5, <1>6
<1>8. QED BY <1>7 DEF depth

(* An engine without a book and without a print is what the empty cache shows. *)
LEMMA NothingShown ==
  ASSUME NEW cfg
  PROVE EmptyCache.shown = ShownBy(NewEngine(cfg))
<1>1. \A side \in Sides : DOMAIN EmptyBook.levels[side] = {}
  BY DEF EmptyBook, EmptyMap
<1>2. Best(EmptyBook, "Buy") = None /\ Best(EmptyBook, "Sell") = None
  BY <1>1 DEF Best, Sides
<1>3. \A side \in Sides : Depth(EmptyBook, side, depth_cache_levels) = <<>>
  BY NoDepth, LiveAssumption
<1>4. NewEngine(cfg).book = EmptyBook /\ NewEngine(cfg).last = None
  BY DEF NewEngine
<1>5. EmptyCache.shown = [bid |-> None, ask |-> None, last_trade |-> None,
                          depth |-> [side \in Sides |-> <<>>]]
  BY DEF EmptyCache
<1>6. QED BY <1>2, <1>3, <1>4, <1>5 DEF ShownBy

(* The steps that let the engine go bring the cache up to date; the others do
   not touch the engine, or leave it locked. *)
LEMMA CurrentNext ==
  ASSUME Control, CacheCurrent, [LiveNext]_lvars
  PROVE CacheCurrent'
<1> USE DEF CacheCurrent
<1>1. CASE cache'.shown = ShownBy(eng')
  BY <1>1
<1>2. CASE worker'.at = "step"
  BY <1>2 DEF Unlocked
<1>3. CASE UNCHANGED <<eng, cache>> /\ (Unlocked' => Unlocked)
  BY <1>3
<1>4. ASSUME NEW c \in Callers, Call(c) \/ Submit(c) PROVE CacheCurrent'
  <2>1. ASSUME NEW b, NEW ts, Rebooked(eng, b, ts) PROVE cache'.shown = ShownBy(eng')
    <3> DEFINE f == [eng EXCEPT !.book = b]
    <3>1. eng' = f /\ cache' = Updated(cache, f, ts, <<>>) BY <2>1 DEF Rebooked
    <3> HIDE DEF f
    <3>2. QED BY <3>1 DEF Updated
  <2>2. ASSUME NEW r, NEW ts, Processed(r, ts) PROVE cache'.shown = ShownBy(eng')
    BY <2>2 DEF Processed, Updated
  <2>3. CASE Submit(c)
    BY <1>1, <2>2, <2>3 DEF Submit
  <2>4. CASE Call(c)
    <3>1. CASE \E o \in Orders : PrepareOrder(c, o)
      BY <1>3, <3>1 DEF PrepareOrder, Unlocked
    <3>2. CASE \E id \in CancelIds : CancelOrder(c, id)
      BY <1>1, <2>1, <3>2 DEF CancelOrder, Edit
    <3>3. CASE \E r \in Reductions : ModifyOrder(c, r[1], r[2])
      BY <1>1, <2>1, <3>3 DEF ModifyOrder, Edit
    <3>4. QED BY <2>4, <3>1, <3>2, <3>3 DEF Call
  <2>5. QED BY <1>4, <2>3, <2>4
<1>5. ASSUME Worker PROVE CacheCurrent'
  <2>1. worker \in [at : WorkerPlaces, ts : Nat, todo : Seq(Action)]
    BY DEF Control
  <2>2. CASE WorkerHead
    BY <1>3, <2>1, <2>2 DEF WorkerHead, HeadMove, Unlocked
  <2>3. CASE WorkerFlush
    BY <1>2, <2>1, <2>3 DEF WorkerFlush, FlushMove
  <2>4. CASE WorkerAct
    BY <1>2, <2>1, <2>4 DEF WorkerAct, ActMove
  <2>5. CASE WorkerUnlock
    BY <1>1, <2>5 DEF WorkerUnlock, Updated
  <2>6. CASE WorkerEnd
    BY <1>3, <2>1, <2>6 DEF WorkerEnd, EndMove, Unlocked
  <2>7. QED BY <1>5, <2>2, <2>3, <2>4, <2>5, <2>6 DEF Worker
<1>6. ASSUME Start \/ Stop \/ Destroy \/ Joined \/ Over \/ UNCHANGED lvars PROVE CacheCurrent'
  BY <1>3, <1>6, WorkersAt DEF Start, Stop, Destroy, Joined, Over, Unlocked, lvars
<1>7. QED BY <1>4, <1>5, <1>6 DEF LiveNext

(* Whenever the engine is free, what a reader sees is the engine as it is. *)
THEOREM LiveCurrent == LiveSpec => []CacheCurrent
<1>1. LiveInit => CacheCurrent
  <2> SUFFICES ASSUME LiveInit PROVE CacheCurrent
    OBVIOUS
  <2>1. PICK cfg \in Configs : eng = NewEngine(cfg)
    BY DEF LiveInit
  <2>2. cache = EmptyCache
    BY DEF LiveInit
  <2>3. QED BY <2>1, <2>2, NothingShown DEF CacheCurrent
<1>2. Control /\ CacheCurrent /\ [LiveNext]_lvars => CacheCurrent'
  BY CurrentNext
<1>3. QED BY <1>1, <1>2, ControlAlways, PTL DEF LiveSpec

----------------------------------------------------------------------------
(* The first run of the worker *)

(* The points of the mid series. *)
Points == [ts : Int, mid : Int \cup {None}]

Series ==
  /\ starts \in Nat
  /\ cache.tops \in Seq(Points) /\ Len(cache.tops) <= max_cache_tops

(* The clock of the object stands at 0 before the first run; in it the clock is
   the worker's time during a step and never ahead of the worker, and no time
   that a thread has read, or that the mid series ends with, is ahead of the
   clock.  In a second run, which starts at 0 again, none of this holds. *)
FirstRun ==
  starts <= 1 =>
    /\ starts = 0 => worker.at = "none" /\ cur_ts = 0
    /\ worker.ts <= MaxClock
    /\ worker.at # "none" => cur_ts <= worker.ts
    /\ worker.at \in {"waiting", "step"} => cur_ts = worker.ts
    /\ \A c \in Callers : caller[c] # None => caller[c].ts <= cur_ts
    /\ cache.tops # <<>> => Last(cache.tops).ts <= cur_ts

(* Dropping the oldest points keeps the newest. *)
LEMMA LatestEnds ==
  ASSUME NEW S, NEW s \in Seq(S), s # <<>>, NEW max \in Nat
  PROVE LET r == Latest(s, max)
        IN  /\ r \in Seq(S) /\ Len(r) <= max
            /\ IF r = <<>> THEN max = 0 ELSE Last(r) = Last(s)
<1> DEFINE r == Latest(s, max)
           len == Len(s)
           first == len - max + 1
<1>1. len \in Nat /\ len >= 1 /\ Last(s) = s[len]
  BY LenProperties DEF Last
<1>2. r = IF len > max THEN SubSeq(s, first, len) ELSE s
  BY DEF Latest
<1>3. CASE len > max
  <2> DEFINE t == SubSeq(s, first, len)
  <2>1. first \in 1 .. len + 1 /\ len - first + 1 = max /\ first \in Nat
    BY <1>1, <1>3
  <2>2. /\ t \in Seq(S)
        /\ Len(t) = IF first <= len THEN len - first + 1 ELSE 0
        /\ \A i \in 1 .. len - first + 1 : t[i] = s[first + i - 1]
    <3> HIDE DEF first
    <3>1. \A i \in first .. len : s[i] \in S
      BY <2>1
    <3>2. QED BY <1>1, <2>1, <3>1, SubSeqProperties
  <2> HIDE DEF t, len
  <2>3. Len(t) = max
    BY <1>1, <1>3, <2>1, <2>2
  <2>4. ASSUME t # <<>> PROVE t[max] = s[len]
    <3>1. max >= 1
      <4>1. CASE max = 0
        <5>1. t = <<>> BY <2>2, <2>3, <4>1, EmptySeq
        <5>2. QED BY <2>4, <5>1
      <4>2. QED BY <4>1
    <3>2. max \in 1 .. len - first + 1 /\ first + max - 1 = len
      BY <1>1, <2>1, <3>1
    <3> HIDE DEF first
    <3>3. QED BY <2>2, <3>2
  <2>5. r = t BY <1>2, <1>3 DEF t
  <2> HIDE DEF r
  <2>6. Len(r) <= max /\ r \in Seq(S)
    BY <2>2, <2>3, <2>5
  <2>7. r # <<>> => Last(r) = Last(s)
    BY <1>1, <2>3, <2>4, <2>5 DEF Last
  <2>8. r = <<>> => max = 0
    BY <2>3, <2>5
  <2>9. QED BY <2>6, <2>7, <2>8 DEF r
<1>4. CASE ~(len > max)
  BY <1>1, <1>2, <1>4
<1>5. QED BY <1>3, <1>4

(* The cache gets a point with this time at the end of its mid series, or is
   left alone. *)
Pointed(ts) ==
  \/ UNCHANGED cache
  \/ /\ cache'.tops \in Seq(Points) /\ Len(cache'.tops) <= max_cache_tops
     /\ IF cache'.tops = <<>> THEN max_cache_tops = 0 ELSE Last(cache'.tops).ts = ts

LEMMA PointAdded ==
  ASSUME Series, NEW f, GoodEngine(f), NEW ts \in Int, NEW trades,
         cache' = Updated(cache, f, ts, trades)
  PROVE Pointed(ts)
<1> DEFINE bid == Best(f.book, "Buy")
           ask == Best(f.book, "Sell")
           mid == MidPrice(bid, ask)
           point == [ts |-> ts, mid |-> mid]
           s == Append(cache.tops, point)
<1>1. bid \in Int \cup {None} /\ ask \in Int \cup {None}
  <2>1. IsBook(f.book) BY EngineFields, GoodIsBook
  <2>2. QED BY <2>1, BestType, MarketAssumption DEF Sides
<1>2. mid \in Int \cup {None}
  <2> HIDE DEF bid, ask
  <2>1. CASE bid = None \/ ask = None BY <2>1 DEF MidPrice
  <2>2. CASE bid # None /\ ask # None
    <3>1. bid \in Int /\ ask \in Int BY <1>1, <2>2
    <3>2. mid = TruncDiv(bid + ask, 2) BY <2>2 DEF MidPrice
    <3> HIDE DEF mid
    <3>3. QED BY <3>1, <3>2 DEF TruncDiv
  <2>3. QED BY <2>1, <2>2
<1>3. cache'.tops = Latest(s, max_cache_tops)
  BY DEF Updated
<1> HIDE DEF mid
<1>4. point \in Points /\ point.ts = ts
  BY <1>2 DEF Points
<1> HIDE DEF point
<1>5. s \in Seq(Points) /\ s # <<>> /\ Last(s) = point
  <2>1. cache.tops \in Seq(Points) BY DEF Series
  <2>2. /\ s \in Seq(Points) /\ Len(s) = Len(cache.tops) + 1
        /\ s[Len(cache.tops) + 1] = point
    BY <1>4, <2>1, AppendProperties
  <2>3. Len(cache.tops) \in Nat BY <2>1, LenProperties
  <2> HIDE DEF s
  <2>4. s # <<>> BY <2>2, <2>3, EmptySeq
  <2>5. QED BY <2>2, <2>4 DEF Last
<1> HIDE DEF s
<1>6. max_cache_tops \in Nat BY LiveAssumption
<1> DEFINE r == Latest(s, max_cache_tops)
<1>7. /\ r \in Seq(Points) /\ Len(r) <= max_cache_tops
      /\ IF r = <<>> THEN max_cache_tops = 0 ELSE Last(r) = Last(s)
  BY <1>5, <1>6, LatestEnds
<1> HIDE DEF r
<1>8. cache'.tops = r BY <1>3 DEF r
<1>9. QED BY <1>4, <1>5, <1>7, <1>8 DEF Pointed

(* A halt and an auction are waited for: a call with this time that turns the
   engine from e into f ends neither before its end. *)
Waits(e, f, ts) ==
  /\ e.phase = "Auction" /\ f.phase # "Auction" => ts >= e.auction_end
  /\ e.phase = "Halted" /\ f.phase # "Halted" => ts >= e.halt_end

LEMMA FlushWaits ==
  ASSUME NEW e, NEW ts
  PROVE /\ Waits(e, Flush(e, ts).eng, ts)
        /\ e.phase = "Auction" /\ ~(ts >= e.auction_end) => Flush(e, ts).eng = e
        /\ e.phase = "Halted" /\ ~(ts >= e.halt_end) => Flush(e, ts).eng = e
<1>1. ASSUME e.phase = "Auction", ~(ts >= e.auction_end) PROVE Flush(e, ts).eng = e
  BY <1>1 DEF Flush, ExpireTradingAtLast, ExpireHalt, ExpireAuction, AuctionDue
<1>2. ASSUME e.phase = "Halted", ~(ts >= e.halt_end) PROVE Flush(e, ts).eng = e
  BY <1>2 DEF Flush, ExpireTradingAtLast, ExpireHalt, ExpireAuction, AuctionDue
<1>3. QED BY <1>1, <1>2 DEF Waits

(* An order that comes in an auction or a halt is queued or rejected. *)
LEMMA ProcessWaits ==
  ASSUME NEW e, GoodEngine(e), NEW o, NEW ts
  PROVE Waits(e, Process(e, o, ts).eng, ts)
<1> DEFINE f == Flush(e, ts)
           q == QueueInAuction(e, o)
           r == Process(e, o, ts)
<1>1. q.phase = e.phase
  <2>1. IsEngine(e) BY DEF GoodEngine
  <2>2. QED BY <2>1 DEF QueueInAuction, IsEngine
<1>2. ASSUME f.eng = e, e.phase \in {"Auction", "Halted"} PROVE r.eng \in {e, q}
  BY <1>2 DEF Process, ProcessFlushed, Result
<1>3. f.eng = e /\ e.phase \in {"Auction", "Halted"} => r.eng.phase = e.phase
  BY <1>1, <1>2
<1> HIDE DEF r, f
<1>4. e.phase = "Auction" /\ ~(ts >= e.auction_end) => f.eng = e
  BY FlushWaits DEF f
<1>5. e.phase = "Halted" /\ ~(ts >= e.halt_end) => f.eng = e
  BY FlushWaits DEF f
<1>6. QED BY <1>3, <1>4, <1>5 DEF Waits, r

(* What a step does to the engine and the mid series is done with this time. *)
Driven(ts) == Waits(eng, eng', ts) /\ Pointed(ts)

LEMMA SubmitDriven ==
  ASSUME Data, Data', Series, NEW c \in Callers, Submit(c)
  PROVE Driven(caller[c].ts)
<1> DEFINE o == caller[c].order
           ts == caller[c].ts
           r == Process(eng, o, ts)
           f == r.eng
<1>1. ts \in Int
  BY DEF Submit, SubmitMove, Data, Prepared
<1>2. eng' = f /\ cache' = Updated(cache, f, ts, r.trades)
  BY DEF Submit, Processed
<1> HIDE DEF o, ts
<1>3. Waits(eng, f, ts)
  BY ProcessWaits DEF Data
<1>4. GoodEngine(f)
  BY <1>2 DEF Data
<1> HIDE DEF r, f
<1>5. Pointed(ts)
  BY <1>1, <1>2, <1>4, PointAdded
<1>6. QED BY <1>2, <1>3, <1>5 DEF Driven, ts

LEMMA RebookDriven ==
  ASSUME Data, Data', Series, NEW b, NEW ts \in Int, Rebooked(eng, b, ts)
  PROVE Driven(ts)
<1> DEFINE f == [eng EXCEPT !.book = b]
<1>1. eng' = f /\ cache' = Updated(cache, f, ts, <<>>)
  BY DEF Rebooked
<1>2. GoodEngine(f)
  BY <1>1 DEF Data
<1>3. f.phase = eng.phase
  BY DEF Data, GoodEngine, IsEngine
<1> HIDE DEF f
<1>4. Pointed(ts)
  BY <1>1, <1>2, PointAdded
<1>5. QED BY <1>1, <1>3, <1>4 DEF Driven, Waits

(* The worker in its step: what it does, it does with its own time. *)
LEMMA WorkerDriven ==
  ASSUME Control, Data, Data', Series, WorkerFlush \/ WorkerAct \/ WorkerUnlock
  PROVE Driven(worker.ts)
<1> DEFINE ts == worker.ts
<1>1. ts \in Int
  BY DEF Control
<1> HIDE DEF ts
<1>2. ASSUME NEW r, Waits(eng, r.eng, ts), CachedIfTraded(r.eng, r.trades) PROVE Driven(ts)
  <2> DEFINE f == r.eng
             new == r.trades
  <2>1. eng' = f /\ cache' \in {cache, Updated(cache, f, ts, new)}
    BY <1>2 DEF CachedIfTraded, ts
  <2>2. GoodEngine(f) BY <2>1 DEF Data
  <2> HIDE DEF f, new
  <2>3. Pointed(ts)
    <3>1. CASE cache' = cache BY <3>1 DEF Pointed
    <3>2. CASE cache' = Updated(cache, f, ts, new) BY <1>1, <2>2, <3>2, PointAdded
    <3>3. QED BY <2>1, <3>1, <3>2
  <2>4. QED BY <1>2, <2>1, <2>3 DEF Driven, f
<1>3. CASE WorkerFlush
  <2> DEFINE r == Flush(eng, ts)
  <2>1. CachedIfTraded(r.eng, r.trades)
    BY <1>3 DEF WorkerFlush, Flushed, ts
  <2>2. Waits(eng, r.eng, ts)
    BY FlushWaits
  <2> HIDE DEF r
  <2>3. QED BY <1>2, <2>1, <2>2 DEF ts
<1>4. CASE WorkerAct
  <2> DEFINE act == Head(worker.todo)
             r == Process(eng, act.order, ts)
             a == Cancel(eng.book, act.id).book
             b == ModifyQty(eng.book, act.id, act.new_qty).book
  <2>1. act.type \in {"Submit", "Cancel", "ModifyQty"}
    <3>1. worker.todo \in Seq(Action) /\ worker.todo # <<>>
      BY <1>4 DEF Control, WorkerAct, ActMove
    <3>2. act \in Action BY <3>1, HeadTailProperties
    <3>3. QED BY <3>2, ActionKinds
  <2>2. CachedIfTraded(r.eng, r.trades) \/ Rebooked(eng, a, ts) \/ Rebooked(eng, b, ts)
    <3>1. CASE act.type = "Submit" BY <1>4, <3>1 DEF WorkerAct, AgentSubmits, ts
    <3>2. CASE act.type = "Cancel" BY <1>4, <3>2 DEF WorkerAct, ts
    <3>3. CASE act.type = "ModifyQty" BY <1>4, <3>3 DEF WorkerAct, ts
    <3>4. QED BY <2>1, <3>1, <3>2, <3>3
  <2>3. Waits(eng, r.eng, ts)
    BY ProcessWaits DEF Data
  <2> HIDE DEF r, a, b
  <2>4. Driven(ts) BY <1>1, <1>2, <2>2, <2>3, RebookDriven
  <2>5. QED BY <2>4 DEF ts
<1>5. CASE WorkerUnlock
  <2>1. eng' = eng /\ cache' = Updated(cache, eng, ts, <<>>)
    BY <1>5 DEF WorkerUnlock, ts
  <2>2. GoodEngine(eng) BY DEF Data
  <2>3. Pointed(ts) BY <1>1, <2>1, <2>2, PointAdded
  <2>4. QED BY <2>1, <2>3 DEF Driven, Waits, ts
<1>6. QED BY <1>3, <1>4, <1>5

(* A call of another thread: a submission carries the time it was prepared
   with, all the rest the time of the clock. *)
Called(c) ==
  /\ UNCHANGED <<cur_ts, worker, starts>>
  /\ \/ /\ caller[c] # None /\ caller' = [caller EXCEPT ![c] = None]
        /\ Driven(caller[c].ts)
     \/ UNCHANGED caller /\ Driven(cur_ts)
     \/ /\ UNCHANGED <<eng, cache>>
        /\ \E p : p.ts = cur_ts /\ caller' = [caller EXCEPT ![c] = p]

LEMMA CallDriven ==
  ASSUME Data, Data', Series, NEW c \in Callers, Call(c) \/ Submit(c)
  PROVE Called(c)
<1>1. cur_ts \in Int
  BY DEF Data
<1>2. CASE Submit(c)
  BY <1>2, SubmitDriven DEF Submit, SubmitMove, Called
<1>3. ASSUME NEW b, Edit(c, b) PROVE Called(c)
  <2>1. Driven(cur_ts) BY <1>1, <1>3, RebookDriven DEF Edit
  <2>2. QED BY <1>3, <2>1 DEF Edit, Called
<1>4. ASSUME NEW o \in Orders, PrepareOrder(c, o) PROVE Called(c)
  <2> DEFINE p == [order |-> Numbered(Owned(o)), ts |-> cur_ts]
  <2>1. caller' = [caller EXCEPT ![c] = p] /\ p.ts = cur_ts
        /\ UNCHANGED <<eng, cache, cur_ts, worker, starts>>
    BY <1>4 DEF PrepareOrder
  <2> HIDE DEF p
  <2>2. QED BY <2>1 DEF Called
<1>5. CASE Call(c)
  <2>1. CASE \E o \in Orders : PrepareOrder(c, o)
    BY <1>4, <2>1
  <2>2. CASE \E id \in CancelIds : CancelOrder(c, id)
    BY <1>3, <2>2 DEF CancelOrder
  <2>3. CASE \E r \in Reductions : ModifyOrder(c, r[1], r[2])
    BY <1>3, <2>3 DEF ModifyOrder
  <2>4. QED BY <1>5, <2>1, <2>2, <2>3 DEF Call
<1>6. QED BY <1>2, <1>5

(* The steps of the worker that leave engine and cache alone. *)
LEMMA WorkerQuiet ==
  ASSUME Worker, ~(WorkerFlush \/ WorkerAct \/ WorkerUnlock)
  PROVE UNCHANGED <<eng, cache>>
BY DEF Worker, WorkerHead, WorkerEnd

(* Only start() counts. *)
LEMMA StartsCount ==
  ASSUME [LiveNext]_lvars
  PROVE starts' = starts \/ starts' = starts + 1
<1>1. ASSUME NEW c \in Callers, Call(c) \/ Submit(c) PROVE starts' = starts
  BY <1>1 DEF Call, PrepareOrder, CancelOrder, ModifyOrder, Edit, Submit
<1>2. CASE Worker
  BY <1>2 DEF Worker, WorkerHead, WorkerFlush, WorkerAct, WorkerUnlock, WorkerEnd
<1>3. CASE Start \/ Stop \/ Destroy \/ Joined \/ Over \/ UNCHANGED lvars
  BY <1>3 DEF Start, Stop, Destroy, Joined, Over, lvars
<1>4. QED BY <1>1, <1>2, <1>3 DEF LiveNext

(* The series stays one, whoever steps. *)
LEMMA SeriesNext ==
  ASSUME Control, Data, Data', Series, [LiveNext]_lvars
  PROVE Series'
<1>1. starts' \in Nat
  BY StartsCount DEF Series
<1>2. ASSUME NEW ts, Pointed(ts) PROVE Series'
  BY <1>1, <1>2 DEF Pointed, Series
<1>3. CASE UNCHANGED cache
  BY <1>1, <1>3 DEF Series
<1>4. CASE Worker
  BY <1>2, <1>3, <1>4, WorkerQuiet, WorkerDriven DEF Driven
<1>5. CASE \E c \in Callers : Call(c) \/ Submit(c)
  BY <1>2, <1>3, <1>5, CallDriven DEF Driven, Called
<1>6. CASE Start \/ Stop \/ Destroy \/ Joined \/ Over \/ UNCHANGED lvars
  BY <1>3, <1>6 DEF Start, Stop, Destroy, Joined, Over, lvars
<1>7. QED BY <1>4, <1>5, <1>6 DEF LiveNext

(* The worker takes the clock along. *)
LEMMA WorkerClock ==
  ASSUME Control, Data, Data', Series, FirstRun, starts <= 1, Worker
  PROVE FirstRun' /\ starts' = starts
<1> USE DEF FirstRun
<1>1. /\ worker \in [at : WorkerPlaces, ts : Nat, todo : Seq(Action)]
      /\ cur_ts \in Nat /\ MaxClock \in Nat /\ dt_ns \in Int
      /\ starts \in Nat
  BY LiveAssumption DEF Control, Data, Series
<1>2. UNCHANGED <<caller, starts>>
  BY DEF Worker, WorkerHead, WorkerFlush, WorkerAct, WorkerUnlock, WorkerEnd
<1>3. worker.at # "none" /\ starts # 0
  BY DEF Worker, WorkerHead, WorkerFlush, WorkerAct, WorkerUnlock, WorkerEnd,
         HeadMove, FlushMove, ActMove, UnlockMove, EndMove
<1>4. \A c \in Callers : caller[c] # None => caller[c].ts \in Nat
  BY DEF Data, Prepared
<1>5. cache.tops # <<>> => Last(cache.tops).ts \in Int
  <2>1. ASSUME cache.tops # <<>> PROVE Last(cache.tops) \in Points
    BY <2>1, LenProperties, EmptySeq, ElementOfSeq DEF Last, Series
  <2>2. QED BY <2>1 DEF Points
<1>6. CASE WorkerHead
  <2>1. UNCHANGED cache /\ worker'.ts = worker.ts /\ worker'.at \in {"out", "waiting"}
        /\ cur_ts' = IF worker'.at = "waiting" THEN worker.ts ELSE cur_ts
    BY <1>1, <1>6 DEF WorkerHead, HeadMove
  <2>2. cur_ts' \in Nat /\ cur_ts <= cur_ts' /\ cur_ts' <= worker.ts
    BY <1>1, <1>3, <2>1
  <2>3. \A c \in Callers : caller'[c] # None => caller'[c].ts <= cur_ts'
    BY <1>1, <1>2, <1>4, <2>2
  <2>4. cache'.tops # <<>> => Last(cache'.tops).ts <= cur_ts'
    BY <1>1, <1>5, <2>1, <2>2
  <2>5. QED BY <1>1, <1>2, <1>3, <2>1, <2>2, <2>3, <2>4
<1>7. CASE WorkerFlush \/ WorkerAct \/ WorkerUnlock
  <2>1. worker.at \in {"waiting", "step"} /\ cur_ts' = cur_ts /\ worker.ts = cur_ts
    BY <1>7 DEF WorkerFlush, WorkerAct, WorkerUnlock, FlushMove, ActMove, UnlockMove
  <2>2. Pointed(cur_ts)
    BY <1>7, <2>1, WorkerDriven DEF Driven
  <2>3. cache'.tops # <<>> => Last(cache'.tops).ts <= cur_ts'
    BY <1>1, <1>5, <2>1, <2>2 DEF Pointed
  <2>4. \A c \in Callers : caller'[c] # None => caller'[c].ts <= cur_ts'
    BY <1>2, <2>1
  <2>5. /\ worker'.ts \in Nat /\ worker'.ts <= MaxClock /\ worker.ts <= worker'.ts
        /\ (worker'.at = "step" /\ worker'.ts = worker.ts) \/ worker'.at = "head"
    <3>1. CASE WorkerFlush
      BY <1>1, <3>1 DEF WorkerFlush, FlushMove
    <3>2. CASE WorkerAct
      BY <1>1, <3>2 DEF WorkerAct, ActMove
    <3>3. CASE WorkerUnlock
      <4> DEFINE ts == Smaller(worker.ts + Step, MaxClock)
      <4>1. ts \in Nat /\ ts <= MaxClock /\ worker.ts <= ts
        <5>1. Step \in Nat BY <1>1 DEF Step
        <5>2. QED BY <1>1, <5>1 DEF Smaller
      <4>2. worker' = [worker EXCEPT !.at = "head", !.ts = ts]
        BY <3>3 DEF WorkerUnlock, UnlockMove
      <4> HIDE DEF ts
      <4>3. QED BY <1>1, <4>1, <4>2
    <3>4. QED BY <1>7, <3>1, <3>2, <3>3
  <2>6. QED BY <1>1, <1>2, <1>3, <2>1, <2>3, <2>4, <2>5
<1>8. CASE WorkerEnd
  <2>1. UNCHANGED <<cache, cur_ts>> /\ worker'.ts = worker.ts /\ worker'.at = "ended"
    BY <1>1, <1>8 DEF WorkerEnd, EndMove
  <2>2. QED BY <1>1, <1>2, <1>3, <2>1
<1>9. QED BY <1>2, <1>6, <1>7, <1>8 DEF Worker

(* A thread carries a time the clock has shown. *)
LEMMA CallClock ==
  ASSUME Data, Data', Series, FirstRun, starts <= 1, NEW c \in Callers, Call(c) \/ Submit(c)
  PROVE FirstRun' /\ starts' = starts
<1> USE DEF FirstRun
<1>1. Called(c)
  BY CallDriven
<1>2. UNCHANGED <<cur_ts, worker, starts>>
  BY <1>1 DEF Called
<1>3. /\ caller \in [Callers -> Prepared \cup {None}] /\ cur_ts \in Nat
      /\ \A d \in Callers : caller[d] # None => caller[d].ts \in Nat
  BY DEF Data, Prepared
<1>4. \A d \in Callers : caller'[d] # None => caller'[d].ts <= cur_ts'
  <2>1. ASSUME NEW p, caller' = [caller EXCEPT ![c] = p], p = None \/ p.ts = cur_ts
        PROVE \A d \in Callers : caller'[d] # None => caller'[d].ts <= cur_ts'
    BY <1>2, <1>3, <2>1
  <2>2. CASE caller' = caller BY <1>2, <2>2
  <2>3. QED BY <1>1, <2>1, <2>2 DEF Called
<1>5. cache'.tops # <<>> => Last(cache'.tops).ts <= cur_ts'
  <2>1. ASSUME NEW ts \in Int, ts <= cur_ts, Pointed(ts)
        PROVE cache'.tops # <<>> => Last(cache'.tops).ts <= cur_ts'
    BY <1>2, <2>1 DEF Pointed
  <2>2. CASE caller[c] # None /\ Driven(caller[c].ts)
    BY <1>3, <2>1, <2>2 DEF Driven
  <2>3. CASE Driven(cur_ts)
    BY <1>3, <2>1, <2>3 DEF Driven
  <2>4. CASE UNCHANGED cache
    BY <1>2, <2>4
  <2>5. QED BY <1>1, <2>2, <2>3, <2>4 DEF Called
<1>6. QED BY <1>2, <1>4, <1>5

LEMMA FirstRunNext ==
  ASSUME Control, Data, Data', Series, FirstRun, [LiveNext]_lvars
  PROVE FirstRun'
<1>1. starts \in Nat /\ MaxClock \in Nat
  BY LiveAssumption DEF Series
<1>2. CASE starts > 1
  <2>1. starts' >= starts
    BY <1>1, StartsCount
  <2>2. starts' \in Nat BY SeriesNext DEF Series
  <2>3. QED BY <1>1, <1>2, <2>1, <2>2 DEF FirstRun
<1>3. ASSUME starts <= 1 PROVE FirstRun'
  <2>1. CASE UNCHANGED <<worker, cur_ts, caller, cache, starts>>
    BY <2>1 DEF FirstRun
  <2>2. CASE Worker
    BY <1>3, <2>2, WorkerClock
  <2>3. CASE \E c \in Callers : Call(c) \/ Submit(c)
    BY <1>3, <2>3, CallClock
  <2>4. CASE Start
    BY <1>1, <1>3, <2>4, WorkersAt DEF Start, FirstRun
  <2>5. CASE Joined
    BY <1>1, <1>3, <2>5, WorkersAt DEF Joined, FirstRun
  <2>6. CASE Stop \/ Destroy \/ Over \/ UNCHANGED lvars
    BY <2>1, <2>6 DEF Stop, Destroy, Over, lvars
  <2>7. QED BY <2>2, <2>3, <2>4, <2>5, <2>6 DEF LiveNext
<1>4. QED BY <1>1, <1>2, <1>3

LEMMA FirstRunAlways == LiveSpec => [](Series /\ FirstRun)
<1>1. LiveInit => Series /\ FirstRun
  <2> SUFFICES ASSUME LiveInit PROVE Series /\ FirstRun
    OBVIOUS
  <2> DEFINE none == <<>>
  <2>1. cache.tops = none /\ none \in Seq(Points) /\ Len(none) = 0
    BY DEF LiveInit, EmptyCache
  <2>2. starts = 0 /\ worker.at = "none" /\ worker.ts = 0 /\ cur_ts = 0
        /\ \A c \in Callers : caller[c] = None
    BY WorkersAt DEF LiveInit
  <2>3. max_cache_tops \in Nat /\ MaxClock \in Nat
    BY LiveAssumption
  <2>4. QED BY <2>1, <2>2, <2>3 DEF Series, FirstRun
<1>2. Control /\ Data /\ Data' /\ Series /\ FirstRun /\ [LiveNext]_lvars => Series' /\ FirstRun'
  BY SeriesNext, FirstRunNext
<1>3. QED BY <1>1, <1>2, ControlAlways, DataAlways, PTL DEF LiveSpec

(* No halt and no auction of the first run ends before the clock of the object
   has reached its end, although the engine is driven with times that threads
   have read at different moments. *)
THEOREM LiveNoEarlyEnd == LiveSpec => NoEarlyEnd
<1> DEFINE NotBefore == /\ eng.phase = "Auction" /\ eng'.phase # "Auction" => cur_ts >= eng.auction_end
                        /\ eng.phase = "Halted" /\ eng'.phase # "Halted" => cur_ts >= eng.halt_end
<1>1. ASSUME Control, Data, Data', Series, FirstRun, [LiveNext]_lvars, starts' <= 1
      PROVE NotBefore
  <2>1. starts <= 1
    BY <1>1, StartsCount DEF Series
  <2>2. cur_ts \in Nat /\ eng.auction_end \in Int /\ eng.halt_end \in Int
    BY <1>1, EngineFields DEF Data
  <2>3. ASSUME NEW ts \in Int, ts <= cur_ts, Waits(eng, eng', ts) PROVE NotBefore
    BY <2>2, <2>3 DEF Waits
  <2>4. CASE UNCHANGED eng
    BY <2>4
  <2>5. CASE Worker
    <3>1. CASE WorkerFlush \/ WorkerAct \/ WorkerUnlock
      <4>1. worker.ts = cur_ts
        BY <1>1, <2>1, <3>1
        DEF FirstRun, WorkerFlush, WorkerAct, WorkerUnlock, FlushMove, ActMove, UnlockMove
      <4>2. Waits(eng, eng', worker.ts)
        BY <1>1, <3>1, WorkerDriven DEF Driven
      <4>3. QED BY <2>2, <2>3, <4>1, <4>2
    <3>2. CASE ~(WorkerFlush \/ WorkerAct \/ WorkerUnlock)
      BY <2>4, <2>5, <3>2, WorkerQuiet
    <3>3. QED BY <3>1, <3>2
  <2>6. ASSUME NEW c \in Callers, Call(c) \/ Submit(c) PROVE NotBefore
    <3>1. Called(c)
      BY <1>1, <2>6, CallDriven
    <3>2. CASE caller[c] # None /\ Waits(eng, eng', caller[c].ts)
      <4>1. caller[c].ts \in Int /\ caller[c].ts <= cur_ts
        BY <1>1, <2>1, <3>2 DEF FirstRun, Data, Prepared
      <4>2. QED BY <2>3, <3>2, <4>1
    <3>3. CASE Waits(eng, eng', cur_ts)
      BY <2>2, <2>3, <3>3
    <3>4. QED BY <2>4, <3>1, <3>2, <3>3 DEF Called, Driven
  <2>7. CASE Start \/ Stop \/ Destroy \/ Joined \/ Over \/ UNCHANGED lvars
    BY <2>4, <2>7 DEF Start, Stop, Destroy, Joined, Over, lvars
  <2>8. QED BY <1>1, <2>5, <2>6, <2>7 DEF LiveNext
<1>2. Control /\ Data /\ Data' /\ Series /\ FirstRun /\ [LiveNext]_lvars
      => [starts' <= 1 => NotBefore]_lvars
  BY <1>1
<1>3. QED BY <1>2, ControlAlways, DataAlways, FirstRunAlways, PTL DEF LiveSpec, NoEarlyEnd

(* In the first run the mid series goes back in time only where a submission
   adds a point: its time was read before the mutex was taken. *)
THEOREM LiveSeries == LiveSpec => OnlySubmitsGoBack
<1> DEFINE Back == /\ starts' = 1 /\ cache.tops # <<>> /\ cache'.tops # cache.tops
                   /\ Last(cache'.tops).ts < Last(cache.tops).ts
           Submits == \E c \in Callers : caller[c] # None /\ caller'[c] = None
<1>1. ASSUME Control, Data, Data', Series, FirstRun, [LiveNext]_lvars, Back
      PROVE Submits
  <2>1. starts <= 1
    BY <1>1, StartsCount DEF Series
  <2>2. Last(cache.tops).ts \in Int /\ Last(cache.tops).ts <= cur_ts /\ cur_ts \in Nat
    <3>1. Last(cache.tops) \in Points
      BY <1>1, LenProperties, EmptySeq, ElementOfSeq DEF Last, Series
    <3>2. QED BY <1>1, <2>1, <3>1 DEF FirstRun, Points, Data
  <2>3. ~Pointed(cur_ts)
    <3>1. ASSUME Pointed(cur_ts) PROVE FALSE
      <4>1. IF cache'.tops = <<>> THEN max_cache_tops = 0 ELSE Last(cache'.tops).ts = cur_ts
        BY <1>1, <3>1 DEF Pointed
      <4>2. cache'.tops = <<>> /\ max_cache_tops = 0
        BY <1>1, <2>2, <4>1
      <4>3. cache.tops = <<>>
        BY <1>1, <4>2, LenProperties, EmptySeq DEF Series
      <4>4. QED BY <1>1, <4>3
    <3>2. QED BY <3>1
  <2>4. CASE Worker
    <3>1. CASE WorkerFlush \/ WorkerAct \/ WorkerUnlock
      <4>1. worker.ts = cur_ts
        BY <1>1, <2>1, <3>1
        DEF FirstRun, WorkerFlush, WorkerAct, WorkerUnlock, FlushMove, ActMove, UnlockMove
      <4>2. Pointed(worker.ts)
        BY <1>1, <3>1, WorkerDriven DEF Driven
      <4>3. QED BY <2>3, <4>1, <4>2
    <3>2. CASE ~(WorkerFlush \/ WorkerAct \/ WorkerUnlock)
      BY <1>1, <2>4, <3>2, WorkerQuiet
    <3>3. QED BY <3>1, <3>2
  <2>5. ASSUME NEW c \in Callers, Call(c) \/ Submit(c) PROVE Submits
    <3>1. Called(c)
      BY <1>1, <2>5, CallDriven
    <3>2. CASE caller[c] # None /\ caller' = [caller EXCEPT ![c] = None]
      BY <1>1, <3>2 DEF Data
    <3>3. CASE UNCHANGED cache
      BY <1>1, <3>3
    <3>4. QED BY <2>3, <3>1, <3>2, <3>3 DEF Called, Driven
  <2>6. CASE Start \/ Stop \/ Destroy \/ Joined \/ Over \/ UNCHANGED lvars
    BY <1>1, <2>6 DEF Start, Stop, Destroy, Joined, Over, lvars
  <2>7. QED BY <1>1, <2>4, <2>5, <2>6 DEF LiveNext
<1>2. Control /\ Data /\ Data' /\ Series /\ FirstRun /\ [LiveNext]_lvars
      => [Back => Submits]_lvars
  BY <1>1
<1>3. QED BY <1>2, ControlAlways, DataAlways, FirstRunAlways, PTL DEF LiveSpec, OnlySubmitsGoBack

----------------------------------------------------------------------------
(* What an engine holds after a call *)

(* Every order is in one place. *)
Orderly(e) == GoodEngine(e) /\ Placed(e) /\ \A o \in Held(e) : o.qty \in Nat

(* What f holds e held before, or it has come in. *)
Follows(e, f, new) ==
  /\ Orderly(f) /\ f.cfg = e.cfg
  /\ \A x \in Held(f) : \E o \in Held(e) \cup new : o.id = x.id

LEMMA CallOpens ==
  ASSUME NEW e, Orderly(e), NEW V, V \subseteq Order, OneEach(V), Apart(Held(e), V),
         \A o \in V : o.qty \in Nat
  PROVE LET c == Terms(Held(e) \cup V, Held(e) \cup V)
        IN  IsTerms(c) /\ c.known = Held(e) \cup V /\ Kept(e, V, <<>>, c)
<1> DEFINE H == Held(e)
           L == H \cup V
<1>1. GoodEngine(e) /\ Placed(e)
  BY DEF Orderly
<1>2. H \subseteq Order /\ OneEach(H)
  BY <1>1, HeldOnce
<1>3. \A o \in L : o.qty \in Nat
  BY DEF Orderly
<1>4. Apart(H, V) /\ H = Held(e)
  OBVIOUS
<1> HIDE DEF H
<1>5. OneEach(L) /\ L \subseteq Order
  BY <1>2, <1>4 DEF OneEach, Apart
<1>6. FromKnown(L, L)
  BY <1>3, <1>5 DEF FromKnown, Stems, OneEach
<1>7. IsTerms(Terms(L, L)) /\ Kept(e, V, <<>>, Terms(L, L))
  BY <1>1, <1>4, <1>5, <1>6, CallBegins
<1>8. Terms(L, L).known = L
  BY DEF Terms
<1>9. QED BY <1>4, <1>7, <1>8

LEMMA CallCloses ==
  ASSUME NEW e, NEW f, GoodEngine(f), f.cfg = e.cfg, NEW V, NEW trades, NEW c,
         c.known = Held(e) \cup V, Kept(f, {}, trades, c)
  PROVE Follows(e, f, V)
<1>1. Placed(f) /\ FromKnown(Held(f), c.known)
  BY CallEnded
<1>2. QED BY <1>1 DEF Follows, Orderly, FromKnown, Stems

LEMMA FlushFollows ==
  ASSUME NEW e, Orderly(e), NEW ts \in Int
  PROVE Follows(e, Flush(e, ts).eng, {})
<1> DEFINE c == Terms(Held(e) \cup {}, Held(e) \cup {})
           f == Flush(e, ts)
<1>1. GoodEngine(e)
  BY DEF Orderly
<1>2. IsTerms(c) /\ c.known = Held(e) \cup {} /\ Kept(e, {}, <<>>, c)
  BY CallOpens DEF OneEach, Apart
<1> HIDE DEF c
<1>3. Kept(f.eng, {}, f.trades, c)
  BY <1>1, <1>2, FlushKept
<1>4. GoodEngine(f.eng) /\ f.eng.cfg = e.cfg
  BY <1>1, FlushGood, FlushConfig DEF GoodOutcome
<1> HIDE DEF f
<1>5. Follows(e, f.eng, {})
  BY <1>2, <1>3, <1>4, CallCloses
<1>6. QED BY <1>5 DEF f

LEMMA ProcessFollows ==
  ASSUME NEW e, Orderly(e), NEW o \in Order, \A x \in Held(e) : x.id # o.id, NEW ts \in Int
  PROVE Follows(e, Process(e, o, ts).eng, {o})
<1> DEFINE V == IF o.qty > 0 THEN {o} ELSE {}
           c == Terms(Held(e) \cup V, Held(e) \cup V)
           r == Process(e, o, ts)
<1>1. GoodEngine(e)
  BY DEF Orderly
<1>2. V \subseteq Order /\ OneEach(V) /\ Apart(Held(e), V) /\ \A x \in V : x.qty \in Nat
  BY DEF OneEach, Apart, Order
<1>3. V \subseteq {o}
  OBVIOUS
<1>4. IsTerms(c) /\ c.known = Held(e) \cup V /\ Kept(e, V, <<>>, c)
  <2> HIDE DEF V
  <2>1. QED BY <1>2, CallOpens
<1> HIDE DEF c
<1>5. Kept(r.eng, {}, r.trades, c)
  BY <1>1, <1>4, ProcessKept
<1>6. GoodEngine(r.eng) /\ r.eng.cfg = e.cfg
  BY <1>1, ProcessGood, ProcessConfig DEF GoodResult, GoodOutcome
<1> HIDE DEF r, V
<1>7. Follows(e, r.eng, V)
  BY <1>4, <1>5, <1>6, CallCloses
<1>8. Follows(e, r.eng, {o})
  BY <1>3, <1>7 DEF Follows
<1>9. QED BY <1>8 DEF r

(* A book that holds part of what it held, with no more of each. *)
LEMMA RebookedFollows ==
  ASSUME NEW e, Orderly(e), NEW b, Tidy(b),
         \A x \in Resting(b) : \E o \in Resting(e.book) : o.id = x.id /\ x.qty \in Nat
  PROVE LET f == [e EXCEPT !.book = b]
        IN  Follows(e, f, {}) /\ f.book = b /\ f.queue = e.queue
<1> DEFINE f == [e EXCEPT !.book = b]
<1>1. GoodEngine(e) /\ Placed(e) /\ \A o \in Held(e) : o.qty \in Nat
  BY DEF Orderly
<1>2. GoodEngine(f)
  <2>1. GoodBook(b) /\ 0 \in Nat /\ <<>> \in Seq(Order) BY EmptySeq DEF Tidy
  <2>2. QED BY <1>1, <2>1, SetBook
<1>3. f.book = b /\ f.queue = e.queue /\ f.cfg = e.cfg
  BY <1>1 DEF GoodEngine, IsEngine
<1> HIDE DEF f
<1>4. Placed(f)
  BY <1>1, <1>3 DEF Placed, Apart
<1>5. \A x \in Held(f) : x.qty \in Nat /\ \E o \in Held(e) : o.id = x.id
  BY <1>1, <1>3 DEF Held
<1>6. QED BY <1>2, <1>3, <1>4, <1>5 DEF Follows, Orderly, f

LEMMA CancelFollows ==
  ASSUME NEW e, Orderly(e), NEW id
  PROVE LET f == [e EXCEPT !.book = Cancel(e.book, id).book]
        IN  Follows(e, f, {}) /\ \A x \in Resting(f.book) : x \in Resting(e.book) /\ x.id # id
<1> DEFINE b == Cancel(e.book, id).book
<1>1. Tidy(e.book) /\ \A o \in Resting(e.book) : o.qty \in Nat
  BY DEF Orderly, Placed, Held
<1>2. Tidy(b) /\ Resting(b) = {o \in Resting(e.book) : o.id # id}
  BY <1>1, CancelTidy
<1> HIDE DEF b
<1>3. LET f == [e EXCEPT !.book = b] IN Follows(e, f, {}) /\ f.book = b
  BY <1>1, <1>2, RebookedFollows
<1>4. QED BY <1>2, <1>3 DEF b

LEMMA ModifyFollows ==
  ASSUME NEW e, Orderly(e), NEW id, NEW n \in Int
  PROVE Follows(e, [e EXCEPT !.book = ModifyQty(e.book, id, n).book], {})
<1> DEFINE b == ModifyQty(e.book, id, n).book
<1>1. Tidy(e.book) /\ \A o \in Resting(e.book) : o.qty \in Nat /\ o \in Order
  <2>1. Tidy(e.book) /\ GoodEngine(e) /\ Placed(e) BY DEF Orderly, Placed
  <2>2. Held(e) \subseteq Order BY <2>1, HeldOnce
  <2>3. QED BY <2>1, <2>2 DEF Orderly, Held
<1>2. /\ Tidy(b)
      /\ \A x \in Resting(b) :
           \/ x \in Resting(e.book)
           \/ \E o \in Resting(e.book) : n > 0 /\ n <= o.qty /\ x = [o EXCEPT !.qty = n]
  BY <1>1, ModifyTidy
<1> HIDE DEF b
<1>3. ASSUME NEW o \in Order, n > 0
      PROVE [o EXCEPT !.qty = n].id = o.id /\ [o EXCEPT !.qty = n].qty \in Nat
  BY <1>3 DEF Order
<1>4. \A x \in Resting(b) : \E o \in Resting(e.book) : o.id = x.id /\ x.qty \in Nat
  BY <1>1, <1>2, <1>3
<1>5. QED BY <1>2, <1>4, RebookedFollows DEF b

----------------------------------------------------------------------------
(* The market maker of the gateway.  Nothing is said of a gateway in which an
   owner has come to the last of its numbers: its next id is another owner's. *)

MakerPlaces == {"none", "head", "cancel", "quote", "sweep", "ended"}
AggrPlaces == {"none", "head", "sending", "ended"}
Rungs == [level : 1 .. Levels, side : Sides]
Numbering == {MakerOwner, ManualOwner} \cup Aggressors

Counters ==
  /\ DOMAIN mm = {"at", "todo", "ids", "seq", "px", "jitter"}
  /\ mm.seq \in Nat \ {0} /\ manual_seq \in Nat \ {0}
  /\ aggr \in [Aggressors -> [at : AggrPlaces, seq : Nat \ {0}]]

InSpan ==
  mm.seq <= IdSpan /\ manual_seq <= IdSpan /\ \A k \in Aggressors : aggr[k].seq <= IdSpan

NextNumber(who) ==
  IF who = MakerOwner THEN mm.seq ELSE IF who = ManualOwner THEN manual_seq ELSE aggr[who].seq

(* The ids that are still to be given out. *)
Ahead ==
  {id \in Ids : \E who \in Numbering :
     \E n \in 1 .. IdSpan - 1 : NextNumber(who) <= n /\ id = MakeOid(who, n)}

(* The threads that have prepared an order and wait for the mutex. *)
Sending == {c \in Callers : caller[c] # None}

Typed ==
  /\ Orderly(eng) /\ eng.cfg \in Configs /\ cur_ts \in Nat
  /\ caller \in [Callers -> Prepared \cup {None}]

(* The orders there are: in the book, in the queue, or with a thread. *)
InUse(id) ==
  (\E o \in Held(eng) : o.id = id) \/ \E c \in Sending : caller[c].order.id = id

(* What is asked of the clients of the gateway.  A request may name the id of its
   order (gateway_main.cpp:478, from the id field of app.js:497): then not one of
   the market maker, not one that is still to be given out, and not one in use. *)
NamesApart ==
  \A h \in Handlers, o \in Orders :
    o.id # 0 /\ PrepareOrder(h, Handled(o)) =>
      OwnerOf(o.id) # MakerOwner /\ o.id \notin Ahead /\ ~InUse(o.id)

(* Every order has an id of its own, which will not be given out again, and is in
   one place: with the thread that has prepared it, in the book or in the queue. *)
OnePlaceEach ==
  /\ \A o \in Held(eng) : o.id \notin Ahead
  /\ \A c \in Sending : caller[c].order.id \notin Ahead
  /\ \A c \in Sending, o \in Held(eng) : o.id # caller[c].order.id
  /\ \A c, d \in Sending : c # d => caller[c].order.id # caller[d].order.id

(* The maker cancels what it remembers, from the first to the last, before it
   quotes again, and while it quotes it is in no other call. *)
MakerAtWork ==
  /\ mm.at \in MakerPlaces /\ mm.ids \in Seq(Ids)
  /\ main = "new" => mm.at = "none"
  /\ mm.at = "quote" => mm.todo \in Seq(Rungs) /\ mm.todo # <<>>
  /\ mm.at # "quote" => mm.todo \in Seq(Ids) /\ caller[MakerOwner] = None
  /\ mm.at = "cancel" => mm.todo = mm.ids
  /\ mm.at = "sweep" => Range(mm.todo) \subseteq Range(mm.ids)
  /\ mm.at = "ended" => mm.todo = <<>>

(* What the maker still knows to cancel. *)
ToCancel == IF mm.at \in {"sweep", "ended"} THEN mm.todo ELSE mm.ids

(* A quote that rests and has not waited in a queue is still to be cancelled. *)
MakerKnows ==
  /\ Queued(eng) \subseteq queued
  /\ \A o \in Resting(eng.book) :
       OwnerOf(o.id) = MakerOwner /\ o.id \notin queued => o.id \in Range(ToCancel)
  /\ \A c \in Sending \ {MakerOwner} : OwnerOf(caller[c].order.id) # MakerOwner

(* The prices the maker computes with. *)
Bounds ==
  /\ px \in 0 .. MaxPx /\ mm.px \in 0 .. MaxPx + Tick /\ mm.jitter \in -Tick .. Tick

Quoting == Typed /\ OnePlaceEach /\ MakerAtWork /\ MakerKnows /\ Bounds

gvars == <<lvars, fvars, mvars, queued>>

GInv == Control /\ worker.todo = <<>> /\ Counters /\ (InSpan => Quoting)

(* The owner and the number of an id can be read from it. *)
LEMMA Ordered ==
  ASSUME NEW a \in Nat, NEW b \in Nat, a <= b, NEW n \in Nat
  PROVE a * n <= b * n
<1>1. PICK d \in Nat : b = a + d
  <2>1. b - a \in Nat /\ b = a + (b - a) OBVIOUS
  <2>2. QED BY <2>1
<1>2. b * n = a * n + d * n /\ d * n \in Nat /\ a * n \in Nat
  BY <1>1
<1>3. QED BY <1>2

LEMMA OidOwner ==
  ASSUME NEW who \in Nat, NEW seq \in 1 .. IdSpan - 1
  PROVE OwnerOf(MakeOid(who, seq)) = who
<1> DEFINE id == who * IdSpan + seq
           q == id \div IdSpan
<1>1. IdSpan \in Nat /\ IdSpan > 0
  BY LiveAssumption
<1>2. who * IdSpan \in Nat
  BY <1>1
<1>3. id \in Nat
  BY <1>1, <1>2
<1>4. q \in Nat /\ q * IdSpan <= id /\ id < (q + 1) * IdSpan
  <2> HIDE DEF id
  <2>1. QED BY <1>1, <1>3
<1> HIDE DEF q
<1>5. ~ (q + 1 <= who)
  <2>1. ASSUME q + 1 <= who PROVE FALSE
    <3>1. (q + 1) * IdSpan <= who * IdSpan
      BY <1>1, <1>4, <2>1, Ordered
    <3>2. (q + 1) * IdSpan \in Nat BY <1>1, <1>4
    <3>3. QED BY <1>1, <1>2, <1>3, <1>4, <3>1, <3>2
  <2>2. QED BY <2>1
<1>6. ~ (who + 1 <= q)
  <2>1. ASSUME who + 1 <= q PROVE FALSE
    <3>1. (who + 1) * IdSpan <= q * IdSpan
      BY <1>1, <1>4, <2>1, Ordered
    <3>2. (who + 1) * IdSpan = who * IdSpan + IdSpan /\ q * IdSpan \in Nat
      BY <1>1, <1>4
    <3>3. QED BY <1>1, <1>2, <1>3, <1>4, <3>1, <3>2
  <2>2. QED BY <2>1
<1>7. q = who
  BY <1>4, <1>5, <1>6
<1>8. QED BY <1>7 DEF OwnerOf, MakeOid, q

LEMMA OidsApart ==
  ASSUME NEW v \in Nat, NEW m \in 1 .. IdSpan - 1, NEW w \in Nat, NEW n \in 1 .. IdSpan - 1,
         MakeOid(v, m) = MakeOid(w, n)
  PROVE v = w /\ m = n
<1>1. v = w
  BY OidOwner
<1>2. v * IdSpan \in Nat
  BY LiveAssumption
<1>3. v * IdSpan + m = v * IdSpan + n
  BY <1>1 DEF MakeOid
<1>4. QED BY <1>1, <1>2, <1>3

(* A sequence that grows at its end, and shrinks at its head. *)
LEMMA AppendRange ==
  ASSUME NEW S, NEW s \in Seq(S), NEW x \in S
  PROVE Append(s, x) \in Seq(S) /\ Range(Append(s, x)) = Range(s) \cup {x}
<1> DEFINE t == Append(s, x)
<1>1. t \in Seq(S) /\ Len(t) = Len(s) + 1 /\ t[Len(s) + 1] = x
      /\ \A i \in 1 .. Len(s) : t[i] = s[i]
  BY AppendProperties
<1>2. Len(s) \in Nat /\ DOMAIN s = 1 .. Len(s) /\ DOMAIN t = 1 .. Len(t)
  BY <1>1, LenProperties
<1> HIDE DEF t
<1>3. \A v \in Range(t) : v \in Range(s) \cup {x}
  BY <1>1, <1>2 DEF Range
<1>4. \A v \in Range(s) : v \in Range(t)
  BY <1>1, <1>2 DEF Range
<1>5. x \in Range(t)
  BY <1>1, <1>2 DEF Range
<1>6. QED BY <1>1, <1>3, <1>4, <1>5 DEF t

LEMMA TailRange ==
  ASSUME NEW S, NEW s \in Seq(S), s # <<>>
  PROVE /\ Tail(s) \in Seq(S) /\ Head(s) \in S
        /\ Range(Tail(s)) \subseteq Range(s)
        /\ \A v \in Range(s) : v # Head(s) => v \in Range(Tail(s))
        /\ (Len(s) = 1 <=> Tail(s) = <<>>)
<1> DEFINE t == Tail(s)
<1>1. /\ Head(s) \in S /\ Head(s) = s[1] /\ t \in Seq(S) /\ Len(t) = Len(s) - 1
      /\ \A i \in 1 .. Len(t) : t[i] = s[i + 1]
  BY HeadTailProperties
<1>2. Len(s) \in Nat /\ DOMAIN s = 1 .. Len(s) /\ DOMAIN t = 1 .. Len(t) /\ Len(s) > 0
  BY <1>1, LenProperties, EmptySeq
<1>3. Len(t) = 0 <=> t = <<>>
  BY <1>1, EmptySeq
<1> HIDE DEF t
<1>4. \A v \in Range(t) : v \in Range(s)
  BY <1>1, <1>2 DEF Range
<1>5. ASSUME NEW v \in Range(s), v # Head(s) PROVE v \in Range(t)
  <2>1. PICK i \in 1 .. Len(s) : s[i] = v BY <1>2, <1>5 DEF Range
  <2>2. i # 1 BY <1>1, <1>5, <2>1
  <2>3. i - 1 \in 1 .. Len(t) /\ t[i - 1] = s[(i - 1) + 1] BY <1>1, <1>2, <2>1, <2>2
  <2>4. QED BY <1>2, <2>1, <2>3 DEF Range
<1>6. QED BY <1>1, <1>2, <1>3, <1>4, <1>5 DEF t

(* The ladder has a rung. *)
LEMMA LadderRungs == Ladder \in Seq(Rungs) /\ Ladder # <<>>
<1> DEFINE n == 2 * Levels
<1>1. Levels \in Nat /\ n \in Nat /\ n > 0
  BY GatewayAssumption
<1>2. \A i \in 1 .. n : (i + 1) \div 2 \in 1 .. Levels
  BY <1>1
<1>3. Ladder \in [1 .. n -> Rungs]
  BY <1>2 DEF Ladder, Rungs, Sides
<1> HIDE DEF n
<1>4. Ladder \in Seq(Rungs) /\ Len(Ladder) = n
  BY <1>1, <1>3, IsASeq, LenProperties
<1>5. QED BY <1>1, <1>4, EmptySeq

(* Numbers only grow. *)
LEMMA CountersUp ==
  ASSUME Counters, GatewayNext
  PROVE Counters' /\ (InSpan' => InSpan)
<1>1. /\ mm.seq \in Nat \ {0} /\ manual_seq \in Nat \ {0}
      /\ aggr \in [Aggressors -> [at : AggrPlaces, seq : Nat \ {0}]]
      /\ IdSpan \in Nat
      /\ \A k \in Aggressors : aggr[k].seq \in Nat \ {0}
  BY LiveAssumption DEF Counters
<1>2. ASSUME DOMAIN mm' = DOMAIN mm, mm'.seq \in {mm.seq, mm.seq + 1},
             manual_seq' \in {manual_seq, manual_seq + 1},
             aggr' \in [Aggressors -> [at : AggrPlaces, seq : Nat \ {0}]],
             \A k \in Aggressors : aggr'[k].seq \in {aggr[k].seq, aggr[k].seq + 1}
      PROVE Counters' /\ (InSpan' => InSpan)
  <2>1. mm'.seq \in Nat \ {0} /\ mm.seq <= mm'.seq BY <1>1, <1>2
  <2>2. manual_seq' \in Nat \ {0} /\ manual_seq <= manual_seq' BY <1>1, <1>2
  <2>3. \A k \in Aggressors : aggr'[k].seq \in Nat /\ aggr[k].seq <= aggr'[k].seq BY <1>1, <1>2
  <2>4. Counters' BY <1>2, <2>1, <2>2 DEF Counters
  <2>5. InSpan' => InSpan BY <1>1, <2>1, <2>2, <2>3 DEF InSpan
  <2>6. QED BY <2>4, <2>5
<1>3. ASSUME UNCHANGED <<manual_seq, aggr>>, DOMAIN mm' = DOMAIN mm, mm'.seq \in {mm.seq, mm.seq + 1}
      PROVE Counters' /\ (InSpan' => InSpan)
  BY <1>1, <1>2, <1>3
<1>4. CASE UNCHANGED <<mm, manual_seq, aggr>>
  BY <1>3, <1>4
<1>5. CASE Launch
  <2>1. UNCHANGED manual_seq /\ mm' = [mm EXCEPT !.at = "head"]
        /\ aggr' = [k \in Aggressors |-> [aggr[k] EXCEPT !.at = "head"]]
    BY <1>5 DEF Launch, Start
  <2>2. DOMAIN mm' = DOMAIN mm /\ mm'.seq = mm.seq BY <2>1 DEF Counters
  <2>3. aggr' \in [Aggressors -> [at : AggrPlaces, seq : Nat \ {0}]]
        /\ \A k \in Aggressors : aggr'[k].seq = aggr[k].seq
    BY <1>1, <2>1 DEF AggrPlaces
  <2>4. QED BY <1>2, <2>1, <2>2, <2>3
<1>6. CASE ListenReturn \/ FlowJoined \/ WorldJoined \/ Exit \/ Drift \/ Quit \/ QuitMissed
           \/ (Worker /\ UNCHANGED <<fvars, mvars>>) \/ (Over /\ UNCHANGED <<fvars, mvars>>)
  <2>1. CASE ListenReturn \/ Quit \/ QuitMissed \/ Drift
    BY <1>4, <2>1 DEF ListenReturn, Quit, QuitMissed, Drift, fvars, lvars
  <2>2. CASE FlowJoined
    BY <1>4, <2>2 DEF FlowJoined, fvars, lvars, Stop
  <2>3. CASE WorldJoined \/ Exit
    BY <1>4, <2>3 DEF WorldJoined, Joined, Exit, Destroy, fvars
  <2>4. CASE Worker /\ UNCHANGED <<fvars, mvars>>
    BY <1>4, <2>4 DEF Worker, WorkerHead, WorkerFlush, WorkerAct, WorkerUnlock, WorkerEnd, fvars
  <2>5. CASE Over /\ UNCHANGED <<fvars, mvars>>
    BY <1>4, <2>5 DEF Over, lvars, fvars
  <2>6. QED BY <1>6, <2>1, <2>2, <2>3, <2>4, <2>5
<1>7. CASE Maker
  <2>1. CASE MakerHead \/ MakerRead \/ MakerEnd
    <3>1. UNCHANGED <<manual_seq, aggr>>
      BY <2>1 DEF MakerHead, MakerRead, MakerEnd, lvars
    <3>2. DOMAIN mm' = DOMAIN mm /\ mm'.seq = mm.seq
      BY <2>1 DEF MakerHead, MakerRead, MakerEnd, MakerHeadMove, MakerReadMove, MakerEndMove, Counters
    <3>3. QED BY <1>3, <3>1, <3>2
  <2>2. CASE MakerCancel
    <3>1. UNCHANGED <<manual_seq, aggr>>
      BY <2>2 DEF MakerCancel, CancelOrder, Edit
    <3>2. DOMAIN mm' = DOMAIN mm /\ mm'.seq = mm.seq
      BY <2>2 DEF MakerCancel, MakerCancelMove, Counters
    <3>3. QED BY <1>3, <3>1, <3>2
  <2>3. CASE MakerPrepare
    <3>1. mm.seq \in Nat \ {0} BY <1>1
    <3> DEFINE o == Quote(Head(mm.todo), mm'.jitter)
    <3>2. UNCHANGED aggr /\ manual_seq' \in {manual_seq, manual_seq + 1}
      <4>1. PrepareOrder(MakerOwner, o) /\ UNCHANGED aggr BY <2>3 DEF MakerPrepare
      <4> HIDE DEF o
      <4>2. QED BY <4>1 DEF PrepareOrder
    <3>3. DOMAIN mm' = DOMAIN mm /\ mm'.seq = mm.seq + 1
      BY <2>3 DEF MakerPrepare, MakerPrepareMove, Counters
    <3>4. QED BY <1>1, <1>2, <3>2, <3>3
  <2>4. CASE MakerSubmit
    <3>1. UNCHANGED <<manual_seq, aggr>>
      BY <2>4 DEF MakerSubmit, Submit
    <3>2. DOMAIN mm' = DOMAIN mm /\ mm'.seq = mm.seq
      BY <2>4 DEF MakerSubmit, MakerSubmitMove, Counters
    <3>3. QED BY <1>3, <3>1, <3>2
  <2>5. QED BY <1>7, <2>1, <2>2, <2>3, <2>4 DEF Maker
<1>8. ASSUME NEW k \in Aggressors, Aggressor(k) PROVE Counters' /\ (InSpan' => InSpan)
  <2>1. UNCHANGED mm /\ manual_seq' \in {manual_seq, manual_seq + 1}
    <3>1. ASSUME NEW o, PrepareOrder(k, o) PROVE manual_seq' \in {manual_seq, manual_seq + 1}
      BY <3>1 DEF PrepareOrder
    <3>2. CASE AggrPrepare(k) BY <3>1, <3>2 DEF AggrPrepare
    <3>3. CASE AggrSubmit(k) \/ AggrEnd(k) BY <3>3 DEF AggrSubmit, AggrEnd, Submit, lvars
    <3>4. QED BY <1>8, <3>2, <3>3 DEF Aggressor, AggrPrepare, AggrSubmit, AggrEnd
  <2>2. \E at \in AggrPlaces, n \in {aggr[k].seq, aggr[k].seq + 1} :
          aggr' = [aggr EXCEPT ![k] = [at |-> at, seq |-> n]]
    <3>1. CASE AggrPrepare(k) BY <3>1 DEF AggrPrepare, AggrPrepareMove, AggrPlaces
    <3>2. ASSUME NEW at \in AggrPlaces, aggr' = [aggr EXCEPT ![k].at = at]
          PROVE aggr' = [aggr EXCEPT ![k] = [at |-> at, seq |-> aggr[k].seq]]
      <4>1. aggr[k] \in [at : AggrPlaces, seq : Nat \ {0}] BY <1>1
      <4>2. [aggr[k] EXCEPT !.at = at] = [at |-> at, seq |-> aggr[k].seq] BY <4>1
      <4>3. QED BY <1>1, <3>2, <4>2
    <3>3. CASE AggrSubmit(k) BY <3>2, <3>3 DEF AggrSubmit, AggrSubmitMove, AggrPlaces
    <3>4. CASE AggrEnd(k) BY <3>2, <3>4 DEF AggrEnd, AggrEndMove, AggrPlaces
    <3>5. QED BY <1>8, <3>1, <3>3, <3>4 DEF Aggressor
  <2>3. PICK at \in AggrPlaces, n \in {aggr[k].seq, aggr[k].seq + 1} :
          aggr' = [aggr EXCEPT ![k] = [at |-> at, seq |-> n]]
    BY <2>2
  <2>4. n \in Nat \ {0} BY <1>1
  <2>5. aggr' \in [Aggressors -> [at : AggrPlaces, seq : Nat \ {0}]]
        /\ \A j \in Aggressors : aggr'[j].seq \in {aggr[j].seq, aggr[j].seq + 1}
    BY <1>1, <2>3, <2>4
  <2>6. QED BY <1>1, <1>2, <2>1, <2>5
<1>9. ASSUME NEW h \in Handlers, HandlerCalls(h) \/ HandlerSubmits(h)
      PROVE Counters' /\ (InSpan' => InSpan)
  <2>1. ASSUME NEW o, PrepareOrder(h, o) PROVE manual_seq' \in {manual_seq, manual_seq + 1}
    BY <2>1 DEF PrepareOrder
  <2>2. ASSUME NEW id, NEW n, CancelOrder(h, id) \/ ModifyOrder(h, id, n) PROVE UNCHANGED manual_seq
    BY <2>2 DEF CancelOrder, ModifyOrder, Edit
  <2>3. manual_seq' \in {manual_seq, manual_seq + 1}
    <3>1. CASE HandlerCalls(h) BY <2>1, <2>2, <3>1 DEF HandlerCalls
    <3>2. CASE HandlerSubmits(h) BY <3>2 DEF HandlerSubmits, Submit
    <3>3. QED BY <1>9, <3>1, <3>2
  <2>4. UNCHANGED <<mm, aggr>> BY <1>9 DEF HandlerCalls, HandlerSubmits, fvars
  <2>5. QED BY <1>1, <1>2, <2>3, <2>4
<1>10. QED BY <1>5, <1>6, <1>7, <1>8, <1>9 DEF GatewayNext, Moves

(* A step that prepares no order hands the orders some threads have prepared to
   the engine. *)
HandsOver(new) ==
  /\ Follows(eng, eng', new)
  /\ \A who \in Numbering : NextNumber(who)' = NextNumber(who)
  /\ caller' \in [Callers -> Prepared \cup {None}] /\ cur_ts' \in Nat
  /\ \A c \in Sending' : c \in Sending /\ caller'[c] = caller[c]
  /\ \A o \in new : \E c \in Sending \ Sending' : o = caller[c].order
  /\ queued' = queued \cup Queued(eng')

(* It keeps the ids of the quotes that rest, or are handed over and rest now. *)
KeepsTrack(new) ==
  \A x \in Resting(eng'.book) :
    /\ OwnerOf(x.id) = MakerOwner
    /\ x.id \in Range(ToCancel) \/ \E n \in new : n.id = x.id
    => x.id \in Range(ToCancel')

LEMMA Handed ==
  ASSUME Typed, OnePlaceEach, MakerKnows, NEW new, HandsOver(new), KeepsTrack(new)
  PROVE Typed' /\ OnePlaceEach' /\ MakerKnows'
<1>1. /\ Orderly(eng') /\ eng'.cfg = eng.cfg
      /\ \A x \in Held(eng') : \E o \in Held(eng) \cup new : o.id = x.id
  BY DEF HandsOver, Follows
<1>2. Typed'
  BY <1>1 DEF Typed, HandsOver
<1>3. Ahead' = Ahead
  BY DEF Ahead, HandsOver
<1>4. \A o \in new : \E c \in Sending \ Sending' : o = caller[c].order
  BY DEF HandsOver
<1>5. \A c \in Sending' : c \in Sending /\ caller'[c] = caller[c]
  BY DEF HandsOver
<1>6. OnePlaceEach'
  <2>1. \A x \in Held(eng') : x.id \notin Ahead'
    <3>1. ASSUME NEW o \in Held(eng) \cup new PROVE o.id \notin Ahead
      BY <1>4, <3>1 DEF OnePlaceEach
    <3>2. QED BY <1>1, <1>3, <3>1
  <2>2. ASSUME NEW c \in Sending'
        PROVE /\ caller'[c].order.id \notin Ahead'
              /\ \A x \in Held(eng') : x.id # caller'[c].order.id
              /\ \A d \in Sending' : c # d => caller'[c].order.id # caller'[d].order.id
    <3>1. c \in Sending /\ caller'[c] = caller[c] BY <1>5, <2>2
    <3>2. caller'[c].order.id \notin Ahead' BY <1>3, <3>1 DEF OnePlaceEach
    <3>3. \A d \in Sending' : c # d => caller'[c].order.id # caller'[d].order.id
      BY <1>5, <3>1 DEF OnePlaceEach
    <3>4. ASSUME NEW o \in new PROVE o.id # caller[c].order.id
      <4>1. PICK d \in Sending \ Sending' : o = caller[d].order BY <1>4, <3>4
      <4>2. d # c BY <2>2, <4>1
      <4>3. QED BY <3>1, <4>1, <4>2 DEF OnePlaceEach
    <3>5. \A o \in Held(eng) : o.id # caller[c].order.id BY <3>1 DEF OnePlaceEach
    <3>6. \A x \in Held(eng') : x.id # caller'[c].order.id BY <1>1, <3>1, <3>4, <3>5
    <3>7. QED BY <3>2, <3>3, <3>6
  <2>3. QED BY <2>1, <2>2 DEF OnePlaceEach
<1>7. MakerKnows'
  <2>1. Queued(eng') \subseteq queued' /\ queued \subseteq queued' BY DEF HandsOver
  <2>2. \A c \in Sending' \ {MakerOwner} : OwnerOf(caller'[c].order.id) # MakerOwner
    BY <1>5 DEF MakerKnows
  <2>3. ASSUME NEW x \in Resting(eng'.book), OwnerOf(x.id) = MakerOwner, x.id \notin queued'
        PROVE x.id \in Range(ToCancel')
    <3>1. x \in Held(eng') BY DEF Held
    <3>2. PICK o \in Held(eng) \cup new : o.id = x.id BY <1>1, <3>1
    <3>3. CASE o \in new BY <2>3, <3>2, <3>3 DEF KeepsTrack
    <3>4. CASE o \in Range(eng.queue)
      <4>1. o.id \in Queued(eng) BY <3>4 DEF Queued, Range
      <4>2. x.id \in queued BY <3>2, <4>1 DEF MakerKnows
      <4>3. QED BY <2>1, <2>3, <4>2
    <3>5. CASE o \in Resting(eng.book)
      <4>1. OwnerOf(o.id) = MakerOwner /\ o.id \notin queued BY <2>1, <2>3, <3>2
      <4>2. o.id \in Range(ToCancel) BY <3>5, <4>1 DEF MakerKnows
      <4>3. QED BY <2>3, <3>2, <4>2 DEF KeepsTrack
    <3>6. QED BY <3>2, <3>3, <3>4, <3>5 DEF Held
  <2>4. QED BY <2>1, <2>2, <2>3 DEF MakerKnows
<1>8. QED BY <1>2, <1>6, <1>7

(* A number that comes next is no number yet. *)
LEMMA NumbersIn ==
  ASSUME Counters, InSpan
  PROVE \A who \in Numbering : NextNumber(who) \in 1 .. IdSpan
<1>1. IdSpan \in Nat
  BY LiveAssumption
<1>2. mm.seq \in 1 .. IdSpan /\ manual_seq \in 1 .. IdSpan
  BY <1>1 DEF Counters, InSpan
<1>3. \A k \in Aggressors : aggr[k].seq \in 1 .. IdSpan
  BY <1>1 DEF Counters, InSpan
<1>4. QED BY <1>2, <1>3 DEF NextNumber, Numbering

LEMMA NextFresh ==
  ASSUME ProperGateway, Counters, InSpan, NEW who \in Numbering, NextNumber(who) < IdSpan
  PROVE /\ MakeOid(who, NextNumber(who)) \in Ahead
        /\ OwnerOf(MakeOid(who, NextNumber(who))) = who
<1> DEFINE n == NextNumber(who)
<1>1. IdSpan \in Nat /\ who \in Nat /\ n \in 1 .. IdSpan - 1
  BY NumbersIn, LiveAssumption DEF ProperGateway, Numbering
<1>2. MakeOid(who, n) \in Ids
  BY <1>1 DEF ProperGateway, Numbering
<1>3. NextNumber(who) <= n
  BY <1>1
<1> HIDE DEF n
<1>4. OwnerOf(MakeOid(who, n)) = who
  BY <1>1, OidOwner
<1>5. MakeOid(who, n) \in Ahead
  BY <1>1, <1>2, <1>3 DEF Ahead
<1>6. QED BY <1>4, <1>5 DEF n

(* A step that prepares an order: it has the next number of its owner, or an id
   that a request has named. *)
Prepares(c, p) ==
  /\ p \in Prepared
  /\ caller' = [caller EXCEPT ![c] = p]
  /\ UNCHANGED <<eng, cur_ts>> /\ queued' = queued \cup Queued(eng')
  /\ ToCancel' = ToCancel

TakesNumber(who, p) ==
  /\ p.order.id = MakeOid(who, NextNumber(who))
  /\ NextNumber(who) < IdSpan /\ NextNumber(who)' = NextNumber(who) + 1
  /\ \A w \in Numbering \ {who} : NextNumber(w)' = NextNumber(w)

(* An id that is taken is ahead no more, and no order has it. *)
Taken(id) == ~InUse(id) /\ id \notin Ahead' /\ Ahead' \subseteq Ahead

LEMMA NumberTaken ==
  ASSUME ProperGateway, Counters, InSpan, OnePlaceEach,
         NEW who \in Numbering, NEW p, TakesNumber(who, p)
  PROVE Taken(p.order.id) /\ OwnerOf(p.order.id) = who
<1> DEFINE id == MakeOid(who, NextNumber(who))
<1>1. /\ p.order.id = id /\ NextNumber(who) < IdSpan /\ NextNumber(who)' = NextNumber(who) + 1
      /\ \A w \in Numbering \ {who} : NextNumber(w)' = NextNumber(w)
  BY DEF TakesNumber
<1>2. id \in Ahead /\ OwnerOf(id) = who
  BY <1>1, NextFresh
<1>3. ~InUse(id)
  BY <1>2 DEF InUse, OnePlaceEach
<1>4. IdSpan \in Nat /\ who \in Nat /\ NextNumber(who) \in 1 .. IdSpan - 1
      /\ \A w \in Numbering : w \in Nat /\ NextNumber(w) \in Nat
  BY <1>1, NumbersIn, LiveAssumption DEF ProperGateway, Numbering
<1>5. ASSUME NEW i \in Ahead' PROVE i \in Ahead /\ i # id
  <2>1. PICK w \in Numbering :
          \E n \in 1 .. IdSpan - 1 : NextNumber(w)' <= n /\ i = MakeOid(w, n)
    BY <1>5 DEF Ahead
  <2>2. PICK n \in 1 .. IdSpan - 1 : NextNumber(w)' <= n /\ i = MakeOid(w, n)
    BY <2>1
  <2>3. NextNumber(w) <= n
    <3>1. CASE w = who BY <1>1, <1>4, <2>2, <3>1
    <3>2. CASE w # who BY <1>1, <2>2, <3>2
    <3>3. QED BY <3>1, <3>2
  <2>4. i \in Ids BY <1>5 DEF Ahead
  <2>5. i \in Ahead BY <2>2, <2>3, <2>4 DEF Ahead
  <2>6. ASSUME i = id PROVE FALSE
    <3> DEFINE m == NextNumber(who)
    <3>1. w \in Nat /\ m \in 1 .. IdSpan - 1 BY <1>4
    <3>2. MakeOid(w, n) = MakeOid(who, m) BY <2>2, <2>6
    <3> HIDE DEF m
    <3>3. w = who /\ n = m
      BY ONLY <1>4, <2>2, <3>1, <3>2, OidsApart
    <3>4. QED BY <1>1, <1>4, <2>2, <3>3 DEF m
  <2>7. QED BY <2>5, <2>6
<1>6. id \notin Ahead' /\ Ahead' \subseteq Ahead
  BY <1>5
<1>7. QED BY <1>1, <1>2, <1>3, <1>6 DEF Taken

LEMMA PreparedOne ==
  ASSUME Typed, OnePlaceEach, MakerKnows, NEW c \in Callers, NEW p, Prepares(c, p),
         Taken(p.order.id), OwnerOf(p.order.id) = MakerOwner => c = MakerOwner
  PROVE Typed' /\ OnePlaceEach' /\ MakerKnows'
<1>1. UNCHANGED <<eng, cur_ts>> /\ queued' = queued \cup Queued(eng)
  BY DEF Prepares
<1>2. p \in Prepared /\ caller' = [caller EXCEPT ![c] = p]
      /\ caller \in [Callers -> Prepared \cup {None}]
  BY DEF Prepares, Typed
<1>3. Typed'
  BY <1>1, <1>2 DEF Typed
<1>4. caller'[c] = p /\ \A d \in Callers \ {c} : caller'[d] = caller[d]
  BY <1>2
<1>5. \A d \in Sending' \ {c} : d \in Sending /\ caller'[d] = caller[d]
  BY <1>4 DEF Sending
<1>6. /\ \A o \in Held(eng) : o.id # p.order.id
      /\ \A d \in Sending : caller[d].order.id # p.order.id
      /\ p.order.id \notin Ahead' /\ Ahead' \subseteq Ahead
  BY DEF Taken, InUse
<1>7. OnePlaceEach'
  <2>1. \A o \in Held(eng') : o.id \notin Ahead' /\ o.id # p.order.id
    BY <1>1, <1>6 DEF OnePlaceEach
  <2>2. \A d \in Sending' \ {c} : caller'[d].order.id \notin Ahead' /\ caller'[d].order.id # p.order.id
                                  /\ \A o \in Held(eng') : o.id # caller'[d].order.id
    BY <1>1, <1>5, <1>6 DEF OnePlaceEach
  <2>3. \A d \in Sending' \ {c}, b \in Sending' \ {c} :
          b # d => caller'[b].order.id # caller'[d].order.id
    BY <1>5 DEF OnePlaceEach
  <2>4. QED BY <1>4, <1>6, <2>1, <2>2, <2>3 DEF OnePlaceEach
<1>8. MakerKnows'
  <2>1. Queued(eng') \subseteq queued' /\ queued \subseteq queued'
    BY <1>1
  <2>2. \A d \in Sending' \ {MakerOwner} : OwnerOf(caller'[d].order.id) # MakerOwner
    BY <1>4, <1>5 DEF MakerKnows
  <2>3. \A o \in Resting(eng'.book) :
          OwnerOf(o.id) = MakerOwner /\ o.id \notin queued' => o.id \in Range(ToCancel')
    BY <1>1, <2>1 DEF MakerKnows, Prepares
  <2>4. QED BY <2>1, <2>2, <2>3 DEF MakerKnows
<1>9. QED BY <1>3, <1>7, <1>8

LEMMA NumbersStay ==
  ASSUME mm'.seq = mm.seq, manual_seq' = manual_seq, \A k \in Aggressors : aggr'[k].seq = aggr[k].seq
  PROVE \A who \in Numbering : NextNumber(who)' = NextNumber(who)
BY DEF NextNumber, Numbering

(* The maker is the only one of its name. *)
LEMMA MakerAlone ==
  /\ MakerOwner \in Callers /\ MakerOwner # ManualOwner
  /\ \A c \in Aggressors \cup Handlers : c \in Callers /\ c # MakerOwner
  /\ ManualOwner \notin Aggressors
BY GatewayAssumption

(* Whatever is not the maker's leaves it where it is. *)
LEMMA OthersStep ==
  ASSUME Quoting, NEW new, HandsOver(new), \A n \in new : OwnerOf(n.id) # MakerOwner,
         UNCHANGED mm, px' \in 0 .. MaxPx, caller'[MakerOwner] = caller[MakerOwner],
         main' = "new" => main = "new"
  PROVE Quoting'
<1>1. ToCancel' = ToCancel
  BY DEF ToCancel
<1>2. KeepsTrack(new)
  BY <1>1 DEF KeepsTrack
<1>3. Typed' /\ OnePlaceEach' /\ MakerKnows'
  BY <1>2, Handed DEF Quoting
<1>4. MakerAtWork'
  BY DEF Quoting, MakerAtWork
<1>5. Bounds'
  <2>1. Tick' = Tick BY DEF HandsOver, Follows, Tick
  <2>2. QED BY <2>1 DEF Quoting, Bounds
<1>6. QED BY <1>3, <1>4, <1>5 DEF Quoting

(* A submission hands its order over, an edit of the book or a flush nothing. *)
LEMMA FlushHands ==
  ASSUME Typed, Follows(eng, eng', {}), \A who \in Numbering : NextNumber(who)' = NextNumber(who),
         UNCHANGED caller, cur_ts' \in Nat, queued' = queued \cup Queued(eng')
  PROVE HandsOver({})
BY DEF HandsOver, Typed, Sending

LEMMA RestsHands ==
  ASSUME Typed, UNCHANGED <<eng, caller>>, \A who \in Numbering : NextNumber(who)' = NextNumber(who),
         cur_ts' \in Nat, queued' = queued \cup Queued(eng')
  PROVE HandsOver({})
<1>1. Follows(eng, eng', {})
  BY DEF Follows, Typed
<1>2. QED BY <1>1, FlushHands

LEMMA EditHands ==
  ASSUME Typed, NEW c, NEW b, Edit(c, b), Follows(eng, [eng EXCEPT !.book = b], {}),
         \A who \in Numbering : NextNumber(who)' = NextNumber(who), queued' = queued \cup Queued(eng')
  PROVE HandsOver({}) /\ UNCHANGED <<caller, manual_seq>>
<1>1. eng' = [eng EXCEPT !.book = b] /\ UNCHANGED <<caller, cur_ts, manual_seq>>
  BY DEF Edit, Rebooked
<1>2. QED BY <1>1, FlushHands DEF Typed

LEMMA SubmitHands ==
  ASSUME Typed, OnePlaceEach, NEW c \in Callers, Submit(c),
         \A who \in Numbering : NextNumber(who)' = NextNumber(who), queued' = queued \cup Queued(eng')
  PROVE /\ HandsOver({caller[c].order}) /\ c \in Sending
        /\ caller'[c] = None /\ \A d \in Callers \ {c} : caller'[d] = caller[d]
<1> DEFINE o == caller[c].order
           ts == caller[c].ts
           r == Process(eng, o, ts)
<1>1. /\ caller[c] # None /\ caller' = [caller EXCEPT ![c] = None]
      /\ eng' = r.eng /\ UNCHANGED <<cur_ts, manual_seq>>
  BY DEF Submit, SubmitMove, Processed
<1>2. /\ caller \in [Callers -> Prepared \cup {None}] /\ cur_ts \in Nat /\ Orderly(eng)
      /\ c \in Sending
  BY <1>1 DEF Typed, Sending
<1>3. o \in Order /\ ts \in Int
  BY <1>1, <1>2 DEF Prepared
<1>4. \A x \in Held(eng) : x.id # o.id
  BY <1>2 DEF OnePlaceEach
<1> HIDE DEF o, ts
<1>5. Follows(eng, eng', {o})
  BY <1>1, <1>2, <1>3, <1>4, ProcessFollows
<1>6. caller'[c] = None /\ \A d \in Callers \ {c} : caller'[d] = caller[d]
  BY <1>1, <1>2
<1>7. caller' \in [Callers -> Prepared \cup {None}]
  BY <1>1, <1>2
<1>8. \A d \in Sending' : d \in Sending /\ caller'[d] = caller[d]
  BY <1>6 DEF Sending
<1>9. c \in Sending \ Sending'
  BY <1>2, <1>6 DEF Sending
<1>10. \A n \in {o} : \E d \in Sending \ Sending' : n = caller[d].order
  BY <1>9 DEF o
<1>11. HandsOver({o})
  BY <1>1, <1>2, <1>5, <1>7, <1>8, <1>10 DEF HandsOver
<1>12. QED BY <1>2, <1>6, <1>11 DEF o

(* The steps of the main thread, the console, the drift, and the ends of the
   other threads, which touch neither the engine nor an order. *)
LEMMA AroundSteps ==
  ASSUME ProperGateway, Control, Counters, Quoting, queued' = queued \cup Queued(eng'),
         \/ ListenReturn \/ FlowJoined \/ WorldJoined \/ Exit \/ Drift \/ Quit \/ QuitMissed
         \/ (WorkerHead \/ WorkerUnlock \/ WorkerEnd) /\ UNCHANGED <<fvars, mvars>>
         \/ \E k \in Aggressors : AggrEnd(k)
         \/ UNCHANGED <<lvars, fvars, mvars>>
  PROVE Quoting'
<1>1. Typed /\ cur_ts \in Nat /\ worker.ts \in Nat /\ px \in 0 .. MaxPx
  BY DEF Quoting, Typed, Control, Bounds
<1>2. ASSUME UNCHANGED <<eng, caller, manual_seq, mm>>, \A k \in Aggressors : aggr'[k].seq = aggr[k].seq,
             cur_ts' \in Nat, px' \in 0 .. MaxPx, main' = "new" => main = "new"
      PROVE Quoting'
  <2>1. HandsOver({})
    BY <1>1, <1>2, NumbersStay, RestsHands
  <2>2. QED BY <1>2, <2>1, OthersStep
<1>3. ASSUME UNCHANGED <<lvars, px, mm, aggr>>, main' = "new" => main = "new"
      PROVE Quoting'
  <2>1. UNCHANGED <<eng, caller, manual_seq, cur_ts>> BY <1>3 DEF lvars
  <2>2. QED BY <1>1, <1>2, <1>3, <2>1
<1>4. CASE ListenReturn \/ Quit \/ QuitMissed \/ UNCHANGED <<lvars, fvars, mvars>>
  BY <1>3, <1>4 DEF ListenReturn, ListenReturnMove, Quit, QuitMissed, fvars, mvars
<1>5. CASE FlowJoined
  <2>1. UNCHANGED <<eng, caller, manual_seq, cur_ts, px, mm, aggr>> /\ main' # "new"
    BY <1>5 DEF FlowJoined, FlowJoinedMove, Stop, lvars, fvars
  <2>2. QED BY <1>1, <1>2, <2>1
<1>6. CASE WorldJoined \/ Exit
  <2>1. UNCHANGED <<eng, caller, manual_seq, cur_ts, px, mm, aggr>> /\ main' # "new"
    BY <1>6 DEF WorldJoined, WorldJoinedMove, Joined, Exit, ExitMove, Destroy, fvars
  <2>2. QED BY <1>1, <1>2, <2>1
<1>7. CASE (WorkerHead \/ WorkerUnlock \/ WorkerEnd) /\ UNCHANGED <<fvars, mvars>>
  <2>1. UNCHANGED <<eng, caller, manual_seq, px, mm, aggr, main>> /\ cur_ts' \in {cur_ts, worker.ts}
    BY <1>7 DEF WorkerHead, WorkerUnlock, WorkerEnd, fvars, mvars
  <2>2. QED BY <1>1, <1>2, <2>1
<1>8. CASE Drift
  <2>1. UNCHANGED <<eng, caller, manual_seq, cur_ts, mm, aggr, main>>
    BY <1>8 DEF Drift, lvars, mvars
  <2>2. px' \in 0 .. MaxPx
    <3>1. eng.cfg.tick_size \in Nat /\ MaxPx \in Nat /\ px \in Nat
      <4>1. eng.cfg \in Configs BY DEF Quoting, Typed
      <4>2. QED BY <1>1, <4>1, GatewayAssumption DEF ProperGateway
    <3>2. \E dir \in -1 .. 1 : px' = IF px + dir * Tick < Tick THEN Tick ELSE px + dir * Tick
      BY <1>8 DEF Drift
    <3>3. px' <= MaxPx BY <1>8 DEF Drift
    <3>4. Tick \in Nat BY <3>1 DEF Tick
    <3>5. px' \in Int /\ px' >= 0 BY <3>1, <3>2, <3>4
    <3>6. QED BY <3>1, <3>3, <3>5
  <2>3. QED BY <1>1, <1>2, <2>1, <2>2
<1>9. ASSUME NEW k \in Aggressors, AggrEnd(k) PROVE Quoting'
  <2>1. UNCHANGED <<lvars, px, mm, main>> /\ aggr' = [aggr EXCEPT ![k].at = "ended"]
    BY <1>9 DEF AggrEnd, AggrEndMove, mvars
  <2>2. \A j \in Aggressors : aggr'[j].seq = aggr[j].seq
    BY <2>1 DEF Counters
  <2>3. UNCHANGED <<eng, caller, manual_seq, cur_ts>> BY <2>1 DEF lvars
  <2>4. QED BY <1>1, <1>2, <2>1, <2>2, <2>3
<1>10. QED BY <1>4, <1>5, <1>6, <1>7, <1>8, <1>9

(* An order that has an id keeps it, one that has none gets the next manual one. *)
LEMMA NamedOrder ==
  ASSUME NEW o \in Order, o.id # 0
  PROVE Numbered(Owned(o)) \in Order /\ Numbered(Owned(o)).id = o.id
<1>1. ManualOwner \in Owners
  BY LiveAssumption
<1>2. Owned(o) \in Order /\ Owned(o).id = o.id
  BY <1>1 DEF Owned, Order
<1>3. Numbered(Owned(o)) = Owned(o)
  BY <1>2 DEF Numbered
<1>4. QED BY <1>2, <1>3

LEMMA ManualOrder ==
  ASSUME NEW o \in Order, o.id = 0, o.owner = ManualOwner, MakeOid(ManualOwner, manual_seq) \in Ids
  PROVE /\ Numbered(Owned(o)) \in Order
        /\ Numbered(Owned(o)).id = MakeOid(ManualOwner, manual_seq)
<1> DEFINE id == MakeOid(ManualOwner, manual_seq)
<1>1. Owned(o) = o
  BY DEF Owned, Order
<1>2. Numbered(o) = [o EXCEPT !.id = id]
  BY DEF Numbered, NextOrderId, MakeOid
<1> HIDE DEF id
<1>3. [o EXCEPT !.id = id] \in Order /\ [o EXCEPT !.id = id].id = id
  BY DEF Order, id
<1>4. QED BY <1>1, <1>2, <1>3 DEF id

(* The price of an order that names none. *)
LEMMA ProperPrices ==
  ASSUME ProperGateway, eng.cfg \in Configs
  PROVE /\ Tick \in Nat /\ Levels \in Nat \ {0} /\ MaxPx \in Nat
        /\ 0 .. MaxPx + (Levels + 2) * Tick \subseteq Prices /\ 0 \in Prices
<1>1. Tick \in Nat /\ Levels \in Nat \ {0} /\ MaxPx \in Nat
      /\ 0 .. MaxPx + (Levels + 2) * Tick \subseteq Prices
  BY GatewayAssumption DEF ProperGateway, Tick
<1>2. (Levels + 2) * Tick \in Nat
  BY <1>1
<1>3. 0 \in 0 .. MaxPx + (Levels + 2) * Tick
  BY <1>1, <1>2
<1>4. QED BY <1>1, <1>3

LEMMA HandledOrder ==
  ASSUME ProperGateway, eng.cfg \in Configs, NEW o \in Orders
  PROVE Handled(o) \in Order /\ Handled(o).id = o.id /\ Handled(o).owner = ManualOwner
<1>1. ManualOwner \in Owners /\ o \in Order /\ 0 \in Prices
  BY LiveAssumption, ProperPrices
<1>2. CASE o.type = "Limit"
  BY <1>1, <1>2 DEF Handled, Order
<1>3. CASE o.type # "Limit"
  <2> DEFINE tif == IF o.tif = "GTC" THEN "IOC" ELSE o.tif
  <2>1. tif \in {"GTC", "IOC", "FOK"} BY <1>1 DEF Order
  <2>2. Handled(o) = [o EXCEPT !.owner = ManualOwner, !.price = 0, !.tif = tif, !.style = "PureMarket"]
    BY <1>3 DEF Handled
  <2> HIDE DEF tif
  <2>3. QED BY <1>1, <2>1, <2>2 DEF Order
<1>4. QED BY <1>2, <1>3

(* What another thread prepares. *)
LEMMA OthersPrepare ==
  ASSUME Quoting, NEW c \in Callers, c # MakerOwner, NEW p, Prepares(c, p),
         Taken(p.order.id), OwnerOf(p.order.id) # MakerOwner, UNCHANGED <<mm, px, main>>
  PROVE Quoting'
<1>1. Typed' /\ OnePlaceEach' /\ MakerKnows'
  BY PreparedOne DEF Quoting
<1>2. caller'[MakerOwner] = caller[MakerOwner]
  BY MakerAlone DEF Prepares, Quoting, Typed
<1>3. MakerAtWork'
  BY <1>2 DEF Quoting, MakerAtWork
<1>4. Bounds'
  BY DEF Quoting, Bounds, Prepares, Tick
<1>5. QED BY <1>1, <1>3, <1>4 DEF Quoting

LEMMA AggrCalls ==
  ASSUME ProperGateway, Counters, InSpan, Counters', InSpan', Quoting, queued' = queued \cup Queued(eng'),
         NEW k \in Aggressors, AggrPrepare(k) \/ AggrSubmit(k)
  PROVE Quoting'
<1>1. /\ aggr \in [Aggressors -> [at : AggrPlaces, seq : Nat \ {0}]]
      /\ aggr[k].seq \in Nat \ {0} /\ IdSpan \in Nat
  BY LiveAssumption DEF Counters
<1>2. k \in Callers /\ k # MakerOwner /\ k # ManualOwner /\ k \in Owners /\ k \in Nat /\ k \in Numbering
  BY GatewayAssumption DEF ProperGateway, Numbering
<1>3. NextNumber(k) = aggr[k].seq /\ NextNumber(k)' = aggr'[k].seq
  BY <1>2 DEF NextNumber
<1>4. CASE AggrPrepare(k)
  <2>1. PICK side \in Sides, qty \in AggrQtys : PrepareOrder(k, AggrOrder(k, side, qty))
    BY <1>4 DEF AggrPrepare
  <2> DEFINE o == AggrOrder(k, side, qty)
             p == [order |-> Numbered(Owned(o)), ts |-> cur_ts]
  <2>2. aggr' = [aggr EXCEPT ![k] = [at |-> "sending", seq |-> aggr[k].seq + 1]]
        /\ UNCHANGED <<mm, px, main>>
    BY <1>4 DEF AggrPrepare, AggrPrepareMove, mvars
  <2>3. aggr'[k].seq = aggr[k].seq + 1 /\ \A j \in Aggressors \ {k} : aggr'[j].seq = aggr[j].seq
    BY <1>1, <2>2
  <2>4. aggr[k].seq < IdSpan
    BY <1>1, <2>3 DEF InSpan
  <2>5. MakeOid(k, aggr[k].seq) \in Ids
    BY <1>2, <1>3, <2>4, NextFresh DEF Ahead
  <2>6. MakeOid(k, aggr[k].seq) # 0
    <3>1. k * IdSpan \in Nat BY <1>1, <1>2
    <3>2. QED BY <1>1, <3>1 DEF MakeOid
  <2>7. o \in Order /\ o.id = MakeOid(k, aggr[k].seq)
    <3>1. 0 \in Prices /\ qty \in Int
      BY ProperPrices, GatewayAssumption DEF Quoting, Typed
    <3>2. QED BY <1>2, <2>5, <3>1 DEF AggrOrder, Order
  <2>8. UNCHANGED <<eng, cur_ts>> /\ caller' = [caller EXCEPT ![k] = p] /\ manual_seq' = manual_seq
    BY <2>1, <2>6, <2>7 DEF PrepareOrder
  <2> HIDE DEF o
  <2>9. p \in Prepared /\ p.order.id = MakeOid(k, aggr[k].seq)
    <3>1. cur_ts \in Nat BY DEF Quoting, Typed
    <3>2. Numbered(Owned(o)) \in Order /\ Numbered(Owned(o)).id = o.id
      BY <2>6, <2>7, NamedOrder
    <3>3. QED BY <2>7, <3>1, <3>2 DEF Prepared
  <2> HIDE DEF p
  <2>10. \A w \in Numbering \ {k} : NextNumber(w)' = NextNumber(w)
    BY <2>2, <2>3, <2>8 DEF NextNumber, Numbering
  <2>11. ToCancel' = ToCancel BY <2>2 DEF ToCancel
  <2>12. Prepares(k, p)
    BY <2>8, <2>9, <2>11 DEF Prepares
  <2>13. TakesNumber(k, p)
    BY <1>3, <2>3, <2>4, <2>9, <2>10 DEF TakesNumber
  <2>14. Taken(p.order.id) /\ OwnerOf(p.order.id) # MakerOwner
    BY <1>2, <2>13, NumberTaken DEF Quoting
  <2>15. QED BY <1>2, <2>2, <2>12, <2>14, OthersPrepare
<1>5. CASE AggrSubmit(k)
  <2>1. Submit(k) /\ UNCHANGED <<mm, px, main>> /\ aggr' = [aggr EXCEPT ![k].at = "head"]
    BY <1>5 DEF AggrSubmit, AggrSubmitMove, mvars
  <2>2. UNCHANGED manual_seq /\ \A j \in Aggressors : aggr'[j].seq = aggr[j].seq
    BY <1>1, <2>1 DEF Submit
  <2>3. \A w \in Numbering : NextNumber(w)' = NextNumber(w)
    BY <2>1, <2>2, NumbersStay
  <2>4. Typed /\ OnePlaceEach /\ px \in 0 .. MaxPx BY DEF Quoting, Bounds
  <2>5. /\ HandsOver({caller[k].order}) /\ k \in Sending
        /\ \A d \in Callers \ {k} : caller'[d] = caller[d]
    BY <1>2, <2>1, <2>3, <2>4, SubmitHands
  <2>6. OwnerOf(caller[k].order.id) # MakerOwner
    BY <1>2, <2>5 DEF Quoting, MakerKnows
  <2>7. caller'[MakerOwner] = caller[MakerOwner]
    BY <1>2, <2>5, MakerAlone
  <2>8. QED BY <2>1, <2>4, <2>5, <2>6, <2>7, OthersStep
<1>6. QED BY <1>4, <1>5

LEMMA HandlerSteps ==
  ASSUME ProperGateway, Counters, InSpan, Counters', InSpan', Quoting, queued' = queued \cup Queued(eng'),
         NamesApart, NEW h \in Handlers, HandlerCalls(h) \/ HandlerSubmits(h)
  PROVE Quoting'
<1>1. h \in Callers /\ h # MakerOwner /\ IdSpan \in Nat /\ manual_seq \in Nat \ {0}
      /\ ManualOwner \in Numbering /\ ManualOwner # MakerOwner
  BY MakerAlone, LiveAssumption DEF Counters, Numbering
<1>2. UNCHANGED <<mm, px, main, aggr>>
  BY DEF HandlerCalls, HandlerSubmits, fvars, mvars
<1>3. Typed /\ OnePlaceEach /\ px \in 0 .. MaxPx /\ Orderly(eng) /\ cur_ts \in Nat /\ eng.cfg \in Configs
  BY DEF Quoting, Bounds, Typed
<1>4. ASSUME UNCHANGED manual_seq PROVE \A w \in Numbering : NextNumber(w)' = NextNumber(w)
  BY <1>2, <1>4, NumbersStay
<1>5. ASSUME NEW o \in Orders, PrepareOrder(h, Handled(o)) PROVE Quoting'
  <2> DEFINE a == Handled(o)
             p == [order |-> Numbered(Owned(a)), ts |-> cur_ts]
  <2>1. a \in Order /\ a.id = o.id /\ a.owner = ManualOwner
    BY <1>3, HandledOrder
  <2>2. o.id # 0 => OwnerOf(o.id) # MakerOwner /\ o.id \notin Ahead /\ ~InUse(o.id)
    BY <1>5 DEF NamesApart
  <2> HIDE DEF a
  <2>3. /\ UNCHANGED <<eng, cur_ts>> /\ caller' = [caller EXCEPT ![h] = p]
        /\ manual_seq' = IF o.id = 0 THEN manual_seq + 1 ELSE manual_seq
    BY <1>5, <2>1 DEF PrepareOrder, a
  <2>4. ToCancel' = ToCancel BY <1>2 DEF ToCancel
  <2>5. CASE o.id = 0
    <3> DEFINE who == ManualOwner
    <3>1. NextNumber(who) = manual_seq /\ NextNumber(who)' = manual_seq + 1 /\ manual_seq < IdSpan
      BY <1>1, <2>3, <2>5 DEF NextNumber, InSpan
    <3>2. MakeOid(who, manual_seq) \in Ids
      BY <1>1, <3>1, NextFresh DEF Ahead
    <3>3. Numbered(Owned(a)) \in Order /\ Numbered(Owned(a)).id = MakeOid(who, manual_seq)
      BY <2>1, <2>5, <3>2, ManualOrder
    <3>4. p \in Prepared /\ p.order.id = MakeOid(who, manual_seq)
      BY <1>3, <3>3 DEF Prepared
    <3> HIDE DEF p
    <3>5. \A w \in Numbering \ {who} : NextNumber(w)' = NextNumber(w)
      BY <1>1, <1>2 DEF NextNumber, Numbering
    <3>6. TakesNumber(who, p)
      BY <3>1, <3>4, <3>5 DEF TakesNumber
    <3>7. Taken(p.order.id) /\ OwnerOf(p.order.id) # MakerOwner
      BY <1>1, <1>3, <3>6, NumberTaken
    <3>8. Prepares(h, p)
      BY <2>3, <2>4, <3>4 DEF Prepares
    <3>9. QED BY <1>1, <1>2, <3>7, <3>8, OthersPrepare
  <2>6. CASE o.id # 0
    <3>1. Numbered(Owned(a)) \in Order /\ Numbered(Owned(a)).id = o.id
      BY <2>1, <2>6, NamedOrder
    <3>2. p \in Prepared /\ p.order.id = o.id
      BY <1>3, <3>1 DEF Prepared
    <3> HIDE DEF p
    <3>3. \A w \in Numbering : NextNumber(w)' = NextNumber(w)
      BY <1>4, <2>3, <2>6
    <3>4. Ahead' = Ahead
      BY <3>3 DEF Ahead
    <3>5. Taken(p.order.id) /\ OwnerOf(p.order.id) # MakerOwner
      BY <2>2, <2>6, <3>2, <3>4 DEF Taken
    <3>6. Prepares(h, p)
      BY <2>3, <2>4, <3>2 DEF Prepares
    <3>7. QED BY <1>1, <1>2, <3>5, <3>6, OthersPrepare
  <2>7. QED BY <2>5, <2>6
<1>6. ASSUME NEW b, Edit(h, b), Follows(eng, [eng EXCEPT !.book = b], {}) PROVE Quoting'
  <2>1. UNCHANGED manual_seq BY <1>6 DEF Edit
  <2>2. HandsOver({}) /\ UNCHANGED caller
    BY <1>3, <1>4, <1>6, <2>1, EditHands
  <2>3. QED BY <1>2, <1>3, <2>2, OthersStep
<1>7. CASE HandlerCalls(h)
  <2>1. CASE \E o \in Orders : PrepareOrder(h, Handled(o))
    BY <1>5, <2>1
  <2>2. CASE \E id \in CancelIds : CancelOrder(h, id)
    BY <1>3, <1>6, <2>2, CancelFollows DEF CancelOrder
  <2>3. CASE \E r \in Reductions : ModifyOrder(h, r[1], r[2])
    <3>1. PICK r \in Reductions : ModifyOrder(h, r[1], r[2]) BY <2>3
    <3>2. r[2] \in Int BY CallAssumption
    <3>3. QED BY <1>3, <1>6, <3>1, <3>2, ModifyFollows DEF ModifyOrder
  <2>4. QED BY <1>7, <2>1, <2>2, <2>3 DEF HandlerCalls
<1>8. CASE HandlerSubmits(h)
  <2>1. Submit(h) /\ UNCHANGED manual_seq BY <1>8 DEF HandlerSubmits, Submit
  <2>2. /\ HandsOver({caller[h].order}) /\ h \in Sending
        /\ \A d \in Callers \ {h} : caller'[d] = caller[d]
    BY <1>1, <1>3, <1>4, <2>1, SubmitHands
  <2>3. OwnerOf(caller[h].order.id) # MakerOwner
    BY <1>1, <2>2 DEF Quoting, MakerKnows
  <2>4. caller'[MakerOwner] = caller[MakerOwner]
    BY <1>1, <2>2, MakerAlone
  <2>5. QED BY <1>2, <1>3, <2>2, <2>3, <2>4, OthersStep
<1>9. QED BY <1>7, <1>8

(* The worker, which has no agents to act for. *)
LEMMA FlushStep ==
  ASSUME Control, Quoting, queued' = queued \cup Queued(eng'), WorkerFlush, UNCHANGED <<fvars, mvars>>
  PROVE Quoting'
<1>1. Typed /\ Orderly(eng) /\ px \in 0 .. MaxPx /\ worker.ts \in Int /\ cur_ts \in Nat
  BY DEF Quoting, Typed, Bounds, Control
<1>2. eng' = Flush(eng, worker.ts).eng /\ UNCHANGED <<caller, cur_ts, manual_seq, mm, px, aggr, main>>
  BY DEF WorkerFlush, Flushed, CachedIfTraded, fvars, mvars
<1>3. Follows(eng, eng', {})
  BY <1>1, <1>2, FlushFollows
<1>4. HandsOver({})
  BY <1>1, <1>2, <1>3, NumbersStay, FlushHands
<1>5. QED BY <1>1, <1>2, <1>4, OthersStep

(* The maker between two calls. *)
LEMMA MakerAlways ==
  ASSUME ProperGateway, Counters, Quoting, queued' = queued \cup Queued(eng'),
         Launch \/ MakerHead \/ MakerRead \/ MakerEnd
  PROVE Quoting'
<1>1. /\ Typed /\ OnePlaceEach /\ MakerKnows /\ Bounds /\ cur_ts \in Nat
      /\ mm.at \in MakerPlaces /\ mm.ids \in Seq(Ids) /\ eng.cfg \in Configs
      /\ main = "new" => mm.at = "none"
      /\ mm.at # "quote" => mm.todo \in Seq(Ids) /\ caller[MakerOwner] = None
  BY DEF Quoting, Typed, MakerAtWork
<1>2. UNCHANGED <<eng, caller, manual_seq, cur_ts, px>>
  BY DEF Launch, Start, MakerHead, MakerRead, MakerEnd, lvars
<1>3. ASSUME mm'.seq = mm.seq, \A k \in Aggressors : aggr'[k].seq = aggr[k].seq,
             Range(ToCancel) \subseteq Range(ToCancel'), MakerAtWork',
             mm'.jitter = mm.jitter, mm'.px = mm.px \/ mm'.px \in 0 .. MaxPx + Tick
      PROVE Quoting'
  <2>1. HandsOver({})
    BY <1>1, <1>2, <1>3, NumbersStay, RestsHands
  <2>2. KeepsTrack({})
    BY <1>3 DEF KeepsTrack
  <2>3. Typed' /\ OnePlaceEach' /\ MakerKnows'
    BY <1>1, <2>1, <2>2, Handed
  <2>4. Tick' = Tick BY <1>2 DEF Tick
  <2>5. Bounds' BY <1>1, <1>2, <1>3, <2>4 DEF Bounds
  <2>6. QED BY <1>3, <2>3, <2>5 DEF Quoting
<1>4. ASSUME aggr' = aggr PROVE \A k \in Aggressors : aggr'[k].seq = aggr[k].seq
  BY <1>4
<1>5. CASE Launch
  <2>1. /\ main = "new" /\ main' = "listening" /\ mm' = [mm EXCEPT !.at = "head"]
        /\ aggr' = [k \in Aggressors |-> [aggr[k] EXCEPT !.at = "head"]]
    BY <1>5 DEF Launch
  <2>2. mm'.at = "head" /\ mm'.todo = mm.todo /\ mm'.ids = mm.ids /\ mm'.seq = mm.seq
        /\ mm'.px = mm.px /\ mm'.jitter = mm.jitter
    BY <2>1 DEF Counters
  <2>3. \A k \in Aggressors : aggr'[k].seq = aggr[k].seq
    BY <2>1 DEF Counters
  <2>4. mm.at = "none" BY <1>1, <2>1
  <2>5. ToCancel = mm.ids /\ ToCancel' = mm.ids
    BY <2>2, <2>4 DEF ToCancel
  <2>6. MakerAtWork'
    BY <1>1, <1>2, <2>1, <2>2, <2>4 DEF MakerAtWork, MakerPlaces
  <2>7. QED BY <1>3, <2>2, <2>3, <2>5, <2>6
<1>6. CASE MakerHead
  <2>1. /\ mm.at = "head" /\ UNCHANGED <<main, aggr>>
        /\ mm' = [mm EXCEPT !.at = IF flow THEN "cancel" ELSE "sweep", !.todo = mm.ids, !.px = 0]
    BY <1>6 DEF MakerHead, MakerHeadMove, mvars
  <2>2. mm'.at \in {"cancel", "sweep"} /\ mm'.todo = mm.ids /\ mm'.ids = mm.ids /\ mm'.seq = mm.seq
        /\ mm'.px = 0 /\ mm'.jitter = mm.jitter
    BY <2>1 DEF Counters
  <2>3. ToCancel = mm.ids /\ ToCancel' = mm.ids
    BY <2>1, <2>2 DEF ToCancel
  <2>4. MakerAtWork'
    <3>1. main' # "new" BY <1>1, <2>1
    <3>2. QED BY <1>1, <1>2, <2>1, <2>2, <3>1 DEF MakerAtWork, MakerPlaces
  <2>5. mm'.px \in 0 .. MaxPx + Tick
    <3>1. MaxPx + Tick \in Nat BY <1>1, ProperPrices
    <3>2. QED BY <2>2, <3>1
  <2>6. QED BY <1>3, <1>4, <2>1, <2>2, <2>3, <2>4, <2>5
<1>7. CASE MakerRead
  <2>1. /\ mm.at = "cancel" /\ UNCHANGED <<main, aggr>>
        /\ mm' = [mm EXCEPT !.at = "quote", !.todo = Ladder, !.px = IF px < Tick THEN Tick ELSE px]
    BY <1>7 DEF MakerRead, MakerReadMove, mvars
  <2>2. mm'.at = "quote" /\ mm'.todo = Ladder /\ mm'.ids = mm.ids /\ mm'.seq = mm.seq
        /\ mm'.px = (IF px < Tick THEN Tick ELSE px) /\ mm'.jitter = mm.jitter
    BY <2>1 DEF Counters
  <2>3. ToCancel = mm.ids /\ ToCancel' = mm.ids
    BY <2>1, <2>2 DEF ToCancel
  <2>4. MakerAtWork'
    <3>1. main' # "new" BY <1>1, <2>1
    <3>2. QED BY <1>1, <2>2, <3>1, LadderRungs DEF MakerAtWork, MakerPlaces
  <2>5. mm'.px \in 0 .. MaxPx + Tick
    <3>1. Tick \in Nat /\ MaxPx \in Nat BY <1>1, ProperPrices
    <3>2. QED BY <1>1, <2>2, <3>1 DEF Bounds
  <2>6. QED BY <1>3, <1>4, <2>1, <2>2, <2>3, <2>4, <2>5
<1>8. CASE MakerEnd
  <2>1. mm.at = "sweep" /\ mm.todo = <<>> /\ UNCHANGED <<main, aggr>> /\ mm' = [mm EXCEPT !.at = "ended"]
    BY <1>8 DEF MakerEnd, MakerEndMove, mvars
  <2>2. mm'.at = "ended" /\ mm'.todo = mm.todo /\ mm'.ids = mm.ids /\ mm'.seq = mm.seq
        /\ mm'.px = mm.px /\ mm'.jitter = mm.jitter
    BY <2>1 DEF Counters
  <2>3. ToCancel = mm.todo /\ ToCancel' = mm.todo
    BY <2>1, <2>2 DEF ToCancel
  <2>4. MakerAtWork'
    <3>1. main' # "new" BY <1>1, <2>1
    <3>2. QED BY <1>1, <1>2, <2>1, <2>2, <3>1 DEF MakerAtWork, MakerPlaces
  <2>5. QED BY <1>3, <1>4, <2>1, <2>2, <2>3, <2>4
<1>9. QED BY <1>5, <1>6, <1>7, <1>8

LEMMA MakerCancels ==
  ASSUME Counters, Quoting, queued' = queued \cup Queued(eng'), MakerCancel
  PROVE Quoting'
<1> DEFINE id == Head(mm.todo)
           b == Cancel(eng.book, id).book
<1>1. /\ Typed /\ Orderly(eng) /\ OnePlaceEach /\ MakerKnows /\ Bounds
      /\ mm.ids \in Seq(Ids)
      /\ main = "new" => mm.at = "none"
      /\ mm.at # "quote" => mm.todo \in Seq(Ids) /\ caller[MakerOwner] = None
      /\ mm.at = "cancel" => mm.todo = mm.ids
      /\ mm.at = "sweep" => Range(mm.todo) \subseteq Range(mm.ids)
  BY DEF Quoting, Typed, MakerAtWork
<1>2. /\ mm.at \in {"cancel", "sweep"} /\ mm.todo # <<>> /\ Edit(MakerOwner, b)
      /\ mm' = [mm EXCEPT !.todo = Tail(mm.todo),
                          !.ids = IF mm.at = "cancel" THEN Tail(mm.ids) ELSE mm.ids]
      /\ UNCHANGED <<main, px, aggr>>
  BY DEF MakerCancel, MakerCancelMove, CancelOrder, mvars
<1>3. /\ mm'.at = mm.at /\ mm'.todo = Tail(mm.todo) /\ mm'.seq = mm.seq
      /\ mm'.ids = (IF mm.at = "cancel" THEN Tail(mm.ids) ELSE mm.ids)
      /\ mm'.px = mm.px /\ mm'.jitter = mm.jitter
  BY <1>2 DEF Counters
<1>4. mm.todo \in Seq(Ids) /\ caller[MakerOwner] = None
  BY <1>1, <1>2
<1>5. /\ Tail(mm.todo) \in Seq(Ids) /\ Range(Tail(mm.todo)) \subseteq Range(mm.todo)
      /\ \A v \in Range(mm.todo) : v # id => v \in Range(Tail(mm.todo))
  BY <1>2, <1>4, TailRange
<1>6. /\ Follows(eng, [eng EXCEPT !.book = b], {})
      /\ \A x \in Resting([eng EXCEPT !.book = b].book) : x.id # id
  BY <1>1, CancelFollows
<1>7. eng' = [eng EXCEPT !.book = b] /\ UNCHANGED manual_seq
  BY <1>2 DEF Edit, Rebooked
<1> HIDE DEF b
<1>8. HandsOver({}) /\ UNCHANGED caller
  BY <1>1, <1>2, <1>3, <1>6, <1>7, NumbersStay, EditHands
<1>9. ToCancel = mm.todo /\ ToCancel' = Tail(mm.todo)
  <2>1. CASE mm.at = "cancel" BY <1>1, <1>3, <2>1 DEF ToCancel
  <2>2. CASE mm.at = "sweep" BY <1>3, <2>2 DEF ToCancel
  <2>3. QED BY <1>2, <2>1, <2>2
<1>10. KeepsTrack({})
  BY <1>5, <1>6, <1>7, <1>9 DEF KeepsTrack
<1>11. Typed' /\ OnePlaceEach' /\ MakerKnows'
  BY <1>1, <1>8, <1>10, Handed
<1>12. MakerAtWork'
  <2>1. mm'.ids \in Seq(Ids) /\ (mm'.at = "cancel" => mm'.todo = mm'.ids)
    BY <1>1, <1>2, <1>3, <1>5
  <2>2. mm'.at = "sweep" => Range(mm'.todo) \subseteq Range(mm'.ids)
    BY <1>1, <1>3, <1>5
  <2>3. main' # "new" /\ mm'.at \in {"cancel", "sweep"} BY <1>1, <1>2, <1>3
  <2>4. mm'.todo \in Seq(Ids) /\ caller'[MakerOwner] = None BY <1>3, <1>4, <1>5, <1>8
  <2>5. QED BY <2>1, <2>2, <2>3, <2>4 DEF MakerAtWork, MakerPlaces
<1>13. Bounds'
  <2>1. Tick' = Tick BY <1>8 DEF HandsOver, Follows, Tick
  <2>2. QED BY <1>1, <1>2, <1>3, <2>1 DEF Bounds
<1>14. QED BY <1>11, <1>12, <1>13 DEF Quoting

(* A quote is an order, at a price of the instance. *)
LEMMA QuotePriced ==
  ASSUME Tick \in Nat, MaxPx \in Nat, Levels \in Nat \ {0},
         NEW rung \in Rungs, NEW f \in 0 .. MaxPx + Tick, NEW j \in -Tick .. Tick
  PROVE QuotePrice(rung, f, j) \in 0 .. MaxPx + (Levels + 2) * Tick
<1> DEFINE off == rung.level * Tick
           top == Levels * Tick
<1>1. rung.level \in 1 .. Levels
  BY DEF Rungs
<1>2. off \in Nat /\ top \in Nat /\ off <= top
  BY <1>1, Ordered
<1>3. (Levels + 2) * Tick = top + 2 * Tick
  OBVIOUS
<1>4. QuotePrice(rung, f, j) \in {Tick, Tick + off, f - off + j, f + off + j}
      /\ (QuotePrice(rung, f, j) \in {Tick, Tick + off} \/ QuotePrice(rung, f, j) >= Tick)
  <2> HIDE DEF off
  <2>1. f \in Int /\ j \in Int /\ Tick \in Int OBVIOUS
  <2>2. QED BY <1>2, <2>1 DEF QuotePrice, off
<1> HIDE DEF off, top
<1>5. QuotePrice(rung, f, j) \in Int /\ QuotePrice(rung, f, j) >= 0
      /\ QuotePrice(rung, f, j) <= MaxPx + (top + 2 * Tick)
  BY <1>2, <1>4
<1>6. MaxPx + (top + 2 * Tick) \in Int
  BY <1>2
<1>7. QED BY <1>3, <1>5, <1>6

LEMMA MakerPrepares ==
  ASSUME ProperGateway, Counters, InSpan, InSpan', Quoting, queued' = queued \cup Queued(eng'),
         MakerPrepare
  PROVE Quoting'
<1> DEFINE rung == Head(mm.todo)
           o == Quote(rung, mm'.jitter)
           p == [order |-> Numbered(Owned(o)), ts |-> cur_ts]
           id == MakeOid(MakerOwner, mm.seq)
<1>1. /\ Typed /\ OnePlaceEach /\ MakerKnows /\ Bounds /\ MakerAtWork /\ cur_ts \in Nat
      /\ eng.cfg \in Configs
  BY DEF Quoting, Typed
<1>2. /\ MakerOwner \in Callers /\ MakerOwner \in Numbering /\ MakerOwner # ManualOwner
      /\ MakerOwner \in Owners /\ MakerOwner \in Nat /\ MakerOwner \notin Aggressors
      /\ mm.seq \in Nat \ {0} /\ IdSpan \in Nat
  BY MakerAlone, GatewayAssumption, LiveAssumption DEF Counters, Numbering, ProperGateway
<1>3. PICK j \in Jitters(rung) : mm' = [mm EXCEPT !.jitter = j, !.seq = mm.seq + 1]
  BY DEF MakerPrepare, MakerPrepareMove
<1>4. mm.at = "quote" /\ PrepareOrder(MakerOwner, o) /\ UNCHANGED <<main, px, aggr>>
  BY DEF MakerPrepare, MakerPrepareMove, mvars
<1>5. /\ mm'.at = mm.at /\ mm'.todo = mm.todo /\ mm'.ids = mm.ids /\ mm'.px = mm.px
      /\ mm'.jitter = j /\ mm'.seq = mm.seq + 1
  BY <1>3 DEF Counters
<1>6. /\ Tick \in Nat /\ Levels \in Nat \ {0} /\ MaxPx \in Nat
      /\ 0 .. MaxPx + (Levels + 2) * Tick \subseteq Prices
  BY <1>1, ProperPrices
<1>7. rung \in Rungs
  <2>1. mm.todo \in Seq(Rungs) /\ mm.todo # <<>> BY <1>1, <1>4 DEF MakerAtWork
  <2>2. QED BY <2>1, TailRange
<1>8. j \in -Tick .. Tick
  <2>1. CASE j = mm.jitter BY <1>1, <2>1 DEF Bounds
  <2>2. ASSUME NEW n \in JitterSteps, j = n * Tick PROVE j \in -Tick .. Tick
    <3>1. n = -1 \/ n = 0 \/ n = 1 BY GatewayAssumption
    <3>2. j = -Tick \/ j = 0 \/ j = Tick BY <1>6, <2>2, <3>1
    <3>3. QED BY <1>6, <3>2
  <2>3. QED BY <2>1, <2>2 DEF Jitters
<1>9. mm.seq < IdSpan
  BY <1>2, <1>5 DEF InSpan
<1>10. NextNumber(MakerOwner) = mm.seq /\ NextNumber(MakerOwner)' = mm.seq + 1
  BY <1>5 DEF NextNumber
<1>11. id \in Ids
  BY <1>2, <1>9, <1>10, NextFresh DEF Ahead
<1>12. id # 0
  <2>1. MakerOwner * IdSpan \in Nat BY <1>2
  <2>2. QED BY <1>2, <2>1 DEF MakeOid
<1>13. o \in Order /\ o.id = id
  <2> DEFINE price == QuotePrice(rung, mm.px, mm'.jitter)
             qty == QuoteQty(rung)
  <2>1. price \in Prices
    BY <1>1, <1>5, <1>6, <1>7, <1>8, QuotePriced DEF Bounds
  <2>2. qty \in Int
    <3>1. QtyL1 \in Int /\ QtyStep \in Int /\ rung.level \in Int
      BY <1>7, GatewayAssumption DEF Rungs
    <3>2. QED BY <3>1 DEF QuoteQty
  <2>3. rung.side \in Sides BY <1>7 DEF Rungs
  <2>4. o = [id |-> id, side |-> rung.side, type |-> "Limit", price |-> price, qty |-> qty,
             owner |-> MakerOwner, tif |-> "GTC", style |-> "PureMarket"]
    BY DEF Quote
  <2> HIDE DEF price, qty, id, o, rung
  <2>5. QED BY <1>2, <1>11, <2>1, <2>2, <2>3, <2>4 DEF Order
<1> HIDE DEF o
<1>14. /\ UNCHANGED <<eng, cur_ts>> /\ caller' = [caller EXCEPT ![MakerOwner] = p]
       /\ manual_seq' = manual_seq
  BY <1>4, <1>12, <1>13 DEF PrepareOrder
<1>15. p \in Prepared /\ p.order.id = id
  <2>1. Numbered(Owned(o)) \in Order /\ Numbered(Owned(o)).id = o.id
    BY <1>12, <1>13, NamedOrder
  <2>2. QED BY <1>1, <1>13, <2>1 DEF Prepared
<1> HIDE DEF p
<1>16. \A w \in Numbering \ {MakerOwner} : NextNumber(w)' = NextNumber(w)
  BY <1>4, <1>14 DEF NextNumber, Numbering
<1>17. ToCancel' = ToCancel BY <1>5 DEF ToCancel
<1>18. Prepares(MakerOwner, p) /\ TakesNumber(MakerOwner, p)
  BY <1>9, <1>10, <1>14, <1>15, <1>16, <1>17 DEF Prepares, TakesNumber
<1>19. Typed' /\ OnePlaceEach' /\ MakerKnows'
  <2>1. Taken(p.order.id) BY <1>1, <1>2, <1>18, NumberTaken
  <2>2. QED BY <1>1, <1>2, <1>18, <2>1, PreparedOne
<1>20. MakerAtWork'
  BY <1>1, <1>4, <1>5 DEF MakerAtWork
<1>21. Bounds'
  <2>1. Tick' = Tick BY <1>14 DEF Tick
  <2>2. QED BY <1>1, <1>4, <1>5, <1>8, <2>1 DEF Bounds
<1>22. QED BY <1>19, <1>20, <1>21 DEF Quoting

LEMMA MakerSubmits ==
  ASSUME Counters, Quoting, queued' = queued \cup Queued(eng'), MakerSubmit
  PROVE Quoting'
<1> DEFINE o == caller[MakerOwner].order
<1>1. /\ Typed /\ OnePlaceEach /\ MakerKnows /\ Bounds /\ mm.ids \in Seq(Ids)
      /\ main = "new" => mm.at = "none"
      /\ mm.at = "quote" => mm.todo \in Seq(Rungs) /\ mm.todo # <<>>
  BY DEF Quoting, MakerAtWork
<1>2. /\ mm.at = "quote" /\ Submit(MakerOwner) /\ UNCHANGED <<main, px, aggr>>
      /\ mm' = [mm EXCEPT !.ids = Append(mm.ids, o.id),
                          !.todo = Tail(mm.todo),
                          !.at = IF Len(mm.todo) = 1 THEN "head" ELSE "quote",
                          !.jitter = IF Head(mm.todo).side = "Sell" THEN 0 ELSE mm.jitter]
  BY DEF MakerSubmit, MakerSubmitMove, Remembered, mvars
<1>3. /\ mm'.ids = Append(mm.ids, o.id) /\ mm'.todo = Tail(mm.todo)
      /\ mm'.at = (IF Len(mm.todo) = 1 THEN "head" ELSE "quote")
      /\ mm'.jitter \in {0, mm.jitter} /\ mm'.seq = mm.seq /\ mm'.px = mm.px
  BY <1>2 DEF Counters
<1>4. UNCHANGED manual_seq
  BY <1>2 DEF Submit
<1>5. \A w \in Numbering : NextNumber(w)' = NextNumber(w)
  BY <1>2, <1>3, <1>4, NumbersStay
<1>6. /\ HandsOver({o}) /\ MakerOwner \in Sending /\ caller'[MakerOwner] = None
  BY <1>1, <1>2, <1>5, MakerAlone, SubmitHands
<1>7. o.id \in Ids
  BY <1>1, <1>6 DEF Typed, Sending, Prepared, Order
<1>8. Append(mm.ids, o.id) \in Seq(Ids) /\ Range(Append(mm.ids, o.id)) = Range(mm.ids) \cup {o.id}
  BY <1>1, <1>7, AppendRange
<1>9. ToCancel = mm.ids /\ ToCancel' = Append(mm.ids, o.id)
  BY <1>2, <1>3 DEF ToCancel
<1>10. KeepsTrack({o})
  BY <1>8, <1>9 DEF KeepsTrack
<1>11. Typed' /\ OnePlaceEach' /\ MakerKnows'
  BY <1>1, <1>6, <1>10, Handed
<1>12. MakerAtWork'
  <2>1. Tail(mm.todo) \in Seq(Rungs) /\ (Len(mm.todo) = 1 <=> Tail(mm.todo) = <<>>)
    BY <1>1, <1>2, TailRange
  <2>2. main' # "new" BY <1>1, <1>2
  <2>3. CASE Len(mm.todo) = 1
    <3>1. mm'.at = "head" /\ mm'.todo = <<>> /\ mm'.ids \in Seq(Ids) BY <1>3, <1>8, <2>1, <2>3
    <3>2. <<>> \in Seq(Ids) OBVIOUS
    <3>3. QED BY <1>6, <2>2, <3>1, <3>2 DEF MakerAtWork, MakerPlaces
  <2>4. CASE Len(mm.todo) # 1
    <3>1. mm'.at = "quote" /\ mm'.todo \in Seq(Rungs) /\ mm'.todo # <<>> /\ mm'.ids \in Seq(Ids)
      BY <1>3, <1>8, <2>1, <2>4
    <3>2. QED BY <2>2, <3>1 DEF MakerAtWork, MakerPlaces
  <2>5. QED BY <2>3, <2>4
<1>13. Bounds'
  <2>1. Tick' = Tick BY <1>6 DEF HandsOver, Follows, Tick
  <2>2. mm'.jitter \in -Tick .. Tick
    <3>1. mm.jitter \in -Tick .. Tick /\ Tick \in Int
      <4>1. eng.cfg \in Configs BY <1>1 DEF Typed
      <4>2. QED BY <1>1, <4>1, LiveAssumption DEF Bounds, Tick, RulesConfig
    <3>2. QED BY <1>3, <3>1
  <2>3. QED BY <1>1, <1>2, <1>3, <2>1, <2>2 DEF Bounds
<1>14. QED BY <1>11, <1>12, <1>13 DEF Quoting

(* The steps of the gateway are these. *)
LEMMA QuotingNext ==
  ASSUME ProperGateway, Control, worker.todo = <<>>, Counters, InSpan, Counters', InSpan', Quoting,
         GatewayNext, NamesApart
  PROVE Quoting'
<1>1. queued' = queued \cup Queued(eng')
  BY DEF GatewayNext
<1>2. CASE ListenReturn \/ FlowJoined \/ WorldJoined \/ Exit \/ Drift \/ Quit \/ QuitMissed
  BY <1>1, <1>2, AroundSteps
<1>3. CASE Worker /\ UNCHANGED <<fvars, mvars>>
  <2>1. ~WorkerAct BY DEF WorkerAct, ActMove
  <2>2. CASE WorkerFlush BY <1>1, <1>3, <2>2, FlushStep
  <2>3. CASE WorkerHead \/ WorkerUnlock \/ WorkerEnd BY <1>1, <1>3, <2>3, AroundSteps
  <2>4. QED BY <1>3, <2>1, <2>2, <2>3 DEF Worker
<1>4. CASE Launch \/ Maker
  BY <1>1, <1>4, MakerAlways, MakerCancels, MakerPrepares, MakerSubmits DEF Maker
<1>5. ASSUME NEW k \in Aggressors, Aggressor(k) PROVE Quoting'
  BY <1>1, <1>5, AroundSteps, AggrCalls DEF Aggressor
<1>6. ASSUME NEW h \in Handlers, HandlerCalls(h) \/ HandlerSubmits(h) PROVE Quoting'
  BY <1>1, <1>6, HandlerSteps
<1>7. CASE Over /\ UNCHANGED <<fvars, mvars>>
  <2>1. UNCHANGED <<lvars, fvars, mvars>> BY <1>7 DEF Over
  <2>2. QED BY <1>1, <2>1, AroundSteps
<1>8. QED BY <1>2, <1>3, <1>4, <1>5, <1>6, <1>7 DEF GatewayNext, Moves

(* The worker goes its way, and has no agents. *)
LEMMA GatewayControl ==
  ASSUME ProperGateway, Control, worker.todo = <<>>, GatewayNext
  PROVE Control' /\ worker'.todo = <<>>
<1>1. ASSUME UNCHANGED <<worker, running, stop, owner>> PROVE Control' /\ worker'.todo = <<>>
  BY <1>1 DEF Control, Awaited, RestMeansEnded, CleanUnlessHorizon
<1>2. CASE Worker
  <2>1. Control' BY <1>2, WorkerControl
  <2>2. worker \in [at : WorkerPlaces, ts : Nat, todo : Seq(Action)]
        /\ (worker.at = "waiting" => worker.ts \in 0 .. Horizon)
    BY LiveAssumption DEF Control
  <2>3. ~WorkerAct BY DEF WorkerAct, ActMove
  <2>4. CASE WorkerFlush
    <3>1. PICK acts \in AgentSteps[worker.ts] : worker' = [worker EXCEPT !.at = "step", !.todo = acts]
      BY <2>4 DEF WorkerFlush, FlushMove
    <3>2. worker.ts \in 0 .. Horizon BY <2>2, <2>4 DEF WorkerFlush, FlushMove
    <3>3. acts = <<>> BY <3>1, <3>2 DEF ProperGateway
    <3>4. QED BY <2>1, <2>2, <3>1, <3>3
  <2>5. CASE WorkerHead \/ WorkerUnlock \/ WorkerEnd
    <3>1. worker'.todo = worker.todo
      BY <2>2, <2>5 DEF WorkerHead, WorkerUnlock, WorkerEnd, HeadMove, UnlockMove, EndMove
    <3>2. QED BY <2>1, <3>1
  <2>6. QED BY <1>2, <2>3, <2>4, <2>5 DEF Worker
<1>3. CASE Start \/ Stop \/ Destroy \/ Joined
  <2>1. Control' BY <1>3, OwnerControl
  <2>2. worker' \in {worker, NewWorker, NoWorker}
    BY <1>3 DEF Start, Stop, Destroy, Joined
  <2>3. NewWorker.todo = <<>> /\ NoWorker.todo = <<>> BY DEF NewWorker, NoWorker
  <2>4. QED BY <2>1, <2>2, <2>3
<1>4. CASE Launch \/ FlowJoined \/ WorldJoined \/ Exit
  BY <1>1, <1>3, <1>4 DEF Launch, FlowJoined, WorldJoined, Exit, lvars
<1>5. CASE ListenReturn \/ Quit \/ QuitMissed \/ Drift \/ Over
  BY <1>1, <1>5 DEF ListenReturn, Quit, QuitMissed, Drift, Over, lvars
<1>6. ASSUME NEW c, NEW o, PrepareOrder(c, o) PROVE Control' /\ worker'.todo = <<>>
  BY <1>1, <1>6 DEF PrepareOrder
<1>7. ASSUME NEW c, NEW b, Edit(c, b) PROVE Control' /\ worker'.todo = <<>>
  BY <1>1, <1>7 DEF Edit
<1>8. ASSUME NEW c, Submit(c) PROVE Control' /\ worker'.todo = <<>>
  BY <1>1, <1>8 DEF Submit
<1>9. CASE Maker
  <2>1. CASE MakerHead \/ MakerRead \/ MakerEnd
    BY <1>1, <2>1 DEF MakerHead, MakerRead, MakerEnd, lvars
  <2>2. CASE MakerCancel \/ MakerPrepare \/ MakerSubmit
    BY <1>6, <1>7, <1>8, <2>2 DEF MakerCancel, CancelOrder, MakerPrepare, MakerSubmit
  <2>3. QED BY <1>9, <2>1, <2>2 DEF Maker
<1>10. ASSUME NEW k \in Aggressors, Aggressor(k) PROVE Control' /\ worker'.todo = <<>>
  <2>1. CASE AggrEnd(k) BY <1>1, <2>1 DEF AggrEnd, lvars
  <2>2. CASE AggrPrepare(k) \/ AggrSubmit(k) BY <1>6, <1>8, <2>2 DEF AggrPrepare, AggrSubmit
  <2>3. QED BY <1>10, <2>1, <2>2 DEF Aggressor
<1>11. ASSUME NEW h \in Handlers, HandlerCalls(h) \/ HandlerSubmits(h)
       PROVE Control' /\ worker'.todo = <<>>
  BY <1>6, <1>7, <1>8, <1>11 DEF HandlerCalls, HandlerSubmits, CancelOrder, ModifyOrder
<1>12. QED BY <1>2, <1>4, <1>5, <1>9, <1>10, <1>11 DEF GatewayNext, Moves

LEMMA GatewayStarts ==
  ASSUME ProperGateway, GatewayInit
  PROVE GInv
<1>1. LiveInit /\ worker = NoWorker /\ NoWorker.todo = <<>>
  BY DEF GatewayInit, LiveInit, NoWorker
<1>2. Control
  BY <1>1, ControlInit
<1>3. PICK cfg \in Configs : eng = NewEngine(cfg)
  BY <1>1 DEF LiveInit
<1>4. mm.at = "none" /\ mm.todo = <<>> /\ mm.ids = <<>> /\ mm.seq = 1 /\ mm.px = 0 /\ mm.jitter = 0
      /\ DOMAIN mm = {"at", "todo", "ids", "seq", "px", "jitter"}
  BY DEF GatewayInit
<1>5. manual_seq = 1 /\ cur_ts = 0 /\ caller = [c \in Callers |-> None] /\ queued = {} /\ main = "new"
      /\ aggr = [k \in Aggressors |-> [at |-> "none", seq |-> 1]]
  BY DEF GatewayInit, LiveInit
<1>6. Counters
  BY <1>4, <1>5 DEF Counters, AggrPlaces
<1>7. GoodEngine(eng) /\ eng.cfg = cfg /\ Resting(eng.book) = {} /\ eng.queue = <<>> /\ Tidy(eng.book)
  <2>1. NewEngine(cfg).book = EmptyBook /\ NewEngine(cfg).queue = <<>> /\ NewEngine(cfg).cfg = cfg
    BY DEF NewEngine
  <2>2. GoodEngine(eng)
    BY <1>3, LiveAssumption, NewEngineGood
  <2>3. Resting(EmptyBook) = {} /\ Tidy(EmptyBook)
    BY EmptyTidy
  <2>4. QED BY <1>3, <2>1, <2>2, <2>3
<1>8. Range(eng.queue) = {} /\ Distinct(eng.queue) /\ Queued(eng) = {}
  BY <1>7, EmptyRange DEF Queued
<1>9. Held(eng) = {} /\ Orderly(eng)
  BY <1>7, <1>8 DEF Held, Orderly, Placed, Apart
<1>10. Typed /\ OnePlaceEach /\ MakerKnows
  BY <1>5, <1>7, <1>8, <1>9 DEF Typed, OnePlaceEach, MakerKnows, Sending
<1>11. MakerAtWork
  <2>1. <<>> \in Seq(Ids) OBVIOUS
  <2>2. QED BY <1>4, <1>5, <2>1, MakerAlone DEF MakerAtWork, MakerPlaces
<1>12. Bounds
  <2>1. Tick \in Nat /\ MaxPx \in Nat /\ px \in 0 .. MaxPx
    BY <1>7, ProperPrices DEF GatewayInit, ProperGateway
  <2>2. QED BY <1>4, <2>1 DEF Bounds
<1>13. QED BY <1>1, <1>2, <1>6, <1>10, <1>11, <1>12 DEF GInv, Quoting

LEMMA GatewayKeeps ==
  ASSUME ProperGateway, GInv, [GatewayNext]_gvars, [NamesApart]_gvars
  PROVE GInv'
<1>1. CASE UNCHANGED gvars
  <2>1. UNCHANGED <<eng, cur_ts, running, stop, manual_seq, worker, caller, owner, px, mm, aggr, main, queued>>
    BY <1>1 DEF gvars, lvars, fvars, mvars
  <2>2. Control' BY <2>1 DEF GInv, Control, Awaited, RestMeansEnded, CleanUnlessHorizon
  <2>3. Counters' /\ (InSpan' <=> InSpan) BY <2>1 DEF GInv, Counters, InSpan
  <2>4. Typed' <=> Typed BY <2>1 DEF Typed
  <2>5. OnePlaceEach' <=> OnePlaceEach BY <2>1 DEF OnePlaceEach, Sending, Ahead, NextNumber
  <2>6. MakerAtWork' <=> MakerAtWork BY <2>1 DEF MakerAtWork
  <2>7. MakerKnows' <=> MakerKnows BY <2>1 DEF MakerKnows, ToCancel, Sending
  <2>8. Bounds' <=> Bounds BY <2>1 DEF Bounds, Tick
  <2>9. QED BY <2>1, <2>2, <2>3, <2>4, <2>5, <2>6, <2>7, <2>8 DEF GInv, Quoting
<1>2. CASE GatewayNext /\ NamesApart
  <2>1. Counters' /\ (InSpan' => InSpan) BY <1>2, CountersUp DEF GInv
  <2>2. Control' /\ worker'.todo = <<>> BY <1>2, GatewayControl DEF GInv
  <2>3. InSpan' => Quoting' BY <1>2, <2>1, QuotingNext DEF GInv
  <2>4. QED BY <2>1, <2>2, <2>3 DEF GInv
<1>3. QED BY <1>1, <1>2

(* The gateway with clients that name ids of their own. *)
ServedSpec == GatewaySpec /\ [][NamesApart]_gvars

LEMMA GatewayAlways == ProperGateway => (ServedSpec => []GInv)
<1> SUFFICES ASSUME ProperGateway PROVE ServedSpec => []GInv
  OBVIOUS
<1>1. GatewayInit => GInv
  BY GatewayStarts
<1>2. GInv /\ [GatewayNext]_gvars /\ [NamesApart]_gvars => GInv'
  BY GatewayKeeps
<1>3. QED BY <1>1, <1>2, PTL DEF ServedSpec, GatewaySpec, gvars

(* A quote that can still trade is one the maker remembers, or has waited in the
   queue of an auction: no interleaving of the maker's calls with the worker,
   the aggressors and the handlers lets a ladder outlive its replacement.  A
   request leaves the id to the world or names one that is free (NamesApart). *)
THEOREM GatewayLadder == ProperGateway => (ServedSpec => [](InSpan => LadderRemembered))
<1> SUFFICES ASSUME ProperGateway PROVE ServedSpec => [](InSpan => LadderRemembered)
  OBVIOUS
<1>1. GInv => (InSpan => LadderRemembered)
  <2> SUFFICES ASSUME MakerKnows, MakerAtWork,
                      NEW id \in LiveIds \ queued, OwnerOf(id) = MakerOwner
               PROVE \E i \in DOMAIN mm.ids : mm.ids[i] = id
    BY DEF GInv, Quoting, LadderRemembered
  <2>1. PICK o \in Resting(eng.book) : o.id = id
    BY DEF MakerKnows, LiveIds
  <2>2. id \in Range(ToCancel)
    BY <2>1 DEF MakerKnows
  <2>3. id \in Range(mm.ids)
    <3>1. CASE mm.at = "ended" BY <2>2, <3>1, EmptyRange DEF ToCancel, MakerAtWork
    <3>2. CASE mm.at # "ended" BY <2>2, <3>2 DEF ToCancel, MakerAtWork
    <3>3. QED BY <3>1, <3>2
  <2>4. QED BY <2>3 DEF Range
<1>2. QED BY <1>1, GatewayAlways, PTL

(* When the flow threads are joined the maker has left nothing in the book but
   what an auction has kept from its sweep, wherever the stop met it, whichever
   free ids the requests have named. *)
THEOREM GatewaySweeps == ProperGateway => (ServedSpec => [](InSpan => ShutdownSweeps))
<1> SUFFICES ASSUME ProperGateway PROVE ServedSpec => [](InSpan => ShutdownSweeps)
  OBVIOUS
<1>1. GInv => (InSpan => ShutdownSweeps)
  <2> SUFFICES ASSUME MakerKnows, MakerAtWork, mm.at = "ended",
                      NEW id \in LiveIds \ queued, OwnerOf(id) = MakerOwner
               PROVE FALSE
    BY DEF GInv, Quoting, ShutdownSweeps
  <2>1. PICK o \in Resting(eng.book) : o.id = id
    BY DEF MakerKnows, LiveIds
  <2>2. id \in Range(ToCancel)
    BY <2>1 DEF MakerKnows
  <2>3. QED BY <2>2, EmptyRange DEF ToCancel, MakerAtWork
<1>2. QED BY <1>1, GatewayAlways, PTL
=============================================================================
