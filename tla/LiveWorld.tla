----------------------------- MODULE LiveWorld -----------------------------
(***************************************************************************)
(* class LiveWorld (src/live_world.cpp): a worker thread steps the engine, *)
(* other threads submit, cancel and modify, readers look at a cache, and   *)
(* an owner starts, stops and destroys the object.                         *)
(*                                                                         *)
(* engine_mtx_ is held from the worker's flush to the end of its step and  *)
(* through each call of another thread.  Such a call touches nothing the   *)
(* others can see before its one update of the cache, so it is one action; *)
(* the worker's step is one action per update of the cache.  Readers need  *)
(* no action: they see the value of cache.                                 *)
(***************************************************************************)
EXTENDS Engine, SequencesExt

CONSTANTS
  Configs,      \* the configurations to start from
  Callers,      \* the threads that call submit_order, cancel_order, modify_qty
  Orders,       \* the orders they submit; owner 0 names none, id 0 asks for one
  CancelIds,    \* the ids they cancel
  Reductions,   \* the pairs <<id, new_qty>> they modify
  AgentSteps,   \* ts -> the sequences of actions the agents may take
  dt_ns,        \* cfg_.dt_ns
  Horizon,      \* t_end
  MaxClock,     \* bound on the time of the worker, beyond Horizon unless that is out of reach
  IdSpan,       \* order ids per owner: 2^32 in the code
  ManualOwner,  \* the owner of an order that names none: 999 in the code
  max_cache_trades, max_cache_tops, depth_cache_levels,
  MaxStarts,    \* bound on the calls of start()
  MaxCalls      \* bound on the calls of the other threads

ASSUME LiveAssumption ==
  /\ Configs \subseteq RulesConfig /\ Orders \subseteq Order
  /\ ManualOwner \in Owners
  /\ dt_ns \in Int /\ {Horizon, MaxClock} \subseteq Nat /\ IdSpan \in Nat \ {0}
  /\ {max_cache_trades, max_cache_tops, depth_cache_levels, MaxStarts, MaxCalls} \subseteq Nat

(* struct Action *)
Action ==
  [type : {"Submit"}, order : Order] \cup [type : {"Cancel"}, id : Ids]
    \cup [type : {"ModifyQty"}, id : Ids, new_qty : Int]

VARIABLES
  eng,         \* engine_
  cache,       \* cache_
  cur_ts,      \* cur_ts_
  running,     \* running_
  stop,        \* stop_
  manual_seq,  \* manual_seq_
  worker,      \* the worker thread: where it is, its ts, the actions it has left
  caller,      \* the submission each thread has prepared, or None
  owner,       \* what the owner of the object does
  starts,      \* history: how often the worker has been started
  calls        \* history: how many calls the other threads have made

lvars == <<eng, cache, cur_ts, running, stop, manual_seq, worker, caller, owner, starts, calls>>

(* The worker holds engine_mtx_ in its step, and for ever in a call that does
   not return. *)
Unlocked == worker.at # "step" /\ ~eng.spinning

Alive == owner \notin {"destroyed", "terminated"}

----------------------------------------------------------------------------
(* The cache and its readers. *)

(* The prices of the levels of a side, best first. *)
Ranked(side, side_levels) ==
  CHOOSE s \in [1 .. Cardinality(DOMAIN side_levels) -> DOMAIN side_levels] :
    \A i, j \in DOMAIN s : i < j => Better(side, s[i], s[j])

(* OrderBook::depth, the totals of the best levels *)
Depth(book, side, levels) ==
  LET prices == Ranked(side, book.levels[side])
  IN  [i \in 1 .. Smaller(levels, Len(prices)) |->
         [price |-> prices[i], qty |-> book.levels[side][prices[i]].total_qty]]

(* push_back, then pop_front above the bound *)
Latest(s, bound) == IF Len(s) > bound THEN SubSeq(s, Len(s) - bound + 1, Len(s)) ELSE s

ShownBy(e) ==
  [bid |-> Best(e.book, "Buy"), ask |-> Best(e.book, "Sell"), last_trade |-> e.last,
   depth |-> [side \in Sides |-> Depth(e.book, side, depth_cache_levels)]]

EmptyCache ==
  [ts |-> 0, trades |-> <<>>, tops |-> <<>>,
   shown |-> [bid |-> None, ask |-> None, last_trade |-> None, depth |-> [side \in Sides |-> <<>>]]]

(* update_cache_with_engine_locked_ *)
Updated(c, e, ts, trades) ==
  [ts |-> ts, shown |-> ShownBy(e),
   trades |-> Latest(c.trades \o trades, max_cache_trades),
   tops |-> Latest(Append(c.tops, [ts |-> ts, mid |-> MidPrice(Best(e.book, "Buy"), Best(e.book, "Sell"))]),
                   max_cache_tops)]

(* The recent trades of a snapshot, newest first. *)
RecentTrades(max) == SubSeq(Reverse(cache.trades), 1, Smaller(max, Len(cache.trades)))

----------------------------------------------------------------------------
(* Calls of other threads. *)

NextOrderId(o, seq) == o.owner * IdSpan + seq

Owned(o) == IF o.owner = 0 THEN [o EXCEPT !.owner = ManualOwner] ELSE o

(* Mutant: the owner is left out of the id. *)
NumberedShared(o) == IF o.id = 0 THEN [o EXCEPT !.id = manual_seq] ELSE o

Numbered(o) == IF o.id = 0 THEN [o EXCEPT !.id = NextOrderId(o, manual_seq)] ELSE o

(* Agents and callers deal in orders and ids, also those given out here. *)
ASSUME CallAssumption ==
  /\ \A ts \in 0 .. Horizon : AgentSteps[ts] \subseteq Seq(Action)
  /\ \A r \in Reductions : r[2] \in Int
  /\ \A o \in Orders, seq \in 1 .. MaxCalls : NextOrderId(Owned(o), seq) \in Ids

(* A thread that is not in a call of submit_order may make one. *)
Free(c) == Alive /\ owner # "destroying" /\ caller[c] = None

(* submit_order up to the mutex: the order gets its owner, id and time. *)
PrepareOrder(c, o) ==
  /\ Free(c)
  /\ caller' = [caller EXCEPT ![c] = [order |-> Numbered(Owned(o)), ts |-> cur_ts]]
  /\ manual_seq' = IF o.id = 0 THEN manual_seq + 1 ELSE manual_seq
  /\ UNCHANGED <<eng, cache, cur_ts, running, stop, worker, owner, starts>>

Processed(r, ts) ==
  /\ eng' = r.eng
  /\ cache' = Updated(cache, r.eng, ts, r.trades)

SubmitMove(c) ==
  /\ Alive /\ Unlocked /\ caller[c] # None
  /\ caller' = [caller EXCEPT ![c] = None]

(* submit_order under the mutex *)
Submit(c) ==
  /\ SubmitMove(c)
  /\ Processed(Process(eng, caller[c].order, caller[c].ts), caller[c].ts)
  /\ UNCHANGED <<cur_ts, running, stop, manual_seq, worker, owner, starts, calls>>

Rebooked(e, book, ts) ==
  /\ eng' = [e EXCEPT !.book = book]
  /\ cache' = Updated(cache, [e EXCEPT !.book = book], ts, <<>>)

(* cancel_order and modify_qty, as far as they change the book; the time is read
   under the mutex. *)
Edit(c, book) ==
  /\ Free(c) /\ Unlocked
  /\ Rebooked(eng, book, cur_ts)
  /\ UNCHANGED <<cur_ts, running, stop, manual_seq, worker, caller, owner, starts>>

CancelOrder(c, id) == Edit(c, Cancel(eng.book, id).book)
ModifyOrder(c, id, new_qty) == Edit(c, ModifyQty(eng.book, id, new_qty).book)

(* One more call, within the bound. *)
Counted == calls < MaxCalls /\ calls' = calls + 1

Call(c) ==
  /\ Counted
  /\ \/ \E o \in Orders : PrepareOrder(c, o)
     \/ \E id \in CancelIds : CancelOrder(c, id)
     \/ \E r \in Reductions : ModifyOrder(c, r[1], r[2])

----------------------------------------------------------------------------
(* The worker: at "none" before it is started and after it is joined, at the
   "head" of its loop, "waiting" for the mutex, in its "step", on its way "out",
   and "ended" but not joined. *)

Step == IF dt_ns > 1 THEN dt_ns ELSE 1

(* Where each action takes the worker. *)
HeadMove ==
  /\ worker.at = "head"
  /\ worker' = [worker EXCEPT !.at = IF worker.ts > Horizon \/ stop THEN "out" ELSE "waiting"]

FlushMove ==
  /\ worker.at = "waiting" /\ Unlocked
  /\ \E acts \in AgentSteps[worker.ts] : worker' = [worker EXCEPT !.at = "step", !.todo = acts]

ActMove ==
  /\ worker.at = "step" /\ worker.todo # <<>> /\ ~eng.spinning
  /\ worker' = [worker EXCEPT !.todo = Tail(worker.todo)]

UnlockMove ==
  /\ worker.at = "step" /\ worker.todo = <<>> /\ ~eng.spinning
  /\ worker' = [worker EXCEPT !.at = "head", !.ts = Smaller(worker.ts + Step, MaxClock)]

EndMove == worker.at = "out" /\ worker' = [worker EXCEPT !.at = "ended"]

WorkerMoves == Alive /\ (HeadMove \/ FlushMove \/ ActMove \/ UnlockMove \/ EndMove)

(* Mutant: the clock is set to the step to come. *)
WorkerHeadAhead ==
  /\ Alive /\ HeadMove
  /\ cur_ts' = IF worker'.at = "waiting" THEN worker.ts + Step ELSE cur_ts
  /\ UNCHANGED <<eng, cache, running, stop, manual_seq, caller, owner, starts, calls>>

WorkerHead ==
  /\ Alive /\ HeadMove
  /\ cur_ts' = IF worker'.at = "waiting" THEN worker.ts ELSE cur_ts
  /\ UNCHANGED <<eng, cache, running, stop, manual_seq, caller, owner, starts, calls>>

CachedIfTraded(e, trades) ==
  /\ eng' = e
  /\ cache' = IF trades = <<>> THEN cache ELSE Updated(cache, e, worker.ts, trades)

(* Mutant: what the flush printed is not put into the cache. *)
FlushedUncached(f) == eng' = f.eng /\ UNCHANGED cache

Flushed(f) == CachedIfTraded(f.eng, f.trades)

(* The agents see one view and no account, so what they will do is settled
   when the step begins. *)
WorkerFlush ==
  /\ Alive /\ FlushMove
  /\ Flushed(Flush(eng, worker.ts))
  /\ UNCHANGED <<cur_ts, running, stop, manual_seq, caller, owner, starts, calls>>

AgentSubmits(r) == CachedIfTraded(r.eng, r.trades)

WorkerAct ==
  /\ Alive /\ ActMove
  /\ LET act == Head(worker.todo)
     IN  CASE act.type = "Submit" -> AgentSubmits(Process(eng, act.order, worker.ts))
           [] act.type = "Cancel" -> Rebooked(eng, Cancel(eng.book, act.id).book, worker.ts)
           [] act.type = "ModifyQty" ->
                Rebooked(eng, ModifyQty(eng.book, act.id, act.new_qty).book, worker.ts)
  /\ UNCHANGED <<cur_ts, running, stop, manual_seq, caller, owner, starts, calls>>

(* Mutant: a step ends without an update of the cache. *)
WorkerUnlockQuiet ==
  /\ Alive /\ UnlockMove
  /\ UNCHANGED <<eng, cache, cur_ts, running, stop, manual_seq, caller, owner, starts, calls>>

WorkerUnlock ==
  /\ Alive /\ UnlockMove
  /\ cache' = Updated(cache, eng, worker.ts, <<>>)
  /\ UNCHANGED <<eng, cur_ts, running, stop, manual_seq, caller, owner, starts, calls>>

(* Mutant: running_ is left to stop(). *)
WorkerEndSilent ==
  /\ Alive /\ EndMove
  /\ UNCHANGED <<eng, cache, cur_ts, running, stop, manual_seq, caller, owner, starts, calls>>

WorkerEnd ==
  /\ Alive /\ EndMove
  /\ running' = FALSE
  /\ UNCHANGED <<eng, cache, cur_ts, stop, manual_seq, caller, owner, starts, calls>>

Worker == WorkerHead \/ WorkerFlush \/ WorkerAct \/ WorkerUnlock \/ WorkerEnd

----------------------------------------------------------------------------
(* The owner of the object: "idle", in stop() "joining" the worker, in the
   destructor "destroying" it, "destroyed", or "terminated": a thread object
   that is destroyed or assigned while it can be joined ends the process. *)

NewWorker == [at |-> "head", ts |-> 0, todo |-> <<>>]
NoWorker == [at |-> "none", ts |-> 0, todo |-> <<>>]

(* start(): it seeds the agents under the mutex, and what it has set by then only
   the owner and the new worker read. *)
Start ==
  /\ owner = "idle" /\ ~running /\ starts < MaxStarts /\ Unlocked
  /\ running' = TRUE /\ stop' = FALSE /\ starts' = starts + 1
  /\ IF worker.at = "none"
     THEN worker' = NewWorker /\ UNCHANGED owner
     ELSE owner' = "terminated" /\ UNCHANGED worker
  /\ UNCHANGED <<eng, cache, cur_ts, manual_seq, caller, calls>>

(* stop(), which returns at once when running_ is false *)
Stop ==
  /\ owner = "idle" /\ running
  /\ stop' = TRUE /\ owner' = "joining"
  /\ UNCHANGED <<eng, cache, cur_ts, running, manual_seq, worker, caller, starts, calls>>

(* ~LiveWorld; nobody else calls any more. *)
Destroy ==
  /\ owner = "idle" /\ \A c \in Callers : caller[c] = None
  /\ stop' = (stop \/ running)
  /\ owner' = IF running THEN "destroying"
              ELSE IF worker.at = "none" THEN "destroyed" ELSE "terminated"
  /\ UNCHANGED <<eng, cache, cur_ts, running, manual_seq, worker, caller, starts, calls>>

(* Mutant: stop() does not wait for the worker. *)
JoinedAtOnce ==
  /\ owner \in {"joining", "destroying"}
  /\ running' = FALSE
  /\ owner' = IF owner = "joining" THEN "idle" ELSE "destroyed"
  /\ UNCHANGED <<eng, cache, cur_ts, stop, manual_seq, worker, caller, starts, calls>>

(* join() returns, and with it stop(). *)
Joined ==
  /\ owner \in {"joining", "destroying"} /\ worker.at = "ended"
  /\ worker' = NoWorker /\ running' = FALSE
  /\ owner' = IF owner = "joining" THEN "idle" ELSE "destroyed"
  /\ UNCHANGED <<eng, cache, cur_ts, stop, manual_seq, caller, starts, calls>>

Over == ~Alive /\ UNCHANGED lvars

----------------------------------------------------------------------------
LiveInit ==
  /\ eng \in {NewEngine(cfg) : cfg \in Configs}
  /\ cache = EmptyCache
  /\ cur_ts = 0 /\ running = FALSE /\ stop = FALSE /\ manual_seq = 1
  /\ worker = NoWorker /\ caller = [c \in Callers |-> None]
  /\ owner = "idle" /\ starts = 0 /\ calls = 0

LiveNext ==
  \/ \E c \in Callers : Call(c) \/ Submit(c)
  \/ Worker
  \/ Start \/ Stop \/ Destroy \/ Joined
  \/ Over

(* The worker is scheduled, and gets the mutex when it waits for it; a join
   returns when its thread has ended.  Only an action of the worker makes one
   of its moves, so that fairness of the moves is fairness of the actions. *)
LiveSpec == LiveInit /\ [][LiveNext]_lvars /\ WF_worker(WorkerMoves) /\ WF_lvars(Joined)

----------------------------------------------------------------------------
(* Types. *)
LiveTypeOK ==
  /\ IsEngine(eng)
  /\ cache.ts \in Int /\ cache.trades \in Seq(Trade)
  /\ cur_ts \in Nat /\ {running, stop} \subseteq BOOLEAN /\ manual_seq \in Nat
  /\ worker.at \in {"none", "head", "waiting", "step", "out", "ended"} /\ worker.ts \in Nat
  /\ \A c \in Callers : caller[c] = None \/ (caller[c].order \in Order /\ caller[c].ts \in Nat)
  /\ owner \in {"idle", "joining", "destroying", "destroyed", "terminated"}

(* Whenever the engine is free a reader of the cache sees the engine as it is:
   its quote, its last price and its depth, although the worker updates the
   cache only after some of the calls it makes (live_world.cpp:189, 216, 228). *)
CacheCurrent == Unlocked => cache.shown = ShownBy(eng)

(* The recent trades are, newest first and without a gap, the last prints of
   the engine, also while a step is under way and whichever thread's call
   printed them: the worker's flush, its agents, another thread, or the flush
   inside another thread's call (live_world.cpp:69, 131, 189, 216). *)
TapeCached ==
  LET recent == RecentTrades(max_cache_trades)
  IN  /\ Len(recent) = Smaller(max_cache_trades, eng.next_trade_id - 1)
      /\ \A i \in DOMAIN recent : recent[i].id = eng.next_trade_id - i

(* When running_ is false no thread steps the engine, so that start() can never
   add a second worker (live_world.cpp:20, 53, 231). *)
RestMeansEnded == ~running => worker.at \in {"none", "ended"}

(* The process is terminated by a start or a destruction only if the worker had
   come to its horizon by itself: running_ is false then, and stop() returns
   without joining (live_world.cpp:46, 50, 231). *)
CleanUnlessHorizon == owner = "terminated" => worker.ts > Horizon

(* In the first run of the worker the points of the mid series are in time
   order, except after a submission, whose time is read before the mutex is
   taken: the worker may have moved on in between (live_world.cpp:121-123). *)
OnlySubmitsGoBack ==
  [][ ( /\ starts' = 1 /\ cache.tops # <<>> /\ cache'.tops # cache.tops
        /\ Last(cache'.tops).ts < Last(cache.tops).ts )
      => \E c \in Callers : caller[c] # None /\ caller'[c] = None ]_lvars

(* In the first run of the worker no halt and no auction ends before the clock
   of the object has reached its end, although the engine is driven with times
   that threads have read at different moments. *)
NoEarlyEnd ==
  [][ starts' <= 1 =>
      /\ eng.phase = "Auction" /\ eng'.phase # "Auction" => cur_ts >= eng.auction_end
      /\ eng.phase = "Halted" /\ eng'.phase # "Halted" => cur_ts >= eng.halt_end ]_lvars

(* A worker that is started comes to its end, by its horizon or by stop(),
   whatever dt the configuration asks for, and is joined if the owner waits for
   it: stop() and the destructor return (live_world.cpp:52, 179, 231). *)
WorkerEnds ==
  /\ running /\ Alive ~> ~running \/ ~Alive
  /\ owner \in {"joining", "destroying"} ~> owner \in {"idle", "destroyed"}
=============================================================================
