------------------------------ MODULE Gateway ------------------------------
(***************************************************************************)
(* The gateway process (src/gateway_main.cpp): around one LiveWorld run    *)
(*   the main thread, which starts everything, listens for requests and    *)
(*     takes everything down again;                                        *)
(*   a market maker that replaces a ladder of quotes, aggressors that send *)
(*     market orders, and a drift of the fundamental price they quote;     *)
(*   the handlers of HTTP requests, and a console thread that reads "quit".*)
(*                                                                         *)
(* A thread of the flow is named by the owner it trades for. What a thread *)
(* computes between two calls it does in the action of one of them: nothing*)
(* else reads it.                                                          *)
(***************************************************************************)
EXTENDS LiveWorld

CONSTANTS
  MakerOwner,  \* MM_OWNER
  Aggressors,  \* the owners of the aggressor threads: 100, 101, ...
  Handlers,    \* the threads that handle requests
  Levels,      \* kMMLevels
  QtyL1,       \* kMMQtyL1
  QtyStep,     \* kMMQtyStep
  AggrQtys,    \* the quantities of the aggressors
  JitterSteps, \* the jitters of a level, in ticks: -1 .. 1 in the code
  Fundamentals,\* the fundamental prices to start from: the code's 100 drifts
  MaxPx,       \* bound on the drift of the fundamental price
  MaxLadders   \* bound on the ladders of the market maker; MaxCalls bounds the
               \* requests and the orders of the aggressors together

ASSUME GatewayAssumption ==
  /\ Callers = {MakerOwner} \cup Aggressors \cup Handlers
  /\ {MakerOwner} \cup Aggressors \subseteq Owners \ {ManualOwner}
  /\ MakerOwner \notin Aggressors /\ Handlers \cap ({MakerOwner} \cup Aggressors) = {}
  /\ JitterSteps \subseteq -1 .. 1 /\ Fundamentals \subseteq Nat \ {0} /\ AggrQtys \subseteq Nat \ {0}
  /\ {QtyL1, QtyStep, MaxPx, MaxLadders} \subseteq Nat /\ Levels \in Nat \ {0}

VARIABLES
  main,     \* where the main thread is
  server,   \* the HTTP server: "idle", "running", "stopping" or "closed"
  console,  \* the console thread: "none", "reading" or "ended"
  flow,     \* FlowThreads::running
  px,       \* fundamental_px
  drift,    \* the fundamental thread: "none", "running" or "ended"
  mm,       \* the market maker: where it is, what it has left to do there, its
            \* fundamental and jitter, the ids it remembers, its next number
  aggr,     \* the aggressors: where each is, and its next number
  queued    \* history: the orders that have waited in the auction queue

fvars == <<px, drift, mm, aggr>>
mvars == <<main, server, console, flow>>

(* make_oid_ *)
MakeOid(who, seq) == who * IdSpan + seq

(* The gateway as main sets it up, without agents; numbers and prices are those
   of the instance. *)
ProperGateway ==
  /\ {MakerOwner, ManualOwner} \cup Aggressors \subseteq Nat
  /\ \A ts \in 0 .. Horizon : AgentSteps[ts] \subseteq {<<>>}
  /\ \A who \in {MakerOwner, ManualOwner} \cup Aggressors, seq \in 1 .. IdSpan - 1 :
       MakeOid(who, seq) \in Ids
  /\ Fundamentals \subseteq 0 .. MaxPx
  /\ \A cfg \in Configs :
       cfg.tick_size \in Nat /\ 0 .. MaxPx + (Levels + 2) * cfg.tick_size \subseteq Prices

Tick == eng.cfg.tick_size

----------------------------------------------------------------------------
(* The fundamental price: it may drift once more after the flow is stopped. *)

DriftMove ==
  /\ drift = "running"
  /\ drift' = IF flow THEN "running" ELSE "ended"

Drift ==
  /\ DriftMove
  /\ \E dir \in -1 .. 1 : px' = IF px + dir * Tick < Tick THEN Tick ELSE px + dir * Tick
  /\ px' <= MaxPx
  /\ UNCHANGED <<lvars, mvars, mm, aggr>>

----------------------------------------------------------------------------
(* The market maker.  Its ladder is a bid and an ask on every level. *)

Ladder == [i \in 1 .. 2 * Levels |->
             [level |-> (i + 1) \div 2, side |-> IF i % 2 = 1 THEN "Buy" ELSE "Sell"]]

MakerHeadMove ==
  /\ mm.at = "head"
  /\ flow => mm.seq <= 2 * Levels * MaxLadders
  /\ mm' = [mm EXCEPT !.at = IF flow THEN "cancel" ELSE "sweep", !.todo = mm.ids, !.px = 0]

MakerHead == MakerHeadMove /\ UNCHANGED <<lvars, mvars, px, drift, aggr>>

(* The old quotes go before a new ladder, and at the end, when the ids are not
   reset. *)
MakerCancelMove ==
  /\ mm.at \in {"cancel", "sweep"} /\ mm.todo # <<>> /\ Unlocked
  /\ mm' = [mm EXCEPT !.todo = Tail(mm.todo),
                      !.ids = IF mm.at = "cancel" THEN Tail(mm.ids) ELSE mm.ids]

MakerCancel ==
  /\ MakerCancelMove
  /\ CancelOrder(MakerOwner, Head(mm.todo))
  /\ UNCHANGED <<calls, mvars, px, drift, aggr>>

MakerReadMove ==
  /\ mm.at = "cancel" /\ mm.todo = <<>>
  /\ mm' = [mm EXCEPT !.at = "quote", !.todo = Ladder,
                      !.px = IF px < Tick THEN Tick ELSE px]

MakerRead == MakerReadMove /\ UNCHANGED <<lvars, mvars, px, drift, aggr>>

(* Mutant: a bid below the floor is quoted like an ask below it. *)
QuotePriceUnclamped(rung, fundamental, jitter) ==
  LET off == rung.level * Tick
  IN  IF rung.side = "Buy"
      THEN IF fundamental - off + jitter < Tick THEN Tick + off ELSE fundamental - off + jitter
      ELSE IF fundamental + off + jitter < Tick THEN Tick + off ELSE fundamental + off + jitter

QuotePrice(rung, fundamental, jitter) ==
  LET off == rung.level * Tick
  IN  IF rung.side = "Buy"
      THEN IF fundamental - off + jitter < Tick THEN Tick ELSE fundamental - off + jitter
      ELSE IF fundamental + off + jitter < Tick THEN Tick + off ELSE fundamental + off + jitter

QuoteQty(rung) ==
  LET qty == QtyL1 - QtyStep * (rung.level - 1) IN IF qty < 1 THEN 1 ELSE qty

Quote(rung, jitter) ==
  [id |-> MakeOid(MakerOwner, mm.seq), side |-> rung.side, type |-> "Limit",
   price |-> QuotePrice(rung, mm.px, jitter), qty |-> QuoteQty(rung),
   owner |-> MakerOwner, tif |-> "GTC", style |-> "PureMarket"]

(* One jitter per level. *)
Jitters(rung) == IF rung.side = "Buy" THEN {j * Tick : j \in JitterSteps} ELSE {mm.jitter}

MakerPrepareMove ==
  /\ mm.at = "quote" /\ caller[MakerOwner] = None
  /\ \E j \in Jitters(Head(mm.todo)) : mm' = [mm EXCEPT !.jitter = j, !.seq = mm.seq + 1]

MakerPrepare ==
  /\ MakerPrepareMove
  /\ PrepareOrder(MakerOwner, Quote(Head(mm.todo), mm'.jitter))
  /\ UNCHANGED <<calls, mvars, px, drift, aggr>>

(* Mutant: only the asks are remembered. *)
RememberedAsks(o) == IF o.side = "Sell" THEN Append(mm.ids, o.id) ELSE mm.ids

(* An order is remembered whatever became of it. *)
Remembered(o) == Append(mm.ids, o.id)

MakerSubmitMove ==
  /\ mm.at = "quote" /\ SubmitMove(MakerOwner)
  /\ mm' = [mm EXCEPT !.ids = Remembered(caller[MakerOwner].order),
                      !.todo = Tail(mm.todo),
                      !.at = IF Len(mm.todo) = 1 THEN "head" ELSE "quote",
                      !.jitter = IF Head(mm.todo).side = "Sell" THEN 0 ELSE mm.jitter]

MakerSubmit ==
  /\ MakerSubmitMove
  /\ Submit(MakerOwner)
  /\ UNCHANGED <<mvars, px, drift, aggr>>

(* Mutant: the sweep is left out. *)
MakerEndMoveAtOnce ==
  mm.at = "sweep" /\ mm' = [mm EXCEPT !.at = "ended"]

MakerEndMove ==
  mm.at = "sweep" /\ mm.todo = <<>> /\ mm' = [mm EXCEPT !.at = "ended"]

MakerEnd == MakerEndMove /\ UNCHANGED <<lvars, mvars, px, drift, aggr>>

Maker ==
  MakerHead \/ MakerCancel \/ MakerRead \/ MakerPrepare \/ MakerSubmit \/ MakerEnd

MakerMoves ==
  \/ MakerHeadMove \/ MakerCancelMove \/ MakerReadMove
  \/ MakerPrepareMove \/ MakerSubmitMove \/ MakerEndMove

----------------------------------------------------------------------------
(* The aggressors, each in its own thread. *)

AggrOrder(k, side, qty) ==
  [id |-> MakeOid(k, aggr[k].seq), side |-> side, type |-> "Market", price |-> 0,
   qty |-> qty, owner |-> k, tif |-> "IOC", style |-> "PureMarket"]

AggrPrepareMove(k) ==
  /\ aggr[k].at = "head" /\ flow /\ calls < MaxCalls
  /\ aggr' = [aggr EXCEPT ![k] = [at |-> "sending", seq |-> aggr[k].seq + 1]]

AggrPrepare(k) ==
  /\ AggrPrepareMove(k)
  /\ \E side \in Sides, qty \in AggrQtys : PrepareOrder(k, AggrOrder(k, side, qty))
  /\ Counted
  /\ UNCHANGED <<mvars, px, drift, mm>>

AggrSubmitMove(k) ==
  /\ aggr[k].at = "sending" /\ SubmitMove(k)
  /\ aggr' = [aggr EXCEPT ![k].at = "head"]

AggrSubmit(k) == AggrSubmitMove(k) /\ Submit(k) /\ UNCHANGED <<mvars, px, drift, mm>>

AggrEndMove(k) ==
  /\ aggr[k].at = "head" /\ ~flow
  /\ aggr' = [aggr EXCEPT ![k].at = "ended"]

AggrEnd(k) == AggrEndMove(k) /\ UNCHANGED <<lvars, mvars, px, drift, mm>>

Aggressor(k) == AggrPrepare(k) \/ AggrSubmit(k) \/ AggrEnd(k)

AggrMoves(k) == AggrPrepareMove(k) \/ AggrSubmitMove(k) \/ AggrEndMove(k)

----------------------------------------------------------------------------
(* The handlers of POST requests.  A request that was accepted is answered
   although the server stops. *)

(* The order a handler makes of a request. *)
Handled(o) ==
  LET immediate == IF o.tif = "GTC" THEN "IOC" ELSE o.tif
  IN  IF o.type = "Limit" THEN [o EXCEPT !.owner = ManualOwner]
      ELSE [o EXCEPT !.owner = ManualOwner, !.price = 0, !.tif = immediate,
                     !.style = "PureMarket"]

HandlerCalls(h) ==
  /\ server = "running" /\ Counted
  /\ \/ \E o \in Orders : PrepareOrder(h, Handled(o))
     \/ \E id \in CancelIds : CancelOrder(h, id)
     \/ \E r \in Reductions : ModifyOrder(h, r[1], r[2])
  /\ UNCHANGED <<fvars, mvars>>

HandlerSubmits(h) == Submit(h) /\ UNCHANGED <<fvars, mvars>>

----------------------------------------------------------------------------
(* The console thread.  Server::stop (cpp-httplib) ends the listening. *)

Stopped(s) == IF s = "running" THEN "stopping" ELSE s

Quit ==
  /\ console = "reading" /\ console' = "ended"
  /\ server' = Stopped(server)
  /\ UNCHANGED <<lvars, fvars, main, flow>>

(* The input is at its end; or a quit has come before listen(), when stop does
   nothing. *)
QuitMissed ==
  /\ console = "reading" /\ console' = "ended"
  /\ UNCHANGED <<lvars, fvars, main, flow, server>>

----------------------------------------------------------------------------
(* The main thread. *)

(* What main does until listen() runs the server, or fails: the world is
   started, then the flow and the console.  Only a quit could meet it on the
   way, and that is one of the ways the console ends for nothing. *)
Launch ==
  /\ main = "new" /\ main' = "listening"
  /\ Start
  /\ flow' = TRUE /\ drift' = "running" /\ console' = "reading"
  /\ mm' = [mm EXCEPT !.at = "head"]
  /\ aggr' = [k \in Aggressors |-> [aggr[k] EXCEPT !.at = "head"]]
  /\ server' \in {"running", "closed"}
  /\ UNCHANGED px

(* listen() has failed, or the server is stopped and the handlers are done. *)
ListenReturnMove ==
  /\ main = "listening" /\ main' = "joining"
  /\ server = "closed" \/ (server = "stopping" /\ \A h \in Handlers : caller[h] = None)

(* Mutant: the threads of the flow are joined without being told to end. *)
ListenReturnUntold ==
  /\ ListenReturnMove
  /\ server' = "closed"
  /\ UNCHANGED <<lvars, fvars, console, flow>>

(* listen() returns, and stop_background_flow begins. *)
ListenReturn ==
  /\ ListenReturnMove
  /\ server' = "closed" /\ flow' = FALSE
  /\ UNCHANGED <<lvars, fvars, console>>

FlowEnded ==
  drift = "ended" /\ mm.at = "ended" /\ \A k \in Aggressors : aggr[k].at = "ended"

FlowJoinedMove ==
  /\ main = "joining" /\ FlowEnded
  /\ main' = IF running THEN "stopping" ELSE "console"

(* The threads of the flow are joined, and the world is stopped. *)
FlowJoined ==
  /\ FlowJoinedMove
  /\ IF running THEN Stop ELSE UNCHANGED lvars
  /\ UNCHANGED <<fvars, server, console, flow>>

WorldJoinedMove ==
  main = "stopping" /\ worker.at = "ended" /\ main' = "console"

WorldJoined ==
  /\ WorldJoinedMove
  /\ Joined
  /\ UNCHANGED <<fvars, server, console, flow>>

ExitMove == main = "console" /\ console = "ended" /\ main' = "exited"

(* The console thread is joined, main returns and the world is destroyed. *)
Exit ==
  /\ ExitMove
  /\ Destroy
  /\ UNCHANGED <<fvars, server, console, flow>>

MainMoves ==
  ListenReturnMove \/ FlowJoinedMove \/ WorldJoinedMove \/ ExitMove

----------------------------------------------------------------------------
GatewayInit ==
  /\ LiveInit
  /\ main = "new" /\ server = "idle" /\ console = "none" /\ flow = FALSE
  /\ px \in Fundamentals /\ drift = "none"
  /\ mm = [at |-> "none", todo |-> <<>>, ids |-> <<>>, seq |-> 1, px |-> 0,
           jitter |-> 0]
  /\ aggr = [k \in Aggressors |-> [at |-> "none", seq |-> 1]]
  /\ queued = {}

Moves ==
  \/ Launch \/ ListenReturn \/ FlowJoined \/ WorldJoined \/ Exit
  \/ Worker /\ UNCHANGED <<fvars, mvars>>
  \/ Maker \/ Drift \/ \E k \in Aggressors : Aggressor(k)
  \/ \E h \in Handlers : HandlerCalls(h) \/ HandlerSubmits(h)
  \/ Quit \/ QuitMissed
  \/ Over /\ UNCHANGED <<fvars, mvars>>

Queued(e) == {e.queue[i].id : i \in DOMAIN e.queue}

GatewayNext == Moves /\ queued' = queued \cup Queued(eng')

(* Every thread is scheduled, and one that waits for the mutex of the engine
   gets it at some time, although the worker takes it again and again. *)
GatewaySpec ==
  /\ GatewayInit /\ [][GatewayNext]_<<lvars, fvars, mvars, queued>>
  /\ SF_worker(WorkerMoves) /\ WF_main(MainMoves) /\ WF_drift(DriftMove)
  /\ SF_mm(MakerMoves) /\ \A h \in Handlers : SF_caller(SubmitMove(h))
  /\ \A k \in Aggressors : SF_aggr(AggrMoves(k))

----------------------------------------------------------------------------
(* Whose order has this id? *)
OwnerOf(id) == id \div IdSpan

LiveIds == {o.id : o \in Resting(eng.book)} \cup Queued(eng)

(* A quote of the market maker that can still trade is one it remembers, or has
   waited in the auction queue, where no cancellation finds it: no interleaving
   of the maker's calls with the worker, the aggressors and the handlers lets
   a ladder outlive its replacement (gateway_main.cpp:196-202, 235, 254), as
   long as no request names an id of the maker's. *)
LadderRemembered ==
  \A id \in LiveIds \ queued :
    OwnerOf(id) = MakerOwner => \E i \in DOMAIN mm.ids : mm.ids[i] = id

(* When the flow threads are joined the market maker has left nothing in the
   book but what an auction has kept from its sweep, wherever the stop met it
   (gateway_main.cpp:262-266).  This too is about requests that name no id of
   the maker's. *)
ShutdownSweeps ==
  mm.at = "ended" => \A id \in LiveIds \ queued : OwnerOf(id) # MakerOwner

(* The market maker trades with itself only when the fundamental of its ladder
   is at the floor, where a bid is raised to the lowest ask (gateway_main.cpp:
   229, 248), or with a quote that an auction has kept. *)
SelfTradeAtFloor ==
  [][ \A i \in DOMAIN cache'.trades :
        LET t == cache'.trades[i] IN
        /\ t.id >= eng.next_trade_id
        /\ OwnerOf(t.maker) = MakerOwner /\ OwnerOf(t.taker) = MakerOwner
        => mm.px = Tick \/ {t.maker, t.taker} \cap queued' # {} ]_<<eng, cache>>

(* Once a quit has reached the server the process ends, and no join of it waits
   for ever: for the handlers, for the threads of the flow, which may be in a
   call, or for the worker (gateway_main.cpp:308-318, 530-538). *)
ExitEnds == server = "stopping" ~> ~Alive
=============================================================================
