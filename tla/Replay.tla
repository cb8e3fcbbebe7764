------------------------------- MODULE Replay -------------------------------
(***************************************************************************)
(* class Simulator (src/simulator.cpp): a vector of timed events is sorted *)
(* and replayed on one engine.  The vector comes from a caller, or from    *)
(* class OrderFlowGenerator (src/order_flow.cpp), whose random numbers are *)
(* choices here.  The engine is driven by the events alone: no flush comes *)
(* between them or after the last one.                                     *)
(***************************************************************************)
EXTENDS Engine, SequencesExt

CONSTANTS
  Configs,    \* the configurations to start from
  Vectors,    \* the event vectors of callers
  RefMid,     \* ref_mid: 10000 in the code
  MaxOffset,  \* max_offset_ticks
  FlowQtys,   \* min_qty .. max_qty
  Gaps,       \* the times from one generated event to the next
  FlowEnd,    \* horizon_ns
  EarlyIds    \* no cancels up to this next_id_: 5 in the code

(* struct AddLimit, AddMarket, Cancel, Modify; a field that is not theirs is 0,
   the side of no order is Buy. *)
Event ==
  [kind : {"AddLimit", "AddMarket", "Cancel", "Modify"}, id : Ids, ts : Nat,
   side : Sides, price : Prices, qty : Int, owner : Owners]

ASSUME ReplayAssumption ==
  /\ Configs \subseteq RulesConfig
  /\ \A v \in Vectors : v \in Seq(Event)
  /\ {RefMid, MaxOffset, FlowEnd, EarlyIds} \subseteq Nat
  /\ FlowQtys \subseteq Nat \ {0} /\ Gaps \subseteq Nat

VARIABLES
  stage,    \* "make" the vector, "generate" it, "run" it
  events,   \* the vector
  t,        \* generate: the time of the last event
  next_id,  \* next_id_
  eng,      \* engine_
  todo,     \* run: the events that have not been replayed, in order
  out       \* the SimulationResult

vars == <<stage, events, t, next_id, eng, todo, out>>

ReplayInit ==
  /\ eng \in {NewEngine(cfg) : cfg \in Configs}
  /\ stage = "make" /\ events = <<>> /\ todo = <<>>
  /\ t = 0 /\ next_id = 1
  /\ out = [trades |-> <<>>, tops |-> <<>>, cancel_failures |-> 0, modify_failures |-> 0]

----------------------------------------------------------------------------
(* OrderFlowGenerator::generate *)

(* Mutant: orders are placed beyond the mid. *)
LimitPriceBeyond(mid, side, off) == IF side = "Buy" THEN mid + off ELSE mid - off

LimitPriceAround(mid, side, off) == IF side = "Buy" THEN mid - off ELSE mid + off

Limits(ts) ==
  {[kind |-> "AddLimit", id |-> next_id, ts |-> ts, side |-> side,
    price |-> LimitPriceAround(RefMid, side, off), qty |-> qty, owner |-> 1] :
     side \in Sides, off \in 1 .. MaxOffset, qty \in FlowQtys}

Markets(ts) ==
  {[kind |-> "AddMarket", id |-> next_id, ts |-> ts, side |-> side, price |-> 0,
    qty |-> qty, owner |-> 2] : side \in Sides, qty \in FlowQtys}

(* sample_cancel_id: any id given out, whatever became of the order *)
Cancels(ts) ==
  {[kind |-> "Cancel", id |-> id, ts |-> ts, side |-> "Buy", price |-> 0, qty |-> 0,
    owner |-> 0] : id \in 1 .. next_id - 1}

StartGenerate ==
  /\ stage = "make" /\ stage' = "generate"
  /\ UNCHANGED <<events, t, next_id, eng, todo, out>>

(* One turn of the loop: the time of the next event, then the event. *)
Generates(ts) ==
  \/ /\ \E e \in Limits(ts) \cup Markets(ts) : events' = Append(events, e)
     /\ next_id' = next_id + 1
  \/ /\ next_id > EarlyIds
     /\ \E e \in Cancels(ts) : events' = Append(events, e)
     /\ UNCHANGED next_id
  \/ next_id <= EarlyIds /\ UNCHANGED <<events, next_id>>

Generate ==
  /\ stage = "generate"
  /\ \E gap \in Gaps :
       /\ t + gap < FlowEnd /\ t' = t + gap
       /\ Generates(t + gap)
  /\ UNCHANGED <<stage, eng, todo, out>>

----------------------------------------------------------------------------
(* Simulator::run *)

(* Mutant: the vector is replayed as it comes. *)
Unsorted(v) == v

(* By time, then by insertion order. *)
Sorted(v) ==
  LET Before(i) == {j \in DOMAIN v : v[j].ts < v[i].ts \/ (v[j].ts = v[i].ts /\ j < i)}
  IN  [k \in DOMAIN v |-> v[CHOOSE i \in DOMAIN v : Cardinality(Before(i)) = k - 1]]

Runs(v) ==
  /\ stage' = "run" /\ events' = v /\ todo' = Sorted(v)
  /\ UNCHANGED <<t, next_id, eng, out>>

(* A caller brings its vector; or the next event is beyond the horizon. *)
RunGiven == stage = "make" /\ \E v \in Vectors : Runs(v)

RunGenerated ==
  /\ stage = "generate" /\ \E gap \in Gaps : t + gap >= FlowEnd
  /\ Runs(events)

(* make_top *)
Top(ts, book) ==
  LET bid == Best(book, "Buy")
      ask == Best(book, "Sell")
  IN  [ts |-> ts, best_bid |-> bid, best_ask |-> ask, mid |-> MidPrice(bid, ask)]

(* The order of an event, with the defaults of struct Order. *)
OrderOf(e) ==
  [id |-> e.id, side |-> e.side, type |-> IF e.kind = "AddLimit" THEN "Limit" ELSE "Market",
   price |-> e.price, qty |-> e.qty, owner |-> e.owner, tif |-> "GTC", style |-> "PureMarket"]

(* An event is done: what it has made of the engine and of the result. *)
Replayed(e, next, result) ==
  /\ eng' = next
  /\ out' = [result EXCEPT !.tops = Append(result.tops, Top(e.ts, next.book))]
  /\ todo' = Tail(todo)
  /\ UNCHANGED <<stage, events, t, next_id>>

(* An event is due, and no call before it has failed to return. *)
Due(kinds) == todo # <<>> /\ Head(todo).kind \in kinds /\ ~eng.spinning

ReplayAdd ==
  /\ Due({"AddLimit", "AddMarket"})
  /\ LET e == Head(todo)
         r == Process(eng, OrderOf(e), e.ts)
     IN  Replayed(e, r.eng, [out EXCEPT !.trades = out.trades \o r.trades])

ReplayCancel ==
  /\ Due({"Cancel"})
  /\ LET e == Head(todo)
         c == Cancel(eng.book, e.id)
     IN  Replayed(e, [eng EXCEPT !.book = c.book],
                  IF c.ok THEN out ELSE [out EXCEPT !.cancel_failures = out.cancel_failures + 1])

ReplayModify ==
  /\ Due({"Modify"})
  /\ LET e == Head(todo)
         c == ModifyQty(eng.book, e.id, e.qty)
     IN  Replayed(e, [eng EXCEPT !.book = c.book],
                  IF c.ok THEN out ELSE [out EXCEPT !.modify_failures = out.modify_failures + 1])

(* run() has returned, or is caught in a call. *)
RunEnded == stage = "run" /\ (todo = <<>> \/ eng.spinning) /\ UNCHANGED vars

ReplayNext ==
  \/ StartGenerate \/ Generate
  \/ RunGiven \/ RunGenerated
  \/ ReplayAdd \/ ReplayCancel \/ ReplayModify
  \/ RunEnded

ReplaySpec == ReplayInit /\ [][ReplayNext]_vars

----------------------------------------------------------------------------
Adds == {i \in DOMAIN events : events[i].kind \in {"AddLimit", "AddMarket"}}

(* The ids that more than one order of the vector has. *)
ReusedIds == {events[i].id : i \in {j \in Adds : \E k \in Adds \ {j} : events[k].id = events[j].id}}

(* However the vector is arranged, the tape is in the order of time, and no
   print is later than the event that brought it out, although auctions that
   are over print only when the next order comes, at their scheduled end and
   before what that order prints itself (simulator.cpp:38-42;
   matching_engine.cpp:318-345). *)
TapeInTime ==
  /\ \A i, j \in DOMAIN out.trades : i < j => out.trades[i].ts <= out.trades[j].ts
  /\ out.trades # <<>> => Last(out.trades).ts <= Last(out.tops).ts

(* What goes wrong when an id is used again, and what does not without: an
   order that rests where no cancel finds it shares its id with another order,
   and a matching loop runs for ever only at such an order, of the taker's
   owner, when self-trade prevention is to cancel the maker (book.cpp:26;
   matching_engine.cpp:47-56). *)
ReuseOrphans ==
  /\ \A o \in Resting(eng.book) : o.id \notin DOMAIN eng.book.loc => o.id \in ReusedIds
  /\ eng.spinning => eng.cfg.stp = "CancelMaker" /\ ReusedIds # {}

(* Prices at most MaxOffset from RefMid are within the bands of each other, and
   no fall between them trips the breaker. *)
Calm(cfg) ==
  LET low  == RefMid - MaxOffset
      high == RefMid + MaxOffset
  IN  /\ ~BreachesBand(cfg, high, low) /\ ~BreachesBand(cfg, low, high)
      /\ cfg.breaker => low > MulDivBps(high, 10000 - cfg.drop_bps)

FilledOf(id) == FilledQty(SelectSeq(out.trades, LAMBDA x : id \in {x.maker, x.taker}))

IsReplayed(i) == i \in DOMAIN events /\ \A k \in DOMAIN todo : todo[k] # events[i]

(* "Place orders away from mid so book tends to stay non-crossed"
   (order_flow.cpp:22): where the rules are calm at the width of the placement,
   a generated flow never leaves continuous trading, its limit orders never
   take, and each rests with what the market orders have left of it, unless a
   cancel was sent for it. *)
FlowRests ==
  stage = "run" /\ t > 0 /\ Calm(eng.cfg) =>
    /\ eng.phase = "Continuous"
    /\ \A i \in DOMAIN events :
         LET e == events[i]
         IN  /\ e.kind = "AddLimit" => \A k \in DOMAIN out.trades : out.trades[k].taker # e.id
             /\ \/ e.kind # "AddLimit" \/ ~IsReplayed(i) \/ FilledOf(e.id) = e.qty
                \/ \E k \in DOMAIN events : events[k].kind = "Cancel" /\ events[k].id = e.id
                \/ \E o \in Resting(eng.book) : o.id = e.id /\ o.qty = e.qty - FilledOf(e.id)
=============================================================================
