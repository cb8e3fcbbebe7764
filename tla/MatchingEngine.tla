--------------------------- MODULE MatchingEngine ---------------------------
(***************************************************************************)
(* The matching engine as a state machine: the calls World::run and the    *)
(* agents make on one engine (src/world.cpp:27-89), in any order.          *)
(*                                                                         *)
(*   Submit(o, ts)     engine_.process(o)                                  *)
(*   Advance(ts)       engine_.flush(ts), once per time step               *)
(*   CancelOrder(id)   engine_.book_mut().cancel(id)                       *)
(*   ModifyOrder(id,n) engine_.book_mut().modify_qty(id, n)                *)
(*                                                                         *)
(* Every order of Incoming is submitted at most once and order ids are     *)
(* unique, as the agents and the gateway intend.                           *)
(***************************************************************************)
EXTENDS Engine

CONSTANTS
  Configs,     \* the configurations to start from
  Incoming,    \* the orders that may arrive
  NewQtys,     \* the quantities a modification may ask for
  LastArrival, \* orders arrive no later than this
  LastJump,    \* a call may come late, but no later than this
  MaxTs        \* bound on time

ASSUME MachineAssumption ==
  /\ Configs \subseteq RulesConfig
  /\ Incoming \subseteq Order
  /\ \A o, p \in Incoming : o.id = p.id => o = p
  /\ NewQtys \subseteq Int
  /\ MaxTs \in Nat /\ {LastArrival, LastJump} \subseteq 0 .. MaxTs

VARIABLES
  eng,       \* the engine
  now,       \* the time of the latest call
  submitted, \* history: the orders submitted so far
  traded,    \* history: id -> quantity traded so far
  out        \* the latest call and its result: for a submission the order and
             \* the fields of MatchResult, for a flush the trades

vars == <<eng, now, submitted, traded, out>>

Quiet(call) ==
  [call |-> call, order |-> None, trades |-> <<>>, resting |-> None,
   status |-> "Accepted"]

Init ==
  /\ eng \in {NewEngine(cfg) : cfg \in Configs}
  /\ now = 0
  /\ submitted = {}
  /\ traded = [id \in Ids |-> 0]
  /\ out = Quiet("none")

Record(trades) == traded' = [id \in Ids |-> traded[id] + TradedBy(id, trades)]

(* r is what process() returned for o, f what flush() returned. *)
Submitted(o, ts, r) ==
  /\ eng' = r.eng
  /\ now' = ts
  /\ submitted' = submitted \cup {o}
  /\ Record(r.trades)
  /\ out' = [call |-> "submit", order |-> o, trades |-> r.trades,
             resting |-> r.resting, status |-> r.status]

Flushed(call, ts, f) ==
  /\ eng' = f.eng
  /\ now' = ts
  /\ Record(f.trades)
  /\ out' = [Quiet(call) EXCEPT !.trades = f.trades]
  /\ UNCHANGED submitted

Submit(o, ts) ==
  /\ ~eng.spinning
  /\ o \notin submitted
  /\ Submitted(o, ts, Process(eng, o, ts))

Advance(ts) ==
  /\ ~eng.spinning
  /\ Flushed("advance", ts, Flush(eng, ts))

CancelOrder(id) ==
  /\ ~eng.spinning
  /\ eng' = [eng EXCEPT !.book = Cancel(eng.book, id).book]
  /\ out' = Quiet("cancel")
  /\ UNCHANGED <<now, submitted, traded>>

ModifyOrder(id, new_qty) ==
  /\ ~eng.spinning
  /\ eng' = [eng EXCEPT !.book = ModifyQty(eng.book, id, new_qty).book]
  /\ out' = Quiet("modify")
  /\ UNCHANGED <<now, submitted, traded>>

(* Callers never go back in time. *)
Times(last) == {ts \in now .. last : TRUE}

(* A caller steps the clock, as World::run does.  It saturates at the bound. *)
Tick == Advance(Smaller(now + 1, MaxTs))

Next ==
  \/ \E o \in Incoming, ts \in Times(LastArrival) : Submit(o, ts)
  \/ \E ts \in Times(LastJump) : Advance(ts)
  \/ Tick
  \/ \E o \in submitted : CancelOrder(o.id)
  \/ \E o \in submitted, n \in NewQtys : ModifyOrder(o.id, n)

Spec == Init /\ [][Next]_vars

(* The loop of World::run and of the live worker goes on: time passes, with a
   flush per step. *)
TimePasses == now < MaxTs /\ now' = now + 1

FairSpec == Spec /\ WF_now(TimePasses)
=============================================================================
