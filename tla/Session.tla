------------------------------ MODULE Session ------------------------------
(***************************************************************************)
(* class SessionController (include/msim/session.hpp) driving an engine:   *)
(* on_time(eng, ts) is called once per time step, orders and cancels       *)
(* arrive in between.  The trades of the flush inside on_time are not      *)
(* returned to anybody (session.hpp:30); they stay visible here in out.    *)
(***************************************************************************)
EXTENDS EngineProperties

CONSTANT Schedules  \* the session schedules to start from

ASSUME ScheduleAssumption ==
  Schedules \subseteq [tal_start : Nat, tal_end : Nat,
                       closing_start : Nat, closing_end : Nat]

VARIABLE sess  \* the SessionController: its schedule and its two flags

svars == <<eng, now, submitted, traded, out, sess>>

SessionInit ==
  /\ Init
  /\ sess \in {[at |-> s, tal_started |-> FALSE, close_started |-> FALSE] : s \in Schedules}

TalStarts(ts) ==
  ~sess.tal_started /\ ts >= sess.at.tal_start /\ ts < sess.at.tal_end

(* Mutant: the first instant of the window is missed. *)
ClosingStartsLate(ts) ==
  ~sess.close_started /\ ts > sess.at.closing_start /\ ts < sess.at.closing_end

ClosingStarts(ts) ==
  ~sess.close_started /\ ts >= sess.at.closing_start /\ ts < sess.at.closing_end

(* The engine after the windows that start at ts. *)
Started(ts) ==
  LET e == IF TalStarts(ts) THEN StartTradingAtLast(eng, sess.at.tal_end) ELSE eng
  IN  IF ClosingStarts(ts) THEN StartClosingAuction(e, sess.at.closing_end) ELSE e

OnTime(ts) ==
  /\ ~eng.spinning
  /\ Flushed("on_time", ts, Flush(Started(ts), ts))
  /\ sess' = [sess EXCEPT !.tal_started = sess.tal_started \/ TalStarts(ts),
                          !.close_started = sess.close_started \/ ClosingStarts(ts)]

(* One on_time per step, then the orders of the step. *)
SessionTick == OnTime(Smaller(now + 1, MaxTs))

SessionNext ==
  \/ SessionTick
  \/ \E o \in Incoming : now <= LastArrival /\ Submit(o, now) /\ UNCHANGED sess
  \/ \E o \in submitted : CancelOrder(o.id) /\ UNCHANGED sess

SessionSpec == SessionInit /\ [][SessionNext]_svars

FairSession == SessionSpec /\ WF_now(TimePasses)

----------------------------------------------------------------------------
(* Once the closing auction has closed the market it stays closed: nothing
   prints, no order is taken and the queue stays empty. *)
ClosedIsFinal ==
  [][eng.phase = "Closed" =>
       /\ eng'.phase = "Closed" /\ out'.trades = <<>>
       /\ eng'.queue = <<>> /\ Resting(eng'.book) \subseteq Resting(eng.book)]_svars

(* The closing auction ends with one uncrossing, at a single price, of the
   largest volume its queue allows, and the market is closed
   (matching_engine.cpp:76-86). *)
ClosingUncrosses ==
  [][( /\ eng.phase = "ClosingAuction" /\ now' >= eng.auction_end
       /\ out'.call \in {"submit", "on_time"} )
     => /\ eng'.phase = "Closed"
        /\ \A i, j \in DOMAIN out'.trades : out'.trades[i].price = out'.trades[j].price
        /\ PrintedQty(out'.trades, DOMAIN out'.trades) = MaxVolume(eng.queue)]_svars

(* The day ends: whatever halts and auctions came before, the market is
   eventually closed for good. *)
DayEnds == <>[](eng.phase = "Closed")

(* "halt expires into a reopening auction" (README.md:88): a halt is left only
   for the reopening auction, or for what that auction opens. *)
HaltReopens ==
  [][eng.phase = "Halted" => eng'.phase # "TradingAtLast"]_svars
=============================================================================
