----------------------------- MODULE MCSession -----------------------------
(* A small instance of Session. *)
EXTENDS Session

Lim(id, side, price, qty, owner) ==
  [id |-> id, side |-> side, type |-> "Limit", price |-> price, qty |-> qty,
   owner |-> owner, tif |-> "GTC", style |-> "PureMarket"]

MCConfigs ==
  {[enforce_halt |-> TRUE, tick_size |-> 1, lot_size |-> 1, min_qty |-> 1,
    stp |-> "None", bands |-> b, volatility |-> b, band_bps |-> 1000,
    vol_auction |-> 2, queue_halt |-> TRUE, breaker |-> ~b, drop_bps |-> 1500,
    halt |-> 1, reopen |-> 1] : b \in BOOLEAN}

(* Trading-at-last, then the closing auction, as in test_session.cpp. *)
MCSchedules ==
  {[tal_start |-> 2, tal_end |-> 4, closing_start |-> 4, closing_end |-> 5],
   [tal_start |-> 0, tal_end |-> 0, closing_start |-> 3, closing_end |-> 5]}

MCOrders ==
  {Lim(1, "Buy", 10, 2, 1), Lim(2, "Sell", 10, 1, 2), Lim(3, "Buy", 8, 2, 1),
   Lim(4, "Sell", 8, 2, 2),
   [Lim(5, "Buy", 12, 2, 3) EXCEPT !.type = "Market"]}

MCPrices == 8 .. 12

(* What the theorems suppose of an instance: MaxLoop bounds no loop of the code,
   and trading-at-last is over when the closing auction may begin. *)
ASSUME MCLoopsSuffice == Cardinality({o.id : o \in Incoming}) <= MaxLoop
ASSUME MCDayOrdered == \A s \in Schedules : s.tal_end <= s.closing_start

=============================================================================
