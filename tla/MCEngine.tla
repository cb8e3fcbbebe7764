------------------------------ MODULE MCEngine ------------------------------
(* Small instances of MatchingEngine. *)
EXTENDS EngineProperties

O(id, side, type, price, qty, owner, tif, style) ==
  [id |-> id, side |-> side, type |-> type, price |-> price, qty |-> qty,
   owner |-> owner, tif |-> tif, style |-> style]

Lim(id, side, price, qty, owner) == O(id, side, "Limit", price, qty, owner, "GTC", "PureMarket")

BaseConfig ==
  [enforce_halt |-> TRUE, tick_size |-> 1, lot_size |-> 1, min_qty |-> 1,
   stp |-> "None", bands |-> TRUE, volatility |-> TRUE, band_bps |-> 1000,
   vol_auction |-> 1, queue_halt |-> TRUE, breaker |-> TRUE, drop_bps |-> 1500,
   halt |-> 1, reopen |-> 1]

MCPrices == 8 .. 12
MCIds == 1 .. 6
MCNone == "none"

(* Continuous matching only. *)
MatchConfigs ==
  {[BaseConfig EXCEPT !.bands = FALSE, !.breaker = FALSE, !.stp = s] :
     s \in {"None", "CancelTaker", "CancelMaker"}}

MatchOrders ==
  {Lim(1, "Sell", 10, 2, 1), Lim(2, "Sell", 10, 1, 2), Lim(3, "Sell", 11, 2, 1),
   Lim(4, "Buy", 11, 4, 2),
   O(5, "Buy", "Limit", 10, 3, 1, "FOK", "PureMarket"),
   O(6, "Buy", "Market", 8, 4, 3, "GTC", "MarketToLimit")}

(* Volatility auctions; halts with their reopening auction; both.  With a last
   price of 10 the band is 9..11 and a print at 8 halts. *)
CallConfigs ==
  {[BaseConfig EXCEPT !.breaker = FALSE, !.vol_auction = 2],
   [BaseConfig EXCEPT !.bands = FALSE, !.reopen = 2],
   [BaseConfig EXCEPT !.stp = "CancelMaker"]}

CallOrders ==
  {Lim(1, "Buy", 10, 2, 1), Lim(2, "Sell", 10, 1, 2), Lim(3, "Buy", 8, 2, 1),
   Lim(4, "Sell", 8, 2, 2), Lim(5, "Buy", 12, 1, 3),
   O(6, "Sell", "Market", 8, 2, 3, "GTC", "PureMarket")}

(* What the theorems suppose of an instance: MaxLoop bounds no loop of the code,
   and halts and volatility auctions have a length. *)
ASSUME MCLoopsSuffice == Cardinality({o.id : o \in Incoming}) <= MaxLoop
ASSUME MCCallsLast == \A cfg \in Configs : cfg.halt > 0 /\ cfg.vol_auction > 0

=============================================================================
