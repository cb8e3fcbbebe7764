------------------------------- MODULE MCLive -------------------------------
(* A small instance of LiveWorld. *)
EXTENDS LiveWorld

Lim(id, side, price, qty, who) ==
  [id |-> id, side |-> side, type |-> "Limit", price |-> price, qty |-> qty,
   owner |-> who, tif |-> "GTC", style |-> "PureMarket"]

(* A band of 10 percent, a halt after a fall of 15 percent. *)
LiveConfig ==
  [enforce_halt |-> TRUE, tick_size |-> 1, lot_size |-> 1, min_qty |-> 1,
   stp |-> "None", bands |-> TRUE, volatility |-> TRUE, band_bps |-> 1000,
   vol_auction |-> 1, queue_halt |-> TRUE, breaker |-> FALSE, drop_bps |-> 1500,
   halt |-> 1, reopen |-> 1]

MCConfigs ==
  {LiveConfig, [LiveConfig EXCEPT !.bands = FALSE, !.breaker = TRUE]}

MCPrices == 8 .. 12

(* Agents quote in the first step, and cancel one quote in the second. *)
MCAgentSteps ==
  [ts \in 0 .. Horizon |->
     IF ts = 0 THEN {<<[type |-> "Submit", order |-> Lim(IdSpan + 1, "Sell", 10, 1, 1)],
                       [type |-> "Submit", order |-> Lim(IdSpan + 2, "Sell", 12, 1, 1)]>>,
                     <<[type |-> "Submit", order |-> Lim(IdSpan + 1, "Buy", 10, 1, 1)],
                       [type |-> "Submit", order |-> Lim(IdSpan + 2, "Buy", 8, 1, 1)]>>}
     ELSE IF ts = 1 THEN {<<[type |-> "Cancel", id |-> IdSpan + 2]>>}
     ELSE {<<>>}]

(* One caller names its owner, the other leaves it to the object. *)
MCOrders == {Lim(0, "Buy", 12, 1, 2), Lim(0, "Sell", 8, 1, 0)}

(* The ids of the agents, and those the object gives out to owner 2. *)
MCIds == {0, IdSpan + 1, IdSpan + 2} \cup {2 * IdSpan + seq : seq \in 1 .. MaxCalls}
=============================================================================
