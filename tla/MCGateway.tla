----------------------------- MODULE MCGateway -----------------------------
(* A small instance of Gateway. *)
EXTENDS Gateway

Request(id, side, price, qty) ==
  [id |-> id, side |-> side, type |-> "Limit", price |-> price, qty |-> qty,
   owner |-> ManualOwner, tif |-> "GTC", style |-> "PureMarket"]

(* The defaults of RulesConfig, with durations in steps. *)
DefaultConfig ==
  [enforce_halt |-> TRUE, tick_size |-> 1, lot_size |-> 1, min_qty |-> 1,
   stp |-> "None", bands |-> TRUE, volatility |-> TRUE, band_bps |-> 1250,
   vol_auction |-> 1, queue_halt |-> TRUE, breaker |-> TRUE, drop_bps |-> 2500,
   halt |-> 1, reopen |-> 1]

MCConfigs == {DefaultConfig}

(* A request that names its id, one of no span in use here. *)
NamedId == 7

MCOrders == {Request(NamedId, "Sell", 1, 1)}

(* The gateway adds no agents to its world. *)
MCAgentSteps == [ts \in 0 .. Horizon |-> {<<>>}]

MCPrices == 0 .. 6

MCJitterSteps == {-1, 1}

MCIds ==
  {0, NamedId} \cup {MakeOid(who, seq) : who \in Callers, seq \in 1 .. IdSpan - 1}

(* The theorems about the gateway are about instances like this one. *)
ASSUME MCGatewayProper == ProperGateway
=============================================================================
