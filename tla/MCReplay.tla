------------------------------ MODULE MCReplay ------------------------------
(* A small instance of Replay: generated flows of up to four events, and every
   arrangement of some vectors. *)
EXTENDS Replay

ReplayConfig ==
  [enforce_halt |-> TRUE, tick_size |-> 1, lot_size |-> 1, min_qty |-> 1,
   stp |-> "None", bands |-> TRUE, volatility |-> TRUE, band_bps |-> 5,
   vol_auction |-> 1, queue_halt |-> TRUE, breaker |-> TRUE, drop_bps |-> 4,
   halt |-> 1, reopen |-> 1]

(* Just calm at two ticks; bands too narrow for that; the breaker alone and too
   sensitive, with self-trade prevention. *)
MCConfigs ==
  {ReplayConfig,
   [ReplayConfig EXCEPT !.band_bps = 2, !.breaker = FALSE],
   [ReplayConfig EXCEPT !.bands = FALSE, !.drop_bps = 3, !.stp = "CancelMaker"]}

Limit(id, ts, side, price, qty, owner) ==
  [kind |-> "AddLimit", id |-> id, ts |-> ts, side |-> side, price |-> price,
   qty |-> qty, owner |-> owner]
Market(id, ts, side, qty, owner) ==
  [kind |-> "AddMarket", id |-> id, ts |-> ts, side |-> side, price |-> 0,
   qty |-> qty, owner |-> owner]
Edit(kind, id, ts, qty) ==
  [kind |-> kind, id |-> id, ts |-> ts, side |-> "Buy", price |-> 0, qty |-> qty, owner |-> 0]

(* A rise into a volatility auction that prints; a fall into a halt; an id that
   is used twice, at one time, so that every order of the events happens. *)
Rise ==
  <<Limit(1, 1, "Sell", 10000, 1, 1), Market(2, 1, "Buy", 1, 2),
    Limit(3, 2, "Sell", 10009, 2, 1), Limit(4, 2, "Buy", 10009, 1, 2),
    Limit(5, 2, "Sell", 10008, 1, 1), Market(6, 4, "Buy", 1, 2)>>
Fall ==
  <<Limit(1, 1, "Buy", 9990, 2, 1), Limit(2, 1, "Buy", 10000, 1, 1),
    Market(3, 1, "Sell", 1, 2), Market(4, 2, "Sell", 1, 2),
    Market(5, 4, "Sell", 1, 2), Edit("Cancel", 1, 4, 0)>>
Reuse ==
  <<Limit(1, 1, "Sell", 10001, 1, 1), Limit(1, 1, "Sell", 10002, 2, 1),
    Market(2, 1, "Buy", 2, 1), Edit("Cancel", 1, 1, 0), Edit("Modify", 1, 1, 1)>>

Arranged(v) == {[i \in DOMAIN v |-> v[f[i]]] : f \in Permutations(DOMAIN v)}

MCVectors == Arranged(Rise) \cup Arranged(Fall) \cup Arranged(Reuse)

MCPrices == {0} \cup 9990 .. 10009
=============================================================================
