------------------------------ MODULE MCWorld ------------------------------
(* Small instances of World: prices near 100, so that a band of one percent is
   99..101 around a last price of 100. *)
EXTENDS World

WorldConfig ==
  [enforce_halt |-> TRUE, tick_size |-> 1, lot_size |-> 1, min_qty |-> 1,
   stp |-> "None", bands |-> FALSE, volatility |-> TRUE, band_bps |-> 100,
   vol_auction |-> 1, queue_halt |-> TRUE, breaker |-> FALSE, drop_bps |-> 100,
   halt |-> 1, reopen |-> 1]

(* Continuous trading only; volatility auctions; halts. *)
MCConfigs ==
  {WorldConfig, [WorldConfig EXCEPT !.bands = TRUE], [WorldConfig EXCEPT !.breaker = TRUE]}

(* A noise trader before one maker, as in the command line and the tests, and
   between two makers. *)
MCCasts == {<<NewNoise(1), NewMaker(2)>>, <<NewMaker(3), NewNoise(1), NewMaker(2)>>}

ASSUME MCCastsProper == \A cast \in MCCasts : ProperCast(cast)

MCMaker == [quote_qty |-> 2, spread |-> 2, refresh |-> 1, max_skew |-> 2, skew_per_unit |-> 2]
MCNoise ==
  [max_offset |-> 2, min_qty |-> 1, max_qty |-> 2, tick_size |-> 1, lot_size |-> 1,
   default_mid |-> 100]

MCPrices == 0 .. 200
(* An agent acts Horizon + 1 times. *)
NoiseIds == 1 .. Horizon + 1
MakerIds(owner) == owner * IdSpan + 1 .. owner * IdSpan + 2 * (Horizon + 1)
MCIds == NoiseIds \cup MakerIds(2) \cup MakerIds(3)
=============================================================================
