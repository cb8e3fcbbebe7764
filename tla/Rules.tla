------------------------------- MODULE Rules -------------------------------
(***************************************************************************)
(* class RuleSet (include/msim/rules.hpp, src/rules.cpp): the venue's      *)
(* configuration, the admission check and the price-band arithmetic.  The  *)
(* phase and the last trade price of the RuleSet are fields of the engine  *)
(* (module Engine).                                                        *)
(***************************************************************************)
EXTENDS MarketTypes

(* struct RulesConfig *)
RulesConfig ==
  [enforce_halt : BOOLEAN, tick_size : Int, lot_size : Int, min_qty : Int,
   stp : {"None", "CancelTaker", "CancelMaker"},
   bands : BOOLEAN, volatility : BOOLEAN, band_bps : Int, vol_auction : Nat,
   queue_halt : BOOLEAN, breaker : BOOLEAN, drop_bps : Int, halt : Nat,
   reopen : Nat]

(* The members of RejectReason that are used; "Accepted" is none of them. *)
Statuses == {"Accepted", "InvalidOrder", "MarketHalted", "PriceNotOnTick",
             "QtyNotOnLot", "QtyBelowMinimum", "NoReferencePrice",
             "PriceNotAtLast"}

PreAccept(cfg, phase, o) ==
  CASE o.qty <= 0 -> "InvalidOrder"
    [] o.qty > 0 /\ phase = "Halted" /\ cfg.enforce_halt /\ ~cfg.queue_halt -> "MarketHalted"
    [] OTHER ->
       IF o.type = "Limit" /\ cfg.tick_size > 0 /\ o.price % cfg.tick_size # 0
       THEN "PriceNotOnTick"
       ELSE IF cfg.min_qty > 0 /\ o.qty < cfg.min_qty THEN "QtyBelowMinimum"
       ELSE IF cfg.lot_size > 0 /\ o.qty % cfg.lot_size # 0 THEN "QtyNotOnLot"
       ELSE "Accepted"

(* mul_div_bps(x, num_bps, 10000) *)
MulDivBps(x, num_bps) == TruncDiv(x * num_bps, 10000)

BreachesBand(cfg, exec_px, ref_px) ==
  /\ cfg.bands
  /\ \/ exec_px < MulDivBps(ref_px, 10000 - cfg.band_bps)
     \/ exec_px > MulDivBps(ref_px, 10000 + cfg.band_bps)
=============================================================================
