---------------------------- MODULE MarketTypes ----------------------------
(***************************************************************************)
(* The vocabulary shared by every component: sides, order and trade        *)
(* records, the market phases, and the integer arithmetic of the code      *)
(* (include/msim/types.hpp, order.hpp, trade.hpp, invariants.hpp).         *)
(*                                                                         *)
(* An order's timestamp is not part of the record.  Nothing reads it after *)
(* process(): the uncrossing overwrites it (matching_engine.cpp:263) and   *)
(* the book keeps arrival order by position, so the operators that need    *)
(* the time of a call take it as a parameter.                              *)
(***************************************************************************)
EXTENDS Integers, Sequences, FiniteSets

CONSTANTS
  Ids,     \* order identifiers (OrderId = uint64_t)
  Owners,  \* participants (OwnerId)
  Prices,  \* prices in ticks an order may carry (Price = int32_t)
  None     \* std::nullopt

ASSUME MarketAssumption ==
  /\ Ids \subseteq Nat
  /\ Prices \subseteq Int /\ IsFiniteSet(Prices)
  /\ None \notin Int

Sides == {"Buy", "Sell"}

Opposite(side) == IF side = "Buy" THEN "Sell" ELSE "Buy"

(* struct Order; the price of a Market order is ignored by the code. *)
Order ==
  [id : Ids, side : Sides, type : {"Limit", "Market"}, price : Prices,
   qty : Int, owner : Owners, tif : {"GTC", "IOC", "FOK"},
   style : {"PureMarket", "MarketToLimit"}]

Trade ==
  [id : Nat, ts : Int, price : Prices, qty : Int, maker : Ids, taker : Ids]

(* enum class MarketPhase *)
Phases == {"Continuous", "Halted", "Auction", "TradingAtLast",
           "ClosingAuction", "Closed"}

(* Integer division of C++: truncated towards zero.  b > 0 in every use. *)
TruncDiv(a, b) == IF a >= 0 THEN a \div b ELSE -((-a) \div b)

(* midprice(best_bid, best_ask) *)
MidPrice(bid, ask) ==
  IF bid = None \/ ask = None THEN None ELSE TruncDiv(bid + ask, 2)

(* Does the limit of an order on this side allow an execution at px? *)
Allows(side, limit, px) == IF side = "Buy" THEN px <= limit ELSE px >= limit

(* A maker at price p is served strictly before one at price q. *)
Better(side, p, q) == IF side = "Buy" THEN p > q ELSE p < q

(* std::min *)
Smaller(a, b) == IF a <= b THEN a ELSE b

(* std::map / std::unordered_map operations. *)
EmptyMap == [k \in {} |-> k]
Put(m, key, val) ==
  [k \in DOMAIN m \cup {key} |-> IF k = key THEN val ELSE m[k]]
Erase(m, key) == [k \in DOMAIN m \ {key} |-> m[k]]

(* m is a map from some of the keys in K to values in V. *)
IsMap(m, K, V) == DOMAIN m \subseteq K /\ m \in [DOMAIN m -> V]

(* A while loop: Step applied n times, Step(s) = s once the loop has ended. *)
Iterate(Step(_), s, n) ==
  LET run[k \in Nat] == IF k = 0 THEN s ELSE Step(run[k - 1])
  IN  run[n]
=============================================================================
