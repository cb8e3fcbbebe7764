------------------------------- MODULE Agents -------------------------------
(***************************************************************************)
(* The agents of a World: class MarketMaker and class NoiseTrader          *)
(* (src/agents/).  A step of an agent is an operator from its state and    *)
(* what it sees to its next state and a list of actions.  The random       *)
(* choices of the noise trader are the members of a set.                   *)
(***************************************************************************)
EXTENDS Rules

CONSTANTS
  MakerParams,  \* MarketMakerParams
  NoiseParams,  \* NoiseTraderConfig; the probabilities are left out
  IdSpan        \* order ids per owner: 2^32 in the code

ASSUME AgentAssumption ==
  /\ MakerParams \in [quote_qty : Nat, spread : Nat, refresh : Nat,
                      max_skew : Nat, skew_per_unit : Int]
  /\ NoiseParams \in [max_offset : Nat, min_qty : Nat, max_qty : Nat,
                      tick_size : Nat, lot_size : Nat, default_mid : Nat]
  /\ IdSpan \in Nat \ {0}

(* The states of the agents; a maker without quotes has the ids 0. *)
Makers ==
  [kind : {"maker"}, owner : Owners, refresh_at : Nat, bid : Ids \cup {0},
   ask : Ids \cup {0}, seq : Nat]

Noises == [kind : {"noise"}, owner : Owners, seq : Nat]

NewMaker(owner) ==
  [kind |-> "maker", owner |-> owner, refresh_at |-> 0, bid |-> 0, ask |-> 0, seq |-> 1]

NewNoise(owner) == [kind |-> "noise", owner |-> owner, seq |-> 1]

(* std::max, and std::optional::value_or *)
Greater(a, b) == IF a >= b THEN a ELSE b
ValueOr(opt, default) == IF opt = None THEN default ELSE opt

SubmitAction(o) == [type |-> "Submit", order |-> o]
CancelAction(id) == [type |-> "Cancel", id |-> id]

LimitOrder(id, side, px, qty, owner) ==
  [id |-> id, side |-> side, type |-> "Limit", price |-> px, qty |-> qty,
   owner |-> owner, tif |-> "GTC", style |-> "PureMarket"]

(* q rounded up, p rounded down and up, to a multiple. *)
Floored(p, unit) == (p \div unit) * unit
Ceiled(p, unit) == Floored(p + unit - 1, unit)

Clamp(x, bound) == IF x > bound THEN bound ELSE IF x < -bound THEN -bound ELSE x

----------------------------------------------------------------------------
(* MarketMaker *)

(* Mutant: the owner is left out of the id. *)
MakerIdShared(mm, n) == mm.seq + n

(* next_id_: ids of different makers differ. *)
MakerId(mm, n) == mm.owner * IdSpan + mm.seq + n

(* The centre of the quotes: the reference price less the inventory skew. *)
Centre(cfg, view, position) ==
  ValueOr(view.mid, ValueOr(view.last_trade, 100 * Greater(1, cfg.tick_size)))
    - Clamp(position * MakerParams.skew_per_unit, MakerParams.max_skew)

(* clamp_price, then the tick grid. *)
BidPrice(cfg, centre) ==
  Floored(Greater(1, centre - MakerParams.spread \div 2), Greater(1, cfg.tick_size))
AskPrice(cfg, centre) ==
  Ceiled(Greater(1, centre + MakerParams.spread - MakerParams.spread \div 2),
         Greater(1, cfg.tick_size))

QuoteQty(cfg) ==
  Ceiled(Greater(MakerParams.quote_qty, Greater(1, cfg.min_qty)), Greater(1, cfg.lot_size))

(* An ask at or below the bid is moved one tick above it. *)
Quotes(mm, cfg, bid, ask) ==
  <<SubmitAction(LimitOrder(MakerId(mm, 0), "Buy", bid, QuoteQty(cfg), mm.owner)),
    SubmitAction(LimitOrder(MakerId(mm, 1), "Sell",
                            IF ask <= bid THEN bid + Greater(1, cfg.tick_size) ELSE ask,
                            QuoteQty(cfg), mm.owner))>>

(* Mutant: the old ask is left in the market. *)
OldBidOnly(mm) == IF mm.bid # 0 THEN <<CancelAction(mm.bid)>> ELSE <<>>

OldQuotes(mm) ==
  (IF mm.bid # 0 THEN <<CancelAction(mm.bid)>> ELSE <<>>) \o
  (IF mm.ask # 0 THEN <<CancelAction(mm.ask)>> ELSE <<>>)

MakerQuotes(mm, cfg, ts, view, position) ==
  LET centre == Centre(cfg, view, position)
  IN  [agent |-> [mm EXCEPT !.refresh_at = ts + MakerParams.refresh, !.seq = mm.seq + 2,
                            !.bid = MakerId(mm, 0), !.ask = MakerId(mm, 1)],
       actions |-> OldQuotes(mm) \o
                   Quotes(mm, cfg, BidPrice(cfg, centre), AskPrice(cfg, centre))]

(* MarketMaker::step *)
MakerStep(mm, cfg, ts, view, position) ==
  IF ts < mm.refresh_at THEN [agent |-> mm, actions |-> <<>>]
  ELSE MakerQuotes(mm, cfg, ts, view, position)

----------------------------------------------------------------------------
(* NoiseTrader *)

NoiseTick == Greater(1, NoiseParams.tick_size)

(* snap_to_lot *)
NoiseQtys ==
  {LET snapped == Floored(q, Greater(1, NoiseParams.lot_size))
   IN  IF snapped <= 0 THEN Greater(1, NoiseParams.lot_size) ELSE snapped :
     q \in Greater(1, NoiseParams.min_qty) .. Greater(NoiseParams.min_qty, NoiseParams.max_qty)}

NoiseRef(view) ==
  LET ref == Floored(ValueOr(view.mid, NoiseParams.default_mid), NoiseTick)
  IN  IF ref <= 0 THEN NoiseTick ELSE ref

LimitAt(side, ref, off) ==
  LET px == Floored(IF side = "Buy" THEN ref - off ELSE ref + off, NoiseTick)
  IN  IF px <= 0 THEN Floored(ref, NoiseTick) ELSE px

NoisePrices(side, ref) == {LimitAt(side, ref, off) : off \in 1 .. Greater(1, NoiseParams.max_offset)}

(* What a noise trader may send once side and quantity are drawn: a market order, or
   a limit order away from the reference. *)
NoiseOrder(nt, ref, side, q) ==
  {[LimitOrder(nt.seq, side, 0, q, nt.owner) EXCEPT !.type = "Market", !.tif = "IOC"]} \cup
  {LimitOrder(nt.seq, side, px, q, nt.owner) : px \in NoisePrices(side, ref)}

NoiseOrders(nt, view) ==
  UNION {NoiseOrder(nt, NoiseRef(view), side, q) : side \in Sides, q \in NoiseQtys}

(* What NoiseTrader::generate_actions may do: nothing, or one order. *)
NoiseSteps(nt, view) ==
  {[agent |-> nt, actions |-> <<>>]} \cup
  {[agent |-> [nt EXCEPT !.seq = nt.seq + 1], actions |-> <<SubmitAction(o)>>] :
     o \in NoiseOrders(nt, view)}
=============================================================================
