------------------------------- MODULE World -------------------------------
(***************************************************************************)
(* class World (src/world.cpp): agents trade on one engine in time steps,  *)
(* and their fills are booked to accounts.  A step is                      *)
(*                                                                         *)
(*   BeginStep   flush, book its trades, take the view of the market;      *)
(*   MakerTurn,  one agent, in insertion order: it sees the view of the    *)
(*   NoiseTurn   step, not of its turn, and its actions are executed;      *)
(*   EndStep     time moves by dt.                                         *)
(***************************************************************************)
EXTENDS Engine, Ledger, Agents

CONSTANTS
  Configs,  \* the configurations to start from
  Casts,    \* the sequences of agents to start from
  Dt,       \* cfg.dt_ns
  Horizon   \* t_end

ASSUME WorldAssumption ==
  /\ Configs \subseteq RulesConfig
  /\ \A cast \in Casts : cast \in Seq(Makers \cup Noises)
  /\ Dt \in Nat \ {0} /\ Horizon \in Nat

VARIABLES
  eng,       \* engine_
  ts,        \* the loop variable of run()
  turn,      \* 0 before the step's flush, then the agent whose turn it is
  view,      \* the MarketView of the step
  agents,    \* agents_
  accounts,  \* accounts_
  meta,      \* order_meta_
  tape,      \* out.trades: every trade run() has recorded
  sent       \* history: the orders submitted

wvars == <<eng, ts, turn, view, agents, accounts, meta, tape, sent>>

(* A cast whose order ids differ: the makers have owners of their own, and the ids
   of the one noise trader count from 1. *)
ProperCast(cast) ==
  /\ \A i \in DOMAIN cast :
       /\ cast[i].owner \in Nat \ {0}
       /\ cast[i] \in {NewMaker(cast[i].owner), NewNoise(cast[i].owner)}
  /\ \A i, j \in DOMAIN cast : i # j =>
       /\ cast[i].owner # cast[j].owner
       /\ ~(cast[i].kind = "noise" /\ cast[j].kind = "noise")

ViewOf(e) ==
  [mid |-> MidPrice(Best(e.book, "Buy"), Best(e.book, "Sell")), last_trade |-> e.last]

WorldInit ==
  /\ eng \in {NewEngine(cfg) : cfg \in Configs}
  /\ agents \in Casts
  /\ ts = 0 /\ turn = 0
  /\ view = [mid |-> None, last_trade |-> None]
  /\ accounts = EmptyMap /\ meta = EmptyMap
  /\ tape = <<>> /\ sent = {}

(* Trades are recorded and booked. *)
Booked(w, e, trades) ==
  [w EXCEPT !.eng = e, !.tape = w.tape \o trades,
            !.accounts = ApplyTrades(w.accounts, w.meta, trades)]

(* The part of the state that flushes and actions change. *)
Books == [eng |-> eng, accounts |-> accounts, meta |-> meta, tape |-> tape]

Becomes(w) ==
  /\ eng' = w.eng /\ accounts' = w.accounts /\ meta' = w.meta /\ tape' = w.tape

(* Mutant: the trades of the flush are dropped. *)
BeganForgetful(f) ==
  /\ Becomes([Books EXCEPT !.eng = f.eng])
  /\ view' = ViewOf(f.eng)

(* The flush of a step; f is its outcome. *)
Began(f) ==
  /\ Becomes(Booked(Books, f.eng, f.trades))
  /\ view' = ViewOf(f.eng)

BeginStep ==
  /\ turn = 0 /\ ts <= Horizon
  /\ Began(Flush(eng, ts))
  /\ turn' = 1
  /\ UNCHANGED <<ts, agents, sent>>

(* The owner and the side are known before the order is processed. *)
Known(w, o) ==
  [w EXCEPT !.meta = Put(w.meta, o.id, [owner |-> o.owner, side |-> o.side])]

Processed(w, r) == Booked(w, r.eng, r.trades)

(* One action of an agent.  The agents of the repository send no ModifyQty. *)
Execute(w, act) ==
  CASE act.type = "Submit" -> Processed(Known(w, act.order), Process(w.eng, act.order, ts))
    [] act.type = "Cancel" -> [w EXCEPT !.eng.book = Cancel(w.eng.book, act.id).book]
    [] act.type = "ModifyQty" ->
         [w EXCEPT !.eng.book = ModifyQty(w.eng.book, act.id, act.new_qty).book]

(* The actions are executed in their order. *)
Executed(w, actions) ==
  LET after[k \in 0 .. Len(actions)] ==
        IF k = 0 THEN w ELSE Execute(after[k - 1], actions[k])
  IN  after[Len(actions)]

OrdersOf(actions) ==
  {actions[i].order : i \in {k \in DOMAIN actions : actions[k].type = "Submit"}}

(* The agent whose turn it is has stepped; s is its next state and its actions. *)
Acts(s) ==
  /\ agents' = [agents EXCEPT ![turn] = s.agent]
  /\ Becomes(Executed(Books, s.actions))
  /\ sent' = sent \cup OrdersOf(s.actions)
  /\ turn' = turn + 1
  /\ UNCHANGED <<ts, view>>

Turn(kind) == turn \in DOMAIN agents /\ agents[turn].kind = kind

MakerTurn ==
  /\ Turn("maker")
  /\ Acts(MakerStep(agents[turn], eng.cfg, ts, view,
                    AccountOf(accounts, agents[turn].owner).position))

NoiseTurn ==
  /\ Turn("noise")
  /\ \E s \in NoiseSteps(agents[turn], view) : Acts(s)

(* A step in which a call does not return does not end. *)
EndStep ==
  /\ turn = Len(agents) + 1 /\ ~eng.spinning
  /\ ts' = ts + Dt /\ turn' = 0
  /\ UNCHANGED <<eng, view, agents, accounts, meta, tape, sent>>

(* run() has returned. *)
Returned == ts > Horizon /\ UNCHANGED wvars

WorldNext == BeginStep \/ MakerTurn \/ NoiseTurn \/ EndStep \/ Returned

WorldSpec == WorldInit /\ [][WorldNext]_wvars

----------------------------------------------------------------------------
(* Types. *)
WorldTypeOK ==
  /\ IsEngine(eng)
  /\ agents \in Seq(Makers \cup Noises)
  /\ ts \in Nat /\ turn \in 0 .. Len(agents) + 1
  /\ IsMap(accounts, Owners, Account) /\ IsMap(meta, Ids, OrderMeta)
  /\ tape \in Seq(Trade) /\ sent \subseteq Order

(* Every print is recorded exactly once and in the order of printing: the tape
   holds the trade ids from 1 to the last one given out, and ends with the last
   price of the rules, although prints come out of the flush of the step, of the
   flush inside process(), of matching and of auctions (world.cpp:29-38, 75-77;
   matching_engine.cpp:318). *)
TapeExact ==
  /\ Len(tape) = eng.next_trade_id - 1
  /\ eng.last = IF tape = <<>> THEN None ELSE Last(tape).price
  /\ \A i \in DOMAIN tape : tape[i].id = i

(* Has an order of this owner and side traded in t? *)
Fills(orders, owner, side, t) ==
  \E o \in orders : o.owner = owner /\ o.side = side /\ o.id \in {t.maker, t.taker}

(* What trade t brings an owner, by the orders it is between. *)
Bought(orders, owner, t) ==
  (IF Fills(orders, owner, "Buy", t) THEN t.qty ELSE 0)
    - (IF Fills(orders, owner, "Sell", t) THEN t.qty ELSE 0)

(* An audit of the tape against the orders their owners sent gives the cash and
   the position of every account: each fill, also one at the uncrossing of an
   order sent steps ago, is booked once, on the side and to the owner of its
   order (ledger.hpp:55-82). *)
LedgerExact ==
  \A owner \in {agents[i].owner : i \in DOMAIN agents} :
    LET bought(t) == Bought(sent, owner, t)
        account == AccountOf(accounts, owner)
    IN  /\ account.position = QtyOf([k \in DOMAIN tape |-> [qty |-> bought(tape[k])]])
        /\ account.cash = -QtyOf([k \in DOMAIN tape |->
                                    [qty |-> bought(tape[k]) * tape[k].price]])

(* No agent acts in a phase whose time is over: the flush of the step has ended
   a due halt or auction, and a halt that its prints set off lasts beyond the
   step, provided dt is not longer than a halt (world.cpp:28). *)
NothingOverdue ==
  turn # 0 =>
    /\ eng.phase = "Halted" => ts < eng.halt_end
    /\ eng.phase = "Auction" => ts < eng.auction_end

LiveOrders == Resting(eng.book) \cup Range(eng.queue)

(* "cancel old quotes (if any)" (market_maker.cpp:29): the orders of a maker
   that can still trade are its current quotes. *)
OnlyCurrentQuotes ==
  \A i \in DOMAIN agents : agents[i].kind = "maker" =>
    \A o \in LiveOrders : o.owner = agents[i].owner => o.id \in {agents[i].bid, agents[i].ask}

(* What remains of that: it holds where no auction and no halt can keep a quote
   from its cancellation, however its fills and those of others interleave. *)
QuotesReplaced == ~eng.cfg.bands /\ ~eng.cfg.breaker => OnlyCurrentQuotes

(* There a maker never trades with itself, however the reference price and its
   position moved between its old quotes and its new ones. *)
NoMakerSelfTrade ==
  ~eng.cfg.bands /\ ~eng.cfg.breaker =>
    \A i \in DOMAIN agents : agents[i].kind = "maker" =>
      \A k \in DOMAIN tape : \E id \in {tape[k].maker, tape[k].taker} :
        \A o \in sent : o.id = id => o.owner # agents[i].owner
=============================================================================
