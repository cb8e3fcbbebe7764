----------------------------- MODULE WorldProofs -----------------------------
(***************************************************************************)
(* The world of agents.  A step of it folds lists twice: the actions of an *)
(* agent over engine, accounts and tape, and the trades of a call over the *)
(* accounts.  Both are treated as the loops of the engine: X[k] is the set *)
(* of the states after k members of the list.                              *)
(***************************************************************************)
EXTENDS World, AccountProofs

(* f[k] is what s has become after the first k steps. *)
IsFold(f, n, Z, s) == f = [k \in 0 .. n |-> IF k = 0 THEN s ELSE Z[k][f[k - 1]]]

(* A list of sets that the steps of a fold lead through: step k leads from X[k - 1]
   to X[k], and a step outside does not matter. *)
LEMMA FoldRun ==
  ASSUME NEW n \in Nat, NEW X, NEW Z, NEW s \in X[0], \A k \in 1 .. n : \A x \in X[k - 1] : Z[k][x] \in X[k]
  PROVE \E f : IsFold(f, n, Z, s)
<1> DEFINE U == UNION {X[k] : k \in 0 .. n}
           S == [k \in Nat |-> [x \in U |-> IF k < n /\ x \in X[k] THEN Z[k + 1][x] ELSE x]]
<1>1. s \in U
  OBVIOUS
<1>2. S \in [Nat -> [U -> U]]
  <2>1. ASSUME NEW k \in Nat, NEW x \in U, k < n, x \in X[k] PROVE Z[k + 1][x] \in U
    <3>1. k + 1 \in 1 .. n /\ k + 1 \in 0 .. n /\ (k + 1) - 1 = k BY <2>1
    <3>2. Z[k + 1][x] \in X[k + 1] BY <2>1, <3>1
    <3>3. QED BY <3>1, <3>2
  <2> HIDE DEF U
  <2>2. QED BY <2>1
<1>3. PICK g : IsRun(g, U, S, s)
  <2> HIDE DEF U, S
  <2>1. QED BY <1>1, <1>2, LoopRun
<1>4. \A k \in Nat : k <= n => g[k] \in X[k]
  <2> DEFINE A == {k \in Nat : k <= n => g[k] \in X[k]}
  <2>1. 0 \in A BY <1>3 DEF IsRun
  <2>2. ASSUME NEW k \in Nat, k \in A PROVE k + 1 \in A
    <3>1. SUFFICES ASSUME k + 1 <= n PROVE g[k + 1] \in X[k + 1] OBVIOUS
    <3>2. k < n /\ k + 1 \in 1 .. n /\ (k + 1) - 1 = k /\ k \in 0 .. n BY <3>1
    <3>3. g[k] \in X[k] BY <2>2, <3>2
    <3>4. g[k] \in U BY <3>2, <3>3
    <3>5. g[k + 1] = Z[k + 1][g[k]]
      <4>1. g[k + 1] = S[k][g[k]] BY <1>3 DEF IsRun
      <4> HIDE DEF U
      <4>2. QED BY <3>2, <3>3, <3>4, <4>1
    <3>6. QED BY <3>2, <3>3, <3>5
  <2>3. A = Nat
    <3>1. A \subseteq Nat OBVIOUS
    <3> HIDE DEF A
    <3>2. QED BY <2>1, <2>2, <3>1, InductSet
  <2>4. QED BY <2>3
<1> DEFINE f == [k \in 0 .. n |-> g[k]]
<1>5. f[0] = s
  BY <1>3 DEF IsRun
<1>6. ASSUME NEW k \in 0 .. n, k # 0 PROVE f[k] = Z[k][f[k - 1]]
  <2>1. k - 1 \in Nat /\ k - 1 \in 0 .. n /\ k - 1 < n /\ (k - 1) + 1 = k BY <1>6
  <2>2. g[k - 1] \in X[k - 1] BY <1>4, <2>1
  <2>3. g[k - 1] \in U BY <2>1, <2>2
  <2>4. g[(k - 1) + 1] = S[k - 1][g[k - 1]] BY <1>3, <2>1 DEF IsRun
  <2> HIDE DEF U
  <2>5. g[k] = Z[k][g[k - 1]] BY <2>1, <2>2, <2>3, <2>4
  <2>6. QED BY <2>1, <2>5
<1>7. f = [k \in 0 .. n |-> IF k = 0 THEN s ELSE Z[k][f[k - 1]]]
  <2> DEFINE h == [k \in 0 .. n |-> IF k = 0 THEN s ELSE Z[k][f[k - 1]]]
  <2>1. \A k \in 0 .. n : f[k] = h[k] BY <1>5, <1>6
  <2>2. f = [k \in 0 .. n |-> f[k]] OBVIOUS
  <2> HIDE DEF f
  <2>3. QED BY <2>1, <2>2
<1>8. QED BY <1>7 DEF IsFold

(* A function that goes from X[k - 1] to X[k] for each k to n ends in X[n]. *)
LEMMA FoldEnds ==
  ASSUME NEW n \in Nat, NEW X, NEW f, f[0] \in X[0],
         \A k \in 1 .. n : f[k - 1] \in X[k - 1] => f[k] \in X[k]
  PROVE f[n] \in X[n]
<1> DEFINE A == {k \in Nat : k <= n => f[k] \in X[k]}
<1>1. 0 \in A
  OBVIOUS
<1>2. ASSUME NEW k \in Nat, k \in A PROVE k + 1 \in A
  <2>1. SUFFICES ASSUME k + 1 <= n PROVE f[k + 1] \in X[k + 1] OBVIOUS
  <2>2. k + 1 \in 1 .. n /\ (k + 1) - 1 = k /\ f[k] \in X[k] BY <1>2, <2>1
  <2>3. QED BY <2>2
<1>3. A = Nat
  <2>1. A \subseteq Nat OBVIOUS
  <2> HIDE DEF A
  <2>2. QED BY <1>1, <1>2, <2>1, InductSet
<1>4. QED BY <1>3

(* Booking the trades of a list one after the other leads through X. *)
LEMMA TradesBooked ==
  ASSUME NEW known, NEW trades, Len(trades) \in Nat, NEW X, NEW a0 \in X[0],
         \A k \in 1 .. Len(trades) : \A a \in X[k - 1] :
           ApplyTrade(a, known, trades[k]) \in X[k]
  PROVE ApplyTrades(a0, known, trades) \in X[Len(trades)]
<1> DEFINE n == Len(trades)
           Z == [k \in 1 .. n |-> [a \in X[k - 1] |-> ApplyTrade(a, known, trades[k])]]
           Eqn(r) == r = [k \in 0 .. n |-> IF k = 0 THEN a0
                                           ELSE ApplyTrade(r[k - 1], known, trades[k])]
           run == CHOOSE r : Eqn(r)
<1>1. ApplyTrades(a0, known, trades) = run[n]
  BY DEF ApplyTrades
<1>2. \A k \in 1 .. n : \A a \in X[k - 1] :
        Z[k][a] = ApplyTrade(a, known, trades[k]) /\ Z[k][a] \in X[k]
  OBVIOUS
<1>3. PICK f : IsFold(f, n, Z, a0)
  <2> HIDE DEF Z
  <2>1. \A k \in 1 .. n : \A x \in X[k - 1] : Z[k][x] \in X[k] BY <1>2
  <2>2. n \in Nat OBVIOUS
  <2> HIDE DEF n
  <2>3. QED BY <2>1, <2>2, FoldRun
<1> HIDE DEF Z
<1>4. \A k \in 0 .. n : f[k] \in X[k]
  <2> SUFFICES ASSUME NEW m \in 0 .. n PROVE f[m] \in X[m] OBVIOUS
  <2>1. f[0] \in X[0] BY <1>3 DEF IsFold
  <2>2. \A k \in 1 .. m : f[k - 1] \in X[k - 1] => f[k] \in X[k]
    <3> SUFFICES ASSUME NEW k \in 1 .. m, f[k - 1] \in X[k - 1] PROVE f[k] \in X[k] OBVIOUS
    <3>1. k \in 0 .. n /\ k # 0 /\ k \in 1 .. n OBVIOUS
    <3>2. f[k] = Z[k][f[k - 1]] BY <1>3, <3>1 DEF IsFold
    <3>3. QED BY <1>2, <3>1, <3>2
  <2>3. QED BY <2>1, <2>2, FoldEnds
<1>5. Eqn(f)
  <2>1. \A k \in 0 .. n : k # 0 => Z[k][f[k - 1]] = ApplyTrade(f[k - 1], known, trades[k])
    BY <1>2, <1>4
  <2>2. QED BY <1>3, <2>1 DEF IsFold
<1>6. Eqn(run)
  <2> HIDE DEF Eqn
  <2>1. QED BY <1>5
<1> HIDE DEF run
<1>7. run[n] \in X[n]
  <2>1. run[0] \in X[0] BY <1>6
  <2>2. \A k \in 1 .. n : run[k - 1] \in X[k - 1] => run[k] \in X[k] BY <1>6
  <2> HIDE DEF Eqn
  <2>3. QED BY <2>1, <2>2, FoldEnds
<1>8. QED BY <1>1, <1>7

(* So do the actions of an agent. *)
LEMMA ActionsExecuted ==
  ASSUME NEW actions, Len(actions) \in Nat, NEW X, NEW w \in X[0],
         \A k \in 1 .. Len(actions) : \A v \in X[k - 1] : Execute(v, actions[k]) \in X[k]
  PROVE Executed(w, actions) \in X[Len(actions)]
<1> DEFINE n == Len(actions)
           Z == [k \in 1 .. n |-> [v \in X[k - 1] |-> Execute(v, actions[k])]]
           Eqn(r) == r = [k \in 0 .. n |-> IF k = 0 THEN w ELSE Execute(r[k - 1], actions[k])]
           run == CHOOSE r : Eqn(r)
<1>1. Executed(w, actions) = run[n]
  BY DEF Executed
<1>2. \A k \in 1 .. n : \A v \in X[k - 1] :
        Z[k][v] = Execute(v, actions[k]) /\ Z[k][v] \in X[k]
  OBVIOUS
<1>3. PICK f : IsFold(f, n, Z, w)
  <2> HIDE DEF Z
  <2>1. \A k \in 1 .. n : \A x \in X[k - 1] : Z[k][x] \in X[k] BY <1>2
  <2>2. n \in Nat OBVIOUS
  <2> HIDE DEF n
  <2>3. QED BY <2>1, <2>2, FoldRun
<1> HIDE DEF Z
<1>4. \A k \in 0 .. n : f[k] \in X[k]
  <2> SUFFICES ASSUME NEW m \in 0 .. n PROVE f[m] \in X[m] OBVIOUS
  <2>1. f[0] \in X[0] BY <1>3 DEF IsFold
  <2>2. \A k \in 1 .. m : f[k - 1] \in X[k - 1] => f[k] \in X[k]
    <3> SUFFICES ASSUME NEW k \in 1 .. m, f[k - 1] \in X[k - 1] PROVE f[k] \in X[k] OBVIOUS
    <3>1. k \in 0 .. n /\ k # 0 /\ k \in 1 .. n OBVIOUS
    <3>2. f[k] = Z[k][f[k - 1]] BY <1>3, <3>1 DEF IsFold
    <3>3. QED BY <1>2, <3>1, <3>2
  <2>3. QED BY <2>1, <2>2, FoldEnds
<1>5. Eqn(f)
  <2>1. \A k \in 0 .. n : k # 0 => Z[k][f[k - 1]] = Execute(f[k - 1], actions[k])
    BY <1>2, <1>4
  <2>2. QED BY <1>3, <2>1 DEF IsFold
<1>6. Eqn(run)
  <2> HIDE DEF Eqn
  <2>1. QED BY <1>5
<1> HIDE DEF run
<1>7. run[n] \in X[n]
  <2>1. run[0] \in X[0] BY <1>6
  <2>2. \A k \in 1 .. n : run[k - 1] \in X[k - 1] => run[k] \in X[k] BY <1>6
  <2> HIDE DEF Eqn
  <2>3. QED BY <2>1, <2>2, FoldEnds
<1>8. QED BY <1>1, <1>7

----------------------------------------------------------------------------
(* The types of the world *)

(* The good engines, as a set. *)
Engines ==
  [book : GoodBooks, cfg : RulesConfig, phase : Phases, last : Prices \cup {None},
   next_trade_id : Nat, queue : Seq(Order), auction_end : Int, tal_end : Int,
   cb_ref : Prices \cup {None}, halt_end : Int, reopen_end : Int, spinning : BOOLEAN]

LEMMA EngineSet ==
  ASSUME NEW e
  PROVE GoodEngine(e) <=> e \in Engines
<1>1. ASSUME GoodEngine(e) PROVE e \in Engines
  <2>1. e.book \in GoodBooks BY <1>1, GoodBookSet DEF GoodEngine
  <2>2. QED BY <1>1, <2>1 DEF GoodEngine, IsEngine, Engines
<1>2. ASSUME e \in Engines PROVE GoodEngine(e)
  <2>1. GoodBook(e.book) BY <1>2, GoodBookSet DEF Engines
  <2>2. IsBook(e.book) BY <2>1, GoodIsBook
  <2>3. QED BY <1>2, <2>1, <2>2 DEF GoodEngine, IsEngine, Engines
<1>3. QED BY <1>1, <1>2

Worlds ==
  [eng : Engines, accounts : Maps(Owners, Account), meta : Maps(Ids, OrderMeta),
   tape : Seq(Trade)]

(* A fill changes one account. *)
LEMMA CreditType ==
  ASSUME NEW a \in Maps(Owners, Account), NEW m \in OrderMeta, NEW t \in Trade
  PROVE Credit(a, m, t) \in Maps(Owners, Account)
<1> DEFINE old == AccountOf(a, m.owner)
           new == ApplyFill(old, m.side, t.price, t.qty)
<1>1. m.owner \in Owners /\ t.price \in Int /\ t.qty \in Int
  BY MarketAssumption DEF OrderMeta, Trade
<1>2. IsMap(a, Owners, Account)
  BY MapSet
<1>3. old \in Account
  <2>1. NewAccount \in Account BY DEF NewAccount, Account
  <2>2. QED BY <1>2, <2>1 DEF AccountOf, IsMap
<1>4. new \in Account
  <2> HIDE DEF old
  <2> DEFINE px == t.price
             q == t.qty
             sign == IF m.side = "Buy" THEN 1 ELSE -1
  <2>1. sign \in {1, -1} /\ px \in Int /\ q \in Int BY <1>1
  <2>2. /\ old.cash \in Int /\ old.position \in Int /\ old.traded_qty \in Int
        /\ old.notional \in Int
    BY <1>3 DEF Account
  <2>3. new = [cash |-> old.cash - sign * px * q, position |-> old.position + sign * q,
               traded_qty |-> old.traded_qty + q, notional |-> old.notional + px * q]
    BY DEF ApplyFill
  <2> HIDE DEF px, q, new
  <2>4. px * q \in Int /\ sign * px * q \in Int /\ sign * q \in Int BY <2>1
  <2> HIDE DEF sign
  <2>5. QED BY <2>1, <2>2, <2>3, <2>4 DEF Account
<1> HIDE DEF new
<1>5. IsMap(Put(a, m.owner, new), Owners, Account)
  BY <1>1, <1>2, <1>4 DEF IsMap, Put
<1>6. QED BY <1>5, MapSet DEF Credit, new, old

LEMMA TradeType ==
  ASSUME NEW a \in Maps(Owners, Account), NEW m \in Maps(Ids, OrderMeta), NEW t \in Trade
  PROVE ApplyTrade(a, m, t) \in Maps(Owners, Account)
<1>1. CASE {t.maker, t.taker} \subseteq DOMAIN m
  <2>1. m[t.maker] \in OrderMeta /\ m[t.taker] \in OrderMeta
    BY <1>1, MapSet DEF IsMap
  <2>2. Credit(a, m[t.maker], t) \in Maps(Owners, Account) BY <2>1, CreditType
  <2>3. Credit(Credit(a, m[t.maker], t), m[t.taker], t) \in Maps(Owners, Account)
    BY <2>1, <2>2, CreditType
  <2>4. QED BY <1>1, <2>3 DEF ApplyTrade
<1>2. CASE ~({t.maker, t.taker} \subseteq DOMAIN m)
  BY <1>2 DEF ApplyTrade
<1>3. QED BY <1>1, <1>2

LEMMA BookedType ==
  ASSUME NEW w \in Worlds, NEW e \in Engines, NEW trades \in Seq(Trade)
  PROVE /\ Booked(w, e, trades) \in Worlds
        /\ Booked(w, e, trades).eng = e /\ Booked(w, e, trades).tape = w.tape \o trades
        /\ Booked(w, e, trades).meta = w.meta
<1> DEFINE A == Maps(Owners, Account)
           X == [k \in Nat |-> A]
           booked == ApplyTrades(w.accounts, w.meta, trades)
           tape1 == w.tape \o trades
<1>1. w.accounts \in A /\ w.meta \in Maps(Ids, OrderMeta) /\ w.tape \in Seq(Trade)
  BY DEF Worlds
<1>2. Len(trades) \in Nat /\ \A k \in 1 .. Len(trades) : trades[k] \in Trade
  BY LenProperties, ElementOfSeq
<1>3. booked \in A
  <2>1. \A k \in 1 .. Len(trades) : \A a \in A : ApplyTrade(a, w.meta, trades[k]) \in A
    BY <1>1, <1>2, TradeType
  <2> HIDE DEF A
  <2>2. \A k \in 1 .. Len(trades) : X[k - 1] = A /\ X[k] = A
    OBVIOUS
  <2>3. X[0] = A /\ X[Len(trades)] = A
    BY <1>2
  <2> HIDE DEF X
  <2>4. ApplyTrades(w.accounts, w.meta, trades) \in X[Len(trades)]
    BY <1>1, <1>2, <2>1, <2>2, <2>3, TradesBooked
  <2>5. QED BY <2>3, <2>4
<1>4. tape1 \in Seq(Trade)
  <2> DEFINE old == w.tape
  <2>1. old \in Seq(Trade) BY <1>1
  <2> HIDE DEF old
  <2>2. old \o trades \in Seq(Trade) BY <2>1, ConcatProperties
  <2>3. QED BY <2>2 DEF old
<1>5. Booked(w, e, trades) = [w EXCEPT !.eng = e, !.tape = tape1, !.accounts = booked]
  BY DEF Booked
<1> HIDE DEF booked, tape1, A
<1>6. QED BY <1>1, <1>3, <1>4, <1>5 DEF Worlds, A, tape1

----------------------------------------------------------------------------
(* The tape *)

(* The tape of everything engine e has printed. *)
Taped(e, trades) ==
  /\ Len(trades) = e.next_trade_id - 1 /\ Serial(1, trades)
  /\ e.last = IF trades = <<>> THEN None ELSE Last(trades).price

(* A call continues the tape. *)
LEMMA TapeContinues ==
  ASSUME NEW e, e.next_trade_id \in Nat, NEW old \in Seq(Trade), Taped(e, old),
         NEW f, NEW new \in Seq(Trade), OnTape(e, f, new)
  PROVE Taped(f, old \o new)
<1> DEFINE s == old \o new
<1>1. 1 + Len(old) = e.next_trade_id /\ Len(old) \in Nat /\ Len(new) \in Nat
  BY LenProperties DEF Taped
<1>2. Len(s) = Len(old) + Len(new) /\ Serial(1, s)
  <2>1. Serial(1 + Len(old), new) BY <1>1 DEF OnTape
  <2>2. QED BY <2>1, SerialJoins DEF Taped
<1>3. s \in Seq(Trade)
  BY ConcatProperties
<1>4. CASE new = <<>>
  <2>1. s = old BY <1>4, ConcatEmptySeq
  <2>2. f.next_trade_id = e.next_trade_id /\ f.last = e.last BY <1>1, <1>4 DEF OnTape
  <2> HIDE DEF s
  <2>3. Taped(f, s) BY <2>1, <2>2 DEF Taped
  <2>4. QED BY <2>3 DEF s
<1>5. CASE new # <<>>
  <2>1. Len(new) # 0 BY <1>5, EmptySeq
  <2>2. s[Len(s)] = new[Len(new)]
    <3>1. \A k \in 1 .. Len(old) + Len(new) :
            s[k] = IF k <= Len(old) THEN old[k] ELSE new[k - Len(old)]
      BY ConcatProperties
    <3> HIDE DEF s
    <3>2. QED BY <1>1, <1>2, <2>1, <3>1
  <2>3. s # <<>> BY <1>1, <1>2, <2>1, EmptySeq
  <2>4. Last(s) = Last(new) BY <2>2 DEF Last
  <2>5. f.next_trade_id = e.next_trade_id + Len(new) /\ f.last = Last(new).price
    BY <1>5 DEF OnTape
  <2> HIDE DEF s
  <2>6. Taped(f, s) BY <1>1, <1>2, <2>3, <2>4, <2>5 DEF Taped
  <2>7. QED BY <2>6 DEF s
<1>6. QED BY <1>4, <1>5

----------------------------------------------------------------------------
(* Time.  What prints is in time, and what is over ends. *)

(* No phase of e is over at time t, and a halt is not longer than the auction that
   follows it. *)
Timely(e, t) ==
  /\ e.phase \in {"Continuous", "Halted", "Auction"}
  /\ e.phase = "Halted" => t < e.halt_end /\ e.halt_end <= e.auction_end
  /\ e.phase = "Auction" => t < e.auction_end

(* A halt that prints of time p trigger. *)
LEMMA BreakerTimely ==
  ASSUME NEW e, GoodEngine(e), e.phase = "Continuous", NEW trades \in Seq(Trade),
         NEW p \in Int, Clocked(p, trades), NEW t \in Int, t < p + e.cfg.halt
  PROVE LET new == MaybeTriggerCircuitBreaker(OnTrades(e, trades), trades)
        IN  Timely(new, t) /\ new.cfg = e.cfg
<1> DEFINE a == OnTrades(e, trades)
           ref == IF a.cb_ref = None THEN Head(trades).price ELSE a.cb_ref
           c == [a EXCEPT !.cb_ref = ref]
           new == MaybeTriggerCircuitBreaker(a, trades)
           at == Last(trades).ts
<1>1. GoodEngine(a)
  BY OnTradesGood
<1>2. a.phase = "Continuous" /\ a.cfg = e.cfg
  BY DEF OnTrades, GoodEngine, IsEngine
<1> HIDE DEF a
<1>3. trades = <<>> \/ at = p
  <2>1. SUFFICES ASSUME trades # <<>> PROVE at = p OBVIOUS
  <2>2. Len(trades) \in 1 .. Len(trades) BY <2>1, EmptySeq, LenProperties
  <2>3. QED BY <2>2 DEF Clocked, Last
<1>4. new = a \/ (trades # <<>> /\ new \in {c, Halt(c, at)})
  <2>1. new = IF ~a.cfg.breaker \/ trades = <<>> \/ a.phase # "Continuous" THEN a
              ELSE IF Last(trades).price > MulDivBps(ref, 10000 - a.cfg.drop_bps)
                   THEN c ELSE Halt(c, at)
    BY DEF MaybeTriggerCircuitBreaker
  <2> HIDE DEF new, c
  <2>2. QED BY <2>1
<1> HIDE DEF ref
<1>5. c.phase = "Continuous" /\ c.cfg = e.cfg
  BY <1>1, <1>2 DEF GoodEngine, IsEngine
<1>6. /\ Halt(c, p).phase = "Halted" /\ Halt(c, p).cfg = e.cfg
      /\ Halt(c, p).halt_end = p + e.cfg.halt
      /\ Halt(c, p).auction_end = p + e.cfg.halt + e.cfg.reopen
  <2>1. DOMAIN c = DOMAIN a BY DEF c
  <2>2. QED BY <1>1, <1>5, <2>1 DEF Halt, GoodEngine, IsEngine
<1>7. e.cfg.halt \in Nat /\ e.cfg.reopen \in Nat
  BY EngineFields
<1> HIDE DEF new, c, at
<1>8. CASE new = a \/ new = c
  BY <1>2, <1>5, <1>8 DEF Timely, new, a
<1>9. CASE new = Halt(c, p)
  <2> DEFINE h == Halt(c, p)
  <2>1. t < h.halt_end /\ h.halt_end <= h.auction_end BY <1>6, <1>7
  <2> HIDE DEF h
  <2>2. h.phase = "Halted" /\ h.cfg = e.cfg BY <1>6 DEF h
  <2>3. Timely(h, t) BY <2>1, <2>2 DEF Timely
  <2>4. QED BY <1>9, <2>2, <2>3 DEF new, a, h
<1>10. QED BY <1>3, <1>4, <1>8, <1>9

(* flush at time t of an engine that was in time at t0: what is over is ended, and
   a halt that the auction's prints set off reaches beyond t, provided t is not a
   halt later than t0. *)
LEMMA FlushTimely ==
  ASSUME NEW e0, GoodEngine(e0), NEW t0 \in Int, Timely(e0, t0), NEW t \in Nat,
         t0 <= t, t <= t0 + e0.cfg.halt, t0 < 0 => e0.phase = "Continuous"
  PROVE LET f == Flush(e0, t)
        IN  /\ Timely(f.eng, t) /\ f.eng.cfg = e0.cfg
            /\ t = t0 => f = [eng |-> e0, trades |-> <<>>]
<1> DEFINE e == ExpireHalt(e0, t)
           u == UncrossAuction(e, e.auction_end)
           next == [u.eng EXCEPT !.phase = "Continuous"]
           new == MaybeTriggerCircuitBreaker(OnTrades(next, u.trades), u.trades)
<1>1. ExpireTradingAtLast(e0, t) = e0
  BY DEF Timely, ExpireTradingAtLast
<1>2. Flush(e0, t) = ExpireAuction(e, t)
  BY <1>1 DEF Flush
<1>3. e0.auction_end \in Int /\ e0.halt_end \in Int /\ e0.cfg.halt \in Nat
  BY EngineFields
<1>4. /\ GoodEngine(e) /\ e.cfg = e0.cfg /\ e.auction_end = e0.auction_end
      /\ e.phase = "Halted" => e = e0 /\ t < e0.halt_end
      /\ e.phase = "Auction" => t0 < e0.auction_end /\ t0 >= 0
      /\ e.phase \in {"Continuous", "Halted", "Auction"}
      /\ t = t0 => e = e0
  <2>1. GoodEngine(e) BY ExpireGood
  <2>2. /\ e.cfg = e0.cfg /\ e.auction_end = e0.auction_end
        /\ e = e0 \/ (e.phase = "Auction" /\ e0.phase = "Halted" /\ t >= e0.halt_end)
        /\ e0.phase = "Halted" => (e = e0 /\ t < e0.halt_end) \/ e.phase = "Auction"
    <3>1. e0.phase = "Halted" => e0.halt_end > 0
      <4>1. SUFFICES ASSUME e0.phase = "Halted" PROVE e0.halt_end > 0 OBVIOUS
      <4>2. t0 < e0.halt_end /\ 0 <= t0 BY <4>1 DEF Timely
      <4>3. QED BY <1>3, <4>2
    <3>2. e = IF e0.phase = "Halted" /\ e0.halt_end > 0 /\ t >= e0.halt_end
              THEN [e0 EXCEPT !.phase = "Auction"] ELSE e0
      BY DEF ExpireHalt
    <3>3. [e0 EXCEPT !.phase = "Auction"].phase = "Auction"
          /\ [e0 EXCEPT !.phase = "Auction"].cfg = e0.cfg
          /\ [e0 EXCEPT !.phase = "Auction"].auction_end = e0.auction_end
      BY DEF GoodEngine, IsEngine
    <3> HIDE DEF e
    <3>4. QED BY <1>3, <3>1, <3>2, <3>3
  <2> HIDE DEF e
  <2>3. e0.phase = "Halted" => t0 < e0.halt_end /\ e0.halt_end <= e0.auction_end /\ 0 <= t0
    BY DEF Timely
  <2>4. e0.phase = "Auction" => t0 < e0.auction_end /\ 0 <= t0
    BY DEF Timely
  <2>5. e0.phase \in {"Continuous", "Halted", "Auction"}
    BY DEF Timely
  <2>6. QED BY <1>3, <2>1, <2>2, <2>3, <2>4, <2>5
<1> HIDE DEF e
<1>5. CASE ~AuctionDue(e, t)
  <2>1. Flush(e0, t) = [eng |-> e, trades |-> <<>>]
    BY <1>2, <1>5 DEF ExpireAuction
  <2>2. e.phase = "Auction" => t < e.auction_end
    BY <1>3, <1>4, <1>5 DEF AuctionDue
  <2>3. e.phase = "Halted" => t < e.halt_end /\ e.halt_end <= e.auction_end
    BY <1>4 DEF Timely
  <2>4. Timely(e, t)
    BY <1>4, <2>2, <2>3 DEF Timely
  <2>5. QED BY <1>4, <2>1, <2>4
<1>6. CASE AuctionDue(e, t)
  <2>1. e.phase = "Auction" /\ t >= e0.auction_end
    BY <1>4, <1>6 DEF AuctionDue
  <2>2. Flush(e0, t) = [eng |-> new, trades |-> u.trades]
    BY <1>2, <1>6, <2>1 DEF ExpireAuction, EndAuction
  <2>3. GoodEngine(u.eng) /\ u.trades \in Seq(Trade) /\ Clocked(e0.auction_end, u.trades)
    BY <1>3, <1>4, UncrossGood, UncrossClock DEF GoodOutcome
  <2>4. u.eng.cfg = e0.cfg
    <3> DEFINE at == e.auction_end
    <3>1. UncrossAuction(e, at).eng.cfg = e.cfg
      BY <1>4 DEF UncrossAuction, UncrossAt, Leftovers, GoodEngine, IsEngine
    <3>2. QED BY <1>4, <3>1
  <2> HIDE DEF u
  <2>5. GoodEngine(next) /\ next.phase = "Continuous" /\ next.cfg = e0.cfg
    <3>1. "Continuous" \in Phases /\ 0 \in Int BY DEF Phases
    <3>2. GoodEngine(next) BY <2>3, <3>1, SetPhase
    <3>3. QED BY <2>3, <2>4, <3>2 DEF GoodEngine, IsEngine
  <2> HIDE DEF next
  <2>6. t < e0.auction_end + next.cfg.halt
    BY <1>3, <1>4, <2>1, <2>5
  <2>7. Timely(new, t) /\ new.cfg = e0.cfg
    BY <1>3, <2>3, <2>5, <2>6, BreakerTimely
  <2> HIDE DEF new
  <2>8. t # t0
    <3>1. t = t0 => t < e0.auction_end BY <1>4, <2>1
    <3>2. QED BY <1>3, <2>1, <3>1
  <2>9. QED BY <2>2, <2>7, <2>8
<1>7. QED BY <1>5, <1>6

(* The end of process() in the phase Continuous, without a flush that prints. *)
LEMMA SettledTimely ==
  ASSUME NEW r, GoodOutcome(r), r.eng.phase = "Continuous", NEW t \in Int,
         Clocked(t, r.trades), r.eng.cfg.halt > 0
  PROVE Timely(Settled(<<>>, r).eng, t) /\ Settled(<<>>, r).eng.cfg = r.eng.cfg
<1> DEFINE e == r.eng
           trades == r.trades
           new == MaybeTriggerCircuitBreaker(OnTrades(e, trades), trades)
<1>1. GoodEngine(e) /\ trades \in Seq(Trade) /\ e.cfg.halt \in Nat
  BY EngineFields DEF GoodOutcome
<1>2. <<>> \o trades = trades
  BY <1>1, ConcatEmptySeq
<1>3. Settled(<<>>, r).eng = new
  BY <1>2 DEF Settled, Result
<1>4. t < t + e.cfg.halt
  BY <1>1
<1> HIDE DEF e, trades
<1>5. Timely(new, t) /\ new.cfg = e.cfg
  <2>1. e.phase = "Continuous" /\ Clocked(t, trades) BY DEF e, trades
  <2>2. QED BY <1>1, <1>4, <2>1, BreakerTimely
<1>6. QED BY <1>3, <1>5 DEF e

LEMMA ContinuousTimely ==
  ASSUME NEW e, GoodEngine(e), e.phase = "Continuous", NEW o \in Order, NEW t \in Int,
         e.cfg.halt > 0, e.cfg.vol_auction > 0
  PROVE LET r == ProcessContinuous(e, <<>>, o, t) IN Timely(r.eng, t) /\ r.eng.cfg = e.cfg
<1> DEFINE end == t + e.cfg.vol_auction
           auction == [e EXCEPT !.phase = "Auction", !.auction_end = end]
           nothing == [eng |-> e, trades |-> <<>>, resting |-> None]
           queued == Result(QueueInAuction(auction, o), <<>>, None, "Accepted")
           market == ProcessMarket(e, o, t)
           limit == ProcessLimit(e, o, t)
           r == ProcessContinuous(e, <<>>, o, t)
<1>1. Timely(queued.eng, t) /\ queued.eng.cfg = e.cfg
  <2>1. t < end
    <3>1. e.cfg.vol_auction \in Nat BY EngineFields
    <3>2. QED BY <3>1
  <2> HIDE DEF end
  <2>2. /\ queued.eng.phase = "Auction" /\ queued.eng.auction_end = end
        /\ queued.eng.cfg = e.cfg
    BY DEF Result, QueueInAuction, GoodEngine, IsEngine
  <2> HIDE DEF queued
  <2>3. QED BY <2>1, <2>2 DEF Timely
<1>2. GoodOutcome(nothing) /\ nothing.eng = e /\ Clocked(t, nothing.trades)
  BY NoneClocked DEF GoodOutcome
<1>3. GoodOutcome(market) /\ GoodOutcome(limit)
  BY ProcessMarketGood, ProcessLimitGood
<1>4. /\ Clocked(t, market.trades) /\ market.eng.phase = e.phase /\ market.eng.cfg = e.cfg
      /\ Clocked(t, limit.trades) /\ limit.eng.phase = e.phase /\ limit.eng.cfg = e.cfg
  BY ProcessClock
<1>5. r \in {queued, Settled(<<>>, nothing), Settled(<<>>, market), Settled(<<>>, limit)}
  BY DEF ProcessContinuous
<1> HIDE DEF queued, nothing, market, limit, r
<1>6. \A x \in {nothing, market, limit} :
        Timely(Settled(<<>>, x).eng, t) /\ Settled(<<>>, x).eng.cfg = e.cfg
  BY <1>2, <1>3, <1>4, SettledTimely
<1>7. Timely(r.eng, t) /\ r.eng.cfg = e.cfg
  BY <1>1, <1>5, <1>6
<1>8. QED BY <1>7 DEF r

(* process at the time at which nothing of the engine is over. *)
LEMMA ProcessTimely ==
  ASSUME NEW e, GoodEngine(e), NEW t \in Nat, Timely(e, t), NEW o \in Order,
         e.cfg.halt > 0, e.cfg.vol_auction > 0
  PROVE Timely(Process(e, o, t).eng, t) /\ Process(e, o, t).eng.cfg = e.cfg
<1> DEFINE none == <<>>
           r == Process(e, o, t)
           cont == ProcessContinuous(e, none, o, t)
           queued == QueueInAuction(e, o)
<1>1. Flush(e, t) = [eng |-> e, trades |-> none]
  <2>1. e.cfg.halt \in Nat BY EngineFields
  <2>2. t <= t + e.cfg.halt BY <2>1
  <2>3. t <= t /\ ~(t < 0) /\ t \in Int OBVIOUS
  <2>4. QED BY <2>2, <2>3, FlushTimely
<1>2. r.eng \in {e, queued} \/ (e.phase = "Continuous" /\ r = cont)
  <2> HIDE DEF none, cont
  <2>1. r = ProcessFlushed([eng |-> e, trades |-> none], o, t) BY <1>1 DEF Process
  <2>2. e.phase \in {"Continuous", "Halted", "Auction"} BY DEF Timely
  <2>3. \A x, s : Result(x, none, None, s).eng = x BY DEF Result
  <2> HIDE DEF r, queued
  <2>4. QED BY <2>1, <2>2, <2>3 DEF ProcessFlushed, queued, cont
<1>3. /\ queued.phase = e.phase /\ queued.halt_end = e.halt_end
      /\ queued.auction_end = e.auction_end /\ queued.cfg = e.cfg
  BY DEF QueueInAuction, GoodEngine, IsEngine
<1>4. e.phase = "Continuous" => Timely(cont.eng, t) /\ cont.eng.cfg = e.cfg
  <2>1. t \in Int OBVIOUS
  <2>2. QED BY <2>1, ContinuousTimely
<1> HIDE DEF queued, cont, r
<1>5. Timely(r.eng, t) /\ r.eng.cfg = e.cfg
  <2>1. Timely(queued, t) BY <1>3 DEF Timely
  <2>2. QED BY <1>2, <1>3, <1>4, <2>1
<1>6. QED BY <1>5 DEF r

----------------------------------------------------------------------------
(* One agent's turn *)

(* In every configuration a halt is not shorter than a step of time, and a call of
   the volatility interruption is not over at once. *)
Prompt == \A cfg \in Configs : cfg.halt >= Dt /\ cfg.vol_auction > 0

InTime(e, t) == Timely(e, t) /\ e.cfg.halt >= Dt /\ e.cfg.vol_auction > 0

(* What an agent finds and leaves at time t: typed, on tape and in time. *)
SoundWorlds(t) ==
  {w \in Worlds : Taped(w.eng, w.tape) /\ (Prompt => InTime(w.eng, t))}

LEMMA SoundParts ==
  ASSUME NEW t, NEW w \in SoundWorlds(t)
  PROVE /\ w \in Worlds /\ GoodEngine(w.eng) /\ w.eng.next_trade_id \in Nat
        /\ w.tape \in Seq(Trade) /\ w.accounts \in Maps(Owners, Account)
        /\ w.meta \in Maps(Ids, OrderMeta)
        /\ Taped(w.eng, w.tape) /\ (Prompt => InTime(w.eng, t))
<1>1. w \in Worlds /\ Taped(w.eng, w.tape) /\ (Prompt => InTime(w.eng, t))
  BY DEF SoundWorlds
<1>2. w.eng \in Engines
  BY <1>1 DEF Worlds
<1>3. GoodEngine(w.eng)
  BY <1>2, EngineSet
<1>4. QED BY <1>1, <1>3, EngineFields DEF Worlds

(* The outcome of a call goes to the tape and to the accounts. *)
LEMMA BookedSound ==
  ASSUME NEW t0, NEW w \in SoundWorlds(t0), NEW v \in Worlds, v.tape = w.tape,
         NEW f, GoodEngine(f), NEW new \in Seq(Trade), OnTape(w.eng, f, new),
         NEW t, Prompt => InTime(f, t)
  PROVE Booked(v, f, new) \in SoundWorlds(t)
<1>1. f \in Engines
  BY EngineSet
<1>2. /\ Booked(v, f, new) \in Worlds /\ Booked(v, f, new).eng = f
      /\ Booked(v, f, new).tape = v.tape \o new
  BY <1>1, BookedType
<1>3. Taped(f, w.tape \o new)
  BY SoundParts, TapeContinues
<1>4. QED BY <1>2, <1>3 DEF SoundWorlds

(* An order is processed at time ts. *)
LEMMA SubmitSound ==
  ASSUME NEW w \in SoundWorlds(ts), ts \in Nat, NEW o \in Order
  PROVE Processed(Known(w, o), Process(w.eng, o, ts)) \in SoundWorlds(ts)
<1> DEFINE v == Known(w, o)
           r == Process(w.eng, o, ts)
           new == r.trades
           f == r.eng
           m == [owner |-> o.owner, side |-> o.side]
<1>1. /\ w \in Worlds /\ GoodEngine(w.eng) /\ w.meta \in Maps(Ids, OrderMeta)
      /\ (Prompt => InTime(w.eng, ts))
  BY SoundParts
<1>2. v \in Worlds /\ v.eng = w.eng /\ v.tape = w.tape
  <2>1. m \in OrderMeta /\ o.id \in Ids BY DEF Order, OrderMeta
  <2>2. IsMap(w.meta, Ids, OrderMeta) BY <1>1, MapSet
  <2>3. v = [w EXCEPT !.meta = Put(w.meta, o.id, m)] BY DEF Known
  <2> HIDE DEF m
  <2>4. Put(w.meta, o.id, m) \in Maps(Ids, OrderMeta)
    <3>1. IsMap(Put(w.meta, o.id, m), Ids, OrderMeta) BY <2>1, <2>2, PutMap
    <3>2. QED BY <3>1, MapSet
  <2> HIDE DEF v
  <2>5. QED BY <1>1, <2>3, <2>4 DEF Worlds
<1>3. GoodEngine(f) /\ new \in Seq(Trade) /\ OnTape(w.eng, f, new)
  BY <1>1, ProcessGood, ProcessTape DEF GoodResult, GoodOutcome
<1>4. Prompt => InTime(f, ts)
  <2>1. SUFFICES ASSUME Prompt PROVE InTime(f, ts) OBVIOUS
  <2>2. InTime(w.eng, ts) BY <1>1, <2>1
  <2>3. w.eng.cfg.halt > 0
    <3>1. w.eng.cfg.halt \in Nat BY <1>1, EngineFields
    <3>2. QED BY <2>2, <3>1, WorldAssumption DEF InTime
  <2>4. Timely(f, ts) /\ f.cfg = w.eng.cfg
    BY <1>1, <2>2, <2>3, ProcessTimely DEF InTime
  <2> HIDE DEF f
  <2>5. QED BY <2>2, <2>4 DEF InTime
<1>5. Processed(v, r) = Booked(v, f, new)
  BY DEF Processed
<1> HIDE DEF v, r, f, new
<1>6. Booked(v, f, new) \in SoundWorlds(ts)
  BY <1>2, <1>3, <1>4, BookedSound
<1>7. QED BY <1>5, <1>6 DEF v, r

(* A cancellation touches nothing but the book. *)
LEMMA CancelSound ==
  ASSUME NEW t, NEW w \in SoundWorlds(t), NEW id
  PROVE [w EXCEPT !.eng.book = Cancel(w.eng.book, id).book] \in SoundWorlds(t)
<1> DEFINE e == w.eng
           b == Cancel(e.book, id).book
           f == [e EXCEPT !.book = b]
           v == [w EXCEPT !.eng = f]
<1>1. /\ w \in Worlds /\ GoodEngine(e) /\ Taped(e, w.tape) /\ (Prompt => InTime(e, t))
  BY SoundParts
<1>2. [w EXCEPT !.eng.book = Cancel(w.eng.book, id).book] = v
  OBVIOUS
<1> HIDE DEF e
<1>3. GoodBook(b)
  BY <1>1, EngineFields, CancelGood
<1> HIDE DEF b
<1>4. GoodEngine(f)
  <2>1. e.queue \in Seq(Order) /\ e.next_trade_id \in Nat BY <1>1, EngineFields
  <2>2. QED BY <1>1, <1>3, <2>1, SetBook
<1>5. /\ f.next_trade_id = e.next_trade_id /\ f.last = e.last /\ f.phase = e.phase
      /\ f.halt_end = e.halt_end /\ f.auction_end = e.auction_end /\ f.cfg = e.cfg
  BY <1>1 DEF GoodEngine, IsEngine
<1> HIDE DEF f
<1>6. v \in Worlds /\ v.eng = f /\ v.tape = w.tape
  BY <1>1, <1>4, EngineSet DEF Worlds
<1> HIDE DEF v
<1>7. Taped(f, w.tape) /\ (Prompt => InTime(f, t))
  BY <1>1, <1>5 DEF Taped, InTime, Timely
<1>8. QED BY <1>2, <1>6, <1>7 DEF SoundWorlds

(* The actions the agents of the repository take. *)
Doable(actions) ==
  /\ Len(actions) \in Nat /\ DOMAIN actions = 1 .. Len(actions)
  /\ \A k \in DOMAIN actions : actions[k].type \in {"Submit", "Cancel"}

LEMMA ActionsSound ==
  ASSUME NEW actions, Doable(actions), OrdersOf(actions) \subseteq Order,
         NEW w \in SoundWorlds(ts), ts \in Nat
  PROVE Executed(w, actions) \in SoundWorlds(ts)
<1> DEFINE S == SoundWorlds(ts)
           X == [k \in Nat |-> S]
           n == Len(actions)
<1>1. ASSUME NEW k \in 1 .. n, NEW v \in S PROVE Execute(v, actions[k]) \in S
  <2> DEFINE act == actions[k]
  <2>1. act.type \in {"Submit", "Cancel"} /\ k \in DOMAIN actions BY DEF Doable
  <2>2. CASE act.type = "Submit"
    <3>1. act.order \in Order BY <2>1, <2>2 DEF OrdersOf
    <3> HIDE DEF act
    <3>2. Execute(v, act) = Processed(Known(v, act.order), Process(v.eng, act.order, ts))
      BY <2>2 DEF Execute
    <3>3. Execute(v, act) \in S BY <3>1, <3>2, SubmitSound
    <3>4. QED BY <3>3 DEF act
  <2>3. CASE act.type = "Cancel"
    <3> HIDE DEF act
    <3>1. Execute(v, act) = [v EXCEPT !.eng.book = Cancel(v.eng.book, act.id).book]
      BY <2>3 DEF Execute
    <3> DEFINE c == [v EXCEPT !.eng.book = Cancel(v.eng.book, act.id).book]
    <3>2. c \in S BY CancelSound
    <3> HIDE DEF c
    <3>3. Execute(v, act) \in S BY <3>1, <3>2 DEF c
    <3>4. QED BY <3>3 DEF act
  <2>4. QED BY <2>1, <2>2, <2>3
<1>2. n \in Nat
  BY DEF Doable
<1> HIDE DEF S
<1>3. X[0] = S /\ X[n] = S /\ \A k \in 1 .. n : X[k - 1] = S /\ X[k] = S
  BY <1>2
<1> HIDE DEF X
<1>4. w \in X[0] /\ \A k \in 1 .. n : \A v \in X[k - 1] : Execute(v, actions[k]) \in X[k]
  BY <1>1, <1>3 DEF S
<1>5. Executed(w, actions) \in X[n]
  BY <1>2, <1>4, ActionsExecuted
<1>6. QED BY <1>3, <1>5 DEF S

----------------------------------------------------------------------------
(* What agents do *)

(* The ids and prices that the agents have computed fit the types of the code. *)
InRange == sent \subseteq Order

IsQuote(act, mm, id, side) ==
  /\ act.type = "Submit" /\ act.order.id = id /\ act.order.side = side
  /\ act.order.owner = mm.owner /\ act.order.type = "Limit"

(* The maker mm renews its quotes: what it does, and what becomes of it. *)
Quoting(mm, s) ==
  LET n == Len(s.actions)
  IN  /\ n \in Nat /\ n >= 2 /\ DOMAIN s.actions = 1 .. n
      /\ \A k \in 1 .. (n - 2) : s.actions[k].type = "Cancel"
      /\ IsQuote(s.actions[n - 1], mm, MakerId(mm, 0), "Buy")
      /\ IsQuote(s.actions[n], mm, MakerId(mm, 1), "Sell")
      /\ LET bid == s.actions[n - 1].order.price
             ask == s.actions[n].order.price
         IN  bid \in Int /\ ask \in Int => bid < ask
      /\ mm.bid = 0 /\ mm.ask = 0 => n = 2
      /\ mm.bid # 0 /\ mm.ask # 0 =>
           /\ n = 4 /\ s.actions[1] = CancelAction(mm.bid)
           /\ s.actions[2] = CancelAction(mm.ask)
      /\ s.agent.kind = mm.kind /\ s.agent.owner = mm.owner /\ s.agent.seq = mm.seq + 2
      /\ s.agent.bid = MakerId(mm, 0) /\ s.agent.ask = MakerId(mm, 1)

LEMMA MakerSends ==
  ASSUME NEW mm \in Makers, NEW cfg \in RulesConfig, NEW t, NEW seen, NEW position
  PROVE LET s == MakerStep(mm, cfg, t, seen, position)
        IN  (s.agent = mm /\ s.actions = <<>>) \/ Quoting(mm, s)
<1> DEFINE s == MakerStep(mm, cfg, t, seen, position)
           centre == Centre(cfg, seen, position)
           old == OldQuotes(mm)
           new == Quotes(mm, cfg, BidPrice(cfg, centre), AskPrice(cfg, centre))
           a == new[1]
           b == new[2]
           x == CancelAction(mm.bid)
           y == CancelAction(mm.ask)
           S == {x, y, a, b}
<1>1. CASE t < mm.refresh_at
  BY <1>1 DEF MakerStep
<1>2. CASE ~(t < mm.refresh_at)
  <2>1. /\ s.actions = old \o new
        /\ s.agent.kind = mm.kind /\ s.agent.owner = mm.owner /\ s.agent.seq = mm.seq + 2
        /\ s.agent.bid = MakerId(mm, 0) /\ s.agent.ask = MakerId(mm, 1)
    BY <1>2 DEF MakerStep, MakerQuotes, Makers
  <2>2. /\ IsQuote(a, mm, MakerId(mm, 0), "Buy") /\ IsQuote(b, mm, MakerId(mm, 1), "Sell")
        /\ new = <<a, b>>
        /\ a.order.price \in Int /\ b.order.price \in Int => a.order.price < b.order.price
    <3> DEFINE bid == BidPrice(cfg, centre)
               ask == AskPrice(cfg, centre)
               tick == Greater(1, cfg.tick_size)
               px == IF ask <= bid THEN bid + tick ELSE ask
    <3>1. tick \in Int /\ tick >= 1
      <4>1. cfg.tick_size \in Int BY DEF RulesConfig
      <4>2. QED BY <4>1 DEF Greater
    <3>2. /\ new = <<a, b>>
          /\ IsQuote(a, mm, MakerId(mm, 0), "Buy") /\ IsQuote(b, mm, MakerId(mm, 1), "Sell")
          /\ a.order.price = bid /\ b.order.price = px
      <4> DEFINE q == LimitOrder(MakerId(mm, 0), "Buy", bid, QuoteQty(cfg), mm.owner)
                 z == LimitOrder(MakerId(mm, 1), "Sell", px, QuoteQty(cfg), mm.owner)
      <4>1. new = <<SubmitAction(q), SubmitAction(z)>> BY DEF Quotes
      <4> HIDE DEF new, bid, px
      <4>2. a = SubmitAction(q) /\ b = SubmitAction(z) BY <4>1
      <4>3. /\ q.id = MakerId(mm, 0) /\ q.side = "Buy" /\ q.type = "Limit"
            /\ q.owner = mm.owner /\ q.price = bid
            /\ z.id = MakerId(mm, 1) /\ z.side = "Sell" /\ z.type = "Limit"
            /\ z.owner = mm.owner /\ z.price = px
        BY DEF LimitOrder
      <4> HIDE DEF q, z, a, b
      <4>4. a.type = "Submit" /\ a.order = q /\ b.type = "Submit" /\ b.order = z
        BY <4>2 DEF SubmitAction
      <4>5. new = <<a, b>> BY <4>1, <4>2
      <4>6. QED BY <4>3, <4>4, <4>5 DEF IsQuote
    <3> HIDE DEF bid, ask, tick, a, b
    <3>3. bid \in Int /\ px \in Int => bid < px
      <4>1. CASE ask <= bid BY <3>1, <4>1
      <4>2. CASE ~(ask <= bid) BY <4>2
      <4>3. QED BY <4>1, <4>2
    <3>4. QED BY <3>2, <3>3
  <2>3. x.type = "Cancel" /\ y.type = "Cancel"
    BY DEF CancelAction
  <2> HIDE DEF s, new, x, y, a, b
  <2> DEFINE p == IF mm.bid # 0 THEN <<x>> ELSE <<>>
             q == IF mm.ask # 0 THEN <<y>> ELSE <<>>
  <2>4. old = p \o q
    BY DEF OldQuotes, x, y
  <2>5. /\ p \in Seq(S) /\ q \in Seq(S) /\ new \in Seq(S) /\ Len(new) = 2
        /\ new[1] = a /\ new[2] = b
        /\ Len(p) = (IF mm.bid # 0 THEN 1 ELSE 0) /\ Len(q) = (IF mm.ask # 0 THEN 1 ELSE 0)
        /\ mm.bid # 0 => p[1] = x
        /\ mm.ask # 0 => q[1] = y
        /\ \A k \in 1 .. Len(p) : p[k].type = "Cancel"
        /\ \A k \in 1 .. Len(q) : q[k].type = "Cancel"
    <3>1. x \in S /\ y \in S /\ a \in S /\ b \in S OBVIOUS
    <3> HIDE DEF S
    <3>2. new \in Seq(S) /\ Len(new) = 2 /\ new[1] = a /\ new[2] = b BY <2>2, <3>1
    <3>3. /\ p \in Seq(S) /\ Len(p) = (IF mm.bid # 0 THEN 1 ELSE 0)
          /\ mm.bid # 0 => p[1] = x
      <4>1. CASE mm.bid # 0
        <5>1. p = <<x>> BY <4>1
        <5> HIDE DEF p
        <5>2. QED BY <3>1, <4>1, <5>1
      <4>2. CASE mm.bid = 0
        <5>1. p = <<>> BY <4>2
        <5> HIDE DEF p
        <5>2. QED BY <4>2, <5>1
      <4>3. QED BY <4>1, <4>2
    <3>4. /\ q \in Seq(S) /\ Len(q) = (IF mm.ask # 0 THEN 1 ELSE 0)
          /\ mm.ask # 0 => q[1] = y
      <4>1. CASE mm.ask # 0
        <5>1. q = <<y>> BY <4>1
        <5> HIDE DEF q
        <5>2. QED BY <3>1, <4>1, <5>1
      <4>2. CASE mm.ask = 0
        <5>1. q = <<>> BY <4>2
        <5> HIDE DEF q
        <5>2. QED BY <4>2, <5>1
      <4>3. QED BY <4>1, <4>2
    <3> HIDE DEF p, q
    <3>5. \A k \in 1 .. Len(p) : p[k].type = "Cancel" BY <2>3, <3>3
    <3>6. \A k \in 1 .. Len(q) : q[k].type = "Cancel" BY <2>3, <3>4
    <3>7. QED BY <3>2, <3>3, <3>4, <3>5, <3>6
  <2> HIDE DEF p, q, S
  <2>6. /\ old \in Seq(S) /\ Len(old) = Len(p) + Len(q)
        /\ \A k \in 1 .. Len(p) + Len(q) : old[k] = IF k <= Len(p) THEN p[k] ELSE q[k - Len(p)]
    BY <2>4, <2>5, ConcatProperties
  <2> HIDE DEF old
  <2>7. /\ \A k \in 1 .. Len(old) : old[k].type = "Cancel"
        /\ mm.bid # 0 /\ mm.ask # 0 => Len(old) = 2 /\ old[1] = x /\ old[2] = y
        /\ mm.bid = 0 /\ mm.ask = 0 => Len(old) = 0
        /\ Len(old) \in Nat
    <3>1. Len(p) \in {0, 1} /\ Len(q) \in {0, 1} BY <2>5
    <3>2. ASSUME NEW k \in 1 .. Len(old) PROVE old[k].type = "Cancel"
      <4>1. CASE k <= Len(p)
        <5>1. k \in 1 .. Len(p) /\ old[k] = p[k] BY <2>6, <3>1, <4>1
        <5>2. QED BY <2>5, <5>1
      <4>2. CASE ~(k <= Len(p))
        <5>1. k - Len(p) \in 1 .. Len(q) /\ old[k] = q[k - Len(p)] BY <2>6, <3>1, <4>2
        <5>2. QED BY <2>5, <5>1
      <4>3. QED BY <4>1, <4>2
    <3>3. QED BY <2>5, <2>6, <3>1, <3>2
  <2> DEFINE all == old \o new
             m == Len(old)
  <2>8. /\ all \in Seq(S) /\ Len(all) = m + 2
        /\ \A k \in 1 .. m : all[k] = old[k]
        /\ all[m + 1] = a /\ all[m + 2] = b
    <3>1. /\ all \in Seq(S) /\ Len(all) = m + Len(new)
          /\ \A k \in 1 .. m + Len(new) : all[k] = IF k <= m THEN old[k] ELSE new[k - m]
      <4>1. old \in Seq(S) /\ new \in Seq(S) BY <2>5, <2>6
      <4> HIDE DEF new
      <4>2. QED BY <4>1, ConcatProperties
    <3> HIDE DEF all, m, new
    <3>2. m \in Nat /\ Len(new) = 2 BY <2>5, <2>7 DEF m
    <3>3. \A k \in 1 .. m : all[k] = old[k] BY ONLY <3>1, <3>2
    <3>4. all[m + 1] = new[1] /\ all[m + 2] = new[2] BY ONLY <3>1, <3>2
    <3>5. QED BY <2>5, <3>1, <3>2, <3>3, <3>4
  <2>9. DOMAIN all = 1 .. Len(all)
    BY <2>8, LenProperties
  <2> DEFINE n == Len(all)
  <2> HIDE DEF all
  <2>10. n \in Nat /\ n >= 2 /\ n - 2 = m /\ n - 1 = m + 1
    BY <2>7, <2>8
  <2>11. /\ \A k \in 1 .. (n - 2) : all[k].type = "Cancel"
         /\ IsQuote(all[n - 1], mm, MakerId(mm, 0), "Buy")
         /\ IsQuote(all[n], mm, MakerId(mm, 1), "Sell")
         /\ all[n - 1].order.price \in Int /\ all[n].order.price \in Int
              => all[n - 1].order.price < all[n].order.price
         /\ mm.bid = 0 /\ mm.ask = 0 => n = 2
         /\ mm.bid # 0 /\ mm.ask # 0 => n = 4 /\ all[1] = x /\ all[2] = y
    <3>1. \A k \in 1 .. (n - 2) : all[k].type = "Cancel" BY <2>7, <2>8, <2>10
    <3>2. all[n - 1] = a /\ all[n] = b BY <2>8, <2>10
    <3>3. mm.bid = 0 /\ mm.ask = 0 => n = 2 BY <2>7, <2>10
    <3>4. mm.bid # 0 /\ mm.ask # 0 => n = 4 /\ all[1] = x /\ all[2] = y
      BY <2>7, <2>8, <2>10
    <3>5. QED BY <2>2, <3>1, <3>2, <3>3, <3>4
  <2>12. s.actions = all
    BY <2>1 DEF all
  <2> HIDE DEF m
  <2>13. Quoting(mm, s)
    BY <2>1, <2>9, <2>10, <2>11, <2>12 DEF Quoting, x, y
  <2>14. QED BY <2>13 DEF s
<1>3. QED BY <1>1, <1>2

LEMMA MakerDoes ==
  ASSUME NEW mm \in Makers, NEW cfg \in RulesConfig, NEW t \in Nat, NEW seen, NEW position,
         OrdersOf(MakerStep(mm, cfg, t, seen, position).actions) \subseteq Order
  PROVE LET s == MakerStep(mm, cfg, t, seen, position)
        IN  s.agent \in Makers /\ Doable(s.actions)
<1> DEFINE s == MakerStep(mm, cfg, t, seen, position)
           next == [mm EXCEPT !.refresh_at = t + MakerParams.refresh, !.seq = mm.seq + 2,
                              !.bid = MakerId(mm, 0), !.ask = MakerId(mm, 1)]
           x == MakerId(mm, 0)
           y == MakerId(mm, 1)
<1>1. (s.agent = mm /\ s.actions = <<>>) \/ Quoting(mm, s)
  BY MakerSends
<1>2. s.agent = mm \/ s.agent = next
  BY DEF MakerStep, MakerQuotes
<1>3. CASE s.agent = mm /\ s.actions = <<>>
  BY <1>3 DEF Doable
<1>4. CASE Quoting(mm, s)
  <2> DEFINE n == Len(s.actions)
  <2> HIDE DEF s, next, x, y
  <2>1. /\ n \in Nat /\ n >= 2 /\ DOMAIN s.actions = 1 .. n
        /\ \A k \in 1 .. (n - 2) : s.actions[k].type = "Cancel"
        /\ s.actions[n - 1].type = "Submit" /\ s.actions[n - 1].order.id = x
        /\ s.actions[n].type = "Submit" /\ s.actions[n].order.id = y
    BY <1>4 DEF Quoting, IsQuote, x, y
  <2>2. n - 1 \in 1 .. n /\ n \in 1 .. n
    BY <2>1
  <2>3. Doable(s.actions)
    <3>1. ASSUME NEW k \in 1 .. n PROVE s.actions[k].type \in {"Submit", "Cancel"}
      <4>1. k \in 1 .. (n - 2) \/ k = n - 1 \/ k = n BY <2>1
      <4>2. QED BY <2>1, <4>1
    <3>2. QED BY <2>1, <3>1 DEF Doable
  <2>4. x \in Ids /\ y \in Ids
    <3>1. s.actions[n - 1].order \in Order /\ s.actions[n].order \in Order
      BY <2>1, <2>2 DEF OrdersOf, s
    <3>2. QED BY <2>1, <3>1 DEF Order
  <2>5. next \in Makers
    <3> DEFINE d == t + MakerParams.refresh
               m == mm.seq + 2
    <3>1. d \in Nat
      <4>1. MakerParams.refresh \in Nat BY AgentAssumption
      <4>2. QED BY <4>1
    <3>2. m \in Nat
      <4>1. mm.seq \in Nat BY DEF Makers
      <4>2. QED BY <4>1
    <3>3. next = [mm EXCEPT !.refresh_at = d, !.seq = m, !.bid = x, !.ask = y]
      BY DEF next, x, y
    <3> HIDE DEF d, m
    <3>4. QED BY <2>4, <3>1, <3>2, <3>3 DEF Makers
  <2>6. QED BY <1>2, <2>3, <2>5 DEF s
<1>5. QED BY <1>1, <1>3, <1>4

LEMMA NoiseDoes ==
  ASSUME NEW nt \in Noises, NEW seen, NEW s \in NoiseSteps(nt, seen)
  PROVE s.agent \in Noises /\ Doable(s.actions)
<1>1. CASE s = [agent |-> nt, actions |-> <<>>]
  BY <1>1 DEF Doable
<1>2. ASSUME NEW o, s = [agent |-> [nt EXCEPT !.seq = nt.seq + 1], actions |-> <<SubmitAction(o)>>]
      PROVE s.agent \in Noises /\ Doable(s.actions)
  <2>1. [nt EXCEPT !.seq = nt.seq + 1] \in Noises BY DEF Noises
  <2>2. Doable(<<SubmitAction(o)>>) BY DEF Doable, SubmitAction
  <2>3. QED BY <1>2, <2>1, <2>2
<1>3. QED BY <1>1, <1>2 DEF NoiseSteps

----------------------------------------------------------------------------
(* The invariant of the world *)

(* The time up to which the engine has been flushed. *)
FlushedTo == IF turn = 0 THEN ts - Dt ELSE ts

WorldInv ==
  /\ ts \in Nat /\ agents \in Seq(Makers \cup Noises) /\ turn \in 0 .. Len(agents) + 1
  /\ Books \in SoundWorlds(FlushedTo)
  /\ turn = 0 => ts >= Dt \/ eng.phase = "Continuous"

(* Once an order is out of range, nothing is claimed. *)
Ranged == InRange => WorldInv

LEMMA WorldStarts == WorldInit => Ranged
<1>1. SUFFICES ASSUME WorldInit PROVE WorldInv
  BY DEF Ranged
<1>0. /\ eng \in {NewEngine(cfg) : cfg \in Configs} /\ agents \in Casts
      /\ ts = 0 /\ turn = 0 /\ accounts = EmptyMap /\ meta = EmptyMap /\ tape = <<>>
  BY <1>1 DEF WorldInit
<1>2. PICK cfg \in Configs : eng = NewEngine(cfg)
  BY <1>0
<1>3. cfg \in RulesConfig
  BY WorldAssumption
<1>4. GoodEngine(eng)
  BY <1>2, <1>3, NewEngineGood
<1>5. EmptyMap \in Maps(Owners, Account) /\ EmptyMap \in Maps(Ids, OrderMeta)
  <2>1. IsMap(EmptyMap, Owners, Account) /\ IsMap(EmptyMap, Ids, OrderMeta)
    BY DEF IsMap, EmptyMap
  <2>2. QED BY <2>1, MapSet
<1>6. Books \in Worlds
  <2>1. eng \in Engines BY <1>4, EngineSet
  <2>2. <<>> \in Seq(Trade) OBVIOUS
  <2>3. QED BY <1>0, <1>5, <2>1, <2>2 DEF Books, Worlds
<1>7. Taped(eng, tape)
  BY <1>0, <1>2, NoneSerial DEF NewEngine, Taped
<1>8. eng.phase = "Continuous" /\ eng.cfg = cfg
  BY <1>2 DEF NewEngine
<1>9. Prompt => InTime(eng, FlushedTo)
  BY <1>8 DEF Prompt, InTime, Timely
<1>10. Books \in SoundWorlds(FlushedTo)
  BY <1>6, <1>7, <1>9 DEF SoundWorlds, Books
<1>11. agents \in Seq(Makers \cup Noises) /\ ts = 0 /\ turn = 0
  BY <1>0, WorldAssumption
<1>12. Len(agents) \in Nat
  BY <1>11, LenProperties
<1>13. QED BY <1>8, <1>10, <1>11, <1>12 DEF WorldInv

(* The fields of the record Books. *)
LEMMA BooksIs ==
  /\ Books.eng = eng /\ Books.accounts = accounts /\ Books.meta = meta /\ Books.tape = tape
BY DEF Books

LEMMA WorldConfig == ASSUME WorldInv PROVE eng.cfg \in RulesConfig
<1>1. GoodEngine(eng)
  <2>1. Books \in SoundWorlds(FlushedTo) BY DEF WorldInv
  <2>2. QED BY <2>1, SoundParts, BooksIs
<1>2. QED BY <1>1, EngineFields

LEMMA BecomesBooks ==
  ASSUME NEW w \in Worlds, Becomes(w)
  PROVE Books' = w
BY DEF Becomes, Books, Worlds

LEMMA BeginSound ==
  ASSUME WorldInv, BeginStep
  PROVE WorldInv'
<1> DEFINE f == Flush(eng, ts)
           e == f.eng
           new == f.trades
           t0 == ts - Dt
<1>1. ts \in Nat /\ turn = 0 /\ Books \in SoundWorlds(t0) /\ Dt \in Nat
  BY WorldAssumption DEF WorldInv, BeginStep, FlushedTo
<1>2. /\ Books \in Worlds /\ GoodEngine(eng) /\ (Prompt => InTime(eng, t0))
  BY <1>1, SoundParts, BooksIs
<1>3. GoodEngine(e) /\ new \in Seq(Trade) /\ OnTape(eng, e, new)
  BY <1>1, <1>2, FlushGood, FlushTape DEF GoodOutcome
<1>4. Prompt => InTime(e, ts)
  <2>1. SUFFICES ASSUME Prompt PROVE InTime(e, ts) OBVIOUS
  <2>2. InTime(eng, t0) BY <1>2, <2>1
  <2>3. eng.cfg.halt \in Nat BY <1>2, EngineFields
  <2>4. t0 \in Int /\ t0 <= ts /\ ts <= t0 + eng.cfg.halt
    BY <1>1, <2>2, <2>3 DEF InTime
  <2>5. t0 < 0 => eng.phase = "Continuous"
    BY <1>1 DEF WorldInv
  <2> HIDE DEF t0
  <2>6. Timely(e, ts) /\ e.cfg = eng.cfg
    BY <1>1, <1>2, <2>2, <2>4, <2>5, FlushTimely DEF InTime
  <2> HIDE DEF e
  <2>7. QED BY <2>2, <2>6 DEF InTime
<1>5. Becomes(Booked(Books, e, new)) /\ turn' = 1 /\ UNCHANGED <<ts, agents>>
  BY DEF BeginStep, Began
<1> HIDE DEF f, e, new, t0
<1>6. Booked(Books, e, new) \in SoundWorlds(ts)
  BY <1>1, <1>2, <1>3, <1>4, BookedSound, BooksIs
<1>7. Books' = Booked(Books, e, new)
  <2> DEFINE w == Booked(Books, e, new)
  <2>1. w \in Worlds BY <1>6 DEF SoundWorlds
  <2> HIDE DEF w
  <2>2. Becomes(w) BY <1>5 DEF w
  <2>3. Books' = w BY <2>1, <2>2, BecomesBooks
  <2>4. QED BY <2>3 DEF w
<1>8. FlushedTo' = ts
  BY <1>5 DEF FlushedTo
<1>9. Books' \in SoundWorlds(FlushedTo')
  BY <1>6, <1>7, <1>8
<1>10. Len(agents) \in Nat
  BY LenProperties DEF WorldInv
<1>11. SoundWorlds(FlushedTo)' = SoundWorlds(FlushedTo')
  BY DEF SoundWorlds
<1>12. QED BY <1>1, <1>5, <1>9, <1>10, <1>11 DEF WorldInv

(* s is what the agent whose turn it is does. *)
LEMMA ActsSound ==
  ASSUME WorldInv, turn \in DOMAIN agents, NEW s, s.agent \in Makers \cup Noises,
         Doable(s.actions), OrdersOf(s.actions) \subseteq Order, Acts(s)
  PROVE WorldInv'
<1> DEFINE w == Executed(Books, s.actions)
           A == Makers \cup Noises
<1>1. ts \in Nat /\ agents \in Seq(A) /\ Len(agents) \in Nat /\ turn \in 1 .. Len(agents)
  BY LenProperties DEF WorldInv
<1>2. /\ agents' = [agents EXCEPT ![turn] = s.agent] /\ Becomes(w) /\ turn' = turn + 1
      /\ ts' = ts
  BY DEF Acts
<1>3. FlushedTo = ts /\ FlushedTo' = ts /\ turn' # 0
  BY <1>1, <1>2 DEF FlushedTo
<1>4. Books \in SoundWorlds(ts)
  BY <1>3 DEF WorldInv
<1>5. w \in SoundWorlds(ts)
  BY <1>1, <1>4, ActionsSound
<1> HIDE DEF w
<1>6. Books' = w
  <2>1. w \in Worlds BY <1>5 DEF SoundWorlds
  <2>2. QED BY <1>2, <2>1, BecomesBooks
<1>7. agents' \in Seq(A) /\ Len(agents') = Len(agents)
  <2> HIDE DEF A
  <2>1. s.agent \in A BY DEF A
  <2>2. QED BY <1>1, <1>2, <2>1
<1>8. Books' \in SoundWorlds(FlushedTo')
  BY <1>3, <1>5, <1>6
<1>9. SoundWorlds(FlushedTo)' = SoundWorlds(FlushedTo')
  BY DEF SoundWorlds
<1>10. QED BY <1>1, <1>2, <1>3, <1>7, <1>8, <1>9 DEF WorldInv

LEMMA EndSound ==
  ASSUME WorldInv, EndStep
  PROVE WorldInv'
<1>1. /\ turn = Len(agents) + 1 /\ ts' = ts + Dt /\ turn' = 0
      /\ UNCHANGED <<eng, agents, accounts, meta, tape>>
  BY DEF EndStep
<1>2. ts \in Nat /\ Dt \in Nat /\ Len(agents) \in Nat
  BY WorldAssumption, LenProperties DEF WorldInv
<1>3. FlushedTo = ts /\ FlushedTo' = ts
  BY <1>1, <1>2 DEF FlushedTo
<1>4. Books' = Books
  BY <1>1 DEF Books
<1>5. Books' \in SoundWorlds(FlushedTo')
  BY <1>3, <1>4 DEF WorldInv
<1>6. SoundWorlds(FlushedTo)' = SoundWorlds(FlushedTo')
  BY DEF SoundWorlds
<1>7. QED BY <1>1, <1>2, <1>5, <1>6 DEF WorldInv

LEMMA WorldGoesOn == Ranged /\ [WorldNext]_wvars => Ranged'
<1>1. SUFFICES ASSUME Ranged, [WorldNext]_wvars, InRange' PROVE WorldInv'
  BY DEF Ranged
<1>2. sent \subseteq sent'
  BY <1>1 DEF WorldNext, BeginStep, MakerTurn, NoiseTurn, Acts, EndStep, Returned, wvars
<1>3. InRange /\ WorldInv
  BY <1>1, <1>2 DEF Ranged, InRange
<1>4. agents \in Seq(Makers \cup Noises) /\ DOMAIN agents = 1 .. Len(agents) /\ ts \in Nat
  BY <1>3, LenProperties DEF WorldInv
<1>5. \A i \in DOMAIN agents : agents[i] \in Makers \cup Noises
  BY <1>4, ElementOfSeq
<1>6. ASSUME NEW s, Acts(s) PROVE OrdersOf(s.actions) \subseteq Order
  BY <1>1, <1>6 DEF Acts, InRange
<1>7. CASE BeginStep
  BY <1>3, <1>7, BeginSound
<1>8. CASE MakerTurn
  <2> DEFINE mm == agents[turn]
             position == AccountOf(accounts, agents[turn].owner).position
             s == MakerStep(mm, eng.cfg, ts, view, position)
  <2>1. turn \in DOMAIN agents /\ mm.kind = "maker" /\ Acts(s)
    BY <1>8 DEF MakerTurn, Turn
  <2>2. mm \in Makers
    BY <1>5, <2>1 DEF Makers, Noises
  <2>3. OrdersOf(s.actions) \subseteq Order
    BY <1>6, <2>1
  <2> HIDE DEF mm, position
  <2>4. s.agent \in Makers /\ Doable(s.actions)
    BY <1>3, <1>4, <2>2, <2>3, MakerDoes, WorldConfig
  <2> HIDE DEF s
  <2>5. QED BY <1>3, <2>1, <2>3, <2>4, ActsSound
<1>9. CASE NoiseTurn
  <2>1. PICK s \in NoiseSteps(agents[turn], view) : Acts(s)
    BY <1>9 DEF NoiseTurn
  <2>2. turn \in DOMAIN agents /\ agents[turn].kind = "noise"
    BY <1>9 DEF NoiseTurn, Turn
  <2>3. agents[turn] \in Noises
    BY <1>5, <2>2 DEF Makers, Noises
  <2>4. s.agent \in Noises /\ Doable(s.actions)
    BY <2>1, <2>3, NoiseDoes
  <2>5. OrdersOf(s.actions) \subseteq Order
    BY <1>6, <2>1
  <2>6. QED BY <1>3, <2>1, <2>2, <2>4, <2>5, ActsSound
<1>10. CASE EndStep
  BY <1>3, <1>10, EndSound
<1>11. CASE Returned \/ UNCHANGED wvars
  <2>1. UNCHANGED <<eng, ts, turn, agents, accounts, meta, tape>>
    BY <1>11 DEF Returned, wvars
  <2>2. Books' = Books /\ FlushedTo' = FlushedTo
    BY <2>1 DEF Books, FlushedTo
  <2>3. SoundWorlds(FlushedTo)' = SoundWorlds(FlushedTo')
    BY DEF SoundWorlds
  <2>4. QED BY <1>3, <2>1, <2>2, <2>3 DEF WorldInv
<1>12. QED BY <1>1, <1>7, <1>8, <1>9, <1>10, <1>11 DEF WorldNext

LEMMA WorldAlways == WorldSpec => []Ranged
BY WorldStarts, WorldGoesOn, PTL DEF WorldSpec

(* Engine, accounts, tape and agents keep their types as long as the ids and the
   prices that agents compute fit the integer types of the code. *)
THEOREM WorldTypes == WorldSpec => [](InRange => WorldTypeOK)
<1>1. Ranged /\ InRange => WorldTypeOK
  <2>1. SUFFICES ASSUME WorldInv, InRange PROVE WorldTypeOK
    BY DEF Ranged
  <2>2. Books \in SoundWorlds(FlushedTo)
    BY <2>1 DEF WorldInv
  <2>3. /\ GoodEngine(eng) /\ tape \in Seq(Trade) /\ accounts \in Maps(Owners, Account)
        /\ meta \in Maps(Ids, OrderMeta)
    BY <2>2, SoundParts, BooksIs
  <2>4. IsMap(accounts, Owners, Account) /\ IsMap(meta, Ids, OrderMeta)
    BY <2>3, MapSet
  <2>5. QED BY <2>1, <2>3, <2>4 DEF WorldInv, WorldTypeOK, GoodEngine, InRange
<1>2. QED BY <1>1, WorldAlways, PTL

(* Every print of every call, those of flushes, auctions and halts among them, is on
   the tape once, in its order, and the last of them is the last price. *)
THEOREM WorldTape == WorldSpec => [](InRange => TapeExact)
<1>1. Ranged /\ InRange => TapeExact
  <2>1. SUFFICES ASSUME WorldInv PROVE TapeExact
    BY DEF Ranged
  <2>2. Books \in SoundWorlds(FlushedTo)
    BY <2>1 DEF WorldInv
  <2>3. Taped(eng, tape) /\ tape \in Seq(Trade)
    BY <2>2, SoundParts, BooksIs
  <2>4. ASSUME NEW i \in DOMAIN tape PROVE tape[i].id = i
    <3>1. i \in 1 .. Len(tape) /\ Len(tape) \in Nat BY <2>3, LenProperties
    <3>2. tape[i].id = 1 + i - 1 BY <2>3, <3>1 DEF Taped, Serial
    <3>3. QED BY <3>1, <3>2
  <2>5. QED BY <2>3, <2>4 DEF Taped, TapeExact
<1>2. QED BY <1>1, WorldAlways, PTL

(* No agent acts in a halt or an auction that is over, provided that in every
   configuration a halt lasts at least as long as a step of time and a call longer
   than no time at all. *)
THEOREM WorldOverdue == WorldSpec => [](InRange /\ Prompt => NothingOverdue)
<1>1. Ranged /\ InRange /\ Prompt => NothingOverdue
  <2>1. SUFFICES ASSUME WorldInv, Prompt, turn # 0
                 PROVE /\ eng.phase = "Halted" => ts < eng.halt_end
                       /\ eng.phase = "Auction" => ts < eng.auction_end
    BY DEF Ranged, NothingOverdue
  <2>2. FlushedTo = ts
    BY <2>1 DEF FlushedTo
  <2>3. Books \in SoundWorlds(ts)
    BY <2>1, <2>2 DEF WorldInv
  <2>4. InTime(eng, ts)
    BY <2>1, <2>3, SoundParts, BooksIs
  <2>5. QED BY <2>4 DEF InTime, Timely
<1>2. QED BY <1>1, WorldAlways, PTL

----------------------------------------------------------------------------
(* The audit of the accounts *)

(* What an owner's orders among S bring, in goods and in money, print by print. *)
Shares(S, owner, trades) ==
  [k \in DOMAIN trades |-> [qty |-> Bought(S, owner, trades[k])]]

Costs(S, owner, trades) ==
  [k \in DOMAIN trades |-> [qty |-> Bought(S, owner, trades[k]) * trades[k].price]]

(* The account of the owner shows just that. *)
Audited(a, S, owner, trades) ==
  /\ AccountOf(a, owner).position = QtyOf(Shares(S, owner, trades))
  /\ AccountOf(a, owner).cash = -QtyOf(Costs(S, owner, trades))

LEMMA BoughtInt ==
  ASSUME NEW S, NEW owner, NEW t \in Trade
  PROVE /\ Bought(S, owner, t) \in Int /\ t.price \in Int
        /\ Bought(S, owner, t) * t.price \in Int
<1>1. t.qty \in Int /\ t.price \in Int
  BY MarketAssumption DEF Trade
<1>2. Bought(S, owner, t) \in Int
  BY <1>1 DEF Bought
<1>3. QED BY <1>1, <1>2

LEMMA SharesAre ==
  ASSUME NEW S, NEW owner, NEW trades \in Seq(Trade)
  PROVE /\ HasQtys(Shares(S, owner, trades)) /\ Len(Shares(S, owner, trades)) = Len(trades)
        /\ HasQtys(Costs(S, owner, trades)) /\ Len(Costs(S, owner, trades)) = Len(trades)
        /\ \A k \in 1 .. Len(trades) :
             /\ Shares(S, owner, trades)[k].qty = Bought(S, owner, trades[k])
             /\ Costs(S, owner, trades)[k].qty = Bought(S, owner, trades[k]) * trades[k].price
<1> DEFINE n == Len(trades)
           q == Shares(S, owner, trades)
           r == Costs(S, owner, trades)
<1>1. n \in Nat /\ DOMAIN trades = 1 .. n
  BY LenProperties
<1>2. \A k \in 1 .. n : /\ Bought(S, owner, trades[k]) \in Int
                        /\ Bought(S, owner, trades[k]) * trades[k].price \in Int
  BY ElementOfSeq, BoughtInt
<1>3. Len(q) = n /\ Len(r) = n
  BY <1>1 DEF Shares, Costs
<1>4. \A k \in 1 .. n : /\ q[k].qty = Bought(S, owner, trades[k])
                        /\ r[k].qty = Bought(S, owner, trades[k]) * trades[k].price
  BY <1>1 DEF Shares, Costs
<1> HIDE DEF q, r
<1>5. HasQtys(q) /\ HasQtys(r)
  BY <1>1, <1>2, <1>3, <1>4 DEF HasQtys
<1>6. QED BY <1>3, <1>4, <1>5 DEF q, r

LEMMA SharesNone ==
  ASSUME NEW S, NEW owner
  PROVE QtyOf(Shares(S, owner, <<>>)) = 0 /\ QtyOf(Costs(S, owner, <<>>)) = 0
<1> DEFINE q == Shares(S, owner, <<>>)
           r == Costs(S, owner, <<>>)
<1>1. q = <<>> /\ r = <<>>
  BY DEF Shares, Costs
<1> HIDE DEF q, r
<1>2. q \in Seq(Order) /\ r \in Seq(Order)
  BY <1>1
<1>3. QED BY <1>1, <1>2, QtyType DEF q, r

(* One more print. *)
LEMMA SharesGrow ==
  ASSUME NEW S, NEW owner, NEW trades \in Seq(Trade), NEW t \in Trade
  PROVE /\ QtyOf(Shares(S, owner, trades)) \in Int /\ QtyOf(Costs(S, owner, trades)) \in Int
        /\ QtyOf(Shares(S, owner, Append(trades, t))) =
             QtyOf(Shares(S, owner, trades)) + Bought(S, owner, t)
        /\ QtyOf(Costs(S, owner, Append(trades, t))) =
             QtyOf(Costs(S, owner, trades)) + Bought(S, owner, t) * t.price
<1> DEFINE more == Append(trades, t)
           n == Len(trades)
           q == Shares(S, owner, trades)
           r == Shares(S, owner, more)
           u == Costs(S, owner, trades)
           v == Costs(S, owner, more)
<1>1. /\ more \in Seq(Trade) /\ Len(more) = n + 1 /\ n \in Nat
      /\ \A k \in 1 .. n : more[k] = trades[k]
      /\ more[n + 1] = t
  BY AppendProperties, LenProperties
<1> HIDE DEF more
<1>2. /\ HasQtys(q) /\ Len(q) = n /\ HasQtys(u) /\ Len(u) = n
      /\ \A k \in 1 .. n : /\ q[k].qty = Bought(S, owner, trades[k])
                           /\ u[k].qty = Bought(S, owner, trades[k]) * trades[k].price
  BY SharesAre
<1>3. /\ HasQtys(r) /\ Len(r) = n + 1 /\ HasQtys(v) /\ Len(v) = n + 1
      /\ \A k \in 1 .. (n + 1) : /\ r[k].qty = Bought(S, owner, more[k])
                                 /\ v[k].qty = Bought(S, owner, more[k]) * more[k].price
  BY <1>1, SharesAre
<1> HIDE DEF q, r, u, v
<1>4. \A k \in 1 .. n : k \in 1 .. (n + 1)
  BY <1>1
<1>5. \A k \in 1 .. n : r[k].qty = q[k].qty /\ v[k].qty = u[k].qty
  BY <1>1, <1>2, <1>3, <1>4
<1>6. n + 1 \in 1 .. (n + 1)
  BY <1>1
<1>7. r[n + 1].qty = Bought(S, owner, t) /\ v[n + 1].qty = Bought(S, owner, t) * t.price
  BY <1>1, <1>3, <1>6
<1>8. QtyOf(q) \in Int /\ QtyOf(r) = QtyOf(q) + r[Len(r)].qty
  BY <1>2, <1>3, <1>5, QtyGrows
<1>9. QtyOf(u) \in Int /\ QtyOf(v) = QtyOf(u) + v[Len(v)].qty
  BY <1>2, <1>3, <1>5, QtyGrows
<1>10. QED BY <1>3, <1>7, <1>8, <1>9 DEF more, q, r, u, v

(* Orders that no print is of do not matter. *)
LEMMA SharesSame ==
  ASSUME NEW S, NEW T, NEW owner, NEW trades \in Seq(Trade),
         \A k \in 1 .. Len(trades) : Bought(T, owner, trades[k]) = Bought(S, owner, trades[k])
  PROVE /\ Shares(T, owner, trades) = Shares(S, owner, trades)
        /\ Costs(T, owner, trades) = Costs(S, owner, trades)
<1>1. DOMAIN trades = 1 .. Len(trades)
  BY LenProperties
<1>2. QED BY <1>1 DEF Shares, Costs

----------------------------------------------------------------------------
(* Booking *)

(* What a fill of quantity q on this side brings. *)
Brings(side, q) == IF side = "Buy" THEN q ELSE -q

LEMMA FillShows ==
  ASSUME NEW account \in Account, NEW side \in Sides, NEW px \in Int, NEW q \in Int
  PROVE LET new == ApplyFill(account, side, px, q)
        IN  /\ new.position = account.position + Brings(side, q)
            /\ new.cash = account.cash - Brings(side, q) * px
<1> DEFINE new == ApplyFill(account, side, px, q)
           sign == IF side = "Buy" THEN 1 ELSE -1
           cash == account.cash
           position == account.position
<1>1. new.cash = cash - sign * px * q /\ new.position = position + sign * q
  BY DEF ApplyFill
<1>2. cash \in Int /\ position \in Int
  BY DEF Account
<1> HIDE DEF new, cash, position
<1>3. CASE side = "Buy"
  <2>1. sign = 1 BY <1>3
  <2>2. Brings(side, q) = q BY <1>3 DEF Brings
  <2> HIDE DEF sign
  <2>3. sign * px * q = q * px /\ sign * q = q BY <2>1
  <2>4. QED BY <1>1, <2>2, <2>3 DEF new, cash, position
<1>4. CASE side = "Sell"
  <2>1. sign = -1 BY <1>4
  <2>2. Brings(side, q) = -q BY <1>4 DEF Brings
  <2> HIDE DEF sign
  <2>3. sign * px * q = (-q) * px /\ sign * q = -q BY <2>1
  <2>4. QED BY <1>1, <2>2, <2>3 DEF new, cash, position
<1>5. QED BY <1>3, <1>4 DEF Sides

(* A credit shows in the account of its owner and in no other. *)
LEMMA CreditShows ==
  ASSUME NEW a \in Maps(Owners, Account), NEW m \in OrderMeta, NEW t \in Trade, NEW owner
  PROVE LET old == AccountOf(a, owner)
            new == AccountOf(Credit(a, m, t), owner)
            brings == IF m.owner = owner THEN Brings(m.side, t.qty) ELSE 0
        IN  /\ old \in Account /\ brings \in Int
            /\ new.position = old.position + brings
            /\ new.cash = old.cash - brings * t.price
<1> DEFINE old == AccountOf(a, owner)
           new == AccountOf(Credit(a, m, t), owner)
           brings == IF m.owner = owner THEN Brings(m.side, t.qty) ELSE 0
           next == ApplyFill(AccountOf(a, m.owner), m.side, t.price, t.qty)
<1>1. t.price \in Int /\ t.qty \in Int /\ m.side \in Sides
  BY MarketAssumption DEF OrderMeta, Trade
<1>2. \A x : AccountOf(a, x) \in Account
  <2>1. NewAccount \in Account BY DEF NewAccount, Account
  <2>2. IsMap(a, Owners, Account) BY MapSet
  <2>3. QED BY <2>1, <2>2 DEF AccountOf, IsMap
<1>3. brings \in Int
  BY <1>1 DEF Brings
<1>4. Credit(a, m, t) = Put(a, m.owner, next)
  BY DEF Credit
<1>5. CASE m.owner = owner
  <2>1. new = next BY <1>4, <1>5 DEF AccountOf, Put
  <2>2. /\ next.position = AccountOf(a, m.owner).position + Brings(m.side, t.qty)
        /\ next.cash = AccountOf(a, m.owner).cash - Brings(m.side, t.qty) * t.price
    BY <1>1, <1>2, FillShows
  <2> HIDE DEF next, new
  <2>3. QED BY <1>2, <1>3, <1>5, <2>1, <2>2 DEF new
<1>6. CASE m.owner # owner
  <2>1. new = old BY <1>4, <1>6 DEF AccountOf, Put
  <2>2. brings = 0 BY <1>6
  <2>3. old.position \in Int /\ old.cash \in Int /\ old \in Account
    BY <1>2 DEF Account
  <2> HIDE DEF new, old, brings
  <2>4. brings * t.price = 0 BY <1>1, <2>2
  <2>5. new.position = old.position + brings /\ new.cash = old.cash - brings * t.price
    BY <2>1, <2>2, <2>3, <2>4
  <2>6. QED BY <1>3, <2>3, <2>5 DEF new, old, brings
<1>7. QED BY <1>5, <1>6

(* The orders sent, and what the ledger knows of them. *)
Registered(S) == S \subseteq Order /\ OneEach(S)

MetaOf(m, S) ==
  \A o \in S : o.id \in DOMAIN m /\ m[o.id] = [owner |-> o.owner, side |-> o.side]

(* A print brings an owner what its own orders have traded. *)
LEMMA BoughtIs ==
  ASSUME NEW S, Registered(S), NEW buy \in S, NEW sell \in S,
         buy.side = "Buy", sell.side = "Sell",
         NEW t \in Trade, {t.maker, t.taker} = {buy.id, sell.id}, NEW owner
  PROVE Bought(S, owner, t) = (IF buy.owner = owner THEN t.qty ELSE 0)
                                - (IF sell.owner = owner THEN t.qty ELSE 0)
<1>1. \A o \in S : o.id \in {t.maker, t.taker} => o = buy \/ o = sell
  BY DEF Registered, OneEach
<1>2. Fills(S, owner, "Buy", t) <=> buy.owner = owner
  BY <1>1 DEF Fills
<1>3. Fills(S, owner, "Sell", t) <=> sell.owner = owner
  BY <1>1 DEF Fills
<1>4. QED BY <1>2, <1>3 DEF Bought

LEMMA TradeShows ==
  ASSUME NEW S, Registered(S), NEW m \in Maps(Ids, OrderMeta), MetaOf(m, S),
         NEW a \in Maps(Owners, Account), NEW t \in Trade, TradeOK(t, S), NEW owner
  PROVE LET old == AccountOf(a, owner)
            new == AccountOf(ApplyTrade(a, m, t), owner)
        IN  /\ old \in Account
            /\ new.position = old.position + Bought(S, owner, t)
            /\ new.cash = old.cash - Bought(S, owner, t) * t.price
<1> DEFINE b == Credit(a, m[t.maker], t)
           of(x) == IF m[x].owner = owner THEN Brings(m[x].side, t.qty) ELSE 0
           old == AccountOf(a, owner)
           mid == AccountOf(b, owner)
           new == AccountOf(Credit(b, m[t.taker], t), owner)
           p == of(t.maker)
           q == of(t.taker)
<1>1. PICK buy, sell \in S : /\ buy.side = "Buy" /\ sell.side = "Sell"
                             /\ {t.maker, t.taker} = {buy.id, sell.id}
  BY DEF TradeOK
<1>2. /\ t.maker \in DOMAIN m /\ t.taker \in DOMAIN m
      /\ m[buy.id] = [owner |-> buy.owner, side |-> "Buy"]
      /\ m[sell.id] = [owner |-> sell.owner, side |-> "Sell"]
  BY <1>1 DEF MetaOf
<1>3. ApplyTrade(a, m, t) = Credit(b, m[t.taker], t)
  BY <1>2 DEF ApplyTrade
<1>4. m[t.maker] \in OrderMeta /\ m[t.taker] \in OrderMeta
  BY <1>2, MapSet DEF IsMap
<1>5. b \in Maps(Owners, Account)
  BY <1>4, CreditType
<1>6. /\ old \in Account /\ p \in Int
      /\ mid.position = old.position + p /\ mid.cash = old.cash - p * t.price
  <2> DEFINE k == m[t.maker]
  <2>1. k \in OrderMeta BY <1>4
  <2> HIDE DEF k
  <2>2. LET x == IF k.owner = owner THEN Brings(k.side, t.qty) ELSE 0
            y == AccountOf(Credit(a, k, t), owner)
        IN  /\ old \in Account /\ x \in Int
            /\ y.position = old.position + x /\ y.cash = old.cash - x * t.price
    BY <2>1, CreditShows
  <2>3. QED BY <2>2 DEF k
<1> HIDE DEF b
<1>7. /\ mid \in Account /\ q \in Int
      /\ new.position = mid.position + q /\ new.cash = mid.cash - q * t.price
  BY <1>4, <1>5, CreditShows
<1>8. t.price \in Int /\ t.qty \in Int
  BY MarketAssumption DEF Trade
<1>9. p + q = Bought(S, owner, t)
  <2>1. /\ of(buy.id) = IF buy.owner = owner THEN t.qty ELSE 0
        /\ of(sell.id) = IF sell.owner = owner THEN -t.qty ELSE 0
    BY <1>2 DEF Brings
  <2>2. Bought(S, owner, t) = (IF buy.owner = owner THEN t.qty ELSE 0)
                                - (IF sell.owner = owner THEN t.qty ELSE 0)
    BY <1>1, BoughtIs
  <2>3. \/ t.maker = buy.id /\ t.taker = sell.id
        \/ t.maker = sell.id /\ t.taker = buy.id
    <3>1. buy.id # sell.id BY <1>1 DEF Registered, OneEach
    <3>2. QED BY <1>1, <3>1
  <2>4. p + q = of(buy.id) + of(sell.id)
    <3>1. of(buy.id) \in Int /\ of(sell.id) \in Int BY <1>8, <2>1
    <3>2. (p = of(buy.id) /\ q = of(sell.id)) \/ (p = of(sell.id) /\ q = of(buy.id))
      BY <2>3
    <3> HIDE DEF of, p, q
    <3>3. QED BY <3>1, <3>2
  <2> HIDE DEF of
  <2>5. QED BY <1>8, <2>1, <2>2, <2>4
<1>10. old.position \in Int /\ old.cash \in Int
  BY <1>6 DEF Account
<1> HIDE DEF old, mid, new, p, q, of
<1>11. new.position = old.position + (p + q) /\ new.cash = old.cash - (p * t.price + q * t.price)
  <2> DEFINE x == p * t.price
             y == q * t.price
  <2>1. x \in Int /\ y \in Int BY <1>6, <1>7, <1>8
  <2> HIDE DEF x, y
  <2>2. mid.cash = old.cash - x /\ new.cash = mid.cash - y BY <1>6, <1>7 DEF x, y
  <2>3. new.cash = old.cash - (x + y) BY <1>10, <2>1, <2>2
  <2>4. QED BY <1>6, <1>7, <1>10, <2>3 DEF x, y
<1>12. p * t.price + q * t.price = (p + q) * t.price
  BY <1>6, <1>7, <1>8
<1>13. new.position = old.position + Bought(S, owner, t)
       /\ new.cash = old.cash - Bought(S, owner, t) * t.price
  BY <1>9, <1>11, <1>12
<1>14. QED BY <1>3, <1>6, <1>13 DEF old, new, b

----------------------------------------------------------------------------
(* One call: the world keeps its accounts.  S are the orders sent so far. *)

KeptWorlds(S) ==
  {w \in Worlds :
     /\ Placed(w.eng) /\ FromKnown(Held(w.eng), S)
     /\ PrintsOK(w.tape, S) /\ MetaOf(w.meta, S)
     /\ \A owner \in Owners : Audited(w.accounts, S, owner, w.tape)}

LEMMA KeptParts ==
  ASSUME NEW S, NEW w \in KeptWorlds(S)
  PROVE /\ w \in Worlds /\ GoodEngine(w.eng)
        /\ w.tape \in Seq(Trade) /\ w.accounts \in Maps(Owners, Account)
        /\ w.meta \in Maps(Ids, OrderMeta)
        /\ Placed(w.eng) /\ FromKnown(Held(w.eng), S)
        /\ PrintsOK(w.tape, S) /\ MetaOf(w.meta, S)
        /\ \A owner \in Owners : Audited(w.accounts, S, owner, w.tape)
BY EngineSet DEF KeptWorlds, Worlds

(* A print is booked. *)
LEMMA TradeAudited ==
  ASSUME NEW S, Registered(S), NEW m \in Maps(Ids, OrderMeta), MetaOf(m, S),
         NEW a \in Maps(Owners, Account), NEW prior \in Seq(Trade), NEW owner,
         Audited(a, S, owner, prior), NEW t \in Trade, TradeOK(t, S)
  PROVE Audited(ApplyTrade(a, m, t), S, owner, Append(prior, t))
<1> DEFINE old == AccountOf(a, owner)
           new == AccountOf(ApplyTrade(a, m, t), owner)
           brings == Bought(S, owner, t)
           cost == brings * t.price
           q == QtyOf(Shares(S, owner, prior))
           c == QtyOf(Costs(S, owner, prior))
<1>1. /\ old \in Account /\ new.position = old.position + brings
      /\ new.cash = old.cash - cost
  BY TradeShows
<1>2. old.position = q /\ old.cash = -c
  BY DEF Audited
<1>3. /\ q \in Int /\ c \in Int
      /\ QtyOf(Shares(S, owner, Append(prior, t))) = q + brings
      /\ QtyOf(Costs(S, owner, Append(prior, t))) = c + cost
  BY SharesGrow
<1>4. brings \in Int /\ cost \in Int
  BY BoughtInt
<1> HIDE DEF old, brings, cost, q, c
<1>5. new.position = q + brings /\ new.cash = -(c + cost)
  <2> HIDE DEF new
  <2>1. QED BY <1>1, <1>2, <1>3, <1>4
<1>6. QED BY <1>3, <1>5 DEF Audited

(* So are the prints of a call. *)
LEMMA TradesAudited ==
  ASSUME NEW S, Registered(S), NEW m \in Maps(Ids, OrderMeta), MetaOf(m, S),
         NEW a0 \in Maps(Owners, Account), NEW prior \in Seq(Trade), NEW owner,
         Audited(a0, S, owner, prior), NEW trades \in Seq(Trade), PrintsOK(trades, S)
  PROVE Audited(ApplyTrades(a0, m, trades), S, owner, prior \o trades)
<1> DEFINE n == Len(trades)
           so_far(k) == prior \o Printed(trades, k)
           X == [k \in Nat |-> {a \in Maps(Owners, Account) : Audited(a, S, owner, so_far(k))}]
<1>1. n \in Nat
  BY LenProperties
<1>2. a0 \in X[0]
  <2>1. so_far(0) = prior
    BY PrintedGrows, ConcatEmptySeq
  <2> HIDE DEF so_far
  <2>2. QED BY <2>1
<1>3. ASSUME NEW k \in 1 .. n, NEW a \in X[k - 1]
      PROVE ApplyTrade(a, m, trades[k]) \in X[k]
  <2> DEFINE j == k - 1
             p == so_far(j)
             t == trades[k]
  <2>1. j \in Nat /\ j < n /\ j + 1 = k /\ k \in Nat BY <1>1
  <2>2. a \in Maps(Owners, Account) /\ Audited(a, S, owner, p)
    <3> HIDE DEF so_far
    <3>1. QED BY <2>1
  <2>3. /\ Printed(trades, j) \in Seq(Trade) /\ t \in Trade
        /\ Printed(trades, k) = Append(Printed(trades, j), t)
    <3>1. /\ Printed(trades, j) \in Seq(Trade) /\ trades[j + 1] \in Trade
          /\ Printed(trades, j + 1) = Append(Printed(trades, j), trades[j + 1])
      BY <2>1, PrintedGrows
    <3> HIDE DEF j
    <3>2. QED BY <2>1, <3>1
  <2>4. p \in Seq(Trade) /\ so_far(k) = Append(p, t)
    <3> DEFINE x == Printed(trades, j)
    <3>1. x \in Seq(Trade) /\ Printed(trades, k) = Append(x, t) /\ t \in Trade BY <2>3
    <3> HIDE DEF x, t
    <3>2. prior \o x \in Seq(Trade) BY <3>1, ConcatProperties
    <3>3. prior \o Append(x, t) = Append(prior \o x, t) BY <3>1, AppendLater
    <3>4. QED BY <3>1, <3>2, <3>3 DEF x
  <2>5. TradeOK(t, S) BY DEF PrintsOK
  <2> HIDE DEF p, t, j
  <2>6. Audited(ApplyTrade(a, m, t), S, owner, Append(p, t))
    BY <2>2, <2>3, <2>4, <2>5, TradeAudited
  <2>7. ApplyTrade(a, m, t) \in Maps(Owners, Account)
    BY <2>2, <2>3, TradeType
  <2> HIDE DEF so_far
  <2>8. QED BY <2>1, <2>4, <2>6, <2>7 DEF t
<1> DEFINE last == ApplyTrades(a0, m, trades)
<1>4. last \in X[n]
  <2> HIDE DEF X
  <2>1. QED BY <1>1, <1>2, <1>3, TradesBooked
<1>5. so_far(n) = prior \o trades
  BY PrintedGrows
<1> HIDE DEF so_far, last
<1>6. Audited(last, S, owner, so_far(n))
  BY <1>1, <1>4
<1>7. QED BY <1>5, <1>6 DEF last

(* The outcome f, new of a call that keeps the accounts. *)
LEMMA BookedKept ==
  ASSUME NEW S, Registered(S), NEW w \in KeptWorlds(S), NEW f, GoodEngine(f), Placed(f),
         FromKnown(Held(f), S), NEW new \in Seq(Trade), PrintsOK(new, S)
  PROVE Booked(w, f, new) \in KeptWorlds(S)
<1> DEFINE v == Booked(w, f, new)
           tape1 == w.tape \o new
           old == w.tape
           m == w.meta
           a0 == w.accounts
<1>1. /\ w \in Worlds /\ old \in Seq(Trade) /\ a0 \in Maps(Owners, Account)
      /\ m \in Maps(Ids, OrderMeta) /\ PrintsOK(old, S) /\ MetaOf(m, S)
      /\ \A owner \in Owners : Audited(a0, S, owner, old)
  BY KeptParts
<1>2. f \in Engines
  BY EngineSet
<1>3. v \in Worlds /\ v.eng = f /\ v.tape = tape1 /\ v.meta = m
  BY <1>1, <1>2, BookedType
<1>4. v.accounts = ApplyTrades(a0, m, new)
  BY <1>1 DEF Booked, Worlds
<1> HIDE DEF old, m, a0, v
<1>5. PrintsOK(old \o new, S)
  <2> DEFINE s == old \o new
  <2>1. /\ Len(s) = Len(old) + Len(new) /\ Len(old) \in Nat /\ Len(new) \in Nat
        /\ \A k \in 1 .. Len(old) + Len(new) :
             s[k] = IF k <= Len(old) THEN old[k] ELSE new[k - Len(old)]
    BY <1>1, ConcatProperties, LenProperties
  <2> HIDE DEF s
  <2>2. ASSUME NEW k \in 1 .. Len(s) PROVE TradeOK(s[k], S)
    <3>1. CASE k <= Len(old)
      <4>1. s[k] = old[k] /\ k \in 1 .. Len(old) BY <2>1, <3>1
      <4>2. QED BY <1>1, <4>1 DEF PrintsOK
    <3>2. CASE ~(k <= Len(old))
      <4>1. s[k] = new[k - Len(old)] /\ k - Len(old) \in 1 .. Len(new) BY <2>1, <3>2
      <4>2. QED BY <4>1 DEF PrintsOK
    <3>3. QED BY <3>1, <3>2
  <2>3. QED BY <2>2 DEF PrintsOK, s
<1>6. \A owner \in Owners : Audited(ApplyTrades(a0, m, new), S, owner, old \o new)
  BY <1>1, TradesAudited
<1>7. QED BY <1>1, <1>3, <1>4, <1>5, <1>6 DEF KeptWorlds, v, old, m

(* A new order is none of those that have been sent. *)
LEMMA NewIsNew ==
  ASSUME NEW S, NEW o, Apart(S, {o})
  PROVE /\ \A x : Stems(x, S) => Stems(x, S \cup {o}) /\ x.id # o.id
        /\ \A t : TradeOK(t, S) => TradeOK(t, S \cup {o}) /\ o.id \notin {t.maker, t.taker}
<1>1. \A s \in S : s.id # o.id
  BY DEF Apart
<1>2. ASSUME NEW x, Stems(x, S) PROVE Stems(x, S \cup {o}) /\ x.id # o.id
  BY <1>1, <1>2 DEF Stems
<1>3. ASSUME NEW t, TradeOK(t, S)
      PROVE TradeOK(t, S \cup {o}) /\ o.id \notin {t.maker, t.taker}
  <2>1. PICK buy, sell \in S : /\ buy.side = "Buy" /\ sell.side = "Sell"
                               /\ {t.maker, t.taker} = {buy.id, sell.id}
    BY <1>3 DEF TradeOK
  <2>2. o.id \notin {t.maker, t.taker} BY <1>1, <2>1
  <2>3. QED BY <1>3, <2>1, <2>2 DEF TradeOK
<1>4. QED BY <1>2, <1>3

(* An order enters the books of the ledger. *)
LEMMA KnownKept ==
  ASSUME NEW S, Registered(S), NEW w \in KeptWorlds(S), NEW o \in Order, Apart(S, {o})
  PROVE /\ Known(w, o) \in KeptWorlds(S \cup {o}) /\ Registered(S \cup {o})
        /\ Known(w, o).eng = w.eng
<1> DEFINE v == Known(w, o)
           T == S \cup {o}
           m == [owner |-> o.owner, side |-> o.side]
           tape0 == w.tape
<1>1. /\ w \in Worlds /\ w.meta \in Maps(Ids, OrderMeta) /\ tape0 \in Seq(Trade)
      /\ Placed(w.eng) /\ FromKnown(Held(w.eng), S)
      /\ PrintsOK(tape0, S) /\ MetaOf(w.meta, S)
      /\ \A owner \in Owners : Audited(w.accounts, S, owner, tape0)
  BY KeptParts
<1>2. /\ v \in Worlds /\ v.eng = w.eng /\ v.tape = tape0 /\ v.accounts = w.accounts
      /\ v.meta = Put(w.meta, o.id, m)
  <2>1. m \in OrderMeta /\ o.id \in Ids BY DEF Order, OrderMeta
  <2>2. IsMap(w.meta, Ids, OrderMeta) BY <1>1, MapSet
  <2>3. v = [w EXCEPT !.meta = Put(w.meta, o.id, m)] BY DEF Known
  <2> HIDE DEF m
  <2>4. Put(w.meta, o.id, m) \in Maps(Ids, OrderMeta)
    <3>1. IsMap(Put(w.meta, o.id, m), Ids, OrderMeta) BY <2>1, <2>2, PutMap
    <3>2. QED BY <3>1, MapSet
  <2> HIDE DEF v
  <2>5. QED BY <1>1, <2>3, <2>4 DEF Worlds
<1> HIDE DEF v, tape0
<1>3. FromKnown(Held(w.eng), T)
  BY <1>1, NewIsNew DEF FromKnown
<1>4. PrintsOK(tape0, T)
  BY <1>1, NewIsNew DEF PrintsOK
<1>5. MetaOf(v.meta, T)
  <2>1. ASSUME NEW x \in S
        PROVE /\ x.id \in DOMAIN v.meta
              /\ v.meta[x.id] = [owner |-> x.owner, side |-> x.side]
    <3>1. x.id # o.id BY DEF Apart
    <3>2. x.id \in DOMAIN w.meta /\ w.meta[x.id] = [owner |-> x.owner, side |-> x.side]
      BY <1>1 DEF MetaOf
    <3>3. QED BY <1>2, <3>1, <3>2 DEF Put
  <2>2. o.id \in DOMAIN v.meta /\ v.meta[o.id] = m
    BY <1>2 DEF Put
  <2>3. QED BY <2>1, <2>2 DEF MetaOf
<1>6. ASSUME NEW owner \in Owners PROVE Audited(w.accounts, T, owner, tape0)
  <2>1. ASSUME NEW k \in 1 .. Len(tape0)
        PROVE Bought(T, owner, tape0[k]) = Bought(S, owner, tape0[k])
    <3> DEFINE t == tape0[k]
    <3>1. o.id \notin {t.maker, t.taker} BY <1>1, NewIsNew DEF PrintsOK
    <3> HIDE DEF t
    <3>2. \A side : Fills(T, owner, side, t) <=> Fills(S, owner, side, t)
      BY <3>1 DEF Fills
    <3>3. Bought(T, owner, t) = Bought(S, owner, t) BY <3>2 DEF Bought
    <3>4. QED BY <3>3 DEF t
  <2> HIDE DEF T
  <2>2. /\ Shares(T, owner, tape0) = Shares(S, owner, tape0)
        /\ Costs(T, owner, tape0) = Costs(S, owner, tape0)
    BY <1>1, <2>1, SharesSame
  <2>3. QED BY <1>1, <2>2 DEF Audited
<1>7. Registered(T)
  BY DEF Registered, OneEach, Apart
<1> HIDE DEF T
<1>8. v \in KeptWorlds(T)
  BY <1>1, <1>2, <1>3, <1>4, <1>5, <1>6 DEF KeptWorlds
<1>9. QED BY <1>2, <1>7, <1>8 DEF v, T

(* process() with a new order *)
LEMMA SubmitWorld ==
  ASSUME NEW S, Registered(S), NEW w \in KeptWorlds(S), NEW o \in Order, Apart(S, {o}),
         NEW t \in Int
  PROVE LET v == Processed(Known(w, o), Process(w.eng, o, t))
        IN  /\ Registered(S \cup {o}) /\ v \in KeptWorlds(S \cup {o})
            /\ v.eng = Process(w.eng, o, t).eng /\ v.eng.cfg = w.eng.cfg
            /\ v.tape = w.tape \o Process(w.eng, o, t).trades
<1> DEFINE v == Known(w, o)
           e == w.eng
           T == S \cup {o}
           V == IF o.qty > 0 THEN {o} ELSE {}
           L == Held(e) \cup V
           c == Terms(T, L)
           r == Process(e, o, t)
           f == r.eng
           new == r.trades
<1>1. v \in KeptWorlds(T) /\ Registered(T) /\ v.eng = e
  BY KnownKept
<1>2. GoodEngine(e) /\ Placed(e) /\ FromKnown(Held(e), S) /\ FromKnown(Held(e), T)
  BY <1>1, KeptParts
<1>3. T \subseteq Order
  BY <1>1 DEF Registered
<1>4. V \subseteq Order /\ OneEach(V)
  BY DEF OneEach
<1>5. Apart(Held(e), V)
  BY <1>2, NewIsNew DEF Apart, FromKnown
<1>6. FromKnown(L, T)
  <2>1. ASSUME NEW x \in V PROVE Stems(x, T) /\ x.qty \in Nat
    <3>1. x = o /\ x.qty > 0 /\ x.qty \in Int BY DEF Order
    <3>2. Stems(o, T) BY <1>3 DEF Stems, Apart
    <3>3. QED BY <3>1, <3>2
  <2> HIDE DEF V, T
  <2>2. QED BY <1>2, <2>1 DEF FromKnown
<1> HIDE DEF e
<1>7. IsTerms(c) /\ Kept(e, V, <<>>, c) /\ c.known = T
  <2>1. c.known = T BY DEF Terms
  <2> HIDE DEF V, T
  <2>2. QED BY <1>2, <1>3, <1>4, <1>5, <1>6, <2>1, CallBegins
<1> HIDE DEF c, L
<1>8. GoodEngine(f) /\ new \in Seq(Trade) /\ f.cfg = e.cfg
  BY <1>2, ProcessGood, ProcessConfig DEF GoodResult, GoodOutcome
<1>9. Kept(f, {}, new, c)
  BY <1>2, <1>7, ProcessKept
<1>10. Processed(v, r) = Booked(v, f, new)
  BY DEF Processed
<1> HIDE DEF v, r, f, new, V, T
<1>11. Placed(f) /\ FromKnown(Held(f), T) /\ PrintsOK(new, T)
  BY <1>7, <1>9, CallEnded
<1>12. Booked(v, f, new) \in KeptWorlds(T)
  BY <1>1, <1>8, <1>11, BookedKept
<1>13. Booked(v, f, new).eng = f /\ Booked(v, f, new).tape = v.tape \o new
  <2>1. v \in Worlds /\ f \in Engines BY <1>1, <1>8, KeptParts, EngineSet
  <2>2. QED BY <1>8, <2>1, BookedType
<1>14. v.tape = w.tape
  BY KeptParts DEF Known, Worlds, v
<1> DEFINE b == Booked(v, f, new)
<1>15. b \in KeptWorlds(T) /\ b.eng = f /\ b.eng.cfg = e.cfg /\ b.tape = w.tape \o new
  BY <1>8, <1>12, <1>13, <1>14
<1> HIDE DEF b
<1>16. Processed(v, r) = b
  BY <1>10 DEF b
<1>17. QED BY <1>1, <1>15, <1>16 DEF v, r, T, e, f, new

(* flush *)
LEMMA FlushWorld ==
  ASSUME NEW S, Registered(S), NEW w \in KeptWorlds(S), NEW t \in Int
  PROVE LET v == Booked(w, Flush(w.eng, t).eng, Flush(w.eng, t).trades)
        IN  v \in KeptWorlds(S) /\ v.eng.cfg = w.eng.cfg
<1> DEFINE e == w.eng
           L == Held(e) \cup {}
           c == Terms(S, L)
           f == Flush(e, t)
<1>1. GoodEngine(e) /\ Placed(e) /\ FromKnown(Held(e), S)
  BY KeptParts
<1>2. L = Held(e) /\ S \subseteq Order /\ {} \subseteq Order /\ OneEach({}) /\ Apart(Held(e), {})
  BY DEF Registered, OneEach, Apart
<1> HIDE DEF e
<1>3. IsTerms(c) /\ Kept(e, {}, <<>>, c) /\ c.known = S
  <2>1. c.known = S BY DEF Terms
  <2>2. FromKnown(L, S) BY <1>1, <1>2
  <2>3. QED BY <1>1, <1>2, <2>1, <2>2, CallBegins
<1> HIDE DEF c, L
<1>4. Kept(f.eng, {}, f.trades, c)
  BY <1>1, <1>3, FlushKept
<1>5. GoodEngine(f.eng) /\ f.eng.cfg = e.cfg
  BY <1>1, FlushGood, FlushConfig DEF GoodOutcome
<1> HIDE DEF f
<1>6. /\ Placed(f.eng) /\ FromKnown(Held(f.eng), S) /\ PrintsOK(f.trades, S)
      /\ f.trades \in Seq(Trade)
  BY <1>3, <1>4, CallEnded
<1>7. Booked(w, f.eng, f.trades) \in KeptWorlds(S)
  BY <1>5, <1>6, BookedKept
<1>8. Booked(w, f.eng, f.trades).eng = f.eng
  <2>1. w \in Worlds /\ f.eng \in Engines BY <1>5, KeptParts, EngineSet
  <2>2. QED BY <1>6, <2>1, BookedType
<1>9. QED BY <1>5, <1>7, <1>8 DEF f, e

(* cancel *)
LEMMA CancelWorld ==
  ASSUME NEW S, Registered(S), NEW w \in KeptWorlds(S), NEW id
  PROVE LET v == [w EXCEPT !.eng.book = Cancel(w.eng.book, id).book]
        IN  /\ v \in KeptWorlds(S)
            /\ v.eng = [w.eng EXCEPT !.book = Cancel(w.eng.book, id).book]
            /\ v.eng.cfg = w.eng.cfg /\ v.tape = w.tape
<1> DEFINE e == w.eng
           book == e.book
           b == Cancel(book, id).book
           f == [e EXCEPT !.book = b]
           v == [w EXCEPT !.eng = f]
           Q == Range(e.queue)
<1>1. /\ w \in Worlds /\ GoodEngine(e) /\ Placed(e) /\ FromKnown(Held(e), S)
      /\ PrintsOK(w.tape, S) /\ MetaOf(w.meta, S)
      /\ \A owner \in Owners : Audited(w.accounts, S, owner, w.tape)
  BY KeptParts
<1>2. [w EXCEPT !.eng.book = Cancel(w.eng.book, id).book] = v
  OBVIOUS
<1>3. Tidy(book) /\ Apart(Resting(book), Q) /\ Distinct(e.queue)
  BY <1>1 DEF Placed
<1>4. GoodBook(b) /\ Tidy(b) /\ Resting(b) \subseteq Resting(book)
  BY <1>1, <1>3, EngineFields, CancelGood, CancelTidy
<1> HIDE DEF e, b
<1>5. GoodEngine(f) /\ f.book = b /\ f.queue = e.queue /\ f.cfg = e.cfg
  <2>1. e.queue \in Seq(Order) /\ e.next_trade_id \in Nat BY <1>1, EngineFields
  <2>2. GoodEngine(f) BY <1>1, <1>4, <2>1, SetBook
  <2>3. QED BY <1>1, <2>2 DEF GoodEngine, IsEngine
<1> HIDE DEF f
<1>6. Placed(f) /\ Held(f) \subseteq Held(e)
  BY <1>3, <1>4, <1>5 DEF Placed, Apart, Held
<1>7. FromKnown(Held(f), S)
  BY <1>1, <1>6 DEF FromKnown
<1>8. /\ v \in Worlds /\ v.eng = f /\ v.tape = w.tape /\ v.meta = w.meta
      /\ v.accounts = w.accounts
  <2>1. f \in Engines BY <1>5, EngineSet
  <2>2. QED BY <1>1, <2>1 DEF Worlds
<1> HIDE DEF v
<1>9. v \in KeptWorlds(S)
  BY <1>1, <1>6, <1>7, <1>8 DEF KeptWorlds
<1>10. v.eng = f /\ v.eng.cfg = e.cfg /\ v.tape = w.tape
  BY <1>5, <1>8
<1>11. QED BY <1>2, <1>9, <1>10 DEF f, b, e

----------------------------------------------------------------------------
(* Order ids.  In a proper cast no agent gives an order the id of another one, as
   long as the ids fit their span. *)

LEMMA NoiseSends ==
  ASSUME NEW nt \in Noises, NEW seen, NEW s \in NoiseSteps(nt, seen)
  PROVE \/ s.agent = nt /\ s.actions = <<>>
        \/ \E o : /\ s.agent = [nt EXCEPT !.seq = nt.seq + 1]
                  /\ s.actions = <<SubmitAction(o)>> /\ o.id = nt.seq /\ o.owner = nt.owner
<1>1. CASE s = [agent |-> nt, actions |-> <<>>]
  BY <1>1
<1>2. ASSUME NEW o \in NoiseOrders(nt, seen),
             s = [agent |-> [nt EXCEPT !.seq = nt.seq + 1], actions |-> <<SubmitAction(o)>>]
      PROVE /\ s.agent = [nt EXCEPT !.seq = nt.seq + 1]
            /\ s.actions = <<SubmitAction(o)>> /\ o.id = nt.seq /\ o.owner = nt.owner
  <2>1. ASSUME NEW ref, NEW side, NEW q, NEW x \in NoiseOrder(nt, ref, side, q)
        PROVE x.id = nt.seq /\ x.owner = nt.owner
    <3> DEFINE market == [LimitOrder(nt.seq, side, 0, q, nt.owner) EXCEPT !.type = "Market", !.tif = "IOC"]
               limit(px) == LimitOrder(nt.seq, side, px, q, nt.owner)
    <3>1. market.id = nt.seq /\ market.owner = nt.owner BY DEF LimitOrder
    <3>2. \A px : limit(px).id = nt.seq /\ limit(px).owner = nt.owner BY DEF LimitOrder
    <3>3. x = market \/ \E px \in NoisePrices(side, ref) : x = limit(px) BY DEF NoiseOrder
    <3> HIDE DEF market, limit
    <3>4. QED BY <3>1, <3>2, <3>3
  <2>2. o.id = nt.seq /\ o.owner = nt.owner
    BY <2>1 DEF NoiseOrders
  <2>3. QED BY <1>2, <2>2
<1>3. QED BY <1>1, <1>2 DEF NoiseSteps

(* The ids agent a has used. *)
Uses(a, id) ==
  IF a.kind = "maker" THEN a.owner * IdSpan < id /\ id < a.owner * IdSpan + a.seq
  ELSE 0 < id /\ id < a.seq

(* An id of the common span, or of the owner's span. *)
Spanned(o) ==
  o.id <= IdSpan \/ (o.owner * IdSpan < o.id /\ o.id <= o.owner * IdSpan + IdSpan)

InSpan == \A o \in sent : Spanned(o)

Quoted(a) ==
  a.kind = "maker" =>
    \/ a.bid = 0 /\ a.ask = 0
    \/ a.seq > 2 /\ a.bid = MakerId(a, -2) /\ a.ask = MakerId(a, -1)

(* The cast of the world, and where its orders come from. *)
CastInv ==
  /\ \A i \in DOMAIN agents :
       /\ agents[i].owner \in Nat \ {0} /\ agents[i].seq \in Nat \ {0}
       /\ agents[i].kind \in {"maker", "noise"} /\ Quoted(agents[i])
  /\ \A i, j \in DOMAIN agents : i # j =>
       /\ agents[i].owner # agents[j].owner
       /\ ~(agents[i].kind = "noise" /\ agents[j].kind = "noise")
  /\ \A o \in sent : \E i \in DOMAIN agents : o.owner = agents[i].owner /\ Uses(agents[i], o.id)

LEMMA SpansApart ==
  ASSUME NEW n \in Nat, NEW a \in Nat, NEW b \in Nat, a # b, NEW id \in Nat,
         a * n < id, id <= a * n + n
  PROVE ~(b * n < id /\ id <= b * n + n)
<1>1. \A x, y \in Nat : x < y => x * n + n <= y * n
  <2> SUFFICES ASSUME NEW x \in Nat, NEW y \in Nat, x < y PROVE x * n + n <= y * n
    OBVIOUS
  <2>1. PICK d \in Nat : y = x + 1 + d
    <3> DEFINE d == y - x - 1
    <3>1. d \in Nat /\ y = x + 1 + d OBVIOUS
    <3> HIDE DEF d
    <3>2. QED BY <3>1
  <2>2. y * n = x * n + n + d * n
    BY <2>1
  <2>3. d * n \in Nat /\ x * n \in Nat
    OBVIOUS
  <2>4. QED BY <2>2, <2>3
<1> DEFINE p == a * n
           q == b * n
<1>2. p \in Nat /\ q \in Nat
  OBVIOUS
<1>3. p + n <= q \/ q + n <= p
  BY <1>1
<1> HIDE DEF p, q
<1>4. p < id /\ id <= p + n
  BY DEF p
<1>5. ~(q < id /\ id <= q + n)
  BY <1>2, <1>3, <1>4
<1>6. QED BY <1>5 DEF q

(* A new id of an agent is no id of an order that has been sent. *)
LEMMA NewId ==
  ASSUME CastInv, InSpan, InRange, NEW i \in DOMAIN agents, NEW o \in Order, Spanned(o),
         o.owner = agents[i].owner,
         o.id >= IF agents[i].kind = "maker" THEN agents[i].owner * IdSpan + agents[i].seq
                 ELSE agents[i].seq
  PROVE Apart(sent, {o})
<1>1. SUFFICES ASSUME NEW s \in sent, s.id = o.id PROVE FALSE
  BY DEF Apart
<1>2. PICK j \in DOMAIN agents : s.owner = agents[j].owner /\ Uses(agents[j], s.id)
  BY DEF CastInv
<1> DEFINE a == agents[i]
           b == agents[j]
           id == o.id
           p == a.owner * IdSpan
           q == b.owner * IdSpan
<1>3. /\ a.owner \in Nat \ {0} /\ a.seq \in Nat \ {0} /\ a.kind \in {"maker", "noise"}
      /\ b.owner \in Nat \ {0} /\ b.seq \in Nat \ {0} /\ b.kind \in {"maker", "noise"}
      /\ i # j => a.owner # b.owner /\ ~(a.kind = "noise" /\ b.kind = "noise")
  BY DEF CastInv
<1>4. IdSpan \in Nat /\ IdSpan > 0 /\ id \in Nat
  <2>1. IdSpan \in Nat \ {0} BY AgentAssumption
  <2>2. id \in Nat BY MarketAssumption DEF Order
  <2>3. QED BY <2>1, <2>2
<1>5. p \in Nat /\ q \in Nat /\ p >= IdSpan /\ q >= IdSpan
  <2>1. \A x \in Nat \ {0} : x * IdSpan \in Nat /\ x * IdSpan >= IdSpan
    <3> SUFFICES ASSUME NEW x \in Nat \ {0} PROVE x * IdSpan \in Nat /\ x * IdSpan >= IdSpan
      OBVIOUS
    <3>1. PICK y \in Nat : x = y + 1
      <4>1. x - 1 \in Nat /\ x = (x - 1) + 1 OBVIOUS
      <4>2. QED BY <4>1
    <3>2. x * IdSpan = y * IdSpan + IdSpan /\ y * IdSpan \in Nat BY <1>4, <3>1
    <3>3. QED BY <1>4, <3>2
  <2> HIDE DEF a, b
  <2>2. QED BY <1>3, <2>1
<1>6. /\ id <= IdSpan \/ (p < id /\ id <= p + IdSpan)
      /\ id <= IdSpan \/ (q < id /\ id <= q + IdSpan)
  <2>1. Spanned(o) /\ o.owner = a.owner OBVIOUS
  <2>2. Spanned(s) /\ s.owner = b.owner BY <1>2 DEF InSpan
  <2>3. QED BY <1>1, <2>1, <2>2 DEF Spanned
<1>7. /\ id >= IF a.kind = "maker" THEN p + a.seq ELSE a.seq
      /\ IF b.kind = "maker" THEN q < id /\ id < q + b.seq ELSE 0 < id /\ id < b.seq
  BY <1>1, <1>2 DEF Uses
<1>8. CASE i = j
  <2>1. a = b /\ p = q BY <1>8
  <2> HIDE DEF a, b, p, q, id
  <2>2. QED BY <1>3, <1>4, <1>5, <1>7, <2>1
<1>9. CASE i # j
  <2>1. a.owner # b.owner /\ (a.kind = "maker" \/ b.kind = "maker")
    BY <1>3, <1>9
  <2>2. ~((p < id /\ id <= p + IdSpan) /\ (q < id /\ id <= q + IdSpan))
    <3> HIDE DEF a, b, id
    <3>1. QED BY <1>3, <1>4, <2>1, SpansApart
  <2> HIDE DEF a, b, p, q, id
  <2>3. a.kind = "maker" => id > IdSpan BY <1>3, <1>4, <1>5, <1>7
  <2>4. b.kind = "maker" => id > IdSpan BY <1>3, <1>4, <1>5, <1>7
  <2>5. id > IdSpan BY <2>1, <2>3, <2>4
  <2>6. QED BY <1>4, <1>6, <2>2, <2>5
<1>10. QED BY <1>8, <1>9

(* What agent a does: it takes new ids, a different one for each order. *)
Does(a, s) ==
  /\ s.agent.kind = a.kind /\ s.agent.owner = a.owner
  /\ s.agent.seq \in Nat /\ s.agent.seq >= a.seq /\ Quoted(s.agent)
  /\ \A o \in OrdersOf(s.actions) :
       /\ o.owner = a.owner /\ Uses(s.agent, o.id)
       /\ o.id >= IF a.kind = "maker" THEN a.owner * IdSpan + a.seq ELSE a.seq
  /\ \A j, k \in DOMAIN s.actions :
       j # k /\ s.actions[j].type = "Submit" /\ s.actions[k].type = "Submit"
         => s.actions[j].order.id # s.actions[k].order.id

LEMMA Idle ==
  ASSUME NEW a, a.seq \in Nat, Quoted(a), NEW s, s.agent = a, s.actions = <<>>
  PROVE Does(a, s)
<1>1. DOMAIN s.actions = {}
  OBVIOUS
<1>2. OrdersOf(s.actions) = {}
  BY <1>1 DEF OrdersOf
<1>3. QED BY <1>1, <1>2 DEF Does

LEMMA MakerAgent ==
  ASSUME NEW mm \in Makers, mm.owner \in Nat, mm.seq \in Nat \ {0}, Quoted(mm),
         NEW cfg \in RulesConfig, NEW t, NEW seen, NEW position
  PROVE Does(mm, MakerStep(mm, cfg, t, seen, position))
<1> DEFINE s == MakerStep(mm, cfg, t, seen, position)
           n == Len(s.actions)
           p == mm.owner * IdSpan
           x == MakerId(mm, 0)
           y == MakerId(mm, 1)
<1>1. (s.agent = mm /\ s.actions = <<>>) \/ Quoting(mm, s)
  BY MakerSends
<1> HIDE DEF s
<1>2. CASE s.agent = mm /\ s.actions = <<>>
  BY <1>2, Idle DEF s
<1>3. CASE Quoting(mm, s)
  <2>1. p \in Nat /\ x = p + mm.seq /\ y = p + mm.seq + 1
    BY AgentAssumption DEF MakerId
  <2>2. /\ n \in Nat /\ n >= 2 /\ DOMAIN s.actions = 1 .. n
        /\ \A k \in 1 .. (n - 2) : s.actions[k].type = "Cancel"
        /\ IsQuote(s.actions[n - 1], mm, x, "Buy") /\ IsQuote(s.actions[n], mm, y, "Sell")
        /\ s.agent.kind = mm.kind /\ s.agent.owner = mm.owner /\ s.agent.seq = mm.seq + 2
        /\ s.agent.bid = x /\ s.agent.ask = y
    BY <1>3 DEF Quoting
  <2>3. mm.kind = "maker"
    BY DEF Makers
  <2>4. Quoted(s.agent)
    <3> DEFINE a == s.agent
    <3>1. MakerId(a, -2) = p + (mm.seq + 2) - 2 /\ MakerId(a, -1) = p + (mm.seq + 2) - 1
      <4>1. a.owner * IdSpan = p /\ a.seq = mm.seq + 2 BY <2>2
      <4> HIDE DEF a, p
      <4>2. QED BY <2>1, <4>1 DEF MakerId
    <3> HIDE DEF p, x, y
    <3>2. a.bid = MakerId(a, -2) /\ a.ask = MakerId(a, -1) /\ a.seq > 2
      BY <2>1, <2>2, <3>1
    <3>3. QED BY <3>2 DEF Quoted
  <2> HIDE DEF p, x, y, n
  <2>5. \A k \in 1 .. n : s.actions[k].type = "Submit" => k = n - 1 \/ k = n
    <3>1. \A k \in 1 .. n : k \in 1 .. (n - 2) \/ k = n - 1 \/ k = n BY <2>2
    <3>2. QED BY <2>2, <3>1
  <2>6. \A o \in OrdersOf(s.actions) : o.owner = mm.owner /\ o.id \in {x, y}
    <3>1. \A o \in OrdersOf(s.actions) :
            o = s.actions[n - 1].order \/ o = s.actions[n].order
      BY <2>2, <2>5 DEF OrdersOf
    <3>2. QED BY <2>2, <3>1 DEF IsQuote
  <2>7. \A id \in {x, y} : Uses(s.agent, id) /\ id >= p + mm.seq
    <3> DEFINE a == s.agent
    <3>1. a.owner * IdSpan = p /\ a.seq = mm.seq + 2 /\ a.kind = "maker"
      BY <2>2, <2>3 DEF p
    <3> HIDE DEF a
    <3>2. \A id \in {x, y} : p < id /\ id < p + a.seq /\ id >= p + mm.seq
      BY <2>1, <3>1
    <3>3. QED BY <3>1, <3>2 DEF Uses, a
  <2>8. s.actions[n - 1].order.id = x /\ s.actions[n].order.id = y /\ x # y
    BY <2>1, <2>2 DEF IsQuote
  <2>9. ASSUME NEW j \in DOMAIN s.actions, NEW k \in DOMAIN s.actions, j # k,
               s.actions[j].type = "Submit", s.actions[k].type = "Submit"
        PROVE s.actions[j].order.id # s.actions[k].order.id
    <3>1. (j = n - 1 /\ k = n) \/ (j = n /\ k = n - 1) BY <2>2, <2>5, <2>9
    <3>2. QED BY <2>8, <3>1
  <2>10. s.agent.seq \in Nat /\ s.agent.seq >= mm.seq
    BY <2>2
  <2>11. Does(mm, s)
    BY <2>2, <2>3, <2>4, <2>6, <2>7, <2>9, <2>10 DEF Does, p
  <2>12. QED BY <2>11 DEF s
<1>4. QED BY <1>1, <1>2, <1>3

LEMMA NoiseAgent ==
  ASSUME NEW nt \in Noises, nt.seq \in Nat \ {0}, NEW seen, NEW s \in NoiseSteps(nt, seen)
  PROVE Does(nt, s)
<1>1. nt.kind = "noise" /\ Quoted(nt)
  BY DEF Noises, Quoted
<1>2. CASE s.agent = nt /\ s.actions = <<>>
  BY <1>1, <1>2, Idle
<1>3. ASSUME NEW o, s.agent = [nt EXCEPT !.seq = nt.seq + 1],
             s.actions = <<SubmitAction(o)>>, o.id = nt.seq, o.owner = nt.owner
      PROVE Does(nt, s)
  <2>1. s.agent.kind = "noise" /\ s.agent.owner = nt.owner /\ s.agent.seq = nt.seq + 1
    BY <1>1, <1>3 DEF Noises
  <2>2. Quoted(s.agent)
    BY <2>1 DEF Quoted
  <2>3. DOMAIN s.actions = {1}
    BY <1>3
  <2>4. OrdersOf(s.actions) = {o}
    BY <1>3, <2>3 DEF OrdersOf, SubmitAction
  <2>5. Uses(s.agent, o.id) /\ o.id >= nt.seq
    BY <1>3, <2>1 DEF Uses
  <2>6. s.agent.seq \in Nat /\ s.agent.seq >= nt.seq
    BY <2>1
  <2>7. QED BY <1>1, <1>3, <2>1, <2>2, <2>3, <2>4, <2>5, <2>6 DEF Does
<1>4. QED BY <1>2, <1>3, NoiseSends

(* The orders of a list of actions do not clash with those sent before. *)
Fresh(actions, S) ==
  /\ \A o \in OrdersOf(actions) : Apart(S, {o})
  /\ \A j, k \in DOMAIN actions :
       j # k /\ actions[j].type = "Submit" /\ actions[k].type = "Submit"
         => actions[j].order.id # actions[k].order.id

LEMMA ActsFresh ==
  ASSUME CastInv, InSpan, InRange, turn \in DOMAIN agents, NEW s, Does(agents[turn], s),
         OrdersOf(s.actions) \subseteq Order, \A o \in OrdersOf(s.actions) : Spanned(o)
  PROVE Fresh(s.actions, sent)
<1>1. ASSUME NEW o \in OrdersOf(s.actions) PROVE Apart(sent, {o})
  <2> DEFINE a == agents[turn]
  <2>1. /\ o \in Order /\ Spanned(o) /\ o.owner = a.owner
        /\ o.id >= IF a.kind = "maker" THEN a.owner * IdSpan + a.seq ELSE a.seq
    BY DEF Does
  <2>2. QED BY <2>1, NewId
<1>2. QED BY <1>1 DEF Fresh, Does

LEMMA CastActs ==
  ASSUME CastInv, InRange, agents \in Seq(Makers \cup Noises), turn \in DOMAIN agents,
         NEW s, Does(agents[turn], s), Acts(s)
  PROVE CastInv'
<1>1. agents' = [agents EXCEPT ![turn] = s.agent] /\ sent' = sent \cup OrdersOf(s.actions)
  BY DEF Acts
<1>2. DOMAIN agents' = DOMAIN agents /\ agents'[turn] = s.agent
      /\ \A i \in DOMAIN agents : i # turn => agents'[i] = agents[i]
  BY <1>1
<1>3. /\ s.agent.kind = agents[turn].kind /\ s.agent.owner = agents[turn].owner
      /\ s.agent.seq \in Nat /\ s.agent.seq >= agents[turn].seq /\ Quoted(s.agent)
  BY DEF Does
<1>4. \A i \in DOMAIN agents :
        /\ agents'[i].kind = agents[i].kind /\ agents'[i].owner = agents[i].owner
        /\ agents'[i].seq \in Nat /\ agents'[i].seq >= agents[i].seq /\ Quoted(agents'[i])
  <2>1. \A i \in DOMAIN agents :
          agents[i].seq \in Nat /\ agents[i].seq >= agents[i].seq /\ Quoted(agents[i])
    BY DEF CastInv
  <2>2. QED BY <1>2, <1>3, <2>1
<1>5. \A i \in DOMAIN agents : agents[i].seq \in Nat \ {0} /\ agents[i].owner \in Nat \ {0}
  BY DEF CastInv
<1>6. \A i \in DOMAIN agents :
        agents'[i].owner \in Nat \ {0} /\ agents'[i].seq \in Nat \ {0}
        /\ agents'[i].kind \in {"maker", "noise"} /\ Quoted(agents'[i])
  <2>1. \A i \in DOMAIN agents : agents[i].kind \in {"maker", "noise"} BY DEF CastInv
  <2>2. QED BY <1>4, <1>5, <2>1
<1>7. ASSUME NEW o \in sent'
      PROVE \E i \in DOMAIN agents : o.owner = agents'[i].owner /\ Uses(agents'[i], o.id)
  <2>1. CASE o \in sent
    <3>1. PICK i \in DOMAIN agents : o.owner = agents[i].owner /\ Uses(agents[i], o.id)
      BY <2>1 DEF CastInv
    <3>2. Uses(agents'[i], o.id)
      <4> DEFINE a == agents[i]
                 b == agents'[i]
                 p == a.owner * IdSpan
      <4>1. /\ b.kind = a.kind /\ b.owner * IdSpan = p /\ p \in Nat
            /\ b.seq \in Nat /\ a.seq \in Nat /\ b.seq >= a.seq
            /\ o.id \in Nat
        <5>1. o.id \in Nat BY <2>1, MarketAssumption DEF InRange, Order
        <5>2. p \in Nat BY <1>5, AgentAssumption
        <5>3. QED BY <1>4, <1>5, <5>1, <5>2
      <4>2. IF a.kind = "maker" THEN p < o.id /\ o.id < p + a.seq
            ELSE 0 < o.id /\ o.id < a.seq
        BY <3>1 DEF Uses
      <4>3. a.kind = "maker" => p < o.id /\ o.id < p + b.seq
        <5> SUFFICES ASSUME a.kind = "maker" PROVE p < o.id /\ o.id < p + b.seq OBVIOUS
        <5>1. p + a.seq <= p + b.seq BY <4>1
        <5>2. QED BY <4>1, <4>2, <5>1
      <4>4. a.kind # "maker" => 0 < o.id /\ o.id < b.seq
        BY <4>1, <4>2
      <4>5. QED BY <4>1, <4>3, <4>4 DEF Uses
    <3>3. QED BY <1>4, <3>1, <3>2
  <2>2. CASE o \in OrdersOf(s.actions)
    <3>1. o.owner = agents[turn].owner /\ Uses(s.agent, o.id) BY <2>2 DEF Does
    <3>2. QED BY <1>2, <1>3, <3>1
  <2>3. QED BY <1>1, <2>1, <2>2
<1>8. \A i, j \in DOMAIN agents : i # j =>
        /\ agents'[i].owner # agents'[j].owner
        /\ ~(agents'[i].kind = "noise" /\ agents'[j].kind = "noise")
  BY <1>4 DEF CastInv
<1>9. QED BY <1>2, <1>6, <1>7, <1>8 DEF CastInv

(* The orders sent when the first k actions have been executed. *)
SentBy(S, actions, k) ==
  S \cup {actions[i].order : i \in {j \in 1 .. k : actions[j].type = "Submit"}}

LEMMA ActionsWorld ==
  ASSUME NEW actions, Doable(actions), OrdersOf(actions) \subseteq Order,
         NEW S, Registered(S), Fresh(actions, S), NEW w \in KeptWorlds(S), ts \in Int
  PROVE LET T == S \cup OrdersOf(actions)
        IN  /\ Registered(T) /\ Executed(w, actions) \in KeptWorlds(T)
            /\ Executed(w, actions).eng.cfg = w.eng.cfg
<1> DEFINE n == Len(actions)
           So(k) == SentBy(S, actions, k)
           cfg == w.eng.cfg
           X == [k \in Nat |-> {v \in KeptWorlds(So(k)) : Registered(So(k)) /\ v.eng.cfg = cfg}]
<1>1. n \in Nat /\ DOMAIN actions = 1 .. n
  BY DEF Doable
<1>2. So(0) = S /\ So(n) = S \cup OrdersOf(actions)
  BY <1>1 DEF SentBy, OrdersOf
<1>3. ASSUME NEW k \in 1 .. n, NEW v \in X[k - 1]
      PROVE Execute(v, actions[k]) \in X[k]
  <2> DEFINE act == actions[k]
             j == k - 1
             R == So(j)
             T == So(k)
  <2>1. j \in Nat /\ k \in Nat /\ k \in DOMAIN actions
    BY <1>1
  <2>2. v \in KeptWorlds(R) /\ Registered(R) /\ v.eng.cfg = cfg
    <3> HIDE DEF So, cfg
    <3>1. QED BY <2>1
  <2>3. T = IF act.type = "Submit" THEN R \cup {act.order} ELSE R
    <3>1. 1 .. k = (1 .. j) \cup {k} BY <2>1
    <3> HIDE DEF j
    <3>2. QED BY <3>1 DEF SentBy
  <2>4. act.type \in {"Submit", "Cancel"}
    BY <2>1 DEF Doable
  <2>5. CASE act.type = "Submit"
    <3> DEFINE o == act.order
               r == Processed(Known(v, o), Process(v.eng, o, ts))
    <3>1. o \in OrdersOf(actions) BY <2>1, <2>5 DEF OrdersOf
    <3>2. Apart(R, {o})
      <4>1. Apart(S, {o}) BY <3>1 DEF Fresh
      <4>2. \A i \in 1 .. j : i \in DOMAIN actions /\ i # k BY <1>1, <2>1
      <4>3. \A i \in 1 .. j : actions[i].type = "Submit" => actions[i].order.id # o.id
        BY <2>1, <2>5, <4>2 DEF Fresh
      <4> HIDE DEF o, j
      <4>4. QED BY <4>1, <4>3 DEF SentBy, Apart
    <3>3. o \in Order BY <3>1
    <3>4. Execute(v, act) = r
      <4> HIDE DEF act
      <4>1. QED BY <2>5 DEF Execute
    <3> HIDE DEF o, R
    <3>5. /\ Registered(R \cup {o}) /\ r \in KeptWorlds(R \cup {o})
          /\ r.eng.cfg = v.eng.cfg
      BY <2>2, <3>2, <3>3, SubmitWorld
    <3> HIDE DEF r, act, T
    <3>6. Registered(T) /\ Execute(v, act) \in KeptWorlds(T) /\ Execute(v, act).eng.cfg = cfg
      BY <2>2, <2>3, <2>5, <3>4, <3>5 DEF o
    <3> HIDE DEF So, cfg
    <3>7. QED BY <2>1, <3>6 DEF T, act
  <2>6. CASE act.type = "Cancel"
    <3> DEFINE r == [v EXCEPT !.eng.book = Cancel(v.eng.book, act.id).book]
    <3>1. Execute(v, act) = r
      <4> HIDE DEF act
      <4>1. QED BY <2>6 DEF Execute
    <3> HIDE DEF R, act
    <3>2. r \in KeptWorlds(R) /\ r.eng.cfg = v.eng.cfg BY <2>2, CancelWorld
    <3> HIDE DEF r, T
    <3>3. Registered(T) /\ Execute(v, act) \in KeptWorlds(T) /\ Execute(v, act).eng.cfg = cfg
      BY <2>2, <2>3, <2>6, <3>1, <3>2
    <3> HIDE DEF So, cfg
    <3>4. QED BY <2>1, <3>3 DEF T, act
  <2>7. QED BY <2>4, <2>5, <2>6
<1>4. w \in X[0]
  <2> HIDE DEF So
  <2>1. QED BY <1>2
<1> DEFINE last == Executed(w, actions)
<1>5. last \in X[n]
  <2> HIDE DEF X
  <2>1. QED BY <1>1, <1>3, <1>4, ActionsExecuted
<1> HIDE DEF So, last, cfg
<1>6. last \in KeptWorlds(So(n)) /\ Registered(So(n)) /\ last.eng.cfg = cfg
  BY <1>1, <1>5
<1>7. QED BY <1>2, <1>6 DEF last, cfg

----------------------------------------------------------------------------
(* The accounts of the world *)

LedgerInv == CastInv /\ Registered(sent) /\ Books \in KeptWorlds(sent)

(* Once an order is out of range, nothing is claimed. *)
Ledgered == Ranged /\ (InRange /\ InSpan => LedgerInv)

ProperCasts == \A cast \in Casts : ProperCast(cast)

LEMMA LedgerStarts == ProperCasts /\ WorldInit => Ledgered
<1>1. SUFFICES ASSUME ProperCasts, WorldInit PROVE LedgerInv
  BY WorldStarts DEF Ledgered
<1>2. /\ eng \in {NewEngine(cfg) : cfg \in Configs} /\ agents \in Casts
      /\ accounts = EmptyMap /\ meta = EmptyMap /\ tape = <<>> /\ sent = {}
  BY <1>1 DEF WorldInit
<1>3. PICK cfg \in Configs : eng = NewEngine(cfg)
  BY <1>2
<1>4. Books \in Worlds
  <2>1. InRange BY <1>2 DEF InRange
  <2>2. WorldInv BY <1>1, <2>1, WorldStarts DEF Ranged
  <2>3. QED BY <2>2 DEF WorldInv, SoundWorlds
<1>5. CastInv
  <2>1. ProperCast(agents) BY <1>1, <1>2 DEF ProperCasts
  <2>2. ASSUME NEW i \in DOMAIN agents
        PROVE /\ agents[i].owner \in Nat \ {0} /\ agents[i].seq \in Nat \ {0}
              /\ agents[i].kind \in {"maker", "noise"} /\ Quoted(agents[i])
    <3> DEFINE a == agents[i]
    <3>1. a.owner \in Nat \ {0} /\ a \in {NewMaker(a.owner), NewNoise(a.owner)}
      BY <2>1 DEF ProperCast
    <3> HIDE DEF a
    <3>2. \/ a.kind = "maker" /\ a.seq = 1 /\ a.bid = 0 /\ a.ask = 0
          \/ a.kind = "noise" /\ a.seq = 1
      <4>1. CASE a = NewMaker(a.owner) BY <4>1 DEF NewMaker
      <4>2. CASE a = NewNoise(a.owner) BY <4>2 DEF NewNoise
      <4>3. QED BY <3>1, <4>1, <4>2
    <3>3. a.seq \in Nat \ {0} /\ a.kind \in {"maker", "noise"} /\ Quoted(a)
      BY <3>2 DEF Quoted
    <3>4. QED BY <3>1, <3>3 DEF a
  <2>3. \A i, j \in DOMAIN agents : i # j =>
          /\ agents[i].owner # agents[j].owner
          /\ ~(agents[i].kind = "noise" /\ agents[j].kind = "noise")
    BY <2>1 DEF ProperCast
  <2>4. QED BY <1>2, <2>2, <2>3 DEF CastInv
<1>6. Registered(sent)
  BY <1>2 DEF Registered, OneEach
<1>7. Placed(eng) /\ Held(eng) = {}
  <2>1. eng.book = EmptyBook /\ eng.queue = <<>> BY <1>3 DEF NewEngine
  <2>2. Range(<<>>) = {} BY EmptyRange
  <2>3. QED BY <2>1, <2>2, EmptyTidy DEF Placed, Apart, Held, Distinct
<1>8. ASSUME NEW owner \in Owners PROVE Audited(accounts, sent, owner, tape)
  <2>1. AccountOf(accounts, owner) = NewAccount BY <1>2 DEF AccountOf, EmptyMap
  <2>2. NewAccount.position = 0 /\ NewAccount.cash = 0 BY DEF NewAccount
  <2> DEFINE n == QtyOf(Costs(sent, owner, tape))
  <2>3. n = 0 /\ QtyOf(Shares(sent, owner, tape)) = 0 BY <1>2, SharesNone
  <2> HIDE DEF n
  <2>4. -n = 0
    <3>1. n \in Int BY <2>3
    <3>2. \A k \in Int : -k \in Int /\ k + (-k) = 0 OBVIOUS
    <3>3. \A k \in Int : 0 + k = k OBVIOUS
    <3>4. QED BY <2>3, <3>1, <3>2, <3>3, Zenon
  <2>5. QED BY <2>1, <2>2, <2>3, <2>4 DEF Audited, n
<1>9. Books \in KeptWorlds(sent)
  <2>1. FromKnown(Held(eng), sent) BY <1>7 DEF FromKnown
  <2>2. PrintsOK(tape, sent) /\ MetaOf(meta, sent) BY <1>2 DEF PrintsOK, MetaOf
  <2>3. QED BY <1>4, <1>7, <1>8, <2>1, <2>2, BooksIs DEF KeptWorlds
<1>10. QED BY <1>5, <1>6, <1>9 DEF LedgerInv

LEMMA LedgerActs ==
  ASSUME WorldInv, LedgerInv, InRange', InSpan', turn \in DOMAIN agents,
         NEW s, Does(agents[turn], s), Doable(s.actions), Acts(s)
  PROVE LedgerInv' /\ eng'.cfg = eng.cfg
<1> DEFINE w == Executed(Books, s.actions)
           T == sent \cup OrdersOf(s.actions)
<1>1. /\ Becomes(w) /\ sent' = T
  BY DEF Acts
<1>2. /\ InRange /\ InSpan /\ OrdersOf(s.actions) \subseteq Order
      /\ \A o \in OrdersOf(s.actions) : Spanned(o)
  BY <1>1 DEF InRange, InSpan
<1>3. ts \in Int /\ agents \in Seq(Makers \cup Noises) /\ CastInv
  BY DEF WorldInv, LedgerInv
<1>4. Fresh(s.actions, sent)
  BY <1>2, <1>3, ActsFresh
<1>5. Registered(T) /\ w \in KeptWorlds(T) /\ w.eng.cfg = eng.cfg
  BY <1>2, <1>3, <1>4, ActionsWorld, BooksIs DEF LedgerInv
<1>6. CastInv'
  BY <1>2, <1>3, CastActs
<1> HIDE DEF w, T
<1>7. Books' = w
  <2>1. w \in Worlds BY <1>5 DEF KeptWorlds
  <2>2. QED BY <1>1, <2>1, BecomesBooks
<1>8. Registered(sent') /\ Books' \in KeptWorlds(sent')
  BY <1>1, <1>5, <1>7
<1>9. Registered(sent)' = Registered(sent') /\ KeptWorlds(sent)' = KeptWorlds(sent')
  BY DEF Registered, KeptWorlds
<1>10. eng'.cfg = eng.cfg
  BY <1>1, <1>5 DEF Becomes
<1>11. QED BY <1>6, <1>8, <1>9, <1>10 DEF LedgerInv

LEMMA LedgerStep ==
  ASSUME Ledgered, [WorldNext]_wvars, InRange', InSpan'
  PROVE LedgerInv' /\ eng'.cfg = eng.cfg
<1>1. Ledgered /\ [WorldNext]_wvars /\ InRange' /\ InSpan'
  OBVIOUS
<1>2. sent \subseteq sent'
  BY <1>1 DEF WorldNext, BeginStep, MakerTurn, NoiseTurn, Acts, EndStep, Returned, wvars
<1>3. InRange /\ InSpan /\ WorldInv /\ LedgerInv
  BY <1>1, <1>2 DEF Ledgered, Ranged, InRange, InSpan
<1>4. agents \in Seq(Makers \cup Noises) /\ DOMAIN agents = 1 .. Len(agents) /\ ts \in Nat
  BY <1>3, LenProperties DEF WorldInv
<1>5. \A i \in DOMAIN agents : agents[i] \in Makers \cup Noises
  BY <1>4, ElementOfSeq
<1>6. \A i \in DOMAIN agents : /\ agents[i].owner \in Nat /\ agents[i].seq \in Nat \ {0}
                               /\ Quoted(agents[i])
  BY <1>3 DEF LedgerInv, CastInv
<1>7. ASSUME NEW s, Acts(s) PROVE OrdersOf(s.actions) \subseteq Order
  BY <1>1, <1>7 DEF Acts, InRange
<1>8. Registered(sent)' = Registered(sent') /\ KeptWorlds(sent)' = KeptWorlds(sent')
  BY DEF Registered, KeptWorlds
<1>9. CASE BeginStep
  <2> DEFINE f == Flush(eng, ts)
             w == Booked(Books, f.eng, f.trades)
  <2>1. Becomes(w) /\ sent' = sent /\ agents' = agents
    BY <1>9 DEF BeginStep, Began
  <2>2. w \in KeptWorlds(sent) /\ w.eng.cfg = eng.cfg
    <3>1. ts \in Int /\ Registered(sent) /\ Books \in KeptWorlds(sent) BY <1>3, <1>4 DEF LedgerInv
    <3>2. QED BY <3>1, FlushWorld, BooksIs
  <2> HIDE DEF w
  <2>3. Books' = w
    <3>1. w \in Worlds BY <2>2 DEF KeptWorlds
    <3>2. QED BY <2>1, <3>1, BecomesBooks
  <2>4. CastInv' BY <1>3, <2>1 DEF LedgerInv, CastInv
  <2>5. Registered(sent') /\ Books' \in KeptWorlds(sent') BY <1>3, <2>1, <2>2, <2>3 DEF LedgerInv
  <2>6. eng'.cfg = eng.cfg BY <2>1, <2>2 DEF Becomes
  <2>7. QED BY <1>8, <2>4, <2>5, <2>6 DEF LedgerInv
<1>10. CASE MakerTurn
  <2> DEFINE mm == agents[turn]
             position == AccountOf(accounts, agents[turn].owner).position
             s == MakerStep(mm, eng.cfg, ts, view, position)
  <2>1. turn \in DOMAIN agents /\ mm.kind = "maker" /\ Acts(s)
    BY <1>10 DEF MakerTurn, Turn
  <2>2. mm \in Makers /\ mm.owner \in Nat /\ mm.seq \in Nat \ {0} /\ Quoted(mm)
    BY <1>5, <1>6, <2>1 DEF Makers, Noises
  <2>3. OrdersOf(s.actions) \subseteq Order
    BY <1>7, <2>1
  <2> HIDE DEF mm, position
  <2>4. Doable(s.actions)
    BY <1>3, <1>4, <2>2, <2>3, MakerDoes, WorldConfig
  <2>5. Does(mm, s)
    BY <1>3, <2>2, MakerAgent, WorldConfig
  <2> HIDE DEF s
  <2>6. QED BY <1>1, <1>3, <2>1, <2>4, <2>5, LedgerActs DEF mm
<1>11. CASE NoiseTurn
  <2>1. PICK s \in NoiseSteps(agents[turn], view) : Acts(s)
    BY <1>11 DEF NoiseTurn
  <2>2. turn \in DOMAIN agents /\ agents[turn].kind = "noise"
    BY <1>11 DEF NoiseTurn, Turn
  <2>3. agents[turn] \in Noises /\ agents[turn].seq \in Nat \ {0}
    BY <1>5, <1>6, <2>2 DEF Makers, Noises
  <2>4. Doable(s.actions) /\ Does(agents[turn], s)
    BY <2>1, <2>3, NoiseDoes, NoiseAgent
  <2>5. QED BY <1>1, <1>3, <2>1, <2>2, <2>4, LedgerActs
<1>12. CASE EndStep \/ Returned \/ UNCHANGED wvars
  <2>1. UNCHANGED <<eng, agents, accounts, meta, tape, sent>>
    BY <1>12 DEF EndStep, Returned, wvars
  <2>2. Books' = Books BY <2>1 DEF Books
  <2>3. CastInv' BY <1>3, <2>1 DEF LedgerInv, CastInv
  <2>4. QED BY <1>3, <1>8, <2>1, <2>2, <2>3 DEF LedgerInv
<1>13. QED BY <1>1, <1>9, <1>10, <1>11, <1>12 DEF WorldNext

LEMMA LedgerGoesOn == Ledgered /\ [WorldNext]_wvars => Ledgered'
BY LedgerStep, WorldGoesOn DEF Ledgered

LEMMA LedgerAlways == ProperCasts => (WorldSpec => []Ledgered)
<1>1. ProperCasts /\ WorldInit => Ledgered
  BY LedgerStarts
<1>2. ProperCasts => []ProperCasts
  <2>1. ProperCasts => ProperCasts' BY DEF ProperCasts
  <2>2. QED BY <2>1, PTL
<1>3. QED BY <1>1, <1>2, LedgerGoesOn, PTL DEF WorldSpec

(* An audit of the tape against the orders that were sent gives every agent's cash
   and position, for every cast whose order ids differ and as long as they fit the
   span an agent has. *)
THEOREM WorldLedger == ProperCasts => (WorldSpec => [](InRange /\ InSpan => LedgerExact))
<1>1. Ledgered /\ InRange /\ InSpan => LedgerExact
  <2>1. SUFFICES ASSUME WorldInv, LedgerInv PROVE LedgerExact
    BY DEF Ledgered, Ranged
  <2>2. agents \in Seq(Makers \cup Noises)
    BY <2>1 DEF WorldInv
  <2>3. \A i \in DOMAIN agents : agents[i].owner \in Owners
    <3>1. DOMAIN agents = 1 .. Len(agents) BY <2>2, LenProperties
    <3>2. \A i \in DOMAIN agents : agents[i] \in Makers \cup Noises
      BY <2>2, <3>1, ElementOfSeq
    <3>3. QED BY <3>2 DEF Makers, Noises
  <2>4. \A owner \in Owners : Audited(accounts, sent, owner, tape)
    BY <2>1, KeptParts, BooksIs DEF LedgerInv
  <2>5. ASSUME NEW owner \in Owners
        PROVE LET account == AccountOf(accounts, owner)
              IN  /\ account.position = QtyOf(Shares(sent, owner, tape))
                  /\ account.cash = -QtyOf(Costs(sent, owner, tape))
    BY <2>4 DEF Audited
  <2>6. QED BY <2>3, <2>5 DEF LedgerExact, Shares, Costs
<1>2. QED BY <1>1, LedgerAlways, PTL

----------------------------------------------------------------------------
(* Calm markets.  An engine that trades continuously, with neither bands nor a
   breaker to end that, has no queue: what it holds rests, and can be cancelled. *)

Calm(e) ==
  /\ e.phase = "Continuous" /\ e.queue = <<>>
  /\ ~e.cfg.bands /\ ~e.cfg.breaker

LEMMA CalmHolds ==
  ASSUME NEW e, Calm(e)
  PROVE Held(e) = Resting(e.book)
<1>1. e.queue = <<>>
  BY DEF Calm
<1>2. Range(e.queue) = {}
  BY <1>1, EmptyRange
<1>3. QED BY <1>2 DEF Held

LEMMA CalmFlush ==
  ASSUME NEW e, Calm(e), NEW t
  PROVE Flush(e, t) = [eng |-> e, trades |-> <<>>]
BY DEF Calm, Flush, ExpireTradingAtLast, ExpireHalt, ExpireAuction, AuctionDue

LEMMA SettledCalm ==
  ASSUME NEW flushed, NEW r, GoodEngine(r.eng), Calm(r.eng)
  PROVE Calm(Settled(flushed, r).eng)
<1> DEFINE e == r.eng
           trades == flushed \o r.trades
           told == OnTrades(e, trades)
<1>1. Settled(flushed, r).eng = MaybeTriggerCircuitBreaker(told, trades)
  BY DEF Settled, Result
<1> HIDE DEF e, trades
<1>2. told.phase = e.phase /\ told.queue = e.queue /\ told.cfg = e.cfg
  BY DEF OnTrades, GoodEngine, IsEngine, e
<1> HIDE DEF told
<1>3. MaybeTriggerCircuitBreaker(told, trades) = told
  BY <1>2 DEF MaybeTriggerCircuitBreaker, Calm, e
<1>4. QED BY <1>1, <1>2, <1>3 DEF Calm, e

LEMMA CalmProcess ==
  ASSUME NEW e, GoodEngine(e), Calm(e), NEW o \in Order, NEW t \in Int
  PROVE Calm(Process(e, o, t).eng)
<1> DEFINE nothing == [eng |-> e, trades |-> <<>>, resting |-> None]
           market == ProcessMarket(e, o, t)
           limit == ProcessLimit(e, o, t)
           r == Process(e, o, t)
<1>1. /\ Calm(nothing.eng) /\ GoodEngine(nothing.eng)
      /\ Calm(market.eng) /\ GoodEngine(market.eng)
      /\ Calm(limit.eng) /\ GoodEngine(limit.eng)
  <2>1. \A m, left : LET a == RestLeft(e, m, left).eng
                         b == Unrested(e, m).eng
                     IN  /\ a.phase = e.phase /\ a.queue = e.queue /\ a.cfg = e.cfg
                         /\ b.phase = e.phase /\ b.queue = e.queue /\ b.cfg = e.cfg
    BY DEF RestLeft, Unrested, AfterMatch, GoodEngine, IsEngine
  <2>2. /\ market.eng.phase = e.phase /\ market.eng.queue = e.queue /\ market.eng.cfg = e.cfg
        /\ limit.eng.phase = e.phase /\ limit.eng.queue = e.queue /\ limit.eng.cfg = e.cfg
    BY <2>1 DEF ProcessMarket, ProcessLimit
  <2>3. GoodEngine(market.eng) /\ GoodEngine(limit.eng)
    BY ProcessMarketGood, ProcessLimitGood DEF GoodOutcome
  <2>4. nothing.eng = e
    OBVIOUS
  <2> HIDE DEF market, limit, nothing
  <2>5. QED BY <2>2, <2>3, <2>4 DEF Calm
<1>2. ~ShouldTriggerVolatilityAuction(e, o)
  BY DEF ShouldTriggerVolatilityAuction, BreachesBand, Calm
<1>3. ProcessContinuous(e, <<>>, o, t) \in
        {Settled(<<>>, nothing), Settled(<<>>, market), Settled(<<>>, limit)}
  BY <1>2 DEF ProcessContinuous
<1> HIDE DEF nothing, market, limit
<1>4. r.eng = e \/ r = ProcessContinuous(e, <<>>, o, t)
  <2> DEFINE f == [eng |-> e, trades |-> <<>>]
  <2>1. r = ProcessFlushed(f, o, t) BY CalmFlush DEF Process
  <2>2. f.eng = e /\ f.trades = <<>> OBVIOUS
  <2> HIDE DEF f, r
  <2>3. \A s : Result(e, <<>>, None, s).eng = e BY DEF Result
  <2>4. e.phase = "Continuous" BY DEF Calm
  <2>5. QED BY <2>1, <2>2, <2>3, <2>4 DEF ProcessFlushed
<1> HIDE DEF r
<1>5. \A x \in {nothing, market, limit} : Calm(Settled(<<>>, x).eng)
  BY <1>1, SettledCalm
<1>6. Calm(r.eng)
  BY <1>3, <1>4, <1>5
<1>7. QED BY <1>6 DEF r

(* t is a trade between order y and order o, within the limits of both. *)
Between(t, y, o) ==
  /\ {t.maker, t.taker} = {y.id, o.id} /\ y.side # o.side
  /\ Allows(y.side, y.price, t.price)
  /\ o.type = "Limit" => Allows(o.side, o.price, t.price)

(* The new order o trades with orders that rest, which never trade with each
   other, and nothing else comes to rest. *)
LEMMA CalmCall ==
  ASSUME NEW e, GoodEngine(e), Placed(e), Calm(e), \A x \in Held(e) : x.qty \in Nat,
         NEW o \in Order, Apart(Held(e), {o}), NEW t \in Int
  PROVE LET r == Process(e, o, t)
        IN  /\ \A x \in Held(r.eng) :
                 \E y \in Held(e) \cup {o} : y.id = x.id /\ y.owner = x.owner
            /\ \A k \in 1 .. Len(r.trades) : \E y \in Held(e) : Between(r.trades[k], y, o)
<1> DEFINE V == IF o.qty > 0 THEN {o} ELSE {}
           H == Held(e)
           K == H \cup V
           c == Terms(K, K)
           r == Process(e, o, t)
           f == r.eng
           new == r.trades
<1>1. V \subseteq Order /\ V \subseteq {o} /\ OneEach(V) /\ \A x \in V : x.qty \in Nat
  BY DEF OneEach, Order
<1> HIDE DEF V
<1>2. H \subseteq Order /\ OneEach(H) /\ Apart(H, V)
  BY <1>1, HeldOnce DEF Apart
<1>3. OneEach(K) /\ K \subseteq Order
  BY <1>1, <1>2 DEF OneEach, Apart
<1>4. FromKnown(K, K)
  <2>1. \A x \in K : x.qty \in Nat BY <1>1
  <2> HIDE DEF K
  <2>2. QED BY <1>3, <2>1 DEF FromKnown, Stems, OneEach
<1>5. IsTerms(c) /\ Kept(e, V, <<>>, c) /\ c.known = K
  <2>1. c.known = K BY DEF Terms
  <2>2. FromKnown(Held(e) \cup V, K) /\ K \subseteq Order /\ Apart(Held(e), V)
    BY <1>2, <1>3, <1>4
  <2> HIDE DEF K
  <2>3. IsTerms(Terms(K, Held(e) \cup V)) /\ Kept(e, V, <<>>, Terms(K, Held(e) \cup V))
    BY <1>1, <2>2, CallBegins
  <2>4. QED BY <2>1, <2>3 DEF K
<1> HIDE DEF c
<1>6. Kept(f, {}, new, c)
  BY <1>5, ProcessKept DEF V
<1> HIDE DEF f, new
<1>7. FromKnown(Held(f), K) /\ PrintsOK(new, K) /\ new \in Seq(Trade)
  BY <1>5, <1>6, CallEnded
<1>8. ASSUME NEW x \in Held(f) PROVE \E y \in H \cup {o} : y.id = x.id /\ y.owner = x.owner
  <2>1. Stems(x, K) BY <1>7 DEF FromKnown
  <2>2. QED BY <1>1, <2>1 DEF Stems
<1>9. \A x \in H : x.type = "Limit" /\ x.price \in Int /\ x.side \in Sides
  <2>1. H = Resting(e.book) BY CalmHolds
  <2>2. Tidy(e.book) BY DEF Placed
  <2> HIDE DEF H
  <2>3. ASSUME NEW x \in H PROVE x \in Order /\ x.type = "Limit"
    BY <2>1, <2>2, RestingIs
  <2>4. QED BY <2>3, MarketAssumption DEF Order
<1>10. \A x, y \in H : x.side = "Buy" /\ y.side = "Sell" => x.price < y.price
  <2>1. H = Resting(e.book) BY CalmHolds
  <2>2. Tidy(e.book) /\ Uncrossed(e.book) BY DEF Placed, Tidy, GoodBook
  <2>3. \A x \in H : x.price \in DOMAIN e.book.levels[x.side] BY <2>1, <2>2, RestingIs
  <2>4. QED BY <2>2, <2>3 DEF Uncrossed
<1> HIDE DEF H, K
<1>11. ASSUME NEW k \in 1 .. Len(new) PROVE \E y \in H : Between(new[k], y, o)
  <2> DEFINE p == new[k]
  <2>1. TradeOK(p, K) BY <1>7 DEF PrintsOK
  <2>2. p.price \in Int
    <3>1. p \in Trade BY <1>7, ElementOfSeq
    <3>2. QED BY <3>1, MarketAssumption DEF Trade
  <2> HIDE DEF p
  <2>3. PICK buy, sell \in K : /\ buy.side = "Buy" /\ sell.side = "Sell"
                               /\ {p.maker, p.taker} = {buy.id, sell.id}
    BY <2>1 DEF TradeOK
  <2>4. /\ buy.type = "Limit" => p.price <= buy.price
        /\ sell.type = "Limit" => p.price >= sell.price
    BY <2>1, <2>3 DEF TradeOK, Allows
  <2>5. \A x \in K : x \in H \/ x = o
    BY <1>1 DEF K
  <2>6. CASE buy \in H /\ sell \in H
    <3>1. p.price <= buy.price /\ p.price >= sell.price /\ buy.price < sell.price
      BY <1>9, <1>10, <2>3, <2>4, <2>6
    <3>2. buy.price \in Int /\ sell.price \in Int BY <1>9, <2>6
    <3>3. QED BY <2>2, <3>1, <3>2
  <2>7. CASE buy = o /\ sell \in H
    <3>1. Between(p, sell, o) BY <1>9, <2>3, <2>4, <2>7 DEF Between, Allows
    <3>2. QED BY <2>7, <3>1 DEF p
  <2>8. CASE sell = o /\ buy \in H
    <3>1. Between(p, buy, o) BY <1>9, <2>3, <2>4, <2>8 DEF Between, Allows
    <3>2. QED BY <2>8, <3>1 DEF p
  <2>9. buy # sell
    BY <2>3
  <2>10. QED BY <2>5, <2>6, <2>7, <2>8, <2>9
<1>12. QED BY <1>8, <1>11 DEF H, f, new

(* Trade t is not between two orders of the owner. *)
Foreign(t, S, owner) ==
  \E id \in {t.maker, t.taker} : \A o \in S : o.id = id => o.owner # owner

(* The market is calm; of the owners in M nothing but the quotes Q rests, and none
   of them has traded with itself. *)
CalmWorlds(S, M, Q) ==
  {w \in KeptWorlds(S) :
     /\ Calm(w.eng)
     /\ \A x \in Held(w.eng) : x.owner \in M => <<x.owner, x.id>> \in Q
     /\ \A k \in 1 .. Len(w.tape) : \A owner \in M : Foreign(w.tape[k], S, owner)}

(* When o is sent, all that its owner may have left is a bid below it. *)
Lone(S, M, Q, o) ==
  o.owner \in M => \A id : <<o.owner, id>> \in Q =>
    /\ o.side = "Sell" /\ o.type = "Limit"
    /\ \E s \in S : s.id = id /\ s.side = "Buy" /\ s.type = "Limit" /\ s.price < o.price

LEMMA CalmParts ==
  ASSUME NEW S, NEW M, NEW Q, NEW w \in CalmWorlds(S, M, Q)
  PROVE /\ w \in KeptWorlds(S) /\ Calm(w.eng)
        /\ \A x \in Held(w.eng) : x.owner \in M => <<x.owner, x.id>> \in Q
        /\ \A k \in 1 .. Len(w.tape) : \A owner \in M : Foreign(w.tape[k], S, owner)
BY DEF CalmWorlds

LEMMA CalmMore ==
  ASSUME NEW S, NEW M, NEW Q, NEW R, \A q \in Q : q[1] \in M => q \in R,
         NEW w \in CalmWorlds(S, M, Q)
  PROVE w \in CalmWorlds(S, M, R)
<1>1. \A o, id : <<o, id>>[1] = o
  OBVIOUS
<1>2. \A x \in Held(w.eng) : x.owner \in M => <<x.owner, x.id>> \in R
  BY <1>1, CalmParts
<1>3. QED BY <1>2 DEF CalmWorlds

(* The new order o has traded with order y, which was sent before. *)
LEMMA TradesForeign ==
  ASSUME NEW S, NEW o \in Order, Registered(S \cup {o}), Apart(S, {o}),
         NEW y, Stems(y, S), NEW t, Between(t, y, o), t.price \in Int,
         NEW M, NEW Q, Lone(S, M, Q, o), y.owner \in M => <<y.owner, y.id>> \in Q,
         NEW owner \in M
  PROVE Foreign(t, S \cup {o}, owner)
<1>1. \E s \in S : s.id = y.id
  BY DEF Stems
<1>2. y.id # o.id
  BY <1>1 DEF Apart
<1>3. o.id \in {t.maker, t.taker} /\ y.id \in {t.maker, t.taker}
  BY DEF Between
<1>4. \A x \in S \cup {o} : x.id = o.id => x = o
  BY DEF Apart
<1>5. \A x \in S \cup {o} : x.id = y.id => x.owner = y.owner
  BY <1>2 DEF Stems
<1>6. CASE o.owner # owner
  BY <1>3, <1>4, <1>6 DEF Foreign
<1>7. CASE y.owner # owner
  BY <1>3, <1>5, <1>7 DEF Foreign
<1>8. CASE o.owner = owner /\ y.owner = owner
  <2>1. <<o.owner, y.id>> \in Q
    BY <1>8
  <2>2. PICK s \in S : /\ o.side = "Sell" /\ o.type = "Limit"
                       /\ s.id = y.id /\ s.side = "Buy" /\ s.type = "Limit" /\ s.price < o.price
    BY <1>8, <2>1 DEF Lone
  <2>3. y.side = "Buy" /\ y.price = s.price
    BY <2>2 DEF Stems
  <2>4. t.price <= s.price /\ t.price >= o.price
    BY <2>2, <2>3 DEF Between, Allows
  <2>5. s.price \in Int /\ o.price \in Int
    BY MarketAssumption DEF Registered, Order
  <2>6. FALSE
    BY <2>2, <2>4, <2>5
  <2>7. QED BY <2>6
<1>9. QED BY <1>6, <1>7, <1>8

(* process() in a calm market *)
LEMMA CalmSubmit ==
  ASSUME NEW S, Registered(S), NEW M, NEW Q, NEW w \in CalmWorlds(S, M, Q),
         NEW o \in Order, Apart(S, {o}), Lone(S, M, Q, o), NEW t \in Int
  PROVE LET v == Processed(Known(w, o), Process(w.eng, o, t))
        IN  v \in CalmWorlds(S \cup {o}, M, Q \cup {<<o.owner, o.id>>})
<1> DEFINE v == Processed(Known(w, o), Process(w.eng, o, t))
           r == Process(w.eng, o, t)
           e == w.eng
           new == r.trades
           old == w.tape
           T == S \cup {o}
           R == Q \cup {<<o.owner, o.id>>}
<1>1. /\ w \in KeptWorlds(S) /\ Calm(e) /\ GoodEngine(e) /\ Placed(e)
      /\ FromKnown(Held(e), S) /\ old \in Seq(Trade) /\ PrintsOK(old, S)
      /\ \A x \in Held(e) : x.owner \in M => <<x.owner, x.id>> \in Q
      /\ \A k \in 1 .. Len(old) : \A owner \in M : Foreign(old[k], S, owner)
  BY CalmParts, KeptParts
<1>2. /\ Registered(T) /\ v \in KeptWorlds(T) /\ v.eng = r.eng /\ v.tape = old \o new
  BY <1>1, SubmitWorld
<1>3. \A x \in Held(e) : x.qty \in Nat /\ Stems(x, S)
  BY <1>1 DEF FromKnown
<1>4. Apart(Held(e), {o})
  BY <1>3, NewIsNew DEF Apart
<1> HIDE DEF v, e, old
<1>5. Calm(r.eng) /\ new \in Seq(Trade)
  BY <1>1, CalmProcess, ProcessGood DEF GoodResult, GoodOutcome, e
<1>6. /\ \A x \in Held(r.eng) : \E y \in Held(e) \cup {o} : y.id = x.id /\ y.owner = x.owner
      /\ \A k \in 1 .. Len(new) : \E y \in Held(e) : Between(new[k], y, o)
  BY <1>1, <1>3, <1>4, CalmCall DEF e
<1> HIDE DEF r, new
<1>7. \A x \in Held(v.eng) : x.owner \in M => <<x.owner, x.id>> \in R
  BY <1>1, <1>2, <1>6
<1>8. ASSUME NEW p, NEW owner \in M, TradeOK(p, S), Foreign(p, S, owner)
      PROVE Foreign(p, T, owner)
  <2>1. o.id \notin {p.maker, p.taker} BY <1>8, NewIsNew
  <2>2. QED BY <1>8, <2>1 DEF Foreign
<1>9. ASSUME NEW k \in 1 .. Len(new), NEW owner \in M PROVE Foreign(new[k], T, owner)
  <2> DEFINE p == new[k]
  <2>1. PICK y \in Held(e) : Between(p, y, o) BY <1>6
  <2>2. p.price \in Int
    <3>1. p \in Trade BY <1>5, ElementOfSeq
    <3>2. QED BY <3>1, MarketAssumption DEF Trade
  <2>3. Stems(y, S) /\ (y.owner \in M => <<y.owner, y.id>> \in Q) BY <1>1, <1>3, <2>1
  <2> HIDE DEF p, T
  <2>4. Foreign(p, S \cup {o}, owner)
    BY <1>2, <2>1, <2>2, <2>3, TradesForeign DEF T
  <2>5. QED BY <2>4 DEF p, T
<1>10. ASSUME NEW k \in 1 .. Len(v.tape), NEW owner \in M PROVE Foreign(v.tape[k], T, owner)
  <2>1. /\ Len(old \o new) = Len(old) + Len(new) /\ Len(old) \in Nat /\ Len(new) \in Nat
        /\ \A j \in 1 .. Len(old) + Len(new) :
             (old \o new)[j] = IF j <= Len(old) THEN old[j] ELSE new[j - Len(old)]
    BY <1>1, <1>5, ConcatProperties, LenProperties
  <2>2. k \in 1 .. Len(old) + Len(new)
    BY <1>2, <2>1
  <2>3. CASE k <= Len(old)
    <3>1. v.tape[k] = old[k] /\ k \in 1 .. Len(old) BY <1>2, <2>1, <2>2, <2>3
    <3>2. TradeOK(old[k], S) /\ Foreign(old[k], S, owner) BY <1>1, <3>1 DEF PrintsOK
    <3>3. QED BY <1>8, <3>1, <3>2
  <2>4. CASE ~(k <= Len(old))
    <3>1. v.tape[k] = new[k - Len(old)] /\ k - Len(old) \in 1 .. Len(new)
      BY <1>2, <2>1, <2>2, <2>4
    <3>2. QED BY <1>9, <3>1
  <2>5. QED BY <2>3, <2>4
<1>11. v \in CalmWorlds(T, M, R)
  BY <1>2, <1>5, <1>7, <1>10 DEF CalmWorlds
<1>12. QED BY <1>11 DEF v, e

(* flush in a calm market does nothing. *)
LEMMA CalmFlushed ==
  ASSUME NEW S, Registered(S), NEW M, NEW Q, NEW w \in CalmWorlds(S, M, Q), NEW t \in Int
  PROVE Booked(w, Flush(w.eng, t).eng, Flush(w.eng, t).trades) \in CalmWorlds(S, M, Q)
<1> DEFINE v == Booked(w, w.eng, <<>>)
<1>1. /\ w \in KeptWorlds(S) /\ Calm(w.eng) /\ w \in Worlds /\ GoodEngine(w.eng)
      /\ w.tape \in Seq(Trade)
  BY CalmParts, KeptParts
<1>2. Flush(w.eng, t) = [eng |-> w.eng, trades |-> <<>>]
  BY <1>1, CalmFlush
<1>3. v \in KeptWorlds(S)
  <2>1. Booked(w, Flush(w.eng, t).eng, Flush(w.eng, t).trades) \in KeptWorlds(S)
    BY <1>1, FlushWorld
  <2>2. QED BY <1>2, <2>1
<1>4. v.eng = w.eng /\ v.tape = w.tape
  <2>1. w.eng \in Engines /\ <<>> \in Seq(Trade) BY <1>1, EngineSet
  <2>2. v.eng = w.eng /\ v.tape = w.tape \o <<>> BY <1>1, <2>1, BookedType
  <2>3. QED BY <1>1, <2>2
<1> HIDE DEF v
<1>5. v \in CalmWorlds(S, M, Q)
  BY <1>3, <1>4, CalmParts DEF CalmWorlds
<1>6. QED BY <1>2, <1>5 DEF v

(* cancel: the order is gone. *)
LEMMA CalmCancel ==
  ASSUME NEW S, Registered(S), NEW M, NEW Q, NEW w \in CalmWorlds(S, M, Q), NEW id,
         NEW R, \A q \in Q : q[2] # id => q \in R,
         NEW v, v = [w EXCEPT !.eng.book = Cancel(w.eng.book, id).book]
  PROVE v \in CalmWorlds(S, M, R)
<1> DEFINE e == w.eng
           b == Cancel(e.book, id).book
           f == [e EXCEPT !.book = b]
<1>1. /\ w \in KeptWorlds(S) /\ Calm(e) /\ GoodEngine(e) /\ Placed(e)
  BY CalmParts, KeptParts
<1>2. v \in KeptWorlds(S) /\ v.eng = f /\ v.tape = w.tape
  <2>1. w \in KeptWorlds(S) BY <1>1
  <2>2. v \in KeptWorlds(S) BY <2>1, CancelWorld
  <2>3. v.eng = f BY <2>1, CancelWorld
  <2>4. v.tape = w.tape BY <2>1, CancelWorld
  <2>5. QED BY <2>2, <2>3, <2>4
<1>3. Resting(b) = {o \in Resting(e.book) : o.id # id}
  BY <1>1, CancelTidy DEF Placed
<1> HIDE DEF b
<1>4. f.book = b /\ Calm(f)
  <2> HIDE DEF e
  <2>1. /\ f.book = b /\ f.phase = e.phase /\ f.queue = e.queue /\ f.cfg = e.cfg
    BY <1>1 DEF GoodEngine, IsEngine
  <2> HIDE DEF f
  <2>2. QED BY <1>1, <2>1 DEF Calm
<1> HIDE DEF f
<1>5. Held(f) = Resting(b) /\ Held(e) = Resting(e.book)
  BY <1>1, <1>4, CalmHolds
<1>6. \A x \in Held(f) : x.owner \in M => <<x.owner, x.id>> \in R
  <2>1. \A x \in Held(e) : x.owner \in M => <<x.owner, x.id>> \in Q BY CalmParts
  <2>2. \A o, i : <<o, i>>[2] = i OBVIOUS
  <2> HIDE DEF e
  <2>3. QED BY <1>3, <1>5, <2>1, <2>2
<1>7. QED BY <1>2, <1>4, <1>6, CalmParts DEF CalmWorlds

(* The quotes of Q that are left when the first k actions have been executed, and
   those that these have sent. *)
QuotedBy(Q, actions, k) ==
  {q \in Q : \A j \in 1 .. k : actions[j].type = "Cancel" => actions[j].id # q[2]} \cup
  {<<actions[j].order.owner, actions[j].order.id>> :
     j \in {i \in 1 .. k : actions[i].type = "Submit"}}

LEMMA QuotedNext ==
  ASSUME NEW Q, NEW actions, NEW k \in Nat \ {0}
  PROVE LET act == actions[k]
            before == QuotedBy(Q, actions, k - 1)
        IN  /\ act.type = "Submit" =>
                 before \cup {<<act.order.owner, act.order.id>>} \subseteq QuotedBy(Q, actions, k)
            /\ act.type = "Cancel" =>
                 {q \in before : q[2] # act.id} \subseteq QuotedBy(Q, actions, k)
<1> DEFINE j == k - 1
           act == actions[k]
           Still(m) == {q \in Q : \A i \in 1 .. m : actions[i].type = "Cancel" => actions[i].id # q[2]}
           Since(m) == {<<actions[i].order.owner, actions[i].order.id>> :
                        i \in {h \in 1 .. m : actions[h].type = "Submit"}}
<1>1. 1 .. k = (1 .. j) \cup {k}
  OBVIOUS
<1>2. QuotedBy(Q, actions, k) = Still(k) \cup Since(k) /\ QuotedBy(Q, actions, j) = Still(j) \cup Since(j)
  BY DEF QuotedBy
<1> HIDE DEF j
<1>3. Since(j) \subseteq Since(k)
  BY <1>1
<1>4. act.type = "Submit" =>
        <<act.order.owner, act.order.id>> \in Since(k) /\ Still(j) \subseteq Still(k)
  BY <1>1
<1>5. act.type = "Cancel" => {q \in Still(j) : q[2] # act.id} \subseteq Still(k)
  BY <1>1
<1> HIDE DEF Still, Since, act
<1>6. act.type = "Submit" =>
        Still(j) \cup Since(j) \cup {<<act.order.owner, act.order.id>>} \subseteq Still(k) \cup Since(k)
  BY <1>3, <1>4
<1>7. act.type = "Cancel" =>
        {q \in Still(j) \cup Since(j) : q[2] # act.id} \subseteq Still(k) \cup Since(k)
  BY <1>3, <1>5
<1>8. QED BY <1>2, <1>6, <1>7 DEF act, j

LEMMA CalmActions ==
  ASSUME NEW actions, Doable(actions), OrdersOf(actions) \subseteq Order,
         NEW S, Registered(S), Fresh(actions, S), NEW M, NEW Q, NEW w \in CalmWorlds(S, M, Q),
         ts \in Int,
         \A k \in 1 .. Len(actions) : actions[k].type = "Submit" =>
           Lone(SentBy(S, actions, k - 1), M, QuotedBy(Q, actions, k - 1), actions[k].order)
  PROVE Executed(w, actions)
          \in CalmWorlds(S \cup OrdersOf(actions), M, QuotedBy(Q, actions, Len(actions)))
<1> DEFINE n == Len(actions)
           So(k) == SentBy(S, actions, k)
           Qo(k) == QuotedBy(Q, actions, k)
           X == [k \in Nat |-> {v \in CalmWorlds(So(k), M, Qo(k)) : Registered(So(k))}]
<1>1. n \in Nat /\ DOMAIN actions = 1 .. n
  BY DEF Doable
<1>2. So(0) = S /\ So(n) = S \cup OrdersOf(actions) /\ Qo(0) = Q
  BY <1>1 DEF SentBy, QuotedBy, OrdersOf
<1>3. ASSUME NEW k \in 1 .. n, NEW v \in X[k - 1]
      PROVE Execute(v, actions[k]) \in X[k]
  <2> DEFINE act == actions[k]
             j == k - 1
             R == So(j)
             T == So(k)
             P == Qo(j)
             N == Qo(k)
  <2>1. j \in Nat /\ k \in Nat \ {0} /\ k \in DOMAIN actions
    BY <1>1
  <2>2. v \in CalmWorlds(R, M, P) /\ Registered(R)
    <3> HIDE DEF So, Qo
    <3>1. QED BY <2>1
  <2>3. T = IF act.type = "Submit" THEN R \cup {act.order} ELSE R
    <3>1. 1 .. k = (1 .. j) \cup {k} BY <2>1
    <3> HIDE DEF j
    <3>2. QED BY <3>1 DEF SentBy
  <2>4. act.type \in {"Submit", "Cancel"}
    BY <2>1 DEF Doable
  <2>5. /\ act.type = "Submit" => P \cup {<<act.order.owner, act.order.id>>} \subseteq N
        /\ act.type = "Cancel" => {q \in P : q[2] # act.id} \subseteq N
    BY <2>1, QuotedNext
  <2>6. CASE act.type = "Submit"
    <3> DEFINE o == act.order
               r == Processed(Known(v, o), Process(v.eng, o, ts))
    <3>1. o \in OrdersOf(actions) BY <2>1, <2>6 DEF OrdersOf
    <3>2. Apart(R, {o})
      <4>1. Apart(S, {o}) BY <3>1 DEF Fresh
      <4>2. \A i \in 1 .. j : i \in DOMAIN actions /\ i # k BY <1>1, <2>1
      <4>3. \A i \in 1 .. j : actions[i].type = "Submit" => actions[i].order.id # o.id
        BY <2>1, <2>6, <4>2 DEF Fresh
      <4> HIDE DEF o, j
      <4>4. QED BY <4>1, <4>3 DEF SentBy, Apart
    <3>3. o \in Order BY <3>1
    <3>4. Execute(v, act) = r
      <4> HIDE DEF act
      <4>1. QED BY <2>6 DEF Execute
    <3>5. Lone(R, M, P, o) BY <2>6
    <3> HIDE DEF o, R, P, N
    <3>6. Registered(R \cup {o})
      <4>1. v \in KeptWorlds(R) BY <2>2, CalmParts
      <4>2. QED BY <2>2, <3>2, <3>3, <4>1, SubmitWorld
    <3>7. r \in CalmWorlds(R \cup {o}, M, P \cup {<<o.owner, o.id>>})
      BY <2>2, <3>2, <3>3, <3>5, CalmSubmit
    <3> HIDE DEF r
    <3>8. r \in CalmWorlds(R \cup {o}, M, N)
      <4>1. P \cup {<<o.owner, o.id>>} \subseteq N BY <2>5, <2>6 DEF o
      <4>2. QED BY <3>7, <4>1, CalmMore
    <3> HIDE DEF act, T
    <3>9. Registered(T) /\ Execute(v, act) \in CalmWorlds(T, M, N)
      BY <2>3, <2>6, <3>4, <3>6, <3>8 DEF o
    <3> HIDE DEF So, Qo
    <3>10. QED BY <2>1, <3>9 DEF T, N, act
  <2>7. CASE act.type = "Cancel"
    <3> DEFINE r == [v EXCEPT !.eng.book = Cancel(v.eng.book, act.id).book]
    <3>1. Execute(v, act) = r
      <4> HIDE DEF act
      <4>1. QED BY <2>7 DEF Execute
    <3> HIDE DEF R, P, N, act
    <3>2. \A q \in P : q[2] # act.id => q \in N BY <2>5, <2>7
    <3>3. r = [v EXCEPT !.eng.book = Cancel(v.eng.book, act.id).book] OBVIOUS
    <3> HIDE DEF r
    <3>4. r \in CalmWorlds(R, M, N) BY <2>2, <3>2, <3>3, CalmCancel
    <3> HIDE DEF T
    <3>5. Registered(T) /\ Execute(v, act) \in CalmWorlds(T, M, N)
      BY <2>2, <2>3, <2>7, <3>1, <3>4
    <3> HIDE DEF So, Qo
    <3>6. QED BY <2>1, <3>5 DEF T, N, act
  <2>8. QED BY <2>4, <2>6, <2>7
<1>4. w \in X[0]
  <2> HIDE DEF So, Qo
  <2>1. QED BY <1>2
<1> DEFINE last == Executed(w, actions)
<1>5. last \in X[n]
  <2> HIDE DEF X
  <2>1. QED BY <1>1, <1>3, <1>4, ActionsExecuted
<1> HIDE DEF So, Qo, last
<1>6. last \in CalmWorlds(So(n), M, Qo(n))
  BY <1>1, <1>5
<1>7. QED BY <1>2, <1>6 DEF last, Qo

(* The owners of the makers, and their quotes as pairs of owner and id. *)
MakersIn(cast) == {i \in DOMAIN cast : cast[i].kind = "maker"}
MakerOwners(cast) == {cast[i].owner : i \in MakersIn(cast)}
QuotesOf(a) == {<<a.owner, id>> : id \in {a.bid, a.ask} \ {0}}
QuotesIn(cast) == UNION {QuotesOf(cast[i]) : i \in MakersIn(cast)}

LEMMA QuotesAre ==
  ASSUME NEW cast
  PROVE /\ \A q \in QuotesIn(cast) : q = <<q[1], q[2]>>
        /\ \A owner, id : <<owner, id>> \in QuotesIn(cast) <=>
             \E i \in MakersIn(cast) :
               owner = cast[i].owner /\ id \in {cast[i].bid, cast[i].ask} \ {0}
<1>1. \A a : /\ \A q \in QuotesOf(a) : q = <<q[1], q[2]>>
             /\ \A owner, id :
                  <<owner, id>> \in QuotesOf(a) <=> owner = a.owner /\ id \in {a.bid, a.ask} \ {0}
  BY DEF QuotesOf
<1>2. QED BY <1>1 DEF QuotesIn

LEMMA QuotedPairs ==
  ASSUME NEW cast, NEW actions, NEW m,
         NEW q \in QuotedBy(QuotesIn(cast), actions, m)
  PROVE q = <<q[1], q[2]>>
BY QuotesAre DEF QuotedBy

LEMMA QuotedParts ==
  ASSUME NEW Q, NEW actions, NEW m, NEW owner, NEW id, <<owner, id>> \in QuotedBy(Q, actions, m)
  PROVE \/ <<owner, id>> \in Q /\ \A j \in 1 .. m : actions[j].type = "Cancel" => actions[j].id # id
        \/ \E j \in 1 .. m : /\ actions[j].type = "Submit"
                             /\ owner = actions[j].order.owner /\ id = actions[j].order.id
<1>1. <<owner, id>>[2] = id
  OBVIOUS
<1>2. QED BY <1>1 DEF QuotedBy

(* Once a maker has cancelled its quotes, only those that it has sent since are left. *)
LEMMA OwnLeft ==
  ASSUME CastInv, turn \in DOMAIN agents, agents[turn].kind = "maker",
         NEW s, Quoting(agents[turn], s), NEW m \in Nat,
         Len(s.actions) - 2 <= m, m <= Len(s.actions),
         NEW id, <<agents[turn].owner, id>> \in QuotedBy(QuotesIn(agents), s.actions, m)
  PROVE \E j \in (Len(s.actions) - 1) .. m : id = s.actions[j].order.id
<1> DEFINE n == Len(s.actions)
           mm == agents[turn]
<1>1. /\ n \in Nat /\ n >= 2
      /\ \A k \in 1 .. (n - 2) : s.actions[k].type = "Cancel"
  BY DEF Quoting
<1>2. CASE \E j \in 1 .. m : s.actions[j].type = "Submit" /\ id = s.actions[j].order.id
  <2>1. PICK j \in 1 .. m : s.actions[j].type = "Submit" /\ id = s.actions[j].order.id
    BY <1>2
  <2>2. j \notin 1 .. (n - 2) BY <1>1, <2>1
  <2> HIDE DEF n
  <2>3. j \in (n - 1) .. m BY <1>1, <2>2
  <2>4. QED BY <2>1, <2>3 DEF n
<1>3. CASE /\ <<mm.owner, id>> \in QuotesIn(agents)
           /\ \A j \in 1 .. m : s.actions[j].type = "Cancel" => s.actions[j].id # id
  <2>1. PICK i \in MakersIn(agents) :
          mm.owner = agents[i].owner /\ id \in {agents[i].bid, agents[i].ask} \ {0}
    BY <1>3, QuotesAre
  <2>2. i = turn
    BY <2>1 DEF CastInv, MakersIn
  <2>3. id \in {mm.bid, mm.ask} /\ id # 0
    BY <2>1, <2>2
  <2>4. mm.bid # 0 /\ mm.ask # 0
    <3>1. Quoted(mm) /\ mm.owner \in Nat \ {0} /\ mm.seq \in Nat BY DEF CastInv
    <3> DEFINE p == mm.owner * IdSpan
    <3>2. p \in Nat
      <4>1. IdSpan \in Nat BY AgentAssumption
      <4>2. \A x \in Nat : x * IdSpan \in Nat BY ONLY <4>1
      <4>3. mm.owner \in Nat BY <3>1
      <4>4. QED BY <4>2, <4>3
    <3>3. \/ mm.bid = 0 /\ mm.ask = 0
          \/ mm.seq > 2 /\ mm.bid = p + mm.seq - 2 /\ mm.ask = p + mm.seq - 1
      BY <3>1, <3>2 DEF Quoted, MakerId
    <3> HIDE DEF p, mm
    <3>4. QED BY <2>3, <3>1, <3>2, <3>3
  <2>5. /\ n = 4 /\ s.actions[1] = CancelAction(mm.bid)
        /\ s.actions[2] = CancelAction(mm.ask)
    BY <2>4 DEF Quoting
  <2>6. 1 \in 1 .. m /\ 2 \in 1 .. m
    <3> HIDE DEF n
    <3>1. m >= 2 BY <2>5 DEF n
    <3>2. QED BY <3>1
  <2>7. /\ s.actions[1].type = "Cancel" /\ s.actions[1].id = mm.bid
        /\ s.actions[2].type = "Cancel" /\ s.actions[2].id = mm.ask
    BY <2>5 DEF CancelAction
  <2>8. QED BY <1>3, <2>3, <2>6, <2>7
<1>4. QED BY <1>2, <1>3, QuotedParts

(* The actions of an agent leave the quotes of the others alone. *)
LEMMA OthersLeft ==
  ASSUME turn \in DOMAIN agents, NEW s, Does(agents[turn], s), Doable(s.actions),
         NEW m \in Nat, m <= Len(s.actions),
         NEW owner, owner # agents[turn].owner,
         NEW id, <<owner, id>> \in QuotedBy(QuotesIn(agents), s.actions, m)
  PROVE \E i \in MakersIn(agents) : /\ i # turn /\ owner = agents[i].owner
                                    /\ id \in {agents[i].bid, agents[i].ask} \ {0}
<1>1. ASSUME NEW j \in 1 .. m, s.actions[j].type = "Submit"
      PROVE s.actions[j].order.owner = agents[turn].owner
  <2>1. j \in DOMAIN s.actions BY DEF Doable
  <2>2. s.actions[j].order \in OrdersOf(s.actions) BY <1>1, <2>1 DEF OrdersOf
  <2>3. QED BY <2>2 DEF Does
<1>2. <<owner, id>> \in QuotesIn(agents)
  BY <1>1, QuotedParts
<1>3. QED BY <1>2, QuotesAre

(* What a maker does is right for a calm market ... *)
LEMMA MakerLone ==
  ASSUME CastInv, turn \in DOMAIN agents, agents[turn].kind = "maker",
         NEW s, Quoting(agents[turn], s), OrdersOf(s.actions) \subseteq Order, NEW S,
         NEW k \in 1 .. Len(s.actions), s.actions[k].type = "Submit"
  PROVE Lone(SentBy(S, s.actions, k - 1), MakerOwners(agents),
             QuotedBy(QuotesIn(agents), s.actions, k - 1), s.actions[k].order)
<1> DEFINE n == Len(s.actions)
           owner == agents[turn].owner
           bid == s.actions[n - 1].order
           ask == s.actions[n].order
           T == SentBy(S, s.actions, k - 1)
           P == QuotedBy(QuotesIn(agents), s.actions, k - 1)
<1>1. /\ n \in Nat /\ n >= 2 /\ DOMAIN s.actions = 1 .. n
      /\ \A i \in 1 .. (n - 2) : s.actions[i].type = "Cancel"
      /\ s.actions[n - 1].type = "Submit" /\ bid.owner = owner /\ bid.side = "Buy"
      /\ bid.type = "Limit"
      /\ s.actions[n].type = "Submit" /\ ask.owner = owner /\ ask.side = "Sell"
      /\ ask.type = "Limit"
      /\ bid.price \in Int /\ ask.price \in Int => bid.price < ask.price
  BY DEF Quoting, IsQuote
<1>2. k = n - 1 \/ k = n
  <2>1. k \notin 1 .. (n - 2) BY <1>1
  <2> HIDE DEF n
  <2>2. QED BY <1>1, <2>1 DEF n
<1>3. \A id : <<owner, id>> \in P => \E j \in (n - 1) .. (k - 1) : id = s.actions[j].order.id
  <2>1. k - 1 \in Nat /\ n - 2 <= k - 1 /\ k - 1 <= n BY <1>1, <1>2
  <2>2. QED BY <2>1, OwnLeft
<1>4. s.actions[k].order.owner = owner
  BY <1>1, <1>2
<1> HIDE DEF P, bid, ask
<1>5. CASE k = n - 1
  <2>1. \A id : <<owner, id>> \notin P BY <1>1, <1>3, <1>5
  <2>2. QED BY <1>4, <2>1 DEF Lone, P
<1>6. CASE k = n
  <2>1. \A id : <<owner, id>> \in P => id = bid.id
    <3>1. \A j \in (n - 1) .. (k - 1) : j = n - 1 BY <1>1, <1>6
    <3>2. QED BY <1>3, <3>1 DEF bid
  <2>2. bid.price < ask.price
    <3>1. bid \in OrdersOf(s.actions) /\ ask \in OrdersOf(s.actions)
      <4>1. n - 1 \in 1 .. n /\ n \in 1 .. n BY <1>1
      <4>2. QED BY <1>1, <4>1 DEF OrdersOf, bid, ask
    <3>2. bid.price \in Int /\ ask.price \in Int
      BY <3>1, MarketAssumption DEF Order
    <3>3. QED BY <1>1, <3>2
  <2>3. bid \in T
    <3>1. n - 1 \in 1 .. (k - 1) BY <1>1, <1>6
    <3>2. QED BY <1>1, <3>1 DEF SentBy, bid
  <2> HIDE DEF T
  <2>4. s.actions[k].order = ask BY <1>6 DEF ask
  <2> HIDE DEF owner, n
  <2>5. Lone(T, MakerOwners(agents), P, ask)
    BY <1>1, <2>1, <2>2, <2>3 DEF Lone
  <2>6. QED BY <2>4, <2>5 DEF T, P
<1>7. QED BY <1>2, <1>5, <1>6

(* ... and leaves its new quotes only. *)
LEMMA MakerLeft ==
  ASSUME CastInv, turn \in DOMAIN agents, agents[turn].kind = "maker",
         NEW s, Quoting(agents[turn], s),
         NEW id, <<agents[turn].owner, id>>
                   \in QuotedBy(QuotesIn(agents), s.actions, Len(s.actions))
  PROVE id \in {s.agent.bid, s.agent.ask} \ {0}
<1> DEFINE n == Len(s.actions)
           mm == agents[turn]
           x == MakerId(mm, 0)
           y == MakerId(mm, 1)
<1>1. /\ n \in Nat /\ s.actions[n - 1].order.id = x /\ s.actions[n].order.id = y
      /\ s.agent.bid = x /\ s.agent.ask = y /\ n >= 2
  BY DEF Quoting, IsQuote
<1>2. x # 0 /\ y # 0
  <2> DEFINE p == mm.owner * IdSpan
  <2>1. p \in Nat /\ mm.seq \in Nat \ {0} BY AgentAssumption DEF CastInv
  <2>2. x = p + mm.seq + 0 /\ y = p + mm.seq + 1 BY DEF MakerId
  <2> HIDE DEF p, mm
  <2>3. QED BY <2>1, <2>2
<1> HIDE DEF x, y
<1>3. PICK j \in (n - 1) .. n : id = s.actions[j].order.id
  <2> DEFINE m == n
  <2>1. m \in Nat /\ n - 2 <= m /\ m <= n BY <1>1
  <2>2. <<mm.owner, id>> \in QuotedBy(QuotesIn(agents), s.actions, m) OBVIOUS
  <2> HIDE DEF m
  <2>3. \E j \in (n - 1) .. m : id = s.actions[j].order.id BY <2>1, <2>2, OwnLeft
  <2>4. QED BY <2>3 DEF m
<1>4. j = n - 1 \/ j = n
  <2> HIDE DEF n
  <2>1. QED BY <1>1
<1>5. QED BY <1>1, <1>2, <1>3, <1>4

----------------------------------------------------------------------------
(* The quotes of the makers *)

CalmBooks == Books \in CalmWorlds(sent, MakerOwners(agents), QuotesIn(agents))

CalmMarket == ~eng.cfg.bands /\ ~eng.cfg.breaker

Calmed == Ledgered /\ (InRange /\ InSpan => (CalmMarket => CalmBooks))

LEMMA CalmStarts == ProperCasts /\ WorldInit => Calmed
<1>1. SUFFICES ASSUME ProperCasts, WorldInit, Ledgered, InRange, InSpan, CalmMarket PROVE CalmBooks
  BY LedgerStarts DEF Calmed
<1>2. Books \in KeptWorlds(sent)
  BY <1>1 DEF Ledgered, LedgerInv
<1>3. tape = <<>> /\ \E cfg \in Configs : eng = NewEngine(cfg)
  BY <1>1 DEF WorldInit
<1>4. eng.phase = "Continuous" /\ eng.queue = <<>> /\ eng.book = EmptyBook
  BY <1>3 DEF NewEngine
<1>5. Calm(eng)
  BY <1>1, <1>4 DEF Calm, CalmMarket
<1>6. Held(eng) = {}
  BY <1>4, <1>5, CalmHolds, EmptyTidy
<1>7. QED BY <1>2, <1>3, <1>5, <1>6, BooksIs DEF CalmBooks, CalmWorlds

LEMMA CalmActs ==
  ASSUME WorldInv, LedgerInv, InRange', InSpan', turn \in DOMAIN agents,
         NEW s, Does(agents[turn], s), Doable(s.actions), Acts(s), CalmBooks,
         \A k \in 1 .. Len(s.actions) : s.actions[k].type = "Submit" =>
           Lone(SentBy(sent, s.actions, k - 1), MakerOwners(agents),
                QuotedBy(QuotesIn(agents), s.actions, k - 1), s.actions[k].order),
         \A id : /\ agents[turn].kind = "maker"
                 /\ <<agents[turn].owner, id>>
                      \in QuotedBy(QuotesIn(agents), s.actions, Len(s.actions))
                 => id \in {s.agent.bid, s.agent.ask} \ {0}
  PROVE CalmBooks'
<1> DEFINE w == Executed(Books, s.actions)
           T == sent \cup OrdersOf(s.actions)
           M == MakerOwners(agents)
           Q == QuotesIn(agents)
           n == Len(s.actions)
           P == QuotedBy(Q, s.actions, n)
           R == QuotesIn(agents')
<1>1. /\ Becomes(w) /\ sent' = T /\ agents' = [agents EXCEPT ![turn] = s.agent]
  BY DEF Acts
<1>2. /\ InRange /\ InSpan /\ OrdersOf(s.actions) \subseteq Order
      /\ \A o \in OrdersOf(s.actions) : Spanned(o)
  BY <1>1 DEF InRange, InSpan
<1>3. ts \in Int /\ CastInv /\ n \in Nat
  BY DEF WorldInv, LedgerInv, Doable
<1>4. Fresh(s.actions, sent)
  BY <1>2, <1>3, ActsFresh
<1>5. w \in CalmWorlds(T, M, P)
  BY <1>2, <1>3, <1>4, CalmActions DEF LedgerInv, CalmBooks
<1>6. /\ DOMAIN agents' = DOMAIN agents /\ agents'[turn] = s.agent
      /\ \A i \in DOMAIN agents : i # turn => agents'[i] = agents[i]
  BY <1>1
<1>7. s.agent.kind = agents[turn].kind /\ s.agent.owner = agents[turn].owner
  BY DEF Does
<1>8. \A i \in DOMAIN agents :
        agents'[i].kind = agents[i].kind /\ agents'[i].owner = agents[i].owner
  BY <1>6, <1>7
<1>9. MakersIn(agents') = MakersIn(agents) /\ MakerOwners(agents') = M
  BY <1>6, <1>8 DEF MakersIn, MakerOwners
<1>10. ASSUME NEW q \in P, q[1] \in M PROVE q \in R
  <2> DEFINE owner == q[1]
             id == q[2]
  <2>1. q = <<owner, id>>
    BY QuotedPairs
  <2>2. \E i \in MakersIn(agents) : owner = agents[i].owner
    BY <1>10 DEF MakerOwners
  <2> HIDE DEF owner, id
  <2>3. CASE owner = agents[turn].owner
    <3>1. turn \in MakersIn(agents)
      BY <1>3, <2>2, <2>3 DEF MakersIn, CastInv
    <3>2. agents[turn].kind = "maker" BY <3>1 DEF MakersIn
    <3>3. id \in {s.agent.bid, s.agent.ask} \ {0} BY <2>1, <2>3, <3>2
    <3>4. <<owner, id>> \in R BY <1>6, <1>7, <1>9, <2>3, <3>1, <3>3, QuotesAre
    <3>5. QED BY <2>1, <3>4
  <2>4. CASE owner # agents[turn].owner
    <3>1. PICK i \in MakersIn(agents) : /\ i # turn /\ owner = agents[i].owner
                                        /\ id \in {agents[i].bid, agents[i].ask} \ {0}
      <4> DEFINE m == n
      <4>1. m \in Nat /\ m <= Len(s.actions) BY <1>3
      <4>2. <<owner, id>> \in QuotedBy(QuotesIn(agents), s.actions, m) BY <1>10, <2>1
      <4> HIDE DEF m, P, M
      <4>3. QED BY <2>4, <4>1, <4>2, OthersLeft
    <3>2. agents'[i] = agents[i] BY <1>6, <3>1 DEF MakersIn
    <3>3. <<owner, id>> \in R BY <1>9, <3>1, <3>2, QuotesAre
    <3>4. QED BY <2>1, <3>3
  <2>5. QED BY <2>3, <2>4
<1> HIDE DEF w, T, M, P, R
<1>11. w \in CalmWorlds(T, M, R)
  BY <1>5, <1>10, CalmMore
<1>12. Books' = w
  <2>1. w \in Worlds BY <1>11, CalmParts, KeptParts
  <2>2. QED BY <1>1, <2>1, BecomesBooks
<1>13. Books' \in CalmWorlds(sent', MakerOwners(agents'), QuotesIn(agents'))
  BY <1>1, <1>9, <1>11, <1>12 DEF R
<1>14. /\ MakerOwners(agents)' = MakerOwners(agents') /\ QuotesIn(agents)' = QuotesIn(agents')
       /\ CalmBooks' = (Books' \in CalmWorlds(sent, MakerOwners(agents), QuotesIn(agents))')
  BY DEF CalmBooks, MakerOwners, QuotesIn, MakersIn
<1>15. QED BY <1>13 DEF CalmBooks

LEMMA CalmStep ==
  ASSUME Calmed, [WorldNext]_wvars, InRange', InSpan', CalmMarket'
  PROVE CalmBooks'
<1>1. sent \subseteq sent' /\ InRange' /\ InSpan'
  BY DEF WorldNext, BeginStep, MakerTurn, NoiseTurn, Acts, EndStep, Returned, wvars
<1>2. InRange /\ InSpan /\ WorldInv /\ LedgerInv
  BY <1>1 DEF Calmed, Ledgered, Ranged, InRange, InSpan
<1>3. eng'.cfg = eng.cfg
  BY LedgerStep DEF Calmed
<1>4. CalmBooks
  BY <1>2, <1>3 DEF Calmed, CalmMarket
<1>5. agents \in Seq(Makers \cup Noises) /\ DOMAIN agents = 1 .. Len(agents) /\ ts \in Nat
  BY <1>2, LenProperties DEF WorldInv
<1>6. \A i \in DOMAIN agents : agents[i] \in Makers \cup Noises
  BY <1>5, ElementOfSeq
<1>7. CastInv
  BY <1>2 DEF LedgerInv
<1>8. \A i \in DOMAIN agents : /\ agents[i].owner \in Nat /\ agents[i].seq \in Nat \ {0}
                               /\ Quoted(agents[i])
  BY <1>7 DEF CastInv
<1>9. ASSUME NEW s, Acts(s) PROVE OrdersOf(s.actions) \subseteq Order
  BY <1>1, <1>9 DEF Acts, InRange
<1>10. CalmBooks' = (Books' \in CalmWorlds(sent', MakerOwners(agents'), QuotesIn(agents')))
  BY DEF CalmBooks, CalmWorlds, KeptWorlds, Foreign, MakerOwners, QuotesIn, MakersIn
<1>11. CASE BeginStep
  <2> DEFINE f == Flush(eng, ts)
             w == Booked(Books, f.eng, f.trades)
  <2>1. Becomes(w) /\ sent' = sent /\ agents' = agents
    BY <1>11 DEF BeginStep, Began
  <2>2. w \in CalmWorlds(sent, MakerOwners(agents), QuotesIn(agents))
    <3>1. Registered(sent) BY <1>2 DEF LedgerInv
    <3>2. QED BY <1>4, <1>5, <3>1, CalmFlushed, BooksIs DEF CalmBooks
  <2> HIDE DEF w
  <2>3. Books' = w
    <3>1. w \in Worlds BY <2>2, CalmParts, KeptParts
    <3>2. QED BY <2>1, <3>1, BecomesBooks
  <2>4. QED BY <1>10, <2>1, <2>2, <2>3
<1>12. CASE MakerTurn
  <2> DEFINE mm == agents[turn]
             position == AccountOf(accounts, agents[turn].owner).position
             s == MakerStep(mm, eng.cfg, ts, view, position)
  <2>1. turn \in DOMAIN agents /\ mm.kind = "maker" /\ Acts(s)
    BY <1>12 DEF MakerTurn, Turn
  <2>2. mm \in Makers /\ mm.owner \in Nat /\ mm.seq \in Nat \ {0} /\ Quoted(mm)
    BY <1>6, <1>8, <2>1 DEF Makers, Noises
  <2>3. OrdersOf(s.actions) \subseteq Order
    BY <1>9, <2>1
  <2> HIDE DEF mm, position
  <2>4. Doable(s.actions)
    BY <1>2, <1>5, <2>2, <2>3, MakerDoes, WorldConfig
  <2>5. Does(mm, s)
    BY <1>2, <2>2, MakerAgent, WorldConfig
  <2>6. (s.agent = mm /\ s.actions = <<>>) \/ Quoting(mm, s)
    BY <1>2, <2>2, MakerSends, WorldConfig
  <2> HIDE DEF s
  <2>7. CASE Quoting(mm, s)
    <3>1. \A k \in 1 .. Len(s.actions) : s.actions[k].type = "Submit" =>
            Lone(SentBy(sent, s.actions, k - 1), MakerOwners(agents),
                 QuotedBy(QuotesIn(agents), s.actions, k - 1), s.actions[k].order)
      BY <1>7, <2>1, <2>3, <2>7, MakerLone DEF mm
    <3>2. \A id : <<agents[turn].owner, id>>
                      \in QuotedBy(QuotesIn(agents), s.actions, Len(s.actions))
                    => id \in {s.agent.bid, s.agent.ask} \ {0}
      BY <1>7, <2>1, <2>7, MakerLeft DEF mm
    <3>3. QED BY <1>1, <1>2, <1>4, <2>1, <2>4, <2>5, <3>1, <3>2, CalmActs DEF mm
  <2>8. CASE s.agent = mm /\ s.actions = <<>>
    <3>1. Len(s.actions) = 0 /\ 1 .. 0 = {} BY <2>8
    <3>2. ASSUME NEW id, <<agents[turn].owner, id>>
                           \in QuotedBy(QuotesIn(agents), s.actions, Len(s.actions))
          PROVE id \in {s.agent.bid, s.agent.ask} \ {0}
      <4>1. <<mm.owner, id>> \in QuotesIn(agents) BY <3>1, <3>2, QuotedParts DEF mm
      <4>2. PICK i \in MakersIn(agents) :
              mm.owner = agents[i].owner /\ id \in {agents[i].bid, agents[i].ask} \ {0}
        BY <4>1, QuotesAre
      <4>3. i = turn BY <1>7, <2>1, <4>2 DEF CastInv, MakersIn, mm
      <4>4. QED BY <2>8, <4>2, <4>3 DEF mm
    <3>3. \A k \in 1 .. Len(s.actions) : s.actions[k].type = "Submit" =>
            Lone(SentBy(sent, s.actions, k - 1), MakerOwners(agents),
                 QuotedBy(QuotesIn(agents), s.actions, k - 1), s.actions[k].order)
      BY <3>1
    <3>4. QED BY <1>1, <1>2, <1>4, <2>1, <2>4, <2>5, <3>2, <3>3, CalmActs DEF mm
  <2>9. QED BY <2>6, <2>7, <2>8
<1>13. CASE NoiseTurn
  <2>1. PICK s \in NoiseSteps(agents[turn], view) : Acts(s)
    BY <1>13 DEF NoiseTurn
  <2>2. turn \in DOMAIN agents /\ agents[turn].kind = "noise"
    BY <1>13 DEF NoiseTurn, Turn
  <2>3. agents[turn] \in Noises /\ agents[turn].seq \in Nat \ {0}
    BY <1>6, <1>8, <2>2 DEF Makers, Noises
  <2>4. Doable(s.actions) /\ Does(agents[turn], s)
    BY <2>1, <2>3, NoiseDoes, NoiseAgent
  <2>5. agents[turn].owner \notin MakerOwners(agents)
    BY <1>7, <2>2 DEF CastInv, MakerOwners, MakersIn
  <2>6. ASSUME NEW k \in 1 .. Len(s.actions), s.actions[k].type = "Submit"
        PROVE s.actions[k].order.owner \notin MakerOwners(agents)
    <3>1. s.actions[k].order \in OrdersOf(s.actions) BY <2>4, <2>6 DEF OrdersOf, Doable
    <3>2. QED BY <2>4, <2>5, <3>1 DEF Does
  <2>7. \A k \in 1 .. Len(s.actions) : s.actions[k].type = "Submit" =>
          Lone(SentBy(sent, s.actions, k - 1), MakerOwners(agents),
               QuotedBy(QuotesIn(agents), s.actions, k - 1), s.actions[k].order)
    BY <2>6 DEF Lone
  <2>8. agents[turn].kind # "maker" BY <2>2
  <2>9. QED BY <1>1, <1>2, <1>4, <2>1, <2>2, <2>4, <2>7, <2>8, CalmActs
<1>14. CASE EndStep \/ Returned \/ UNCHANGED wvars
  <2>1. UNCHANGED <<eng, agents, accounts, meta, tape, sent>>
    BY <1>14 DEF EndStep, Returned, wvars
  <2>2. Books' = Books BY <2>1 DEF Books
  <2>3. QED BY <1>4, <1>10, <2>1, <2>2 DEF CalmBooks
<1>15. QED BY <1>11, <1>12, <1>13, <1>14 DEF WorldNext

LEMMA CalmAlways == ProperCasts => (WorldSpec => []Calmed)
<1>1. Calmed /\ [WorldNext]_wvars => Calmed'
  <2>1. Calmed /\ [WorldNext]_wvars => Ledgered'
    BY LedgerGoesOn DEF Calmed
  <2>2. QED BY <2>1, CalmStep DEF Calmed
<1>2. ProperCasts => []ProperCasts
  <2>1. ProperCasts => ProperCasts' BY DEF ProperCasts
  <2>2. QED BY <2>1, PTL
<1>3. QED BY <1>1, <1>2, CalmStarts, PTL DEF WorldSpec

(* Where neither bands nor a breaker can end continuous trading, the orders of a
   maker that can still trade are its current quotes, however its fills and those
   of others interleave. *)
THEOREM WorldQuotes == ProperCasts => (WorldSpec => [](InRange /\ InSpan => QuotesReplaced))
<1>1. Calmed /\ InRange /\ InSpan => QuotesReplaced
  <2>1. SUFFICES ASSUME CalmBooks, CastInv PROVE OnlyCurrentQuotes
    BY DEF Calmed, CalmMarket, QuotesReplaced, Ledgered, LedgerInv
  <2>2. SUFFICES ASSUME NEW i \in DOMAIN agents, agents[i].kind = "maker",
                        NEW o \in LiveOrders, o.owner = agents[i].owner
                 PROVE o.id \in {agents[i].bid, agents[i].ask}
    BY DEF OnlyCurrentQuotes
  <2>3. o \in Held(eng)
    BY DEF LiveOrders, Held
  <2>4. i \in MakersIn(agents) /\ o.owner \in MakerOwners(agents)
    BY <2>2 DEF MakersIn, MakerOwners
  <2>5. <<o.owner, o.id>> \in QuotesIn(agents)
    BY <2>1, <2>3, <2>4, CalmParts, BooksIs DEF CalmBooks
  <2>6. PICK j \in MakersIn(agents) :
          o.owner = agents[j].owner /\ o.id \in {agents[j].bid, agents[j].ask} \ {0}
    BY <2>5, QuotesAre
  <2>7. j = i
    BY <2>1, <2>2, <2>4, <2>6 DEF CastInv, MakersIn
  <2>8. QED BY <2>6, <2>7
<1>2. QED BY <1>1, CalmAlways, PTL

(* There a maker never trades with itself, however the reference price and its
   position moved between its old quotes and its new ones. *)
THEOREM WorldNoSelfTrade == ProperCasts => (WorldSpec => [](InRange /\ InSpan => NoMakerSelfTrade))
<1>1. Calmed /\ InRange /\ InSpan => NoMakerSelfTrade
  <2>1. SUFFICES ASSUME CalmBooks, tape \in Seq(Trade),
                        NEW i \in DOMAIN agents, agents[i].kind = "maker", NEW k \in DOMAIN tape
                 PROVE \E id \in {tape[k].maker, tape[k].taker} :
                         \A o \in sent : o.id = id => o.owner # agents[i].owner
    <3>1. Calmed /\ InRange /\ InSpan /\ CalmMarket => CalmBooks BY DEF Calmed
    <3>2. CalmBooks => tape \in Seq(Trade)
      BY CalmParts, KeptParts, BooksIs DEF CalmBooks
    <3>3. QED BY <3>1, <3>2 DEF NoMakerSelfTrade, CalmMarket
  <2>2. agents[i].owner \in MakerOwners(agents)
    BY <2>1 DEF MakersIn, MakerOwners
  <2>3. k \in 1 .. Len(tape)
    BY <2>1, LenProperties
  <2>4. Foreign(tape[k], sent, agents[i].owner)
    BY <2>1, <2>2, <2>3, CalmParts, BooksIs DEF CalmBooks
  <2>5. QED BY <2>4 DEF Foreign
<1>2. QED BY <1>1, CalmAlways, PTL
=============================================================================
