---------------------------- MODULE AccountProofs ----------------------------
(***************************************************************************)
(* One call of the engine keeps its accounts: no order is in two places,   *)
(* none is lost to the locators, nothing trades or keeps more than it      *)
(* could trade before the call, and every print is between a buy and a     *)
(* sell within the limits of both.                                         *)
(*                                                                         *)
(* The terms c of a call are the orders the engine has been given, with    *)
(* the one of this call (c.known), and what each of them may still trade   *)
(* when the call begins (c.room, by id).                                   *)
(***************************************************************************)
EXTENDS EngineProofs

IsTerms(c) == c.known \subseteq Order /\ c.room \in [Ids -> Int]

OneEach(L) == \A a, b \in L : a.id = b.id => a = b

(* o is what a known order has become: it keeps its owner, and a limit its price;
   a market order may have become a limit order. *)
Stems(o, known) ==
  /\ \E s \in known : s.id = o.id
  /\ \A s \in known : s.id = o.id =>
       /\ s.side = o.side /\ s.owner = o.owner
       /\ s.type = "Limit" => o.type = "Limit" /\ o.price = s.price

TradeOK(t, known) ==
  /\ t.qty > 0
  /\ \E buy, sell \in known : /\ buy.side = "Buy" /\ sell.side = "Sell"
                              /\ {t.maker, t.taker} = {buy.id, sell.id}
  /\ \A s \in known : s.id \in {t.maker, t.taker} /\ s.type = "Limit"
                        => Allows(s.side, s.price, t.price)

(* The orders L may trade later what the trades of the call so far have left. *)
Entitled(L, trades, c) ==
  /\ L \subseteq Order /\ OneEach(L)
  /\ \A o \in L : /\ Stems(o, c.known) /\ o.qty \in Nat
                  /\ TradedBy(o.id, trades) + o.qty <= c.room[o.id]
  /\ trades \in Seq(Trade) /\ \A k \in 1 .. Len(trades) : TradeOK(trades[k], c.known)
  /\ \A id \in Ids : TradedBy(id, trades) <= c.room[id]

(* x is o, or what is left of it, or what a market order has become. *)
Lesser(x, o) ==
  /\ x.id = o.id /\ x.side = o.side /\ x.owner = o.owner
  /\ x.qty \in Nat /\ x.qty <= o.qty
  /\ o.type = "Limit" => x.type = "Limit" /\ x.price = o.price

----------------------------------------------------------------------------
(* Quantities traded *)

LEMMA NothingTraded ==
  ASSUME NEW id, NEW trades, trades = <<>>
  PROVE TradedBy(id, trades) = 0
<1> DEFINE q == [k \in DOMAIN trades |->
                   [qty |-> IF id \in {trades[k].maker, trades[k].taker}
                            THEN trades[k].qty ELSE 0]]
<1>1. q = <<>>
  OBVIOUS
<1>2. TradedBy(id, trades) = QtyOf(q)
  BY DEF TradedBy
<1> HIDE DEF q
<1>3. q \in Seq(Order)
  BY <1>1
<1>4. QED BY <1>1, <1>2, <1>3, QtyType

(* What of each trade is id's. *)
Parts(id, trades) ==
  [k \in DOMAIN trades |->
     [qty |-> IF id \in {trades[k].maker, trades[k].taker} THEN trades[k].qty ELSE 0]]

LEMMA TradedParts ==
  ASSUME NEW id, NEW trades \in Seq(Trade)
  PROVE /\ TradedBy(id, trades) = QtyOf(Parts(id, trades))
        /\ HasQtys(Parts(id, trades))
        /\ Len(Parts(id, trades)) = Len(trades) /\ Len(trades) \in Nat
        /\ \A k \in 1 .. Len(trades) :
             Parts(id, trades)[k].qty = IF id \in {trades[k].maker, trades[k].taker}
                                        THEN trades[k].qty ELSE 0
<1> DEFINE n == Len(trades)
           q == Parts(id, trades)
<1>1. n \in Nat /\ DOMAIN trades = 1 .. n
  BY LenProperties
<1>2. \A k \in 1 .. n : trades[k].qty \in Int
  <2>1. SUFFICES ASSUME NEW k \in 1 .. n PROVE trades[k].qty \in Int
    OBVIOUS
  <2>2. trades[k] \in Trade BY ElementOfSeq
  <2>3. QED BY <2>2 DEF Trade
<1>3. Len(q) = n
  BY <1>1 DEF Parts
<1>4. \A k \in 1 .. n : q[k].qty = IF id \in {trades[k].maker, trades[k].taker}
                                   THEN trades[k].qty ELSE 0
  BY <1>1 DEF Parts
<1>5. TradedBy(id, trades) = QtyOf(q)
  BY DEF TradedBy, Parts
<1> HIDE DEF q
<1>6. HasQtys(q)
  BY <1>1, <1>2, <1>3, <1>4 DEF HasQtys
<1>7. QED BY <1>1, <1>3, <1>4, <1>5, <1>6 DEF q

(* A print counts for its maker and its taker. *)
LEMMA TradedGrows ==
  ASSUME NEW id, NEW trades \in Seq(Trade), NEW t \in Trade
  PROVE /\ TradedBy(id, trades) \in Int
        /\ TradedBy(id, Append(trades, t)) =
             TradedBy(id, trades) + (IF id \in {t.maker, t.taker} THEN t.qty ELSE 0)
<1> DEFINE more == Append(trades, t)
           q == Parts(id, trades)
           r == Parts(id, more)
<1>1. /\ more \in Seq(Trade) /\ Len(more) = Len(trades) + 1
      /\ \A k \in 1 .. Len(trades) : more[k] = trades[k]
      /\ more[Len(trades) + 1] = t
  BY AppendProperties
<1> HIDE DEF more
<1>2. /\ TradedBy(id, trades) = QtyOf(q)
      /\ HasQtys(q) /\ Len(q) = Len(trades) /\ Len(trades) \in Nat
      /\ \A k \in 1 .. Len(trades) :
           q[k].qty = IF id \in {trades[k].maker, trades[k].taker} THEN trades[k].qty ELSE 0
  BY TradedParts
<1>3. /\ TradedBy(id, more) = QtyOf(r)
      /\ HasQtys(r) /\ Len(r) = Len(more)
      /\ \A k \in 1 .. Len(more) :
           r[k].qty = IF id \in {more[k].maker, more[k].taker} THEN more[k].qty ELSE 0
  BY <1>1, TradedParts
<1> HIDE DEF q, r
<1>4. \A k \in 1 .. Len(q) : r[k].qty = q[k].qty
  BY <1>1, <1>2, <1>3
<1>5. r[Len(r)].qty = IF id \in {t.maker, t.taker} THEN t.qty ELSE 0
  BY <1>1, <1>2, <1>3
<1>6. QtyOf(q) \in Int /\ QtyOf(r) = QtyOf(q) + r[Len(r)].qty
  BY <1>1, <1>2, <1>3, <1>4, QtyGrows
<1>7. QED BY <1>2, <1>3, <1>5, <1>6 DEF more

----------------------------------------------------------------------------
(* A list of trades, trade by trade *)

Printed(trades, k) == SubSeq(trades, 1, k)

LEMMA PrintedGrows ==
  ASSUME NEW trades \in Seq(Trade)
  PROVE /\ Len(trades) \in Nat
        /\ Printed(trades, 0) = <<>> /\ Printed(trades, Len(trades)) = trades
        /\ \A k \in Nat : k < Len(trades) =>
             /\ Printed(trades, k) \in Seq(Trade) /\ trades[k + 1] \in Trade
             /\ k + 1 \in 1 .. Len(trades)
             /\ Printed(trades, k + 1) = Append(Printed(trades, k), trades[k + 1])
<1>1. Len(trades) \in Nat
  BY LenProperties
<1>2. Printed(trades, 0) = <<>>
  BY DEF Printed
<1>3. Printed(trades, Len(trades)) = trades
  BY <1>1 DEF Printed
<1>4. ASSUME NEW k \in Nat, k < Len(trades)
      PROVE /\ Printed(trades, k) \in Seq(Trade) /\ trades[k + 1] \in Trade
            /\ k + 1 \in 1 .. Len(trades)
            /\ Printed(trades, k + 1) = Append(Printed(trades, k), trades[k + 1])
  <2>1. k + 1 \in 1 .. Len(trades)
    BY <1>1, <1>4
  <2>2. trades[k + 1] \in Trade
    BY <2>1, ElementOfSeq
  <2>3. \A i \in 1 .. k : trades[i] \in Trade
    <3>1. \A i \in 1 .. k : i \in 1 .. Len(trades) BY <1>1, <1>4
    <3>2. QED BY <3>1, ElementOfSeq
  <2>4. Printed(trades, k) \in Seq(Trade)
    BY <2>3, SubSeqProperties, <1>1, <1>4 DEF Printed
  <2>5. /\ Len(Printed(trades, k)) = k /\ Len(Printed(trades, k + 1)) = k + 1
        /\ Printed(trades, k + 1) \in Seq(Trade)
        /\ \A i \in 1 .. k : Printed(trades, k)[i] = trades[i]
        /\ \A i \in 1 .. (k + 1) : Printed(trades, k + 1)[i] = trades[i]
    BY SubSeqProperties, <1>1, <1>4 DEF Printed
  <2>6. Printed(trades, k + 1) = Append(Printed(trades, k), trades[k + 1])
    <3> DEFINE p == Printed(trades, k)
               r == Printed(trades, k + 1)
               t == trades[k + 1]
    <3>1. /\ Append(p, t) \in Seq(Trade) /\ Len(Append(p, t)) = k + 1
          /\ \A i \in 1 .. k : Append(p, t)[i] = p[i]
          /\ Append(p, t)[k + 1] = t
      BY <2>2, <2>4, <2>5, AppendProperties
    <3>2. \A i \in 1 .. (k + 1) : r[i] = Append(p, t)[i]
      BY <2>5, <3>1
    <3> HIDE DEF p, r, t
    <3>3. r \in Seq(Trade) /\ Len(r) = k + 1
      BY <2>5 DEF r
    <3>4. r = Append(p, t)
      BY <3>1, <3>2, <3>3, SeqEqual
    <3>5. QED BY <3>4 DEF p, r, t
  <2>7. QED BY <2>1, <2>2, <2>4, <2>6
<1>5. QED BY <1>1, <1>2, <1>3, <1>4

(* A trade after those of a list q is a trade after those of p and q. *)
LEMMA AppendLater ==
  ASSUME NEW p \in Seq(Trade), NEW q \in Seq(Trade), NEW t \in Trade
  PROVE p \o Append(q, t) = Append(p \o q, t)
<1> DEFINE r == <<t>>
<1>1. r \in Seq(Trade)
  OBVIOUS
<1>2. p \o q \in Seq(Trade)
  BY ConcatProperties
<1>3. Append(q, t) = q \o r /\ Append(p \o q, t) = (p \o q) \o r
  BY <1>2, AppendIsConcat
<1> HIDE DEF r
<1>4. p \o (q \o r) = (p \o q) \o r
  BY <1>1, ConcatAssociative
<1>5. QED BY <1>3, <1>4

----------------------------------------------------------------------------
(* Accounts *)

(* What has become of an order still stems from where the order did. *)
LEMMA LesserStems ==
  ASSUME NEW known, NEW o, Stems(o, known), NEW x, Lesser(x, o)
  PROVE Stems(x, known)
BY DEF Stems, Lesser

(* Orders may vanish, and lose quantity. *)
LEMMA AccountLess ==
  ASSUME NEW c, IsTerms(c), NEW L, NEW trades, Entitled(L, trades, c),
         NEW M, M \subseteq Order, OneEach(M), \A x \in M : \E o \in L : Lesser(x, o)
  PROVE Entitled(M, trades, c)
<1>1. ASSUME NEW x \in M
      PROVE /\ Stems(x, c.known) /\ x.qty \in Nat
            /\ TradedBy(x.id, trades) + x.qty <= c.room[x.id]
  <2>1. PICK o \in L : Lesser(x, o)
    OBVIOUS
  <2>2. Stems(o, c.known) /\ o.qty \in Nat /\ TradedBy(o.id, trades) + o.qty <= c.room[o.id]
    BY DEF Entitled
  <2>3. TradedBy(o.id, trades) \in Int /\ c.room[o.id] \in Int /\ o.id = x.id
    <3>1. o.id \in Ids /\ o.id = x.id BY <2>1 DEF Entitled, Order, Lesser
    <3>2. trades \in Seq(Trade) BY DEF Entitled
    <3>3. PICK t : t = [id |-> 0, ts |-> 0, price |-> o.price, qty |-> 0, maker |-> o.id, taker |-> o.id]
      OBVIOUS
    <3>4. o \in Order BY DEF Entitled
    <3>5. t \in Trade BY <3>3, <3>4 DEF Trade, Order
    <3>6. QED BY <3>1, <3>2, <3>5, TradedGrows DEF IsTerms
  <2>4. Stems(x, c.known)
    BY <2>1, <2>2, LesserStems
  <2>5. QED BY <2>1, <2>2, <2>3, <2>4 DEF Lesser
<1>2. QED BY <1>1 DEF Entitled

(* A fill: two orders of the account, one of each side, lose what they trade. *)
LEMMA AccountFill ==
  ASSUME NEW c, IsTerms(c), NEW L, NEW trades, Entitled(L, trades, c),
         NEW a \in L, NEW b \in L, {a.side, b.side} = {"Buy", "Sell"},
         NEW t \in Trade, t.maker = a.id, t.taker = b.id,
         t.qty > 0, t.qty <= a.qty, t.qty <= b.qty,
         a.type = "Limit" => Allows(a.side, a.price, t.price),
         b.type = "Limit" => Allows(b.side, b.price, t.price),
         NEW M, M \subseteq Order, OneEach(M),
         \A x \in M : \E o \in L : /\ Lesser(x, o)
                                   /\ o.id \in {a.id, b.id} => x.qty <= o.qty - t.qty
  PROVE Entitled(M, Append(trades, t), c)
<1> DEFINE more == Append(trades, t)
<1>1. t.qty \in Int
  BY DEF Trade
<1>2. /\ trades \in Seq(Trade) /\ \A k \in 1 .. Len(trades) : TradeOK(trades[k], c.known)
      /\ L \subseteq Order /\ OneEach(L)
      /\ \A o \in L : /\ Stems(o, c.known) /\ o.qty \in Nat
                      /\ TradedBy(o.id, trades) + o.qty <= c.room[o.id]
      /\ \A id \in Ids : TradedBy(id, trades) <= c.room[id]
  BY DEF Entitled
<1>3. \A id : /\ TradedBy(id, trades) \in Int
              /\ TradedBy(id, more) = TradedBy(id, trades) +
                                      (IF id \in {a.id, b.id} THEN t.qty ELSE 0)
  BY <1>2, TradedGrows
<1>4. /\ more \in Seq(Trade) /\ Len(more) = Len(trades) + 1 /\ Len(trades) \in Nat
      /\ \A k \in 1 .. Len(trades) : more[k] = trades[k]
      /\ more[Len(trades) + 1] = t
  BY <1>2, AppendProperties, LenProperties
<1> HIDE DEF more
<1>5. ASSUME NEW x \in M
      PROVE /\ Stems(x, c.known) /\ x.qty \in Nat
            /\ TradedBy(x.id, more) + x.qty <= c.room[x.id]
  <2>1. PICK o \in L : Lesser(x, o) /\ (o.id \in {a.id, b.id} => x.qty <= o.qty - t.qty)
    OBVIOUS
  <2>2. Stems(o, c.known) /\ o.qty \in Nat /\ TradedBy(o.id, trades) + o.qty <= c.room[o.id]
    BY <1>2
  <2>3. c.room[o.id] \in Int /\ o.id = x.id /\ x.qty \in Nat /\ x.qty <= o.qty
    BY <1>2, <2>1 DEF IsTerms, Order, Lesser
  <2>4. Stems(x, c.known)
    BY <2>1, <2>2, LesserStems
  <2>5. TradedBy(o.id, more) + x.qty <= c.room[o.id]
    BY <1>1, <1>3, <2>1, <2>2, <2>3
  <2>6. QED BY <2>3, <2>4, <2>5
<1>6. ASSUME NEW id \in Ids PROVE TradedBy(id, more) <= c.room[id]
  <2>1. c.room[id] \in Int /\ TradedBy(id, trades) <= c.room[id]
    BY <1>2 DEF IsTerms
  <2>2. a.qty \in Nat /\ b.qty \in Nat
        /\ TradedBy(a.id, trades) + a.qty <= c.room[a.id]
        /\ TradedBy(b.id, trades) + b.qty <= c.room[b.id]
    BY <1>2
  <2>3. QED BY <1>1, <1>3, <2>1, <2>2
<1>7. TradeOK(t, c.known)
  <2>1. Stems(a, c.known) /\ Stems(b, c.known)
    BY <1>2
  <2>2. PICK s \in c.known : s.id = a.id /\ s.side = a.side
    BY <2>1 DEF Stems
  <2>3. PICK r \in c.known : r.id = b.id /\ r.side = b.side
    BY <2>1 DEF Stems
  <2>4. \E buy, sell \in c.known : /\ buy.side = "Buy" /\ sell.side = "Sell"
                                   /\ {t.maker, t.taker} = {buy.id, sell.id}
    BY <2>2, <2>3
  <2>5. \A u \in c.known : u.id \in {t.maker, t.taker} /\ u.type = "Limit"
                             => Allows(u.side, u.price, t.price)
    BY <2>1 DEF Stems
  <2>6. QED BY <2>4, <2>5 DEF TradeOK
<1>8. \A k \in 1 .. Len(more) : TradeOK(more[k], c.known)
  <2>1. SUFFICES ASSUME NEW k \in 1 .. Len(more) PROVE TradeOK(more[k], c.known)
    OBVIOUS
  <2>2. k \in 1 .. Len(trades) \/ k = Len(trades) + 1
    BY <1>4
  <2>3. QED BY <1>2, <1>4, <1>7, <2>2
<1>9. Entitled(M, more, c)
  BY <1>4, <1>5, <1>6, <1>8 DEF Entitled
<1>10. QED BY <1>9 DEF more

----------------------------------------------------------------------------
(* A book and the orders W that are somewhere else: in the queue, or in the
   hands of the call. *)

Honest(book, W, trades, c) ==
  Tidy(book) /\ Apart(Resting(book), W) /\ Entitled(Resting(book) \cup W, trades, c)

(* What rests and what is elsewhere, each order once. *)
LEMMA OneEachOf ==
  ASSUME NEW book, Tidy(book), NEW W, W \subseteq Order, OneEach(W), Apart(Resting(book), W)
  PROVE Resting(book) \cup W \subseteq Order /\ OneEach(Resting(book) \cup W)
<1>1. Resting(book) \subseteq Order
  BY RestingIs
<1>2. OneEach(Resting(book))
  BY RestingOnce DEF OneEach
<1>3. QED BY <1>1, <1>2 DEF OneEach, Apart

LEMMA HonestParts ==
  ASSUME NEW book, NEW W, NEW trades, NEW c, Honest(book, W, trades, c)
  PROVE /\ Tidy(book) /\ GoodBook(book) /\ Apart(Resting(book), W) /\ W \subseteq Order
        /\ OneEach(W) /\ trades \in Seq(Trade)
        /\ \A o \in Resting(book) \cup W : o \in Order /\ o.qty \in Nat /\ Lesser(o, o)
BY DEF Honest, Entitled, OneEach, Lesser, Tidy, Order

(* Orders may vanish and lose quantity, in the book and elsewhere. *)
LEMMA HonestLess ==
  ASSUME NEW c, IsTerms(c), NEW book, NEW W, NEW trades, Honest(book, W, trades, c),
         NEW new, Tidy(new), NEW V, V \subseteq Order, OneEach(V), Apart(Resting(new), V),
         \A x \in Resting(new) \cup V : \E o \in Resting(book) \cup W : Lesser(x, o)
  PROVE Honest(new, V, trades, c)
<1> DEFINE L == Resting(book) \cup W
           M == Resting(new) \cup V
<1>1. M \subseteq Order /\ OneEach(M)
  BY OneEachOf
<1>2. Entitled(L, trades, c)
  BY DEF Honest
<1>3. \A x \in M : \E o \in L : Lesser(x, o)
  OBVIOUS
<1> HIDE DEF L, M
<1>4. Entitled(M, trades, c)
  BY <1>1, <1>2, <1>3, AccountLess
<1>5. QED BY <1>4 DEF Honest, M

(* The orders elsewhere change: each stays what it is, or less. *)
LEMMA HonestAmend ==
  ASSUME NEW c, IsTerms(c), NEW book, NEW W, NEW trades, Honest(book, W, trades, c),
         NEW V, V \subseteq Order, OneEach(V), \A x \in V : \E o \in W : Lesser(x, o)
  PROVE Honest(book, V, trades, c)
<1>1. /\ Tidy(book) /\ Apart(Resting(book), W)
      /\ \A o \in Resting(book) : Lesser(o, o)
  BY HonestParts
<1>2. Apart(Resting(book), V)
  BY <1>1 DEF Apart, Lesser
<1>3. \A x \in Resting(book) \cup V : \E o \in Resting(book) \cup W : Lesser(x, o)
  BY <1>1
<1>4. QED BY <1>1, <1>2, <1>3, HonestLess

(* They vanish. *)
LEMMA HonestDrop ==
  ASSUME NEW c, IsTerms(c), NEW book, NEW W, NEW trades, Honest(book, W, trades, c),
         NEW V, V \subseteq W
  PROVE Honest(book, V, trades, c)
<1>1. V \subseteq Order /\ OneEach(V) /\ \A x \in V : Lesser(x, x)
  BY HonestParts DEF OneEach
<1>2. QED BY <1>1, HonestAmend

(* cancel *)
LEMMA HonestCancel ==
  ASSUME NEW c, IsTerms(c), NEW book, NEW W, NEW trades, Honest(book, W, trades, c), NEW id
  PROVE Honest(Cancel(book, id).book, W, trades, c)
<1> DEFINE new == Cancel(book, id).book
<1>1. /\ Tidy(book) /\ Apart(Resting(book), W) /\ W \subseteq Order /\ OneEach(W)
      /\ \A o \in Resting(book) \cup W : Lesser(o, o)
  BY HonestParts
<1>2. Tidy(new) /\ Resting(new) \subseteq Resting(book)
  BY <1>1, CancelTidy
<1> HIDE DEF new
<1>3. Apart(Resting(new), W)
  BY <1>1, <1>2 DEF Apart
<1>4. \A x \in Resting(new) \cup W : \E o \in Resting(book) \cup W : Lesser(x, o)
  BY <1>1, <1>2
<1>5. Honest(new, W, trades, c)
  BY <1>1, <1>2, <1>3, <1>4, HonestLess
<1>6. QED BY <1>5 DEF new

(* modify_qty *)
LEMMA HonestModify ==
  ASSUME NEW c, IsTerms(c), NEW book, NEW W, NEW trades, Honest(book, W, trades, c),
         NEW id, NEW n \in Int
  PROVE Honest(ModifyQty(book, id, n).book, W, trades, c)
<1> DEFINE new == ModifyQty(book, id, n).book
<1>1. /\ Tidy(book) /\ Apart(Resting(book), W) /\ W \subseteq Order /\ OneEach(W)
      /\ \A o \in Resting(book) \cup W : Lesser(o, o) /\ o \in Order
  BY HonestParts
<1>2. /\ Tidy(new)
      /\ \A x \in Resting(new) :
           \/ x \in Resting(book)
           \/ \E o \in Resting(book) : /\ n > 0 /\ n <= o.qty
                                       /\ x = [o EXCEPT !.qty = n]
  BY <1>1, ModifyTidy
<1> HIDE DEF new
<1>3. ASSUME NEW x \in Resting(new)
      PROVE \E o \in Resting(book) : Lesser(x, o)
  <2>1. CASE x \in Resting(book)
    BY <1>1, <2>1
  <2>2. ASSUME NEW o \in Resting(book), n > 0, n <= o.qty, x = [o EXCEPT !.qty = n]
        PROVE Lesser(x, o)
    BY <1>1, <2>2 DEF Lesser, Order
  <2>3. QED BY <1>2, <2>1, <2>2
<1>4. Apart(Resting(new), W)
  BY <1>1, <1>3 DEF Apart, Lesser
<1>5. \A x \in Resting(new) \cup W : \E o \in Resting(book) \cup W : Lesser(x, o)
  BY <1>1, <1>3
<1>6. Honest(new, W, trades, c)
  BY <1>1, <1>2, <1>4, <1>5, HonestLess
<1>7. QED BY <1>6 DEF new

(* add_resting_limit of an order that was elsewhere: it rests, or is gone. *)
LEMMA HonestRest ==
  ASSUME NEW c, IsTerms(c), NEW book, NEW W, NEW trades, Honest(book, W, trades, c),
         NEW o \in W
  PROVE Honest(AddRestingLimit(book, o).book, W \ {o}, trades, c)
<1> DEFINE add == AddRestingLimit(book, o)
           V == W \ {o}
<1>1. /\ Tidy(book) /\ Apart(Resting(book), W) /\ W \subseteq Order /\ OneEach(W)
      /\ \A x \in Resting(book) \cup W : Lesser(x, x)
  BY HonestParts
<1>2. Apart(Resting(book), {o}) /\ o \in Order
  BY <1>1 DEF Apart
<1>3. /\ Tidy(add.book)
      /\ IF add.ok THEN o.type = "Limit" /\ o.qty > 0 /\ Resting(add.book) = Resting(book) \cup {o}
         ELSE add.book = book
  BY <1>1, <1>2, AddTidy
<1> HIDE DEF add
<1>4. Resting(add.book) \subseteq Resting(book) \cup {o}
  BY <1>3
<1>5. V \subseteq Order /\ OneEach(V) /\ Apart({o}, V)
  BY <1>1 DEF OneEach, Apart
<1>6. Apart(Resting(add.book), V)
  BY <1>1, <1>4, <1>5 DEF Apart
<1>7. \A x \in Resting(add.book) \cup V : \E y \in Resting(book) \cup W : Lesser(x, y)
  BY <1>1, <1>4
<1> HIDE DEF V
<1>8. Honest(add.book, V, trades, c)
  BY <1>3, <1>5, <1>6, <1>7, HonestLess
<1>9. QED BY <1>8 DEF add, V

(* A fill between the front of the book and an order b from elsewhere. *)
LEMMA HonestFill ==
  ASSUME NEW c, IsTerms(c), NEW book, NEW Q, NEW b, NEW trades,
         Honest(book, Q \cup {b}, trades, c), Apart(Q, {b}),
         Best(book, Opposite(b.side)) # None,
         NEW n \in Int, 0 < n, n <= b.qty, n <= FrontOf(book, Opposite(b.side)).qty,
         GoodBook(FrontFilled(book, Opposite(b.side), n)),
         b.type = "Limit" => Allows(b.side, b.price, Best(book, Opposite(b.side))),
         NEW t \in Trade, t.qty = n, t.price = Best(book, Opposite(b.side)),
         t.maker = FrontOf(book, Opposite(b.side)).id, t.taker = b.id
  PROVE Honest(FrontFilled(book, Opposite(b.side), n), Q \cup {[b EXCEPT !.qty = b.qty - n]},
               Append(trades, t), c)
<1> DEFINE side == Opposite(b.side)
           a == FrontOf(book, side)
           left == [a EXCEPT !.qty = a.qty - n]
           less == [b EXCEPT !.qty = b.qty - n]
           new == FrontFilled(book, side, n)
           L == Resting(book) \cup Q \cup {b}
           M == Resting(new) \cup Q \cup {less}
<1>1. /\ Tidy(book) /\ Apart(Resting(book), Q) /\ Apart(Resting(book), {b})
      /\ Q \subseteq Order /\ OneEach(Q) /\ b \in Order /\ b.qty \in Nat
      /\ \A x \in Resting(book) \cup Q : Lesser(x, x) /\ x \in Order /\ x.qty \in Nat
  BY HonestParts DEF Apart, OneEach
<1>2. side \in Sides /\ {side, b.side} = {"Buy", "Sell"}
  BY <1>1 DEF Opposite, Sides, Order
<1> HIDE DEF side
<1>3. a \in Resting(book) /\ a.side = side /\ a.price = t.price /\ a \in Order /\ a.qty \in Nat
  BY <1>1, <1>2, FrontRests DEF side
<1>4. /\ Tidy(new)
      /\ \A x \in Resting(new) : \/ x \in Resting(book) /\ x.id # a.id
                                 \/ x = left /\ left.qty > 0
  BY <1>1, <1>2, FrontTidy DEF side
<1>5. n <= a.qty /\ t.maker = a.id /\ GoodBook(new)
      /\ (b.type = "Limit" => Allows(b.side, b.price, t.price))
  BY DEF side
<1> HIDE DEF a, new
<1>6. /\ left.id = a.id /\ left.qty = a.qty - n /\ left.side = a.side /\ left.type = a.type
      /\ left.price = a.price /\ left.owner = a.owner
      /\ less \in Order /\ less.id = b.id /\ less.qty = b.qty - n /\ less.side = b.side
      /\ less.type = b.type /\ less.price = b.price /\ less.owner = b.owner
  BY <1>1, <1>3 DEF Order
<1> HIDE DEF left, less
<1>7. Lesser(left, a) /\ Lesser(less, b) /\ a.id # b.id
  BY <1>1, <1>3, <1>5, <1>6 DEF Lesser, Apart
<1>8. /\ Q \cup {less} \subseteq Order /\ OneEach(Q \cup {less})
      /\ Apart(Resting(new), Q \cup {less})
  <2>1. Apart(Resting(new), Q \cup {less})
    BY <1>1, <1>3, <1>4, <1>6, <1>7 DEF Apart
  <2>2. OneEach(Q \cup {less})
    BY <1>1, <1>6 DEF OneEach, Apart
  <2>3. QED BY <1>1, <1>6, <2>1, <2>2
<1>9. M \subseteq Order /\ OneEach(M)
  <2> DEFINE V == Q \cup {less}
  <2>1. M = Resting(new) \cup V
    OBVIOUS
  <2> HIDE DEF V, M
  <2>2. Resting(new) \cup V \subseteq Order /\ OneEach(Resting(new) \cup V)
    BY <1>4, <1>8, OneEachOf DEF V
  <2>3. QED BY <2>1, <2>2
<1>10. ASSUME NEW x \in M
       PROVE \E o \in L : Lesser(x, o) /\ (o.id \in {a.id, b.id} => x.qty <= o.qty - t.qty)
  <2>1. CASE x \in Resting(book) /\ x.id # a.id
    BY <1>1, <2>1 DEF Apart
  <2>2. CASE x \in Q
    BY <1>1, <1>3, <2>2 DEF Apart
  <2>3. CASE x = left
    BY <1>3, <1>6, <1>7, <2>3
  <2>4. CASE x = less
    BY <1>1, <1>6, <1>7, <2>4
  <2>5. QED BY <1>4, <2>1, <2>2, <2>3, <2>4
<1>11. Entitled(L, trades, c)
  <2>1. L = Resting(book) \cup (Q \cup {b}) OBVIOUS
  <2> HIDE DEF L
  <2>2. QED BY <2>1 DEF Honest
<1>12. a \in L /\ b \in L /\ {a.side, b.side} = {"Buy", "Sell"}
  BY <1>2, <1>3
<1>13. a.type = "Limit" => Allows(a.side, a.price, t.price)
  <2>1. t.price \in Int BY MarketAssumption DEF Trade
  <2>2. QED BY <1>3, <2>1 DEF Allows
<1> HIDE DEF L, M
<1>14. Entitled(M, Append(trades, t), c)
  BY <1>1, <1>3, <1>5, <1>9, <1>10, <1>11, <1>12, <1>13, AccountFill
<1>15. M = Resting(new) \cup (Q \cup {less})
  BY DEF M
<1>16. Honest(new, Q \cup {less}, Append(trades, t), c)
  BY <1>4, <1>8, <1>14, <1>15 DEF Honest
<1>17. QED BY <1>16 DEF new, less, side

----------------------------------------------------------------------------
(* Matching: the taker of m is elsewhere, with the orders Q of the queue *)

SameTerms(x, o) ==
  /\ x.id = o.id /\ x.side = o.side /\ x.owner = o.owner
  /\ x.type = o.type /\ x.price = o.price

LEMMA MatchStepHonest ==
  ASSUME NEW c, IsTerms(c), NEW m \in MatchStates, NEW Q, NEW flushed \in Seq(Trade),
         Honest(m.book, Q \cup {m.taker}, flushed \o m.trades, c), Apart(Q, {m.taker}),
         NEW stp, NEW ts \in Int
  PROVE LET n == MatchStep(stp, ts, m)
        IN  /\ SameTerms(n.taker, m.taker)
            /\ Honest(n.book, Q \cup {n.taker}, flushed \o n.trades, c)
<1> DEFINE b == m.taker
           book == m.book
           done == flushed \o m.trades
           side == Opposite(b.side)
           px == Best(book, side)
           front == book.levels[side][px].q
           own == stp # "None" /\ Head(front).owner = b.owner
           none == [b EXCEPT !.qty = 0]
           killed == [m EXCEPT !.taker = none]
           cut == Cancel(book, Head(front).id).book
           passed == [m EXCEPT !.book = cut]
           n == MatchStep(stp, ts, m)
<1>1. /\ Tidy(book) /\ GoodBook(book) /\ Q \subseteq Order /\ OneEach(Q \cup {b})
      /\ done \in Seq(Trade)
      /\ \A o \in Q \cup {b} : o \in Order /\ o.qty \in Nat /\ Lesser(o, o)
  BY HonestParts
<1>2. /\ m = [book |-> book, taker |-> b, trades |-> m.trades, next |-> m.next]
      /\ b \in Order /\ b.side \in Sides /\ m.trades \in Seq(Trade) /\ m.next \in Nat
  BY DEF MatchStates, Order
<1>3. side \in Sides
  BY <1>2 DEF Opposite, Sides
<1>4. ASSUME CanMatch(m)
      PROVE /\ px # None /\ b.qty > 0 /\ px \in Prices
            /\ b.type = "Limit" => Allows(b.side, b.price, px)
            /\ front # <<>> /\ Head(front) = FrontOf(book, side)
            /\ FrontOf(book, side) \in Order /\ FrontOf(book, side).qty \in Int
            /\ FrontOf(book, side).qty > 0
  <2>1. px # None /\ b.qty > 0 /\ (b.type = "Limit" => Allows(b.side, b.price, px))
    BY <1>4 DEF CanMatch
  <2>2. px \in Prices
    BY <1>1, <1>3, <2>1, BestType DEF GoodBook
  <2>3. QED BY <1>1, <1>3, <2>1, <2>2, FrontRests DEF FrontOf
<1>5. CASE ~CanMatch(m)
  <2>1. n = m BY <1>5 DEF MatchStep
  <2>2. QED BY <2>1 DEF SameTerms
<1>6. CASE CanMatch(m) /\ own /\ stp = "CancelTaker"
  <2>1. n = killed BY <1>4, <1>6 DEF MatchStep
  <2>2. /\ killed.book = book /\ killed.trades = m.trades /\ killed.taker = none
        /\ none \in Order /\ Lesser(none, b) /\ SameTerms(none, b)
    BY <1>1, <1>2 DEF Order, Lesser, SameTerms
  <2> HIDE DEF n, killed, none
  <2>3. Q \cup {none} \subseteq Order /\ OneEach(Q \cup {none})
    BY <1>1, <2>2 DEF OneEach, SameTerms, Apart
  <2>4. \A x \in Q \cup {none} : \E o \in Q \cup {b} : Lesser(x, o)
    BY <1>1, <2>2
  <2>5. Honest(book, Q \cup {none}, done, c)
    <3> DEFINE V == Q \cup {none}
               W == Q \cup {b}
    <3>1. Honest(book, W, done, c) /\ V \subseteq Order /\ OneEach(V)
          /\ \A x \in V : \E o \in W : Lesser(x, o)
      BY <2>3, <2>4
    <3> HIDE DEF V, W, done
    <3>2. Honest(book, V, done, c) BY <3>1, HonestAmend
    <3>3. QED BY <3>2 DEF V
  <2>6. QED BY <2>1, <2>2, <2>5 DEF n
<1>7. CASE CanMatch(m) /\ own /\ stp # "CancelTaker"
  <2>1. n = passed BY <1>4, <1>7 DEF MatchStep
  <2>2. passed.book = cut /\ passed.trades = m.trades /\ passed.taker = b
    BY <1>2
  <2>3. Honest(cut, Q \cup {b}, done, c)
    BY HonestCancel
  <2> HIDE DEF n, passed, cut
  <2>4. QED BY <2>1, <2>2, <2>3 DEF n, SameTerms
<1>8. CASE CanMatch(m) /\ ~own
  <2> DEFINE a == FrontOf(book, side)
             q == Smaller(b.qty, a.qty)
             t == [id |-> m.next, ts |-> ts, price |-> px, qty |-> q,
                   maker |-> a.id, taker |-> b.id]
             less == [b EXCEPT !.qty = b.qty - q]
             new == FrontFilled(book, side, q)
  <2>1. n = Fill(m, ts)
    BY <1>4, <1>8 DEF MatchStep
  <2>2. Fill(m, ts) = [book |-> new, taker |-> less, trades |-> Append(m.trades, t),
                       next |-> m.next + 1]
    BY DEF Fill, FrontFilled, FrontOf
  <2>3. q \in Int /\ 0 < q /\ q <= b.qty /\ q <= a.qty
    <3>1. b.qty \in Int /\ b.qty > 0 BY <1>1, <1>4, <1>8
    <3>2. a.qty \in Int /\ a.qty > 0 BY <1>4, <1>8
    <3> HIDE DEF a
    <3>3. QED BY ONLY <3>1, <3>2 DEF Smaller
  <2>4. GoodBook(new)
    <3>1. Fill(m, ts) \in MatchStates BY <1>4, <1>8, FillGood
    <3>2. Fill(m, ts).book = new BY <2>2
    <3>3. QED BY <3>1, <3>2, GoodBookSet DEF MatchStates
  <2>5. t \in Trade
    <3>1. a.id \in Ids /\ b.id \in Ids BY <1>2, <1>4, <1>8 DEF Order
    <3>2. QED BY <1>2, <1>4, <1>8, <2>3, <3>1 DEF Trade
  <2>6. t.qty = q /\ t.price = px /\ t.maker = a.id /\ t.taker = b.id
    OBVIOUS
  <2>7. SameTerms(less, b)
    BY <1>2 DEF SameTerms, Order
  <2>8. flushed \o Append(m.trades, t) = Append(done, t)
    BY <1>2, <2>5, AppendLater
  <2> HIDE DEF n, t, q, new, done
  <2>9. Honest(FrontFilled(book, Opposite(b.side), q), Q \cup {[b EXCEPT !.qty = b.qty - q]},
               Append(done, t), c)
    <3>1. Honest(book, Q \cup {b}, done, c) BY DEF done
    <3>2. Best(book, Opposite(b.side)) # None
          /\ (b.type = "Limit" => Allows(b.side, b.price, Best(book, Opposite(b.side))))
      BY <1>4, <1>8
    <3>3. q <= FrontOf(book, Opposite(b.side)).qty /\ GoodBook(FrontFilled(book, Opposite(b.side), q))
      BY <2>3, <2>4 DEF new
    <3>4. /\ t.price = Best(book, Opposite(b.side))
          /\ t.maker = FrontOf(book, Opposite(b.side)).id
      BY <2>6
    <3> HIDE DEF b, book
    <3>5. Apart(Q, {b}) BY DEF b
    <3>6. QED BY <2>3, <2>5, <2>6, <3>1, <3>2, <3>3, <3>4, <3>5, HonestFill
  <2>10. Honest(new, Q \cup {less}, Append(done, t), c)
    BY <2>9 DEF new
  <2> HIDE DEF less
  <2>11. n.book = new /\ n.taker = less /\ n.trades = Append(m.trades, t)
    BY <2>1, <2>2
  <2>12. QED BY <2>7, <2>8, <2>10, <2>11 DEF n
<1>9. QED BY <1>5, <1>6, <1>7, <1>8

(* match_buy and match_sell *)
LEMMA MatchHonest ==
  ASSUME NEW c, IsTerms(c), NEW e, e.next_trade_id \in Nat, NEW o \in Order, NEW Q,
         NEW flushed \in Seq(Trade), Honest(e.book, Q \cup {o}, flushed, c), Apart(Q, {o}),
         NEW ts \in Int
  PROVE LET m == Match(e, o, ts)
        IN  /\ m \in MatchStates /\ SameTerms(m.taker, o)
            /\ Honest(m.book, Q \cup {m.taker}, flushed \o m.trades, c)
<1> DEFINE X == {m \in MatchStates :
                   /\ SameTerms(m.taker, o)
                   /\ Honest(m.book, Q \cup {m.taker}, flushed \o m.trades, c)}
           start == [book |-> e.book, taker |-> o, trades |-> <<>>, next |-> e.next_trade_id]
<1>1. start \in X
  <2>1. GoodBook(e.book) BY HonestParts
  <2>2. start \in MatchStates BY <2>1, GoodBookSet DEF MatchStates
  <2>3. flushed \o <<>> = flushed BY ConcatEmptySeq
  <2>4. QED BY <2>2, <2>3 DEF SameTerms
<1>2. ASSUME NEW m \in X PROVE MatchStep(e.cfg.stp, ts, m) \in X
  <2> DEFINE stp == e.cfg.stp
             n == MatchStep(stp, ts, m)
  <2>1. m \in MatchStates /\ SameTerms(m.taker, o)
        /\ Honest(m.book, Q \cup {m.taker}, flushed \o m.trades, c)
    OBVIOUS
  <2>2. n \in MatchStates BY <2>1, MatchStepType
  <2>3. Apart(Q, {m.taker}) BY <2>1 DEF Apart, SameTerms
  <2> HIDE DEF stp
  <2>4. SameTerms(n.taker, m.taker) /\ Honest(n.book, Q \cup {n.taker}, flushed \o n.trades, c)
    BY <2>1, <2>3, MatchStepHonest
  <2> HIDE DEF n
  <2>5. n \in X BY <2>1, <2>2, <2>4 DEF SameTerms
  <2>6. QED BY <2>5 DEF n, stp
<1> HIDE DEF X
<1>3. Match(e, o, ts) \in X
  BY <1>1, <1>2, MatchStays
<1>4. QED BY <1>3 DEF X

----------------------------------------------------------------------------
(* The halt: the book goes to the queue *)

DrainedSoFar(book, side) ==
  {d \in DrainStates :
     /\ d.side = side /\ DOMAIN d.side_levels \subseteq DOMAIN book.levels[side]
     /\ \A p \in DOMAIN d.side_levels : d.side_levels[p] = book.levels[side][p]
     /\ Distinct(d.orders)
     /\ \A x \in Range(d.orders) : /\ x \in Resting(book) /\ x.side = side
                                   /\ x.price \notin DOMAIN d.side_levels}

LEMMA DrainStepTidy ==
  ASSUME NEW book, Tidy(book), NEW side \in Sides, NEW d \in DrainedSoFar(book, side)
  PROVE DrainStep(d) \in DrainedSoFar(book, side)
<1> DEFINE b == [levels |-> [s \in Sides |-> d.side_levels]]
           best == Best(b, d.side)
           q == book.levels[side][best].q
           r == DrainStep(d)
<1>1. /\ d \in DrainStates /\ d.side = side /\ d.orders \in Seq(Order)
      /\ DOMAIN d.side_levels \subseteq DOMAIN book.levels[side]
      /\ \A p \in DOMAIN d.side_levels : d.side_levels[p] = book.levels[side][p]
      /\ Distinct(d.orders)
      /\ \A x \in Range(d.orders) : /\ x \in Resting(book) /\ x.side = side
                                    /\ x.price \notin DOMAIN d.side_levels
  BY DEF DrainedSoFar, DrainStates
<1>2. CASE best = None
  BY <1>2 DEF DrainStep
<1>3. CASE best # None
  <2>1. b.levels[side] = d.side_levels /\ DOMAIN d.side_levels # {}
    BY <1>1, <1>3 DEF Best
  <2>2. DOMAIN d.side_levels \subseteq Prices
    <3>1. DOMAIN book.levels[side] \subseteq Prices BY DEF Tidy, GoodBook, IsBook, IsMap
    <3>2. QED BY <1>1, <3>1
  <2>3. best \in DOMAIN d.side_levels
    <3>1. Best(b, side) \in DOMAIN b.levels[side]
      <4> HIDE DEF b
      <4>1. QED BY <2>1, <2>2, BestOfLevels
    <3>2. QED BY <1>1, <2>1, <3>1
  <2>4. r = [d EXCEPT !.orders = d.orders \o d.side_levels[best].q,
                      !.side_levels = Erase(d.side_levels, best)]
    BY <1>3 DEF DrainStep
  <2> HIDE DEF best, r
  <2>5. d.side_levels[best].q = q /\ best \in DOMAIN book.levels[side]
    BY <1>1, <2>3
  <2>6. q \in Seq(Order) /\ Distinct(q)
    BY <2>5, LevelIs
  <2>7. \A x \in Range(q) : x \in Resting(book) /\ x.side = side /\ x.price = best
    BY <2>5, LevelRests
  <2> HIDE DEF q
  <2>8. Apart(Range(d.orders), Range(q))
    <3>1. SUFFICES ASSUME NEW x \in Range(d.orders), NEW y \in Range(q), x.id = y.id PROVE FALSE
      BY DEF Apart
    <3>2. x = y BY <1>1, <2>7, <3>1, RestingOnce
    <3>3. QED BY <1>1, <2>3, <2>7, <3>2
  <2>9. r.orders = d.orders \o q /\ r.side_levels = Erase(d.side_levels, best) /\ r.side = side
    BY <1>1, <2>4, <2>5 DEF DrainStates
  <2>10. Range(r.orders) = Range(d.orders) \cup Range(q) /\ Distinct(r.orders)
    <3> DEFINE first == d.orders
    <3>1. first \in Seq(Order) /\ Distinct(first) /\ Apart(Range(first), Range(q)) BY <1>1, <2>8
    <3> HIDE DEF first
    <3>2. Range(first \o q) = Range(first) \cup Range(q) /\ Distinct(first \o q)
      BY <2>6, <3>1, JoinedRange
    <3>3. QED BY <2>9, <3>2 DEF first
  <2>11. /\ DOMAIN r.side_levels = DOMAIN d.side_levels \ {best}
         /\ \A p \in DOMAIN r.side_levels : r.side_levels[p] = d.side_levels[p]
    BY <2>9 DEF Erase
  <2>12. r \in DrainStates
    BY <1>1, DrainStepType DEF r
  <2>13. \A x \in Range(r.orders) : /\ x \in Resting(book) /\ x.side = side
                                    /\ x.price \notin DOMAIN r.side_levels
    BY <1>1, <2>7, <2>10, <2>11
  <2>14. r \in DrainedSoFar(book, side)
    BY <1>1, <2>9, <2>10, <2>11, <2>12, <2>13 DEF DrainedSoFar
  <2>15. QED BY <2>14 DEF r
<1>4. QED BY <1>2, <1>3

(* The drain of a side lists resting orders of that side, each once. *)
LEMMA DrainedTidy ==
  ASSUME NEW book, Tidy(book), NEW side \in Sides
  PROVE /\ Drained(book, side) \in Seq(Order) /\ Distinct(Drained(book, side))
        /\ \A x \in Range(Drained(book, side)) : x \in Resting(book) /\ x.side = side
<1> DEFINE start == [side |-> side, side_levels |-> book.levels[side], orders |-> <<>>]
           X == DrainedSoFar(book, side)
<1>1. IsBook(book) /\ IsMap(book.levels[side], Prices, Level)
  BY DEF Tidy, GoodBook, IsBook
<1>2. start \in X
  <2>1. book.levels[side] \in Maps(Prices, Level) BY <1>1, MapSet
  <2>2. start \in DrainStates BY <2>1 DEF DrainStates
  <2>3. start.side = side /\ start.side_levels = book.levels[side] /\ start.orders = <<>>
    OBVIOUS
  <2>4. Range(start.orders) = {} /\ Distinct(start.orders) BY <2>3, EmptyRange
  <2> HIDE DEF start
  <2>5. QED BY <2>2, <2>3, <2>4 DEF DrainedSoFar
<1>3. IsFiniteSet(DOMAIN book.levels[side])
  BY <1>1, MarketAssumption, FS_Subset DEF IsMap
<1>4. \A d \in X : DrainStep(d) \in X
  BY DrainStepTidy
<1> HIDE DEF X
<1>5. PICK d \in X : Drained(book, side) = d.orders
  BY <1>2, <1>3, <1>4, DrainStays
<1>6. QED BY <1>5 DEF X, DrainedSoFar, DrainStates

(* One level less, its orders in the list. *)
LEMMA DrainStepMoves ==
  ASSUME NEW book, Tidy(book), NEW side \in Sides, NEW d \in DrainedSoFar(book, side)
  PROVE \/ DOMAIN d.side_levels = {} /\ DrainStep(d) = d
        \/ \E p \in DOMAIN d.side_levels :
             /\ DOMAIN DrainStep(d).side_levels = DOMAIN d.side_levels \ {p}
             /\ Range(DrainStep(d).orders) = Range(d.orders) \cup Range(book.levels[side][p].q)
<1> DEFINE b == [levels |-> [s \in Sides |-> d.side_levels]]
           best == Best(b, d.side)
           q == book.levels[side][best].q
           r == DrainStep(d)
<1>1. /\ d \in DrainStates /\ d.side = side /\ d.orders \in Seq(Order)
      /\ DOMAIN d.side_levels \subseteq DOMAIN book.levels[side]
      /\ \A p \in DOMAIN d.side_levels : d.side_levels[p] = book.levels[side][p]
  BY DEF DrainedSoFar, DrainStates
<1>2. b.levels[side] = d.side_levels
  OBVIOUS
<1>3. DOMAIN d.side_levels \subseteq Prices
  <2>1. DOMAIN book.levels[side] \subseteq Prices BY DEF Tidy, GoodBook, IsBook, IsMap
  <2>2. QED BY <1>1, <2>1
<1>4. CASE DOMAIN d.side_levels = {}
  <2>1. best = None BY <1>1, <1>2, <1>4 DEF Best
  <2>2. DrainStep(d) = d BY <2>1 DEF DrainStep
  <2>3. QED BY <1>4, <2>2
<1>5. CASE DOMAIN d.side_levels # {}
  <2>1. best \in DOMAIN d.side_levels
    <3>1. Best(b, side) \in DOMAIN b.levels[side]
      <4> HIDE DEF b
      <4>1. QED BY <1>2, <1>3, <1>5, BestOfLevels
    <3>2. QED BY <1>1, <1>2, <3>1
  <2>2. best # None BY <1>3, <2>1, MarketAssumption
  <2>3. r = [d EXCEPT !.orders = d.orders \o d.side_levels[best].q,
                      !.side_levels = Erase(d.side_levels, best)]
    BY <2>2 DEF DrainStep
  <2> HIDE DEF best, r
  <2>4. d.side_levels[best].q = q /\ best \in DOMAIN book.levels[side]
    BY <1>1, <2>1
  <2>5. q \in Seq(Order) BY <2>4, LevelIs
  <2>6. r.orders = d.orders \o q /\ r.side_levels = Erase(d.side_levels, best)
    BY <1>1, <2>3, <2>4 DEF DrainStates
  <2>7. Range(r.orders) = Range(d.orders) \cup Range(q)
    <3> DEFINE first == d.orders
    <3>1. first \in Seq(Order) BY <1>1
    <3> HIDE DEF first, q
    <3>2. Range(first \o q) = Range(first) \cup Range(q) BY <2>5, <3>1, JoinedRange
    <3>3. QED BY <2>6, <3>2 DEF first
  <2>8. DOMAIN r.side_levels = DOMAIN d.side_levels \ {best}
    BY <2>6 DEF Erase
  <2>9. QED BY <2>1, <2>7, <2>8 DEF r, q
<1>6. QED BY <1>4, <1>5

(* What holds of the start and is handed on by every step, with a count. *)
LEMMA DrainCounts ==
  ASSUME NEW book, NEW side, NEW X, NEW Z, IsFiniteSet(DOMAIN book.levels[side]),
         [side |-> side, side_levels |-> book.levels[side], orders |-> <<>>] \in X,
         \A d \in X : DrainStep(d) \in X,
         [side |-> side, side_levels |-> book.levels[side], orders |-> <<>>] \in Z[0],
         \A k \in Nat : \A d \in X : d \in Z[k] => DrainStep(d) \in Z[k + 1]
  PROVE \E d \in X \cap Z[Cardinality(DOMAIN book.levels[side])] : Drained(book, side) = d.orders
<1> DEFINE n == Cardinality(DOMAIN book.levels[side])
<1>1. n \in Nat
  BY FS_CardinalityType
<1>2. PICK run : /\ run[0] = [side |-> side, side_levels |-> book.levels[side], orders |-> <<>>]
                 /\ Drained(book, side) = run[n].orders
                 /\ \A k \in Nat : run[k] \in X /\ run[k + 1] = DrainStep(run[k])
  BY ONLY [side |-> side, side_levels |-> book.levels[side], orders |-> <<>>] \in X,
          \A d \in X : DrainStep(d) \in X, DrainRun
<1> HIDE DEF n
<1>3. run[0] \in Z[0] BY <1>2
<1>4. ASSUME NEW k \in Nat, run[k] \in Z[k] PROVE run[k + 1] \in Z[k + 1]
  BY <1>2, <1>4
<1>5. run[n] \in Z[n]
  BY <1>1, <1>3, <1>4, RunCounts
<1>6. QED BY <1>1, <1>2, <1>5 DEF n

(* The drain of a side lists every resting order of that side. *)
LEMMA DrainedAll ==
  ASSUME NEW book, Tidy(book), NEW side \in Sides,
         NEW x \in Resting(book), x.side = side
  PROVE x \in Range(Drained(book, side))
<1> DEFINE start == [side |-> side, side_levels |-> book.levels[side], orders |-> <<>>]
           lv == book.levels[side]
           P == DOMAIN lv
           N == Cardinality(P)
           Moved(d) == \A p \in P : p \in DOMAIN d.side_levels \/ Range(lv[p].q) \subseteq Range(d.orders)
           X == {d \in DrainedSoFar(book, side) : Moved(d)}
           Z == [k \in Nat |-> {d \in X : \/ DOMAIN d.side_levels = {}
                                          \/ Cardinality(DOMAIN d.side_levels) + k <= N}]
<1>1. IsBook(book) /\ IsMap(lv, Prices, Level)
  BY DEF Tidy, GoodBook, IsBook
<1>2. IsFiniteSet(P) /\ N \in Nat
  BY <1>1, MarketAssumption, FS_Subset, FS_CardinalityType DEF IsMap
<1>3. start \in X /\ start.side_levels = lv
  <2>1. lv \in Maps(Prices, Level) BY <1>1, MapSet
  <2>2. start \in DrainStates BY <2>1 DEF DrainStates
  <2>3. start.side = side /\ start.side_levels = lv /\ start.orders = <<>>
    OBVIOUS
  <2>4. Range(start.orders) = {} /\ Distinct(start.orders) BY <2>3, EmptyRange
  <2> HIDE DEF start
  <2>5. start \in DrainedSoFar(book, side) BY <2>2, <2>3, <2>4 DEF DrainedSoFar
  <2>6. QED BY <2>3, <2>5
<1>4. ASSUME NEW d \in X PROVE DrainStep(d) \in X
  <2>1. d \in DrainedSoFar(book, side) /\ Moved(d) OBVIOUS
  <2>2. DrainStep(d) \in DrainedSoFar(book, side) BY <2>1, DrainStepTidy
  <2>3. Moved(DrainStep(d))
    <3>1. CASE DrainStep(d) = d BY <2>1, <3>1
    <3>2. ASSUME NEW p \in DOMAIN d.side_levels,
                 DOMAIN DrainStep(d).side_levels = DOMAIN d.side_levels \ {p},
                 Range(DrainStep(d).orders) = Range(d.orders) \cup Range(lv[p].q)
          PROVE Moved(DrainStep(d))
      BY <2>1, <3>2
    <3> HIDE DEF Moved
    <3>3. QED BY <2>1, <3>1, <3>2, DrainStepMoves
  <2> HIDE DEF Moved
  <2>4. QED BY <2>2, <2>3
<1>5. start \in Z[0]
  <2>1. Cardinality(DOMAIN start.side_levels) + 0 <= N BY <1>2, <1>3
  <2> HIDE DEF start, X, N
  <2>2. QED BY <1>3, <2>1
<1>6. ASSUME NEW k \in Nat, NEW d \in X, d \in Z[k] PROVE DrainStep(d) \in Z[k + 1]
  <2> DEFINE r == DrainStep(d)
             A == DOMAIN d.side_levels
             B == DOMAIN r.side_levels
  <2>1. r \in X /\ d \in DrainedSoFar(book, side) /\ k + 1 \in Nat BY <1>4
  <2>2. A = {} \/ Cardinality(A) + k <= N BY <1>6
  <2>3. A \subseteq P BY DEF DrainedSoFar
  <2>4. IsFiniteSet(A) BY <1>2, <2>3, FS_Subset
  <2>5. \/ A = {} /\ r = d
        \/ \E p \in A : B = A \ {p}
    BY <2>1, DrainStepMoves
  <2>6. SUFFICES B = {} \/ Cardinality(B) + (k + 1) <= N
    <3> HIDE DEF X, N
    <3>1. QED BY <2>1
  <2>7. CASE A = {} /\ r = d BY <2>7
  <2>8. ASSUME NEW p \in A, B = A \ {p} PROVE Cardinality(B) + (k + 1) <= N
    <3> HIDE DEF A, B, N
    <3>1. Cardinality(A) \in Nat /\ Cardinality(B) = Cardinality(A) - 1
      BY <2>4, <2>8, FS_RemoveElement, FS_CardinalityType
    <3>2. Cardinality(A) + k <= N BY <2>2, <2>8
    <3>3. QED BY <1>2, <3>1, <3>2
  <2> HIDE DEF A, B, r
  <2>9. QED BY <2>5, <2>7, <2>8
<1>7. PICK d \in X \cap Z[N] : Drained(book, side) = d.orders
  <2>1. \A d \in X : DrainStep(d) \in X BY <1>4
  <2>2. \A k \in Nat : \A d \in X : d \in Z[k] => DrainStep(d) \in Z[k + 1] BY <1>6
  <2>3. start \in X /\ IsFiniteSet(DOMAIN book.levels[side]) BY <1>2, <1>3
  <2> HIDE DEF Z, X
  <2>4. QED BY <1>5, <2>1, <2>2, <2>3, DrainCounts
<1>8. d \in DrainedSoFar(book, side) /\ Moved(d)
      /\ (DOMAIN d.side_levels = {} \/ Cardinality(DOMAIN d.side_levels) + N <= N)
  BY <1>2, <1>7
<1>9. DOMAIN d.side_levels = {}
  <2> DEFINE A == DOMAIN d.side_levels
  <2>1. A \subseteq P BY <1>8 DEF DrainedSoFar
  <2>2. A = {} \/ Cardinality(A) + N <= N BY <1>8
  <2> HIDE DEF A, N
  <2>3. IsFiniteSet(A) BY <1>2, <2>1, FS_Subset
  <2>4. Cardinality(A) \in Nat BY <2>3, FS_CardinalityType
  <2>5. A = {} BY <1>2, <2>2, <2>3, <2>4, FS_EmptySet
  <2>6. QED BY <2>5 DEF A
<1>10. x.price \in P /\ x \in Range(lv[x.price].q)
  BY RestingIs
<1>11. x \in Range(d.orders)
  BY <1>8, <1>9, <1>10
<1>12. QED BY <1>7, <1>11

----------------------------------------------------------------------------
(* An engine and the orders V in the hands of the call: the new order, or none. *)

Kept(e, V, trades, c) ==
  /\ Honest(e.book, Range(e.queue) \cup V, trades, c)
  /\ Distinct(e.queue) /\ Apart(Range(e.queue), V)

(* Only the book and the queue matter. *)
LEMMA KeptElsewhere ==
  ASSUME NEW e, NEW new, new.book = e.book, new.queue = e.queue,
         NEW V, NEW trades, NEW c, Kept(e, V, trades, c)
  PROVE Kept(new, V, trades, c)
BY DEF Kept

(* The orders in the hands of the call may be dropped. *)
LEMMA KeptDrop ==
  ASSUME NEW c, IsTerms(c), NEW e, NEW V, NEW trades, Kept(e, V, trades, c),
         NEW U, U \subseteq V
  PROVE Kept(e, U, trades, c)
<1> DEFINE W == Range(e.queue) \cup V
           X == Range(e.queue) \cup U
           book == e.book
<1>1. Honest(book, W, trades, c) /\ X \subseteq W
  BY DEF Kept
<1> HIDE DEF W, X, book
<1>2. Honest(book, X, trades, c)
  BY <1>1, HonestDrop
<1>3. QED BY <1>2 DEF Kept, Apart, X, book

(* The halt: what rested is queued. *)
LEMMA HaltKept ==
  ASSUME NEW c, IsTerms(c), NEW e, GoodEngine(e), NEW V, NEW trades, Kept(e, V, trades, c),
         NEW ts
  PROVE Kept(Halt(e, ts), V, trades, c)
<1> DEFINE x == e.queue
           y == Drained(e.book, "Buy")
           z == Drained(e.book, "Sell")
           q == x \o y \o z
           book == e.book
           L == Resting(book) \cup (Range(x) \cup V)
<1>1. /\ Honest(book, Range(x) \cup V, trades, c) /\ Tidy(book)
      /\ Distinct(x) /\ Apart(Range(x), V) /\ x \in Seq(Order)
      /\ Apart(Resting(book), Range(x)) /\ Apart(Resting(book), V)
      /\ L \subseteq Order /\ OneEach(L) /\ \A o \in L : Lesser(o, o)
  <2>1. x \in Seq(Order) BY EngineFields
  <2>2. Honest(book, Range(x) \cup V, trades, c) /\ Distinct(x) /\ Apart(Range(x), V)
    BY DEF Kept
  <2> DEFINE W == Range(x) \cup V
  <2> HIDE DEF book, x, W
  <2>3. Honest(book, W, trades, c)
    BY <2>2 DEF W
  <2>4. /\ Tidy(book) /\ Apart(Resting(book), W)
        /\ \A o \in Resting(book) \cup W : Lesser(o, o)
    BY <2>3, HonestParts
  <2>5. Resting(book) \cup W \subseteq Order /\ OneEach(Resting(book) \cup W)
    BY <2>3 DEF Honest, Entitled
  <2>6. Apart(Resting(book), Range(x)) /\ Apart(Resting(book), V)
    BY <2>4 DEF Apart, W
  <2>7. QED BY <2>1, <2>2, <2>4, <2>5, <2>6 DEF W
<1>2. "Buy" \in Sides /\ "Sell" \in Sides
  BY DEF Sides
<1>3. /\ y \in Seq(Order) /\ Distinct(y)
      /\ z \in Seq(Order) /\ Distinct(z)
      /\ \A o \in Range(y) : o \in Resting(book) /\ o.side = "Buy"
      /\ \A o \in Range(z) : o \in Resting(book) /\ o.side = "Sell"
  BY <1>1, <1>2, DrainedTidy
<1>4. /\ Halt(e, ts).queue = q /\ Halt(e, ts).book = EmptyBook
  BY DEF Halt, GoodEngine, IsEngine
<1> DEFINE halted == Halt(e, ts)
<1> HIDE DEF x, y, z, book, halted
<1>5. /\ x \o y \in Seq(Order) /\ Range(x \o y) = Range(x) \cup Range(y) /\ Distinct(x \o y)
  <2>1. Apart(Range(x), Range(y)) BY <1>1, <1>3 DEF Apart
  <2>2. QED BY <1>1, <1>3, <2>1, JoinedRange
<1>6. /\ Range(q) = Range(x) \cup Range(y) \cup Range(z) /\ Distinct(q)
  <2> DEFINE p == x \o y
  <2>1. \A a \in Range(y), b \in Range(z) : a.id # b.id
    BY <1>1, <1>3, RestingOnce
  <2>2. Apart(Range(p), Range(z)) BY <1>1, <1>3, <1>5, <2>1 DEF Apart
  <2>3. p \in Seq(Order) /\ Distinct(p) BY <1>5
  <2> HIDE DEF p
  <2>4. Range(p \o z) = Range(p) \cup Range(z) /\ Distinct(p \o z)
    BY <1>3, <2>2, <2>3, JoinedRange
  <2>5. QED BY <1>5, <2>4 DEF p
<1> HIDE DEF q
<1>7. Range(q) \cup V \subseteq L
  BY <1>3, <1>6
<1> DEFINE W == Range(x) \cup V
           U == Range(q) \cup V
<1>8. Honest(EmptyBook, U, trades, c)
  <2>1. U \subseteq Order /\ OneEach(U) /\ \A o \in U : Lesser(o, o)
    BY <1>1, <1>7 DEF OneEach
  <2>2. Tidy(EmptyBook) /\ Resting(EmptyBook) = {} /\ Apart(Resting(EmptyBook), U)
    BY EmptyTidy DEF Apart
  <2>3. \A o \in Resting(EmptyBook) \cup U : \E p \in Resting(book) \cup W : Lesser(o, p)
    BY <1>7, <2>1, <2>2
  <2>4. Honest(book, W, trades, c) BY <1>1
  <2> HIDE DEF U, W
  <2>5. QED BY <2>1, <2>2, <2>3, <2>4, HonestLess
<1>9. Apart(Range(q), V)
  BY <1>1, <1>3, <1>6 DEF Apart
<1>10. Kept(halted, V, trades, c)
  BY <1>4, <1>6, <1>8, <1>9 DEF Kept, halted
<1>11. QED BY <1>10 DEF halted

(* on_trades and the breaker *)
LEMMA TradesKept ==
  ASSUME NEW c, IsTerms(c), NEW e, GoodEngine(e), NEW V, NEW trades, Kept(e, V, trades, c),
         NEW told \in Seq(Trade)
  PROVE Kept(MaybeTriggerCircuitBreaker(OnTrades(e, told), told), V, trades, c)
<1> DEFINE e1 == OnTrades(e, told)
           ref == IF e1.cb_ref = None THEN Head(told).price ELSE e1.cb_ref
           armed == [e1 EXCEPT !.cb_ref = ref]
<1>1. GoodEngine(e1) /\ Kept(e1, V, trades, c)
  <2>1. GoodEngine(e1) BY OnTradesGood
  <2>2. e1.book = e.book /\ e1.queue = e.queue
    BY DEF OnTrades, GoodEngine, IsEngine
  <2> HIDE DEF e1
  <2>3. QED BY <2>1, <2>2, KeptElsewhere
<1> HIDE DEF e1
<1>2. CASE ~e1.cfg.breaker \/ told = <<>> \/ e1.phase # "Continuous"
  BY <1>1, <1>2 DEF MaybeTriggerCircuitBreaker, e1
<1>3. CASE ~(~e1.cfg.breaker \/ told = <<>> \/ e1.phase # "Continuous")
  <2>1. Head(told).price \in Prices /\ Last(told).ts \in Int
    BY <1>3, EndTrades DEF Trade
  <2>2. ref \in Prices \cup {None}
    BY <1>1, <2>1, EngineFields
  <2>3. GoodEngine(armed) /\ Kept(armed, V, trades, c)
    <3>1. armed.book = e1.book /\ armed.queue = e1.queue BY <1>1 DEF GoodEngine, IsEngine
    <3> HIDE DEF ref
    <3>2. GoodEngine(armed) BY <1>1, <2>2, SetPrice
    <3> HIDE DEF armed
    <3>3. QED BY <1>1, <3>1, <3>2, KeptElsewhere
  <2>4. MaybeTriggerCircuitBreaker(e1, told) \in {armed, Halt(armed, Last(told).ts)}
    <3>1. MaybeTriggerCircuitBreaker(e1, told) =
            IF Last(told).price > MulDivBps(ref, 10000 - armed.cfg.drop_bps)
            THEN armed ELSE Halt(armed, Last(told).ts)
      BY <1>3 DEF MaybeTriggerCircuitBreaker
    <3> HIDE DEF armed, ref
    <3>2. QED BY <3>1
  <2> HIDE DEF armed
  <2>5. Kept(Halt(armed, Last(told).ts), V, trades, c)
    BY <2>3, HaltKept
  <2>6. QED BY <2>3, <2>4, <2>5 DEF e1
<1>4. QED BY <1>2, <1>3

----------------------------------------------------------------------------
(* The auction: pairing.  The book waits, the queue trades. *)

PairsKept(n, book, V, c) ==
  {u \in PairStates(n) : /\ Distinct(u.queue) /\ Apart(Range(u.queue), V)
                         /\ Honest(book, Range(u.queue) \cup V, u.trades, c)}

(* What is left of an order when n of it has traded. *)
Left(o, n) == [o EXCEPT !.qty = o.qty - n]

(* The orders at a and b lose what they trade with each other. *)
LEMMA PairedRange ==
  ASSUME NEW q \in Seq(Order), NEW r \in Seq(Order), Len(r) = Len(q), Distinct(q),
         NEW a \in 1 .. Len(q), NEW b \in 1 .. Len(q), NEW n \in Int, 0 < n,
         n <= q[a].qty, n <= q[b].qty,
         \A k \in 1 .. Len(q) : q[k].qty \in Nat,
         \A k \in 1 .. Len(q) : r[k] = IF k \in {a, b} THEN Left(q[k], n) ELSE q[k]
  PROVE /\ Distinct(r)
        /\ \A x \in Range(r) : \E o \in Range(q) :
             /\ Lesser(x, o)
             /\ o.id \in {q[a].id, q[b].id} => x.qty <= o.qty - n
<1>1. ASSUME NEW k \in 1 .. Len(q)
      PROVE /\ q[k] \in Order /\ r[k].id = q[k].id /\ Lesser(r[k], q[k])
            /\ k \in {a, b} => r[k].qty = q[k].qty - n
  <2>1. q[k] \in Order BY ElementOfSeq
  <2>2. CASE k \in {a, b}
    <3>1. r[k] = [q[k] EXCEPT !.qty = q[k].qty - n] BY <2>2 DEF Left
    <3>2. /\ r[k].id = q[k].id /\ r[k].qty = q[k].qty - n /\ r[k].side = q[k].side
          /\ r[k].type = q[k].type /\ r[k].price = q[k].price /\ r[k].owner = q[k].owner
      BY <2>1, <3>1 DEF Order
    <3>3. q[k].qty \in Nat /\ n <= q[k].qty BY <2>2
    <3>4. QED BY <2>1, <3>2, <3>3 DEF Lesser
  <2>3. CASE k \notin {a, b}
    <3>1. r[k] = q[k] /\ q[k].qty \in Nat BY <2>3
    <3>2. QED BY <2>1, <2>3, <3>1 DEF Lesser
  <2>4. QED BY <2>1, <2>2, <2>3
<1>2. Distinct(r)
  BY <1>1 DEF Distinct
<1>3. ASSUME NEW x \in Range(r)
      PROVE \E o \in Range(q) : /\ Lesser(x, o)
                                /\ o.id \in {q[a].id, q[b].id} => x.qty <= o.qty - n
  <2>1. PICK k \in 1 .. Len(q) : x = r[k] BY RangeIs
  <2>2. q[k] \in Range(q) BY RangeIs
  <2>3. ASSUME q[k].id \in {q[a].id, q[b].id} PROVE x.qty <= q[k].qty - n
    <3>1. k \in {a, b} BY <2>3 DEF Distinct
    <3>2. x.qty = q[k].qty - n BY <1>1, <2>1, <3>1
    <3>3. q[k].qty \in Nat OBVIOUS
    <3>4. QED BY <3>2, <3>3
  <2>4. QED BY <1>1, <2>1, <2>2, <2>3
<1>4. QED BY <1>2, <1>3

LEMMA PairStepKept ==
  ASSUME NEW c, IsTerms(c), NEW n, NEW book, NEW V, NEW u \in PairsKept(n, book, V, c),
         NEW px \in Prices, NEW ts \in Int
  PROVE PairStep(px, ts, u) \in PairsKept(n, book, V, c)
<1> DEFINE open(side) == {i \in DOMAIN u.queue : /\ u.queue[i].side = side
                                                 /\ Eligible(u.queue[i], px)
                                                 /\ u.queue[i].qty > 0}
           w == u.queue
           b == First(w, open("Buy"))
           s == First(w, open("Sell"))
           m == Smaller(w[b].qty, w[s].qty)
           t == [id |-> u.next, ts |-> ts, price |-> px, qty |-> m,
                 maker |-> w[s].id, taker |-> w[b].id]
           q == [i \in DOMAIN w |-> IF i \in {b, s} THEN Left(w[i], m) ELSE w[i]]
           r == PairStep(px, ts, u)
<1>1. /\ u \in PairStates(n) /\ w \in Seq(Order) /\ Len(w) = n
      /\ u.trades \in Seq(Trade) /\ u.next \in Nat
      /\ Distinct(w) /\ Apart(Range(w), V)
      /\ Honest(book, Range(w) \cup V, u.trades, c)
  BY DEF PairsKept, PairStates
<1>2. r \in PairStates(n)
  BY <1>1, PairStepType
<1>3. CASE open("Buy") = {} \/ open("Sell") = {}
  <2>1. r = u BY <1>3, Zenon DEF PairStep
  <2> HIDE DEF r
  <2>2. QED BY <2>1 DEF r
<1>4. CASE ~(open("Buy") = {} \/ open("Sell") = {})
  <2>1. b \in open("Buy") /\ s \in open("Sell")
    <3> DEFINE B == open("Buy")
               C == open("Sell")
    <3>1. /\ B # {} /\ B \subseteq DOMAIN w /\ C # {} /\ C \subseteq DOMAIN w
      BY <1>4
    <3> HIDE DEF B, C, w
    <3>2. First(w, B) \in B /\ First(w, C) \in C
      BY <1>1, <3>1, FirstType
    <3>3. QED BY <3>2 DEF B, C, w
  <2>2. r = [queue |-> q, trades |-> Append(u.trades, t), next |-> u.next + 1]
    BY <1>4 DEF PairStep, Left
  <2>3. /\ b \in 1 .. n /\ w[b].side = "Buy" /\ Eligible(w[b], px) /\ w[b].qty > 0
        /\ s \in 1 .. n /\ w[s].side = "Sell" /\ Eligible(w[s], px) /\ w[s].qty > 0
        /\ DOMAIN w = 1 .. n
    <3>1. DOMAIN w = 1 .. n BY <1>1, LenProperties
    <3> HIDE DEF b, s, m
    <3>2. QED BY <2>1, <3>1
  <2> HIDE DEF b, s, open, w
  <2> DEFINE L == Resting(book) \cup (Range(w) \cup V)
             M == Resting(book) \cup (Range(q) \cup V)
  <2>4. /\ Tidy(book) /\ Apart(Resting(book), Range(w)) /\ Apart(Resting(book), V)
        /\ \A o \in L : o \in Order /\ o.qty \in Nat /\ Lesser(o, o)
        /\ OneEach(V) /\ V \subseteq Order /\ Entitled(L, u.trades, c)
    <3> DEFINE W == Range(w) \cup V
    <3> HIDE DEF W
    <3>1. Honest(book, W, u.trades, c) BY <1>1 DEF W
    <3>2. /\ Tidy(book) /\ Apart(Resting(book), W) /\ OneEach(W) /\ W \subseteq Order
          /\ \A o \in Resting(book) \cup W : o \in Order /\ o.qty \in Nat /\ Lesser(o, o)
      BY <3>1, HonestParts
    <3>3. Entitled(Resting(book) \cup W, u.trades, c) BY <3>1 DEF Honest
    <3>4. QED BY <3>2, <3>3 DEF Apart, OneEach, W
  <2>5. \A i \in 1 .. n : w[i] \in Range(w) /\ w[i] \in Order /\ w[i].qty \in Nat
    BY <1>1, <2>4, RangeIs
  <2>6. m \in Int /\ 0 < m /\ m <= w[b].qty /\ m <= w[s].qty
    BY <2>3, <2>5 DEF Smaller
  <2> HIDE DEF m
  <2>7. t \in Trade /\ t.qty = m /\ t.price = px /\ t.maker = w[s].id /\ t.taker = w[b].id
    BY <1>1, <2>3, <2>5, <2>6 DEF Trade, Order
  <2> HIDE DEF t
  <2>8. q \in Seq(Order) /\ Len(q) = n
    <3>1. r.queue = q BY <2>2
    <3> HIDE DEF r, q
    <3>2. QED BY <1>2, <3>1 DEF PairStates
  <2>9. \A k \in 1 .. n : q[k] = IF k \in {b, s} THEN Left(w[k], m) ELSE w[k]
    BY <2>3
  <2> HIDE DEF q, r
  <2>10. /\ Distinct(q)
         /\ \A x \in Range(q) : \E o \in Range(w) :
              /\ Lesser(x, o)
              /\ o.id \in {w[b].id, w[s].id} => x.qty <= o.qty - m
    <3>1. /\ s \in 1 .. Len(w) /\ b \in 1 .. Len(w) /\ Len(q) = Len(w)
          /\ \A k \in 1 .. Len(w) : w[k].qty \in Nat
          /\ \A k \in 1 .. Len(w) : q[k] = IF k \in {b, s} THEN Left(w[k], m) ELSE w[k]
      BY <1>1, <2>3, <2>5, <2>8, <2>9
    <3>2. w \in Seq(Order) /\ Distinct(w) /\ q \in Seq(Order)
      BY <1>1, <2>8
    <3>3. QED BY <2>6, <3>1, <3>2, PairedRange
  <2>11. /\ Apart(Range(q), V) /\ Apart(Resting(book), Range(q))
         /\ Range(q) \subseteq Order
    BY <1>1, <2>4, <2>8, <2>10, RangeIs DEF Apart, Lesser
  <2>12. OneEach(Range(q))
    BY <2>8, <2>10, SameOrder DEF OneEach
  <2>13. Apart(Resting(book), Range(q) \cup V) /\ OneEach(Range(q) \cup V)
         /\ Range(q) \cup V \subseteq Order
    BY <2>4, <2>11, <2>12 DEF Apart, OneEach
  <2>14. M \subseteq Order /\ OneEach(M)
    BY <2>4, <2>13, OneEachOf
  <2>15. w[s] \in L /\ w[b] \in L
    BY <2>3, <2>5
  <2>16. ASSUME NEW x \in M
         PROVE \E o \in L : Lesser(x, o) /\ (o.id \in {w[s].id, w[b].id} => x.qty <= o.qty - t.qty)
    <3>1. CASE x \in Resting(book) \cup V
      <4>1. x.id \notin {w[s].id, w[b].id} BY <1>1, <2>3, <2>4, <2>5, <3>1 DEF Apart
      <4>2. QED BY <2>4, <3>1, <4>1
    <3>2. CASE x \in Range(q)
      BY <2>7, <2>10, <3>2
    <3>3. QED BY <3>1, <3>2
  <2>17. \A i \in {b, s} : w[i].type = "Limit" => Allows(w[i].side, w[i].price, t.price)
    BY <2>3, <2>7 DEF Eligible
  <2>18. {w[s].side, w[b].side} = {"Buy", "Sell"} /\ t.qty > 0 /\ t.qty <= w[s].qty /\ t.qty <= w[b].qty
    BY <2>3, <2>6, <2>7
  <2> HIDE DEF L, M
  <2>19. Entitled(M, Append(u.trades, t), c)
    <3> DEFINE maker == w[s]
               taker == w[b]
    <3>1. /\ maker \in L /\ taker \in L /\ {maker.side, taker.side} = {"Buy", "Sell"}
          /\ t.maker = maker.id /\ t.taker = taker.id /\ t.qty > 0
          /\ t.qty <= maker.qty /\ t.qty <= taker.qty
          /\ maker.type = "Limit" => Allows(maker.side, maker.price, t.price)
          /\ taker.type = "Limit" => Allows(taker.side, taker.price, t.price)
          /\ \A x \in M : \E o \in L :
               Lesser(x, o) /\ (o.id \in {maker.id, taker.id} => x.qty <= o.qty - t.qty)
      BY <2>7, <2>15, <2>16, <2>17, <2>18
    <3> HIDE DEF maker, taker
    <3>2. QED BY <2>4, <2>7, <2>14, <3>1, AccountFill
  <2>20. Honest(book, Range(q) \cup V, Append(u.trades, t), c)
    BY <2>4, <2>13, <2>19 DEF Honest, M
  <2>21. r.queue = q /\ r.trades = Append(u.trades, t)
    BY <2>2
  <2>22. r \in PairsKept(n, book, V, c)
    BY <1>2, <2>10, <2>11, <2>20, <2>21 DEF PairsKept
  <2>23. QED BY <2>22 DEF r
<1>5. QED BY <1>3, <1>4

(* All pairings of an uncrossing. *)
LEMMA PairedKept ==
  ASSUME NEW c, IsTerms(c), NEW e, GoodEngine(e), NEW V, Kept(e, V, <<>>, c),
         NEW px \in Prices, NEW ts \in Int
  PROVE Paired(e, px, ts) \in PairsKept(Len(e.queue), e.book, V, c)
<1> DEFINE n == Len(e.queue)
           book == e.book
           X == PairsKept(n, book, V, c)
           start == [queue |-> e.queue, trades |-> <<>>, next |-> e.next_trade_id]
<1>1. e.queue \in Seq(Order) /\ e.next_trade_id \in Nat
  BY EngineFields
<1>2. start \in X
  <2>1. start \in PairStates(n) BY <1>1 DEF PairStates
  <2>2. start.queue = e.queue /\ start.trades = <<>> OBVIOUS
  <2> HIDE DEF start, n
  <2>3. QED BY <2>1, <2>2 DEF PairsKept, Kept
<1> HIDE DEF n, book
<1>3. \A u \in X : PairStep(px, ts, u) \in X
  BY PairStepKept
<1> HIDE DEF X
<1>4. Paired(e, px, ts) \in X
  BY <1>1, <1>2, <1>3, PairedStays
<1>5. QED BY <1>4 DEF X, n, book

----------------------------------------------------------------------------
(* The auction: putting back what is left *)

(* The orders at some positions of a queue. *)
At(q, S) == {q[i] : i \in S}

LEMMA AtParts ==
  ASSUME NEW q \in Seq(Order), Distinct(q), NEW S, S \subseteq DOMAIN q
  PROVE /\ At(q, S) \subseteq Range(q)
        /\ \A T : T \subseteq DOMAIN q /\ S \cap T = {} => Apart(At(q, S), At(q, T))
<1>1. DOMAIN q = 1 .. Len(q)
  BY RangeIs
<1>2. At(q, S) \subseteq Range(q)
  BY <1>1, RangeIs DEF At
<1>3. ASSUME NEW T, T \subseteq DOMAIN q, S \cap T = {}
      PROVE Apart(At(q, S), At(q, T))
  <2>1. SUFFICES ASSUME NEW i \in S, NEW j \in T, q[i].id = q[j].id PROVE FALSE
    BY DEF Apart, At
  <2>2. i \in 1 .. Len(q) /\ j \in 1 .. Len(q) BY <1>1, <1>3
  <2>3. i = j BY <2>1, <2>2 DEF Distinct
  <2>4. QED BY <1>3, <2>1, <2>3
<1>4. QED BY <1>2, <1>3

RestocksHonest(queue, V, trades, c) ==
  {r \in RestockStates(DOMAIN queue) : /\ Apart(At(queue, r.todo), V)
                                       /\ Honest(r.book, At(queue, r.todo) \cup V, trades, c)}

LEMMA RestockStepHonest ==
  ASSUME NEW c, IsTerms(c), NEW queue \in Seq(Order), Distinct(queue), NEW by_id,
         NEW V, NEW trades, NEW r \in RestocksHonest(queue, V, trades, c)
  PROVE RestockStep(queue, by_id, r) \in RestocksHonest(queue, V, trades, c)
<1> DEFINE T == r.todo
           i == IF by_id THEN First(queue, T) ELSE CHOOSE k \in T : \A j \in T : k <= j
           new == RestockStep(queue, by_id, r)
<1>1. /\ r \in RestockStates(DOMAIN queue) /\ T \subseteq DOMAIN queue
      /\ Apart(At(queue, T), V) /\ Honest(r.book, At(queue, T) \cup V, trades, c)
  BY DEF RestocksHonest, RestockStates
<1>2. CASE T = {}
  BY <1>2 DEF RestockStep
<1>3. CASE T # {}
  <2>1. i \in T
    <3> HIDE DEF T
    <3>1. DOMAIN queue \subseteq Nat
      <4>1. DOMAIN queue = 1 .. Len(queue) BY LenProperties
      <4>2. QED BY <4>1
    <3>2. \E k \in T : \A j \in T : k <= j BY <1>1, <1>3, <3>1, LeastNat
    <3>3. First(queue, T) \in T BY <1>1, <1>3, FirstType
    <3>4. QED BY <3>2, <3>3
  <2> DEFINE o == queue[i]
             book == AddRestingLimit(r.book, queue[i]).book
             W == At(queue, T) \cup V
             rest == At(queue, T \ {i})
  <2>2. new = [todo |-> T \ {i}, book |-> book]
    BY <1>3 DEF RestockStep
  <2>3. new \in RestockStates(DOMAIN queue)
    BY <1>1, RestockStepType
  <2> HIDE DEF i, T, new
  <2>4. o \in At(queue, T) /\ o \in W
    BY <2>1 DEF At
  <2>5. rest \subseteq At(queue, T) /\ Apart(rest, {o})
    <3>1. /\ T \ {i} \subseteq DOMAIN queue /\ {i} \subseteq DOMAIN queue
          /\ (T \ {i}) \cap {i} = {}
      BY <1>1, <2>1
    <3>2. Apart(At(queue, T \ {i}), At(queue, {i}))
      BY <3>1, AtParts
    <3>3. At(queue, {i}) = {o} BY DEF At
    <3>4. QED BY <3>2, <3>3 DEF At
  <2>6. Apart(rest, V) /\ o \notin V
    BY <1>1, <2>4, <2>5 DEF Apart
  <2>7. rest \cup V \subseteq W \ {o}
    BY <2>5, <2>6 DEF Apart
  <2>8. Honest(book, W \ {o}, trades, c)
    <3> DEFINE b == r.book
    <3>1. Honest(b, W, trades, c) BY <1>1
    <3> HIDE DEF b, W, o
    <3>2. Honest(AddRestingLimit(b, o).book, W \ {o}, trades, c)
      BY <2>4, <3>1, HonestRest
    <3>3. QED BY <3>2 DEF b, o
  <2> HIDE DEF book, W, o, rest
  <2>9. Honest(book, rest \cup V, trades, c)
    BY <2>7, <2>8, HonestDrop
  <2>10. new.todo = T \ {i} /\ new.book = book
    BY <2>2
  <2>11. new \in RestocksHonest(queue, V, trades, c)
    BY <2>3, <2>6, <2>9, <2>10 DEF RestocksHonest, rest
  <2>12. QED BY <2>11 DEF new
<1>4. QED BY <1>2, <1>3

(* All the orders of some positions: they rest or are gone. *)
LEMMA RestockHonest ==
  ASSUME NEW c, IsTerms(c), NEW queue \in Seq(Order), Distinct(queue), NEW by_id,
         NEW book, NEW T, T \subseteq DOMAIN queue, NEW V, NEW trades,
         Apart(At(queue, T), V), Honest(book, At(queue, T) \cup V, trades, c)
  PROVE Honest(Restock(book, queue, T, by_id), V, trades, c)
<1> DEFINE X == RestocksHonest(queue, V, trades, c)
           start == [todo |-> T, book |-> book]
<1>1. start \in X
  <2>1. GoodBook(book)
    <3> DEFINE W == At(queue, T) \cup V
    <3> HIDE DEF W
    <3>1. Honest(book, W, trades, c) BY DEF W
    <3>2. QED BY <3>1, HonestParts
  <2>2. start \in RestockStates(DOMAIN queue) BY <2>1, GoodBookSet DEF RestockStates
  <2>3. start.todo = T /\ start.book = book OBVIOUS
  <2> HIDE DEF start
  <2>4. QED BY <2>2, <2>3 DEF RestocksHonest
<1>2. \A r \in X : RestockStep(queue, by_id, r) \in X
  BY RestockStepHonest
<1> HIDE DEF X
<1>3. PICK r \in X : Restock(book, queue, T, by_id) = r.book
  BY <1>1, <1>2, RestockStays
<1>4. Honest(r.book, At(queue, r.todo) \cup V, trades, c)
  BY <1>3 DEF X, RestocksHonest
<1>5. Honest(r.book, V, trades, c)
  <2> DEFINE b == r.book
             W == At(queue, r.todo) \cup V
  <2>1. V \subseteq W /\ Honest(b, W, trades, c) BY <1>4
  <2> HIDE DEF b, W
  <2>2. Honest(b, V, trades, c) BY <2>1, HonestDrop
  <2>3. QED BY <2>2 DEF b
<1>6. QED BY <1>3, <1>5

----------------------------------------------------------------------------
(* Uncrossing *)

(* uncross_auction at a clearing price. *)
LEMMA UncrossAtKept ==
  ASSUME NEW c, IsTerms(c), NEW e, GoodEngine(e), NEW V, Kept(e, V, <<>>, c),
         NEW px \in Prices, NEW ts \in Int
  PROVE LET r == UncrossAt(e, px, ts)
        IN  r.eng.queue = <<>> /\ Honest(r.eng.book, V, r.trades, c)
<1> DEFINE u == Paired(e, px, ts)
           q == u.queue
           left(side) == {i \in LimitsLeft(q) : q[i].side = side /\ Eligible(q[i], px)}
           buys == left("Buy")
           sells == left("Sell")
           others == LimitsLeft(q) \ (buys \cup sells)
           book0 == e.book
           book1 == Restock(book0, q, buys, TRUE)
           book2 == Restock(book1, q, sells, TRUE)
           book3 == Restock(book2, q, others, FALSE)
           r == UncrossAt(e, px, ts)
           trades == u.trades
<1>1. u \in PairsKept(Len(e.queue), book0, V, c)
  BY PairedKept
<1>2. r = [eng |-> [e EXCEPT !.book = book3, !.queue = <<>>, !.next_trade_id = u.next],
           trades |-> trades]
  BY DEF UncrossAt, Leftovers
<1> HIDE DEF u, r
<1>3. /\ q \in Seq(Order) /\ Distinct(q) /\ Apart(Range(q), V)
      /\ Honest(book0, Range(q) \cup V, trades, c)
  BY <1>1 DEF PairsKept, PairStates
<1> HIDE DEF q, trades
<1>4. /\ buys \subseteq DOMAIN q /\ sells \subseteq DOMAIN q /\ others \subseteq DOMAIN q
      /\ buys \cap sells = {} /\ buys \cap others = {} /\ sells \cap others = {}
  BY DEF LimitsLeft
<1> HIDE DEF buys, sells, others, book0, book1, book2, book3
<1> DEFINE A == At(q, buys)
           B == At(q, sells)
           C == At(q, others)
<1>5. /\ A \subseteq Range(q) /\ B \subseteq Range(q) /\ C \subseteq Range(q)
      /\ Apart(A, B) /\ Apart(A, C) /\ Apart(B, C)
  BY <1>3, <1>4, AtParts
<1> DEFINE rest2 == C \cup V
           rest1 == B \cup rest2
<1>6. /\ Apart(A, rest1) /\ Apart(B, rest2) /\ Apart(C, V)
      /\ A \cup rest1 \subseteq Range(q) \cup V
  BY <1>3, <1>5 DEF Apart
<1> HIDE DEF rest1, rest2
<1>7. Honest(book0, A \cup rest1, trades, c)
  <2> DEFINE W == Range(q) \cup V
             U == A \cup rest1
  <2>1. Honest(book0, W, trades, c) /\ U \subseteq W BY <1>3, <1>6
  <2> HIDE DEF U, W
  <2>2. QED BY <2>1, HonestDrop DEF U
<1>8. Honest(book1, rest1, trades, c)
  BY <1>3, <1>4, <1>6, <1>7, RestockHonest DEF book1
<1>9. Honest(book2, rest2, trades, c)
  <2>1. Honest(book1, B \cup rest2, trades, c) BY <1>8 DEF rest1
  <2>2. QED BY <1>3, <1>4, <1>6, <2>1, RestockHonest DEF book2
<1>10. Honest(book3, V, trades, c)
  <2>1. Honest(book2, C \cup V, trades, c) BY <1>9 DEF rest2
  <2>2. QED BY <1>3, <1>4, <1>6, <2>1, RestockHonest DEF book3
<1>11. r.eng.queue = <<>> /\ r.eng.book = book3 /\ r.trades = trades
  BY <1>2 DEF GoodEngine, IsEngine
<1>12. QED BY <1>10, <1>11 DEF r

(* uncross_auction *)
LEMMA UncrossKept ==
  ASSUME NEW c, IsTerms(c), NEW e, GoodEngine(e), NEW V, Kept(e, V, <<>>, c), NEW ts \in Int
  PROVE LET r == UncrossAuction(e, ts)
        IN  r.eng.queue = <<>> /\ Honest(r.eng.book, V, r.trades, c)
<1> DEFINE px == ComputeClearingPrice(e)
           q == e.queue
           T == LimitsLeft(q)
           old == e.book
           book == Restock(old, q, T, FALSE)
           r == UncrossAuction(e, ts)
<1>1. px \in Prices \cup {None}
  BY ClearingPriceType
<1>2. CASE px # None
  <2>1. r = UncrossAt(e, px, ts) BY <1>2 DEF UncrossAuction
  <2> HIDE DEF px, r
  <2>2. r.eng.queue = <<>> /\ Honest(r.eng.book, V, r.trades, c)
    BY <1>1, <1>2, <2>1, UncrossAtKept
  <2>3. QED BY <2>2 DEF r
<1>3. CASE px = None
  <2>1. r = [eng |-> [e EXCEPT !.book = book, !.queue = <<>>], trades |-> <<>>]
    BY <1>3 DEF UncrossAuction
  <2> HIDE DEF r
  <2>2. r.eng.queue = <<>> /\ r.eng.book = book /\ r.trades = <<>>
    BY <2>1 DEF GoodEngine, IsEngine
  <2>3. /\ q \in Seq(Order) /\ Distinct(q) /\ Apart(Range(q), V)
        /\ Honest(old, Range(q) \cup V, <<>>, c)
    BY EngineFields DEF Kept
  <2>4. T \subseteq DOMAIN q
    BY DEF LimitsLeft
  <2> HIDE DEF q, T, old
  <2>5. At(q, T) \subseteq Range(q)
    BY <2>3, <2>4, AtParts
  <2>6. Apart(At(q, T), V)
    BY <2>3, <2>5 DEF Apart
  <2>7. Honest(old, At(q, T) \cup V, <<>>, c)
    <3> DEFINE W == Range(q) \cup V
               U == At(q, T) \cup V
    <3>1. Honest(old, W, <<>>, c) /\ U \subseteq W BY <2>3, <2>5
    <3> HIDE DEF U, W
    <3>2. QED BY <3>1, HonestDrop DEF U
  <2>8. Honest(book, V, <<>>, c)
    BY <2>3, <2>4, <2>6, <2>7, RestockHonest
  <2>9. QED BY <2>2, <2>8 DEF r
<1>4. QED BY <1>2, <1>3

----------------------------------------------------------------------------
(* flush *)

(* The end of an auction: what is left rests, and the prints may cause a halt. *)
LEMMA ExpireAuctionKept ==
  ASSUME NEW c, IsTerms(c), NEW e, GoodEngine(e), NEW V, Kept(e, V, <<>>, c), NEW ts \in Int
  PROVE LET r == ExpireAuction(e, ts) IN Kept(r.eng, V, r.trades, c)
<1> DEFINE u == UncrossAuction(e, e.auction_end)
           p == IF e.phase = "ClosingAuction" THEN "Closed" ELSE "Continuous"
           next == [u.eng EXCEPT !.phase = p]
           r == ExpireAuction(e, ts)
<1>1. CASE ~AuctionDue(e, ts)
  <2>1. r.eng = e /\ r.trades = <<>> BY <1>1 DEF ExpireAuction
  <2> HIDE DEF r
  <2>2. Kept(r.eng, V, r.trades, c) BY <2>1
  <2>3. QED BY <2>2 DEF r
<1>2. CASE AuctionDue(e, ts)
  <2>1. /\ GoodEngine(u.eng) /\ u.trades \in Seq(Trade)
        /\ u.eng.queue = <<>> /\ Honest(u.eng.book, V, u.trades, c)
    <3>1. e.auction_end \in Int BY EngineFields
    <3>2. QED BY <3>1, UncrossGood, UncrossKept DEF GoodOutcome
  <2>2. p \in Phases /\ 0 \in Int BY DEF Phases
  <2>3. r = [eng |-> MaybeTriggerCircuitBreaker(OnTrades(next, u.trades), u.trades),
             trades |-> u.trades]
    BY <1>2 DEF ExpireAuction, EndAuction
  <2> HIDE DEF p, u, r
  <2>4. GoodEngine(next) BY <2>1, <2>2, SetPhase
  <2>5. next.queue = <<>> /\ next.book = u.eng.book
    BY <2>1 DEF GoodEngine, IsEngine
  <2> HIDE DEF next
  <2>6. Kept(next, V, u.trades, c)
    <3>1. Range(next.queue) = {} /\ Distinct(next.queue) BY <2>5, EmptyRange
    <3>2. Range(next.queue) \cup V = V BY <3>1
    <3>3. QED BY <2>1, <2>5, <3>1, <3>2 DEF Kept, Apart
  <2>7. Kept(MaybeTriggerCircuitBreaker(OnTrades(next, u.trades), u.trades), V, u.trades, c)
    BY <2>1, <2>4, <2>6, TradesKept
  <2>8. Kept(r.eng, V, r.trades, c)
    BY <2>3, <2>7
  <2>9. QED BY <2>8 DEF r
<1>3. QED BY <1>1, <1>2

LEMMA FlushKept ==
  ASSUME NEW c, IsTerms(c), NEW e0, GoodEngine(e0), NEW V, Kept(e0, V, <<>>, c), NEW ts \in Int
  PROVE LET f == Flush(e0, ts) IN Kept(f.eng, V, f.trades, c)
<1> DEFINE e1 == ExpireTradingAtLast(e0, ts)
           e2 == ExpireHalt(e1, ts)
           r == ExpireAuction(e2, ts)
<1>1. GoodEngine(e1) /\ e1.book = e0.book /\ e1.queue = e0.queue
  <2>1. GoodEngine(e1) BY ExpireGood
  <2>2. QED BY <2>1 DEF ExpireTradingAtLast, GoodEngine, IsEngine
<1> HIDE DEF e1
<1>2. GoodEngine(e2) /\ e2.book = e0.book /\ e2.queue = e0.queue
  <2>1. GoodEngine(e2) BY <1>1, ExpireGood
  <2>2. QED BY <1>1, <2>1 DEF ExpireHalt, GoodEngine, IsEngine
<1> HIDE DEF e2
<1>3. Kept(e2, V, <<>>, c)
  BY <1>2, KeptElsewhere
<1>4. Kept(r.eng, V, r.trades, c)
  BY <1>2, <1>3, ExpireAuctionKept
<1>5. QED BY <1>4 DEF Flush, e1, e2

----------------------------------------------------------------------------
(* process *)

(* The order of the call becomes a limit order at the last price. *)
LEMMA KeptAmend ==
  ASSUME NEW c, IsTerms(c), NEW e, NEW o, NEW trades, Kept(e, {o}, trades, c),
         NEW x \in Order, Lesser(x, o)
  PROVE Kept(e, {x}, trades, c)
<1> DEFINE Q == Range(e.queue)
           W == Q \cup {o}
           V == Q \cup {x}
           book == e.book
<1>1. Honest(book, W, trades, c) /\ Distinct(e.queue) /\ Apart(Q, {o})
  BY DEF Kept
<1> HIDE DEF Q, book
<1>2. W \subseteq Order /\ OneEach(W) /\ \A y \in W : Lesser(y, y)
  <2> HIDE DEF W
  <2>1. QED BY <1>1, HonestParts
<1>3. Apart(Q, {x}) /\ V \subseteq Order /\ OneEach(V)
  BY <1>1, <1>2 DEF Apart, OneEach, Lesser
<1>4. \A y \in V : \E z \in W : Lesser(y, z)
  BY <1>2
<1> HIDE DEF W
<1>5. Honest(book, V, trades, c)
  <2> HIDE DEF V
  <2>1. QED BY <1>1, <1>3, <1>4, HonestAmend
<1>6. QED BY <1>1, <1>3, <1>5 DEF Kept, Q, book

(* queue_in_auction *)
LEMMA QueueKept ==
  ASSUME NEW e, GoodEngine(e), NEW o \in Order, NEW trades, NEW c, Kept(e, {o}, trades, c)
  PROVE Kept(QueueInAuction(e, o), {}, trades, c)
<1> DEFINE q == e.queue
           r == Append(q, o)
           new == QueueInAuction(e, o)
<1>1. q \in Seq(Order) /\ Distinct(q) /\ Apart(Range(q), {o})
      /\ Honest(e.book, Range(q) \cup {o}, trades, c)
  BY EngineFields DEF Kept
<1>2. new.queue = r /\ new.book = e.book
  BY DEF QueueInAuction, GoodEngine, IsEngine
<1> HIDE DEF q, new
<1>3. Range(r) = Range(q) \cup {o} /\ Distinct(r)
  BY <1>1, AppendedRange
<1> HIDE DEF r
<1>4. Range(r) \cup {} = Range(q) \cup {o} /\ Apart(Range(r), {})
  BY <1>3 DEF Apart
<1>5. Kept(new, {}, trades, c)
  BY <1>1, <1>2, <1>3, <1>4 DEF Kept
<1>6. QED BY <1>5 DEF new

(* An order is matched by process_limit or process_market: what is left of it
   rests or is gone. *)
LEMMA RestLeftKept ==
  ASSUME NEW c, IsTerms(c), NEW e, GoodEngine(e), Distinct(e.queue),
         NEW m \in MatchStates, NEW trades, Honest(m.book, Range(e.queue) \cup {m.taker}, trades, c),
         Apart(Range(e.queue), {m.taker}), NEW left \in Order, Lesser(left, m.taker)
  PROVE /\ Kept(RestLeft(e, m, left).eng, {}, trades, c)
        /\ Kept(Unrested(e, m).eng, {}, trades, c)
<1> DEFINE Q == Range(e.queue)
           b == AddRestingLimit(m.book, left).book
           rested == RestLeft(e, m, left).eng
           unrested == Unrested(e, m).eng
<1>1. /\ rested.queue = e.queue /\ rested.book = b
      /\ unrested.queue = e.queue /\ unrested.book = m.book
  BY DEF RestLeft, Unrested, AfterMatch, GoodEngine, IsEngine, MatchStates
<1> HIDE DEF rested, unrested
<1>2. Honest(m.book, Q, trades, c)
  <2> DEFINE W == Q \cup {m.taker}
             book == m.book
  <2>1. Honest(book, W, trades, c) /\ Q \subseteq W OBVIOUS
  <2> HIDE DEF W, Q, book
  <2>2. Honest(book, Q, trades, c) BY <2>1, HonestDrop
  <2>3. QED BY <2>2 DEF book
<1>3. Honest(b, Q, trades, c)
  <2> DEFINE taker == m.taker
             book == m.book
             W == Q \cup {taker}
             V == Q \cup {left}
  <2>1. Honest(book, W, trades, c) /\ Apart(Q, {taker}) OBVIOUS
  <2> HIDE DEF Q, taker, book
  <2>2. W \subseteq Order /\ OneEach(W) /\ \A y \in W : Lesser(y, y)
    <3> HIDE DEF W
    <3>1. QED BY <2>1, HonestParts
  <2>3. Lesser(left, taker) BY DEF taker
  <2>4. Apart(Q, {left}) /\ V \subseteq Order /\ OneEach(V)
    BY <2>1, <2>2, <2>3 DEF Apart, OneEach, Lesser
  <2>5. \A y \in V : \E z \in W : Lesser(y, z)
    BY <2>2, <2>3
  <2>6. V \ {left} = Q /\ left \in V
    BY <2>4 DEF Apart
  <2> HIDE DEF W, V
  <2>7. Honest(book, V, trades, c)
    BY <2>1, <2>4, <2>5, HonestAmend
  <2>8. Honest(AddRestingLimit(book, left).book, V \ {left}, trades, c)
    BY <2>6, <2>7, HonestRest
  <2>9. QED BY <2>6, <2>8 DEF book
<1>4. Range(e.queue) \cup {} = Q /\ Apart(Range(e.queue), {})
  BY DEF Apart
<1> HIDE DEF b, Q
<1>5. Kept(rested, {}, trades, c) /\ Kept(unrested, {}, trades, c)
  BY <1>1, <1>2, <1>3, <1>4 DEF Kept
<1>6. QED BY <1>5 DEF rested, unrested

LEMMA MatchedKept ==
  ASSUME NEW c, IsTerms(c), NEW e, GoodEngine(e), NEW o \in Order, NEW ts \in Int,
         NEW flushed \in Seq(Trade), Kept(e, {o}, flushed, c)
  PROVE /\ Kept(ProcessLimit(e, o, ts).eng, {}, flushed \o ProcessLimit(e, o, ts).trades, c)
        /\ o.type = "Market" =>
             Kept(ProcessMarket(e, o, ts).eng, {}, flushed \o ProcessMarket(e, o, ts).trades, c)
<1> DEFINE Q == Range(e.queue)
           m == Match(e, o, ts)
           done == flushed \o m.trades
           left == [m.taker EXCEPT !.type = "Limit", !.tif = "GTC",
                                   !.price = Last(m.trades).price, !.style = "PureMarket"]
           limit == ProcessLimit(e, o, ts)
           market == ProcessMarket(e, o, ts)
<1>1. Honest(e.book, Q \cup {o}, flushed, c) /\ Distinct(e.queue) /\ Apart(Q, {o})
  BY DEF Kept
<1>2. /\ limit = IF o.tif # "IOC" /\ m.taker.qty > 0 THEN RestLeft(e, m, m.taker) ELSE Unrested(e, m)
      /\ market = IF o.style = "MarketToLimit" /\ m.taker.qty > 0 /\ m.trades # <<>>
                  THEN RestLeft(e, m, left) ELSE Unrested(e, m)
  BY DEF ProcessLimit, ProcessMarket
<1>3. m \in MatchStates /\ SameTerms(m.taker, o) /\ Honest(m.book, Q \cup {m.taker}, done, c)
  <2>1. e.next_trade_id \in Nat BY EngineFields
  <2> HIDE DEF Q
  <2>2. QED BY <1>1, <2>1, MatchHonest
<1> HIDE DEF m, limit, market, done
<1>4. /\ m.taker \in Order /\ m.trades \in Seq(Trade) /\ Apart(Q, {m.taker})
      /\ Lesser(m.taker, m.taker)
  <2> DEFINE W == Q \cup {m.taker}
             book == m.book
  <2>1. Honest(book, W, done, c) BY <1>3
  <2>2. m.taker \in W OBVIOUS
  <2> HIDE DEF W, book
  <2>3. Lesser(m.taker, m.taker) BY <2>1, <2>2, HonestParts
  <2>4. QED BY <1>1, <1>3, <2>3 DEF MatchStates, Apart, SameTerms
<1>5. /\ Kept(RestLeft(e, m, m.taker).eng, {}, done, c)
      /\ Kept(Unrested(e, m).eng, {}, done, c)
  BY <1>1, <1>3, <1>4, RestLeftKept
<1>6. /\ RestLeft(e, m, m.taker).trades = m.trades /\ RestLeft(e, m, left).trades = m.trades
      /\ Unrested(e, m).trades = m.trades
  BY DEF RestLeft, Unrested
<1>7. ASSUME o.type = "Market", m.trades # <<>>
      PROVE Kept(RestLeft(e, m, left).eng, {}, done, c)
  <2>1. Last(m.trades).price \in Prices BY <1>4, <1>7, EndTrades DEF Trade
  <2>2. left \in Order /\ Lesser(left, m.taker)
    BY <1>3, <1>4, <1>7, <2>1 DEF Order, Lesser, SameTerms
  <2> HIDE DEF left
  <2>3. QED BY <1>1, <1>3, <1>4, <2>2, RestLeftKept
<1> HIDE DEF left
<1>8. Kept(limit.eng, {}, flushed \o limit.trades, c)
  BY <1>2, <1>5, <1>6 DEF done
<1>9. o.type = "Market" => Kept(market.eng, {}, flushed \o market.trades, c)
  BY <1>2, <1>5, <1>6, <1>7 DEF done
<1>10. QED BY <1>8, <1>9 DEF limit, market

(* The end of process(). *)
LEMMA SettledKept ==
  ASSUME NEW c, IsTerms(c), NEW flushed \in Seq(Trade), NEW r, GoodOutcome(r),
         Kept(r.eng, {}, flushed \o r.trades, c)
  PROVE Kept(Settled(flushed, r).eng, {}, Settled(flushed, r).trades, c)
<1> DEFINE e == r.eng
           new == r.trades
           trades == flushed \o new
           s == Settled(flushed, r)
<1>1. GoodEngine(e) /\ new \in Seq(Trade) /\ Kept(e, {}, trades, c)
  BY DEF GoodOutcome
<1>2. s.eng = MaybeTriggerCircuitBreaker(OnTrades(e, trades), trades) /\ s.trades = trades
  BY DEF Settled, Result
<1> HIDE DEF e, new, s
<1>3. trades \in Seq(Trade)
  BY <1>1, ConcatProperties
<1> HIDE DEF trades
<1>4. Kept(s.eng, {}, s.trades, c)
  BY <1>1, <1>2, <1>3, TradesKept
<1>5. QED BY <1>4 DEF s

LEMMA TradingAtLastKept ==
  ASSUME NEW c, IsTerms(c), NEW e, GoodEngine(e), NEW o \in Order, o.qty > 0, NEW ts \in Int,
         NEW flushed \in Seq(Trade), Kept(e, {o}, flushed, c)
  PROVE LET r == ProcessTradingAtLast(e, flushed, o, ts) IN Kept(r.eng, {}, r.trades, c)
<1> DEFINE at_last == [o EXCEPT !.type = "Limit", !.price = e.last]
           refused(s) == Result(e, flushed, None, s)
           m == ProcessLimit(e, at_last, ts)
           r == ProcessTradingAtLast(e, flushed, o, ts)
<1>1. \A s : refused(s).eng = e /\ refused(s).trades = flushed
  BY DEF Result
<1>2. \/ \E s \in {"NoReferencePrice", "PriceNotAtLast"} : r = refused(s)
      \/ /\ e.last # None /\ ~(o.type = "Limit" /\ o.price # e.last)
         /\ r = Settled(flushed, m)
  BY DEF ProcessTradingAtLast
<1> HIDE DEF refused, r
<1>3. Kept(e, {}, flushed, c)
  BY KeptDrop
<1>4. ASSUME e.last # None, ~(o.type = "Limit" /\ o.price # e.last)
      PROVE LET s == Settled(flushed, m) IN Kept(s.eng, {}, s.trades, c)
  <2>1. e.last \in Prices BY <1>4, EngineFields
  <2>2. at_last \in Order /\ Lesser(at_last, o)
    <3>1. /\ at_last.id = o.id /\ at_last.side = o.side /\ at_last.qty = o.qty
          /\ at_last.owner = o.owner /\ at_last.type = "Limit" /\ at_last.price = e.last
      BY DEF Order
    <3>2. at_last \in Order BY <2>1 DEF Order
    <3>3. o.qty \in Nat BY DEF Order
    <3> HIDE DEF at_last
    <3>4. QED BY <1>4, <3>1, <3>2, <3>3 DEF Lesser
  <2> HIDE DEF at_last
  <2>3. Kept(e, {at_last}, flushed, c) BY <2>2, KeptAmend
  <2>4. GoodOutcome(m) BY <2>2, ProcessLimitGood
  <2>5. Kept(m.eng, {}, flushed \o m.trades, c) BY <2>2, <2>3, MatchedKept
  <2> HIDE DEF m
  <2>6. QED BY <2>4, <2>5, SettledKept
<1> HIDE DEF m
<1>5. Kept(r.eng, {}, r.trades, c)
  BY <1>1, <1>2, <1>3, <1>4
<1>6. QED BY <1>5 DEF r

LEMMA ContinuousKept ==
  ASSUME NEW c, IsTerms(c), NEW e, GoodEngine(e), NEW o \in Order, NEW ts \in Int,
         NEW flushed \in Seq(Trade), Kept(e, {o}, flushed, c)
  PROVE LET r == ProcessContinuous(e, flushed, o, ts) IN Kept(r.eng, {}, r.trades, c)
<1> DEFINE end == ts + e.cfg.vol_auction
           auction == [e EXCEPT !.phase = "Auction", !.auction_end = end]
           nothing == [eng |-> e, trades |-> <<>>, resting |-> None]
           queued == Result(QueueInAuction(auction, o), flushed, None, "Accepted")
           limit == ProcessLimit(e, o, ts)
           market == ProcessMarket(e, o, ts)
           r == ProcessContinuous(e, flushed, o, ts)
<1>1. Kept(queued.eng, {}, queued.trades, c)
  <2>1. auction.book = e.book /\ auction.queue = e.queue
    BY DEF GoodEngine, IsEngine
  <2>2. GoodEngine(auction)
    <3>1. "Auction" \in Phases BY DEF Phases
    <3>2. end \in Int
      <4>1. e.cfg.vol_auction \in Nat BY EngineFields
      <4>2. QED BY <4>1
    <3> HIDE DEF end
    <3>3. QED BY <3>1, <3>2, SetPhase
  <2>3. queued.eng = QueueInAuction(auction, o) /\ queued.trades = flushed
    BY DEF Result
  <2> HIDE DEF auction, queued
  <2>4. Kept(auction, {o}, flushed, c)
    BY <2>1, KeptElsewhere
  <2>5. Kept(QueueInAuction(auction, o), {}, flushed, c)
    BY <2>2, <2>4, QueueKept
  <2>6. QED BY <2>3, <2>5
<1>2. GoodOutcome(nothing) /\ Kept(nothing.eng, {}, flushed \o nothing.trades, c)
  <2>1. GoodOutcome(nothing) BY DEF GoodOutcome
  <2>2. flushed \o <<>> = flushed BY ConcatEmptySeq
  <2>3. Kept(e, {}, flushed, c) BY KeptDrop
  <2>4. QED BY <2>1, <2>2, <2>3
<1>3. /\ GoodOutcome(limit) /\ Kept(limit.eng, {}, flushed \o limit.trades, c)
      /\ GoodOutcome(market)
      /\ o.type = "Market" => Kept(market.eng, {}, flushed \o market.trades, c)
  BY ProcessLimitGood, ProcessMarketGood, MatchedKept
<1>4. \/ r = queued
      \/ r = Settled(flushed, nothing)
      \/ r = Settled(flushed, limit)
      \/ o.type = "Market" /\ r = Settled(flushed, market)
  BY DEF ProcessContinuous
<1> HIDE DEF queued, nothing, limit, market, r
<1>5. Kept(r.eng, {}, r.trades, c)
  BY <1>1, <1>2, <1>3, <1>4, SettledKept
<1>6. QED BY <1>5 DEF r

(* An order for nothing is not accepted. *)
LEMMA NothingRefused ==
  ASSUME NEW cfg, NEW phase, NEW o \in Order, ~(o.qty > 0)
  PROVE PreAccept(cfg, phase, o) # "Accepted"
<1>1. o.qty <= 0
  BY DEF Order
<1>2. QED BY <1>1 DEF PreAccept

(* process() keeps the accounts, whatever the phase, the order and the time: V
   is the new order, unless it is an order for nothing. *)
THEOREM ProcessKept ==
  ASSUME NEW c, IsTerms(c), NEW e0, GoodEngine(e0), NEW o \in Order, NEW ts \in Int,
         Kept(e0, IF o.qty > 0 THEN {o} ELSE {}, <<>>, c)
  PROVE LET r == Process(e0, o, ts) IN Kept(r.eng, {}, r.trades, c)
<1> DEFINE V == IF o.qty > 0 THEN {o} ELSE {}
           f == Flush(e0, ts)
           e == f.eng
           flushed == f.trades
           status == PreAccept(e.cfg, e.phase, o)
           refused(s) == Result(e, flushed, None, s)
           queued == Result(QueueInAuction(e, o), flushed, None, "Accepted")
           r == Process(e0, o, ts)
<1>1. GoodEngine(e) /\ flushed \in Seq(Trade)
  BY FlushGood DEF GoodOutcome
<1>2. Kept(e, V, flushed, c)
  BY FlushKept
<1>3. \/ \E s \in {status, "Accepted", "MarketHalted"} : r = refused(s)
      \/ /\ status = "Accepted"
         /\ \/ r = queued
            \/ r = ProcessTradingAtLast(e, flushed, o, ts)
            \/ r = ProcessContinuous(e, flushed, o, ts)
  <2>1. r = IF status # "Accepted" THEN Result(e, flushed, None, status)
            ELSE CASE e.phase = "Closed" -> Result(e, flushed, None, "Accepted")
                   [] e.phase = "Halted" ->
                        IF e.cfg.queue_halt
                        THEN Result(QueueInAuction(e, o), flushed, None, "Accepted")
                        ELSE Result(e, flushed, None, "MarketHalted")
                   [] e.phase = "TradingAtLast" -> ProcessTradingAtLast(e, flushed, o, ts)
                   [] e.phase \in {"Auction", "ClosingAuction"} ->
                        Result(QueueInAuction(e, o), flushed, None, "Accepted")
                   [] e.phase = "Continuous" -> ProcessContinuous(e, flushed, o, ts)
    BY DEF Process, ProcessFlushed
  <2>2. e.phase \in Phases BY <1>1, EngineFields
  <2> HIDE DEF r, f, status
  <2>3. QED BY <2>1, <2>2 DEF Phases
<1>4. /\ \A s : refused(s).eng = e /\ refused(s).trades = flushed
      /\ queued.eng = QueueInAuction(e, o) /\ queued.trades = flushed
  BY DEF Result
<1>5. status = "Accepted" => o.qty > 0
  BY NothingRefused
<1> HIDE DEF r, f, status, refused, queued
<1>6. Kept(e, {}, flushed, c)
  BY <1>2, KeptDrop
<1>7. ASSUME status = "Accepted"
      PROVE /\ Kept(queued.eng, {}, queued.trades, c)
            /\ Kept(ProcessTradingAtLast(e, flushed, o, ts).eng, {},
                    ProcessTradingAtLast(e, flushed, o, ts).trades, c)
            /\ Kept(ProcessContinuous(e, flushed, o, ts).eng, {},
                    ProcessContinuous(e, flushed, o, ts).trades, c)
  <2>1. o.qty > 0 /\ Kept(e, {o}, flushed, c) BY <1>2, <1>5, <1>7
  <2> HIDE DEF e, flushed, V
  <2>2. QED BY <1>1, <1>4, <2>1, QueueKept, TradingAtLastKept, ContinuousKept
<1>8. Kept(r.eng, {}, r.trades, c)
  BY <1>3, <1>4, <1>6, <1>7
<1>9. QED BY <1>8 DEF r

----------------------------------------------------------------------------
(* The terms of a call: what each order of L may still trade *)

(* The orders an engine holds: resting or queued. *)
Held(e) == Resting(e.book) \cup Range(e.queue)

(* Each is in one place. *)
Placed(e) ==
  Tidy(e.book) /\ Distinct(e.queue) /\ Apart(Resting(e.book), Range(e.queue))

(* Each is what a known order has become. *)
FromKnown(L, known) == \A o \in L : Stems(o, known) /\ o.qty \in Nat

PrintsOK(trades, known) == \A k \in 1 .. Len(trades) : TradeOK(trades[k], known)

Room(L, id) ==
  IF \E o \in L : o.id = id THEN (CHOOSE o \in L : o.id = id).qty ELSE 0

Terms(known, L) == [known |-> known, room |-> [id \in Ids |-> Room(L, id)]]

LEMMA RoomIs ==
  ASSUME NEW L, OneEach(L)
  PROVE /\ \A o \in L : Room(L, o.id) = o.qty
        /\ \A id : (\A o \in L : o.id # id) => Room(L, id) = 0
<1>1. ASSUME NEW o \in L PROVE Room(L, o.id) = o.qty
  <2> DEFINE x == CHOOSE y \in L : y.id = o.id
  <2>1. x \in L /\ x.id = o.id
    OBVIOUS
  <2>2. x = o
    BY <2>1 DEF OneEach
  <2>3. Room(L, o.id) = x.qty
    BY DEF Room
  <2>4. QED BY <2>2, <2>3
<1>2. QED BY <1>1 DEF Room

LEMMA TermsAre ==
  ASSUME NEW known, known \subseteq Order, NEW L, L \subseteq Order, OneEach(L),
         FromKnown(L, known)
  PROVE /\ IsTerms(Terms(known, L)) /\ Terms(known, L).known = known
        /\ \A id \in Ids : Terms(known, L).room[id] = Room(L, id) /\ Room(L, id) \in Nat
<1>1. ASSUME NEW id \in Ids PROVE Room(L, id) \in Nat
  <2>1. CASE \E o \in L : o.id = id
    <3>1. PICK o \in L : o.id = id BY <2>1
    <3>2. Room(L, o.id) = o.qty BY RoomIs
    <3>3. o.qty \in Nat BY DEF FromKnown
    <3>4. QED BY <3>1, <3>2, <3>3
  <2>2. CASE ~ \E o \in L : o.id = id
    BY <2>2 DEF Room
  <2>3. QED BY <2>1, <2>2
<1>2. [id \in Ids |-> Room(L, id)] \in [Ids -> Int]
  BY <1>1
<1>3. QED BY <1>1, <1>2 DEF Terms, IsTerms

LEMMA HeldOnce ==
  ASSUME NEW e, GoodEngine(e), Placed(e)
  PROVE /\ Held(e) \subseteq Order /\ OneEach(Held(e))
        /\ Range(e.queue) \subseteq Order /\ OneEach(Range(e.queue))
<1> DEFINE W == Range(e.queue)
           book == e.book
<1>1. e.queue \in Seq(Order)
  BY EngineFields
<1>2. W \subseteq Order
  BY <1>1, RangeIs
<1>3. OneEach(W)
  BY <1>1, SameOrder DEF Placed, OneEach
<1>4. Tidy(book) /\ Apart(Resting(book), W)
  BY DEF Placed
<1> HIDE DEF W, book
<1>5. Resting(book) \cup W \subseteq Order /\ OneEach(Resting(book) \cup W)
  BY <1>2, <1>3, <1>4, OneEachOf
<1>6. QED BY <1>2, <1>3, <1>5 DEF Held, W, book

(* At the start of a call, V the new order or nothing, every order may trade
   what it has. *)
LEMMA CallBegins ==
  ASSUME NEW e, GoodEngine(e), Placed(e), NEW known, known \subseteq Order,
         NEW V, V \subseteq Order, OneEach(V), Apart(Held(e), V),
         FromKnown(Held(e) \cup V, known)
  PROVE LET L == Held(e) \cup V
            c == Terms(known, L)
        IN  OneEach(L) /\ L \subseteq Order /\ IsTerms(c) /\ Kept(e, V, <<>>, c)
<1> DEFINE L == Held(e) \cup V
           c == Terms(known, L)
           book == e.book
           Q == Range(e.queue)
           W == Q \cup V
<1>1. Held(e) \subseteq Order /\ OneEach(Held(e)) /\ Q \subseteq Order
  BY HeldOnce
<1>2. L \subseteq Order /\ OneEach(L)
  BY <1>1 DEF OneEach, Apart
<1>3. FromKnown(L, known)
  OBVIOUS
<1>4. Held(e) = Resting(book) \cup Q /\ L = Resting(book) \cup W
  BY DEF Held
<1>5. Tidy(book) /\ Apart(Resting(book), Q) /\ Distinct(e.queue)
  BY DEF Placed
<1> HIDE DEF L, book, Q
<1>6. /\ IsTerms(c) /\ c.known = known
      /\ \A id \in Ids : c.room[id] = Room(L, id) /\ Room(L, id) \in Nat
  BY <1>2, <1>3, TermsAre
<1> HIDE DEF c
<1>7. Apart(Resting(book), W) /\ Apart(Q, V)
  BY <1>4, <1>5 DEF Apart
<1>8. \A id : TradedBy(id, <<>>) = 0
  BY NothingTraded
<1>9. Entitled(L, <<>>, c)
  <2>1. <<>> \in Seq(Trade) /\ \A k \in 1 .. Len(<<>>) : TradeOK(<<>>[k], c.known)
    OBVIOUS
  <2>2. \A o \in L : /\ Stems(o, c.known) /\ o.qty \in Nat
                     /\ TradedBy(o.id, <<>>) + o.qty <= c.room[o.id]
    <3>1. SUFFICES ASSUME NEW o \in L
                   PROVE /\ Stems(o, c.known) /\ o.qty \in Nat
                         /\ TradedBy(o.id, <<>>) + o.qty <= c.room[o.id]
      OBVIOUS
    <3>2. o.id \in Ids BY <1>2 DEF Order
    <3>3. c.room[o.id] = o.qty BY <1>2, <1>6, <3>2, RoomIs
    <3>4. Stems(o, known) /\ o.qty \in Nat BY <1>3 DEF FromKnown
    <3>5. QED BY <1>6, <1>8, <3>3, <3>4
  <2>3. \A id \in Ids : TradedBy(id, <<>>) <= c.room[id]
    BY <1>6, <1>8
  <2>4. QED BY <1>2, <2>1, <2>2, <2>3 DEF Entitled
<1>10. Honest(book, W, <<>>, c)
  BY <1>4, <1>5, <1>7, <1>9 DEF Honest
<1>11. Kept(e, V, <<>>, c)
  BY <1>5, <1>7, <1>10 DEF Kept, book, Q
<1>12. QED BY <1>2, <1>6, <1>11 DEF c, L

(* What a call that keeps the accounts leaves. *)
LEMMA CallEnded ==
  ASSUME NEW e, NEW trades, NEW c, Kept(e, {}, trades, c)
  PROVE /\ Placed(e) /\ FromKnown(Held(e), c.known) /\ PrintsOK(trades, c.known)
        /\ trades \in Seq(Trade)
        /\ \A o \in Held(e) : TradedBy(o.id, trades) + o.qty <= c.room[o.id]
        /\ \A id \in Ids : TradedBy(id, trades) <= c.room[id]
<1> DEFINE book == e.book
           Q == Range(e.queue)
<1>1. Honest(book, Q \cup {}, trades, c) /\ Distinct(e.queue)
  BY DEF Kept
<1>2. Q \cup {} = Q
  OBVIOUS
<1> HIDE DEF book, Q
<1>3. Tidy(book) /\ Apart(Resting(book), Q) /\ Entitled(Resting(book) \cup Q, trades, c)
  BY <1>1, <1>2 DEF Honest
<1>4. Resting(book) \cup Q = Held(e)
  BY DEF Held, book, Q
<1>5. Placed(e)
  BY <1>1, <1>3 DEF Placed, book, Q
<1>6. Entitled(Held(e), trades, c)
  BY <1>3, <1>4
<1>7. QED BY <1>5, <1>6 DEF Entitled, FromKnown, PrintsOK
=============================================================================
