----------------------------- MODULE OrderBook -----------------------------
(***************************************************************************)
(* class OrderBook (include/msim/book.hpp, src/book.cpp) as a value and    *)
(* one operator per member function.  A book is                            *)
(*                                                                         *)
(*   levels[side]   the map bids_ or asks_: price -> [q, total_qty], q the *)
(*                  FIFO list of resting orders;                           *)
(*   loc            the map loc_: id -> [side, price].                     *)
(*                                                                         *)
(* The iterator of a Locator is not stored.  It is the order with that id  *)
(* nearest the back of the level (Node): orders are only pushed at the     *)
(* back, adding an order points loc_[id] at the new node, and every        *)
(* removal of an order with that id erases loc_[id], so a locator that     *)
(* exists points at the newest node with its id, ids reused or not.        *)
(***************************************************************************)
EXTENDS MarketTypes, SequencesExt

EmptyBook == [levels |-> [s \in Sides |-> EmptyMap], loc |-> EmptyMap]

EmptyLevel == [q |-> <<>>, total_qty |-> 0]

(* Mutant: the wrong comparator, begin() is the worst price. *)
WorstFirst(book, side) ==
  LET px == DOMAIN book.levels[side]
  IN  IF px = {} THEN None
      ELSE CHOOSE p \in px : \A q \in px : ~Better(side, p, q)

(* best_bid(), best_ask(): the key of begin() of the side's map. *)
Best(book, side) ==
  LET px == DOMAIN book.levels[side]
  IN  IF px = {} THEN None
      ELSE CHOOSE p \in px : \A q \in px : ~Better(side, q, p)

(* Mutant: the book takes any limit order. *)
NeverCrosses(book, o) == FALSE

WouldCross(book, o) ==
  LET best == Best(book, Opposite(o.side))
  IN  best # None /\ Allows(o.side, o.price, best)

(* The result of a member function that returns bool. *)
Done(book)   == [ok |-> TRUE, book |-> book]
Failed(book) == [ok |-> FALSE, book |-> book]

SetLevel(book, side, px, level) ==
  [book.levels EXCEPT ![side] = Put(book.levels[side], px, level)]
DropLevel(book, side, px) ==
  [book.levels EXCEPT ![side] = Erase(book.levels[side], px)]

AddRestingLimit(book, o) ==
  LET side  == book.levels[o.side]
      level == IF o.price \in DOMAIN side THEN side[o.price] ELSE EmptyLevel
      grown == [q |-> Append(level.q, o), total_qty |-> level.total_qty + o.qty]
  IN  IF o.type # "Limit" \/ o.qty <= 0 \/ WouldCross(book, o)
      THEN Failed(book)
      ELSE Done([levels |-> SetLevel(book, o.side, o.price, grown),
                 loc |-> Put(book.loc, o.id, [side |-> o.side, price |-> o.price])])

(* The list node loc_[id].it points at. *)
Node(q, id) ==
  CHOOSE i \in DOMAIN q : q[i].id = id /\ \A j \in DOMAIN q : q[j].id = id => j <= i

(* Mutant: total_qty is not reduced. *)
CancelKeepsTotal(book, id) ==
  LET at    == book.loc[id]
      level == book.levels[at.side][at.price]
      rest  == [level EXCEPT !.q = RemoveAt(level.q, Node(level.q, id))]
  IN  [levels |-> IF rest.q = <<>> THEN DropLevel(book, at.side, at.price)
                  ELSE SetLevel(book, at.side, at.price, rest),
       loc |-> Erase(book.loc, id)]

(* Mutant: the level stays when its last order is cancelled. *)
CancelKeepsLevel(book, id) ==
  LET at    == book.loc[id]
      level == book.levels[at.side][at.price]
      i     == Node(level.q, id)
      rest  == [q |-> RemoveAt(level.q, i),
                total_qty |-> level.total_qty - level.q[i].qty]
  IN  [levels |-> SetLevel(book, at.side, at.price, rest), loc |-> Erase(book.loc, id)]

CancelFound(book, id) ==
  LET at    == book.loc[id]
      level == book.levels[at.side][at.price]
      i     == Node(level.q, id)
      rest  == [q |-> RemoveAt(level.q, i),
                total_qty |-> level.total_qty - level.q[i].qty]
  IN  [levels |-> IF rest.q = <<>> THEN DropLevel(book, at.side, at.price)
                  ELSE SetLevel(book, at.side, at.price, rest),
       loc |-> Erase(book.loc, id)]

HasLevel(book, id) == book.loc[id].price \in DOMAIN book.levels[book.loc[id].side]

Cancel(book, id) ==
  IF id \notin DOMAIN book.loc THEN Failed(book)
  ELSE IF ~HasLevel(book, id)
       THEN Failed([levels |-> book.levels, loc |-> Erase(book.loc, id)])
       ELSE Done(CancelFound(book, id))

(* Mutant: the reduced order goes to the back of its level. *)
ReducedLosesPlace(book, id, new_qty) ==
  LET at    == book.loc[id]
      level == book.levels[at.side][at.price]
      i     == Node(level.q, id)
      old   == level.q[i]
      less  == [q |-> Append(RemoveAt(level.q, i), [old EXCEPT !.qty = new_qty]),
                total_qty |-> level.total_qty - (old.qty - new_qty)]
  IN  IF old.qty <= 0 \/ new_qty > old.qty THEN Failed(book)
      ELSE Done([levels |-> SetLevel(book, at.side, at.price, less),
                 loc |-> book.loc])

(* Reduce-only, keeps the place in the queue. *)
Reduced(book, id, new_qty) ==
  LET at    == book.loc[id]
      level == book.levels[at.side][at.price]
      i     == Node(level.q, id)
      old   == level.q[i]
      less  == [q |-> [level.q EXCEPT ![i] = [old EXCEPT !.qty = new_qty]],
                total_qty |-> level.total_qty - (old.qty - new_qty)]
  IN  IF old.qty <= 0 \/ new_qty > old.qty THEN Failed(book)
      ELSE Done([levels |-> SetLevel(book, at.side, at.price, less),
                 loc |-> book.loc])

ModifyQty(book, id, new_qty) ==
  IF new_qty <= 0 THEN Cancel(book, id)
  ELSE IF id \notin DOMAIN book.loc \/ ~HasLevel(book, id) THEN Failed(book)
       ELSE Reduced(book, id, new_qty)

(* The type of a book. *)
Level == [q : Seq(Order), total_qty : Int]
Locator == [side : Sides, price : Prices]

IsBook(b) ==
  /\ b \in [levels : {b.levels}, loc : {b.loc}]
  /\ b.levels \in [Sides -> {b.levels[s] : s \in Sides}]
  /\ \A s \in Sides : IsMap(b.levels[s], Prices, Level)
  /\ IsMap(b.loc, Ids, Locator)

(***************************************************************************)
(* What the properties of this and the other modules say about a book.     *)
(***************************************************************************)
(* Where an order rests: [side, px, i], the i-th order of a level. *)
Places(book) ==
  UNION {UNION {{[side |-> s, px |-> p, i |-> k] :
                   k \in DOMAIN book.levels[s][p].q} :
                p \in DOMAIN book.levels[s]} : s \in Sides}

OrderAt(book, at) == book.levels[at.side][at.px].q[at.i]

Resting(book) == {OrderAt(book, at) : at \in Places(book)}

(* The quantity of a list of orders or trades: the running sum at its end. *)
QtyOf(orders) ==
  LET sum[k \in 0 .. Len(orders)] == IF k = 0 THEN 0 ELSE sum[k - 1] + orders[k].qty
  IN  sum[Len(orders)]
=============================================================================
