-------------------------- MODULE EngineProperties --------------------------
(***************************************************************************)
(* What the matching engine promises, over the machine of MatchingEngine.  *)
(***************************************************************************)
EXTENDS MatchingEngine

(* The types of the state: an engine is a value of class MatchingEngine. *)
TypeOK ==
  /\ IsEngine(eng)
  /\ now \in Int
  /\ submitted \subseteq Incoming
  /\ out.call \in {"none", "submit", "advance", "cancel", "modify",
                  "on_time"}
  /\ out.order \in Incoming \cup {None}
  /\ out.trades \in Seq(Trade)
  /\ out.status \in Statuses

(* The book is never crossed, whatever mixture of matching, auctions, halts,
   cancels and modifications led to it (book.hpp:49). *)
NotCrossed ==
  \A b \in DOMAIN eng.book.levels["Buy"], a \in DOMAIN eng.book.levels["Sell"] : b < a

(* What the code relies on when it edits the book without looking: the
   total_qty of a level, which decides when the level is erased, is the sum of
   its orders, all of which have something left; a locator leads to a level
   that exists and holds an order with its id, so its iterator never dangles.
   Matching edits the containers directly, cancel and modify through the
   locators, the breaker clears them (matching_engine.cpp:47-56, 481-491). *)
BookSound ==
  LET book == eng.book IN
  /\ \A s \in Sides : \A p \in DOMAIN book.levels[s] :
       LET level == book.levels[s][p]
       IN  /\ level.total_qty = QtyOf(level.q)
           /\ \A k \in DOMAIN level.q : level.q[k].qty > 0
  /\ \A id \in DOMAIN book.loc :
       LET at == book.loc[id]
       IN  /\ at.price \in DOMAIN book.levels[at.side]
           /\ \E k \in DOMAIN book.levels[at.side][at.price].q :
                book.levels[at.side][at.price].q[k].id = id

(* The locators are exactly the resting orders, each at the side and the price
   of its order, and no level is left without an order: nothing rests that a
   cancel cannot find, and no phantom level is quoted (book.cpp:53, 66;
   matching_engine.cpp:486-491). *)
BookConsistent ==
  LET book == eng.book IN
  /\ \A s \in Sides : \A p \in DOMAIN book.levels[s] : book.levels[s][p].q # <<>>
  /\ \A at \in Places(book) :
       LET o == OrderAt(book, at)
       IN  /\ o.type = "Limit" /\ o.side = at.side /\ o.price = at.px
           /\ o.id \in DOMAIN book.loc
           /\ book.loc[o.id] = [side |-> at.side, price |-> at.px]
  /\ DOMAIN book.loc = {o.id : o \in Resting(book)}

(* An order is in one place: at one position of the book or at one of the
   auction queue, not in both and not twice, although halts move the book to
   the queue and the uncrossing moves the queue to the book. *)
OnePlace ==
  LET book == eng.book IN
  /\ \A a, b \in Places(book) : OrderAt(book, a).id = OrderAt(book, b).id => a = b
  /\ \A i, j \in DOMAIN eng.queue : eng.queue[i].id = eng.queue[j].id => i = j
  /\ \A a \in Places(book), i \in DOMAIN eng.queue :
       OrderAt(book, a).id # eng.queue[i].id

(* The quantity with which order id could still trade: in the queue, and in the
   book. *)
Live(e, id) ==
  SumFunctionOnSet([i \in DOMAIN e.queue |-> e.queue[i].qty],
                   {i \in DOMAIN e.queue : e.queue[i].id = id}) +
  SumFunctionOnSet([at \in Places(e.book) |-> OrderAt(e.book, at).qty],
                   {at \in Places(e.book) : OrderAt(e.book, at).id = id})

(* Every print has a positive quantity and a price within the limits of both
   orders, in continuous matching and at the clearing price of an auction. *)
LimitsRespected ==
  \A i \in DOMAIN out.trades : \A o \in submitted :
    LET t == out.trades[i]
    IN  o.id \in {t.maker, t.taker} =>
          /\ t.qty > 0
          /\ o.type = "Limit" => Allows(o.side, o.price, t.price)

(* Orders wait in the auction queue only while an auction, or a halt that ends
   in one, is on: nothing is stranded there in Continuous, where no flush
   would ever look at it (matching_engine.cpp:77). *)
QueueOnlyInCall == eng.queue # <<>> => eng.phase \in {"Halted", "Auction"}

(* Every call returns: each iteration of the matching loop, whose condition has
   no bound, empties the taker or takes an order off the book, own orders that
   self-trade prevention passes over included (matching_engine.cpp:459-477). *)
CallsReturn == ~eng.spinning

----------------------------------------------------------------------------
(* Action properties *)

(* a had priority over b on its side of the book. *)
Before(a, b) ==
  /\ a.side = b.side
  /\ Better(a.side, a.px, b.px) \/ (a.px = b.px /\ a.i < b.i)

(* Price-time priority: when continuous matching trades with a maker, every
   order that had priority over the maker is gone from the book afterwards
   (README.md:41, "FIFO per price level"). *)
PriceTimePriority ==
  [][eng.phase = "Continuous" =>
       \A k \in DOMAIN out'.trades : \A m \in Places(eng.book) :
         OrderAt(eng.book, m).id = out'.trades[k].maker =>
           /\ out'.trades[k].price = m.px
           /\ \A a \in Places(eng.book) :
                Before(a, m) => \A o \in Resting(eng'.book) :
                                  o.id # OrderAt(eng.book, a).id]_vars

(* Time priority is never lost or jumped: two orders of a level that both stay
   in the book keep their order, through fills of the front, cancels and
   reductions of either, and an order that joins the level joins behind those
   that stay (book.cpp:23, 71). *)
FifoKept ==
  [][eng.phase = "Continuous" /\ eng'.phase = "Continuous" =>
       \A a, b \in Places(eng'.book) :
         a.side = b.side /\ a.px = b.px /\ a.i < b.i =>
           \A c \in Places(eng.book) :
             OrderAt(eng.book, c).id = OrderAt(eng'.book, b).id =>
               \E d \in Places(eng.book) :
                 /\ OrderAt(eng.book, d).id = OrderAt(eng'.book, a).id
                 /\ Before(d, c)]_vars

(* A limit order good till cancelled that reaches continuous matching is
   accounted for to the last share: traded or resting, unless self-trade
   prevention killed it.  The prints of this call are FilledQty. *)
NothingLost ==
  [][( /\ eng.phase = "Continuous" /\ out'.call = "submit"
       /\ out'.order.tif = "GTC" /\ out'.order.type = "Limit"
       /\ out'.status = "Accepted" /\ eng.cfg.stp # "CancelTaker" )
     => traded'[out'.order.id] + Live(eng', out'.order.id) = out'.order.qty]_vars

(* Without self-trade prevention a fill-or-kill order that reaches continuous
   matching fills completely or does nothing (README.md:52): it prints all of
   its quantity or none, and leaves nothing in the book. *)
FokOutcome ==
  LET o == out'.order IN
  /\ traded'[o.id] \in {0, o.qty}
  /\ \A r \in Resting(eng'.book) : r.id # o.id

SubmitsFok ==
  eng.phase = "Continuous" /\ out'.call = "submit" /\ out'.order.tif = "FOK"

FokAllOrNothing == [][SubmitsFok /\ eng.cfg.stp = "None" => FokOutcome]_vars

(* Market-to-limit: if a market order partially fills, the remainder rests as
   a limit order at the price of its last execution (README.md:53). *)
MarketToLimitRests ==
  [][LET o == out'.order IN
     ( /\ eng.phase = "Continuous" /\ out'.call = "submit"
       /\ o.type = "Market" /\ o.style = "MarketToLimit" /\ eng.cfg.stp # "CancelTaker"
       /\ eng'.phase = "Continuous" /\ 0 < traded'[o.id] /\ traded'[o.id] < o.qty )
     => \E r \in Resting(eng'.book) :
          r.id = o.id /\ r.qty = o.qty - traded'[o.id] /\ r.price = Last(out'.trades).price]_vars

(* While a halt lasts the phase cannot change, and from the halt to the end of
   the reopening auction, as during a volatility auction, nothing trades and
   no queued order leaves the queue (matching_engine.cpp:71-77, 374). *)
CallFreezes ==
  [][( /\ eng.phase \in {"Halted", "Auction"} /\ now' < eng.auction_end )
     => /\ out'.trades = <<>>
        /\ eng'.phase \in {"Halted", "Auction"}
        /\ eng.phase = "Halted" /\ now' < eng.halt_end => eng'.phase = "Halted"
        /\ IsPrefix(eng.queue, eng'.queue)]_vars

(* The prints of the uncrossing in a step: the orders that were queued. *)
AuctionPrints ==
  {k \in DOMAIN out'.trades : out'.call = "submit" => out'.trades[k].taker # out'.order.id}

(* What the prints at the positions S trade together. *)
PrintedQty(trades, S) == SumFunctionOnSet([k \in DOMAIN trades |-> trades[k].qty], S)

(* The largest volume a candidate price of the queue allows. *)
MaxVolume(queue) ==
  CHOOSE v \in {0} \cup {ExecutableVolumeAt(queue, p) : p \in LimitPrices(queue)} :
    \A p \in LimitPrices(queue) : ExecutableVolumeAt(queue, p) <= v

(* An auction prints at a single price and executes the largest volume any
   candidate price allows, no less and no more: the pairing of buys and sells
   does not stop early (README.md:74-77). *)
AuctionMaximal ==
  [][( /\ eng.phase \in {"Halted", "Auction"}
       /\ now' >= eng.auction_end /\ out'.call \in {"submit", "advance"} )
     => /\ \A i, j \in AuctionPrints : out'.trades[i].price = out'.trades[j].price
        /\ PrintedQty(out'.trades, AuctionPrints) = MaxVolume(eng.queue)]_vars

----------------------------------------------------------------------------
(* Refinement *)

Promise == INSTANCE Exchange WITH
  Offers <- Incoming, entered <- submitted, clock <- now,
  open <- [o \in submitted |-> Live(eng, o.id)],
  traded <- [o \in submitted |-> traded[o.id]],
  frozen <- eng.phase \in {"Halted", "Auction"}, until <- eng.auction_end

(* The engine keeps the promises of Exchange, with its book, its queue and its
   fills behind: every fill is taken off the maker, the taker and the queue
   entry exactly once, both sides of a print count, no order comes back that is
   closed, and nothing but a withdrawal touches an order in a call
   (matching_engine.cpp:280-290, 481-491). *)
ImplementsExchange == Promise!Spec

----------------------------------------------------------------------------
(* Liveness *)

(* A volatility auction, and a halt with its reopening auction, come to an
   end: the market trades continuously again. *)
CallEnds ==
  eng.phase \in {"Halted", "Auction"} ~> eng.phase = "Continuous"
----------------------------------------------------------------------------
(* What the documentation or a comment says and the code does not do *)

(* "FOK: atomic - fills completely or does nothing" (README.md:52), with
   self-trade prevention as well: the liquidity check counts the taker's own
   resting orders, which then kill it or are removed (matching_engine.cpp:388,
   470-477). *)
FokAtomic == [][SubmitsFok => FokOutcome]_vars

(* "Restock leftover eligible LIMIT orders", "Restock ineligible LIMIT orders"
   (matching_engine.cpp:292, 300): the limit orders of an auction are traded
   or rest afterwards.  The result of add_resting_limit is ignored. *)
UncrossKeepsLimits ==
  [][\A i \in DOMAIN eng.queue :
       LET o == eng.queue[i]
       IN  o.type = "Limit" /\ o.tif = "GTC" =>
             traded'[o.id] + Live(eng', o.id) = traded[o.id] + Live(eng, o.id)]_vars

(* "Only trigger from Continuous, so this won't re-trigger here"
   (matching_engine.cpp:90): the flush that ends an auction resumes trading. *)
NoRetrigger ==
  [][( /\ eng.phase = "Auction" /\ now' >= eng.auction_end /\ out'.call = "advance" )
     => eng'.phase = "Continuous"]_vars
=============================================================================
