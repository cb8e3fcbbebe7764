---------------------------- MODULE EngineProofs ----------------------------
(***************************************************************************)
(* The member functions of the matching engine keep its type and a good    *)
(* book, for any ids, owners and prices, any configuration and any bound   *)
(* MaxLoop.  Every loop is treated alike: X is the set of its states, a    *)
(* step maps X to X, so the run of the loop is a function from Nat to X.   *)
(* They number their prints without a gap, and what an uncrossing trades is*)
(* the largest volume that any price allows.                               *)
(***************************************************************************)
EXTENDS Engine, OrderBookProofs

(* The good books, as a set. *)
Maps(K, V) == UNION {[D -> V] : D \in SUBSET K}

GoodBooks ==
  {b \in [levels : [Sides -> Maps(Prices, Level)], loc : Maps(Ids, Locator)] : GoodBook(b)}

(* A map is a member of Maps. *)
LEMMA MapSet ==
  ASSUME NEW m, NEW K, NEW V
  PROVE IsMap(m, K, V) <=> m \in Maps(K, V)
BY DEF IsMap, Maps

(* A good book is a member of GoodBooks. *)
LEMMA GoodBookSet ==
  ASSUME NEW b
  PROVE GoodBook(b) <=> b \in GoodBooks
<1>1. SUFFICES ASSUME GoodBook(b) PROVE b \in GoodBooks
  BY DEF GoodBooks
<1>2. IsBook(b) BY <1>1 DEF GoodBook
<1>3. b = [levels |-> b.levels, loc |-> b.loc]
  BY <1>2 DEF IsBook
<1>4. b.loc \in Maps(Ids, Locator)
  <2>1. IsMap(b.loc, Ids, Locator) BY <1>2 DEF IsBook
  <2>2. QED BY <2>1, MapSet
<1>5. b.levels \in [Sides -> Maps(Prices, Level)]
  <2>1. \A s \in Sides : b.levels[s] \in Maps(Prices, Level)
    BY <1>2, MapSet DEF IsBook
  <2>2. b.levels = [s \in Sides |-> b.levels[s]]
    BY <1>2 DEF IsBook
  <2>3. QED BY <2>1, <2>2
<1>6. QED BY <1>1, <1>3, <1>4, <1>5 DEF GoodBooks

(* A function that stays in X from step to step stays in X. *)
LEMMA RunStays ==
  ASSUME NEW X, NEW run, run[0] \in X, \A k \in Nat : run[k] \in X => run[k + 1] \in X,
         NEW n \in Nat
  PROVE run[n] \in X
<1> DEFINE A == {k \in Nat : run[k] \in X}
<1>1. 0 \in A /\ A \subseteq Nat /\ \A k \in Nat : k \in A => k + 1 \in A
  OBVIOUS
<1> HIDE DEF A
<1>2. A = Nat
  BY <1>1, InductSet
<1>3. QED BY <1>2 DEF A

(* The same for a set of states for each number of steps. *)
LEMMA RunCounts ==
  ASSUME NEW Z, NEW run, run[0] \in Z[0],
         \A k \in Nat : run[k] \in Z[k] => run[k + 1] \in Z[k + 1],
         NEW n \in Nat
  PROVE run[n] \in Z[n]
<1> DEFINE A == {k \in Nat : run[k] \in Z[k]}
<1>1. 0 \in A /\ A \subseteq Nat /\ \A k \in Nat : k \in A => k + 1 \in A
  OBVIOUS
<1> HIDE DEF A
<1>2. A = Nat
  BY <1>1, InductSet
<1>3. QED BY <1>2 DEF A

----------------------------------------------------------------------------
(* The circuit breaker's drain of a side *)

DrainStates == [side : Sides, side_levels : Maps(Prices, Level), orders : Seq(Order)]

(* One level is drained. *)
LEMMA DrainStepType ==
  ASSUME NEW d \in DrainStates
  PROVE DrainStep(d) \in DrainStates
<1> DEFINE b == [levels |-> [s \in Sides |-> d.side_levels]]
           best == Best(b, d.side)
<1>1. d.side \in Sides /\ d.orders \in Seq(Order)
  BY DEF DrainStates
<1>2. IsMap(d.side_levels, Prices, Level)
  <2>1. d.side_levels \in Maps(Prices, Level) BY DEF DrainStates
  <2>2. QED BY <2>1, MapSet
<1>3. b.levels[d.side] = d.side_levels
  BY <1>1
<1>4. CASE best = None
  BY <1>4 DEF DrainStep
<1>5. CASE best # None
  <2>1. DOMAIN d.side_levels # {}
    BY <1>3, <1>5 DEF Best
  <2>2. DOMAIN d.side_levels \subseteq Prices
    BY <1>2 DEF IsMap
  <2>3. best \in DOMAIN d.side_levels
    <3> DEFINE side == d.side
    <3>1. side \in Sides /\ b.levels[side] = d.side_levels BY <1>1, <1>3
    <3> HIDE DEF b, side
    <3>2. Best(b, side) \in DOMAIN b.levels[side] BY <2>1, <2>2, <3>1, BestOfLevels
    <3>3. QED BY <3>1, <3>2 DEF side
  <2> HIDE DEF best
  <2>4. d.side_levels[best] \in Level
    BY <1>2, <2>3 DEF IsMap
  <2>5. d.side_levels[best].q \in Seq(Order)
    BY <2>4 DEF Level
  <2>6. d.orders \o d.side_levels[best].q \in Seq(Order)
    BY <1>1, <2>5, ConcatProperties
  <2>7. Erase(d.side_levels, best) \in Maps(Prices, Level)
    BY <1>2, EraseMap, MapSet
  <2>8. DrainStep(d) = [d EXCEPT !.orders = d.orders \o d.side_levels[best].q,
                                 !.side_levels = Erase(d.side_levels, best)]
    BY <1>5 DEF DrainStep, best
  <2>9. QED BY <2>6, <2>7, <2>8 DEF DrainStates
<1>6. QED BY <1>4, <1>5

(* The drain of a side is a run of DrainStep; a set of states that one step does not
   leave is not left by the run. *)
LEMMA DrainRun ==
  ASSUME NEW book, NEW side, NEW X,
         [side |-> side, side_levels |-> book.levels[side], orders |-> <<>>] \in X,
         \A d \in X : DrainStep(d) \in X
  PROVE \E run : /\ run[0] = [side |-> side, side_levels |-> book.levels[side], orders |-> <<>>]
                 /\ Drained(book, side) = run[Cardinality(DOMAIN book.levels[side])].orders
                 /\ \A k \in Nat : run[k] \in X /\ run[k + 1] = DrainStep(run[k])
<1> DEFINE n == Cardinality(DOMAIN book.levels[side])
           s == [side |-> side, side_levels |-> book.levels[side], orders |-> <<>>]
           S == [k \in Nat |-> [d \in X |-> DrainStep(d)]]
           Eqn(r) == r = [k \in Nat |-> IF k = 0 THEN s ELSE DrainStep(r[k - 1])]
           run == CHOOSE r : Eqn(r)
<1>1. s \in X
  OBVIOUS
<1>2. Drained(book, side) = run[n].orders
  BY DEF Drained, Iterate
<1>3. S \in [Nat -> [X -> X]]
  OBVIOUS
<1> HIDE DEF s, n
<1>4. PICK f : IsRun(f, X, S, s)
  <2> HIDE DEF S
  <2>1. QED BY <1>1, <1>3, LoopRun
<1>5. Eqn(f)
  <2>1. f = [k \in Nat |-> f[k]] /\ f[0] = s BY <1>4 DEF IsRun
  <2>2. ASSUME NEW k \in Nat, k # 0 PROVE f[k] = DrainStep(f[k - 1])
    <3>1. k - 1 \in Nat /\ (k - 1) + 1 = k BY <2>2
    <3>2. f[k - 1] \in X BY <1>4, <3>1 DEF IsRun
    <3>3. f[(k - 1) + 1] = S[k - 1][f[k - 1]] BY <1>4, <3>1 DEF IsRun
    <3>4. QED BY <3>1, <3>2, <3>3
  <2>3. QED BY <2>1, <2>2
<1>6. Eqn(run)
  <2> HIDE DEF Eqn
  <2>1. QED BY <1>5
<1> HIDE DEF run
<1>7. run[0] = s
  BY <1>6
<1>8. ASSUME NEW k \in Nat PROVE run[k + 1] = DrainStep(run[k])
  <2>1. k + 1 \in Nat /\ k + 1 # 0 /\ (k + 1) - 1 = k OBVIOUS
  <2>2. QED BY <1>6, <2>1
<1>9. ASSUME NEW j \in Nat PROVE run[j] \in X
  <2>1. \A k \in Nat : run[k] \in X => run[k + 1] \in X BY <1>8
  <2>2. QED BY <1>1, <1>7, <2>1, RunStays
<1>10. QED BY <1>2, <1>7, <1>8, <1>9 DEF s, n

LEMMA DrainStays ==
  ASSUME NEW book, NEW side, NEW X, IsFiniteSet(DOMAIN book.levels[side]),
         [side |-> side, side_levels |-> book.levels[side], orders |-> <<>>] \in X,
         \A d \in X : DrainStep(d) \in X
  PROVE \E d \in X : Drained(book, side) = d.orders
<1> DEFINE n == Cardinality(DOMAIN book.levels[side])
<1>1. n \in Nat
  BY FS_CardinalityType
<1>2. PICK run : Drained(book, side) = run[n].orders /\ \A k \in Nat : run[k] \in X
  BY DrainRun
<1> HIDE DEF n
<1>3. QED BY <1>1, <1>2

(* All levels of a side. *)
LEMMA DrainedType ==
  ASSUME NEW book, IsBook(book), NEW side \in Sides
  PROVE Drained(book, side) \in Seq(Order)
<1>1. [side |-> side, side_levels |-> book.levels[side], orders |-> <<>>] \in DrainStates
  <2>1. IsMap(book.levels[side], Prices, Level) BY DEF IsBook
  <2>2. book.levels[side] \in Maps(Prices, Level) BY <2>1, MapSet
  <2>3. QED BY <2>2 DEF DrainStates
<1>2. IsFiniteSet(DOMAIN book.levels[side])
  <2>1. DOMAIN book.levels[side] \subseteq Prices BY DEF IsBook, IsMap
  <2>2. QED BY <2>1, MarketAssumption, FS_Subset
<1>3. PICK d \in DrainStates : Drained(book, side) = d.orders
  BY <1>1, <1>2, DrainStepType, DrainStays
<1>4. QED BY <1>3 DEF DrainStates

----------------------------------------------------------------------------
(* Continuous matching *)

MatchStates == [book : GoodBooks, taker : Order, trades : Seq(Trade), next : Nat]

(* The front of the best level. *)
LEMMA FrontOfBook ==
  ASSUME NEW book, GoodBook(book), NEW side \in Sides, Best(book, side) # None
  PROVE LET px    == Best(book, side)
            level == book.levels[side][px]
        IN  /\ px \in DOMAIN book.levels[side] /\ px \in Prices
            /\ level \in Level /\ Sound(level) /\ level.q \in Seq(Order)
            /\ level.total_qty \in Int
<1> DEFINE px == Best(book, side)
           level == book.levels[side][px]
<1>1. IsBook(book) /\ LevelsSound(book)
  BY DEF GoodBook
<1>2. px \in DOMAIN book.levels[side]
  BY <1>1, BestType
<1> HIDE DEF px
<1>3. px \in Prices /\ level \in Level /\ Sound(level)
  BY <1>1, <1>2, BookParts DEF LevelsSound
<1> HIDE DEF level
<1>4. level.q \in Seq(Order) /\ level.total_qty \in Int
  BY <1>3 DEF Level
<1>5. QED BY <1>2, <1>3, <1>4 DEF px, level

(* A level without orders goes. *)
LEMMA DropEmptyGood ==
  ASSUME NEW book, GoodBook(book), NEW side \in Sides, NEW px, book.levels[side][px].q = <<>>
  PROVE GoodBook([levels |-> DropLevel(book, side, px), loc |-> book.loc])
<1>1. IsBook(book) /\ Located(book)
  BY DEF GoodBook
<1>2. IsMap(book.loc, Ids, Locator)
  BY <1>1 DEF IsBook
<1>3. ASSUME NEW id \in DOMAIN book.loc PROVE book.loc[id] # [side |-> side, price |-> px]
  <2>1. SUFFICES ASSUME book.loc[id] = [side |-> side, price |-> px] PROVE FALSE
    OBVIOUS
  <2>2. Holds(book.levels[side][px], id)
    BY <1>1, <2>1 DEF Located
  <2>3. Len(book.levels[side][px].q) = 0
    OBVIOUS
  <2>4. QED BY <2>2, <2>3 DEF Holds
<1>4. QED BY <1>2, <1>3, DropLevelGood

(* A fill: the taker, the maker, the level and the locators change together. *)
LEMMA FillGood ==
  ASSUME NEW m \in MatchStates, NEW ts \in Int, CanMatch(m),
         m.book.levels[Opposite(m.taker.side)][Best(m.book, Opposite(m.taker.side))].q # <<>>
  PROVE Fill(m, ts) \in MatchStates
<1> DEFINE book  == m.book
           side  == Opposite(m.taker.side)
           px    == Best(book, side)
           level == book.levels[side][px]
           maker == Head(level.q)
           q     == Smaller(m.taker.qty, maker.qty)
           left  == [maker EXCEPT !.qty = maker.qty - q]
           restq == IF left.qty = 0 THEN Tail(level.q) ELSE <<left>> \o Tail(level.q)
           rest  == [q |-> restq, total_qty |-> level.total_qty - q]
           trade == [id |-> m.next, ts |-> ts, price |-> px, qty |-> q,
                     maker |-> maker.id, taker |-> m.taker.id]
           loc   == IF left.qty = 0 THEN Erase(book.loc, maker.id) ELSE book.loc
           new   == [levels |-> IF rest.total_qty = 0 THEN DropLevel(book, side, px)
                                ELSE SetLevel(book, side, px, rest),
                     loc |-> loc]
<1>1. /\ GoodBook(book) /\ m.taker \in Order /\ m.trades \in Seq(Trade) /\ m.next \in Nat
  BY GoodBookSet DEF MatchStates
<1>2. /\ side \in Sides /\ m.taker.qty \in Int /\ m.taker.qty > 0 /\ m.taker.id \in Ids
  BY <1>1 DEF CanMatch, Order, Opposite, Sides
<1>3. px # None
  BY DEF CanMatch
<1>4. Fill(m, ts) = [book |-> new, taker |-> [m.taker EXCEPT !.qty = m.taker.qty - q],
                     trades |-> Append(m.trades, trade), next |-> m.next + 1]
  BY DEF Fill
<1> DEFINE queue == level.q
<1>5. /\ px \in DOMAIN book.levels[side] /\ px \in Prices
      /\ level \in Level /\ Sound(level) /\ queue \in Seq(Order)
      /\ level.total_qty \in Int /\ queue # <<>>
  <2> HIDE DEF book, side
  <2>1. QED BY <1>1, <1>2, <1>3, FrontOfBook DEF book, side
<1>6. /\ IsBook(book) /\ Located(book) /\ IsMap(book.loc, Ids, Locator)
  BY <1>1 DEF GoodBook, IsBook
<1> HIDE DEF px, book, side, new
<1>7. /\ level.total_qty = QtyOf(queue) /\ \A k \in 1 .. Len(queue) : queue[k].qty > 0
      /\ QtyOf(queue) \in Int /\ Len(queue) \in Nat
  <2>1. level.total_qty = QtyOf(queue) /\ \A k \in 1 .. Len(queue) : queue[k].qty > 0
    BY <1>5 DEF Sound
  <2> HIDE DEF level
  <2>2. QED BY <1>5, <2>1, LenProperties
<1> HIDE DEF level
<1>8. /\ maker \in Order /\ maker = queue[1] /\ 1 \in 1 .. Len(queue)
      /\ Tail(queue) \in Seq(Order)
      /\ Len(Tail(queue)) = Len(queue) - 1
      /\ \A k \in 1 .. (Len(queue) - 1) : Tail(queue)[k] = queue[k + 1]
      /\ QtyOf(Tail(queue)) = QtyOf(queue) - maker.qty
  <2> HIDE DEF queue
  <2>1. QED BY <1>5, TailOrders DEF queue
<1> HIDE DEF queue
<1>9. maker.qty \in Int /\ maker.qty > 0 /\ maker.id \in Ids
  BY <1>7, <1>8 DEF Order
<1> HIDE DEF maker
<1>10. q \in Int /\ q > 0 /\ q <= maker.qty
  BY <1>2, <1>9 DEF Smaller
<1> HIDE DEF q
<1>11. left \in Order /\ left.qty = maker.qty - q /\ left.id = maker.id
  BY <1>8, <1>10, <1>9 DEF Order
<1> HIDE DEF left
(* The orders that stay, and the locators that lead to them. *)
<1>12. /\ restq \in Seq(Order) /\ QtyOf(restq) = level.total_qty - q
       /\ \A k \in 1 .. Len(restq) : restq[k].qty > 0
       /\ IsMap(loc, Ids, Locator)
       /\ \A id \in DOMAIN loc :
            /\ id \in DOMAIN book.loc /\ loc[id] = book.loc[id]
            /\ loc[id] = [side |-> side, price |-> px] =>
                 \E k \in 1 .. Len(restq) : restq[k].id = id
  <2>1. ASSUME NEW id \in DOMAIN book.loc, book.loc[id] = [side |-> side, price |-> px]
        PROVE \E k \in 1 .. Len(queue) : queue[k].id = id
    <3>1. Holds(level, id) BY <1>6, <2>1 DEF Located, level
    <3>2. QED BY <3>1 DEF Holds, queue
  <2>2. CASE left.qty = 0
    <3>1. restq = Tail(queue) /\ loc = Erase(book.loc, maker.id)
      BY <2>2 DEF queue
    <3> HIDE DEF restq, loc
    <3>2. restq \in Seq(Order) /\ QtyOf(restq) = level.total_qty - q
      BY <1>7, <1>8, <1>9, <1>10, <1>11, <2>2, <3>1
    <3>3. \A k \in 1 .. Len(restq) : restq[k].qty > 0
      <4>1. \A k \in 1 .. Len(restq) : k \in 1 .. (Len(queue) - 1) /\ k + 1 \in 1 .. Len(queue)
        BY <1>7, <1>8, <3>1
      <4>2. QED BY <1>7, <1>8, <3>1, <4>1
    <3>4. IsMap(loc, Ids, Locator)
      BY <1>6, <3>1, EraseMap
    <3>5. ASSUME NEW id \in DOMAIN loc
          PROVE id # maker.id /\ id \in DOMAIN book.loc /\ loc[id] = book.loc[id]
      BY <3>1 DEF Erase
    <3>6. ASSUME NEW id \in DOMAIN loc, loc[id] = [side |-> side, price |-> px]
          PROVE \E k \in 1 .. Len(restq) : restq[k].id = id
      <4>1. PICK k \in 1 .. Len(queue) : queue[k].id = id BY <2>1, <3>5, <3>6
      <4>2. k # 1 BY <1>8, <3>5, <4>1
      <4>3. k - 1 \in 1 .. (Len(queue) - 1) /\ (k - 1) + 1 = k BY <1>7, <4>2
      <4>4. k - 1 \in 1 .. Len(restq) /\ restq[k - 1] = queue[k] BY <1>8, <3>1, <4>3
      <4>5. QED BY <4>1, <4>4
    <3>7. QED BY <3>2, <3>3, <3>4, <3>5, <3>6
  <2>3. CASE left.qty # 0
    <3>1. restq = <<left>> \o Tail(queue) /\ loc = book.loc
      BY <2>3 DEF queue
    <3> HIDE DEF restq, loc
    <3>2. /\ restq \in Seq(Order) /\ Len(restq) = Len(queue)
          /\ \A k \in 1 .. Len(queue) : restq[k] = IF k = 1 THEN left ELSE queue[k]
          /\ QtyOf(restq) = QtyOf(queue) - maker.qty + left.qty
      <4>1. queue # <<>> BY <1>5 DEF queue
      <4>2. Head(queue) = maker BY DEF maker, queue
      <4>3. QED BY <1>5, <1>11, <3>1, <4>1, <4>2, NewHeadOrders
    <3>3. QtyOf(restq) = level.total_qty - q
      BY <1>7, <1>9, <1>10, <1>11, <3>2
    <3>4. left.qty > 0
      BY <1>9, <1>10, <1>11, <2>3
    <3>5. \A k \in 1 .. Len(restq) : restq[k].qty > 0
      BY <1>7, <3>2, <3>4
    <3>6. ASSUME NEW id \in DOMAIN loc, loc[id] = [side |-> side, price |-> px]
          PROVE \E k \in 1 .. Len(restq) : restq[k].id = id
      <4>1. PICK k \in 1 .. Len(queue) : queue[k].id = id BY <2>1, <3>1, <3>6
      <4>2. k \in 1 .. Len(restq) /\ restq[k].id = id BY <1>8, <1>11, <3>2, <4>1
      <4>3. QED BY <4>2
    <3>7. QED BY <1>6, <3>1, <3>2, <3>3, <3>5, <3>6
  <2>4. QED BY <2>2, <2>3
<1> HIDE DEF restq, loc
<1>13. rest.q = restq /\ rest.total_qty = level.total_qty - q
  OBVIOUS
<1>14. rest \in Level /\ Sound(rest)
  <2>1. rest = [q |-> rest.q, total_qty |-> rest.total_qty] OBVIOUS
  <2>2. rest.total_qty \in Int BY <1>5, <1>10
  <2> HIDE DEF rest
  <2>3. QED BY <1>12, <1>13, <2>1, <2>2 DEF Level, Sound
<1>15. GoodBook(new)
  <2>1. CASE rest.total_qty = 0
    <3>1. restq = <<>>
      <4>1. SUFFICES ASSUME restq # <<>> PROVE FALSE OBVIOUS
      <4>2. QtyOf(restq) > 0 BY <1>12, <4>1, QtyPositive
      <4> HIDE DEF rest
      <4>3. QED BY <1>12, <1>13, <2>1, <4>2
    <3>2. Len(restq) = 0 BY <3>1
    <3>3. \A id \in DOMAIN loc :
            /\ id \in DOMAIN book.loc /\ loc[id] = book.loc[id]
            /\ loc[id] # [side |-> side, price |-> px]
      BY <1>12, <3>2
    <3>4. GoodBook([levels |-> DropLevel(book, side, px), loc |-> loc])
      BY <1>1, <1>2, <1>12, <3>3, DropLevelGood
    <3>5. QED BY <2>1, <3>4 DEF new
  <2>2. CASE rest.total_qty # 0
    <3>1. \A id \in DOMAIN loc :
            IF loc[id] = [side |-> side, price |-> px] THEN Holds(rest, id)
            ELSE id \in DOMAIN book.loc /\ loc[id] = book.loc[id]
      <4> HIDE DEF rest
      <4>1. QED BY <1>12, <1>13 DEF Holds
    <3>2. \A p \in DOMAIN book.levels[Opposite(side)] : Better(Opposite(side), px, p)
      BY <1>1, <1>2, <1>5, LevelCrossesNothing
    <3> HIDE DEF rest
    <3>3. GoodBook([levels |-> SetLevel(book, side, px, rest), loc |-> loc])
      BY <1>1, <1>2, <1>5, <1>12, <1>14, <3>1, <3>2, SetLevelGood
    <3>4. QED BY <2>2, <3>3 DEF new
  <2>3. QED BY <2>1, <2>2
<1>16. trade \in Trade
  BY <1>1, <1>2, <1>5, <1>9, <1>10 DEF Trade
<1>17. [m.taker EXCEPT !.qty = m.taker.qty - q] \in Order
  BY <1>1, <1>2, <1>10 DEF Order
<1>18. Append(m.trades, trade) \in Seq(Trade)
  <2> HIDE DEF trade
  <2>1. QED BY <1>1, <1>16, AppendProperties
<1>19. new \in GoodBooks
  BY <1>15, GoodBookSet
<1> HIDE DEF trade
<1>20. QED BY <1>1, <1>4, <1>17, <1>18, <1>19 DEF MatchStates

(* One iteration: nothing to do, an empty level, self-trade prevention, a fill. *)
LEMMA MatchStepType ==
  ASSUME NEW m \in MatchStates, NEW stp, NEW ts \in Int
  PROVE MatchStep(stp, ts, m) \in MatchStates
<1> DEFINE side == Opposite(m.taker.side)
           px == Best(m.book, side)
           front == m.book.levels[side][px].q
           own == stp # "None" /\ Head(front).owner = m.taker.owner
           r == MatchStep(stp, ts, m)
<1>1. /\ GoodBook(m.book) /\ m.taker \in Order /\ m.trades \in Seq(Trade) /\ m.next \in Nat
  BY GoodBookSet DEF MatchStates
<1>2. side \in Sides
  BY DEF Opposite, Sides
<1>3. CASE ~CanMatch(m)
  BY <1>3 DEF MatchStep
<1>4. CASE CanMatch(m) /\ front = <<>>
  <2>1. r = [m EXCEPT !.book = [levels |-> DropLevel(m.book, side, px), loc |-> m.book.loc]]
    BY <1>4 DEF MatchStep
  <2>2. [levels |-> DropLevel(m.book, side, px), loc |-> m.book.loc] \in GoodBooks
    <3> HIDE DEF side, px
    <3>1. QED BY <1>1, <1>2, <1>4, DropEmptyGood, GoodBookSet
  <2>3. QED BY <2>1, <2>2 DEF MatchStates
<1>5. CASE CanMatch(m) /\ front # <<>> /\ own /\ stp = "CancelTaker"
  <2>1. r = [m EXCEPT !.taker = [m.taker EXCEPT !.qty = 0]]
    BY <1>5 DEF MatchStep
  <2>2. [m.taker EXCEPT !.qty = 0] \in Order
    BY <1>1 DEF Order
  <2>3. QED BY <2>1, <2>2 DEF MatchStates
<1>6. CASE CanMatch(m) /\ front # <<>> /\ own /\ stp # "CancelTaker"
  <2>1. r = [m EXCEPT !.book = Cancel(m.book, Head(front).id).book]
    BY <1>6 DEF MatchStep
  <2>2. Cancel(m.book, Head(front).id).book \in GoodBooks
    BY <1>1, CancelGood, GoodBookSet
  <2>3. QED BY <2>1, <2>2 DEF MatchStates
<1>7. CASE CanMatch(m) /\ front # <<>> /\ ~own
  <2>1. r = Fill(m, ts)
    BY <1>7 DEF MatchStep
  <2>2. QED BY <1>7, <2>1, FillGood
<1>8. QED BY <1>3, <1>4, <1>5, <1>6, <1>7

(* The matching loop is a run of MatchStep; a set of states that one iteration does
   not leave is not left by the run. *)
LEMMA MatchRun ==
  ASSUME NEW eng, NEW o, NEW ts, NEW X,
         [book |-> eng.book, taker |-> o, trades |-> <<>>, next |-> eng.next_trade_id] \in X,
         \A m \in X : MatchStep(eng.cfg.stp, ts, m) \in X
  PROVE \E run : /\ run[0] = [book |-> eng.book, taker |-> o, trades |-> <<>>,
                              next |-> eng.next_trade_id]
                 /\ Match(eng, o, ts) = run[MaxLoop]
                 /\ \A k \in Nat : /\ run[k] \in X
                                   /\ run[k + 1] = MatchStep(eng.cfg.stp, ts, run[k])
<1> DEFINE stp == eng.cfg.stp
           s == [book |-> eng.book, taker |-> o, trades |-> <<>>, next |-> eng.next_trade_id]
           S == [k \in Nat |-> [m \in X |-> MatchStep(stp, ts, m)]]
           Eqn(r) == r = [k \in Nat |-> IF k = 0 THEN s ELSE MatchStep(stp, ts, r[k - 1])]
           run == CHOOSE r : Eqn(r)
<1>1. s \in X
  OBVIOUS
<1>2. Match(eng, o, ts) = run[MaxLoop]
  BY DEF Match, Iterate
<1>3. S \in [Nat -> [X -> X]]
  OBVIOUS
<1> HIDE DEF s, stp
<1>4. PICK f : IsRun(f, X, S, s)
  <2> HIDE DEF S
  <2>1. QED BY <1>1, <1>3, LoopRun
<1>5. Eqn(f)
  <2>1. f = [k \in Nat |-> f[k]] /\ f[0] = s BY <1>4 DEF IsRun
  <2>2. ASSUME NEW k \in Nat, k # 0 PROVE f[k] = MatchStep(stp, ts, f[k - 1])
    <3>1. k - 1 \in Nat /\ (k - 1) + 1 = k BY <2>2
    <3>2. f[k - 1] \in X BY <1>4, <3>1 DEF IsRun
    <3>3. f[(k - 1) + 1] = S[k - 1][f[k - 1]] BY <1>4, <3>1 DEF IsRun
    <3>4. QED BY <3>1, <3>2, <3>3
  <2>3. QED BY <2>1, <2>2
<1>6. Eqn(run)
  <2> HIDE DEF Eqn
  <2>1. QED BY <1>5
<1> HIDE DEF run
<1>7. run[0] = s
  BY <1>6
<1>8. ASSUME NEW k \in Nat PROVE run[k + 1] = MatchStep(stp, ts, run[k])
  <2>1. k + 1 \in Nat /\ k + 1 # 0 /\ (k + 1) - 1 = k OBVIOUS
  <2>2. QED BY <1>6, <2>1
<1>9. ASSUME NEW n \in Nat PROVE run[n] \in X
  <2>1. \A k \in Nat : run[k] \in X => run[k + 1] \in X BY <1>8 DEF stp
  <2>2. QED BY <1>1, <1>7, <2>1, RunStays
<1>10. QED BY <1>2, <1>7, <1>8, <1>9 DEF s, stp

(* What holds of the start and is handed on by every iteration, with a count. *)
LEMMA MatchCounts ==
  ASSUME NEW eng, NEW o, NEW ts, NEW X, NEW Z,
         [book |-> eng.book, taker |-> o, trades |-> <<>>, next |-> eng.next_trade_id] \in X,
         \A m \in X : MatchStep(eng.cfg.stp, ts, m) \in X,
         [book |-> eng.book, taker |-> o, trades |-> <<>>, next |-> eng.next_trade_id] \in Z[0],
         \A k \in Nat : \A m \in X : m \in Z[k] => MatchStep(eng.cfg.stp, ts, m) \in Z[k + 1]
  PROVE Match(eng, o, ts) \in X \cap Z[MaxLoop]
<1>1. PICK run : /\ run[0] = [book |-> eng.book, taker |-> o, trades |-> <<>>,
                             next |-> eng.next_trade_id]
                 /\ Match(eng, o, ts) = run[MaxLoop]
                 /\ \A k \in Nat : /\ run[k] \in X
                                   /\ run[k + 1] = MatchStep(eng.cfg.stp, ts, run[k])
  BY MatchRun
<1>2. run[0] \in Z[0] BY <1>1
<1>3. ASSUME NEW k \in Nat, run[k] \in Z[k] PROVE run[k + 1] \in Z[k + 1]
  BY <1>1, <1>3
<1>4. MaxLoop \in Nat BY MaxLoopAssumption
<1>5. run[MaxLoop] \in Z[MaxLoop]
  BY <1>2, <1>3, <1>4, RunCounts
<1>6. QED BY <1>1, <1>4, <1>5

LEMMA MatchStays ==
  ASSUME NEW eng, NEW o, NEW ts, NEW X,
         [book |-> eng.book, taker |-> o, trades |-> <<>>, next |-> eng.next_trade_id] \in X,
         \A m \in X : MatchStep(eng.cfg.stp, ts, m) \in X
  PROVE Match(eng, o, ts) \in X
<1>1. PICK run : Match(eng, o, ts) = run[MaxLoop] /\ \A k \in Nat : run[k] \in X
  BY MatchRun
<1>2. QED BY <1>1, MaxLoopAssumption

(* The state in which the matching loop leaves the book and the taker. *)
LEMMA MatchType ==
  ASSUME NEW eng, GoodBook(eng.book), eng.next_trade_id \in Nat,
         NEW o \in Order, NEW ts \in Int
  PROVE Match(eng, o, ts) \in MatchStates
<1>1. [book |-> eng.book, taker |-> o, trades |-> <<>>, next |-> eng.next_trade_id] \in MatchStates
  BY GoodBookSet DEF MatchStates
<1>2. \A m \in MatchStates : MatchStep(eng.cfg.stp, ts, m) \in MatchStates
  BY MatchStepType
<1>3. QED BY <1>1, <1>2, MatchStays

----------------------------------------------------------------------------
(* The auction: pairing *)

PairStates(n) ==
  [queue : {q \in Seq(Order) : Len(q) = n}, trades : Seq(Trade), next : Nat]

(* The first of some positions of a queue, by id and then by position. *)
LEMMA FirstType ==
  ASSUME NEW queue \in Seq(Order), NEW T, T \subseteq DOMAIN queue, T # {}
  PROVE First(queue, T) \in T
<1>1. DOMAIN queue = 1 .. Len(queue) /\ Len(queue) \in Nat
  BY LenProperties
<1>2. ASSUME NEW i \in T PROVE i \in Nat /\ queue[i].id \in Nat
  <2>1. i \in 1 .. Len(queue) BY <1>1
  <2>2. queue[i] \in Order BY <2>1, ElementOfSeq
  <2>3. queue[i].id \in Ids BY <2>2 DEF Order
  <2>4. Ids \subseteq Nat BY MarketAssumption
  <2>5. i \in Nat BY <1>1, <2>1
  <2>6. QED BY <2>3, <2>4, <2>5
<1> DEFINE I == {queue[i].id : i \in T}
<1>3. PICK id \in I : \A x \in I : id <= x
  <2>1. I \subseteq Nat /\ I # {} BY <1>2
  <2> HIDE DEF I
  <2>2. QED BY <2>1, LeastNat
<1> DEFINE J == {i \in T : queue[i].id = id}
<1>4. PICK i \in J : \A j \in J : i <= j
  <2>1. J \subseteq Nat /\ J # {} BY <1>2
  <2> HIDE DEF J
  <2>2. QED BY <2>1, LeastNat
<1>5. ASSUME NEW j \in T
      PROVE queue[i].id < queue[j].id \/ (queue[i].id = queue[j].id /\ i <= j)
  <2>1. queue[i].id = id BY <1>4
  <2>2. id <= queue[j].id BY <1>3
  <2>3. queue[i].id \in Nat /\ queue[j].id \in Nat BY <1>2, <1>4
  <2>4. CASE queue[j].id = id
    <3>1. i <= j BY <1>4, <2>4
    <3>2. QED BY <2>1, <2>4, <3>1
  <2>5. CASE queue[j].id # id
    BY <2>1, <2>2, <2>3, <2>5
  <2>6. QED BY <2>4, <2>5
<1>6. i \in T BY <1>4
<1>7. \E k \in T : \A j \in T : queue[k].id < queue[j].id \/ (queue[k].id = queue[j].id /\ k <= j)
  BY <1>5, <1>6
<1>8. QED BY <1>7 DEF First

(* A pairing: two orders lose the same quantity, one trade is printed. *)
LEMMA PairStepType ==
  ASSUME NEW n, NEW u \in PairStates(n), NEW px \in Prices, NEW ts \in Int
  PROVE PairStep(px, ts, u) \in PairStates(n)
<1> DEFINE open(side) == {i \in DOMAIN u.queue : /\ u.queue[i].side = side
                                                 /\ Eligible(u.queue[i], px)
                                                 /\ u.queue[i].qty > 0}
           b == First(u.queue, open("Buy"))
           s == First(u.queue, open("Sell"))
           q == Smaller(u.queue[b].qty, u.queue[s].qty)
           fill(i) == [u.queue[i] EXCEPT !.qty = u.queue[i].qty - q]
           trade == [id |-> u.next, ts |-> ts, price |-> px, qty |-> q,
                     maker |-> u.queue[s].id, taker |-> u.queue[b].id]
           new == [i \in DOMAIN u.queue |-> IF i \in {b, s} THEN fill(i) ELSE u.queue[i]]
<1>1. /\ u.queue \in Seq(Order) /\ Len(u.queue) = n
      /\ u.trades \in Seq(Trade) /\ u.next \in Nat
  BY DEF PairStates
<1>2. DOMAIN u.queue = 1 .. n /\ n \in Nat
  BY <1>1, LenProperties
<1>3. CASE open("Buy") = {} \/ open("Sell") = {}
  BY <1>3 DEF PairStep
<1>4. CASE ~(open("Buy") = {} \/ open("Sell") = {})
  <2>1. b \in DOMAIN u.queue /\ s \in DOMAIN u.queue
    <3> DEFINE B == open("Buy")
               C == open("Sell")
               w == u.queue
    <3>1. /\ B # {} /\ B \subseteq DOMAIN w /\ C # {} /\ C \subseteq DOMAIN w
          /\ w \in Seq(Order)
      BY <1>1, <1>4
    <3> HIDE DEF B, C, w
    <3>2. First(w, B) \in B /\ First(w, C) \in C
      BY <3>1, FirstType
    <3>3. First(w, B) \in DOMAIN w /\ First(w, C) \in DOMAIN w
      BY <3>1, <3>2
    <3>4. QED BY <3>3 DEF B, C, w
  <2>2. PairStep(px, ts, u) = [queue |-> new, trades |-> Append(u.trades, trade), next |-> u.next + 1]
    BY <1>4 DEF PairStep
  <2> HIDE DEF b, s, open
  <2>3. \A i \in 1 .. n : u.queue[i] \in Order
    BY <1>1, ElementOfSeq
  <2>4. q \in Int
    BY <1>2, <2>1, <2>3 DEF Smaller, Order
  <2> HIDE DEF q
  <2>5. \A i \in 1 .. n : fill(i) \in Order
    BY <2>3, <2>4 DEF Order
  <2>6. new \in [1 .. n -> Order]
    <3> HIDE DEF fill
    <3>1. QED BY <1>2, <2>3, <2>5
  <2>7. new \in Seq(Order) /\ Len(new) = n
    <3> HIDE DEF new
    <3>1. QED BY <1>2, <2>6
  <2>8. trade \in Trade
    BY <1>1, <1>2, <2>1, <2>3, <2>4 DEF Trade, Order
  <2> HIDE DEF trade, new
  <2>9. Append(u.trades, trade) \in Seq(Trade)
    BY <1>1, <2>8, AppendProperties
  <2>10. QED BY <1>1, <2>2, <2>7, <2>9 DEF PairStates
<1>5. QED BY <1>3, <1>4

(* The pairings are a run of PairStep; a set of states that one pairing does not
   leave is not left by the run. *)
LEMMA PairedRun ==
  ASSUME NEW eng, eng.queue \in Seq(Order), NEW px, NEW ts, NEW X,
         [queue |-> eng.queue, trades |-> <<>>, next |-> eng.next_trade_id] \in X,
         \A u \in X : PairStep(px, ts, u) \in X
  PROVE \E run : /\ run[0] = [queue |-> eng.queue, trades |-> <<>>, next |-> eng.next_trade_id]
                 /\ Paired(eng, px, ts) = run[Len(eng.queue)]
                 /\ \A k \in Nat : run[k] \in X /\ run[k + 1] = PairStep(px, ts, run[k])
<1> DEFINE n == Len(eng.queue)
           s == [queue |-> eng.queue, trades |-> <<>>, next |-> eng.next_trade_id]
           S == [k \in Nat |-> [u \in X |-> PairStep(px, ts, u)]]
           Eqn(r) == r = [k \in Nat |-> IF k = 0 THEN s ELSE PairStep(px, ts, r[k - 1])]
           run == CHOOSE r : Eqn(r)
<1>1. s \in X /\ n \in Nat
  BY LenProperties
<1>2. Paired(eng, px, ts) = run[n]
  BY DEF Paired, Iterate
<1>3. S \in [Nat -> [X -> X]]
  OBVIOUS
<1> HIDE DEF s, n
<1>4. PICK f : IsRun(f, X, S, s)
  <2> HIDE DEF S
  <2>1. QED BY <1>1, <1>3, LoopRun
<1>5. Eqn(f)
  <2>1. f = [k \in Nat |-> f[k]] /\ f[0] = s BY <1>4 DEF IsRun
  <2>2. ASSUME NEW k \in Nat, k # 0 PROVE f[k] = PairStep(px, ts, f[k - 1])
    <3>1. k - 1 \in Nat /\ (k - 1) + 1 = k BY <2>2
    <3>2. f[k - 1] \in X BY <1>4, <3>1 DEF IsRun
    <3>3. f[(k - 1) + 1] = S[k - 1][f[k - 1]] BY <1>4, <3>1 DEF IsRun
    <3>4. QED BY <3>1, <3>2, <3>3
  <2>3. QED BY <2>1, <2>2
<1>6. Eqn(run)
  <2> HIDE DEF Eqn
  <2>1. QED BY <1>5
<1> HIDE DEF run
<1>7. run[0] = s
  BY <1>6
<1>8. ASSUME NEW k \in Nat PROVE run[k + 1] = PairStep(px, ts, run[k])
  <2>1. k + 1 \in Nat /\ k + 1 # 0 /\ (k + 1) - 1 = k OBVIOUS
  <2>2. QED BY <1>6, <2>1
<1>9. ASSUME NEW m \in Nat PROVE run[m] \in X
  <2>1. \A k \in Nat : run[k] \in X => run[k + 1] \in X BY <1>8
  <2>2. QED BY <1>1, <1>7, <2>1, RunStays
<1>10. QED BY <1>2, <1>7, <1>8, <1>9 DEF s, n

LEMMA PairedStays ==
  ASSUME NEW eng, eng.queue \in Seq(Order), NEW px, NEW ts, NEW X,
         [queue |-> eng.queue, trades |-> <<>>, next |-> eng.next_trade_id] \in X,
         \A u \in X : PairStep(px, ts, u) \in X
  PROVE Paired(eng, px, ts) \in X
<1>1. PICK run : Paired(eng, px, ts) = run[Len(eng.queue)] /\ \A k \in Nat : run[k] \in X
  BY PairedRun
<1>2. Len(eng.queue) \in Nat
  BY LenProperties
<1>3. QED BY <1>1, <1>2

(* What holds of the start and is handed on by every pairing, with a count. *)
LEMMA PairedCounts ==
  ASSUME NEW eng, eng.queue \in Seq(Order), NEW px, NEW ts, NEW X, NEW Z,
         [queue |-> eng.queue, trades |-> <<>>, next |-> eng.next_trade_id] \in X,
         \A u \in X : PairStep(px, ts, u) \in X,
         [queue |-> eng.queue, trades |-> <<>>, next |-> eng.next_trade_id] \in Z[0],
         \A k \in Nat : \A u \in X : u \in Z[k] => PairStep(px, ts, u) \in Z[k + 1]
  PROVE Paired(eng, px, ts) \in X \cap Z[Len(eng.queue)]
<1> DEFINE n == Len(eng.queue)
<1>1. PICK run :
        /\ run[0] = [queue |-> eng.queue, trades |-> <<>>, next |-> eng.next_trade_id]
        /\ Paired(eng, px, ts) = run[n]
        /\ \A k \in Nat : run[k] \in X /\ run[k + 1] = PairStep(px, ts, run[k])
  BY PairedRun
<1>2. n \in Nat
  BY LenProperties
<1> HIDE DEF n
<1>3. run[0] \in Z[0]
  BY <1>1
<1>4. ASSUME NEW k \in Nat, run[k] \in Z[k] PROVE run[k + 1] \in Z[k + 1]
  BY <1>1, <1>4
<1>5. run[n] \in Z[n]
  BY <1>2, <1>3, <1>4, RunCounts
<1>6. QED BY <1>1, <1>2, <1>5 DEF n

(* All pairings of an uncrossing. *)
LEMMA PairedType ==
  ASSUME NEW eng, eng.queue \in Seq(Order), eng.next_trade_id \in Nat,
         NEW px \in Prices, NEW ts \in Int
  PROVE Paired(eng, px, ts) \in PairStates(Len(eng.queue))
<1> DEFINE X == PairStates(Len(eng.queue))
<1>1. [queue |-> eng.queue, trades |-> <<>>, next |-> eng.next_trade_id] \in X
  BY DEF PairStates
<1>2. \A u \in X : PairStep(px, ts, u) \in X
  BY LenProperties, PairStepType
<1> HIDE DEF X
<1>3. Paired(eng, px, ts) \in X
  BY <1>1, <1>2, PairedStays
<1>4. QED BY <1>3 DEF X

----------------------------------------------------------------------------
(* The auction: putting back what is left *)

RestockStates(D) == [todo : SUBSET D, book : GoodBooks]

(* One order is put back, or refused by the book. *)
LEMMA RestockStepType ==
  ASSUME NEW queue \in Seq(Order), NEW by_id, NEW r \in RestockStates(DOMAIN queue)
  PROVE RestockStep(queue, by_id, r) \in RestockStates(DOMAIN queue)
<1> DEFINE T == r.todo
           i == IF by_id THEN First(queue, T) ELSE CHOOSE k \in T : \A j \in T : k <= j
<1>1. T \subseteq DOMAIN queue /\ GoodBook(r.book)
  BY GoodBookSet DEF RestockStates
<1>2. CASE T = {}
  BY <1>2 DEF RestockStep
<1>3. CASE T # {}
  <2>1. i \in T
    <3> HIDE DEF T
    <3>1. DOMAIN queue \subseteq Nat
      <4>1. DOMAIN queue = 1 .. Len(queue) BY LenProperties
      <4>2. QED BY <4>1
    <3>2. \E k \in T : \A j \in T : k <= j BY <1>1, <1>3, <3>1, LeastNat
    <3>3. First(queue, T) \in T BY <1>1, <1>3, FirstType
    <3>4. QED BY <3>2, <3>3
  <2>2. RestockStep(queue, by_id, r) =
          [todo |-> T \ {i}, book |-> AddRestingLimit(r.book, queue[i]).book]
    BY <1>3 DEF RestockStep
  <2> HIDE DEF i
  <2>3. queue[i] \in Order
    <3>1. i \in 1 .. Len(queue) BY <1>1, <2>1, LenProperties
    <3>2. QED BY <3>1, ElementOfSeq
  <2>4. AddRestingLimit(r.book, queue[i]).book \in GoodBooks
    <3> DEFINE o == queue[i]
               book == r.book
    <3>1. o \in Order /\ GoodBook(book) BY <1>1, <2>3
    <3> HIDE DEF o, book
    <3>2. GoodBook(AddRestingLimit(book, o).book) BY <3>1, AddGood
    <3>3. AddRestingLimit(book, o).book \in GoodBooks BY <3>2, GoodBookSet
    <3>4. QED BY <3>3 DEF o, book
  <2>5. QED BY <1>1, <2>2, <2>4 DEF RestockStates
<1>4. QED BY <1>2, <1>3

(* A set of states that putting one order back does not leave is not left by
   putting back all. *)
LEMMA RestockStays ==
  ASSUME NEW queue \in Seq(Order), NEW by_id, NEW book, NEW T, NEW X,
         [todo |-> T, book |-> book] \in X,
         \A r \in X : RestockStep(queue, by_id, r) \in X
  PROVE \E r \in X : Restock(book, queue, T, by_id) = r.book
<1> DEFINE n == Len(queue)
           s == [todo |-> T, book |-> book]
           S == [k \in Nat |-> [r \in X |-> RestockStep(queue, by_id, r)]]
           Eqn(r) == r = [k \in Nat |-> IF k = 0 THEN s ELSE RestockStep(queue, by_id, r[k - 1])]
           run == CHOOSE r : Eqn(r)
<1>1. s \in X /\ n \in Nat
  BY LenProperties
<1>2. Restock(book, queue, T, by_id) = run[n].book
  BY DEF Restock, Iterate
<1>3. S \in [Nat -> [X -> X]]
  OBVIOUS
<1> HIDE DEF s, n
<1>4. PICK f : IsRun(f, X, S, s)
  <2> HIDE DEF S
  <2>1. QED BY <1>1, <1>3, LoopRun
<1>5. Eqn(f)
  <2>1. f = [k \in Nat |-> f[k]] /\ f[0] = s BY <1>4 DEF IsRun
  <2>2. ASSUME NEW k \in Nat, k # 0 PROVE f[k] = RestockStep(queue, by_id, f[k - 1])
    <3>1. k - 1 \in Nat /\ (k - 1) + 1 = k BY <2>2
    <3>2. f[k - 1] \in X BY <1>4, <3>1 DEF IsRun
    <3>3. f[(k - 1) + 1] = S[k - 1][f[k - 1]] BY <1>4, <3>1 DEF IsRun
    <3>4. QED BY <3>1, <3>2, <3>3
  <2>3. QED BY <2>1, <2>2
<1>6. Eqn(run)
  <2> HIDE DEF Eqn
  <2>1. QED BY <1>5
<1> HIDE DEF run
<1>7. run[n] \in X
  <2>1. run[0] \in X BY <1>1, <1>6
  <2>2. ASSUME NEW k \in Nat, run[k] \in X PROVE run[k + 1] \in X
    <3>1. k + 1 \in Nat /\ k + 1 # 0 /\ (k + 1) - 1 = k OBVIOUS
    <3>2. run[k + 1] = RestockStep(queue, by_id, run[k]) BY <1>6, <3>1
    <3>3. QED BY <2>2, <3>2
  <2>3. QED BY <1>1, <2>1, <2>2, RunStays
<1>8. QED BY <1>2, <1>7

(* All of them. *)
LEMMA RestockGood ==
  ASSUME NEW queue \in Seq(Order), NEW by_id, NEW book, GoodBook(book),
         NEW T, T \subseteq DOMAIN queue
  PROVE GoodBook(Restock(book, queue, T, by_id))
<1> DEFINE X == RestockStates(DOMAIN queue)
<1>1. [todo |-> T, book |-> book] \in X
  BY GoodBookSet DEF RestockStates
<1>2. \A r \in X : RestockStep(queue, by_id, r) \in X
  BY RestockStepType
<1> HIDE DEF X
<1>3. PICK r \in X : Restock(book, queue, T, by_id) = r.book
  BY <1>1, <1>2, RestockStays
<1>4. QED BY <1>3, GoodBookSet DEF X, RestockStates

----------------------------------------------------------------------------
(* The engine *)

GoodEngine(e) == IsEngine(e) /\ GoodBook(e.book)

(* What the operators may rely on, field by field. *)
LEMMA EngineFields ==
  ASSUME NEW e, GoodEngine(e)
  PROVE /\ GoodBook(e.book) /\ e.cfg \in RulesConfig /\ e.phase \in Phases
        /\ e.last \in Prices \cup {None} /\ e.next_trade_id \in Nat
        /\ e.queue \in Seq(Order) /\ e.auction_end \in Int /\ e.tal_end \in Int
        /\ e.cb_ref \in Prices \cup {None} /\ e.halt_end \in Int /\ e.reopen_end \in Int
        /\ e.spinning \in BOOLEAN
        /\ e.cfg.halt \in Nat /\ e.cfg.reopen \in Nat /\ e.cfg.vol_auction \in Nat
BY DEF GoodEngine, IsEngine, RulesConfig

(* A good book is an IsBook. *)
LEMMA GoodIsBook ==
  ASSUME NEW b, GoodBook(b) PROVE IsBook(b)
BY DEF GoodBook

(* A new engine is good. *)
LEMMA NewEngineGood ==
  ASSUME NEW cfg \in RulesConfig
  PROVE GoodEngine(NewEngine(cfg))
<1>1. "Continuous" \in Phases /\ <<>> \in Seq(Order)
  BY DEF Phases
<1>2. GoodBook(EmptyBook) /\ IsBook(EmptyBook)
  BY EmptyGood, GoodIsBook
<1>3. QED BY <1>1, <1>2 DEF NewEngine, GoodEngine, IsEngine

(* Updates of the fields that the member functions assign together. *)
LEMMA SetBook ==
  ASSUME NEW e, GoodEngine(e), NEW b, GoodBook(b), NEW q \in Seq(Order), NEW n \in Nat
  PROVE /\ GoodEngine([e EXCEPT !.book = b])
        /\ GoodEngine([e EXCEPT !.book = b, !.queue = q])
        /\ GoodEngine([e EXCEPT !.book = b, !.queue = q, !.next_trade_id = n])
        /\ GoodEngine([e EXCEPT !.queue = q])
BY GoodIsBook DEF GoodEngine, IsEngine

(* The phase and the end of the phase. *)
LEMMA SetPhase ==
  ASSUME NEW e, GoodEngine(e), NEW p \in Phases, NEW end \in Int
  PROVE /\ GoodEngine([e EXCEPT !.phase = p])
        /\ GoodEngine([e EXCEPT !.phase = p, !.auction_end = end])
        /\ GoodEngine([e EXCEPT !.tal_end = end, !.phase = p])
        /\ GoodEngine([e EXCEPT !.auction_end = end, !.phase = p])
BY DEF GoodEngine, IsEngine

(* The prices of the last trade and of the breaker. *)
LEMMA SetPrice ==
  ASSUME NEW e, GoodEngine(e), NEW p \in Prices \cup {None}
  PROVE GoodEngine([e EXCEPT !.last = p]) /\ GoodEngine([e EXCEPT !.cb_ref = p])
BY DEF GoodEngine, IsEngine

(* The first and the last trade of a list. *)
LEMMA EndTrades ==
  ASSUME NEW trades \in Seq(Trade), trades # <<>>
  PROVE Head(trades) \in Trade /\ Last(trades) \in Trade
<1>1. Len(trades) \in 1 .. Len(trades) /\ 1 \in 1 .. Len(trades)
  BY EmptySeq
<1>2. Head(trades) = trades[1]
  BY HeadTailProperties
<1>3. QED BY <1>1, <1>2, ElementOfSeq DEF Last

(* RuleSet::on_trades *)
LEMMA OnTradesGood ==
  ASSUME NEW e, GoodEngine(e), NEW trades \in Seq(Trade)
  PROVE GoodEngine(OnTrades(e, trades))
<1>1. CASE trades = <<>>
  BY <1>1 DEF OnTrades
<1>2. CASE trades # <<>>
  <2>1. Last(trades).price \in Prices BY <1>2, EndTrades DEF Trade
  <2>2. OnTrades(e, trades) = [e EXCEPT !.last = Last(trades).price] BY <1>2 DEF OnTrades
  <2> DEFINE p == Last(trades).price
  <2>3. p \in Prices \cup {None} BY <2>1
  <2> HIDE DEF p
  <2>4. GoodEngine([e EXCEPT !.last = p]) BY <2>3, SetPrice
  <2>5. QED BY <2>2, <2>4 DEF p
<1>3. QED BY <1>1, <1>2

(* The halt moves the whole book to the queue. *)
LEMMA HaltGood ==
  ASSUME NEW e, GoodEngine(e), NEW ts \in Int
  PROVE GoodEngine(Halt(e, ts))
<1> DEFINE h == ts + e.cfg.halt
           r == h + e.cfg.reopen
           q == e.queue \o Drained(e.book, "Buy") \o Drained(e.book, "Sell")
<1>1. IsBook(e.book) /\ e.queue \in Seq(Order)
  BY EngineFields, GoodIsBook
<1>2. Drained(e.book, "Buy") \in Seq(Order) /\ Drained(e.book, "Sell") \in Seq(Order)
  BY <1>1, DrainedType DEF Sides
<1>3. q \in Seq(Order)
  <2> DEFINE x == e.queue
             y == Drained(e.book, "Buy")
             z == Drained(e.book, "Sell")
  <2>1. x \in Seq(Order) /\ y \in Seq(Order) /\ z \in Seq(Order) BY <1>1, <1>2
  <2> HIDE DEF x, y, z
  <2>2. x \o y \in Seq(Order) BY <2>1, ConcatProperties
  <2>3. (x \o y) \o z \in Seq(Order) BY <2>1, <2>2, ConcatProperties
  <2>4. QED BY <2>3 DEF x, y, z
<1>4. h \in Int /\ r \in Int
  <2>1. e.cfg.halt \in Nat /\ e.cfg.reopen \in Nat BY EngineFields
  <2>2. QED BY <2>1
<1>5. Halt(e, ts) = [e EXCEPT !.phase = "Halted", !.halt_end = h, !.reopen_end = r,
                              !.auction_end = r, !.queue = q, !.book = EmptyBook]
  BY DEF Halt
<1> HIDE DEF h, r, q
<1>6. "Halted" \in Phases
  BY DEF Phases
<1>7. GoodBook(EmptyBook) /\ IsBook(EmptyBook)
  BY EmptyGood, GoodIsBook
<1>8. QED BY <1>3, <1>4, <1>5, <1>6, <1>7 DEF GoodEngine, IsEngine

(* maybe_trigger_circuit_breaker *)
LEMMA CircuitBreakerGood ==
  ASSUME NEW e, GoodEngine(e), NEW trades \in Seq(Trade)
  PROVE GoodEngine(MaybeTriggerCircuitBreaker(e, trades))
<1> DEFINE ref == IF e.cb_ref = None THEN Head(trades).price ELSE e.cb_ref
           armed == [e EXCEPT !.cb_ref = ref]
<1>1. CASE ~e.cfg.breaker \/ trades = <<>> \/ e.phase # "Continuous"
  BY <1>1 DEF MaybeTriggerCircuitBreaker
<1>2. CASE ~(~e.cfg.breaker \/ trades = <<>> \/ e.phase # "Continuous")
  <2>1. Head(trades).price \in Prices /\ Last(trades).ts \in Int
    BY <1>2, EndTrades DEF Trade
  <2>2. ref \in Prices \cup {None}
    BY <2>1, EngineFields
  <2>3. GoodEngine(armed)
    <3> HIDE DEF ref
    <3>1. QED BY <2>2, SetPrice
  <2>4. GoodEngine(Halt(armed, Last(trades).ts))
    <3> DEFINE t == Last(trades).ts
    <3>1. t \in Int BY <2>1
    <3> HIDE DEF armed, t
    <3>2. GoodEngine(Halt(armed, t)) BY <2>3, <3>1, HaltGood
    <3>3. QED BY <3>2 DEF t
  <2>5. MaybeTriggerCircuitBreaker(e, trades) \in {armed, Halt(armed, Last(trades).ts)}
    <3>1. MaybeTriggerCircuitBreaker(e, trades) =
            IF Last(trades).price > MulDivBps(ref, 10000 - armed.cfg.drop_bps)
            THEN armed ELSE Halt(armed, Last(trades).ts)
      BY <1>2 DEF MaybeTriggerCircuitBreaker
    <3> HIDE DEF armed, ref
    <3>2. QED BY <3>1
  <2>6. QED BY <2>3, <2>4, <2>5
<1>3. QED BY <1>1, <1>2

----------------------------------------------------------------------------
(* Uncrossing *)

(* The outcome of a call: an engine and the trades it printed. *)
GoodOutcome(r) == GoodEngine(r.eng) /\ r.trades \in Seq(Trade)

(* The clearing price is the price of an order. *)
LEMMA ClearingPriceType ==
  ASSUME NEW e, GoodEngine(e)
  PROVE ComputeClearingPrice(e) \in Prices \cup {None}
<1> DEFINE queue == e.queue
           candidates == LimitPrices(queue)
           best == {p \in candidates :
                      /\ ExecutableVolumeAt(queue, p) > 0
                      /\ \A q \in candidates : Preferred(queue, ReferencePrice(e), p, q)}
<1>1. candidates \subseteq Prices
  <2>1. queue \in Seq(Order) BY EngineFields
  <2> HIDE DEF queue
  <2>2. ASSUME NEW i \in DOMAIN queue PROVE queue[i].price \in Prices
    <3>1. i \in 1 .. Len(queue) BY <2>1, LenProperties
    <3>2. queue[i] \in Order BY <2>1, <3>1, ElementOfSeq
    <3>3. QED BY <3>2 DEF Order
  <2>3. QED BY <2>2 DEF LimitPrices
<1>2. best \subseteq Prices
  BY <1>1
<1>3. ComputeClearingPrice(e) = IF best = {} THEN None ELSE CHOOSE p \in best : TRUE
  BY DEF ComputeClearingPrice
<1> HIDE DEF best
<1>4. QED BY <1>2, <1>3

(* uncross_auction at a clearing price. *)
LEMMA UncrossAtGood ==
  ASSUME NEW e, GoodEngine(e), NEW px \in Prices, NEW ts \in Int
  PROVE GoodOutcome(UncrossAt(e, px, ts))
<1> DEFINE u == Paired(e, px, ts)
           q == u.queue
           left(side) == {i \in LimitsLeft(q) : q[i].side = side /\ Eligible(q[i], px)}
           buys == left("Buy")
           sells == left("Sell")
           others == LimitsLeft(q) \ (buys \cup sells)
           book1 == Restock(e.book, q, buys, TRUE)
           book2 == Restock(book1, q, sells, TRUE)
           book3 == Restock(book2, q, others, FALSE)
<1>1. u \in PairStates(Len(e.queue))
  <2>1. e.queue \in Seq(Order) /\ e.next_trade_id \in Nat BY EngineFields
  <2>2. QED BY <2>1, PairedType
<1> HIDE DEF u
<1>2. q \in Seq(Order) /\ u.trades \in Seq(Trade) /\ u.next \in Nat
  BY <1>1 DEF PairStates
<1>3. UncrossAt(e, px, ts) =
        [eng |-> [e EXCEPT !.book = book3, !.queue = <<>>, !.next_trade_id = u.next],
         trades |-> u.trades]
  BY DEF UncrossAt, Leftovers, u
<1> HIDE DEF q
<1>4. buys \subseteq DOMAIN q /\ sells \subseteq DOMAIN q /\ others \subseteq DOMAIN q
  BY DEF LimitsLeft
<1>5. GoodBook(e.book)
  BY EngineFields
<1> HIDE DEF buys, sells, others, book1, book2, book3
<1>6. GoodBook(book1)
  BY <1>2, <1>4, <1>5, RestockGood DEF book1
<1>7. GoodBook(book2)
  BY <1>2, <1>4, <1>6, RestockGood DEF book2
<1>8. GoodBook(book3)
  BY <1>2, <1>4, <1>7, RestockGood DEF book3
<1>9. GoodEngine([e EXCEPT !.book = book3, !.queue = <<>>, !.next_trade_id = u.next])
  <2> DEFINE none == <<>>
             n == u.next
  <2>1. none \in Seq(Order) /\ n \in Nat BY <1>2
  <2> HIDE DEF none, n
  <2>2. GoodEngine([e EXCEPT !.book = book3, !.queue = none, !.next_trade_id = n])
    BY <1>8, <2>1, SetBook
  <2>3. QED BY <2>2 DEF none, n
<1>10. QED BY <1>2, <1>3, <1>9 DEF GoodOutcome

(* uncross_auction *)
LEMMA UncrossGood ==
  ASSUME NEW e, GoodEngine(e), NEW ts \in Int
  PROVE GoodOutcome(UncrossAuction(e, ts))
<1> DEFINE px == ComputeClearingPrice(e)
           q == e.queue
           book == Restock(e.book, q, LimitsLeft(q), FALSE)
           none == <<>>
<1>1. px \in Prices \cup {None}
  BY ClearingPriceType
<1>2. CASE px # None
  <2>1. UncrossAuction(e, ts) = UncrossAt(e, px, ts) BY <1>2 DEF UncrossAuction
  <2> HIDE DEF px
  <2>2. QED BY <1>1, <1>2, <2>1, UncrossAtGood
<1>3. CASE px = None
  <2>1. UncrossAuction(e, ts) = [eng |-> [e EXCEPT !.book = book, !.queue = none], trades |-> <<>>]
    BY <1>3 DEF UncrossAuction
  <2>2. q \in Seq(Order) /\ GoodBook(e.book) BY EngineFields
  <2>3. LimitsLeft(q) \subseteq DOMAIN q BY DEF LimitsLeft
  <2>4. none \in Seq(Order) OBVIOUS
  <2> HIDE DEF q
  <2>5. GoodBook(book) BY <2>2, <2>3, RestockGood
  <2> HIDE DEF book, none
  <2>6. GoodEngine([e EXCEPT !.book = book, !.queue = none]) BY <2>4, <2>5, SetBook
  <2>7. QED BY <2>1, <2>6 DEF GoodOutcome
<1>4. QED BY <1>2, <1>3

----------------------------------------------------------------------------
(* flush *)

(* The expiries of trading-at-last and of a halt. *)
LEMMA ExpireGood ==
  ASSUME NEW e, GoodEngine(e), NEW ts \in Int
  PROVE GoodEngine(ExpireTradingAtLast(e, ts)) /\ GoodEngine(ExpireHalt(e, ts))
<1>1. "Continuous" \in Phases /\ "Auction" \in Phases /\ 0 \in Int
  BY DEF Phases
<1>2. GoodEngine([e EXCEPT !.phase = "Continuous"]) /\ GoodEngine([e EXCEPT !.phase = "Auction"])
  BY <1>1, SetPhase
<1>3. QED BY <1>2 DEF ExpireTradingAtLast, ExpireHalt

(* The expiry of an auction. *)
LEMMA ExpireAuctionGood ==
  ASSUME NEW e, GoodEngine(e), NEW ts \in Int
  PROVE GoodOutcome(ExpireAuction(e, ts))
<1> DEFINE u == UncrossAuction(e, e.auction_end)
           p == IF e.phase = "ClosingAuction" THEN "Closed" ELSE "Continuous"
           next == [u.eng EXCEPT !.phase = p]
<1>1. CASE ~AuctionDue(e, ts)
  BY <1>1 DEF ExpireAuction, GoodOutcome
<1>2. CASE AuctionDue(e, ts)
  <2>1. GoodEngine(u.eng) /\ u.trades \in Seq(Trade)
    <3>1. e.auction_end \in Int BY EngineFields
    <3>2. QED BY <3>1, UncrossGood DEF GoodOutcome
  <2>2. p \in Phases /\ 0 \in Int BY DEF Phases
  <2>3. ExpireAuction(e, ts) =
          [eng |-> MaybeTriggerCircuitBreaker(OnTrades(next, u.trades), u.trades),
           trades |-> u.trades]
    BY <1>2 DEF ExpireAuction, EndAuction
  <2> HIDE DEF p, u
  <2>4. GoodEngine(next) BY <2>1, <2>2, SetPhase
  <2> HIDE DEF next
  <2>5. GoodEngine(OnTrades(next, u.trades)) BY <2>1, <2>4, OnTradesGood
  <2>6. GoodEngine(MaybeTriggerCircuitBreaker(OnTrades(next, u.trades), u.trades))
    BY <2>1, <2>5, CircuitBreakerGood
  <2>7. QED BY <2>1, <2>3, <2>6 DEF GoodOutcome
<1>3. QED BY <1>1, <1>2

(* flush *)
LEMMA FlushGood ==
  ASSUME NEW e, GoodEngine(e), NEW ts \in Int
  PROVE GoodOutcome(Flush(e, ts))
<1>1. GoodEngine(ExpireTradingAtLast(e, ts))
  BY ExpireGood
<1>2. GoodEngine(ExpireHalt(ExpireTradingAtLast(e, ts), ts))
  BY <1>1, ExpireGood
<1>3. QED BY <1>2, ExpireAuctionGood DEF Flush

----------------------------------------------------------------------------
(* process *)

(* What is left of the taker is added to the book, or not. *)
LEMMA RestLeftGood ==
  ASSUME NEW e, GoodEngine(e), NEW m \in MatchStates, NEW left \in Order
  PROVE GoodOutcome(RestLeft(e, m, left)) /\ GoodOutcome(Unrested(e, m))
<1>1. GoodBook(m.book) /\ m.trades \in Seq(Trade) /\ m.next \in Nat
  BY GoodBookSet DEF MatchStates
<1>2. ASSUME NEW n, GoodBook(n.book), n.next \in Nat
      PROVE GoodEngine(AfterMatch(e, n))
  <2>1. IsBook(n.book) BY <1>2, GoodIsBook
  <2>2. (e.spinning \/ CanMatch(n)) \in BOOLEAN OBVIOUS
  <2>3. AfterMatch(e, n) = [e EXCEPT !.book = n.book, !.next_trade_id = n.next,
                                     !.spinning = e.spinning \/ CanMatch(n)]
    BY DEF AfterMatch
  <2>4. QED BY <1>2, <2>1, <2>2, <2>3 DEF GoodEngine, IsEngine
<1>3. GoodOutcome(Unrested(e, m))
  BY <1>1, <1>2 DEF Unrested, GoodOutcome
<1> DEFINE b == AddRestingLimit(m.book, left).book
           n == [m EXCEPT !.book = b]
<1>4. GoodBook(b)
  BY <1>1, AddGood
<1>5. n.book = b /\ n.next = m.next
  BY DEF MatchStates
<1>6. GoodEngine(AfterMatch(e, n))
  <2> HIDE DEF n, b
  <2>1. QED BY <1>1, <1>2, <1>4, <1>5
<1>7. RestLeft(e, m, left).eng = AfterMatch(e, n) /\ RestLeft(e, m, left).trades = m.trades
  BY DEF RestLeft
<1>8. QED BY <1>1, <1>3, <1>6, <1>7 DEF GoodOutcome

(* process_limit *)
LEMMA ProcessLimitGood ==
  ASSUME NEW e, GoodEngine(e), NEW o \in Order, NEW ts \in Int
  PROVE GoodOutcome(ProcessLimit(e, o, ts))
<1> DEFINE m == Match(e, o, ts)
<1>1. m \in MatchStates
  BY EngineFields, MatchType
<1> HIDE DEF m
<1>2. m.taker \in Order
  BY <1>1 DEF MatchStates
<1>3. GoodOutcome(RestLeft(e, m, m.taker)) /\ GoodOutcome(Unrested(e, m))
  BY <1>1, <1>2, RestLeftGood
<1>4. QED BY <1>3 DEF ProcessLimit, m

(* process_market *)
LEMMA ProcessMarketGood ==
  ASSUME NEW e, GoodEngine(e), NEW o \in Order, NEW ts \in Int
  PROVE GoodOutcome(ProcessMarket(e, o, ts))
<1> DEFINE m == Match(e, o, ts)
           left == [m.taker EXCEPT !.type = "Limit", !.tif = "GTC",
                                   !.price = Last(m.trades).price, !.style = "PureMarket"]
<1>1. m \in MatchStates
  BY EngineFields, MatchType
<1>2. ProcessMarket(e, o, ts) = IF o.style = "MarketToLimit" /\ m.taker.qty > 0 /\ m.trades # <<>>
                                THEN RestLeft(e, m, left) ELSE Unrested(e, m)
  BY DEF ProcessMarket
<1> HIDE DEF m
<1>3. m.taker \in Order /\ m.trades \in Seq(Trade)
  BY <1>1 DEF MatchStates
<1>4. GoodOutcome(Unrested(e, m))
  BY <1>1, <1>3, RestLeftGood
<1>5. ASSUME m.trades # <<>> PROVE GoodOutcome(RestLeft(e, m, left))
  <2>1. Last(m.trades).price \in Prices BY <1>3, <1>5, EndTrades DEF Trade
  <2>2. left \in Order BY <1>3, <2>1 DEF Order
  <2> HIDE DEF left
  <2>3. QED BY <1>1, <2>2, RestLeftGood
<1> HIDE DEF left
<1>6. QED BY <1>2, <1>4, <1>5

(* Rejections and acceptances are members of Statuses. *)
LEMMA PreAcceptType ==
  ASSUME NEW cfg, NEW phase, NEW o \in Order
  PROVE PreAccept(cfg, phase, o) \in Statuses
<1>1. o.qty \in Int
  BY DEF Order
<1>2. CASE o.qty <= 0
  BY <1>2 DEF PreAccept, Statuses
<1>3. CASE o.qty > 0
  <2>1. ~(o.qty <= 0) BY <1>1, <1>3
  <2>2. QED BY <2>1 DEF PreAccept, Statuses
<1>4. QED BY <1>1, <1>2, <1>3

(* What process() returns. *)
GoodResult(r) == GoodOutcome(r) /\ r.status \in Statuses

(* A result built from a good engine and a list of trades. *)
LEMMA ResultGood ==
  ASSUME NEW e, GoodEngine(e), NEW trades \in Seq(Trade), NEW resting, NEW status \in Statuses
  PROVE GoodResult(Result(e, trades, resting, status))
BY DEF GoodResult, GoodOutcome, Result

(* queue_in_auction *)
LEMMA QueueGood ==
  ASSUME NEW e, GoodEngine(e), NEW o \in Order
  PROVE GoodEngine(QueueInAuction(e, o))
<1> DEFINE q == e.queue
           b == e.book
<1>1. q \in Seq(Order) /\ GoodBook(b)
  BY EngineFields
<1>2. QueueInAuction(e, o) = [e EXCEPT !.queue = Append(q, o)]
  BY DEF QueueInAuction
<1> HIDE DEF q, b
<1>3. Append(q, o) \in Seq(Order)
  BY <1>1, AppendProperties
<1>4. GoodEngine([e EXCEPT !.queue = Append(q, o)])
  BY <1>1, <1>3, SetBook
<1>5. QED BY <1>2, <1>4

(* The end of process(). *)
LEMMA SettledGood ==
  ASSUME NEW flushed \in Seq(Trade), NEW r, GoodOutcome(r)
  PROVE GoodResult(Settled(flushed, r))
<1> DEFINE e == r.eng
           new == r.trades
           trades == flushed \o new
<1>1. GoodEngine(e) /\ new \in Seq(Trade)
  BY DEF GoodOutcome
<1>2. Settled(flushed, r) = Result(MaybeTriggerCircuitBreaker(OnTrades(e, trades), trades),
                                   trades, r.resting, "Accepted")
  BY DEF Settled
<1> HIDE DEF e, new
<1>3. trades \in Seq(Trade)
  BY <1>1, ConcatProperties
<1> HIDE DEF trades
<1>4. GoodEngine(OnTrades(e, trades))
  BY <1>1, <1>3, OnTradesGood
<1>5. GoodEngine(MaybeTriggerCircuitBreaker(OnTrades(e, trades), trades))
  BY <1>3, <1>4, CircuitBreakerGood
<1>6. "Accepted" \in Statuses
  BY DEF Statuses
<1>7. QED BY <1>2, <1>3, <1>5, <1>6, ResultGood

(* process() in the phase TradingAtLast *)
LEMMA TradingAtLastGood ==
  ASSUME NEW e, GoodEngine(e), NEW flushed \in Seq(Trade), NEW o \in Order, NEW ts \in Int
  PROVE GoodResult(ProcessTradingAtLast(e, flushed, o, ts))
<1> DEFINE at_last == [o EXCEPT !.type = "Limit", !.price = e.last]
<1>1. {"NoReferencePrice", "PriceNotAtLast"} \subseteq Statuses
  BY DEF Statuses
<1>2. GoodResult(Result(e, flushed, None, "NoReferencePrice"))
  BY <1>1, ResultGood
<1>3. GoodResult(Result(e, flushed, None, "PriceNotAtLast"))
  BY <1>1, ResultGood
<1>4. ASSUME e.last # None
      PROVE GoodResult(Settled(flushed, ProcessLimit(e, at_last, ts)))
  <2>1. e.last \in Prices BY <1>4, EngineFields
  <2>2. at_last \in Order BY <2>1 DEF Order
  <2> HIDE DEF at_last
  <2>3. GoodOutcome(ProcessLimit(e, at_last, ts)) BY <2>2, ProcessLimitGood
  <2>4. QED BY <2>3, SettledGood
<1> HIDE DEF at_last
<1>5. QED BY <1>2, <1>3, <1>4 DEF ProcessTradingAtLast, at_last

(* process() in the phase Continuous *)
LEMMA ContinuousGood ==
  ASSUME NEW e, GoodEngine(e), NEW flushed \in Seq(Trade), NEW o \in Order, NEW ts \in Int
  PROVE GoodResult(ProcessContinuous(e, flushed, o, ts))
<1> DEFINE end == ts + e.cfg.vol_auction
           auction == [e EXCEPT !.phase = "Auction", !.auction_end = end]
           nothing == [eng |-> e, trades |-> <<>>, resting |-> None]
<1>1. end \in Int
  <2>1. e.cfg.vol_auction \in Nat BY EngineFields
  <2>2. QED BY <2>1
<1>2. GoodResult(Result(QueueInAuction(auction, o), flushed, None, "Accepted"))
  <2>1. "Auction" \in Phases /\ "Accepted" \in Statuses BY DEF Phases, Statuses
  <2> HIDE DEF end
  <2>2. GoodEngine(auction) BY <1>1, <2>1, SetPhase
  <2> HIDE DEF auction
  <2>3. GoodEngine(QueueInAuction(auction, o)) BY <2>2, QueueGood
  <2>4. QED BY <2>1, <2>3, ResultGood
<1>3. GoodResult(Settled(flushed, nothing))
  <2>1. GoodOutcome(nothing) BY DEF GoodOutcome
  <2> HIDE DEF nothing
  <2>2. QED BY <2>1, SettledGood
<1>4. GoodResult(Settled(flushed, ProcessMarket(e, o, ts)))
  BY ProcessMarketGood, SettledGood
<1>5. GoodResult(Settled(flushed, ProcessLimit(e, o, ts)))
  BY ProcessLimitGood, SettledGood
<1>6. ProcessContinuous(e, flushed, o, ts) \in
        {Result(QueueInAuction(auction, o), flushed, None, "Accepted"),
         Settled(flushed, nothing), Settled(flushed, ProcessMarket(e, o, ts)),
         Settled(flushed, ProcessLimit(e, o, ts))}
  BY DEF ProcessContinuous
<1> HIDE DEF auction, nothing
<1>7. QED BY <1>2, <1>3, <1>4, <1>5, <1>6

(* process() returns a good engine, typed trades and a known status, whatever
   the phase, the order and the time. *)
THEOREM ProcessGood ==
  ASSUME NEW e0, GoodEngine(e0), NEW o \in Order, NEW ts \in Int
  PROVE GoodResult(Process(e0, o, ts))
<1> DEFINE f == Flush(e0, ts)
           e == f.eng
           flushed == f.trades
           status == PreAccept(e.cfg, e.phase, o)
<1>1. GoodEngine(e) /\ flushed \in Seq(Trade)
  BY FlushGood DEF GoodOutcome
<1> HIDE DEF f
<1>2. status \in Statuses
  BY PreAcceptType
<1>3. Process(e0, o, ts) =
        IF status # "Accepted" THEN Result(e, flushed, None, status)
        ELSE CASE e.phase = "Closed" -> Result(e, flushed, None, "Accepted")
               [] e.phase = "Halted" ->
                    IF e.cfg.queue_halt
                    THEN Result(QueueInAuction(e, o), flushed, None, "Accepted")
                    ELSE Result(e, flushed, None, "MarketHalted")
               [] e.phase = "TradingAtLast" -> ProcessTradingAtLast(e, flushed, o, ts)
               [] e.phase \in {"Auction", "ClosingAuction"} ->
                    Result(QueueInAuction(e, o), flushed, None, "Accepted")
               [] e.phase = "Continuous" -> ProcessContinuous(e, flushed, o, ts)
  BY DEF Process, ProcessFlushed, f
<1> HIDE DEF e, flushed, status
<1>4. e.phase \in Phases
  BY <1>1, EngineFields
<1>5. {"Accepted", "MarketHalted"} \subseteq Statuses
  BY DEF Statuses
<1>6. GoodResult(Result(e, flushed, None, status))
  BY <1>1, <1>2, ResultGood
<1>7. GoodResult(Result(e, flushed, None, "Accepted"))
  BY <1>1, <1>5, ResultGood
<1>8. GoodResult(Result(e, flushed, None, "MarketHalted"))
  BY <1>1, <1>5, ResultGood
<1>9. GoodResult(Result(QueueInAuction(e, o), flushed, None, "Accepted"))
  BY <1>1, <1>5, QueueGood, ResultGood
<1>10. GoodResult(ProcessTradingAtLast(e, flushed, o, ts))
  BY <1>1, TradingAtLastGood
<1>11. GoodResult(ProcessContinuous(e, flushed, o, ts))
  BY <1>1, ContinuousGood
<1>12. QED BY <1>3, <1>4, <1>6, <1>7, <1>8, <1>9, <1>10, <1>11 DEF Phases

----------------------------------------------------------------------------
(* The numbers of the prints.  Every print gets the next trade id, wherever it
   comes from, and the last print sets the last price. *)

Serial(n, trades) == \A k \in 1 .. Len(trades) : trades[k].id = n + k - 1

(* What a call on engine e, with the outcome new and trades, does to the tape. *)
OnTape(e, new, trades) ==
  /\ new.next_trade_id = e.next_trade_id + Len(trades)
  /\ Serial(e.next_trade_id, trades)
  /\ new.last = IF trades = <<>> THEN e.last ELSE Last(trades).price

LEMMA NoneSerial == ASSUME NEW n PROVE Len(<<>>) = 0 /\ Serial(n, <<>>)
BY DEF Serial

LEMMA SerialAppends ==
  ASSUME NEW n \in Nat, NEW trades \in Seq(Trade), Serial(n, trades),
         NEW t, t.id = n + Len(trades)
  PROVE Len(Append(trades, t)) = Len(trades) + 1 /\ Serial(n, Append(trades, t))
<1> DEFINE r == Append(trades, t)
           S == Trade \cup {t}
<1>1. Len(trades) \in Nat /\ \A k \in 1 .. Len(trades) : trades[k] \in Trade
  BY LenProperties, ElementOfSeq
<1>2. trades \in Seq(S)
  BY <1>1
<1>3. t \in S
  OBVIOUS
<1> HIDE DEF S
<1>4. /\ Len(r) = Len(trades) + 1
      /\ \A k \in 1 .. Len(trades) : r[k] = trades[k]
      /\ r[Len(trades) + 1] = t
  BY <1>2, <1>3, AppendProperties
<1> HIDE DEF r
<1>5. ASSUME NEW k \in 1 .. Len(r) PROVE r[k].id = n + k - 1
  <2>1. CASE k \in 1 .. Len(trades)
    BY <1>4, <2>1 DEF Serial
  <2>2. CASE k = Len(trades) + 1
    BY <1>1, <1>4, <2>2
  <2>3. QED BY <1>1, <1>4, <2>1, <2>2
<1>6. QED BY <1>4, <1>5 DEF Serial, r

LEMMA SerialJoins ==
  ASSUME NEW n \in Nat, NEW a \in Seq(Trade), NEW b \in Seq(Trade),
         Serial(n, a), Serial(n + Len(a), b)
  PROVE Len(a \o b) = Len(a) + Len(b) /\ Serial(n, a \o b)
<1> DEFINE s == a \o b
<1>1. /\ Len(s) = Len(a) + Len(b)
      /\ \A k \in 1 .. Len(a) + Len(b) : s[k] = IF k <= Len(a) THEN a[k] ELSE b[k - Len(a)]
  BY ConcatProperties
<1>2. Len(a) \in Nat /\ Len(b) \in Nat
  BY LenProperties
<1> HIDE DEF s
<1>3. ASSUME NEW k \in 1 .. Len(s) PROVE s[k].id = n + k - 1
  <2>1. CASE k <= Len(a)
    <3>1. k \in 1 .. Len(a) /\ s[k] = a[k] BY <1>1, <1>2, <2>1
    <3>2. QED BY <3>1 DEF Serial
  <2>2. CASE ~(k <= Len(a))
    <3> DEFINE j == k - Len(a)
               m == n + Len(a)
    <3>1. j \in 1 .. Len(b) /\ s[k] = b[j] BY <1>1, <1>2, <2>2
    <3>2. b[j].id = m + j - 1 BY <3>1 DEF Serial
    <3>3. m + j - 1 = n + k - 1 BY <1>1, <1>2
    <3>4. QED BY <3>1, <3>2, <3>3
  <2>3. QED BY <2>1, <2>2
<1>4. QED BY <1>1, <1>3 DEF Serial, s

(* The state of a loop that prints: the prints so far, and the next id. *)
Printing(n, trades, next) == next = n + Len(trades) /\ Serial(n, trades)

LEMMA PrintsNext ==
  ASSUME NEW n \in Nat, NEW trades \in Seq(Trade), NEW next, Printing(n, trades, next),
         NEW t, t.id = next
  PROVE Printing(n, Append(trades, t), next + 1)
<1>1. Len(trades) \in Nat
  BY LenProperties
<1>2. Len(Append(trades, t)) = Len(trades) + 1 /\ Serial(n, Append(trades, t))
  BY SerialAppends DEF Printing
<1>3. QED BY <1>1, <1>2 DEF Printing

LEMMA MatchStepSerial ==
  ASSUME NEW n \in Nat, NEW m \in MatchStates, Printing(n, m.trades, m.next),
         NEW stp, NEW ts
  PROVE LET r == MatchStep(stp, ts, m) IN Printing(n, r.trades, r.next)
<1> DEFINE r == MatchStep(stp, ts, m)
           side == Opposite(m.taker.side)
           px == Best(m.book, side)
           front == m.book.levels[side][px].q
           levels == DropLevel(m.book, side, px)
           book == Cancel(m.book, Head(front).id).book
           maker == Head(front)
           q == Smaller(m.taker.qty, maker.qty)
           t == [id |-> m.next, ts |-> ts, price |-> px, qty |-> q,
                 maker |-> maker.id, taker |-> m.taker.id]
<1>1. m.trades \in Seq(Trade)
  BY DEF MatchStates
<1>2. \/ r = m
      \/ r = [m EXCEPT !.book = [levels |-> levels, loc |-> m.book.loc]]
      \/ r = [m EXCEPT !.taker = [m.taker EXCEPT !.qty = 0]]
      \/ r = [m EXCEPT !.book = book]
      \/ r = Fill(m, ts)
  BY DEF MatchStep
<1>3. Fill(m, ts).trades = Append(m.trades, t) /\ Fill(m, ts).next = m.next + 1
  BY DEF Fill
<1>4. t.id = m.next
  OBVIOUS
<1> HIDE DEF r, t, levels, book
<1>5. CASE r = Fill(m, ts)
  <2>1. Printing(n, Append(m.trades, t), m.next + 1) BY <1>1, <1>4, PrintsNext
  <2>2. QED BY <1>3, <1>5, <2>1 DEF r
<1>6. CASE r # Fill(m, ts)
  <2>1. r.trades = m.trades /\ r.next = m.next BY <1>2, <1>6 DEF MatchStates
  <2>2. QED BY <2>1 DEF r
<1>7. QED BY <1>5, <1>6

LEMMA MatchSerial ==
  ASSUME NEW eng, GoodBook(eng.book), eng.next_trade_id \in Nat,
         NEW o \in Order, NEW ts \in Int
  PROVE LET m == Match(eng, o, ts) IN Printing(eng.next_trade_id, m.trades, m.next)
<1> DEFINE n == eng.next_trade_id
           s == [book |-> eng.book, taker |-> o, trades |-> <<>>, next |-> n]
           X == {m \in MatchStates : Printing(n, m.trades, m.next)}
<1>1. s \in MatchStates
  BY GoodBookSet DEF MatchStates
<1>2. s \in X
  BY <1>1, NoneSerial DEF Printing
<1>3. \A m \in X : MatchStep(eng.cfg.stp, ts, m) \in X
  BY MatchStepType, MatchStepSerial
<1> HIDE DEF X
<1>4. Match(eng, o, ts) \in X
  BY <1>2, <1>3, MatchStays
<1>5. QED BY <1>4 DEF X

LEMMA PairStepSerial ==
  ASSUME NEW n, NEW u, u.trades \in Seq(Trade), NEW n0 \in Nat, Printing(n0, u.trades, u.next),
         NEW px, NEW ts
  PROVE LET r == PairStep(px, ts, u) IN Printing(n0, r.trades, r.next)
<1> DEFINE r == PairStep(px, ts, u)
           open(side) == {i \in DOMAIN u.queue : /\ u.queue[i].side = side
                                                 /\ Eligible(u.queue[i], px)
                                                 /\ u.queue[i].qty > 0}
           b == First(u.queue, open("Buy"))
           s == First(u.queue, open("Sell"))
           q == Smaller(u.queue[b].qty, u.queue[s].qty)
           t == [id |-> u.next, ts |-> ts, price |-> px, qty |-> q,
                 maker |-> u.queue[s].id, taker |-> u.queue[b].id]
<1>1. r = u \/ (r.trades = Append(u.trades, t) /\ r.next = u.next + 1)
  BY DEF PairStep
<1>2. t.id = u.next
  OBVIOUS
<1> HIDE DEF r, t
<1>3. Printing(n0, Append(u.trades, t), u.next + 1)
  BY <1>2, PrintsNext
<1>4. QED BY <1>1, <1>3 DEF r

LEMMA PairedSerial ==
  ASSUME NEW eng, eng.queue \in Seq(Order), eng.next_trade_id \in Nat,
         NEW px \in Prices, NEW ts \in Int
  PROVE LET u == Paired(eng, px, ts) IN Printing(eng.next_trade_id, u.trades, u.next)
<1> DEFINE n == eng.next_trade_id
           len == Len(eng.queue)
           s == [queue |-> eng.queue, trades |-> <<>>, next |-> n]
           X == {u \in PairStates(len) : Printing(n, u.trades, u.next)}
<1>1. s \in PairStates(len)
  BY DEF PairStates
<1>2. s \in X
  BY <1>1, NoneSerial DEF Printing
<1>3. ASSUME NEW u \in X PROVE PairStep(px, ts, u) \in X
  <2>1. u \in PairStates(len) /\ u.trades \in Seq(Trade) BY DEF PairStates
  <2>2. PairStep(px, ts, u) \in PairStates(len) BY <2>1, PairStepType
  <2>3. QED BY <2>1, <2>2, PairStepSerial
<1> HIDE DEF X
<1>4. Paired(eng, px, ts) \in X
  BY <1>2, <1>3, PairedStays
<1>5. QED BY <1>4 DEF X

(* What a loop that prints hands to the end of a call: the last price is still
   the one it began with. *)
Prints(e, r) ==
  /\ Printing(e.next_trade_id, r.trades, r.eng.next_trade_id)
  /\ r.eng.last = e.last

(* What an uncrossing assigns. *)
LEMMA UncrossFields ==
  ASSUME NEW e, GoodEngine(e), NEW b, NEW q, NEW n
  PROVE LET f == [e EXCEPT !.book = b, !.queue = q, !.next_trade_id = n]
            g == [e EXCEPT !.book = b, !.queue = q]
        IN  f.next_trade_id = n /\ f.last = e.last /\ g.next_trade_id = e.next_trade_id /\ g.last = e.last
BY DEF GoodEngine, IsEngine

(* The numbers an uncrossing gives. *)
LEMMA UncrossAtPrints ==
  ASSUME NEW e, GoodEngine(e), NEW px \in Prices, NEW ts \in Int
  PROVE Prints(e, UncrossAt(e, px, ts))
<1> DEFINE u == Paired(e, px, ts)
           left(side) == {i \in LimitsLeft(u.queue) : /\ u.queue[i].side = side
                                                      /\ Eligible(u.queue[i], px)}
           others == LimitsLeft(u.queue) \ (left("Buy") \cup left("Sell"))
           book1 == Restock(e.book, u.queue, left("Buy"), TRUE)
           book2 == Restock(book1, u.queue, left("Sell"), TRUE)
           book3 == Restock(book2, u.queue, others, FALSE)
<1>1. e.queue \in Seq(Order) /\ e.next_trade_id \in Nat
  BY EngineFields
<1>2. Printing(e.next_trade_id, u.trades, u.next)
  BY <1>1, PairedSerial
<1> HIDE DEF u
<1>3. UncrossAt(e, px, ts) =
        [eng |-> [e EXCEPT !.book = book3, !.queue = <<>>, !.next_trade_id = u.next],
         trades |-> u.trades]
  BY DEF UncrossAt, Leftovers, u
<1> HIDE DEF book3
<1> DEFINE f == [e EXCEPT !.book = book3, !.queue = <<>>, !.next_trade_id = u.next]
<1>4. f.next_trade_id = u.next /\ f.last = e.last
  BY UncrossFields
<1>5. UncrossAt(e, px, ts) = [eng |-> f, trades |-> u.trades]
  BY <1>3
<1> HIDE DEF f
<1>6. QED BY <1>2, <1>4, <1>5 DEF Prints

LEMMA UncrossPrints ==
  ASSUME NEW e, GoodEngine(e), NEW ts \in Int
  PROVE Prints(e, UncrossAuction(e, ts))
<1> DEFINE px == ComputeClearingPrice(e)
           book == Restock(e.book, e.queue, LimitsLeft(e.queue), FALSE)
<1>1. px \in Prices \cup {None} /\ e.next_trade_id \in Nat
  BY ClearingPriceType, EngineFields
<1>2. UncrossAuction(e, ts) = IF px # None THEN UncrossAt(e, px, ts)
                              ELSE [eng |-> [e EXCEPT !.book = book, !.queue = <<>>], trades |-> <<>>]
  BY DEF UncrossAuction
<1> HIDE DEF px, book
<1>3. CASE px # None
  BY <1>1, <1>2, <1>3, UncrossAtPrints
<1>4. CASE px = None
  <2> DEFINE none == <<>>
             f == [e EXCEPT !.book = book, !.queue = none]
  <2>1. f.next_trade_id = e.next_trade_id /\ f.last = e.last
    BY UncrossFields
  <2>2. UncrossAuction(e, ts) = [eng |-> f, trades |-> none]
    BY <1>2, <1>4
  <2>3. Printing(e.next_trade_id, none, e.next_trade_id)
    BY <1>1, NoneSerial DEF Printing
  <2> HIDE DEF f, none
  <2>4. QED BY <2>1, <2>2, <2>3 DEF Prints
<1>5. QED BY <1>3, <1>4

(* The trades of a call set the last price; the circuit breaker touches neither
   it nor the ids. *)
LEMMA EndTape ==
  ASSUME NEW e, GoodEngine(e), NEW trades \in Seq(Trade)
  PROVE LET a == OnTrades(e, trades)
            b == MaybeTriggerCircuitBreaker(a, trades)
        IN  /\ b.next_trade_id = e.next_trade_id
            /\ b.last = IF trades = <<>> THEN e.last ELSE Last(trades).price
<1> DEFINE a == OnTrades(e, trades)
           p == Last(trades).price
           c == [a EXCEPT !.cb_ref = IF a.cb_ref = None THEN Head(trades).price ELSE a.cb_ref]
           b == MaybeTriggerCircuitBreaker(a, trades)
<1>1. GoodEngine(a)
  BY OnTradesGood
<1>2. /\ a.next_trade_id = e.next_trade_id
      /\ a.last = IF trades = <<>> THEN e.last ELSE p
  <2> HIDE DEF p
  <2>1. a = IF trades = <<>> THEN e ELSE [e EXCEPT !.last = p] BY DEF OnTrades, p
  <2> HIDE DEF a
  <2>2. QED BY <2>1 DEF GoodEngine, IsEngine
<1>3. b \in {a, c, Halt(c, Last(trades).ts)}
  <2> HIDE DEF a
  <2>1. QED BY DEF MaybeTriggerCircuitBreaker
<1> HIDE DEF a, b
<1>4. c.next_trade_id = a.next_trade_id /\ c.last = a.last
  BY <1>1 DEF GoodEngine, IsEngine
<1>5. \A t : Halt(c, t).next_trade_id = c.next_trade_id /\ Halt(c, t).last = c.last
  BY <1>1 DEF Halt, GoodEngine, IsEngine
<1>6. b.next_trade_id = a.next_trade_id /\ b.last = a.last
  <2> HIDE DEF c
  <2>1. QED BY <1>3, <1>4, <1>5
<1>7. QED BY <1>2, <1>6 DEF a, b

(* The expiries that print nothing. *)
LEMMA ExpireTape ==
  ASSUME NEW e, GoodEngine(e), NEW ts \in Int
  PROVE LET h == ExpireHalt(ExpireTradingAtLast(e, ts), ts)
        IN  h.next_trade_id = e.next_trade_id /\ h.last = e.last
<1> DEFINE a == ExpireTradingAtLast(e, ts)
<1>1. a \in {e, [e EXCEPT !.phase = "Continuous"]}
  BY DEF ExpireTradingAtLast
<1>2. GoodEngine(a)
  BY ExpireGood
<1> HIDE DEF a
<1>3. a.next_trade_id = e.next_trade_id /\ a.last = e.last
  BY <1>1 DEF GoodEngine, IsEngine
<1>4. ExpireHalt(a, ts) \in {a, [a EXCEPT !.phase = "Auction"]}
  BY DEF ExpireHalt
<1>5. ExpireHalt(a, ts).next_trade_id = a.next_trade_id /\ ExpireHalt(a, ts).last = a.last
  BY <1>2, <1>4 DEF GoodEngine, IsEngine
<1>6. QED BY <1>3, <1>5 DEF a

(* The prints of a flush. *)
LEMMA ExpireAuctionTape ==
  ASSUME NEW e, GoodEngine(e), NEW ts \in Int
  PROVE OnTape(e, ExpireAuction(e, ts).eng, ExpireAuction(e, ts).trades)
<1> DEFINE u == UncrossAuction(e, e.auction_end)
           p == IF e.phase = "ClosingAuction" THEN "Closed" ELSE "Continuous"
           next == [u.eng EXCEPT !.phase = p]
           r == ExpireAuction(e, ts)
<1>1. e.next_trade_id \in Nat /\ e.auction_end \in Int
  BY EngineFields
<1>2. CASE ~AuctionDue(e, ts)
  <2>1. r.eng = e /\ r.trades = <<>> BY <1>2 DEF ExpireAuction
  <2> HIDE DEF r
  <2>2. OnTape(e, r.eng, r.trades) BY <1>1, <2>1, NoneSerial DEF OnTape
  <2>3. QED BY <2>2 DEF r
<1>3. CASE AuctionDue(e, ts)
  <2>1. GoodEngine(u.eng) /\ u.trades \in Seq(Trade) /\ Prints(e, u)
    BY <1>1, UncrossGood, UncrossPrints DEF GoodOutcome
  <2>2. p \in Phases /\ 0 \in Int BY DEF Phases
  <2>3. /\ r.eng = MaybeTriggerCircuitBreaker(OnTrades(next, u.trades), u.trades)
        /\ r.trades = u.trades
    BY <1>3 DEF ExpireAuction, EndAuction
  <2> HIDE DEF p, u, r
  <2>4. GoodEngine(next) BY <2>1, <2>2, SetPhase
  <2>5. next.next_trade_id = u.eng.next_trade_id /\ next.last = u.eng.last
    BY <2>1 DEF GoodEngine, IsEngine
  <2> HIDE DEF next
  <2>6. /\ r.eng.next_trade_id = next.next_trade_id
        /\ r.eng.last = IF u.trades = <<>> THEN next.last ELSE Last(u.trades).price
    BY <2>1, <2>3, <2>4, EndTape
  <2>7. OnTape(e, r.eng, r.trades)
    BY <2>1, <2>3, <2>5, <2>6 DEF OnTape, Prints, Printing
  <2>8. QED BY <2>7 DEF r
<1>4. QED BY <1>2, <1>3

LEMMA FlushTape ==
  ASSUME NEW e, GoodEngine(e), NEW ts \in Int
  PROVE OnTape(e, Flush(e, ts).eng, Flush(e, ts).trades)
<1> DEFINE h == ExpireHalt(ExpireTradingAtLast(e, ts), ts)
           r == ExpireAuction(h, ts)
<1>1. GoodEngine(h)
  BY ExpireGood
<1>2. h.next_trade_id = e.next_trade_id /\ h.last = e.last
  BY ExpireTape
<1> HIDE DEF h
<1>3. OnTape(h, r.eng, r.trades)
  BY <1>1, ExpireAuctionTape
<1>4. Flush(e, ts) = r
  BY DEF Flush, h
<1> HIDE DEF r
<1>5. QED BY <1>2, <1>3, <1>4 DEF OnTape

(* The prints of the matching, after process() has put away what is left. *)
LEMMA MatchedPrints ==
  ASSUME NEW e, GoodEngine(e), NEW m, Printing(e.next_trade_id, m.trades, m.next),
         m \in MatchStates, NEW left
  PROVE Prints(e, RestLeft(e, m, left)) /\ Prints(e, Unrested(e, m))
<1> DEFINE book == AddRestingLimit(m.book, left).book
           n == [m EXCEPT !.book = book]
<1>1. n.next = m.next /\ n.trades = m.trades
  BY DEF MatchStates
<1>2. ASSUME NEW x
      PROVE AfterMatch(e, x).next_trade_id = x.next /\ AfterMatch(e, x).last = e.last
  <2> DEFINE s == e.spinning \/ CanMatch(x)
  <2>1. AfterMatch(e, x) = [e EXCEPT !.book = x.book, !.next_trade_id = x.next, !.spinning = s]
    BY DEF AfterMatch
  <2> HIDE DEF s
  <2>2. QED BY <2>1 DEF GoodEngine, IsEngine
<1>3. /\ RestLeft(e, m, left).eng = AfterMatch(e, n) /\ RestLeft(e, m, left).trades = m.trades
      /\ Unrested(e, m).eng = AfterMatch(e, m) /\ Unrested(e, m).trades = m.trades
  BY DEF RestLeft, Unrested
<1> HIDE DEF n
<1>4. QED BY <1>1, <1>2, <1>3 DEF Prints

LEMMA ProcessLimitPrints ==
  ASSUME NEW e, GoodEngine(e), NEW o \in Order, NEW ts \in Int
  PROVE Prints(e, ProcessLimit(e, o, ts))
<1> DEFINE m == Match(e, o, ts)
<1>1. m \in MatchStates /\ Printing(e.next_trade_id, m.trades, m.next)
  BY EngineFields, MatchType, MatchSerial
<1>2. ProcessLimit(e, o, ts) \in {RestLeft(e, m, m.taker), Unrested(e, m)}
  BY DEF ProcessLimit
<1> HIDE DEF m
<1>3. QED BY <1>1, <1>2, MatchedPrints

LEMMA ProcessMarketPrints ==
  ASSUME NEW e, GoodEngine(e), NEW o \in Order, NEW ts \in Int
  PROVE Prints(e, ProcessMarket(e, o, ts))
<1> DEFINE m == Match(e, o, ts)
           left == [m.taker EXCEPT !.type = "Limit", !.tif = "GTC",
                                   !.price = Last(m.trades).price, !.style = "PureMarket"]
<1>1. m \in MatchStates /\ Printing(e.next_trade_id, m.trades, m.next)
  BY EngineFields, MatchType, MatchSerial
<1>2. ProcessMarket(e, o, ts) \in {RestLeft(e, m, left), Unrested(e, m)}
  BY DEF ProcessMarket
<1> HIDE DEF m, left
<1>3. QED BY <1>1, <1>2, MatchedPrints

(* The end of process(): the prints of its flush come first. *)
LEMMA SettledTape ==
  ASSUME NEW e0, GoodEngine(e0), NEW e, GoodEngine(e), NEW flushed \in Seq(Trade),
         OnTape(e0, e, flushed), NEW r, GoodOutcome(r), Prints(e, r)
  PROVE LET s == Settled(flushed, r) IN OnTape(e0, s.eng, s.trades)
<1> DEFINE n == e0.next_trade_id
           new == r.trades
           trades == flushed \o new
           s == Settled(flushed, r)
<1>1. new \in Seq(Trade) /\ GoodEngine(r.eng) /\ n \in Nat
  BY EngineFields DEF GoodOutcome
<1>2. /\ s.eng = MaybeTriggerCircuitBreaker(OnTrades(r.eng, trades), trades)
      /\ s.trades = trades
  BY DEF Settled, Result
<1>3. Serial(n, flushed) /\ Serial(n + Len(flushed), new)
  BY DEF OnTape, Prints, Printing
<1>4. r.eng.next_trade_id = n + Len(flushed) + Len(new) /\ r.eng.last = e.last
  BY DEF OnTape, Prints, Printing
<1>5. e.last = IF flushed = <<>> THEN e0.last ELSE Last(flushed).price
  BY DEF OnTape
<1> HIDE DEF n, new, s
<1>6. Len(trades) = Len(flushed) + Len(new) /\ Serial(n, trades)
  BY <1>1, <1>3, SerialJoins
<1>7. trades \in Seq(Trade)
  BY <1>1, ConcatProperties
<1>8. trades = <<>> => flushed = <<>>
  BY <1>1, <1>6, LenProperties, EmptySeq
<1> HIDE DEF trades
<1>9. /\ s.eng.next_trade_id = r.eng.next_trade_id
      /\ s.eng.last = IF trades = <<>> THEN r.eng.last ELSE Last(trades).price
  BY <1>1, <1>2, <1>7, EndTape
<1>10. r.eng.next_trade_id = n + Len(trades)
  BY <1>1, <1>4, <1>6, LenProperties
<1>11. s.eng.last = IF trades = <<>> THEN e0.last ELSE Last(trades).price
  BY <1>4, <1>5, <1>8, <1>9
<1>12. OnTape(e0, s.eng, s.trades)
  BY <1>2, <1>6, <1>9, <1>10, <1>11 DEF OnTape, n
<1>13. QED BY <1>12 DEF s

(* An order that is queued prints nothing. *)
LEMMA QueuedTape ==
  ASSUME NEW e0, NEW e, GoodEngine(e), NEW flushed, OnTape(e0, e, flushed), NEW p, NEW end, NEW o,
         NEW status
  PROVE LET a == Result(QueueInAuction(e, o), flushed, None, status)
            b == Result(QueueInAuction([e EXCEPT !.phase = p, !.auction_end = end], o),
                        flushed, None, status)
        IN  OnTape(e0, a.eng, a.trades) /\ OnTape(e0, b.eng, b.trades)
<1> DEFINE x == QueueInAuction(e, o)
           y == QueueInAuction([e EXCEPT !.phase = p, !.auction_end = end], o)
<1>1. /\ x.next_trade_id = e.next_trade_id /\ x.last = e.last
      /\ y.next_trade_id = e.next_trade_id /\ y.last = e.last
  BY DEF QueueInAuction, GoodEngine, IsEngine
<1> HIDE DEF x, y
<1>2. OnTape(e0, x, flushed) /\ OnTape(e0, y, flushed)
  BY <1>1 DEF OnTape
<1>3. QED BY <1>2 DEF Result, x, y

LEMMA TradingAtLastTape ==
  ASSUME NEW e0, GoodEngine(e0), NEW e, GoodEngine(e), NEW flushed \in Seq(Trade),
         OnTape(e0, e, flushed), NEW o \in Order, NEW ts \in Int
  PROVE LET r == ProcessTradingAtLast(e, flushed, o, ts) IN OnTape(e0, r.eng, r.trades)
<1> DEFINE at_last == [o EXCEPT !.type = "Limit", !.price = e.last]
           s == Settled(flushed, ProcessLimit(e, at_last, ts))
           r == ProcessTradingAtLast(e, flushed, o, ts)
<1>1. ASSUME e.last # None PROVE OnTape(e0, s.eng, s.trades)
  <2>1. e.last \in Prices BY <1>1, EngineFields
  <2>2. at_last \in Order BY <2>1 DEF Order
  <2> HIDE DEF at_last
  <2>3. GoodOutcome(ProcessLimit(e, at_last, ts)) /\ Prints(e, ProcessLimit(e, at_last, ts))
    BY <2>2, ProcessLimitGood, ProcessLimitPrints
  <2>4. QED BY <2>3, SettledTape
<1>2. \/ r.eng = e /\ r.trades = flushed
      \/ e.last # None /\ r = s
  <2> HIDE DEF s
  <2>1. r = IF e.last = None THEN Result(e, flushed, None, "NoReferencePrice")
            ELSE IF o.type = "Limit" /\ o.price # e.last
            THEN Result(e, flushed, None, "PriceNotAtLast") ELSE s
    BY DEF ProcessTradingAtLast, s
  <2>2. QED BY <2>1 DEF Result
<1> HIDE DEF s, r
<1>3. OnTape(e0, r.eng, r.trades)
  BY <1>1, <1>2
<1>4. QED BY <1>3 DEF r

LEMMA ContinuousTape ==
  ASSUME NEW e0, GoodEngine(e0), NEW e, GoodEngine(e), NEW flushed \in Seq(Trade),
         OnTape(e0, e, flushed), NEW o \in Order, NEW ts \in Int
  PROVE LET r == ProcessContinuous(e, flushed, o, ts) IN OnTape(e0, r.eng, r.trades)
<1> DEFINE end == ts + e.cfg.vol_auction
           queued == Result(QueueInAuction([e EXCEPT !.phase = "Auction", !.auction_end = end], o),
                            flushed, None, "Accepted")
           nothing == [eng |-> e, trades |-> <<>>, resting |-> None]
           killed == Settled(flushed, nothing)
           market == Settled(flushed, ProcessMarket(e, o, ts))
           limit == Settled(flushed, ProcessLimit(e, o, ts))
           r == ProcessContinuous(e, flushed, o, ts)
<1>1. OnTape(e0, queued.eng, queued.trades)
  <2> HIDE DEF end
  <2>1. QED BY QueuedTape
<1>2. OnTape(e0, killed.eng, killed.trades)
  <2>1. e.next_trade_id \in Nat BY EngineFields
  <2>2. GoodOutcome(nothing) /\ Prints(e, nothing)
    BY <2>1, NoneSerial DEF GoodOutcome, Prints, Printing
  <2> HIDE DEF nothing
  <2>3. QED BY <2>2, SettledTape
<1>3. OnTape(e0, market.eng, market.trades)
  BY ProcessMarketGood, ProcessMarketPrints, SettledTape
<1>4. OnTape(e0, limit.eng, limit.trades)
  BY ProcessLimitGood, ProcessLimitPrints, SettledTape
<1>5. r \in {queued, killed, market, limit}
  BY DEF ProcessContinuous
<1> HIDE DEF queued, killed, market, limit, r
<1>6. OnTape(e0, r.eng, r.trades)
  BY <1>1, <1>2, <1>3, <1>4, <1>5
<1>7. QED BY <1>6 DEF r

(* Every call prints with the next ids, the flush it begins with included, and
   leaves the price of its last print, whatever it printed, as the last price. *)
THEOREM ProcessTape ==
  ASSUME NEW e0, GoodEngine(e0), NEW o \in Order, NEW ts \in Int
  PROVE OnTape(e0, Process(e0, o, ts).eng, Process(e0, o, ts).trades)
<1> DEFINE f == Flush(e0, ts)
           e == f.eng
           flushed == f.trades
           r == Process(e0, o, ts)
           queued == Result(QueueInAuction(e, o), flushed, None, "Accepted")
           last == ProcessTradingAtLast(e, flushed, o, ts)
           cont == ProcessContinuous(e, flushed, o, ts)
<1>1. GoodEngine(e) /\ flushed \in Seq(Trade) /\ OnTape(e0, e, flushed)
  BY FlushGood, FlushTape DEF GoodOutcome
<1> HIDE DEF f
<1>2. r = IF PreAccept(e.cfg, e.phase, o) # "Accepted"
          THEN Result(e, flushed, None, PreAccept(e.cfg, e.phase, o))
          ELSE CASE e.phase = "Closed" -> Result(e, flushed, None, "Accepted")
                 [] e.phase = "Halted" ->
                      IF e.cfg.queue_halt THEN queued
                      ELSE Result(e, flushed, None, "MarketHalted")
                 [] e.phase = "TradingAtLast" -> last
                 [] e.phase \in {"Auction", "ClosingAuction"} -> queued
                 [] e.phase = "Continuous" -> cont
  BY DEF Process, ProcessFlushed, f
<1> HIDE DEF e, flushed, r
<1>3. OnTape(e0, queued.eng, queued.trades)
  BY <1>1, QueuedTape
<1>4. OnTape(e0, last.eng, last.trades) /\ OnTape(e0, cont.eng, cont.trades)
  BY <1>1, TradingAtLastTape, ContinuousTape
<1>5. ASSUME NEW status, r = Result(e, flushed, None, status)
      PROVE OnTape(e0, r.eng, r.trades)
  BY <1>1, <1>5 DEF Result
<1>6. e.phase \in Phases
  BY <1>1, EngineFields
<1> HIDE DEF queued, last, cont
<1>7. OnTape(e0, r.eng, r.trades)
  BY <1>2, <1>3, <1>4, <1>5, <1>6 DEF Phases
<1>8. QED BY <1>7 DEF r

----------------------------------------------------------------------------
(* The times of the prints.  A print carries the time of the call that printed it,
   or the end of the auction it comes from. *)

Clocked(t, trades) == \A k \in 1 .. Len(trades) : trades[k].ts = t

LEMMA ClockAppends ==
  ASSUME NEW t, NEW trades \in Seq(Trade), Clocked(t, trades), NEW x, x.ts = t
  PROVE Clocked(t, Append(trades, x))
<1> DEFINE r == Append(trades, x)
           S == Trade \cup {x}
<1>1. Len(trades) \in Nat /\ \A k \in 1 .. Len(trades) : trades[k] \in Trade
  BY LenProperties, ElementOfSeq
<1>2. trades \in Seq(S) /\ x \in S
  BY <1>1
<1> HIDE DEF S
<1>3. /\ Len(r) = Len(trades) + 1
      /\ \A k \in 1 .. Len(trades) : r[k] = trades[k]
      /\ r[Len(trades) + 1] = x
  BY <1>2, AppendProperties
<1> HIDE DEF r
<1>4. ASSUME NEW k \in 1 .. Len(r) PROVE r[k].ts = t
  <2>1. k \in 1 .. Len(trades) \/ k = Len(trades) + 1 BY <1>1, <1>3
  <2>2. QED BY <1>3, <2>1 DEF Clocked
<1>5. QED BY <1>4 DEF Clocked, r

LEMMA NoneClocked == ASSUME NEW t PROVE Clocked(t, <<>>)
BY DEF Clocked

LEMMA MatchClock ==
  ASSUME NEW e, GoodEngine(e), NEW o \in Order, NEW t \in Int
  PROVE Clocked(t, Match(e, o, t).trades)
<1> DEFINE s == [book |-> e.book, taker |-> o, trades |-> <<>>, next |-> e.next_trade_id]
           X == {m \in MatchStates : Clocked(t, m.trades)}
<1>1. s \in X
  <2>1. s \in MatchStates BY EngineFields, GoodBookSet DEF MatchStates
  <2>2. QED BY <2>1, NoneClocked
<1>2. ASSUME NEW m \in X PROVE MatchStep(e.cfg.stp, t, m) \in X
  <2> DEFINE stp == e.cfg.stp
             r == MatchStep(stp, t, m)
             side == Opposite(m.taker.side)
             px == Best(m.book, side)
             front == m.book.levels[side][px].q
             levels == DropLevel(m.book, side, px)
             book == Cancel(m.book, Head(front).id).book
             maker == Head(front)
             q == Smaller(m.taker.qty, maker.qty)
             x == [id |-> m.next, ts |-> t, price |-> px, qty |-> q,
                   maker |-> maker.id, taker |-> m.taker.id]
  <2>1. m \in MatchStates /\ m.trades \in Seq(Trade) /\ Clocked(t, m.trades)
    BY DEF MatchStates
  <2>2. r \in MatchStates
    BY <2>1, MatchStepType
  <2>3. \/ r = m
        \/ r = [m EXCEPT !.book = [levels |-> levels, loc |-> m.book.loc]]
        \/ r = [m EXCEPT !.taker = [m.taker EXCEPT !.qty = 0]]
        \/ r = [m EXCEPT !.book = book]
        \/ r = Fill(m, t)
    BY DEF MatchStep
  <2>4. Fill(m, t).trades = Append(m.trades, x)
    BY DEF Fill
  <2>5. x.ts = t
    OBVIOUS
  <2> HIDE DEF r, x, levels, book, stp
  <2>6. Clocked(t, Append(m.trades, x))
    BY <2>1, <2>5, ClockAppends
  <2>7. r.trades = m.trades \/ r.trades = Append(m.trades, x)
    BY <2>1, <2>3, <2>4 DEF MatchStates
  <2>8. Clocked(t, r.trades)
    BY <2>1, <2>6, <2>7
  <2>9. QED BY <2>2, <2>8 DEF r, stp
<1> HIDE DEF X
<1>3. Match(e, o, t) \in X
  BY <1>1, <1>2, MatchStays
<1>4. QED BY <1>3 DEF X

LEMMA UncrossClock ==
  ASSUME NEW e, GoodEngine(e), NEW t \in Int
  PROVE Clocked(t, UncrossAuction(e, t).trades)
<1> DEFINE px == ComputeClearingPrice(e)
           s == [queue |-> e.queue, trades |-> <<>>, next |-> e.next_trade_id]
           len == Len(e.queue)
           X == {u \in PairStates(len) : Clocked(t, u.trades)}
<1>1. px \in Prices \cup {None} /\ e.queue \in Seq(Order) /\ e.next_trade_id \in Nat
  BY ClearingPriceType, EngineFields
<1>2. UncrossAuction(e, t).trades = IF px # None THEN Paired(e, px, t).trades ELSE <<>>
  BY DEF UncrossAuction, UncrossAt, Leftovers
<1> HIDE DEF px
<1>3. CASE px # None
  <2>1. s \in PairStates(len) BY <1>1 DEF PairStates
  <2>2. s \in X BY <2>1, NoneClocked
  <2>3. ASSUME NEW u \in X PROVE PairStep(px, t, u) \in X
    <3> DEFINE r == PairStep(px, t, u)
               open(side) == {i \in DOMAIN u.queue : /\ u.queue[i].side = side
                                                     /\ Eligible(u.queue[i], px)
                                                     /\ u.queue[i].qty > 0}
               b == First(u.queue, open("Buy"))
               z == First(u.queue, open("Sell"))
               q == Smaller(u.queue[b].qty, u.queue[z].qty)
               x == [id |-> u.next, ts |-> t, price |-> px, qty |-> q,
                     maker |-> u.queue[z].id, taker |-> u.queue[b].id]
    <3>1. u \in PairStates(len) /\ u.trades \in Seq(Trade) /\ Clocked(t, u.trades)
      BY DEF PairStates
    <3>2. r \in PairStates(len) BY <1>1, <1>3, <3>1, PairStepType
    <3>3. r = u \/ r.trades = Append(u.trades, x) BY DEF PairStep
    <3>4. x.ts = t OBVIOUS
    <3> HIDE DEF r, x
    <3>5. Clocked(t, Append(u.trades, x)) BY <3>1, <3>4, ClockAppends
    <3>6. Clocked(t, r.trades) BY <3>1, <3>3, <3>5
    <3>7. QED BY <3>2, <3>6 DEF r
  <2> HIDE DEF X
  <2>4. Paired(e, px, t) \in X BY <1>1, <2>2, <2>3, PairedStays
  <2>5. QED BY <1>2, <1>3, <2>4 DEF X
<1>4. CASE px = None
  BY <1>2, <1>4, NoneClocked
<1>5. QED BY <1>3, <1>4

(* What an order prints is printed at its time, in the phase it is matched in. *)
LEMMA ProcessClock ==
  ASSUME NEW e, GoodEngine(e), NEW o \in Order, NEW t \in Int
  PROVE \A r \in {ProcessMarket(e, o, t), ProcessLimit(e, o, t)} :
          Clocked(t, r.trades) /\ r.eng.phase = e.phase /\ r.eng.cfg = e.cfg
<1>1. \A m, left : /\ RestLeft(e, m, left).trades = m.trades
                   /\ RestLeft(e, m, left).eng.phase = e.phase
                   /\ RestLeft(e, m, left).eng.cfg = e.cfg
                   /\ Unrested(e, m).trades = m.trades
                   /\ Unrested(e, m).eng.phase = e.phase
                   /\ Unrested(e, m).eng.cfg = e.cfg
  BY DEF RestLeft, Unrested, AfterMatch, GoodEngine, IsEngine
<1>2. ASSUME NEW r \in {ProcessMarket(e, o, t), ProcessLimit(e, o, t)}
      PROVE r.trades = Match(e, o, t).trades /\ r.eng.phase = e.phase /\ r.eng.cfg = e.cfg
  BY <1>1 DEF ProcessMarket, ProcessLimit
<1>3. QED BY <1>2, MatchClock

----------------------------------------------------------------------------
(* The configuration of an engine never changes, and only a matching loop that
   does not end leaves it spinning. *)

LEMMA ToldConfig ==
  ASSUME NEW e, GoodEngine(e), NEW trades \in Seq(Trade)
  PROVE LET new == MaybeTriggerCircuitBreaker(OnTrades(e, trades), trades)
        IN  new.cfg = e.cfg /\ new.spinning = e.spinning
<1> DEFINE told == OnTrades(e, trades)
           ref == IF told.cb_ref = None THEN Head(trades).price ELSE told.cb_ref
           armed == [told EXCEPT !.cb_ref = ref]
           new == MaybeTriggerCircuitBreaker(told, trades)
<1>1. GoodEngine(told) /\ told.cfg = e.cfg /\ told.spinning = e.spinning
  <2>1. GoodEngine(told) BY OnTradesGood
  <2>2. QED BY <2>1 DEF OnTrades, GoodEngine, IsEngine
<1> HIDE DEF told
<1>2. \A p : /\ armed.cfg = e.cfg /\ armed.spinning = e.spinning
             /\ Halt(armed, p).cfg = e.cfg /\ Halt(armed, p).spinning = e.spinning
  BY <1>1 DEF GoodEngine, IsEngine, Halt
<1>3. new = IF ~told.cfg.breaker \/ trades = <<>> \/ told.phase # "Continuous" THEN told
            ELSE IF Last(trades).price > MulDivBps(ref, 10000 - armed.cfg.drop_bps)
                 THEN armed ELSE Halt(armed, Last(trades).ts)
  <2>1. told.cfg = armed.cfg BY <1>1, <1>2
  <2>2. QED BY <2>1 DEF MaybeTriggerCircuitBreaker
<1> HIDE DEF armed, ref, new
<1>4. new.cfg = e.cfg /\ new.spinning = e.spinning
  BY <1>1, <1>2, <1>3
<1>5. QED BY <1>4 DEF new, told

LEMMA FlushConfig ==
  ASSUME NEW e0, GoodEngine(e0), NEW t \in Int
  PROVE Flush(e0, t).eng.cfg = e0.cfg /\ Flush(e0, t).eng.spinning = e0.spinning
<1> DEFINE e1 == ExpireTradingAtLast(e0, t)
           e == ExpireHalt(e1, t)
           u == UncrossAuction(e, e.auction_end)
           next == [u.eng EXCEPT !.phase = IF e.phase = "ClosingAuction" THEN "Closed"
                                           ELSE "Continuous"]
           new == MaybeTriggerCircuitBreaker(OnTrades(next, u.trades), u.trades)
<1>1. GoodEngine(e1) /\ e1.cfg = e0.cfg /\ e1.spinning = e0.spinning
  <2>1. GoodEngine(e1) BY ExpireGood
  <2>2. e1.cfg = e0.cfg /\ e1.spinning = e0.spinning
    BY DEF ExpireTradingAtLast, GoodEngine, IsEngine
  <2>3. QED BY <2>1, <2>2
<1> HIDE DEF e1
<1>2. GoodEngine(e) /\ e.cfg = e0.cfg /\ e.spinning = e0.spinning
  <2>1. GoodEngine(e) BY <1>1, ExpireGood
  <2>2. e.cfg = e1.cfg /\ e.spinning = e1.spinning
    BY <1>1 DEF ExpireHalt, GoodEngine, IsEngine
  <2>3. QED BY <1>1, <2>1, <2>2
<1>3. Flush(e0, t).eng = e \/ Flush(e0, t).eng = new
  <2>1. Flush(e0, t) = ExpireAuction(e, t) BY DEF Flush, e1
  <2> HIDE DEF e
  <2>2. QED BY <2>1 DEF ExpireAuction, EndAuction
<1> HIDE DEF e
<1>4. /\ GoodEngine(u.eng) /\ u.trades \in Seq(Trade)
      /\ u.eng.cfg = e.cfg /\ u.eng.spinning = e.spinning
  <2>1. e.auction_end \in Int BY <1>2, EngineFields
  <2>2. GoodOutcome(u) BY <1>2, <2>1, UncrossGood
  <2>3. u.eng.cfg = e.cfg /\ u.eng.spinning = e.spinning
    BY <1>2 DEF UncrossAuction, UncrossAt, Leftovers, GoodEngine, IsEngine
  <2>4. QED BY <2>2, <2>3 DEF GoodOutcome
<1> HIDE DEF u
<1>5. GoodEngine(next) /\ next.cfg = e.cfg /\ next.spinning = e.spinning
  <2> DEFINE phase == IF e.phase = "ClosingAuction" THEN "Closed" ELSE "Continuous"
  <2>1. phase \in Phases /\ 0 \in Int BY DEF Phases
  <2> HIDE DEF phase
  <2>2. GoodEngine([u.eng EXCEPT !.phase = phase]) BY <1>4, <2>1, SetPhase
  <2>3. /\ [u.eng EXCEPT !.phase = phase].cfg = e.cfg
        /\ [u.eng EXCEPT !.phase = phase].spinning = e.spinning
    BY <1>4 DEF GoodEngine, IsEngine
  <2>4. QED BY <2>2, <2>3 DEF phase
<1> HIDE DEF next
<1>6. new.cfg = e.cfg /\ new.spinning = e.spinning
  BY <1>4, <1>5, ToldConfig
<1>7. QED BY <1>2, <1>3, <1>6

LEMMA SettledConfig ==
  ASSUME NEW flushed \in Seq(Trade), NEW r, GoodOutcome(r)
  PROVE /\ Settled(flushed, r).eng.cfg = r.eng.cfg
        /\ Settled(flushed, r).eng.spinning = r.eng.spinning
<1> DEFINE e == r.eng
           new == r.trades
           trades == flushed \o new
<1>1. GoodEngine(e) /\ new \in Seq(Trade)
  BY DEF GoodOutcome
<1>2. Settled(flushed, r).eng = MaybeTriggerCircuitBreaker(OnTrades(e, trades), trades)
  BY DEF Settled, Result
<1> HIDE DEF e, new
<1>3. trades \in Seq(Trade)
  BY <1>1, ConcatProperties
<1> HIDE DEF trades
<1>4. /\ Settled(flushed, r).eng.cfg = e.cfg
      /\ Settled(flushed, r).eng.spinning = e.spinning
  BY <1>1, <1>2, <1>3, ToldConfig
<1>5. QED BY <1>4 DEF e

LEMMA ProcessConfig ==
  ASSUME NEW e0, GoodEngine(e0), NEW o \in Order, NEW t \in Int
  PROVE Process(e0, o, t).eng.cfg = e0.cfg
<1> DEFINE f == Flush(e0, t)
           e == f.eng
           flushed == f.trades
           x == [o EXCEPT !.type = "Limit", !.price = e.last]
           nothing == [eng |-> e, trades |-> <<>>, resting |-> None]
           auction == [e EXCEPT !.phase = "Auction", !.auction_end = t + e.cfg.vol_auction]
           r == Process(e0, o, t)
<1>1. GoodEngine(e) /\ flushed \in Seq(Trade) /\ e.cfg = e0.cfg
  BY FlushGood, FlushConfig DEF GoodOutcome
<1>2. \A y : /\ ProcessMarket(e, y, t).eng.cfg = e.cfg
             /\ ProcessLimit(e, y, t).eng.cfg = e.cfg
  <2> HIDE DEF e
  <2>1. \A m, left : /\ RestLeft(e, m, left).eng.cfg = e.cfg
                     /\ Unrested(e, m).eng.cfg = e.cfg
    BY <1>1 DEF RestLeft, Unrested, AfterMatch, GoodEngine, IsEngine
  <2>2. QED BY <2>1 DEF ProcessMarket, ProcessLimit
<1>3. /\ QueueInAuction(e, o).cfg = e.cfg /\ QueueInAuction(auction, o).cfg = e.cfg
  <2> HIDE DEF e
  <2>1. QED BY <1>1 DEF QueueInAuction, GoodEngine, IsEngine
<1>4. GoodOutcome(nothing) /\ nothing.eng = e
  <2> HIDE DEF e
  <2>1. QED BY <1>1 DEF GoodOutcome
<1>5. GoodOutcome(ProcessMarket(e, o, t)) /\ GoodOutcome(ProcessLimit(e, o, t))
  <2> HIDE DEF e
  <2>1. QED BY <1>1, ProcessMarketGood, ProcessLimitGood
<1>6. e.last # None => GoodOutcome(ProcessLimit(e, x, t))
  <2> HIDE DEF e
  <2>1. e.last # None => x \in Order
    <3>1. e.last \in Prices \cup {None} /\ "Limit" \in {"Limit", "Market"} BY <1>1, EngineFields
    <3>2. QED BY <3>1 DEF Order
  <2> HIDE DEF x
  <2>2. QED BY <1>1, <2>1, ProcessLimitGood
<1>7. \/ r.eng = e \/ r.eng = QueueInAuction(e, o) \/ r.eng = QueueInAuction(auction, o)
      \/ r = Settled(flushed, nothing)
      \/ r = Settled(flushed, ProcessMarket(e, o, t))
      \/ r = Settled(flushed, ProcessLimit(e, o, t))
      \/ e.last # None /\ r = Settled(flushed, ProcessLimit(e, x, t))
  <2>1. \A a, s : Result(a, flushed, None, s).eng = a BY DEF Result
  <2>2. r = ProcessFlushed(f, o, t) BY DEF Process
  <2>3. e.phase \in Phases BY <1>1, EngineFields
  <2> HIDE DEF r, f
  <2>4. \/ r.eng = e \/ r.eng = QueueInAuction(e, o)
        \/ r = ProcessTradingAtLast(e, flushed, o, t)
        \/ r = ProcessContinuous(e, flushed, o, t)
    BY <2>1, <2>2, <2>3 DEF ProcessFlushed, Phases
  <2>5. \/ ProcessTradingAtLast(e, flushed, o, t).eng = e
        \/ e.last # None /\
             ProcessTradingAtLast(e, flushed, o, t) = Settled(flushed, ProcessLimit(e, x, t))
    BY <2>1 DEF ProcessTradingAtLast
  <2>6. \/ ProcessContinuous(e, flushed, o, t).eng = QueueInAuction(auction, o)
        \/ ProcessContinuous(e, flushed, o, t) \in
             {Settled(flushed, nothing), Settled(flushed, ProcessMarket(e, o, t)),
              Settled(flushed, ProcessLimit(e, o, t))}
    BY <2>1 DEF ProcessContinuous
  <2> HIDE DEF e, flushed, x, nothing, auction
  <2>7. QED BY <2>4, <2>5, <2>6
<1> HIDE DEF r, e, flushed, x, nothing, auction
<1>8. r.eng.cfg = e.cfg
  BY <1>1, <1>2, <1>3, <1>4, <1>5, <1>6, <1>7, SettledConfig
<1>9. QED BY <1>1, <1>8 DEF r

----------------------------------------------------------------------------
(* What an auction trades: the pairing ends when one side has nothing left at
   the clearing price, so the prints add up to the volume the scan of the prices
   promised, and the scan takes a price with the largest one. *)

(* What the trades of a list trade together. *)
TradeTotal(trades) == SumFunctionOnSet([k \in DOMAIN trades |-> trades[k].qty], DOMAIN trades)

LEMMA NoTotal == TradeTotal(<<>>) = 0
<1>1. DOMAIN <<>> = {}
  OBVIOUS
<1>2. QED BY <1>1, SumEmpty DEF TradeTotal

LEMMA TotalGrows ==
  ASSUME NEW trades \in Seq(Trade), NEW t \in Trade
  PROVE /\ TradeTotal(trades) \in Int
        /\ TradeTotal(Append(trades, t)) = TradeTotal(trades) + t.qty
<1> DEFINE r == Append(trades, t)
           f == [k \in DOMAIN trades |-> trades[k].qty]
           g == [k \in DOMAIN r |-> r[k].qty]
           n == Len(trades)
<1>1. /\ n \in Nat /\ DOMAIN trades = 1 .. n /\ DOMAIN r = 1 .. (n + 1)
      /\ r[n + 1] = t /\ \A k \in 1 .. n : r[k] = trades[k] /\ trades[k] \in Trade
  BY LenProperties, AppendProperties, ElementOfSeq
<1>2. TradeTotal(trades) = SumFunctionOnSet(f, DOMAIN trades)
      /\ TradeTotal(r) = SumFunctionOnSet(g, DOMAIN r)
  BY DEF TradeTotal
<1> HIDE DEF r, n
<1>3. /\ \A k \in 1 .. n : f[k] = trades[k].qty /\ f[k] \in Int /\ g[k] = f[k]
      /\ g[n + 1] = t.qty /\ t.qty \in Int
  BY <1>1 DEF Trade
<1> HIDE DEF f, g
<1>4. IsFiniteSet(1 .. n) /\ IsFiniteSet(1 .. (n + 1))
  BY <1>1, FS_Interval
<1>5. n + 1 \in 1 .. (n + 1) /\ (1 .. (n + 1)) \ {n + 1} = 1 .. n
  BY <1>1
<1>6. \A k \in 1 .. (n + 1) : g[k] \in Int
  BY <1>1, <1>3
<1>7. SumFunctionOnSet(g, 1 .. (n + 1)) = g[n + 1] + SumFunctionOnSet(g, 1 .. n)
  <2> DEFINE S == 1 .. (n + 1)
             a == n + 1
  <2>1. IsFiniteSet(S) /\ a \in S /\ S \ {a} = 1 .. n /\ \A k \in S : g[k] \in Int
    BY <1>4, <1>5, <1>6
  <2> HIDE DEF S, a
  <2>2. SumFunctionOnSet(g, S) = g[a] + SumFunctionOnSet(g, S \ {a})
    BY <2>1, SumPick
  <2>3. QED BY <2>1, <2>2 DEF S, a
<1>8. /\ SumFunctionOnSet(f, 1 .. n) = SumFunctionOnSet(g, 1 .. n)
      /\ SumFunctionOnSet(f, 1 .. n) \in Int
  BY <1>3, <1>4, SumSame, SumType
<1>9. TradeTotal(r) = TradeTotal(trades) + t.qty /\ TradeTotal(trades) \in Int
  BY <1>1, <1>2, <1>3, <1>7, <1>8
<1>10. QED BY <1>9 DEF r

(* The positions of a side that would execute at a price, and those of them with
   quantity left. *)
WouldTrade(queue, side, px) ==
  {i \in DOMAIN queue : queue[i].side = side /\ Eligible(queue[i], px)}
OpenAt(queue, side, px) ==
  {i \in DOMAIN queue : /\ queue[i].side = side /\ Eligible(queue[i], px)
                        /\ queue[i].qty > 0}

HasSizes(queue) == \A i \in DOMAIN queue : queue[i].qty \in Nat

LEMMA VolumeIs ==
  ASSUME NEW queue \in Seq(Order), HasSizes(queue), NEW side, NEW px
  PROVE /\ IsFiniteSet(WouldTrade(queue, side, px))
        /\ SideVolume(queue, side, px) \in Nat
        /\ OpenAt(queue, side, px) = {} => SideVolume(queue, side, px) = 0
<1> DEFINE f == [i \in DOMAIN queue |-> queue[i].qty]
           S == WouldTrade(queue, side, px)
<1>1. SideVolume(queue, side, px) = SumFunctionOnSet(f, S)
  BY DEF SideVolume, WouldTrade
<1>2. DOMAIN queue = 1 .. Len(queue) /\ Len(queue) \in Nat
  BY LenProperties
<1>3. IsFiniteSet(S) /\ S \subseteq DOMAIN queue
  <2>1. IsFiniteSet(1 .. Len(queue)) BY <1>2, FS_Interval
  <2>2. S \subseteq DOMAIN queue BY DEF WouldTrade
  <2>3. QED BY <1>2, <2>1, <2>2, FS_Subset
<1>4. \A i \in S : f[i] \in Nat /\ f[i] = queue[i].qty
  BY <1>3 DEF HasSizes
<1>5. OpenAt(queue, side, px) = {} => \A i \in S : f[i] = 0
  BY <1>4 DEF OpenAt, WouldTrade
<1> HIDE DEF f, S
<1>6. SumFunctionOnSet(f, S) \in Nat
  BY <1>3, <1>4, SumNat
<1>7. OpenAt(queue, side, px) = {} => SumFunctionOnSet(f, S) = 0
  BY <1>3, <1>5, SumZero
<1>8. QED BY <1>1, <1>3, <1>6, <1>7 DEF S

(* An order of the side that loses n takes n off the side's volume. *)
LEMMA VolumeFalls ==
  ASSUME NEW q \in Seq(Order), NEW r \in Seq(Order), Len(r) = Len(q), HasSizes(q),
         NEW side, NEW px, NEW a \in WouldTrade(q, side, px),
         NEW b, b \notin WouldTrade(q, side, px), NEW n \in Int,
         \A i \in DOMAIN q :
           /\ r[i].side = q[i].side /\ (Eligible(r[i], px) <=> Eligible(q[i], px))
           /\ r[i].qty = IF i \in {a, b} THEN q[i].qty - n ELSE q[i].qty
  PROVE SideVolume(r, side, px) = SideVolume(q, side, px) - n
<1> DEFINE f == [i \in DOMAIN q |-> q[i].qty]
           g == [i \in DOMAIN r |-> r[i].qty]
           S == WouldTrade(q, side, px)
<1>1. DOMAIN q = 1 .. Len(q) /\ DOMAIN r = DOMAIN q
  BY LenProperties
<1>2. WouldTrade(r, side, px) = S
  <2>1. ASSUME NEW i \in DOMAIN q
        PROVE (r[i].side = side /\ Eligible(r[i], px)) <=> (q[i].side = side /\ Eligible(q[i], px))
    OBVIOUS
  <2>2. QED BY <1>1, <2>1 DEF WouldTrade
<1>3. /\ SideVolume(q, side, px) = SumFunctionOnSet(f, S)
      /\ SideVolume(r, side, px) = SumFunctionOnSet(g, S)
  BY <1>2 DEF SideVolume, WouldTrade
<1>4. S \subseteq DOMAIN q /\ IsFiniteSet(S) /\ a \in S /\ b \notin S
  <2>1. IsFiniteSet(S) BY VolumeIs
  <2>2. S \subseteq DOMAIN q BY DEF WouldTrade
  <2>3. QED BY <2>1, <2>2
<1> HIDE DEF S
<1>5. ASSUME NEW i \in S
      PROVE f[i] \in Int /\ g[i] = IF i = a THEN f[i] - n ELSE f[i]
  <2>1. i \in DOMAIN q /\ i \in DOMAIN r /\ i # b BY <1>1, <1>4
  <2>2. f[i] = q[i].qty /\ g[i] = r[i].qty /\ q[i].qty \in Nat BY <2>1 DEF HasSizes
  <2>3. r[i].qty = IF i = a THEN q[i].qty - n ELSE q[i].qty BY <2>1
  <2>4. QED BY <2>2, <2>3
<1> DEFINE d == -n
<1> HIDE DEF f, g
<1>6. d \in Int /\ g[a] = f[a] + d /\ \A i \in S \ {a} : g[i] = f[i]
  BY <1>4, <1>5
<1>7. \A i \in S : f[i] \in Int
  BY <1>5
<1> HIDE DEF d
<1>8. SumFunctionOnSet(g, S) = SumFunctionOnSet(f, S) + d
  <2>1. IsFiniteSet(S) /\ a \in S BY <1>4
  <2>2. QED BY ONLY <2>1, <1>6, <1>7, SumGrows
<1>9. SumFunctionOnSet(f, S) \in Int
  BY <1>4, <1>7, SumType
<1>10. SumFunctionOnSet(g, S) = SumFunctionOnSet(f, S) - n
  BY <1>8, <1>9 DEF d
<1>11. QED BY <1>3, <1>10

(* The positions that may still be paired. *)
Pairable(queue, px) == OpenAt(queue, "Buy", px) \cup OpenAt(queue, "Sell", px)

(* A pairing trades the same quantity on both sides, and one of the two orders
   has nothing left. *)
LEMMA PairStepTrades ==
  ASSUME NEW n, NEW u \in PairStates(n), NEW px \in Prices, NEW ts \in Int, HasSizes(u.queue)
  PROVE LET r == PairStep(px, ts, u)
        IN  /\ HasSizes(r.queue)
            /\ \/ r = u /\ (OpenAt(u.queue, "Buy", px) = {} \/ OpenAt(u.queue, "Sell", px) = {})
               \/ \E t \in Trade, i \in Pairable(u.queue, px) :
                    /\ r.trades = Append(u.trades, t) /\ t.price = px
                    /\ \A side \in Sides :
                         SideVolume(r.queue, side, px) = SideVolume(u.queue, side, px) - t.qty
                    /\ Pairable(r.queue, px) \subseteq Pairable(u.queue, px) \ {i}
<1> DEFINE w == u.queue
           open(side) == {i \in DOMAIN w : /\ w[i].side = side
                                           /\ Eligible(w[i], px)
                                           /\ w[i].qty > 0}
           b == First(w, open("Buy"))
           s == First(w, open("Sell"))
           m == Smaller(w[b].qty, w[s].qty)
           t == [id |-> u.next, ts |-> ts, price |-> px, qty |-> m,
                 maker |-> w[s].id, taker |-> w[b].id]
           q == [i \in DOMAIN w |-> IF i \in {b, s} THEN [w[i] EXCEPT !.qty = w[i].qty - m]
                                    ELSE w[i]]
           r == PairStep(px, ts, u)
<1>1. /\ w \in Seq(Order) /\ Len(w) = n /\ u.trades \in Seq(Trade) /\ u.next \in Nat
      /\ r \in PairStates(n)
  BY PairStepType DEF PairStates
<1>2. OpenAt(w, "Buy", px) = open("Buy") /\ OpenAt(w, "Sell", px) = open("Sell")
  BY DEF OpenAt
<1>3. CASE open("Buy") = {} \/ open("Sell") = {}
  <2>1. r = u BY <1>3, Zenon DEF PairStep
  <2> HIDE DEF r
  <2>2. QED BY <1>2, <1>3, <2>1 DEF r
<1>4. CASE ~(open("Buy") = {} \/ open("Sell") = {})
  <2>1. b \in open("Buy") /\ s \in open("Sell")
    <3> DEFINE B == open("Buy")
               C == open("Sell")
    <3>1. /\ B # {} /\ B \subseteq DOMAIN w /\ C # {} /\ C \subseteq DOMAIN w
      BY <1>4
    <3> HIDE DEF B, C, w
    <3>2. First(w, B) \in B /\ First(w, C) \in C
      BY <1>1, <3>1, FirstType
    <3>3. QED BY <3>2 DEF B, C, w
  <2>2. r = [queue |-> q, trades |-> Append(u.trades, t), next |-> u.next + 1]
    BY <1>4 DEF PairStep
  <2>3. /\ b \in DOMAIN w /\ w[b].side = "Buy" /\ Eligible(w[b], px) /\ w[b].qty > 0
        /\ s \in DOMAIN w /\ w[s].side = "Sell" /\ Eligible(w[s], px) /\ w[s].qty > 0
        /\ DOMAIN w = 1 .. n
    <3>1. DOMAIN w = 1 .. n BY <1>1, LenProperties
    <3> HIDE DEF b, s, m
    <3>2. QED BY <2>1, <3>1
  <2> HIDE DEF b, s
  <2>4. \A i \in DOMAIN w : w[i] \in Order /\ w[i].qty \in Nat
    BY <1>1, <2>3, ElementOfSeq DEF HasSizes
  <2>5. /\ m \in Nat /\ 0 < m /\ m <= w[b].qty /\ m <= w[s].qty
        /\ m = w[b].qty \/ m = w[s].qty
    BY <2>3, <2>4 DEF Smaller
  <2> HIDE DEF m
  <2>6. t \in Trade /\ t.qty = m /\ t.price = px
    BY <1>1, <2>3, <2>4, <2>5 DEF Trade, Order
  <2> HIDE DEF t
  <2>7. /\ q \in Seq(Order) /\ Len(q) = n /\ r.queue = q /\ r.trades = Append(u.trades, t)
        /\ DOMAIN q = DOMAIN w
    <3>1. r.queue = q /\ r.trades = Append(u.trades, t) BY <2>2
    <3>2. DOMAIN q = DOMAIN w OBVIOUS
    <3> HIDE DEF r, q
    <3>3. QED BY <1>1, <3>1, <3>2 DEF PairStates
  <2>8. \A i \in DOMAIN w :
          q[i] = IF i \in {b, s} THEN [w[i] EXCEPT !.qty = w[i].qty - m] ELSE w[i]
    OBVIOUS
  <2> HIDE DEF q, r
  <2>9. ASSUME NEW i \in DOMAIN w
        PROVE /\ q[i].side = w[i].side /\ (Eligible(q[i], px) <=> Eligible(w[i], px))
              /\ q[i].qty = IF i \in {b, s} THEN w[i].qty - m ELSE w[i].qty
    <3>1. /\ q[i].side = w[i].side /\ q[i].type = w[i].type /\ q[i].price = w[i].price
          /\ q[i].qty = IF i \in {b, s} THEN w[i].qty - m ELSE w[i].qty
      BY <2>4, <2>8 DEF Order
    <3>2. QED BY <3>1 DEF Eligible
  <2>10. HasSizes(q)
    <3>1. ASSUME NEW i \in DOMAIN w PROVE q[i].qty \in Nat
      <4>1. w[i].qty \in Nat /\ m \in Nat BY <2>4, <2>5
      <4>2. i \in {b, s} => m <= w[i].qty BY <2>5
      <4>3. QED BY <2>9, <4>1, <4>2
    <3>2. QED BY <2>7, <3>1 DEF HasSizes
  <2>11. /\ b \in WouldTrade(w, "Buy", px) /\ s \notin WouldTrade(w, "Buy", px)
         /\ s \in WouldTrade(w, "Sell", px) /\ b \notin WouldTrade(w, "Sell", px)
    BY <2>3 DEF WouldTrade
  <2>12. SideVolume(q, "Buy", px) = SideVolume(w, "Buy", px) - m
    <3>1. \A i \in DOMAIN w :
            /\ q[i].side = w[i].side /\ (Eligible(q[i], px) <=> Eligible(w[i], px))
            /\ q[i].qty = IF i \in {b, s} THEN w[i].qty - m ELSE w[i].qty
      BY <2>9
    <3>2. /\ w \in Seq(Order) /\ q \in Seq(Order) /\ Len(q) = Len(w) /\ m \in Int
          /\ HasSizes(w)
      BY <1>1, <2>5, <2>7
    <3>3. b \in WouldTrade(w, "Buy", px) /\ s \notin WouldTrade(w, "Buy", px)
      BY <2>11
    <3> HIDE DEF w
    <3>4. QED BY <3>1, <3>2, <3>3, VolumeFalls
  <2>13. SideVolume(q, "Sell", px) = SideVolume(w, "Sell", px) - m
    <3>1. \A i \in DOMAIN w :
            /\ q[i].side = w[i].side /\ (Eligible(q[i], px) <=> Eligible(w[i], px))
            /\ q[i].qty = IF i \in {s, b} THEN w[i].qty - m ELSE w[i].qty
      BY <2>9
    <3>2. /\ w \in Seq(Order) /\ q \in Seq(Order) /\ Len(q) = Len(w) /\ m \in Int
          /\ HasSizes(w)
      BY <1>1, <2>5, <2>7
    <3>3. s \in WouldTrade(w, "Sell", px) /\ b \notin WouldTrade(w, "Sell", px)
      BY <2>11
    <3> HIDE DEF w
    <3>4. QED BY <3>1, <3>2, <3>3, VolumeFalls
  <2>14. ASSUME NEW i \in {b, s}, m = w[i].qty
         PROVE i \in Pairable(w, px) /\ Pairable(q, px) \subseteq Pairable(w, px) \ {i}
    <3>1. i \in Pairable(w, px)
      BY <2>3, <2>14 DEF Pairable, OpenAt
    <3>2. ~(q[i].qty > 0)
      BY <2>3, <2>4, <2>9, <2>14
    <3>3. ASSUME NEW j \in Pairable(q, px) PROVE j \in Pairable(w, px) /\ j # i
      <4>1. /\ j \in DOMAIN w /\ q[j].side \in {"Buy", "Sell"} /\ Eligible(q[j], px)
            /\ q[j].qty > 0
        BY <2>7 DEF Pairable, OpenAt
      <4>2. w[j].side \in {"Buy", "Sell"} /\ Eligible(w[j], px) /\ w[j].qty > 0
        BY <2>4, <2>5, <2>9, <4>1
      <4>3. QED BY <3>2, <4>1, <4>2 DEF Pairable, OpenAt
    <3>4. QED BY <3>1, <3>3
  <2>15. PICK i \in {b, s} : m = w[i].qty
    BY <2>5
  <2>16. /\ i \in Pairable(w, px) /\ Pairable(q, px) \subseteq Pairable(w, px) \ {i}
    BY <2>14, <2>15
  <2>17. /\ HasSizes(r.queue)
         /\ t \in Trade /\ r.trades = Append(u.trades, t) /\ t.price = px
         /\ \A side \in Sides :
              SideVolume(r.queue, side, px) = SideVolume(u.queue, side, px) - t.qty
         /\ Pairable(r.queue, px) \subseteq Pairable(u.queue, px) \ {i}
    BY <2>6, <2>7, <2>10, <2>12, <2>13, <2>16 DEF Sides
  <2>18. QED BY <2>16, <2>17 DEF r
<1>5. QED BY <1>3, <1>4

(* The pairing takes the same off both sides and every trade off the volume that
   is left; after as many pairings as orders are queued one side has none left. *)
LEMMA PairedEnds ==
  ASSUME NEW e, e.queue \in Seq(Order), e.next_trade_id \in Nat, HasSizes(e.queue),
         NEW px \in Prices, NEW ts \in Int
  PROVE LET u == Paired(e, px, ts)
        IN  /\ u.trades \in Seq(Trade)
            /\ \A k \in DOMAIN u.trades : u.trades[k].price = px
            /\ TradeTotal(u.trades) = ExecutableVolumeAt(e.queue, px)
<1> DEFINE start == [queue |-> e.queue, trades |-> <<>>, next |-> e.next_trade_id]
           n == Len(e.queue)
           vol(side) == SideVolume(e.queue, side, px)
           X == {u \in PairStates(n) :
                   /\ HasSizes(u.queue)
                   /\ \A k \in DOMAIN u.trades : u.trades[k].price = px
                   /\ \A side \in Sides :
                        TradeTotal(u.trades) + SideVolume(u.queue, side, px) = vol(side)}
           done(u) == OpenAt(u.queue, "Buy", px) = {} \/ OpenAt(u.queue, "Sell", px) = {}
           Z == [k \in Nat |->
                   {u \in X : \/ done(u)
                              \/ /\ IsFiniteSet(Pairable(u.queue, px))
                                 /\ Cardinality(Pairable(u.queue, px)) + k <= n}]
<1>1. n \in Nat /\ DOMAIN e.queue = 1 .. n
  BY LenProperties
<1>2. \A side \in Sides : vol(side) \in Nat
  BY VolumeIs
<1>3. start \in X
  <2>1. start \in PairStates(n) BY DEF PairStates
  <2>2. start.queue = e.queue /\ start.trades = <<>> /\ DOMAIN start.trades = {} OBVIOUS
  <2> HIDE DEF start, n
  <2>3. \A side \in Sides : TradeTotal(start.trades) + SideVolume(start.queue, side, px) = vol(side)
    BY <1>2, <2>2, NoTotal
  <2>4. QED BY <2>1, <2>2, <2>3
<1>4. ASSUME NEW u \in X
      PROVE LET r == PairStep(px, ts, u)
            IN  /\ r \in X
                /\ \/ r = u /\ done(u)
                   \/ \E i \in Pairable(u.queue, px) :
                        Pairable(r.queue, px) \subseteq Pairable(u.queue, px) \ {i}
  <2> DEFINE r == PairStep(px, ts, u)
  <2>1. /\ u \in PairStates(n) /\ HasSizes(u.queue) /\ u.trades \in Seq(Trade)
        /\ \A k \in DOMAIN u.trades : u.trades[k].price = px
        /\ \A side \in Sides : TradeTotal(u.trades) + SideVolume(u.queue, side, px) = vol(side)
    BY DEF PairStates
  <2>2. r \in PairStates(n)
    BY <2>1, PairStepType
  <2>3. /\ HasSizes(r.queue)
        /\ \/ r = u /\ (OpenAt(u.queue, "Buy", px) = {} \/ OpenAt(u.queue, "Sell", px) = {})
           \/ \E t \in Trade, i \in Pairable(u.queue, px) :
                /\ r.trades = Append(u.trades, t) /\ t.price = px
                /\ \A side \in Sides :
                     SideVolume(r.queue, side, px) = SideVolume(u.queue, side, px) - t.qty
                /\ Pairable(r.queue, px) \subseteq Pairable(u.queue, px) \ {i}
    BY <2>1, PairStepTrades
  <2> HIDE DEF r, X, n
  <2>4. CASE r = u /\ done(u)
    BY <2>4 DEF r
  <2>5. ASSUME NEW t \in Trade, NEW i \in Pairable(u.queue, px),
               r.trades = Append(u.trades, t), t.price = px,
               \A side \in Sides :
                 SideVolume(r.queue, side, px) = SideVolume(u.queue, side, px) - t.qty,
               Pairable(r.queue, px) \subseteq Pairable(u.queue, px) \ {i}
        PROVE r \in X
    <3>1. /\ TradeTotal(u.trades) \in Int /\ TradeTotal(r.trades) = TradeTotal(u.trades) + t.qty
      BY <2>1, <2>5, TotalGrows
    <3>2. ASSUME NEW side \in Sides
          PROVE TradeTotal(r.trades) + SideVolume(r.queue, side, px) = vol(side)
      <4>1. u.queue \in Seq(Order) BY <2>1 DEF PairStates
      <4>2. SideVolume(u.queue, side, px) \in Nat BY <2>1, <4>1, VolumeIs
      <4>3. t.qty \in Int BY DEF Trade
      <4>4. TradeTotal(u.trades) + SideVolume(u.queue, side, px) = vol(side) BY <2>1
      <4>5. SideVolume(r.queue, side, px) = SideVolume(u.queue, side, px) - t.qty BY <2>5
      <4> HIDE DEF vol
      <4>6. QED BY <3>1, <4>2, <4>3, <4>4, <4>5
    <3>3. \A k \in DOMAIN r.trades : r.trades[k].price = px
      <4>1. /\ DOMAIN r.trades = 1 .. (Len(u.trades) + 1) /\ DOMAIN u.trades = 1 .. Len(u.trades)
            /\ r.trades[Len(u.trades) + 1] = t /\ Len(u.trades) \in Nat
            /\ \A k \in 1 .. Len(u.trades) : r.trades[k] = u.trades[k]
        BY <2>1, <2>5, AppendProperties, LenProperties
      <4>2. \A k \in 1 .. (Len(u.trades) + 1) : k = Len(u.trades) + 1 \/ k \in 1 .. Len(u.trades)
        BY <4>1
      <4>3. QED BY <2>1, <2>5, <4>1, <4>2
    <3>4. QED BY <2>2, <2>3, <3>2, <3>3 DEF X
  <2>6. QED BY <2>3, <2>4, <2>5 DEF r
<1>5. start \in Z[0]
  <2> DEFINE P == Pairable(e.queue, px)
  <2>1. P \subseteq 1 .. n
    BY <1>1 DEF Pairable, OpenAt
  <2>2. IsFiniteSet(1 .. n) /\ Cardinality(1 .. n) = n
    <3> HIDE DEF n
    <3>1. QED BY <1>1, FS_Interval
  <2> HIDE DEF P, n
  <2>3. IsFiniteSet(P) /\ Cardinality(P) <= n
    BY <2>1, <2>2, FS_Subset
  <2>4. Cardinality(P) \in Nat
    BY <2>3, FS_CardinalityType
  <2>5. Cardinality(P) + 0 <= n
    BY <1>1, <2>3, <2>4
  <2>6. start.queue = e.queue OBVIOUS
  <2> HIDE DEF start, X
  <2>7. QED BY <1>3, <2>3, <2>5, <2>6 DEF P
<1>6. ASSUME NEW k \in Nat, NEW u \in X, u \in Z[k]
      PROVE PairStep(px, ts, u) \in Z[k + 1]
  <2> DEFINE r == PairStep(px, ts, u)
             I == Pairable(u.queue, px)
             J == Pairable(r.queue, px)
  <2>1. r \in X /\ k + 1 \in Nat
    BY <1>4
  <2>2. \/ r = u /\ done(u)
        \/ \E i \in I : J \subseteq I \ {i}
    BY <1>4
  <2>3. done(u) \/ (IsFiniteSet(I) /\ Cardinality(I) + k <= n)
    BY <1>6
  <2>4. done(u) => r = u
    BY DEF PairStep, OpenAt
  <2>5. SUFFICES done(r) \/ (IsFiniteSet(J) /\ Cardinality(J) + (k + 1) <= n)
    <3> HIDE DEF X, n
    <3>1. QED BY <2>1
  <2>6. CASE done(u)
    <3> HIDE DEF r
    <3>1. QED BY <2>4, <2>6
  <2>7. CASE ~done(u)
    <3>1. IsFiniteSet(I) /\ Cardinality(I) + k <= n
      BY <2>3, <2>7
    <3>2. PICK i \in I : J \subseteq I \ {i}
      BY <2>2, <2>7
    <3> HIDE DEF I, J, n, r, X, Z
    <3>3. /\ IsFiniteSet(I \ {i}) /\ Cardinality(I \ {i}) = Cardinality(I) - 1
          /\ Cardinality(I) \in Nat
      BY <3>1, FS_RemoveElement, FS_CardinalityType
    <3>4. IsFiniteSet(J) /\ Cardinality(J) <= Cardinality(I \ {i}) /\ Cardinality(J) \in Nat
      BY <3>2, <3>3, FS_Subset, FS_CardinalityType
    <3>5. Cardinality(J) + (k + 1) <= n
      BY <1>1, <3>1, <3>3, <3>4
    <3>6. QED BY <3>4, <3>5
  <2>8. QED BY <2>6, <2>7
<1> DEFINE u == Paired(e, px, ts)
<1>7. u \in X \cap Z[n]
  <2>1. start \in X /\ start \in Z[0] BY <1>3, <1>5
  <2>2. \A x \in X : PairStep(px, ts, x) \in X BY <1>4
  <2>3. \A k \in Nat : \A x \in X : x \in Z[k] => PairStep(px, ts, x) \in Z[k + 1]
    BY <1>6
  <2> HIDE DEF Z, X
  <2>4. QED BY <2>1, <2>2, <2>3, PairedCounts
<1>8. /\ u \in PairStates(n) /\ HasSizes(u.queue) /\ u.queue \in Seq(Order)
      /\ \A k \in DOMAIN u.trades : u.trades[k].price = px
      /\ \A side \in Sides : TradeTotal(u.trades) + SideVolume(u.queue, side, px) = vol(side)
  <2>1. u \in X BY <1>7
  <2> HIDE DEF u, n
  <2>2. QED BY <2>1 DEF PairStates
<1>9. done(u) \/ (IsFiniteSet(Pairable(u.queue, px)) /\ Cardinality(Pairable(u.queue, px)) + n <= n)
  BY <1>1, <1>7
<1> HIDE DEF u, n, X, Z
<1>10. done(u)
  <2> DEFINE P == Pairable(u.queue, px)
  <2>1. SUFFICES ASSUME IsFiniteSet(P) /\ Cardinality(P) + n <= n PROVE P = {}
    BY <1>9 DEF Pairable
  <2> HIDE DEF P
  <2>2. Cardinality(P) \in Nat BY <2>1, FS_CardinalityType
  <2>3. Cardinality(P) = 0 BY <1>1, <2>1, <2>2
  <2>4. QED BY <2>1, <2>3, FS_EmptySet
<1>11. \A side \in Sides : /\ SideVolume(u.queue, side, px) \in Nat
                           /\ OpenAt(u.queue, side, px) = {} => SideVolume(u.queue, side, px) = 0
  BY <1>8, VolumeIs
<1>12. u.trades \in Seq(Trade) /\ TradeTotal(u.trades) \in Int
  <2>1. u.trades \in Seq(Trade) BY <1>8 DEF PairStates
  <2>2. CASE u.trades = <<>> BY <2>2, NoTotal
  <2>3. CASE u.trades # <<>>
    <3>1. PICK t : t \in Trade BY <2>1, <2>3, HeadTailProperties
    <3>2. QED BY <2>1, <3>1, TotalGrows
  <2>4. QED BY <2>1, <2>2, <2>3
<1>13. TradeTotal(u.trades) = ExecutableVolumeAt(e.queue, px)
  <2>1. /\ "Buy" \in Sides /\ "Sell" \in Sides BY DEF Sides
  <2>2. /\ TradeTotal(u.trades) + SideVolume(u.queue, "Buy", px) = vol("Buy")
        /\ TradeTotal(u.trades) + SideVolume(u.queue, "Sell", px) = vol("Sell")
        /\ vol("Buy") \in Nat /\ vol("Sell") \in Nat
        /\ SideVolume(u.queue, "Buy", px) \in Nat /\ SideVolume(u.queue, "Sell", px) \in Nat
        /\ SideVolume(u.queue, "Buy", px) = 0 \/ SideVolume(u.queue, "Sell", px) = 0
    BY <1>2, <1>8, <1>10, <1>11, <2>1
  <2>3. ExecutableVolumeAt(e.queue, px) = IF vol("Buy") < vol("Sell") THEN vol("Buy") ELSE vol("Sell")
    BY <2>2 DEF ExecutableVolumeAt, Smaller
  <2> HIDE DEF vol
  <2>4. QED BY <1>12, <2>2, <2>3
<1>14. QED BY <1>8, <1>12, <1>13 DEF u

(* A finite set has a member of the largest and one of the smallest value. *)
LEMMA Largest ==
  ASSUME NEW S, IsFiniteSet(S), S # {}, NEW f, \A x \in S : f[x] \in Int
  PROVE /\ \E x \in S : \A y \in S : f[x] >= f[y]
        /\ \E x \in S : \A y \in S : f[x] <= f[y]
<1> DEFINE T == {f[x] : x \in S}
           g == [x \in S |-> f[x]]
<1>1. g \in Surjection(S, T)
  BY DEF Surjection
<1> HIDE DEF g
<1>2. T \subseteq Int /\ T # {}
  OBVIOUS
<1>3. IsFiniteSet(T)
  <2> HIDE DEF T
  <2>1. QED BY <1>1, FS_Surjection
<1>4. (\E t \in T : \A y \in T : t <= y) /\ (\E t \in T : \A y \in T : t >= y)
  <2> HIDE DEF T
  <2>1. QED BY <1>2, <1>3, Extremes
<1>5. \A x \in S : f[x] \in T
  OBVIOUS
<1>6. QED BY <1>4, <1>5

LEMMA VolumeType ==
  ASSUME NEW queue \in Seq(Order), HasSizes(queue), NEW px
  PROVE ExecutableVolumeAt(queue, px) \in Nat
<1> DEFINE b == SideVolume(queue, "Buy", px)
           s == SideVolume(queue, "Sell", px)
<1>1. b \in Nat /\ s \in Nat
  BY VolumeIs
<1>2. ExecutableVolumeAt(queue, px) = Smaller(b, s)
  BY DEF ExecutableVolumeAt
<1> HIDE DEF b, s
<1>3. QED BY <1>1, <1>2 DEF Smaller

(* The reference price, and the distance of a candidate from it, are numbers. *)
LEMMA ReferenceType ==
  ASSUME NEW e, GoodEngine(e)
  PROVE ReferencePrice(e) \in Int \cup {None}
<1> DEFINE bid == Best(e.book, "Buy")
           ask == Best(e.book, "Sell")
<1>1. bid \in Prices \cup {None} /\ ask \in Prices \cup {None}
  <2>1. IsBook(e.book) BY EngineFields, GoodIsBook
  <2>2. QED BY <2>1, BestType DEF Sides
<1>2. Prices \subseteq Int
  BY MarketAssumption
<1> HIDE DEF bid, ask
<1>3. MidPrice(bid, ask) \in Int \cup {None}
  <2>1. CASE bid = None \/ ask = None BY <2>1 DEF MidPrice
  <2>2. CASE ~(bid = None \/ ask = None)
    <3> DEFINE n == bid + ask
    <3>1. n \in Int /\ MidPrice(bid, ask) = TruncDiv(n, 2) BY <1>1, <1>2, <2>2 DEF MidPrice
    <3> HIDE DEF n
    <3>2. QED BY <3>1 DEF TruncDiv
  <2>3. QED BY <2>1, <2>2
<1>4. QED BY <1>2, <1>3, EngineFields DEF ReferencePrice, bid, ask

(* The clearing price is a candidate price of the largest volume, and there is
   one unless no candidate trades anything. *)
LEMMA ClearingBest ==
  ASSUME NEW e, GoodEngine(e), HasSizes(e.queue)
  PROVE LET px == ComputeClearingPrice(e)
            V(p) == ExecutableVolumeAt(e.queue, p)
        IN  /\ px # None => /\ px \in LimitPrices(e.queue)
                            /\ \A p \in LimitPrices(e.queue) : V(p) <= V(px)
            /\ px = None => \A p \in LimitPrices(e.queue) : V(p) = 0
<1> DEFINE q == e.queue
           C == LimitPrices(q)
           ref == ReferencePrice(e)
           V == [p \in C |-> ExecutableVolumeAt(q, p)]
           D == [p \in C |-> IF ref = None THEN 0 ELSE Distance(p, ref)]
           best == {p \in C : /\ ExecutableVolumeAt(q, p) > 0
                              /\ \A r \in C : Preferred(q, ref, p, r)}
           px == ComputeClearingPrice(e)
<1>1. q \in Seq(Order) /\ Prices \subseteq Int /\ IsFiniteSet(Prices) /\ None \notin Int
  BY EngineFields, MarketAssumption
<1>2. C \subseteq Prices /\ IsFiniteSet(C)
  <2> HIDE DEF q
  <2>1. ASSUME NEW i \in DOMAIN q PROVE q[i].price \in Prices
    <3>1. i \in 1 .. Len(q) BY <1>1, LenProperties
    <3>2. q[i] \in Order BY <1>1, <3>1, ElementOfSeq
    <3>3. QED BY <3>2 DEF Order
  <2>2. C \subseteq Prices BY <2>1 DEF LimitPrices
  <2> HIDE DEF C
  <2>3. QED BY <1>1, <2>2, FS_Subset
<1>3. ref \in Int \cup {None}
  BY ReferenceType
<1>4. \A p \in C : ExecutableVolumeAt(q, p) \in Nat
  BY <1>1, VolumeType
<1>5. px = IF best = {} THEN None ELSE CHOOSE p \in best : TRUE
  BY DEF ComputeClearingPrice
<1> HIDE DEF q, C, ref, px
<1>6. \A p \in C : V[p] = ExecutableVolumeAt(q, p) /\ V[p] \in Int /\ D[p] \in Int /\ p \in Int
  <2>1. \A p \in C : p \in Int /\ V[p] = ExecutableVolumeAt(q, p) /\ V[p] \in Int
    BY <1>1, <1>2, <1>4
  <2>2. ASSUME NEW p \in C PROVE D[p] \in Int
    <3>1. p \in Int BY <2>1
    <3>2. D[p] = IF ref = None THEN 0 ELSE Distance(p, ref) OBVIOUS
    <3> HIDE DEF D
    <3>3. QED BY <1>3, <3>1, <3>2 DEF Distance
  <2>3. QED BY <2>1, <2>2
<1>7. \A p, r \in C : Preferred(q, ref, p, r) <=> \/ V[p] > V[r]
                                                  \/ V[p] = V[r] /\ D[p] < D[r]
                                                  \/ V[p] = V[r] /\ D[p] = D[r] /\ p <= r
  BY DEF Preferred
<1> HIDE DEF V, D
<1>8. ASSUME NEW p \in best PROVE /\ p \in C /\ V[p] > 0 /\ \A r \in C : V[r] <= V[p]
  <2>1. p \in C /\ ExecutableVolumeAt(q, p) > 0 /\ \A r \in C : Preferred(q, ref, p, r)
    OBVIOUS
  <2> HIDE DEF best
  <2>2. QED BY <1>6, <1>7, <2>1
<1>9. ASSUME NEW r \in C, V[r] # 0 PROVE best # {}
  <2>1. PICK v \in C : \A y \in C : V[v] >= V[y]
    BY <1>2, <1>6, Largest
  <2> DEFINE C1 == {p \in C : V[p] = V[v]}
  <2>2. C1 # {} /\ IsFiniteSet(C1) /\ C1 \subseteq C
    <3>1. C1 \subseteq C /\ v \in C1 OBVIOUS
    <3> HIDE DEF C1
    <3>2. QED BY <1>2, <3>1, FS_Subset
  <2>3. PICK d \in C1 : \A y \in C1 : D[d] <= D[y]
    <3> HIDE DEF C1
    <3>1. QED BY <1>6, <2>2, Largest
  <2> DEFINE C2 == {p \in C1 : D[p] = D[d]}
  <2>4. C2 # {} /\ IsFiniteSet(C2) /\ C2 \subseteq C1
    <3>1. C2 \subseteq C1 /\ d \in C2 OBVIOUS
    <3> HIDE DEF C1, C2
    <3>2. QED BY <2>2, <3>1, FS_Subset
  <2>5. PICK p \in C2 : \A y \in C2 : p <= y
    <3> HIDE DEF C1, C2
    <3>1. C2 \subseteq Int BY <1>6, <2>2, <2>4
    <3>2. QED BY <2>4, <3>1, Extremes
  <2>6. p \in C /\ V[p] = V[v] /\ D[p] = D[d] /\ p \in C1
    OBVIOUS
  <2>7. ASSUME NEW y \in C PROVE Preferred(q, ref, p, y)
    <3>1. V[p] >= V[y] BY <2>1, <2>6
    <3>2. CASE V[p] = V[y]
      <4>1. y \in C1 BY <2>6, <3>2
      <4>2. D[p] <= D[y] BY <2>3, <2>6, <4>1
      <4>3. D[p] = D[y] => y \in C2 BY <2>6, <4>1
      <4>4. D[p] = D[y] => p <= y BY <2>5, <4>3
      <4> HIDE DEF C1, C2, best
      <4>5. QED BY <1>6, <1>7, <2>6, <3>2, <4>2, <4>4
    <3>3. CASE V[p] # V[y]
      <4> HIDE DEF C1, C2, best
      <4>1. V[p] > V[y] BY <1>6, <2>6, <3>1, <3>3
      <4>2. QED BY <1>7, <2>6, <4>1
    <3>4. QED BY <3>2, <3>3
  <2>8. ExecutableVolumeAt(q, p) > 0
    <3>1. V[v] >= V[r] BY <2>1
    <3>2. V[r] \in Nat /\ V[v] \in Int BY <1>4, <1>6
    <3>3. V[v] > 0 BY <1>9, <3>1, <3>2
    <3> HIDE DEF C1, C2, best
    <3>4. QED BY <1>6, <2>6, <3>3
  <2> HIDE DEF C1, C2
  <2>9. p \in best BY <2>6, <2>7, <2>8
  <2>10. QED BY <2>9
<1>10. None \notin C
  BY <1>1, <1>2
<1> HIDE DEF best
<1>11. CASE best = {}
  <2>1. px = None BY <1>5, <1>11
  <2>2. \A r \in C : V[r] = 0 BY <1>9, <1>11
  <2>3. QED BY <1>6, <2>1, <2>2 DEF px, q, C
<1>12. CASE best # {}
  <2>1. px \in best BY <1>5, <1>12
  <2>2. px \in C /\ px # None /\ \A r \in C : V[r] <= V[px] BY <1>8, <1>10, <2>1
  <2>3. QED BY <1>6, <2>2 DEF px, q, C
<1>13. QED BY <1>11, <1>12

(* What uncross_auction prints: at one price, and together the largest volume. *)
LEMMA UncrossTrades ==
  ASSUME NEW e, GoodEngine(e), HasSizes(e.queue), NEW ts \in Int
  PROVE LET trades == UncrossAuction(e, ts).trades
            v == TradeTotal(trades)
        IN  /\ \A i, j \in DOMAIN trades : trades[i].price = trades[j].price
            /\ v = 0 \/ \E p \in LimitPrices(e.queue) : v = ExecutableVolumeAt(e.queue, p)
            /\ v \in Nat
            /\ \A p \in LimitPrices(e.queue) : ExecutableVolumeAt(e.queue, p) <= v
<1> DEFINE px == ComputeClearingPrice(e)
           C == LimitPrices(e.queue)
           V(p) == ExecutableVolumeAt(e.queue, p)
           trades == UncrossAuction(e, ts).trades
           v == TradeTotal(trades)
<1>1. px \in Prices \cup {None} /\ e.queue \in Seq(Order) /\ e.next_trade_id \in Nat
  BY ClearingPriceType, EngineFields
<1>2. trades = IF px # None THEN Paired(e, px, ts).trades ELSE <<>>
  BY DEF UncrossAuction, UncrossAt, Leftovers
<1>3. /\ px # None => px \in C /\ \A p \in C : V(p) <= V(px)
      /\ px = None => \A p \in C : V(p) = 0
  BY ClearingBest
<1>4. \A p : V(p) \in Nat
  BY <1>1, VolumeType
<1> HIDE DEF px, trades
<1>5. CASE px # None
  <2>1. /\ \A k \in DOMAIN trades : trades[k].price = px
        /\ v = V(px)
    BY <1>1, <1>2, <1>5, PairedEnds
  <2> HIDE DEF C, V, v
  <2>2. /\ \A i, j \in DOMAIN trades : trades[i].price = trades[j].price
        /\ v = 0 \/ \E p \in C : v = V(p)
        /\ v \in Nat /\ \A p \in C : V(p) <= v
    BY <1>3, <1>4, <1>5, <2>1
  <2>3. QED BY <2>2 DEF C, V, v, trades
<1>6. CASE px = None
  <2>1. trades = <<>> BY <1>2, <1>6
  <2>2. v = 0 BY <2>1, NoTotal
  <2>3. \A i, j \in DOMAIN trades : trades[i].price = trades[j].price BY <2>1
  <2> HIDE DEF C, V, v
  <2>4. 0 \in Nat /\ \A p \in C : V(p) <= v
    BY <1>3, <1>6, <2>2
  <2>5. QED BY <2>2, <2>3, <2>4 DEF C, V, v, trades
<1>7. QED BY <1>5, <1>6

(* The taker of what a matching loop prints is the order that is matched. *)
LEMMA MatchTakers ==
  ASSUME NEW e, GoodEngine(e), NEW o \in Order, NEW t \in Int
  PROVE \A k \in DOMAIN Match(e, o, t).trades : Match(e, o, t).trades[k].taker = o.id
<1> DEFINE s == [book |-> e.book, taker |-> o, trades |-> <<>>, next |-> e.next_trade_id]
           Takes(m) == m.taker.id = o.id /\ \A k \in DOMAIN m.trades : m.trades[k].taker = o.id
           X == {m \in MatchStates : Takes(m)}
<1>1. s \in X
  <2>1. s \in MatchStates BY EngineFields, GoodBookSet DEF MatchStates
  <2>2. Takes(s) OBVIOUS
  <2>3. QED BY <2>1, <2>2
<1>2. ASSUME NEW m \in X PROVE MatchStep(e.cfg.stp, t, m) \in X
  <2> DEFINE stp == e.cfg.stp
             r == MatchStep(stp, t, m)
             side == Opposite(m.taker.side)
             px == Best(m.book, side)
             front == m.book.levels[side][px].q
             levels == DropLevel(m.book, side, px)
             book == Cancel(m.book, Head(front).id).book
             maker == Head(front)
             q == Smaller(m.taker.qty, maker.qty)
             x == [id |-> m.next, ts |-> t, price |-> px, qty |-> q,
                   maker |-> maker.id, taker |-> m.taker.id]
             none == [m.taker EXCEPT !.qty = 0]
             left == [m.taker EXCEPT !.qty = m.taker.qty - q]
  <2>1. m \in MatchStates /\ m.trades \in Seq(Trade) /\ Takes(m) /\ m.taker \in Order
    BY DEF MatchStates
  <2>2. r \in MatchStates
    BY <2>1, MatchStepType
  <2>3. \/ r = m
        \/ r = [m EXCEPT !.book = [levels |-> levels, loc |-> m.book.loc]]
        \/ r = [m EXCEPT !.taker = none]
        \/ r = [m EXCEPT !.book = book]
        \/ r = Fill(m, t)
    BY DEF MatchStep
  <2>4. Fill(m, t).trades = Append(m.trades, x) /\ Fill(m, t).taker = left
    BY DEF Fill
  <2>5. x.taker = o.id /\ none.id = o.id /\ left.id = o.id
    BY <2>1 DEF Order
  <2> HIDE DEF r, x, levels, book, stp, none, left, X
  <2>6. \A k \in DOMAIN Append(m.trades, x) : Append(m.trades, x)[k].taker = o.id
    <3> DEFINE y == m.trades
    <3>1. /\ y \in Seq(Trade) /\ Len(y) \in Nat /\ DOMAIN y = 1 .. Len(y)
          /\ \A k \in DOMAIN y : y[k].taker = o.id
      BY <2>1, LenProperties
    <3> HIDE DEF y
    <3> DEFINE z == Append(y, x)
    <3>2. DOMAIN z = 1 .. (Len(y) + 1) /\ \A k \in 1 .. Len(y) : z[k] = y[k]
      BY <3>1
    <3>3. z[Len(y) + 1] = x
      BY <3>1
    <3> HIDE DEF z
    <3>4. \A k \in 1 .. (Len(y) + 1) : k = Len(y) + 1 \/ k \in 1 .. Len(y)
      BY <3>1
    <3>5. \A k \in DOMAIN z : z[k].taker = o.id
      BY <2>5, <3>1, <3>2, <3>3, <3>4
    <3>6. QED BY <3>5 DEF y, z
  <2>7. /\ r.trades = m.trades \/ r.trades = Append(m.trades, x)
        /\ r.taker = m.taker \/ r.taker = none \/ r.taker = left
    BY <2>1, <2>3, <2>4 DEF MatchStates
  <2>8. Takes(r)
    BY <2>1, <2>5, <2>6, <2>7
  <2>9. QED BY <2>2, <2>8 DEF r, stp, X
<1> HIDE DEF X
<1>3. Match(e, o, t) \in X
  BY <1>1, <1>2, MatchStays
<1>4. QED BY <1>3 DEF X
=============================================================================
