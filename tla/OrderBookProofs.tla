--------------------------- MODULE OrderBookProofs ---------------------------
(***************************************************************************)
(* The member functions of the order book keep its type and never cross    *)
(* it, for any sets of ids, owners and prices.  First induction and        *)
(* iteration in the form the proofs of this project use them: the least    *)
(* element of a set of naturals, the run of a loop as a function of the    *)
(* number of iterations, the extremal elements of a finite set; and what   *)
(* QtyOf does when an order is appended to, removed from or changed in a   *)
(* list: the arithmetic behind total_qty of a level.  The last part is     *)
(* about books in which every order has one place: the functions keep it   *)
(* that way, and what they do to the set of resting orders is to add one,  *)
(* to remove one, or to give one a smaller quantity.                       *)
(***************************************************************************)
EXTENDS OrderBook, SequenceTheorems, FiniteSetTheorems, WellFoundedInduction, TLAPS

----------------------------------------------------------------------------
(* Induction and loops *)

(* A non-empty set of naturals has a least element. *)
LEMMA LeastNat ==
  ASSUME NEW T, T \subseteq Nat, T # {}
  PROVE \E n \in T : \A m \in T : n <= m
<1>1. IsWellFoundedOn(OpToRel(<, Nat), Nat)
  BY NatLessThanWellFounded
<1>2. PICK x \in T : \A y \in T : ~(<<y, x>> \in OpToRel(<, Nat))
  BY <1>1, WFMin
<1>3. ASSUME NEW y \in T PROVE ~(y < x)
  BY <1>2 DEF OpToRel
<1>4. QED BY <1>3

(* Induction: a set of naturals with 0 and closed under successor is Nat. *)
LEMMA InductSet ==
  ASSUME NEW A, A \subseteq Nat, 0 \in A, \A n \in Nat : n \in A => n + 1 \in A
  PROVE A = Nat
<1>1. SUFFICES ASSUME Nat \ A # {} PROVE FALSE
  OBVIOUS
<1>2. PICK n \in Nat \ A : \A m \in Nat \ A : n <= m
  BY <1>1, LeastNat
<1>3. n # 0 BY <1>2
<1>4. n - 1 \in Nat BY <1>2, <1>3
<1>5. n - 1 \in A BY <1>2, <1>4
<1>6. n - 1 + 1 \in A BY <1>4, <1>5
<1>7. QED BY <1>6, <1>2

(* The first n iterations from s, where S[k] is the k-th step (from 0). *)
Approximates(g, n, X, S, s) ==
  /\ g \in [0 .. n -> X]
  /\ g[0] = s
  /\ \A k \in 0 .. (n - 1) : g[k + 1] = S[k][g[k]]

(* They exist, whatever n. *)
LEMMA ApproximationExists ==
  ASSUME NEW X, NEW S \in [Nat -> [X -> X]], NEW s \in X, NEW n \in Nat
  PROVE \E g : Approximates(g, n, X, S, s)
<1> DEFINE A == {m \in Nat : \E g : Approximates(g, m, X, S, s)}
<1>1. 0 \in A
  <2>1. Approximates([k \in 0 .. 0 |-> s], 0, X, S, s)
    BY DEF Approximates
  <2>2. QED BY <2>1
<1>2. ASSUME NEW m \in Nat, m \in A PROVE m + 1 \in A
  <2>1. PICK g : Approximates(g, m, X, S, s)
    BY <1>2
  <2> DEFINE h == [k \in 0 .. (m + 1) |-> IF k <= m THEN g[k] ELSE S[m][g[m]]]
  <2>2. h \in [0 .. (m + 1) -> X]
    <3>1. g[m] \in X /\ S[m] \in [X -> X] BY <2>1 DEF Approximates
    <3>2. QED BY <2>1, <3>1 DEF Approximates
  <2>3. h[0] = s
    BY <2>1 DEF Approximates
  <2>4. ASSUME NEW k \in 0 .. (m + 1 - 1) PROVE h[k + 1] = S[k][h[k]]
    <3>1. CASE k < m
      BY <2>1, <3>1 DEF Approximates
    <3>2. CASE k = m
      BY <2>1, <3>2 DEF Approximates
    <3>3. QED BY <3>1, <3>2
  <2>5. Approximates(h, m + 1, X, S, s)
    <3> HIDE DEF h
    <3>1. QED BY <2>2, <2>3, <2>4 DEF Approximates
  <2>6. QED BY <2>5
<1>3. A = Nat
  BY <1>1, <1>2, InductSet
<1>4. QED BY <1>3

(* And they agree where both are defined. *)
LEMMA ApproximationUnique ==
  ASSUME NEW X, NEW S \in [Nat -> [X -> X]], NEW s \in X, NEW n \in Nat, NEW m \in Nat,
         NEW g, Approximates(g, n, X, S, s), NEW h, Approximates(h, m, X, S, s),
         NEW k \in Nat, k <= n, k <= m
  PROVE g[k] = h[k]
<1> DEFINE A == {j \in Nat : j <= n /\ j <= m => g[j] = h[j]}
<1>1. 0 \in A
  BY DEF Approximates
<1>2. ASSUME NEW j \in Nat, j \in A PROVE j + 1 \in A
  <2>1. SUFFICES ASSUME j + 1 <= n, j + 1 <= m PROVE g[j + 1] = h[j + 1]
    OBVIOUS
  <2>2. g[j] = h[j]
    BY <1>2, <2>1
  <2>3. j \in 0 .. (n - 1) /\ j \in 0 .. (m - 1)
    BY <2>1
  <2>4. QED BY <2>2, <2>3 DEF Approximates
<1>3. A = Nat
  <2> HIDE DEF A
  <2>1. A \subseteq Nat BY DEF A
  <2>2. QED BY <1>1, <1>2, <2>1, InductSet
<1>4. QED BY <1>3

(* f is the run of a loop with steps S from s: f[k] is the state after k steps. *)
IsRun(f, X, S, s) ==
  /\ f \in [Nat -> X]
  /\ f[0] = s
  /\ \A k \in Nat : f[k + 1] = S[k][f[k]]

(* A loop whose steps stay in X has a run, in X. *)
LEMMA LoopRun ==
  ASSUME NEW X, NEW S \in [Nat -> [X -> X]], NEW s \in X
  PROVE \E f : IsRun(f, X, S, s)
<1> DEFINE G == [n \in Nat |-> CHOOSE g : Approximates(g, n, X, S, s)]
<1> DEFINE f == [n \in Nat |-> G[n][n]]
<1>1. ASSUME NEW n \in Nat PROVE Approximates(G[n], n, X, S, s)
  BY ApproximationExists
<1> HIDE DEF G
<1>2. ASSUME NEW n \in Nat PROVE f[n] \in X
  <2>1. n \in 0 .. n OBVIOUS
  <2>2. QED BY <1>1, <2>1 DEF Approximates
<1>3. f[0] = s
  BY <1>1 DEF Approximates
<1>4. ASSUME NEW k \in Nat PROVE f[k + 1] = S[k][f[k]]
  <2>1. k \in 0 .. (k + 1 - 1) OBVIOUS
  <2>2. G[k + 1][k + 1] = S[k][G[k + 1][k]]
    BY <1>1, <2>1 DEF Approximates
  <2>3. G[k + 1][k] = G[k][k]
    <3> DEFINE n == k + 1
               g == G[k + 1]
               h == G[k]
    <3>1. n \in Nat /\ k <= n /\ k <= k OBVIOUS
    <3>2. Approximates(g, n, X, S, s) BY <1>1, <3>1
    <3>3. Approximates(h, k, X, S, s) BY <1>1
    <3> HIDE DEF n, g, h
    <3>4. g[k] = h[k] BY <3>1, <3>2, <3>3, ApproximationUnique
    <3>5. QED BY <3>4 DEF g, h
  <2>4. QED BY <2>2, <2>3
<1>5. f \in [Nat -> X] BY <1>2
<1> HIDE DEF f
<1>6. IsRun(f, X, S, s)
  BY <1>3, <1>4, <1>5 DEF IsRun
<1>7. QED BY <1>6

(* A non-empty finite set of integers has a least and a greatest element. *)
LEMMA Extremes ==
  ASSUME NEW S, S \subseteq Int, IsFiniteSet(S), S # {}
  PROVE /\ \E x \in S : \A y \in S : x <= y
        /\ \E x \in S : \A y \in S : x >= y
<1> DEFINE Bounded(T) == /\ \E x \in T : \A y \in T : x <= y
                         /\ \E x \in T : \A y \in T : x >= y
<1> DEFINE A == {n \in Nat : \A T \in SUBSET S :
                   Cardinality(T) = n /\ T # {} => Bounded(T)}
<1>1. \A T \in SUBSET S : IsFiniteSet(T)
  BY FS_Subset
<1>2. 0 \in A
  BY <1>1, FS_EmptySet
<1>3. ASSUME NEW n \in Nat, n \in A PROVE n + 1 \in A
  <2>1. SUFFICES ASSUME NEW T \in SUBSET S, Cardinality(T) = n + 1, T # {}
                 PROVE Bounded(T)
    OBVIOUS
  <2>2. PICK x \in T : TRUE
    BY <2>1
  <2>3. Cardinality(T \ {x}) = n
    <3>1. Cardinality(T \ {x}) = Cardinality(T) - 1
      BY <1>1, <2>2, FS_RemoveElement
    <3>2. QED BY <2>1, <3>1
  <2>4. CASE T \ {x} = {}
    BY <2>2, <2>4
  <2>5. CASE T \ {x} # {}
    <3>1. Bounded(T \ {x})
      BY <1>3, <2>3, <2>5
    <3>2. PICK lo \in T \ {x} : \A y \in T \ {x} : lo <= y
      BY <3>1
    <3>3. PICK hi \in T \ {x} : \A y \in T \ {x} : hi >= y
      BY <3>1
    <3>4. \E z \in T : \A y \in T : z <= y
      BY <2>2, <3>2
    <3>5. \E z \in T : \A y \in T : z >= y
      BY <2>2, <3>3
    <3>6. QED BY <3>4, <3>5
  <2>6. QED BY <2>4, <2>5
<1> HIDE DEF A
<1>4. A = Nat
  <2>1. A \subseteq Nat BY DEF A
  <2>2. QED BY <1>2, <1>3, <2>1, InductSet
<1>5. Cardinality(S) \in Nat
  BY FS_CardinalityType
<1>6. Cardinality(S) \in A
  BY <1>4, <1>5
<1>7. QED BY <1>6 DEF A

----------------------------------------------------------------------------
(* Sums of quantities *)

(* f is the running sum of the quantities of q. *)
RunningSum(f, q) ==
  /\ f \in [0 .. Len(q) -> Int]
  /\ f[0] = 0
  /\ \A k \in 1 .. Len(q) : f[k] = f[k - 1] + q[k].qty

(* f is the running sum, whatever its values off 0 .. Len(q). *)
Accumulates(f, q) ==
  f[0] = 0 /\ \A k \in 1 .. Len(q) : f[k] = f[k - 1] + q[k].qty

(* It is determined by its equations. *)
LEMMA SumUnique ==
  ASSUME NEW q, Len(q) \in Nat, NEW f, Accumulates(f, q), NEW g, Accumulates(g, q)
  PROVE \A k \in 0 .. Len(q) : f[k] = g[k]
<1> DEFINE A == {k \in Nat : k <= Len(q) => f[k] = g[k]}
<1>1. 0 \in A
  BY DEF Accumulates
<1>2. ASSUME NEW k \in Nat, k \in A PROVE k + 1 \in A
  <2>1. SUFFICES ASSUME k + 1 <= Len(q) PROVE f[k + 1] = g[k + 1]
    OBVIOUS
  <2>2. f[k] = g[k] BY <1>2, <2>1
  <2>3. k + 1 \in 1 .. Len(q) /\ (k + 1) - 1 = k BY <2>1
  <2>4. f[k + 1] = f[k] + q[k + 1].qty BY <2>3 DEF Accumulates
  <2>5. g[k + 1] = g[k] + q[k + 1].qty BY <2>3 DEF Accumulates
  <2>6. QED BY <2>2, <2>4, <2>5
<1>3. A = Nat
  <2> HIDE DEF A
  <2>1. A \subseteq Nat BY DEF A
  <2>2. QED BY <1>1, <1>2, <2>1, InductSet
<1>4. QED BY <1>3

(* The running sum of a sequence of integers exists. *)
LEMMA SumExists ==
  ASSUME NEW d \in [Nat -> Int]
  PROVE \E f \in [Nat -> Int] : f[0] = 0 /\ \A k \in Nat : f[k + 1] = f[k] + d[k]
<1> DEFINE S == [k \in Nat |-> [v \in Int |-> v + d[k]]]
<1>1. S \in [Nat -> [Int -> Int]]
  OBVIOUS
<1>2. PICK f : IsRun(f, Int, S, 0)
  <2>1. 0 \in Int OBVIOUS
  <2> HIDE DEF S
  <2>2. QED BY <1>1, <2>1, LoopRun
<1>3. f \in [Nat -> Int] /\ f[0] = 0 /\ \A k \in Nat : f[k + 1] = S[k][f[k]]
  BY <1>2 DEF IsRun
<1>4. QED BY <1>3

(* q is a list of records with a quantity: orders, or parts of trades. *)
HasQtys(q) == Len(q) \in Nat /\ \A k \in 1 .. Len(q) : q[k].qty \in Int

LEMMA OrdersHaveQtys ==
  ASSUME NEW q \in Seq(Order)
  PROVE HasQtys(q)
<1>1. Len(q) \in Nat
  OBVIOUS
<1>2. ASSUME NEW k \in 1 .. Len(q) PROVE q[k].qty \in Int
  <2>1. q[k] \in Order BY ElementOfSeq
  <2>2. QED BY <2>1 DEF Order
<1>3. QED BY <1>1, <1>2 DEF HasQtys

(* The running sum of a list exists. *)
LEMMA RunningSumExists ==
  ASSUME NEW q, HasQtys(q)
  PROVE \E f : RunningSum(f, q)
<1> DEFINE n == Len(q)
<1> DEFINE d == [k \in Nat |-> IF k + 1 \in 1 .. n THEN q[k + 1].qty ELSE 0]
<1>1. d \in [Nat -> Int]
  BY DEF HasQtys
<1>2. PICK h \in [Nat -> Int] : h[0] = 0 /\ \A k \in Nat : h[k + 1] = h[k] + d[k]
  <2> HIDE DEF d
  <2>1. QED BY <1>1, SumExists
<1>3. n \in Nat
  BY DEF HasQtys
<1>4. ASSUME NEW k \in 1 .. n PROVE h[k] = h[k - 1] + q[k].qty
  <2>1. k - 1 \in Nat /\ (k - 1) + 1 = k BY <1>3
  <2>2. d[k - 1] = q[k].qty BY <2>1
  <2> HIDE DEF d
  <2>3. QED BY <1>2, <2>1, <2>2
<1> DEFINE f == [k \in 0 .. n |-> h[k]]
<1>5. f \in [0 .. n -> Int] /\ f[0] = 0
  BY <1>2, <1>3
<1>6. ASSUME NEW k \in 1 .. n PROVE f[k] = f[k - 1] + q[k].qty
  <2>1. k \in 0 .. n /\ k - 1 \in 0 .. n BY <1>3
  <2>2. QED BY <1>4, <2>1
<1>7. RunningSum(f, q)
  BY <1>5, <1>6 DEF RunningSum
<1>8. QED BY <1>7

(* QtyOf is the last value of the running sum. *)
LEMMA QtyOfIsSum ==
  ASSUME NEW q, HasQtys(q), NEW f, RunningSum(f, q)
  PROVE QtyOf(q) = f[Len(q)]
<1> DEFINE n == Len(q)
<1> DEFINE Eqn(g) == g = [k \in 0 .. n |-> IF k = 0 THEN 0 ELSE g[k - 1] + q[k].qty]
<1>1. n \in Nat
  BY DEF HasQtys
<1>2. Eqn(f)
  <2>1. \A k \in 0 .. n : f[k] = IF k = 0 THEN 0 ELSE f[k - 1] + q[k].qty
    BY <1>1 DEF RunningSum
  <2>2. QED BY <2>1 DEF RunningSum
<1> DEFINE sum == CHOOSE g : Eqn(g)
<1>3. Eqn(sum)
  <2> HIDE DEF Eqn
  <2>1. QED BY <1>2
<1>4. QtyOf(q) = sum[n]
  BY DEF QtyOf
<1> HIDE DEF sum
<1>5. sum[0] = 0 /\ \A k \in 1 .. n : sum[k] = sum[k - 1] + q[k].qty
  BY <1>1, <1>3
<1>6. \A k \in 0 .. n : sum[k] = f[k]
  <2>1. Accumulates(sum, q) BY <1>5 DEF Accumulates
  <2>2. Accumulates(f, q) BY DEF RunningSum, Accumulates
  <2>3. QED BY <1>1, <2>1, <2>2, SumUnique
<1>7. QED BY <1>1, <1>4, <1>6

(* One more at the end. *)
LEMMA QtyGrows ==
  ASSUME NEW q, HasQtys(q), NEW r, HasQtys(r), Len(r) = Len(q) + 1,
         \A k \in 1 .. Len(q) : r[k].qty = q[k].qty
  PROVE QtyOf(q) \in Int /\ QtyOf(r) = QtyOf(q) + r[Len(r)].qty
<1> DEFINE n == Len(q)
<1>1. n \in Nat /\ n + 1 = Len(r) /\ Len(r) \in 1 .. Len(r) /\ Len(r) - 1 = n
  BY DEF HasQtys
<1>2. PICK g : RunningSum(g, r)
  BY RunningSumExists
<1> DEFINE f == [k \in 0 .. n |-> g[k]]
<1>3. \A k \in 0 .. n : g[k] \in Int
  BY <1>1, <1>2 DEF RunningSum
<1>4. f \in [0 .. n -> Int] /\ f[0] = 0
  BY <1>1, <1>2, <1>3 DEF RunningSum
<1>5. ASSUME NEW k \in 1 .. n PROVE f[k] = f[k - 1] + q[k].qty
  <2>1. k \in 0 .. n /\ k - 1 \in 0 .. n /\ k \in 1 .. Len(r) BY <1>1
  <2>2. g[k] = g[k - 1] + r[k].qty BY <1>2, <2>1 DEF RunningSum
  <2>3. QED BY <2>1, <2>2
<1>6. RunningSum(f, q)
  <2> HIDE DEF f
  <2>1. QED BY <1>4, <1>5 DEF RunningSum
<1>7. QtyOf(q) = g[n]
  <2>1. QtyOf(q) = f[n]
    <3> HIDE DEF f
    <3>1. QED BY <1>6, QtyOfIsSum
  <2>2. QED BY <1>1, <2>1
<1>8. QtyOf(r) = g[n + 1]
  BY <1>1, <1>2, QtyOfIsSum
<1>9. g[n + 1] = g[n] + r[n + 1].qty
  BY <1>1, <1>2 DEF RunningSum
<1>10. QED BY <1>1, <1>3, <1>7, <1>8, <1>9

(* From a in q and from b in r, n orders have the same quantities. *)
SameQty(q, a, r, b, n) ==
  /\ a \in Nat /\ b \in Nat /\ n \in Nat
  /\ a + n <= Len(q) /\ b + n <= Len(r)
  /\ \A k \in 1 .. n : q[a + k].qty = r[b + k].qty

(* There, the running sums grow alike. *)
LEMMA Segment ==
  ASSUME NEW q \in Seq(Order), NEW r \in Seq(Order),
         NEW f, RunningSum(f, q), NEW g, RunningSum(g, r),
         NEW a, NEW b, NEW n, SameQty(q, a, r, b, n)
  PROVE /\ f[a] \in Int /\ f[a + n] \in Int /\ g[b] \in Int /\ g[b + n] \in Int
        /\ g[b + n] - g[b] = f[a + n] - f[a]
<1> DEFINE A == {k \in Nat : k <= n => g[b + k] - g[b] = f[a + k] - f[a]}
<1>1. Len(q) \in Nat /\ Len(r) \in Nat
  OBVIOUS
<1>2. /\ a \in Nat /\ b \in Nat /\ n \in Nat
      /\ a + n <= Len(q) /\ b + n <= Len(r)
  BY DEF SameQty
<1>3. ASSUME NEW k \in 0 .. n PROVE f[a + k] \in Int /\ g[b + k] \in Int
  <2>1. a + k \in 0 .. Len(q) /\ b + k \in 0 .. Len(r) BY <1>1, <1>2
  <2>2. QED BY <2>1 DEF RunningSum
<1>4. f[a] \in Int /\ g[b] \in Int
  <2>1. a \in 0 .. Len(q) /\ b \in 0 .. Len(r) BY <1>1, <1>2
  <2>2. QED BY <2>1 DEF RunningSum
<1>5. 0 \in A
  BY <1>2, <1>4
<1>6. ASSUME NEW k \in Nat, k \in A PROVE k + 1 \in A
  <2>1. SUFFICES ASSUME k + 1 <= n PROVE g[b + (k + 1)] - g[b] = f[a + (k + 1)] - f[a]
    BY <1>2
  <2> DEFINE i == a + (k + 1)
             j == b + (k + 1)
  <2>2. g[b + k] - g[b] = f[a + k] - f[a] BY <1>2, <1>6, <2>1
  <2>3. i \in 1 .. Len(q) /\ j \in 1 .. Len(r) BY <1>1, <1>2, <2>1
  <2>4. q[i].qty = r[j].qty
    <3>1. k + 1 \in 1 .. n BY <1>2, <2>1
    <3>2. QED BY <3>1 DEF SameQty
  <2>5. i - 1 = a + k /\ j - 1 = b + k BY <1>2
  <2>6. f[a + k] \in Int /\ g[b + k] \in Int BY <1>2, <1>3, <2>1
  <2> HIDE DEF i, j
  <2>7. f[i] = f[i - 1] + q[i].qty BY <2>3 DEF RunningSum
  <2>8. g[j] = g[j - 1] + r[j].qty BY <2>3 DEF RunningSum
  <2>9. q[i].qty \in Int
    <3>1. q[i] \in Order BY <2>3, ElementOfSeq
    <3>2. QED BY <3>1 DEF Order
  <2>10. g[j] - g[b] = f[i] - f[a]
    <3> DEFINE x == f[a + k]
               y == g[b + k]
               c == q[i].qty
    <3>1. f[i] = x + c BY <2>5, <2>7
    <3>2. g[j] = y + c BY <2>4, <2>5, <2>8
    <3>3. x \in Int /\ y \in Int /\ c \in Int BY <2>6, <2>9
    <3>4. y - g[b] = x - f[a] BY <2>2
    <3> HIDE DEF x, y, c
    <3>5. QED BY <1>4, <3>1, <3>2, <3>3, <3>4
  <2>11. QED BY <2>10 DEF i, j
<1>7. A = Nat
  <2> HIDE DEF A
  <2>1. A \subseteq Nat BY DEF A
  <2>2. QED BY <1>5, <1>6, <2>1, InductSet
<1>8. g[b + n] - g[b] = f[a + n] - f[a]
  <2>1. \A k \in Nat : k <= n => g[b + k] - g[b] = f[a + k] - f[a]
    BY <1>7
  <2>2. QED BY <1>2, <2>1
<1>9. QED
  <2>1. n \in 0 .. n BY <1>2
  <2>2. f[a + n] \in Int /\ g[b + n] \in Int BY <1>3, <2>1
  <2>3. QED BY <1>4, <1>8, <2>2

(* The type of a quantity; an empty list has none. *)
LEMMA QtyType ==
  ASSUME NEW q \in Seq(Order)
  PROVE QtyOf(q) \in Int /\ (q = <<>> => QtyOf(q) = 0)
<1>1. PICK f : RunningSum(f, q)
  BY RunningSumExists, OrdersHaveQtys
<1>2. QtyOf(q) = f[Len(q)]
  BY <1>1, QtyOfIsSum, OrdersHaveQtys
<1>3. Len(q) \in 0 .. Len(q) /\ (q = <<>> => Len(q) = 0)
  BY LenProperties, EmptySeq
<1>4. QED BY <1>1, <1>2, <1>3 DEF RunningSum

(* r is q with the order at i (of q) replaced by one of another quantity
   (d = 0) or removed (d = 1). *)
LEMMA QtyPatch ==
  ASSUME NEW q \in Seq(Order), NEW r \in Seq(Order), NEW i \in 1 .. Len(q),
         NEW d \in {0, 1}, Len(r) = Len(q) - d,
         \A k \in 1 .. (i - 1) : q[k].qty = r[k].qty,
         \A k \in (i + 1) .. Len(q) : q[k].qty = r[k - d].qty
  PROVE QtyOf(r) = QtyOf(q) - q[i].qty + (IF d = 0 THEN r[i].qty ELSE 0)
<1> DEFINE n == Len(q)
           m == i - d
<1>1. PICK f : RunningSum(f, q)
  BY RunningSumExists, OrdersHaveQtys
<1>2. PICK g : RunningSum(g, r)
  BY RunningSumExists, OrdersHaveQtys
<1>3. /\ n \in Nat /\ i \in Nat /\ m \in Nat /\ i - 1 \in Nat /\ n - i \in Nat
      /\ i - 1 \in 0 .. Len(q) /\ i - 1 \in 0 .. Len(r)
      /\ i \in 1 .. Len(q)
  OBVIOUS
<1>4. SameQty(q, 0, r, 0, i - 1)
  BY <1>3 DEF SameQty
<1>5. SameQty(q, i, r, m, n - i)
  <2>1. ASSUME NEW k \in 1 .. (n - i) PROVE q[i + k].qty = r[m + k].qty
    <3>1. i + k \in (i + 1) .. Len(q) /\ (i + k) - d = m + k BY <1>3
    <3>2. QED BY <3>1
  <2>2. i + (n - i) <= Len(q) /\ m + (n - i) <= Len(r) BY <1>3
  <2>3. QED BY <1>3, <2>1, <2>2 DEF SameQty
<1>6. f[i - 1] \in Int /\ g[i - 1] = f[i - 1]
  <2>1. g[0 + (i - 1)] - g[0] = f[0 + (i - 1)] - f[0]
    BY <1>1, <1>2, <1>4, Segment
  <2>2. 0 + (i - 1) = i - 1 BY <1>3
  <2>3. f[0] = 0 /\ g[0] = 0 /\ f[i - 1] \in Int /\ g[i - 1] \in Int
    BY <1>1, <1>2, <1>3 DEF RunningSum
  <2>4. QED BY <2>1, <2>2, <2>3
<1>7. /\ f[i] \in Int /\ f[n] \in Int /\ g[m] \in Int /\ g[n - d] \in Int
      /\ g[n - d] - g[m] = f[n] - f[i]
  <2>1. i + (n - i) = n /\ m + (n - i) = n - d BY <1>3
  <2>2. QED BY <1>1, <1>2, <1>5, <2>1, Segment
<1>8. QtyOf(q) = f[n] /\ QtyOf(r) = g[n - d]
  BY <1>1, <1>2, QtyOfIsSum, OrdersHaveQtys
<1>9. f[i] = f[i - 1] + q[i].qty
  BY <1>1, <1>3 DEF RunningSum
<1>10. q[i].qty \in Int
  <2>1. q[i] \in Order BY ElementOfSeq
  <2>2. QED BY <2>1 DEF Order
<1> DEFINE z == n - d
<1> HIDE DEF z, n, m
<1>11. CASE d = 1
  <2>1. m = i - 1 BY <1>11 DEF m
  <2>2. g[z] - g[i - 1] = f[n] - f[i] BY <1>7, <2>1 DEF z
  <2>3. g[z] \in Int /\ g[i - 1] \in Int BY <1>7, <2>1 DEF z
  <2>4. g[z] = f[n] - q[i].qty + 0
    <3> DEFINE before == f[i - 1]
               fi == f[i]
               fn == f[n]
               gz == g[z]
               old == q[i].qty
    <3>1. /\ before \in Int /\ fi \in Int /\ fn \in Int /\ gz \in Int /\ old \in Int
          /\ fi = before + old /\ gz - before = fn - fi
      BY <1>6, <1>7, <1>9, <1>10, <2>2, <2>3
    <3> HIDE DEF before, fi, fn, gz, old
    <3>2. gz = fn - old + 0 BY <3>1
    <3>3. QED BY <3>2 DEF gz, fn, old
  <2>5. QtyOf(q) = f[n] /\ QtyOf(r) = g[z] BY <1>8 DEF z
  <2>6. QtyOf(r) = QtyOf(q) - q[i].qty + 0 BY <2>4, <2>5
  <2>7. QtyOf(q) - q[i].qty \in Int BY <1>7, <1>10, <2>5
  <2>8. QED BY <1>11, <2>6, <2>7
<1>12. CASE d = 0
  <2>1. i \in 1 .. Len(r) /\ m = i BY <1>3, <1>12 DEF m
  <2>2. g[i] = f[i - 1] + r[i].qty BY <1>2, <1>6, <2>1 DEF RunningSum
  <2>3. r[i].qty \in Int
    <3>1. r[i] \in Order BY <2>1, ElementOfSeq
    <3>2. QED BY <3>1 DEF Order
  <2>4. g[z] - g[i] = f[n] - f[i] /\ g[z] \in Int BY <1>7, <2>1 DEF z
  <2>5. g[z] = f[n] - q[i].qty + r[i].qty
    <3> DEFINE before == f[i - 1]
               fi == f[i]
               fn == f[n]
               gi == g[i]
               gz == g[z]
               old == q[i].qty
               new == r[i].qty
    <3>1. /\ before \in Int /\ fi \in Int /\ fn \in Int /\ gz \in Int /\ old \in Int
          /\ new \in Int /\ fi = before + old /\ gi = before + new
          /\ gz - gi = fn - fi
      BY <1>6, <1>7, <1>9, <1>10, <2>2, <2>3, <2>4
    <3> HIDE DEF before, fi, fn, gi, gz, old, new
    <3>2. gz = fn - old + new BY <3>1
    <3>3. QED BY <3>2 DEF gz, fn, old, new
  <2>6. QtyOf(q) = f[n] /\ QtyOf(r) = g[z] BY <1>8 DEF z
  <2>7. QED BY <1>12, <2>5, <2>6
<1>13. QED BY <1>11, <1>12

(* Removing the order at i. *)
LEMMA RemoveAtOrders ==
  ASSUME NEW q \in Seq(Order), NEW i \in 1 .. Len(q)
  PROVE LET r == RemoveAt(q, i)
        IN  /\ r \in Seq(Order)
            /\ Len(r) = Len(q) - 1
            /\ \A k \in 1 .. (Len(q) - 1) : r[k] = IF k < i THEN q[k] ELSE q[k + 1]
            /\ QtyOf(r) = QtyOf(q) - q[i].qty
<1> DEFINE r == RemoveAt(q, i)
           front == SubSeq(q, 1, i - 1)
           back == SubSeq(q, i + 1, Len(q))
           n == Len(q)
<1>1. n \in Nat /\ i \in Nat /\ i - 1 \in Nat /\ n - i \in Nat
  OBVIOUS
<1>2. /\ front \in Seq(Order)
      /\ Len(front) = i - 1
      /\ \A k \in 1 .. (i - 1) : front[k] = q[k]
  BY <1>1, SubSeqProperties
<1>3. /\ back \in Seq(Order)
      /\ Len(back) = n - i
      /\ \A k \in 1 .. (n - i) : back[k] = q[i + k]
  BY <1>1, SubSeqProperties
<1>4. r = front \o back
  BY DEF RemoveAt
<1> HIDE DEF r, front, back
<1>5. r \in Seq(Order) /\ Len(r) = n - 1
  BY <1>1, <1>2, <1>3, <1>4, ConcatProperties
<1>6. \A k \in 1 .. (n - 1) : r[k] = IF k <= i - 1 THEN front[k] ELSE back[k - (i - 1)]
  BY <1>1, <1>2, <1>3, <1>4, ConcatProperties
<1>7. ASSUME NEW k \in 1 .. (n - 1) PROVE r[k] = IF k < i THEN q[k] ELSE q[k + 1]
  <2>1. CASE k < i
    <3>1. k \in 1 .. (i - 1) BY <1>1, <2>1
    <3>2. QED BY <1>2, <1>6, <2>1, <3>1
  <2>2. CASE ~(k < i)
    <3>1. k - (i - 1) \in 1 .. (n - i) /\ i + (k - (i - 1)) = k + 1 /\ ~(k <= i - 1)
      BY <1>1, <2>2
    <3>2. back[k - (i - 1)] = q[k + 1] BY <1>3, <3>1
    <3>3. r[k] = back[k - (i - 1)] BY <1>6, <3>1
    <3>4. QED BY <2>2, <3>2, <3>3
  <2>3. QED BY <2>1, <2>2
<1>8. QtyOf(r) = QtyOf(q) - q[i].qty
  <2> DEFINE d == 1
  <2>1. d \in {0, 1} /\ Len(r) = Len(q) - d BY <1>5
  <2>2. \A k \in 1 .. (i - 1) : q[k].qty = r[k].qty
    <3>1. \A k \in 1 .. (i - 1) : k \in 1 .. (n - 1) /\ k < i BY <1>1
    <3>2. QED BY <1>7, <3>1
  <2>3. ASSUME NEW k \in (i + 1) .. Len(q) PROVE q[k].qty = r[k - d].qty
    <3>1. k - 1 \in 1 .. (n - 1) /\ ~(k - 1 < i) /\ (k - 1) + 1 = k BY <1>1
    <3>2. r[k - 1] = q[k] BY <1>7, <3>1
    <3>3. QED BY <3>2
  <2>4. QtyOf(r) = QtyOf(q) - q[i].qty + (IF d = 0 THEN r[i].qty ELSE 0)
    <3> HIDE DEF d
    <3>1. QED BY <1>5, <2>1, <2>2, <2>3, QtyPatch
  <2>5. QtyOf(q) \in Int BY QtyType
  <2>6. q[i].qty \in Int
    <3>1. q[i] \in Order BY ElementOfSeq
    <3>2. QED BY <3>1 DEF Order
  <2>7. QED BY <2>4, <2>5, <2>6
<1>9. QED BY <1>5, <1>7, <1>8 DEF r

(* Replacing the order at i. *)
LEMMA ReplaceOrders ==
  ASSUME NEW q \in Seq(Order), NEW i \in 1 .. Len(q), NEW o \in Order
  PROVE LET r == [q EXCEPT ![i] = o]
        IN  /\ r \in Seq(Order)
            /\ Len(r) = Len(q)
            /\ \A k \in 1 .. Len(q) : r[k] = IF k = i THEN o ELSE q[k]
            /\ QtyOf(r) = QtyOf(q) - q[i].qty + o.qty
<1> DEFINE r == [q EXCEPT ![i] = o]
<1>1. /\ r \in Seq(Order) /\ Len(r) = Len(q)
      /\ \A k \in 1 .. Len(q) : r[k] = IF k = i THEN o ELSE q[k]
  BY ExceptSeq
<1> HIDE DEF r
<1>2. QtyOf(r) = QtyOf(q) - q[i].qty + o.qty
  <2> DEFINE d == 0
  <2>1. d \in {0, 1} /\ Len(r) = Len(q) - d BY <1>1
  <2>2. \A k \in 1 .. (i - 1) : q[k].qty = r[k].qty
    <3>1. \A k \in 1 .. (i - 1) : k \in 1 .. Len(q) /\ k # i OBVIOUS
    <3>2. QED BY <1>1, <3>1
  <2>3. \A k \in (i + 1) .. Len(q) : q[k].qty = r[k - d].qty
    <3>1. \A k \in (i + 1) .. Len(q) : k \in 1 .. Len(q) /\ k # i /\ k - 0 = k OBVIOUS
    <3>2. QED BY <1>1, <3>1
  <2>4. QtyOf(r) = QtyOf(q) - q[i].qty + (IF d = 0 THEN r[i].qty ELSE 0)
    <3> HIDE DEF d
    <3>1. QED BY <1>1, <2>1, <2>2, <2>3, QtyPatch
  <2>5. r[i] = o BY <1>1
  <2>6. QED BY <2>4, <2>5
<1>3. QED BY <1>1, <1>2 DEF r

(* Appending an order. *)
LEMMA AppendOrders ==
  ASSUME NEW q \in Seq(Order), NEW o \in Order
  PROVE LET r == Append(q, o)
        IN  /\ r \in Seq(Order)
            /\ Len(r) = Len(q) + 1
            /\ \A k \in 1 .. Len(q) : r[k] = q[k]
            /\ r[Len(q) + 1] = o
            /\ QtyOf(r) = QtyOf(q) + o.qty
<1> DEFINE r == Append(q, o)
           n == Len(q)
<1>1. /\ r \in Seq(Order) /\ Len(r) = n + 1 /\ n \in Nat
      /\ \A k \in 1 .. n : r[k] = q[k]
      /\ r[n + 1] = o
  BY AppendProperties
<1>2. RemoveAt(r, n + 1) = q
  <2> DEFINE s == RemoveAt(r, n + 1)
  <2>1. n + 1 \in 1 .. Len(r) BY <1>1
  <2>2. /\ s \in Seq(Order) /\ Len(s) = Len(r) - 1
        /\ \A k \in 1 .. (Len(r) - 1) : s[k] = IF k < n + 1 THEN r[k] ELSE r[k + 1]
    <3> HIDE DEF r, n
    <3>1. QED BY <1>1, <2>1, RemoveAtOrders
  <2> HIDE DEF s, r
  <2>3. Len(s) = Len(q) BY <1>1, <2>2
  <2>4. \A k \in 1 .. Len(s) : s[k] = q[k]
    <3>1. \A k \in 1 .. Len(s) : k < n + 1 /\ k \in 1 .. n /\ k \in 1 .. (Len(r) - 1)
      BY <1>1, <2>2
    <3>2. QED BY <1>1, <2>2, <3>1
  <2>5. s = q BY <2>2, <2>3, <2>4, SeqEqual
  <2>6. QED BY <2>5 DEF s
<1>3. QtyOf(q) = QtyOf(r) - o.qty
  <2>1. n + 1 \in 1 .. Len(r) BY <1>1
  <2>2. QtyOf(RemoveAt(r, n + 1)) = QtyOf(r) - r[n + 1].qty
    <3> HIDE DEF r, n
    <3>1. QED BY <1>1, <2>1, RemoveAtOrders
  <2> HIDE DEF r, n
  <2>3. QED BY <1>1, <1>2, <2>2
<1>4. QtyOf(r) \in Int /\ QtyOf(q) \in Int /\ o.qty \in Int
  <2> HIDE DEF r
  <2>1. QED BY <1>1, QtyType DEF Order
<1>5. QtyOf(r) = QtyOf(q) + o.qty
  BY <1>3, <1>4
<1>6. QED BY <1>1, <1>5

(* Removing the order at the front. *)
LEMMA TailOrders ==
  ASSUME NEW q \in Seq(Order), q # <<>>
  PROVE /\ Head(q) \in Order /\ Head(q) = q[1] /\ 1 \in 1 .. Len(q)
        /\ Tail(q) \in Seq(Order)
        /\ Len(Tail(q)) = Len(q) - 1
        /\ \A k \in 1 .. (Len(q) - 1) : Tail(q)[k] = q[k + 1]
        /\ QtyOf(Tail(q)) = QtyOf(q) - Head(q).qty
<1>1. Len(q) \in Nat /\ Len(q) # 0
  BY EmptySeq
<1>2. /\ Head(q) \in Order /\ Head(q) = q[1] /\ 1 \in 1 .. Len(q)
      /\ Tail(q) \in Seq(Order) /\ Len(Tail(q)) = Len(q) - 1
      /\ \A k \in 1 .. (Len(q) - 1) : Tail(q)[k] = q[k + 1]
  <2>1. 1 \in 1 .. Len(q) BY <1>1
  <2>2. QED BY <1>1, <2>1, HeadTailProperties, ElementOfSeq
<1>3. RemoveAt(q, 1) = Tail(q)
  <2> DEFINE r == RemoveAt(q, 1)
  <2>1. /\ r \in Seq(Order) /\ Len(r) = Len(q) - 1
        /\ \A k \in 1 .. (Len(q) - 1) : r[k] = IF k < 1 THEN q[k] ELSE q[k + 1]
    BY <1>2, RemoveAtOrders
  <2> HIDE DEF r
  <2>2. \A k \in 1 .. Len(r) : r[k] = Tail(q)[k]
    BY <1>2, <2>1
  <2>3. Len(r) = Len(Tail(q)) BY <1>2, <2>1
  <2>4. r = Tail(q) BY <1>2, <2>1, <2>2, <2>3, SeqEqual
  <2>5. QED BY <2>4 DEF r
<1>4. QtyOf(RemoveAt(q, 1)) = QtyOf(q) - q[1].qty
  BY <1>2, RemoveAtOrders
<1>5. QED BY <1>2, <1>3, <1>4

(* Putting another order at the front. *)
LEMMA NewHeadOrders ==
  ASSUME NEW q \in Seq(Order), q # <<>>, NEW o \in Order
  PROVE LET r == <<o>> \o Tail(q)
        IN  /\ r \in Seq(Order)
            /\ Len(r) = Len(q)
            /\ \A k \in 1 .. Len(q) : r[k] = IF k = 1 THEN o ELSE q[k]
            /\ QtyOf(r) = QtyOf(q) - Head(q).qty + o.qty
<1> DEFINE r == <<o>> \o Tail(q)
           s == [q EXCEPT ![1] = o]
           t == Tail(q)
<1>1. Len(q) \in Nat /\ Head(q) = q[1] /\ 1 \in 1 .. Len(q)
  BY TailOrders
<1>2. t \in Seq(Order) /\ Len(t) = Len(q) - 1 /\ \A k \in 1 .. (Len(q) - 1) : t[k] = q[k + 1]
  BY TailOrders
<1>3. <<o>> \in Seq(Order) /\ Len(<<o>>) = 1 /\ <<o>>[1] = o
  OBVIOUS
<1> HIDE DEF t
<1>4. /\ r \in Seq(Order) /\ Len(r) = Len(q)
      /\ \A k \in 1 .. Len(q) : r[k] = IF k = 1 THEN o ELSE q[k]
  <2> DEFINE h == <<o>>
  <2>1. h \in Seq(Order) /\ Len(h) = 1 /\ h[1] = o BY <1>3
  <2> HIDE DEF h
  <2>2. /\ h \o t \in Seq(Order)
        /\ Len(h \o t) = Len(h) + Len(t)
        /\ \A k \in 1 .. Len(h) + Len(t) :
             (h \o t)[k] = IF k <= Len(h) THEN h[k] ELSE t[k - Len(h)]
    <3>1. h \in Seq(Order) /\ t \in Seq(Order) BY <1>2, <2>1
    <3>2. QED BY <3>1, ConcatProperties
  <2>3. Len(h \o t) = Len(q) BY <1>1, <1>2, <2>1, <2>2
  <2>4. ASSUME NEW k \in 1 .. Len(q) PROVE (h \o t)[k] = IF k = 1 THEN o ELSE q[k]
    <3>1. k \in 1 .. Len(h) + Len(t) BY <1>1, <1>2, <2>1
    <3>2. CASE k = 1 BY <2>1, <2>2, <3>1, <3>2
    <3>3. CASE k # 1
      <4>1. k - 1 \in 1 .. (Len(q) - 1) /\ (k - 1) + 1 = k BY <1>1, <3>3
      <4>2. t[k - 1] = q[k] BY <1>2, <4>1
      <4>3. ~(k <= Len(h)) /\ k - Len(h) = k - 1 BY <2>1, <3>3
      <4>4. (h \o t)[k] = t[k - 1] BY <2>2, <3>1, <4>3
      <4>5. QED BY <3>3, <4>2, <4>4
    <3>4. QED BY <3>2, <3>3
  <2>5. QED BY <2>2, <2>3, <2>4 DEF h, t
<1>5. /\ s \in Seq(Order) /\ Len(s) = Len(q)
      /\ \A k \in 1 .. Len(q) : s[k] = IF k = 1 THEN o ELSE q[k]
      /\ QtyOf(s) = QtyOf(q) - q[1].qty + o.qty
  BY <1>1, ReplaceOrders
<1> HIDE DEF r, s
<1>6. r = s
  <2>1. \A k \in 1 .. Len(r) : r[k] = s[k] BY <1>4, <1>5
  <2>2. Len(r) = Len(s) BY <1>4, <1>5
  <2>3. QED BY <1>4, <1>5, <2>1, <2>2, SeqEqual
<1>7. QED BY <1>1, <1>4, <1>5, <1>6 DEF r

(* A list of orders that all have something left has something left. *)
LEMMA QtyPositive ==
  ASSUME NEW q \in Seq(Order), \A k \in 1 .. Len(q) : q[k].qty > 0, q # <<>>
  PROVE QtyOf(q) > 0
<1>1. PICK f : RunningSum(f, q)
  BY RunningSumExists, OrdersHaveQtys
<1> DEFINE A == {k \in Nat : k + 1 <= Len(q) => f[k + 1] > 0}
<1>2. Len(q) \in Nat /\ Len(q) # 0
  BY EmptySeq
<1>3. ASSUME NEW k \in 1 .. Len(q)
      PROVE f[k] = f[k - 1] + q[k].qty /\ f[k] \in Int /\ f[k - 1] \in Int /\ q[k].qty \in Int
  <2>1. k \in 0 .. Len(q) /\ k - 1 \in 0 .. Len(q) BY <1>2
  <2>2. q[k] \in Order BY ElementOfSeq
  <2>3. QED BY <1>1, <2>1, <2>2 DEF RunningSum, Order
<1>4. 0 \in A
  <2>1. 1 \in 1 .. Len(q) /\ 1 - 1 = 0 /\ 0 + 1 = 1 BY <1>2
  <2>2. f[1] = f[0] + q[1].qty /\ q[1].qty \in Int /\ q[1].qty > 0 BY <1>3, <2>1
  <2>3. f[0] = 0 BY <1>1 DEF RunningSum
  <2>4. QED BY <2>1, <2>2, <2>3
<1>5. ASSUME NEW k \in Nat, k \in A PROVE k + 1 \in A
  <2> DEFINE i == k + 1
             j == (k + 1) + 1
  <2>1. SUFFICES ASSUME j <= Len(q) PROVE f[j] > 0
    OBVIOUS
  <2>2. j \in 1 .. Len(q) /\ j - 1 = i /\ i <= Len(q) BY <1>2, <2>1
  <2>3. f[i] > 0 BY <1>5, <2>2
  <2> HIDE DEF i, j
  <2>4. f[j] = f[i] + q[j].qty /\ f[i] \in Int /\ q[j].qty \in Int /\ q[j].qty > 0
    BY <1>3, <2>2
  <2>5. QED BY <2>3, <2>4
<1>6. A = Nat
  <2> HIDE DEF A
  <2>1. A \subseteq Nat BY DEF A
  <2>2. QED BY <1>4, <1>5, <2>1, InductSet
<1>7. f[Len(q)] > 0
  <2>1. Len(q) - 1 \in Nat /\ (Len(q) - 1) + 1 = Len(q) BY <1>2
  <2>2. Len(q) - 1 \in A BY <1>6, <2>1
  <2>3. QED BY <1>2, <2>1, <2>2
<1>8. QED BY <1>1, <1>7, QtyOfIsSum, OrdersHaveQtys

----------------------------------------------------------------------------
(* Sums over finite sets: SumFunctionOnSet takes the elements in an order of  *)
(* its own, which does not matter.                                            *)

Some(s) == CHOOSE x \in s : TRUE

(* One level of the recursion, from the sums h of the smaller sets. *)
SumStep(h, f, s) == IF s = {} THEN 0 ELSE f[Some(s)] + h[s \ {Some(s)}]

(* F[s] is the sum of f over s, for the subsets s of S. *)
Sums(F, f, S) == \A s \in SUBSET S : F[s] = SumStep(F, f, s)

LEMMA SomeLeft ==
  ASSUME NEW s, IsFiniteSet(s), s # {}
  PROVE /\ Some(s) \in s /\ IsFiniteSet(s \ {Some(s)})
        /\ Cardinality(s) \in Nat /\ Cardinality(s \ {Some(s)}) = Cardinality(s) - 1
        /\ Cardinality(s) > 0
<1>1. Some(s) \in s
  BY DEF Some
<1>2. Cardinality(s) \in Nat /\ Cardinality(s) # 0
  BY FS_CardinalityType, FS_EmptySet
<1>3. QED BY <1>1, <1>2, FS_RemoveElement

(* The sums are determined by f. *)
LEMMA SumsUnique ==
  ASSUME NEW f, NEW g, NEW F, NEW G, NEW S, NEW T, Sums(F, f, S), Sums(G, g, T),
         NEW r, IsFiniteSet(r), r \subseteq S, r \subseteq T, \A x \in r : f[x] = g[x]
  PROVE F[r] = G[r]
<1> DEFINE A == {k \in Nat : \A s \in SUBSET r : Cardinality(s) = k => F[s] = G[s]}
<1>1. ASSUME NEW s \in SUBSET r
      PROVE /\ IsFiniteSet(s) /\ Cardinality(s) \in Nat
            /\ F[s] = SumStep(F, f, s) /\ G[s] = SumStep(G, g, s)
  BY FS_Subset, FS_CardinalityType DEF Sums
<1>2. 0 \in A
  <2>1. ASSUME NEW s \in SUBSET r, Cardinality(s) = 0 PROVE F[s] = G[s]
    <3>1. s = {} BY <1>1, <2>1, FS_EmptySet
    <3>2. QED BY <1>1, <3>1 DEF SumStep
  <2>2. QED BY <2>1
<1>3. ASSUME NEW k \in Nat, k \in A PROVE k + 1 \in A
  <2>1. ASSUME NEW s \in SUBSET r, Cardinality(s) = k + 1 PROVE F[s] = G[s]
    <3>1. s # {} BY <2>1, FS_EmptySet
    <3> DEFINE x == Some(s)
               t == s \ {x}
    <3>2. x \in s /\ t \in SUBSET r /\ Cardinality(t) = k
      BY <1>1, <2>1, <3>1, SomeLeft
    <3>3. F[t] = G[t]
      BY <1>3, <3>2
    <3>4. f[x] = g[x]
      BY <3>2
    <3>5. F[s] = f[x] + F[t] /\ G[s] = g[x] + G[t]
      BY <1>1, <3>1 DEF SumStep
    <3>6. QED BY <3>3, <3>4, <3>5
  <2>2. QED BY <2>1
<1>4. A = Nat
  <2> HIDE DEF A
  <2>1. A \subseteq Nat BY DEF A
  <2>2. QED BY <1>2, <1>3, <2>1, InductSet
<1>5. QED BY <1>1, <1>4

(* They exist, and are integers when f's values are. *)
LEMMA SumsExist ==
  ASSUME NEW S, IsFiniteSet(S), NEW f, \A x \in S : f[x] \in Int
  PROVE \E F \in [SUBSET S -> Int] : Sums(F, f, S)
<1> DEFINE X == [SUBSET S -> Int]
           more(h) == [s \in SUBSET S |-> SumStep(h, f, s)]
           step == [h \in X |-> more(h)]
           Z == [s \in SUBSET S |-> 0]
           n == Cardinality(S)
<1>1. n \in Nat /\ \A s \in SUBSET S : IsFiniteSet(s) /\ Cardinality(s) \in Nat /\ Cardinality(s) <= n
  BY FS_Subset, FS_CardinalityType
<1> HIDE DEF n
<1>2. ASSUME NEW s \in SUBSET S, s # {}
      PROVE /\ Some(s) \in s /\ s \ {Some(s)} \in SUBSET S /\ f[Some(s)] \in Int
            /\ Cardinality(s \ {Some(s)}) = Cardinality(s) - 1 /\ Cardinality(s) > 0
  BY <1>1, <1>2, SomeLeft
<1>3. ASSUME NEW h \in X PROVE more(h) \in X
  <2>1. ASSUME NEW s \in SUBSET S PROVE SumStep(h, f, s) \in Int
    <3>1. CASE s = {} BY <3>1 DEF SumStep
    <3>2. CASE s # {}
      <4>1. f[Some(s)] \in Int /\ h[s \ {Some(s)}] \in Int BY <1>2, <3>2
      <4>2. QED BY <3>2, <4>1 DEF SumStep
    <3>3. QED BY <3>1, <3>2
  <2>2. QED BY <2>1
<1>4. PICK g : IsRun(g, X, [k \in Nat |-> step], Z)
  <2>1. Z \in X OBVIOUS
  <2>2. step \in [X -> X] BY <1>3
  <2> HIDE DEF X, step, Z
  <2>3. [k \in Nat |-> step] \in [Nat -> [X -> X]] BY <2>2
  <2>4. QED BY <2>1, <2>3, LoopRun
<1>5. g \in [Nat -> X] /\ \A k \in Nat : g[k + 1] = more(g[k])
  <2>1. g \in [Nat -> X] /\ \A k \in Nat : g[k + 1] = [j \in Nat |-> step][k][g[k]]
    BY <1>4 DEF IsRun
  <2>2. \A k \in Nat : g[k] \in X
    BY <2>1
  <2> HIDE DEF X
  <2>3. QED BY <2>1, <2>2
<1>6. \A k \in Nat, s \in SUBSET S : g[k + 1][s] = SumStep(g[k], f, s)
  BY <1>5
<1> DEFINE A == {k \in Nat : \A s \in SUBSET S : Cardinality(s) < k => g[k + 1][s] = g[k][s]}
<1>7. 0 \in A
  BY <1>1
<1>8. ASSUME NEW k \in Nat, k \in A PROVE k + 1 \in A
  <2>1. ASSUME NEW s \in SUBSET S, Cardinality(s) < k + 1 PROVE g[k + 2][s] = g[k + 1][s]
    <3>1. g[k + 2][s] = SumStep(g[k + 1], f, s) /\ g[k + 1][s] = SumStep(g[k], f, s)
      <4>1. k + 1 \in Nat /\ (k + 1) + 1 = k + 2 OBVIOUS
      <4>2. QED BY <1>6, <4>1
    <3>2. CASE s = {} BY <3>1, <3>2 DEF SumStep
    <3>3. CASE s # {}
      <4> DEFINE t == s \ {Some(s)}
      <4>1. t \in SUBSET S /\ Cardinality(t) < k
        BY <1>1, <1>2, <2>1, <3>3
      <4>2. g[k + 1][t] = g[k][t]
        BY <1>8, <4>1
      <4>3. QED BY <3>1, <3>3, <4>2 DEF SumStep
    <3>4. QED BY <3>2, <3>3
  <2>2. (k + 1) + 1 = k + 2 OBVIOUS
  <2>3. QED BY <2>1, <2>2
<1>9. A = Nat
  <2> HIDE DEF A
  <2>1. A \subseteq Nat BY DEF A
  <2>2. QED BY <1>7, <1>8, <2>1, InductSet
<1> DEFINE F == g[n + 1]
<1>10. F \in X
  <2> HIDE DEF X
  <2>1. n + 1 \in Nat BY <1>1
  <2>2. QED BY <1>5, <2>1
<1>11. ASSUME NEW s \in SUBSET S PROVE F[s] = SumStep(F, f, s)
  <2>1. F[s] = SumStep(g[n], f, s)
    BY <1>1, <1>6
  <2>2. CASE s = {} BY <2>1, <2>2 DEF SumStep
  <2>3. CASE s # {}
    <3> DEFINE t == s \ {Some(s)}
    <3>1. t \in SUBSET S /\ Cardinality(t) < n
      BY <1>1, <1>2, <2>3
    <3>2. g[n + 1][t] = g[n][t]
      BY <1>1, <1>9, <3>1
    <3>3. QED BY <2>1, <2>3, <3>2 DEF SumStep
  <2>4. QED BY <2>2, <2>3
<1> HIDE DEF F
<1>12. QED BY <1>10, <1>11 DEF Sums

LEMMA SumIs ==
  ASSUME NEW S, IsFiniteSet(S), NEW f, NEW F \in [SUBSET S -> Int], Sums(F, f, S)
  PROVE SumFunctionOnSet(f, S) = F[S]
<1> DEFINE Eqn(G) == G = [s \in SUBSET S |->
                            IF s = {} THEN 0
                            ELSE f[CHOOSE x \in s : TRUE] + G[s \ {CHOOSE x \in s : TRUE}]]
           sum == CHOOSE G : Eqn(G)
<1>1. Eqn(F)
  BY DEF Sums, SumStep, Some
<1>2. Eqn(sum)
  <2> HIDE DEF Eqn
  <2>1. QED BY <1>1
<1>3. SumFunctionOnSet(f, S) = sum[S]
  BY DEF SumFunctionOnSet, FoldFunctionOnSet, MapThenFoldSet
<1> HIDE DEF sum
<1>4. Sums(sum, f, S)
  BY <1>2 DEF Sums, SumStep, Some
<1>5. QED BY <1>3, <1>4, SumsUnique

(* Any element may be taken first. *)
AnyFirst(F, f, S) == \A s \in SUBSET S : \A a \in s : F[s] = f[a] + F[s \ {a}]

LEMMA SumsPick ==
  ASSUME NEW S, IsFiniteSet(S), NEW f, \A x \in S : f[x] \in Int,
         NEW F \in [SUBSET S -> Int], Sums(F, f, S)
  PROVE AnyFirst(F, f, S)
<1> DEFINE Good(s) == \A a \in s : F[s] = f[a] + F[s \ {a}]
           A == {k \in Nat : \A s \in SUBSET S : Cardinality(s) = k => Good(s)}
<1>1. ASSUME NEW s \in SUBSET S
      PROVE IsFiniteSet(s) /\ Cardinality(s) \in Nat /\ F[s] = SumStep(F, f, s) /\ F[s] \in Int
  BY FS_Subset, FS_CardinalityType DEF Sums
<1>2. 0 \in A
  BY <1>1, FS_EmptySet
<1>3. ASSUME NEW k \in Nat, k \in A PROVE k + 1 \in A
  <2>1. ASSUME NEW s \in SUBSET S, Cardinality(s) = k + 1, NEW a \in s
        PROVE F[s] = f[a] + F[s \ {a}]
    <3> DEFINE x == Some(s)
               t == s \ {x}
               r == s \ {a}
    <3>1. x \in s /\ t \in SUBSET S /\ Cardinality(t) = k
      BY <1>1, <2>1, SomeLeft
    <3>2. F[s] = f[x] + F[t]
      BY <1>1, <2>1 DEF SumStep
    <3>3. r \in SUBSET S /\ Cardinality(r) = k
      BY <1>1, <2>1, FS_RemoveElement
    <3>4. Good(t) /\ Good(r)
      BY <1>3, <3>1, <3>3
    <3>5. CASE x = a
      BY <3>2, <3>5
    <3>6. CASE x # a
      <4> DEFINE v == F[r \ {x}]
      <4>1. t \ {a} = r \ {x} /\ r \ {x} \in SUBSET S
        OBVIOUS
      <4>2. F[t] = f[a] + v
        <5>1. F[t] = f[a] + F[t \ {a}] BY <3>4, <3>6
        <5>2. QED BY <4>1, <5>1
      <4>3. F[r] = f[x] + v
        BY <3>1, <3>4, <3>6
      <4>4. f[a] \in Int /\ f[x] \in Int /\ v \in Int
        BY <1>1, <3>1, <4>1
      <4> HIDE DEF r, t, x, v
      <4>5. f[x] + F[t] = f[a] + F[r]
        BY <4>2, <4>3, <4>4
      <4>6. QED BY <3>2, <4>5 DEF r
    <3>7. QED BY <3>5, <3>6
  <2>2. QED BY <2>1
<1>4. A = Nat
  <2> HIDE DEF A
  <2>1. A \subseteq Nat BY DEF A
  <2>2. QED BY <1>2, <1>3, <2>1, InductSet
<1>5. QED BY <1>1, <1>4 DEF AnyFirst

LEMMA SumEmpty ==
  ASSUME NEW f
  PROVE SumFunctionOnSet(f, {}) = 0
<1>1. IsFiniteSet({}) /\ {} \in SUBSET {}
  BY FS_EmptySet
<1>2. PICK F \in [SUBSET {} -> Int] : Sums(F, f, {})
  BY <1>1, SumsExist
<1>3. F[{}] = 0
  BY <1>1, <1>2 DEF Sums, SumStep
<1>4. QED BY <1>1, <1>2, <1>3, SumIs

LEMMA SumPick ==
  ASSUME NEW S, IsFiniteSet(S), NEW f, \A x \in S : f[x] \in Int, NEW a \in S
  PROVE /\ SumFunctionOnSet(f, S) \in Int /\ SumFunctionOnSet(f, S \ {a}) \in Int
        /\ SumFunctionOnSet(f, S) = f[a] + SumFunctionOnSet(f, S \ {a})
<1> DEFINE T == S \ {a}
<1>1. IsFiniteSet(T) /\ T \in SUBSET S /\ S \in SUBSET S /\ T \in SUBSET T
  BY FS_RemoveElement
<1> HIDE DEF T
<1>2. PICK F \in [SUBSET S -> Int] : Sums(F, f, S)
  BY SumsExist
<1>3. PICK G \in [SUBSET T -> Int] : Sums(G, f, T)
  BY <1>1, SumsExist
<1>4. SumFunctionOnSet(f, S) = F[S] /\ SumFunctionOnSet(f, T) = G[T]
  BY <1>1, <1>2, <1>3, SumIs
<1>5. F[T] = G[T]
  BY <1>1, <1>2, <1>3, SumsUnique
<1>6. F[S] = f[a] + F[S \ {a}]
  <2>1. AnyFirst(F, f, S) BY <1>2, SumsPick
  <2>2. QED BY <1>1, <2>1 DEF AnyFirst
<1>7. QED BY <1>1, <1>2, <1>3, <1>4, <1>5, <1>6 DEF T

LEMMA SumType ==
  ASSUME NEW S, IsFiniteSet(S), NEW f, \A x \in S : f[x] \in Int
  PROVE SumFunctionOnSet(f, S) \in Int
<1>1. CASE S = {} BY <1>1, SumEmpty
<1>2. CASE S # {} BY <1>2, SumPick
<1>3. QED BY <1>1, <1>2

(* Only the values on the set count. *)
LEMMA SumSame ==
  ASSUME NEW S, IsFiniteSet(S), NEW f, NEW g, \A x \in S : f[x] \in Int /\ g[x] = f[x]
  PROVE SumFunctionOnSet(f, S) = SumFunctionOnSet(g, S)
<1>1. PICK F \in [SUBSET S -> Int] : Sums(F, f, S)
  BY SumsExist
<1>2. PICK G \in [SUBSET S -> Int] : Sums(G, g, S)
  BY SumsExist
<1>3. F[S] = G[S]
  BY <1>1, <1>2, SumsUnique
<1>4. QED BY <1>1, <1>2, <1>3, SumIs

(* A value that grows by d lets the sum grow by d. *)
LEMMA SumGrows ==
  ASSUME NEW S, IsFiniteSet(S), NEW f, NEW g, \A x \in S : f[x] \in Int, NEW a \in S,
         NEW d \in Int, g[a] = f[a] + d, \A x \in S \ {a} : g[x] = f[x]
  PROVE SumFunctionOnSet(g, S) = SumFunctionOnSet(f, S) + d
<1> DEFINE T == S \ {a}
<1>1. \A x \in S : g[x] \in Int
  OBVIOUS
<1>2. /\ SumFunctionOnSet(f, T) \in Int
      /\ SumFunctionOnSet(f, S) = f[a] + SumFunctionOnSet(f, T)
      /\ SumFunctionOnSet(g, S) = g[a] + SumFunctionOnSet(g, T)
  BY <1>1, SumPick
<1>3. SumFunctionOnSet(f, T) = SumFunctionOnSet(g, T)
  <2>1. IsFiniteSet(T) /\ \A x \in T : f[x] \in Int /\ g[x] = f[x]
    BY FS_RemoveElement
  <2> HIDE DEF T
  <2>2. QED BY <2>1, SumSame
<1> HIDE DEF T
<1>4. f[a] \in Int
  OBVIOUS
<1>5. QED BY <1>2, <1>3, <1>4

LEMMA SumNat ==
  ASSUME NEW S, IsFiniteSet(S), NEW f, \A x \in S : f[x] \in Nat
  PROVE SumFunctionOnSet(f, S) \in Nat
<1> DEFINE A == {k \in Nat : \A s \in SUBSET S :
                   Cardinality(s) = k => SumFunctionOnSet(f, s) \in Nat}
<1>1. \A s \in SUBSET S : IsFiniteSet(s) /\ Cardinality(s) \in Nat
  BY FS_Subset, FS_CardinalityType
<1>2. 0 \in A
  BY <1>1, FS_EmptySet, SumEmpty
<1>3. ASSUME NEW k \in Nat, k \in A PROVE k + 1 \in A
  <2>1. ASSUME NEW s \in SUBSET S, Cardinality(s) = k + 1
        PROVE SumFunctionOnSet(f, s) \in Nat
    <3>1. PICK a \in s : TRUE
      BY <1>1, <2>1, FS_EmptySet
    <3>2. Cardinality(s \ {a}) = k /\ s \ {a} \in SUBSET S
      <4>1. Cardinality(s \ {a}) = Cardinality(s) - 1
        BY <1>1, <3>1, FS_RemoveElement
      <4>2. QED BY <2>1, <4>1
    <3>3. SumFunctionOnSet(f, s \ {a}) \in Nat
      BY <1>3, <3>2
    <3>4. SumFunctionOnSet(f, s) = f[a] + SumFunctionOnSet(f, s \ {a})
      BY <1>1, <3>1, SumPick
    <3>5. QED BY <3>3, <3>4
  <2>2. QED BY <2>1
<1> HIDE DEF A
<1>4. A = Nat
  <2>1. A \subseteq Nat BY DEF A
  <2>2. QED BY <1>2, <1>3, <2>1, InductSet
<1>5. QED BY <1>1, <1>4 DEF A

LEMMA SumZero ==
  ASSUME NEW S, IsFiniteSet(S), NEW f, \A x \in S : f[x] = 0
  PROVE SumFunctionOnSet(f, S) = 0
<1> DEFINE F == [s \in SUBSET S |-> 0]
<1>1. F \in [SUBSET S -> Int]
  OBVIOUS
<1>2. Sums(F, f, S)
  <2>1. ASSUME NEW s \in SUBSET S PROVE F[s] = SumStep(F, f, s)
    <3>1. CASE s = {} BY <3>1 DEF SumStep
    <3>2. CASE s # {}
      <4>1. Some(s) \in s BY <3>2 DEF Some
      <4>2. f[Some(s)] = 0 /\ F[s \ {Some(s)}] = 0 BY <4>1
      <4> HIDE DEF F
      <4>3. SumStep(F, f, s) = 0 BY <3>2, <4>2 DEF SumStep
      <4>4. QED BY <4>3 DEF F
    <3>3. QED BY <3>1, <3>2
  <2> HIDE DEF F
  <2>2. QED BY <2>1 DEF Sums
<1>3. F[S] = 0
  OBVIOUS
<1> HIDE DEF F
<1>4. QED BY <1>1, <1>2, <1>3, SumIs

----------------------------------------------------------------------------
(* Good books *)

(* What the book promises: every bid is below every ask; total_qty of a level
   is the sum of its orders, all of which have something left; a locator leads
   to a level that exists and holds an order with its id, so the iterator in it
   never dangles. *)
Uncrossed(book) ==
  \A b \in DOMAIN book.levels["Buy"], a \in DOMAIN book.levels["Sell"] : b < a

Sound(level) ==
  level.total_qty = QtyOf(level.q) /\ \A k \in 1 .. Len(level.q) : level.q[k].qty > 0

Holds(level, id) == \E k \in 1 .. Len(level.q) : level.q[k].id = id

LevelsSound(book) ==
  \A s \in Sides : \A p \in DOMAIN book.levels[s] : Sound(book.levels[s][p])

Located(book) ==
  \A id \in DOMAIN book.loc :
    LET at == book.loc[id]
    IN  /\ at.price \in DOMAIN book.levels[at.side]
        /\ Holds(book.levels[at.side][at.price], id)

GoodBook(book) ==
  IsBook(book) /\ Uncrossed(book) /\ LevelsSound(book) /\ Located(book)

(* The best price of a side is one of its levels, and none is better. *)
LEMMA BestOfLevels ==
  ASSUME NEW book, NEW side \in Sides, DOMAIN book.levels[side] \subseteq Prices,
         DOMAIN book.levels[side] # {}
  PROVE /\ Best(book, side) \in DOMAIN book.levels[side]
        /\ \A q \in DOMAIN book.levels[side] : ~Better(side, q, Best(book, side))
<1> DEFINE px == DOMAIN book.levels[side]
<1>1. px \subseteq Int /\ IsFiniteSet(px)
  BY MarketAssumption, FS_Subset
<1>2. \E p \in px : \A q \in px : ~Better(side, q, p)
  <2>1. CASE side = "Buy"
    <3>1. PICK p \in px : \A q \in px : p >= q
      BY <1>1, Extremes
    <3>2. QED BY <1>1, <2>1, <3>1 DEF Better
  <2>2. CASE side = "Sell"
    <3>1. PICK p \in px : \A q \in px : p <= q
      BY <1>1, Extremes
    <3>2. QED BY <1>1, <2>2, <3>1 DEF Better
  <2>3. QED BY <2>1, <2>2 DEF Sides
<1>3. Best(book, side) = CHOOSE p \in px : \A q \in px : ~Better(side, q, p)
  BY DEF Best
<1>4. QED BY <1>2, <1>3

(* In particular for a book. *)
LEMMA BestIsBest ==
  ASSUME NEW book, IsBook(book), NEW side \in Sides, DOMAIN book.levels[side] # {}
  PROVE /\ Best(book, side) \in DOMAIN book.levels[side]
        /\ \A q \in DOMAIN book.levels[side] : ~Better(side, q, Best(book, side))
<1>1. DOMAIN book.levels[side] \subseteq Prices
  BY DEF IsBook, IsMap
<1>2. QED BY <1>1, BestOfLevels

(* The best price is an integer, or there is none. *)
LEMMA BestType ==
  ASSUME NEW book, IsBook(book), NEW side \in Sides
  PROVE /\ Best(book, side) \in Prices \cup {None}
        /\ Best(book, side) # None => Best(book, side) \in DOMAIN book.levels[side]
        /\ Best(book, side) = None => DOMAIN book.levels[side] = {}
<1>1. CASE DOMAIN book.levels[side] = {}
  BY <1>1 DEF Best
<1>2. CASE DOMAIN book.levels[side] # {}
  <2>1. Best(book, side) \in DOMAIN book.levels[side]
    BY <1>2, BestIsBest
  <2>2. DOMAIN book.levels[side] \subseteq Prices
    BY DEF IsBook, IsMap
  <2>3. QED BY <2>1, <2>2, MarketAssumption
<1>3. QED BY <1>1, <1>2

(* Put and Erase keep a map a map. *)
LEMMA PutMap ==
  ASSUME NEW K, NEW V, NEW m, IsMap(m, K, V), NEW k \in K, NEW v \in V
  PROVE IsMap(Put(m, k, v), K, V)
BY DEF IsMap, Put

LEMMA EraseMap ==
  ASSUME NEW K, NEW V, NEW m, IsMap(m, K, V), NEW k
  PROVE IsMap(Erase(m, k), K, V) /\ DOMAIN Erase(m, k) = DOMAIN m \ {k}
BY DEF IsMap, Erase

(* The parts of a book, and a book from its parts. *)
LEMMA BookParts ==
  ASSUME NEW book, IsBook(book), NEW side \in Sides
  PROVE /\ IsMap(book.levels[side], Prices, Level)
        /\ IsMap(book.loc, Ids, Locator)
        /\ DOMAIN book.levels = Sides
        /\ \A p \in DOMAIN book.levels[side] :
             p \in Prices /\ book.levels[side][p] \in Level
BY DEF IsBook, IsMap

LEMMA MakeBook ==
  ASSUME NEW book, IsBook(book), NEW side \in Sides, NEW m, IsMap(m, Prices, Level),
         NEW loc, IsMap(loc, Ids, Locator)
  PROVE /\ IsBook([levels |-> [book.levels EXCEPT ![side] = m], loc |-> loc])
        /\ IsBook([levels |-> book.levels, loc |-> loc])
<1> DEFINE b == [levels |-> [book.levels EXCEPT ![side] = m], loc |-> loc]
<1>1. \A s \in Sides : IsMap(b.levels[s], Prices, Level)
  BY DEF IsBook
<1>2. DOMAIN b.levels = Sides /\ b.levels \in [Sides -> {b.levels[s] : s \in Sides}]
  BY DEF IsBook
<1>3. QED BY <1>1, <1>2 DEF IsBook

(* A level is replaced by, or added as, a sound one, where it crosses nothing. *)
LEMMA SetLevelGood ==
  ASSUME NEW book, GoodBook(book), NEW side \in Sides, NEW px \in Prices,
         NEW level \in Level, Sound(level),
         \A p \in DOMAIN book.levels[Opposite(side)] : Better(Opposite(side), px, p),
         NEW loc, IsMap(loc, Ids, Locator),
         \A id \in DOMAIN loc :
           IF loc[id] = [side |-> side, price |-> px] THEN Holds(level, id)
           ELSE id \in DOMAIN book.loc /\ loc[id] = book.loc[id]
  PROVE GoodBook([levels |-> SetLevel(book, side, px, level), loc |-> loc])
<1> DEFINE m == Put(book.levels[side], px, level)
           new == [levels |-> SetLevel(book, side, px, level), loc |-> loc]
<1>1. IsBook(book) /\ Uncrossed(book) /\ LevelsSound(book) /\ Located(book)
  BY DEF GoodBook
<1>2. DOMAIN book.levels = Sides
  BY <1>1, BookParts
<1>3. IsMap(m, Prices, Level) /\ DOMAIN m = DOMAIN book.levels[side] \cup {px}
  <2>1. IsMap(book.levels[side], Prices, Level) BY <1>1, BookParts
  <2>2. IsMap(m, Prices, Level) BY <2>1, PutMap
  <2>3. QED BY <2>2 DEF Put
<1>4. \A p \in DOMAIN m : m[p] = IF p = px THEN level ELSE book.levels[side][p]
  BY DEF Put
<1>5. new.levels = [book.levels EXCEPT ![side] = m] /\ new.loc = loc
  BY DEF SetLevel
<1> HIDE DEF m
<1>6. \A s \in Sides : new.levels[s] = IF s = side THEN m ELSE book.levels[s]
  BY <1>2, <1>5
<1>7. IsBook(new)
  <2>1. IsBook([levels |-> [book.levels EXCEPT ![side] = m], loc |-> loc])
    BY <1>1, <1>3, MakeBook
  <2>2. QED BY <2>1 DEF SetLevel, m
<1> HIDE DEF new
<1>8. Uncrossed(new)
  <2>1. SUFFICES ASSUME NEW b \in DOMAIN new.levels["Buy"], NEW a \in DOMAIN new.levels["Sell"]
                 PROVE b < a
    BY DEF Uncrossed
  <2>2. \A s \in Sides : DOMAIN book.levels[s] \subseteq Int
    BY <1>1, BookParts, MarketAssumption DEF IsMap
  <2>3. px \in Int BY MarketAssumption
  <2>4. CASE side = "Buy"
    <3>1. /\ b \in DOMAIN book.levels["Buy"] \cup {px}
          /\ a \in DOMAIN book.levels["Sell"]
      BY <1>3, <1>6, <2>4 DEF Sides
    <3>2. CASE b = px BY <2>2, <2>3, <2>4, <3>1, <3>2 DEF Opposite, Better, Sides
    <3>3. CASE b # px BY <1>1, <3>1, <3>3 DEF Uncrossed
    <3>4. QED BY <3>2, <3>3
  <2>5. CASE side = "Sell"
    <3>1. /\ a \in DOMAIN book.levels["Sell"] \cup {px}
          /\ b \in DOMAIN book.levels["Buy"]
      BY <1>3, <1>6, <2>5 DEF Sides
    <3>2. CASE a = px BY <2>2, <2>3, <2>5, <3>1, <3>2 DEF Opposite, Better, Sides
    <3>3. CASE a # px BY <1>1, <3>1, <3>3 DEF Uncrossed
    <3>4. QED BY <3>2, <3>3
  <2>6. QED BY <2>4, <2>5 DEF Sides
<1>9. LevelsSound(new)
  BY <1>1, <1>3, <1>4, <1>6 DEF LevelsSound
<1>10. Located(new)
  <2>1. SUFFICES ASSUME NEW id \in DOMAIN loc
                 PROVE /\ loc[id].price \in DOMAIN new.levels[loc[id].side]
                       /\ Holds(new.levels[loc[id].side][loc[id].price], id)
    BY <1>5 DEF Located
  <2>2. loc[id] \in Locator
    BY DEF IsMap
  <2>3. CASE loc[id] = [side |-> side, price |-> px]
    BY <1>3, <1>4, <1>6, <2>3
  <2>4. CASE loc[id] # [side |-> side, price |-> px]
    <3>1. id \in DOMAIN book.loc /\ loc[id] = book.loc[id]
      BY <2>4
    <3>2. /\ loc[id].price \in DOMAIN book.levels[loc[id].side]
          /\ Holds(book.levels[loc[id].side][loc[id].price], id)
      BY <1>1, <3>1 DEF Located
    <3>3. loc[id].side \in Sides /\ (loc[id].side # side \/ loc[id].price # px)
      BY <2>2, <2>4 DEF Locator
    <3>4. QED BY <1>3, <1>4, <1>6, <3>2, <3>3
  <2>5. QED BY <2>3, <2>4
<1>11. QED BY <1>7, <1>8, <1>9, <1>10 DEF GoodBook, new

(* A level goes, and with it every locator that led there. *)
LEMMA DropLevelGood ==
  ASSUME NEW book, GoodBook(book), NEW side \in Sides, NEW px,
         NEW loc, IsMap(loc, Ids, Locator),
         \A id \in DOMAIN loc :
           /\ id \in DOMAIN book.loc /\ loc[id] = book.loc[id]
           /\ loc[id] # [side |-> side, price |-> px]
  PROVE GoodBook([levels |-> DropLevel(book, side, px), loc |-> loc])
<1> DEFINE m == Erase(book.levels[side], px)
           new == [levels |-> DropLevel(book, side, px), loc |-> loc]
<1>1. IsBook(book) /\ Uncrossed(book) /\ LevelsSound(book) /\ Located(book)
  BY DEF GoodBook
<1>2. DOMAIN book.levels = Sides
  BY <1>1, BookParts
<1>3. IsMap(m, Prices, Level) /\ DOMAIN m = DOMAIN book.levels[side] \ {px}
  BY <1>1, BookParts, EraseMap
<1>4. \A p \in DOMAIN m : m[p] = book.levels[side][p]
  BY DEF Erase
<1>5. new.levels = [book.levels EXCEPT ![side] = m] /\ new.loc = loc
  BY DEF DropLevel
<1>6. IsBook(new)
  <2> HIDE DEF m
  <2>1. IsBook([levels |-> [book.levels EXCEPT ![side] = m], loc |-> loc])
    BY <1>1, <1>3, MakeBook
  <2>2. QED BY <2>1 DEF DropLevel, m
<1> HIDE DEF m, new
<1>7. \A s \in Sides : new.levels[s] = IF s = side THEN m ELSE book.levels[s]
  BY <1>2, <1>5
<1>8. \A s \in Sides : DOMAIN new.levels[s] \subseteq DOMAIN book.levels[s]
  BY <1>3, <1>7
<1>9. \A s \in Sides : \A p \in DOMAIN new.levels[s] : new.levels[s][p] = book.levels[s][p]
  BY <1>4, <1>7
<1>10. Uncrossed(new)
  BY <1>1, <1>8 DEF Uncrossed, Sides
<1>11. LevelsSound(new)
  BY <1>1, <1>8, <1>9 DEF LevelsSound
<1>12. Located(new)
  <2>1. SUFFICES ASSUME NEW id \in DOMAIN loc
                 PROVE /\ loc[id].price \in DOMAIN new.levels[loc[id].side]
                       /\ Holds(new.levels[loc[id].side][loc[id].price], id)
    BY <1>5 DEF Located
  <2>2. loc[id] \in Locator
    BY DEF IsMap
  <2>3. /\ loc[id].price \in DOMAIN book.levels[loc[id].side]
        /\ Holds(book.levels[loc[id].side][loc[id].price], id)
    BY <1>1 DEF Located
  <2>4. loc[id].side \in Sides /\ (loc[id].side # side \/ loc[id].price # px)
    BY <2>2 DEF Locator
  <2>5. loc[id].price \in DOMAIN new.levels[loc[id].side]
    BY <1>3, <1>7, <2>3, <2>4
  <2>6. QED BY <1>9, <2>3, <2>4, <2>5
<1>13. QED BY <1>6, <1>10, <1>11, <1>12 DEF GoodBook, new

(* An existing level crosses nothing. *)
LEMMA LevelCrossesNothing ==
  ASSUME NEW book, GoodBook(book), NEW side \in Sides, NEW px \in DOMAIN book.levels[side]
  PROVE /\ px \in Prices
        /\ \A p \in DOMAIN book.levels[Opposite(side)] : Better(Opposite(side), px, p)
<1>1. IsBook(book) /\ Uncrossed(book)
  BY DEF GoodBook
<1>2. px \in Prices
  BY <1>1, BookParts
<1>3. \A s \in Sides : DOMAIN book.levels[s] \subseteq Int
  BY <1>1, BookParts, MarketAssumption DEF IsMap
<1>4. CASE side = "Buy"
  BY <1>1, <1>2, <1>3, <1>4 DEF Uncrossed, Opposite, Better, Sides
<1>5. CASE side = "Sell"
  BY <1>1, <1>2, <1>3, <1>5 DEF Uncrossed, Opposite, Better, Sides
<1>6. QED BY <1>2, <1>4, <1>5 DEF Sides

(* The node of a locator: an order with that id. *)
LEMMA NodeIsThere ==
  ASSUME NEW q \in Seq(Order), NEW id, \E k \in 1 .. Len(q) : q[k].id = id
  PROVE Node(q, id) \in 1 .. Len(q) /\ q[Node(q, id)].id = id
<1> DEFINE T == {k \in 1 .. Len(q) : q[k].id = id}
<1>1. T \subseteq Int /\ T # {}
  OBVIOUS
<1>2. IsFiniteSet(T)
  <2>1. IsFiniteSet(1 .. Len(q)) BY FS_Interval, LenProperties
  <2>2. QED BY <2>1, FS_Subset
<1>3. PICK i \in T : \A j \in T : i >= j
  <2> HIDE DEF T
  <2>1. QED BY <1>1, <1>2, Extremes
<1>4. DOMAIN q = 1 .. Len(q)
  BY LenProperties
<1>5. \E n \in DOMAIN q : q[n].id = id /\ \A m \in DOMAIN q : q[m].id = id => m <= n
  BY <1>3, <1>4
<1>6. QED BY <1>4, <1>5 DEF Node

(* add_resting_limit, also of an order whose id is in the book already. *)
THEOREM AddGood ==
  ASSUME NEW book, GoodBook(book), NEW o \in Order
  PROVE GoodBook(AddRestingLimit(book, o).book)
<1> DEFINE level == IF o.price \in DOMAIN book.levels[o.side]
                    THEN book.levels[o.side][o.price] ELSE EmptyLevel
           grown == [q |-> Append(level.q, o), total_qty |-> level.total_qty + o.qty]
           place == [side |-> o.side, price |-> o.price]
           loc == Put(book.loc, o.id, place)
           new == [levels |-> SetLevel(book, o.side, o.price, grown), loc |-> loc]
<1>1. CASE o.type # "Limit" \/ o.qty <= 0 \/ WouldCross(book, o)
  BY <1>1 DEF AddRestingLimit, Failed
<1>2. CASE ~(o.type # "Limit" \/ o.qty <= 0 \/ WouldCross(book, o))
  <2>1. IsBook(book) /\ LevelsSound(book) /\ Located(book) BY DEF GoodBook
  <2>2. /\ o.side \in Sides /\ Opposite(o.side) \in Sides /\ o.price \in Prices
        /\ o.qty \in Int /\ o.qty > 0 /\ o.id \in Ids
    BY <1>2 DEF Order, Opposite, Sides
  <2>3. level \in Level /\ Sound(level)
    <3>1. CASE o.price \in DOMAIN book.levels[o.side]
      BY <2>1, <2>2, <3>1, BookParts DEF LevelsSound
    <3>2. CASE o.price \notin DOMAIN book.levels[o.side]
      <4>1. <<>> \in Seq(Order) /\ Len(<<>>) = 0 OBVIOUS
      <4>2. QtyOf(<<>>) = 0 BY <4>1, QtyType
      <4>3. QED BY <3>2, <4>1, <4>2 DEF EmptyLevel, Level, Sound
    <3>3. QED BY <3>1, <3>2
  <2>4. /\ level.q \in Seq(Order) /\ level.total_qty = QtyOf(level.q)
        /\ level.total_qty \in Int
        /\ \A k \in 1 .. Len(level.q) : level.q[k].qty > 0
    <3> HIDE DEF level
    <3>1. QED BY <2>3 DEF Level, Sound
  <2> DEFINE q == Append(level.q, o)
  <2>5. /\ q \in Seq(Order) /\ Len(q) = Len(level.q) + 1
        /\ \A k \in 1 .. Len(level.q) : q[k] = level.q[k]
        /\ q[Len(level.q) + 1] = o
        /\ QtyOf(q) = QtyOf(level.q) + o.qty
    <3> HIDE DEF level
    <3>1. QED BY <2>4, AppendOrders
  <2>6. Len(level.q) \in Nat BY <2>4, LenProperties
  <2>7. grown.q = q /\ grown.total_qty = level.total_qty + o.qty OBVIOUS
  <2>8. grown \in Level /\ Sound(grown)
    <3> HIDE DEF level, q
    <3>1. grown \in Level BY <2>2, <2>4, <2>5, <2>7 DEF Level, q
    <3>2. \A k \in 1 .. Len(q) : q[k].qty > 0
      <4>1. \A k \in 1 .. Len(q) : k \in 1 .. Len(level.q) \/ k = Len(level.q) + 1
        BY <2>5, <2>6
      <4>2. QED BY <2>2, <2>4, <2>5, <4>1
    <3>3. QED BY <2>4, <2>5, <2>7, <3>1, <3>2 DEF Sound
  <2>9. \A p \in DOMAIN book.levels[Opposite(o.side)] : Better(Opposite(o.side), o.price, p)
    <3> DEFINE opp == Opposite(o.side)
               best == Best(book, opp)
    <3>1. /\ best # None => best \in DOMAIN book.levels[opp]
          /\ best = None => DOMAIN book.levels[opp] = {}
      BY <2>1, <2>2, BestType
    <3>2. CASE DOMAIN book.levels[opp] = {}
      BY <3>2
    <3>3. CASE DOMAIN book.levels[opp] # {}
      <4>1. best # None BY <3>1, <3>3
      <4>2. ~Allows(o.side, o.price, best) BY <1>2, <4>1 DEF WouldCross
      <4>3. \A p \in DOMAIN book.levels[opp] : ~Better(opp, p, best)
        BY <2>1, <2>2, <3>3, BestIsBest
      <4>4. o.price \in Int /\ best \in Int /\ DOMAIN book.levels[opp] \subseteq Int
        <5>1. DOMAIN book.levels[opp] \subseteq Prices
          BY <2>1, <2>2, BookParts DEF IsMap
        <5>2. QED BY <2>2, <3>1, <4>1, <5>1, MarketAssumption
      <4> HIDE DEF best
      <4>5. CASE o.side = "Buy"
        BY <4>2, <4>3, <4>4, <4>5 DEF Allows, Better, Opposite
      <4>6. CASE o.side = "Sell"
        BY <4>2, <4>3, <4>4, <4>6 DEF Allows, Better, Opposite
      <4>7. QED BY <2>2, <4>5, <4>6 DEF Sides
    <3>4. QED BY <3>2, <3>3
  <2>10. IsMap(loc, Ids, Locator) /\ DOMAIN loc = DOMAIN book.loc \cup {o.id}
    <3>1. place \in Locator BY <2>2 DEF Locator
    <3>2. IsMap(book.loc, Ids, Locator) BY <2>1, <2>2, BookParts
    <3> DEFINE id == o.id
               m == book.loc
    <3>3. id \in Ids /\ IsMap(m, Ids, Locator) BY <2>2, <3>2
    <3> HIDE DEF place, id, m
    <3>4. IsMap(Put(m, id, place), Ids, Locator)
      BY <3>1, <3>3, PutMap
    <3>5. DOMAIN Put(m, id, place) = DOMAIN m \cup {id}
      BY DEF Put
    <3>6. QED BY <3>4, <3>5 DEF id, m
  <2>11. ASSUME NEW id \in DOMAIN loc
         PROVE IF loc[id] = place THEN Holds(grown, id)
               ELSE id \in DOMAIN book.loc /\ loc[id] = book.loc[id]
    <3>1. CASE id = o.id
      <4>1. loc[id] = place BY <3>1 DEF Put
      <4>2. Len(q) \in 1 .. Len(q) /\ q[Len(q)].id = id
        <5> HIDE DEF level, q
        <5>1. QED BY <2>5, <2>6, <3>1
      <4>3. Holds(grown, id) BY <2>7, <4>2 DEF Holds
      <4>4. QED BY <4>1, <4>3
    <3>2. CASE id # o.id
      <4>1. id \in DOMAIN book.loc /\ loc[id] = book.loc[id]
        BY <2>10, <3>2 DEF Put
      <4>2. CASE loc[id] = place
        <5>1. /\ o.price \in DOMAIN book.levels[o.side]
              /\ Holds(book.levels[o.side][o.price], id)
          BY <2>1, <4>1, <4>2 DEF Located
        <5>2. level = book.levels[o.side][o.price] BY <5>1
        <5>3. PICK k \in 1 .. Len(level.q) : level.q[k].id = id
          BY <5>1, <5>2 DEF Holds
        <5>4. k \in 1 .. Len(q) /\ q[k].id = id
          <6> HIDE DEF level, q
          <6>1. QED BY <2>5, <2>6, <5>3
        <5>5. QED BY <2>7, <4>2, <5>4 DEF Holds
      <4>3. CASE loc[id] # place
        BY <4>1, <4>3
      <4>4. QED BY <4>2, <4>3
    <3>3. QED BY <3>1, <3>2
  <2>12. GoodBook(new)
    <3> DEFINE side == o.side
               px == o.price
    <3>1. side \in Sides /\ px \in Prices BY <2>2
    <3>2. \A p \in DOMAIN book.levels[Opposite(side)] : Better(Opposite(side), px, p)
      BY <2>9
    <3>3. \A id \in DOMAIN loc :
            IF loc[id] = [side |-> side, price |-> px] THEN Holds(grown, id)
            ELSE id \in DOMAIN book.loc /\ loc[id] = book.loc[id]
      BY <2>11
    <3> HIDE DEF grown, loc, side, px
    <3>4. GoodBook([levels |-> SetLevel(book, side, px, grown), loc |-> loc])
      BY <2>8, <2>10, <3>1, <3>2, <3>3, SetLevelGood
    <3>5. QED BY <3>4 DEF side, px
  <2>13. AddRestingLimit(book, o).book = new
    BY <1>2 DEF AddRestingLimit, Done
  <2>14. QED BY <2>12, <2>13
<1>3. QED BY <1>1, <1>2

(* cancel: whatever the id, the book stays good. *)
THEOREM CancelGood ==
  ASSUME NEW book, GoodBook(book), NEW id
  PROVE GoodBook(Cancel(book, id).book)
<1> DEFINE at == book.loc[id]
           level == book.levels[at.side][at.price]
           i == Node(level.q, id)
           rest == [q |-> RemoveAt(level.q, i), total_qty |-> level.total_qty - level.q[i].qty]
           loc == Erase(book.loc, id)
<1>1. IsBook(book) /\ LevelsSound(book) /\ Located(book)
  BY DEF GoodBook
<1>2. CASE id \notin DOMAIN book.loc
  BY <1>2 DEF Cancel, Failed
<1>3. CASE id \in DOMAIN book.loc
  <2>1. at \in Locator /\ at.side \in Sides
    BY <1>1, <1>3 DEF IsBook, IsMap, Locator
  <2>2. at.price \in DOMAIN book.levels[at.side] /\ Holds(level, id)
    BY <1>1, <1>3 DEF Located
  <2>3. level \in Level /\ Sound(level)
    BY <1>1, <2>1, <2>2, BookParts DEF LevelsSound
  <2>4. CancelFound(book, id) =
          [levels |-> IF rest.q = <<>> THEN DropLevel(book, at.side, at.price)
                      ELSE SetLevel(book, at.side, at.price, rest),
           loc |-> loc]
    BY DEF CancelFound
  <2>5. Cancel(book, id).book = CancelFound(book, id)
    BY <1>3, <2>2 DEF Cancel, HasLevel, Done
  <2>6. IsMap(loc, Ids, Locator) /\ DOMAIN loc = DOMAIN book.loc \ {id}
    <3>1. IsMap(book.loc, Ids, Locator) BY <1>1 DEF IsBook
    <3>2. QED BY <3>1, EraseMap
  <2>7. \A j \in DOMAIN loc : j # id /\ j \in DOMAIN book.loc /\ loc[j] = book.loc[j]
    BY <2>6 DEF Erase
  <2>8. at = [side |-> at.side, price |-> at.price]
    BY <2>1 DEF Locator
  <2> HIDE DEF loc
  <2> DEFINE q == level.q
             r == RemoveAt(q, i)
  <2>9. /\ q \in Seq(Order) /\ level.total_qty = QtyOf(q) /\ QtyOf(q) \in Int
        /\ \A k \in 1 .. Len(q) : q[k].qty > 0
        /\ \E k \in 1 .. Len(q) : q[k].id = id
        /\ Len(q) \in Nat
    <3> HIDE DEF level
    <3>1. q \in Seq(Order) /\ level.total_qty \in Int BY <2>3 DEF Level
    <3>2. QED BY <2>2, <2>3, <3>1, LenProperties DEF Sound, Holds
  <2>10. i \in 1 .. Len(q) /\ q[i].id = id
    <3> HIDE DEF q
    <3>1. Node(q, id) \in 1 .. Len(q) /\ q[Node(q, id)].id = id BY <2>9, NodeIsThere
    <3>2. QED BY <3>1 DEF q
  <2>11. /\ r \in Seq(Order) /\ Len(r) = Len(q) - 1
         /\ \A k \in 1 .. (Len(q) - 1) : r[k] = IF k < i THEN q[k] ELSE q[k + 1]
         /\ QtyOf(r) = QtyOf(q) - q[i].qty
    <3> HIDE DEF q, i
    <3>1. QED BY <2>9, <2>10, RemoveAtOrders
  <2>12. q[i].qty \in Int
    <3> HIDE DEF q, i
    <3>1. q[i] \in Order BY <2>9, <2>10, ElementOfSeq
    <3>2. QED BY <3>1 DEF Order
  <2>13. rest.q = r /\ rest.total_qty = level.total_qty - q[i].qty
    OBVIOUS
  <2>14. rest \in Level /\ Sound(rest)
    <3>1. rest.total_qty \in Int /\ rest.total_qty = QtyOf(r)
      <4> HIDE DEF q, i, r, rest, level
      <4>1. QED BY <2>9, <2>11, <2>12, <2>13
    <3>2. rest \in Level
      <4>1. rest = [q |-> rest.q, total_qty |-> rest.total_qty] OBVIOUS
      <4> HIDE DEF rest, q, r
      <4>2. QED BY <2>11, <2>13, <3>1, <4>1 DEF Level
    <3> HIDE DEF q, i, r, rest
    <3>3. ASSUME NEW k \in 1 .. Len(r) PROVE r[k].qty > 0
      <4>1. /\ k \in 1 .. (Len(q) - 1) /\ k \in 1 .. Len(q) /\ k + 1 \in 1 .. Len(q)
        BY <2>9, <2>11
      <4>2. QED BY <2>9, <2>11, <4>1
    <3>4. QED BY <2>13, <3>1, <3>2, <3>3 DEF Sound
  (* Another order that was there is still there. *)
  <2>15. ASSUME NEW j \in DOMAIN loc, loc[j] = at PROVE Holds(rest, j)
    <3>1. j # id /\ j \in DOMAIN book.loc /\ book.loc[j] = at BY <2>7, <2>15
    <3>2. Holds(level, j) BY <1>1, <3>1 DEF Located
    <3>3. PICK k \in 1 .. Len(q) : q[k].id = j BY <3>2 DEF Holds
    <3> HIDE DEF q, i, r, rest, level
    <3>4. k # i BY <2>10, <3>1, <3>3
    <3>5. CASE k < i
      <4>1. k \in 1 .. Len(r) /\ r[k] = q[k] BY <2>9, <2>10, <2>11, <3>5
      <4>2. QED BY <2>13, <3>3, <4>1 DEF Holds
    <3>6. CASE k > i
      <4>1. k - 1 \in 1 .. (Len(q) - 1) /\ ~(k - 1 < i) /\ (k - 1) + 1 = k
        BY <2>9, <2>10, <3>6
      <4>2. k - 1 \in 1 .. Len(r) /\ r[k - 1] = q[k] BY <2>11, <4>1
      <4>3. QED BY <2>13, <3>3, <4>2 DEF Holds
    <3>7. QED BY <2>10, <3>4, <3>5, <3>6
  <2> HIDE DEF rest, at, level
  <2>16. CASE rest.q = <<>>
    <3>1. \A j \in DOMAIN loc : loc[j] # at
      <4>1. Len(rest.q) = 0 BY <2>16
      <4>2. \A j : ~Holds(rest, j) BY <4>1 DEF Holds
      <4>3. QED BY <2>15, <4>2
    <3>2. GoodBook([levels |-> DropLevel(book, at.side, at.price), loc |-> loc])
      BY <2>1, <2>6, <2>7, <2>8, <3>1, DropLevelGood
    <3>3. QED BY <2>4, <2>5, <2>16, <3>2
  <2>17. CASE rest.q # <<>>
    <3> DEFINE side == at.side
               px == at.price
    <3>1. side \in Sides /\ px \in DOMAIN book.levels[side] BY <2>1, <2>2
    <3>2. \A j \in DOMAIN loc :
            IF loc[j] = [side |-> side, price |-> px] THEN Holds(rest, j)
            ELSE j \in DOMAIN book.loc /\ loc[j] = book.loc[j]
      BY <2>7, <2>8, <2>15
    <3> HIDE DEF side, px
    <3>3. /\ px \in Prices
          /\ \A p \in DOMAIN book.levels[Opposite(side)] : Better(Opposite(side), px, p)
      BY <3>1, LevelCrossesNothing
    <3>4. GoodBook([levels |-> SetLevel(book, side, px, rest), loc |-> loc])
      BY <2>6, <2>14, <3>1, <3>2, <3>3, SetLevelGood
    <3>5. QED BY <2>4, <2>5, <2>17, <3>4 DEF side, px
  <2>18. QED BY <2>16, <2>17
<1>4. QED BY <1>2, <1>3

(* modify_qty, for any id and any quantity. *)
THEOREM ModifyGood ==
  ASSUME NEW book, GoodBook(book), NEW id, NEW new_qty \in Int
  PROVE GoodBook(ModifyQty(book, id, new_qty).book)
<1> DEFINE at == book.loc[id]
           level == book.levels[at.side][at.price]
           i == Node(level.q, id)
           old == level.q[i]
           less == [q |-> [level.q EXCEPT ![i] = [old EXCEPT !.qty = new_qty]],
                    total_qty |-> level.total_qty - (old.qty - new_qty)]
<1>1. IsBook(book) /\ LevelsSound(book) /\ Located(book)
  BY DEF GoodBook
<1>2. CASE new_qty <= 0
  <2>1. ModifyQty(book, id, new_qty).book = Cancel(book, id).book BY <1>2 DEF ModifyQty
  <2>2. QED BY <2>1, CancelGood
<1>3. CASE new_qty > 0 /\ id \notin DOMAIN book.loc
  BY <1>3 DEF ModifyQty, Failed
<1>4. CASE new_qty > 0 /\ id \in DOMAIN book.loc
  <2>1. at \in Locator /\ at.side \in Sides
    BY <1>1, <1>4 DEF IsBook, IsMap, Locator
  <2>2. at.price \in DOMAIN book.levels[at.side] /\ Holds(level, id)
    BY <1>1, <1>4 DEF Located
  <2>3. level \in Level /\ Sound(level)
    BY <1>1, <2>1, <2>2, BookParts DEF LevelsSound
  <2>4. ModifyQty(book, id, new_qty) =
          IF old.qty <= 0 \/ new_qty > old.qty THEN Failed(book)
          ELSE Done([levels |-> SetLevel(book, at.side, at.price, less), loc |-> book.loc])
    <3>1. ModifyQty(book, id, new_qty) = Reduced(book, id, new_qty)
      BY <1>4, <2>2 DEF ModifyQty, HasLevel
    <3>2. QED BY <3>1, Zenon DEF Reduced
  <2>5. at = [side |-> at.side, price |-> at.price]
    BY <2>1 DEF Locator
  <2>6. IsMap(book.loc, Ids, Locator)
    BY <1>1 DEF IsBook
  <2> DEFINE q == level.q
             o == [old EXCEPT !.qty = new_qty]
             r == [q EXCEPT ![i] = o]
  <2>7. /\ q \in Seq(Order) /\ level.total_qty = QtyOf(q) /\ QtyOf(q) \in Int
        /\ \A k \in 1 .. Len(q) : q[k].qty > 0
        /\ \E k \in 1 .. Len(q) : q[k].id = id
        /\ Len(q) \in Nat
    <3> HIDE DEF level
    <3>1. q \in Seq(Order) /\ level.total_qty \in Int BY <2>3 DEF Level
    <3>2. QED BY <2>2, <2>3, <3>1, LenProperties DEF Sound, Holds
  <2>8. i \in 1 .. Len(q)
    <3> HIDE DEF q
    <3>1. Node(q, id) \in 1 .. Len(q) BY <2>7, NodeIsThere
    <3>2. QED BY <3>1 DEF q
  <2>9. q[i] \in Order /\ old = q[i]
    <3> HIDE DEF q, i
    <3>1. q[i] \in Order BY <2>7, <2>8, ElementOfSeq
    <3>2. QED BY <3>1 DEF q, i
  <2>10. o \in Order /\ o.qty = new_qty /\ o.id = old.id /\ old.qty \in Int
    <3> HIDE DEF old
    <3>1. old \in Order BY <2>9
    <3>2. QED BY <3>1 DEF Order
  <2>11. /\ r \in Seq(Order) /\ Len(r) = Len(q)
         /\ \A k \in 1 .. Len(q) : r[k] = IF k = i THEN o ELSE q[k]
         /\ QtyOf(r) = QtyOf(q) - q[i].qty + o.qty
    <3> HIDE DEF q, i, o
    <3>1. q \in Seq(Order) /\ o \in Order BY <2>7, <2>10
    <3>2. i \in 1 .. Len(q) BY <2>8
    <3>3. QED BY <3>1, <3>2, ReplaceOrders
  <2>12. less.q = r /\ less.total_qty = level.total_qty - (old.qty - new_qty)
    OBVIOUS
  <2> HIDE DEF q, i, o, r, old
  <2>13. less \in Level /\ Sound(less)
    <3>1. less.total_qty \in Int /\ less.total_qty = QtyOf(r)
      <4> HIDE DEF level, less
      <4>1. QtyOf(r) = QtyOf(q) - old.qty + new_qty BY <2>9, <2>10, <2>11
      <4>2. less.total_qty = QtyOf(q) - (old.qty - new_qty) BY <2>7, <2>12
      <4>3. QED BY <2>7, <2>10, <4>1, <4>2
    <3>2. less = [q |-> less.q, total_qty |-> less.total_qty] OBVIOUS
    <3> HIDE DEF less, level
    <3>3. less \in Level BY <2>11, <2>12, <3>1, <3>2 DEF Level
    <3>4. \A k \in 1 .. Len(r) : r[k].qty > 0
      BY <1>4, <2>7, <2>10, <2>11
    <3>5. QED BY <2>12, <3>1, <3>3, <3>4 DEF Sound
  <2>14. ASSUME NEW j \in DOMAIN book.loc, book.loc[j] = at PROVE Holds(less, j)
    <3>1. Holds(level, j) BY <1>1, <2>14 DEF Located
    <3>2. PICK k \in 1 .. Len(q) : q[k].id = j BY <3>1 DEF Holds, q
    <3>3. r[k].id = j /\ k \in 1 .. Len(r) BY <2>9, <2>10, <2>11, <3>2
    <3> HIDE DEF less
    <3>4. QED BY <2>12, <3>3 DEF Holds
  <2> DEFINE side == at.side
             px == at.price
  <2>15. side \in Sides /\ px \in DOMAIN book.levels[side] BY <2>1, <2>2
  <2>16. \A j \in DOMAIN book.loc :
          IF book.loc[j] = [side |-> side, price |-> px] THEN Holds(less, j)
          ELSE j \in DOMAIN book.loc /\ book.loc[j] = book.loc[j]
    BY <2>5, <2>14
  <2> HIDE DEF side, px, less
  <2>17. /\ px \in Prices
         /\ \A p \in DOMAIN book.levels[Opposite(side)] : Better(Opposite(side), px, p)
    BY <2>15, LevelCrossesNothing
  <2>18. GoodBook([levels |-> SetLevel(book, side, px, less), loc |-> book.loc])
    BY <2>6, <2>13, <2>15, <2>16, <2>17, SetLevelGood
  <2>19. QED BY <2>4, <2>18 DEF side, px, Failed, Done
<1>5. QED BY <1>2, <1>3, <1>4

(* The empty book. *)
LEMMA EmptyGood == GoodBook(EmptyBook)
<1>1. /\ DOMAIN EmptyMap = {}
      /\ EmptyBook.levels = [s \in Sides |-> EmptyMap] /\ EmptyBook.loc = EmptyMap
      /\ EmptyBook = [levels |-> EmptyBook.levels, loc |-> EmptyBook.loc]
  BY DEF EmptyBook, EmptyMap
<1>2. IsMap(EmptyMap, Prices, Level) /\ IsMap(EmptyMap, Ids, Locator)
  BY DEF EmptyMap, IsMap
<1>3. \A s \in Sides : EmptyBook.levels[s] = EmptyMap
  BY <1>1
<1>4. EmptyBook \in [levels : {EmptyBook.levels}, loc : {EmptyBook.loc}]
  BY <1>1
<1>5. EmptyBook.levels \in [Sides -> {EmptyBook.levels[s] : s \in Sides}]
  BY <1>1
<1>6. IsBook(EmptyBook)
  BY <1>1, <1>2, <1>3, <1>4, <1>5 DEF IsBook
<1>7. Uncrossed(EmptyBook) /\ LevelsSound(EmptyBook) /\ Located(EmptyBook)
  BY <1>1, <1>3 DEF Uncrossed, LevelsSound, Located, Sides
<1>8. QED BY <1>6, <1>7 DEF GoodBook

----------------------------------------------------------------------------
(* One place for every order *)

(* No two positions of a list hold the same id; two sets of orders share none. *)
Distinct(q) == \A i, j \in 1 .. Len(q) : q[i].id = q[j].id => i = j
Apart(A, B) == \A a \in A, b \in B : a.id # b.id

(* o belongs to the level at px of the side, and its locator says so. *)
InPlace(o, side, px, loc) ==
  /\ o.type = "Limit" /\ o.side = side /\ o.price = px
  /\ o.id \in DOMAIN loc /\ loc[o.id] = [side |-> side, price |-> px]

TidyLevel(level, side, px, loc) ==
  /\ level.q # <<>> /\ Distinct(level.q)
  /\ \A k \in 1 .. Len(level.q) : InPlace(level.q[k], side, px, loc)

(* A good book without empty levels, in which the locators are exactly the
   resting orders, each once. *)
Tidy(book) ==
  /\ GoodBook(book)
  /\ \A s \in Sides : \A p \in DOMAIN book.levels[s] :
       TidyLevel(book.levels[s][p], s, p, book.loc)

----------------------------------------------------------------------------
(* Lists of orders as sets *)

LEMMA RangeIs ==
  ASSUME NEW q \in Seq(Order)
  PROVE /\ Range(q) = {q[k] : k \in 1 .. Len(q)} /\ Range(q) \subseteq Order
        /\ Len(q) \in Nat /\ DOMAIN q = 1 .. Len(q)
<1>1. DOMAIN q = 1 .. Len(q) /\ Len(q) \in Nat
  BY LenProperties
<1>2. \A k \in 1 .. Len(q) : q[k] \in Order
  BY ElementOfSeq
<1>3. QED BY <1>1, <1>2 DEF Range

LEMMA EmptyRange ==
  ASSUME NEW q, q = <<>>
  PROVE q \in Seq(Order) /\ Range(q) = {} /\ Distinct(q)
<1>1. q \in Seq(Order) /\ Len(q) = 0
  OBVIOUS
<1>2. 1 .. Len(q) = {}
  BY <1>1
<1>3. QED BY <1>1, <1>2, RangeIs DEF Distinct

(* An order of a list without repetitions is at one position only. *)
LEMMA SameOrder ==
  ASSUME NEW q \in Seq(Order), Distinct(q), NEW a \in Range(q), NEW b \in Range(q), a.id = b.id
  PROVE a = b
BY RangeIs DEF Distinct

(* r is q without its i-th order. *)
LEMMA RemovedRange ==
  ASSUME NEW q \in Seq(Order), NEW r \in Seq(Order), NEW i \in 1 .. Len(q), Distinct(q),
         Len(r) = Len(q) - 1,
         \A k \in 1 .. (Len(q) - 1) : r[k] = IF k < i THEN q[k] ELSE q[k + 1]
  PROVE Distinct(r) /\ Range(r) \subseteq Range(q) /\ \A o \in Range(r) : o.id # q[i].id
<1> DEFINE at(k) == IF k < i THEN k ELSE k + 1
<1>1. Len(q) \in Nat
  BY RangeIs
<1>2. ASSUME NEW k \in 1 .. Len(r)
      PROVE at(k) \in 1 .. Len(q) /\ at(k) # i /\ r[k] = q[at(k)]
  <2>1. k \in 1 .. (Len(q) - 1) BY <1>1
  <2>2. QED BY <1>1, <2>1
<1>3. \A k, j \in 1 .. Len(r) : at(k) = at(j) => k = j
  BY <1>1
<1> HIDE DEF at
<1>4. Distinct(r)
  BY <1>2, <1>3 DEF Distinct
<1>5. \A k \in 1 .. Len(r) : r[k] \in Range(q) /\ r[k].id # q[i].id
  BY <1>2, RangeIs DEF Distinct
<1>6. QED BY <1>4, <1>5, RangeIs

(* r is q with another quantity for its i-th order, which is o now. *)
LEMMA ReplacedRange ==
  ASSUME NEW q \in Seq(Order), NEW r \in Seq(Order), NEW i \in 1 .. Len(q), Distinct(q),
         NEW o, o.id = q[i].id, Len(r) = Len(q),
         \A k \in 1 .. Len(q) : r[k] = IF k = i THEN o ELSE q[k]
  PROVE /\ Distinct(r) /\ o \in Range(r)
        /\ \A x \in Range(r) : x = o \/ (x \in Range(q) /\ x.id # q[i].id)
<1>1. \A k \in 1 .. Len(r) : r[k].id = q[k].id
  OBVIOUS
<1>2. Distinct(r)
  BY <1>1 DEF Distinct
<1>3. ASSUME NEW k \in 1 .. Len(r)
      PROVE r[k] = o \/ (r[k] \in Range(q) /\ r[k].id # q[i].id)
  BY RangeIs DEF Distinct
<1>4. r[i] = o
  OBVIOUS
<1>5. QED BY <1>2, <1>3, <1>4, RangeIs

(* One list after another. *)
LEMMA JoinedRange ==
  ASSUME NEW q \in Seq(Order), NEW r \in Seq(Order)
  PROVE /\ q \o r \in Seq(Order)
        /\ Range(q \o r) = Range(q) \cup Range(r)
        /\ Distinct(q) /\ Distinct(r) /\ Apart(Range(q), Range(r)) => Distinct(q \o r)
<1> DEFINE s == q \o r
<1>1. /\ s \in Seq(Order) /\ Len(s) = Len(q) + Len(r)
      /\ \A k \in 1 .. Len(q) + Len(r) : s[k] = IF k <= Len(q) THEN q[k] ELSE r[k - Len(q)]
  BY ConcatProperties
<1>2. Len(q) \in Nat /\ Len(r) \in Nat
  BY LenProperties
<1> HIDE DEF s
<1>3. ASSUME NEW k \in 1 .. Len(s)
      PROVE \/ k \in 1 .. Len(q) /\ s[k] = q[k]
            \/ k - Len(q) \in 1 .. Len(r) /\ s[k] = r[k - Len(q)]
  BY <1>1, <1>2
<1>4. Range(s) \subseteq Range(q) \cup Range(r)
  BY <1>1, <1>3, RangeIs
<1>5. Range(q) \subseteq Range(s)
  <2>1. \A k \in 1 .. Len(q) : k \in 1 .. Len(s) /\ s[k] = q[k] BY <1>1, <1>2
  <2>2. QED BY <1>1, <2>1, RangeIs
<1>6. Range(r) \subseteq Range(s)
  <2>1. ASSUME NEW k \in 1 .. Len(r)
        PROVE Len(q) + k \in 1 .. Len(s) /\ s[Len(q) + k] = r[k]
    <3> DEFINE j == Len(q) + k
    <3>1. /\ j \in 1 .. Len(q) + Len(r) /\ j \in 1 .. Len(s)
          /\ ~(j <= Len(q)) /\ j - Len(q) = k
      BY <1>1, <1>2
    <3>2. s[j] = r[j - Len(q)] BY <1>1, <3>1
    <3>3. QED BY <3>1, <3>2
  <2>2. ASSUME NEW o \in Range(r) PROVE o \in Range(s)
    <3>1. PICK k \in 1 .. Len(r) : o = r[k] BY RangeIs
    <3>2. QED BY <1>1, <2>1, <3>1, RangeIs
  <2>3. QED BY <2>2
<1>7. ASSUME Distinct(q), Distinct(r), Apart(Range(q), Range(r))
      PROVE Distinct(s)
  <2>1. SUFFICES ASSUME NEW k \in 1 .. Len(s), NEW j \in 1 .. Len(s), s[k].id = s[j].id
                 PROVE k = j
    BY DEF Distinct
  <2>2. \A a \in 1 .. Len(q), b \in 1 .. Len(r) : q[a].id # r[b].id
    BY <1>7, RangeIs DEF Apart
  <2>3. CASE k \in 1 .. Len(q) /\ s[k] = q[k] /\ j \in 1 .. Len(q) /\ s[j] = q[j]
    BY <1>7, <2>1, <2>3 DEF Distinct
  <2>4. CASE /\ k - Len(q) \in 1 .. Len(r) /\ s[k] = r[k - Len(q)]
             /\ j - Len(q) \in 1 .. Len(r) /\ s[j] = r[j - Len(q)]
    <3>1. k - Len(q) = j - Len(q) BY <1>7, <2>1, <2>4 DEF Distinct
    <3>2. QED BY <1>1, <1>2, <3>1
  <2>5. QED BY <1>3, <2>1, <2>2, <2>3, <2>4
<1>8. QED BY <1>1, <1>4, <1>5, <1>6, <1>7 DEF s

(* One order more at the end. *)
LEMMA AppendedRange ==
  ASSUME NEW q \in Seq(Order), NEW o \in Order
  PROVE /\ Append(q, o) \in Seq(Order)
        /\ Range(Append(q, o)) = Range(q) \cup {o}
        /\ Distinct(q) /\ Apart(Range(q), {o}) => Distinct(Append(q, o))
<1> DEFINE r == <<o>>
<1>1. r \in Seq(Order) /\ Len(r) = 1 /\ r[1] = o
  OBVIOUS
<1>2. Append(q, o) = q \o r
  BY AppendIsConcat
<1> HIDE DEF r
<1>3. Range(r) = {o}
  BY <1>1, RangeIs
<1>4. Distinct(r)
  BY <1>1 DEF Distinct
<1>5. QED BY <1>1, <1>2, <1>3, <1>4, JoinedRange
----------------------------------------------------------------------------
(* Places *)

(* An order rests in the book if it rests in one of its levels. *)
LEMMA RestingByLevel ==
  ASSUME NEW book, NEW o
  PROVE o \in Resting(book) <=>
          \E s \in Sides : \E p \in DOMAIN book.levels[s] : o \in Range(book.levels[s][p].q)
<1>1. ASSUME o \in Resting(book)
      PROVE \E s \in Sides : \E p \in DOMAIN book.levels[s] : o \in Range(book.levels[s][p].q)
  <2>1. PICK at \in Places(book) : o = OrderAt(book, at)
    BY <1>1 DEF Resting
  <2>2. PICK s \in Sides : \E p \in DOMAIN book.levels[s] : \E k \in DOMAIN book.levels[s][p].q :
                            at = [side |-> s, px |-> p, i |-> k]
    BY <2>1 DEF Places
  <2>3. QED BY <2>1, <2>2 DEF OrderAt, Range
<1>2. ASSUME NEW s \in Sides, NEW p \in DOMAIN book.levels[s], o \in Range(book.levels[s][p].q)
      PROVE o \in Resting(book)
  <2>1. PICK k \in DOMAIN book.levels[s][p].q : o = book.levels[s][p].q[k]
    BY <1>2 DEF Range
  <2> DEFINE at == [side |-> s, px |-> p, i |-> k]
  <2>2. at \in Places(book)
    BY DEF Places
  <2>3. OrderAt(book, at) = o
    BY <2>1 DEF OrderAt
  <2> HIDE DEF at
  <2>4. QED BY <2>2, <2>3 DEF Resting
<1>3. QED BY <1>1, <1>2

(* A level of a tidy book. *)
LEMMA LevelIs ==
  ASSUME NEW book, Tidy(book), NEW s \in Sides, NEW p \in DOMAIN book.levels[s]
  PROVE /\ book.levels[s][p].q \in Seq(Order) /\ book.levels[s][p].q # <<>>
        /\ Distinct(book.levels[s][p].q) /\ Range(book.levels[s][p].q) \subseteq Order
        /\ \A o \in Range(book.levels[s][p].q) : o.qty > 0 /\ InPlace(o, s, p, book.loc)
<1> DEFINE level == book.levels[s][p]
<1>1. IsBook(book) /\ LevelsSound(book)
  BY DEF Tidy, GoodBook
<1>2. level \in Level /\ Sound(level) /\ TidyLevel(level, s, p, book.loc)
  BY <1>1, BookParts DEF Tidy, LevelsSound
<1> HIDE DEF level
<1>3. level.q \in Seq(Order)
  BY <1>2 DEF Level
<1>4. \A k \in 1 .. Len(level.q) : level.q[k].qty > 0 /\ InPlace(level.q[k], s, p, book.loc)
  BY <1>2 DEF Sound, TidyLevel
<1>5. \A o \in Range(level.q) : o.qty > 0 /\ InPlace(o, s, p, book.loc)
  BY <1>3, <1>4, RangeIs
<1>6. QED BY <1>2, <1>3, <1>5, RangeIs DEF TidyLevel, level

(* The place of a resting order is in the order itself. *)
LEMMA RestingIs ==
  ASSUME NEW book, Tidy(book), NEW o \in Resting(book)
  PROVE /\ o \in Order /\ o.type = "Limit" /\ o.qty \in Int /\ o.qty > 0
        /\ o.side \in Sides /\ o.price \in DOMAIN book.levels[o.side]
        /\ o \in Range(book.levels[o.side][o.price].q)
        /\ o.id \in DOMAIN book.loc
        /\ book.loc[o.id] = [side |-> o.side, price |-> o.price]
<1>1. PICK s \in Sides : \E p \in DOMAIN book.levels[s] : o \in Range(book.levels[s][p].q)
  BY RestingByLevel
<1>2. PICK p \in DOMAIN book.levels[s] : o \in Range(book.levels[s][p].q)
  BY <1>1
<1>3. o \in Order /\ o.qty > 0 /\ InPlace(o, s, p, book.loc)
  BY <1>2, LevelIs
<1>4. o.side = s /\ o.price = p
  BY <1>3 DEF InPlace
<1>5. QED BY <1>2, <1>3, <1>4 DEF InPlace, Order

(* Two resting orders with the same id are the same. *)
LEMMA RestingOnce ==
  ASSUME NEW book, Tidy(book), NEW a \in Resting(book), NEW b \in Resting(book), a.id = b.id
  PROVE a = b
<1>1. book.loc[a.id] = [side |-> a.side, price |-> a.price]
  BY RestingIs
<1>2. book.loc[a.id] = [side |-> b.side, price |-> b.price]
  BY RestingIs
<1>3. a.side = b.side /\ a.price = b.price
  BY <1>1, <1>2
<1> DEFINE q == book.levels[a.side][a.price].q
<1>4. /\ a \in Range(q) /\ b \in Range(q)
      /\ a.side \in Sides /\ a.price \in DOMAIN book.levels[a.side]
  BY <1>3, RestingIs
<1>5. q \in Seq(Order) /\ Distinct(q)
  BY <1>4, LevelIs
<1> HIDE DEF q
<1>6. QED BY <1>4, <1>5, SameOrder

(* A locator leads to a resting order. *)
LEMMA LocatedRests ==
  ASSUME NEW book, Tidy(book), NEW id \in DOMAIN book.loc
  PROVE \E o \in Resting(book) :
          o.id = id /\ book.loc[id] = [side |-> o.side, price |-> o.price]
<1> DEFINE s == book.loc[id].side
           p == book.loc[id].price
           q == book.levels[s][p].q
<1>1. Located(book) /\ IsMap(book.loc, Ids, Locator)
  BY DEF Tidy, GoodBook, IsBook
<1>2. book.loc[id] \in Locator
  BY <1>1 DEF IsMap
<1>3. s \in Sides /\ p \in DOMAIN book.levels[s] /\ Holds(book.levels[s][p], id)
  BY <1>1, <1>2 DEF Located, Locator
<1>4. q \in Seq(Order)
  BY <1>3, LevelIs
<1>5. PICK k \in 1 .. Len(q) : q[k].id = id
  BY <1>3 DEF Holds
<1> DEFINE o == q[k]
<1>6. o \in Range(q)
  <2> HIDE DEF q
  <2>1. QED BY <1>4, <1>5, RangeIs
<1>7. o \in Resting(book)
  BY <1>3, <1>6, RestingByLevel
<1> HIDE DEF o
<1>8. o.id \in DOMAIN book.loc /\ book.loc[o.id] = [side |-> o.side, price |-> o.price]
  BY <1>7, RestingIs
<1>9. o.id = id
  BY <1>5 DEF o
<1>10. QED BY <1>7, <1>8, <1>9

(* A level is set, or dropped; the locators of other levels stay. *)
LEMMA SetLevelTidy ==
  ASSUME NEW book, Tidy(book), NEW side \in Sides, NEW px,
         NEW level, level.q \in Seq(Order), NEW loc,
         GoodBook([levels |-> SetLevel(book, side, px, level), loc |-> loc]),
         TidyLevel(level, side, px, loc),
         \A id \in DOMAIN book.loc : book.loc[id] # [side |-> side, price |-> px]
                                       => id \in DOMAIN loc /\ loc[id] = book.loc[id]
  PROVE LET new == [levels |-> SetLevel(book, side, px, level), loc |-> loc]
        IN  /\ Tidy(new)
            /\ \A o : o \in Resting(new) <=>
                 \/ o \in Range(level.q)
                 \/ o \in Resting(book) /\ ~(o.side = side /\ o.price = px)
<1> DEFINE new == [levels |-> SetLevel(book, side, px, level), loc |-> loc]
<1>1. DOMAIN book.levels = Sides
  BY BookParts DEF Tidy, GoodBook
<1>2. \A s \in Sides : new.levels[s] = IF s = side THEN Put(book.levels[side], px, level)
                                       ELSE book.levels[s]
  BY <1>1 DEF SetLevel
<1>3. new.loc = loc /\ GoodBook(new)
  OBVIOUS
<1> HIDE DEF new
<1>4. ASSUME NEW s \in Sides
      PROVE /\ \A p : p \in DOMAIN new.levels[s] <=>
                        p \in DOMAIN book.levels[s] \/ (s = side /\ p = px)
            /\ \A p \in DOMAIN new.levels[s] :
                 new.levels[s][p] = IF s = side /\ p = px THEN level ELSE book.levels[s][p]
  <2> DEFINE old == book.levels[s]
             now == new.levels[s]
  <2>1. CASE s = side
    <3>1. now = [x \in DOMAIN old \cup {px} |-> IF x = px THEN level ELSE old[x]]
      BY <1>2, <2>1 DEF Put
    <3> HIDE DEF now, old
    <3>2. /\ \A p : p \in DOMAIN now <=> p \in DOMAIN old \/ p = px
          /\ \A p \in DOMAIN now : now[p] = IF p = px THEN level ELSE old[p]
      BY <3>1
    <3>3. QED BY <2>1, <3>2 DEF now, old
  <2>2. CASE s # side
    <3>1. now = old BY <1>2, <2>2
    <3> HIDE DEF now, old
    <3>2. QED BY <2>2, <3>1 DEF now, old
  <2>3. QED BY <2>1, <2>2
<1>5. ASSUME NEW s \in Sides, NEW p \in DOMAIN new.levels[s]
      PROVE TidyLevel(new.levels[s][p], s, p, loc)
  <2>1. CASE s = side /\ p = px
    BY <1>4, <2>1
  <2>2. CASE ~(s = side /\ p = px)
    <3>1. p \in DOMAIN book.levels[s] /\ new.levels[s][p] = book.levels[s][p]
      BY <1>4, <2>2
    <3>2. TidyLevel(book.levels[s][p], s, p, book.loc)
      BY <3>1 DEF Tidy
    <3>3. ASSUME NEW o, InPlace(o, s, p, book.loc) PROVE InPlace(o, s, p, loc)
      <4>1. book.loc[o.id] # [side |-> side, price |-> px]
        BY <2>2, <3>3 DEF InPlace
      <4>2. QED BY <3>3, <4>1 DEF InPlace
    <3>4. QED BY <3>1, <3>2, <3>3 DEF TidyLevel
  <2>3. QED BY <2>1, <2>2
<1>6. Tidy(new)
  BY <1>3, <1>5 DEF Tidy
<1>7. \A o \in Range(level.q) : o.side = side /\ o.price = px
  <2>1. \A k \in 1 .. Len(level.q) : level.q[k].side = side /\ level.q[k].price = px
    BY DEF TidyLevel, InPlace
  <2>2. QED BY <2>1, RangeIs
<1>8. ASSUME NEW o, o \in Resting(new)
      PROVE \/ o \in Range(level.q)
            \/ o \in Resting(book) /\ ~(o.side = side /\ o.price = px)
  <2>1. /\ o.side \in Sides /\ o.price \in DOMAIN new.levels[o.side]
        /\ o \in Range(new.levels[o.side][o.price].q)
    BY <1>6, <1>8, RestingIs
  <2>2. CASE o.side = side /\ o.price = px
    BY <1>4, <2>1, <2>2
  <2>3. CASE ~(o.side = side /\ o.price = px)
    <3>1. /\ o.price \in DOMAIN book.levels[o.side]
          /\ o \in Range(book.levels[o.side][o.price].q)
      BY <1>4, <2>1, <2>3
    <3>2. QED BY <2>1, <2>3, <3>1, RestingByLevel
  <2>4. QED BY <2>2, <2>3
<1>9. ASSUME NEW o, o \in Range(level.q)
      PROVE o \in Resting(new)
  <2>1. px \in DOMAIN new.levels[side] /\ new.levels[side][px] = level
    BY <1>4
  <2>2. QED BY <1>9, <2>1, RestingByLevel
<1>10. ASSUME NEW o, o \in Resting(book), ~(o.side = side /\ o.price = px)
       PROVE o \in Resting(new)
  <2>1. /\ o.side \in Sides /\ o.price \in DOMAIN book.levels[o.side]
        /\ o \in Range(book.levels[o.side][o.price].q)
    BY <1>10, RestingIs
  <2>2. o.price \in DOMAIN new.levels[o.side] /\ o \in Range(new.levels[o.side][o.price].q)
    BY <1>4, <1>10, <2>1
  <2>3. QED BY <2>1, <2>2, RestingByLevel
<1>11. QED BY <1>6, <1>8, <1>9, <1>10 DEF new

LEMMA DropLevelTidy ==
  ASSUME NEW book, Tidy(book), NEW side \in Sides, NEW px, NEW loc,
         GoodBook([levels |-> DropLevel(book, side, px), loc |-> loc]),
         \A id \in DOMAIN book.loc : book.loc[id] # [side |-> side, price |-> px]
                                       => id \in DOMAIN loc /\ loc[id] = book.loc[id]
  PROVE LET new == [levels |-> DropLevel(book, side, px), loc |-> loc]
        IN  /\ Tidy(new)
            /\ \A o : o \in Resting(new) <=>
                 o \in Resting(book) /\ ~(o.side = side /\ o.price = px)
<1> DEFINE new == [levels |-> DropLevel(book, side, px), loc |-> loc]
<1>1. DOMAIN book.levels = Sides
  BY BookParts DEF Tidy, GoodBook
<1>2. \A s \in Sides : new.levels[s] = IF s = side THEN Erase(book.levels[side], px)
                                       ELSE book.levels[s]
  BY <1>1 DEF DropLevel
<1>3. new.loc = loc /\ GoodBook(new)
  OBVIOUS
<1> HIDE DEF new
<1>4. ASSUME NEW s \in Sides
      PROVE /\ \A p : p \in DOMAIN new.levels[s] <=>
                        p \in DOMAIN book.levels[s] /\ ~(s = side /\ p = px)
            /\ \A p \in DOMAIN new.levels[s] : new.levels[s][p] = book.levels[s][p]
  BY <1>2 DEF Erase
<1>5. ASSUME NEW s \in Sides, NEW p \in DOMAIN new.levels[s]
      PROVE TidyLevel(new.levels[s][p], s, p, loc)
  <2>1. /\ p \in DOMAIN book.levels[s] /\ new.levels[s][p] = book.levels[s][p]
        /\ ~(s = side /\ p = px)
    BY <1>4
  <2>2. TidyLevel(book.levels[s][p], s, p, book.loc)
    BY <2>1 DEF Tidy
  <2>3. ASSUME NEW o, InPlace(o, s, p, book.loc) PROVE InPlace(o, s, p, loc)
    <3>1. book.loc[o.id] # [side |-> side, price |-> px]
      BY <2>1, <2>3 DEF InPlace
    <3>2. QED BY <2>3, <3>1 DEF InPlace
  <2>4. QED BY <2>1, <2>2, <2>3 DEF TidyLevel
<1>6. Tidy(new)
  BY <1>3, <1>5 DEF Tidy
<1>7. ASSUME NEW o, o \in Resting(new)
      PROVE o \in Resting(book) /\ ~(o.side = side /\ o.price = px)
  <2>1. /\ o.side \in Sides /\ o.price \in DOMAIN new.levels[o.side]
        /\ o \in Range(new.levels[o.side][o.price].q)
    BY <1>6, <1>7, RestingIs
  <2>2. /\ o.price \in DOMAIN book.levels[o.side]
        /\ o \in Range(book.levels[o.side][o.price].q)
        /\ ~(o.side = side /\ o.price = px)
    BY <1>4, <2>1
  <2>3. QED BY <2>1, <2>2, RestingByLevel
<1>8. ASSUME NEW o, o \in Resting(book), ~(o.side = side /\ o.price = px)
      PROVE o \in Resting(new)
  <2>1. /\ o.side \in Sides /\ o.price \in DOMAIN book.levels[o.side]
        /\ o \in Range(book.levels[o.side][o.price].q)
    BY <1>8, RestingIs
  <2>2. o.price \in DOMAIN new.levels[o.side] /\ o \in Range(new.levels[o.side][o.price].q)
    BY <1>4, <1>8, <2>1
  <2>3. QED BY <2>1, <2>2, RestingByLevel
<1>9. QED BY <1>6, <1>7, <1>8 DEF new

(* The orders of a level are the resting orders with its side and its price. *)
LEMMA LevelRests ==
  ASSUME NEW book, Tidy(book), NEW side \in Sides, NEW px, NEW o
  PROVE /\ px \in DOMAIN book.levels[side] =>
             (o \in Range(book.levels[side][px].q) <=>
                o \in Resting(book) /\ o.side = side /\ o.price = px)
        /\ px \notin DOMAIN book.levels[side] =>
             ~(o \in Resting(book) /\ o.side = side /\ o.price = px)
<1>1. ASSUME px \in DOMAIN book.levels[side], o \in Range(book.levels[side][px].q)
      PROVE o \in Resting(book) /\ o.side = side /\ o.price = px
  <2>1. o \in Resting(book) BY <1>1, RestingByLevel
  <2>2. InPlace(o, side, px, book.loc) BY <1>1, LevelIs
  <2>3. QED BY <2>1, <2>2 DEF InPlace
<1>2. ASSUME o \in Resting(book), o.side = side, o.price = px
      PROVE px \in DOMAIN book.levels[side] /\ o \in Range(book.levels[side][px].q)
  <2>1. /\ o.price \in DOMAIN book.levels[o.side]
        /\ o \in Range(book.levels[o.side][o.price].q)
    BY <1>2, RestingIs
  <2>2. QED BY <1>2, <2>1
<1>3. QED BY <1>1, <1>2

----------------------------------------------------------------------------
(* The member functions *)

(* add_resting_limit of an order whose id does not rest yet: the order is in
   the book then, or the book is as it was. *)
THEOREM AddTidy ==
  ASSUME NEW book, Tidy(book), NEW o \in Order, Apart(Resting(book), {o})
  PROVE LET add == AddRestingLimit(book, o)
        IN  /\ Tidy(add.book)
            /\ IF add.ok THEN o.type = "Limit" /\ o.qty > 0 /\ Resting(add.book) = Resting(book) \cup {o}
               ELSE add.book = book
<1> DEFINE side == o.side
           px == o.price
           id == o.id
           level == IF px \in DOMAIN book.levels[side] THEN book.levels[side][px] ELSE EmptyLevel
           q == Append(level.q, o)
           grown == [q |-> q, total_qty |-> level.total_qty + o.qty]
           place == [side |-> side, price |-> px]
           loc == Put(book.loc, id, place)
           new == [levels |-> SetLevel(book, side, px, grown), loc |-> loc]
           add == AddRestingLimit(book, o)
<1>1. CASE o.type # "Limit" \/ o.qty <= 0 \/ WouldCross(book, o)
  BY <1>1 DEF AddRestingLimit, Failed
<1>2. CASE ~(o.type # "Limit" \/ o.qty <= 0 \/ WouldCross(book, o))
  <2>1. add.ok = TRUE /\ add.book = new
    BY <1>2 DEF AddRestingLimit, Done
  <2>2. side \in Sides /\ o.type = "Limit" /\ o.qty \in Int /\ o.qty > 0
    BY <1>2 DEF Order
  <2>3. GoodBook(new)
    BY <2>1, AddGood DEF Tidy
  <2>4. id \notin DOMAIN book.loc
    BY LocatedRests DEF Apart
  <2> HIDE DEF add
  (* The level before. *)
  <2>5. /\ level.q \in Seq(Order) /\ Distinct(level.q)
        /\ \A x : x \in Range(level.q) <=> x \in Resting(book) /\ x.side = side /\ x.price = px
    <3>1. CASE px \in DOMAIN book.levels[side]
      <4>1. level = book.levels[side][px] BY <3>1
      <4> HIDE DEF level, px, side
      <4>2. QED BY <2>2, <3>1, <4>1, LevelIs, LevelRests
    <3>2. CASE px \notin DOMAIN book.levels[side]
      <4>1. level.q = <<>> BY <3>2 DEF EmptyLevel
      <4>3. \A x : ~(x \in Resting(book) /\ x.side = side /\ x.price = px)
        BY <2>2, <3>2, LevelRests
      <4> HIDE DEF level
      <4>4. QED BY <4>1, <4>3, EmptyRange
    <3>3. QED BY <3>1, <3>2
  <2> HIDE DEF level
  (* And after. *)
  <2>6. q \in Seq(Order) /\ Range(q) = Range(level.q) \cup {o} /\ Distinct(q) /\ q # <<>>
    <3>1. Apart(Range(level.q), {o}) BY <2>5 DEF Apart
    <3>2. q # <<>> BY <2>5, AppendProperties
    <3>3. QED BY <2>5, <3>1, <3>2, AppendedRange
  <2>7. \A j \in DOMAIN book.loc : j \in DOMAIN loc /\ loc[j] = book.loc[j]
    BY <2>4 DEF Put
  <2>8. id \in DOMAIN loc /\ loc[id] = place
    BY DEF Put
  <2>9. grown.q = q
    OBVIOUS
  <2> HIDE DEF loc, grown, q
  <2>10. \A x \in Range(q) : InPlace(x, side, px, loc)
    <3>1. ASSUME NEW x \in Range(level.q) PROVE InPlace(x, side, px, loc)
      <4>1. /\ x.type = "Limit" /\ x.side = side /\ x.price = px
            /\ x.id \in DOMAIN book.loc /\ book.loc[x.id] = place
        BY <2>5, RestingIs
      <4>2. QED BY <2>7, <4>1 DEF InPlace
    <3>2. InPlace(o, side, px, loc) BY <2>2, <2>8 DEF InPlace
    <3>3. QED BY <2>6, <3>1, <3>2
  <2>11. TidyLevel(grown, side, px, loc)
    <3>1. \A k \in 1 .. Len(q) : q[k] \in Range(q) BY <2>6, RangeIs
    <3>2. QED BY <2>6, <2>9, <2>10, <3>1 DEF TidyLevel
  <2>12. /\ Tidy(new)
         /\ \A x : x \in Resting(new) <=>
              x \in Range(grown.q) \/ (x \in Resting(book) /\ ~(x.side = side /\ x.price = px))
    <3> HIDE DEF side, px
    <3>1. side \in Sides /\ grown.q \in Seq(Order) /\ TidyLevel(grown, side, px, loc)
      BY <2>2, <2>6, <2>9, <2>11
    <3>2. GoodBook([levels |-> SetLevel(book, side, px, grown), loc |-> loc])
      BY <2>3
    <3>3. \A j \in DOMAIN book.loc : book.loc[j] # [side |-> side, price |-> px]
                                      => j \in DOMAIN loc /\ loc[j] = book.loc[j]
      BY <2>7
    <3>4. QED BY <3>1, <3>2, <3>3, SetLevelTidy
  <2> HIDE DEF new
  <2>13. \A x : x \in Resting(new) <=> x \in Resting(book) \/ x = o
    BY <2>5, <2>6, <2>9, <2>12
  <2>14. Resting(new) = Resting(book) \cup {o}
    BY <2>13
  <2>15. QED BY <2>1, <2>2, <2>12, <2>14 DEF add
<1>3. QED BY <1>1, <1>2

(* cancel: the orders that rest afterwards are those with another id. *)
THEOREM CancelTidy ==
  ASSUME NEW book, Tidy(book), NEW id
  PROVE LET new == Cancel(book, id).book
        IN  Tidy(new) /\ Resting(new) = {o \in Resting(book) : o.id # id}
<1> DEFINE at == book.loc[id]
           side == at.side
           px == at.price
           level == book.levels[side][px]
           i == Node(level.q, id)
           q == level.q
           r == RemoveAt(q, i)
           rest == [q |-> r, total_qty |-> level.total_qty - q[i].qty]
           loc == Erase(book.loc, id)
           new == Cancel(book, id).book
<1>1. GoodBook(new)
  BY CancelGood DEF Tidy
<1>2. CASE id \notin DOMAIN book.loc
  <2>1. new = book BY <1>2 DEF Cancel, Failed
  <2>2. \A o \in Resting(book) : o.id # id BY <1>2, RestingIs
  <2>3. QED BY <2>1, <2>2
<1>3. CASE id \in DOMAIN book.loc
  <2>1. PICK o \in Resting(book) : o.id = id /\ at = [side |-> o.side, price |-> o.price]
    BY <1>3, LocatedRests
  <2>2. /\ side = o.side /\ px = o.price /\ side \in Sides /\ px \in DOMAIN book.levels[side]
        /\ o \in Range(q) /\ at = [side |-> side, price |-> px]
    BY <2>1, RestingIs
  <2>3. new = [levels |-> IF r = <<>> THEN DropLevel(book, side, px)
                          ELSE SetLevel(book, side, px, rest),
               loc |-> loc]
    BY <1>3, <2>2 DEF Cancel, HasLevel, Done, CancelFound
  <2> HIDE DEF new
  <2>4. q \in Seq(Order) /\ Distinct(q)
    BY <2>2, LevelIs
  <2>5. \A x : x \in Range(q) <=> x \in Resting(book) /\ x.side = side /\ x.price = px
    <3> HIDE DEF side, px
    <3>1. QED BY <2>2, LevelRests
  <2>6. \A x \in Range(q) : x.id \in DOMAIN book.loc /\ book.loc[x.id] = at
    BY <2>2, <2>5, RestingIs
  <2> HIDE DEF at, side, px, q
  <2>7. i \in 1 .. Len(q) /\ q[i].id = id /\ q[i] \in Range(q)
    <3>1. \E k \in 1 .. Len(q) : q[k].id = id BY <2>1, <2>2, <2>4, RangeIs
    <3>2. Node(q, id) \in 1 .. Len(q) /\ q[Node(q, id)].id = id BY <2>4, <3>1, NodeIsThere
    <3>3. QED BY <2>4, <3>2, RangeIs DEF q
  <2> HIDE DEF i
  <2>8. /\ r \in Seq(Order) /\ Len(r) = Len(q) - 1
        /\ \A k \in 1 .. (Len(q) - 1) : r[k] = IF k < i THEN q[k] ELSE q[k + 1]
    BY <2>4, <2>7, RemoveAtOrders
  <2> HIDE DEF r
  <2>9. Distinct(r) /\ Range(r) \subseteq Range(q) /\ \A x \in Range(r) : x.id # id
    BY <2>4, <2>7, <2>8, RemovedRange
  <2>10. \A j \in DOMAIN book.loc : j # id => j \in DOMAIN loc /\ loc[j] = book.loc[j]
    BY DEF Erase
  <2>11. rest.q = r
    OBVIOUS
  <2> HIDE DEF loc, rest
  <2>12. \A j \in DOMAIN book.loc : book.loc[j] # [side |-> side, price |-> px]
                                      => j \in DOMAIN loc /\ loc[j] = book.loc[j]
    BY <2>2, <2>10 DEF at
  (* Every order of the level but the one with this id is in r. *)
  <2>13. \A x \in Range(q) : x.id # id => x \in Range(r)
    <3>1. SUFFICES ASSUME NEW k \in 1 .. Len(q), q[k].id # id PROVE q[k] \in Range(r)
      BY <2>4, RangeIs
    <3>2. k # i /\ Len(q) \in Nat BY <2>4, <2>7, <3>1, LenProperties
    <3>3. CASE k < i
      <4>1. k \in 1 .. (Len(q) - 1) /\ k \in 1 .. Len(r) BY <2>7, <2>8, <3>2, <3>3
      <4>2. r[k] = q[k] BY <2>8, <3>3, <4>1
      <4>3. QED BY <2>8, <4>1, <4>2, RangeIs
    <3>4. CASE k > i
      <4>1. k - 1 \in 1 .. (Len(q) - 1) /\ ~(k - 1 < i) /\ (k - 1) + 1 = k /\ k - 1 \in 1 .. Len(r)
        BY <2>7, <2>8, <3>2, <3>4
      <4>2. r[k - 1] = q[k] BY <2>8, <4>1
      <4>3. QED BY <2>8, <4>1, <4>2, RangeIs
    <3>5. QED BY <2>7, <3>2, <3>3, <3>4
  <2>14. ASSUME NEW x \in Resting(book), x.side = side, x.price = px
         PROVE x.id = id => x = q[i]
    BY <2>4, <2>5, <2>7, <2>14, SameOrder
  <2>15. \A x \in Resting(book) : x.id = id => x.side = side /\ x.price = px
    BY <2>1, <2>2, RestingOnce
  <2>16. CASE r = <<>>
    <3>1. new = [levels |-> DropLevel(book, side, px), loc |-> loc]
      BY <2>3, <2>16
    <3>2. Tidy(new) /\ \A x : x \in Resting(new) <=>
                         x \in Resting(book) /\ ~(x.side = side /\ x.price = px)
      BY <1>1, <2>2, <2>12, <3>1, DropLevelTidy DEF new
    <3>3. Range(r) = {} BY <2>16, EmptyRange
    <3>4. \A x \in Resting(book) : x.id # id <=> ~(x.side = side /\ x.price = px)
      BY <2>5, <2>13, <2>15, <3>3
    <3>5. QED BY <3>2, <3>4 DEF new
  <2>17. CASE r # <<>>
    <3>1. new = [levels |-> SetLevel(book, side, px, rest), loc |-> loc]
      BY <2>3, <2>17
    <3>2. \A k \in 1 .. Len(r) : InPlace(r[k], side, px, loc)
      <4>1. SUFFICES ASSUME NEW x \in Range(r) PROVE InPlace(x, side, px, loc)
        BY <2>8, RangeIs
      <4>2. x \in Range(q) /\ x.id # id BY <2>9
      <4>3. x.type = "Limit" /\ x.side = side /\ x.price = px BY <2>5, <4>2, RestingIs
      <4>4. QED BY <2>2, <2>6, <2>10, <4>2, <4>3 DEF InPlace
    <3>3. TidyLevel(rest, side, px, loc)
      BY <2>9, <2>11, <2>17, <3>2 DEF TidyLevel
    <3>4. Tidy(new) /\ \A x : x \in Resting(new) <=>
                         \/ x \in Range(rest.q)
                         \/ x \in Resting(book) /\ ~(x.side = side /\ x.price = px)
      BY <1>1, <2>2, <2>8, <2>11, <2>12, <3>1, <3>3, SetLevelTidy DEF new
    <3>5. \A x : x \in Resting(new) <=> x \in Resting(book) /\ x.id # id
      BY <2>5, <2>9, <2>11, <2>13, <2>15, <3>4
    <3>6. QED BY <3>4, <3>5 DEF new
  <2>18. QED BY <2>16, <2>17
<1>4. QED BY <1>2, <1>3

(* modify_qty: the orders that rest afterwards rested before, the one with the
   id with less to trade. *)
THEOREM ModifyTidy ==
  ASSUME NEW book, Tidy(book), NEW id, NEW new_qty \in Int
  PROVE LET new == ModifyQty(book, id, new_qty).book
        IN  /\ Tidy(new)
            /\ \A x \in Resting(new) :
                 \/ x \in Resting(book)
                 \/ \E o \in Resting(book) : /\ new_qty > 0 /\ new_qty <= o.qty
                                             /\ x = [o EXCEPT !.qty = new_qty]
<1> DEFINE at == book.loc[id]
           side == at.side
           px == at.price
           level == book.levels[side][px]
           q == level.q
           i == Node(q, id)
           old == q[i]
           o == [old EXCEPT !.qty = new_qty]
           r == [q EXCEPT ![i] = o]
           less == [q |-> r, total_qty |-> level.total_qty - (old.qty - new_qty)]
           new == ModifyQty(book, id, new_qty).book
<1>1. GoodBook(new)
  BY ModifyGood DEF Tidy
<1>2. CASE new_qty <= 0
  <2>1. new = Cancel(book, id).book BY <1>2 DEF ModifyQty
  <2>2. QED BY <2>1, CancelTidy
<1>3. CASE ~(new_qty <= 0)
  <2>1. new_qty > 0 BY <1>3
  <2>2. CASE id \notin DOMAIN book.loc
    <3>1. new = book BY <1>3, <2>2 DEF ModifyQty, Failed
    <3>2. QED BY <3>1
  <2>3. CASE id \in DOMAIN book.loc
    <3>1. PICK m \in Resting(book) : m.id = id /\ at = [side |-> m.side, price |-> m.price]
      BY <2>3, LocatedRests
    <3>2. /\ side = m.side /\ px = m.price /\ side \in Sides /\ px \in DOMAIN book.levels[side]
          /\ m \in Range(q) /\ at = [side |-> side, price |-> px]
      BY <3>1, RestingIs
    <3>3. new = IF old.qty <= 0 \/ new_qty > old.qty THEN book
                ELSE [levels |-> SetLevel(book, side, px, less), loc |-> book.loc]
      BY <1>3, <2>3, <3>2 DEF ModifyQty, HasLevel, Reduced, Failed, Done
    <3> HIDE DEF new
    <3>4. q \in Seq(Order) /\ Distinct(q)
      BY <3>2, LevelIs
    <3>5. \A x : x \in Range(q) <=> x \in Resting(book) /\ x.side = side /\ x.price = px
      <4> HIDE DEF side, px
      <4>1. QED BY <3>2, LevelRests
    <3> HIDE DEF at, side, px, q
    <3>6. i \in 1 .. Len(q) /\ old.id = id /\ old \in Range(q)
      <4>1. \E k \in 1 .. Len(q) : q[k].id = id BY <3>1, <3>2, <3>4, RangeIs
      <4>2. Node(q, id) \in 1 .. Len(q) /\ q[Node(q, id)].id = id BY <3>4, <4>1, NodeIsThere
      <4>3. QED BY <3>4, <4>2, RangeIs DEF q
    <3> HIDE DEF i
    <3>7. /\ old \in Resting(book) /\ old \in Order /\ old.type = "Limit" /\ old.side = side
          /\ old.price = px /\ old.qty \in Int
          /\ id \in DOMAIN book.loc /\ book.loc[id] = [side |-> side, price |-> px]
      BY <3>5, <3>6, RestingIs
    <3> HIDE DEF old
    <3>8. /\ o \in Order /\ o.id = id /\ o.type = "Limit" /\ o.side = side /\ o.price = px
          /\ o.qty = new_qty
      BY <3>6, <3>7 DEF Order
    <3> HIDE DEF o
    <3>9. /\ r \in Seq(Order) /\ Len(r) = Len(q)
          /\ \A k \in 1 .. Len(q) : r[k] = IF k = i THEN o ELSE q[k]
      BY <3>4, <3>6, <3>8, ReplaceOrders
    <3> HIDE DEF r
    <3>10. /\ Distinct(r) /\ o \in Range(r)
           /\ \A x \in Range(r) : x = o \/ (x \in Range(q) /\ x.id # id)
      <4>1. o.id = q[i].id BY <3>6, <3>8 DEF old
      <4>2. QED BY <3>4, <3>6, <3>9, <4>1, ReplacedRange DEF old
    <3>11. less.q = r
      OBVIOUS
    <3> HIDE DEF less
    <3>12. CASE old.qty <= 0 \/ new_qty > old.qty
      <4>1. new = book BY <3>3, <3>12
      <4>2. QED BY <4>1 DEF new
    <3>13. CASE ~(old.qty <= 0 \/ new_qty > old.qty)
      <4>1. new = [levels |-> SetLevel(book, side, px, less), loc |-> book.loc]
        BY <3>3, <3>13
      <4>2. \A k \in 1 .. Len(r) : InPlace(r[k], side, px, book.loc)
        <5>1. SUFFICES ASSUME NEW x \in Range(r) PROVE InPlace(x, side, px, book.loc)
          BY <3>9, RangeIs
        <5>2. CASE x = o
          BY <3>7, <3>8, <5>2 DEF InPlace
        <5>3. CASE x \in Range(q)
          <6>1. x \in Resting(book) /\ x.side = side /\ x.price = px BY <3>5, <5>3
          <6>2. QED BY <6>1, RestingIs DEF InPlace
        <5>4. QED BY <3>10, <5>2, <5>3
      <4>3. r # <<>>
        <5>1. Len(q) \in Nat /\ i \in Int /\ i >= 1 /\ i <= Len(q) BY <3>4, <3>6, LenProperties
        <5>2. Len(r) # 0 BY <3>9, <5>1
        <5>3. QED BY <3>9, <5>2, EmptySeq
      <4>4. TidyLevel(less, side, px, book.loc)
        BY <3>10, <3>11, <4>2, <4>3 DEF TidyLevel
      <4>5. Tidy(new) /\ \A x : x \in Resting(new) <=>
                           \/ x \in Range(less.q)
                           \/ x \in Resting(book) /\ ~(x.side = side /\ x.price = px)
        <5>1. GoodBook([levels |-> SetLevel(book, side, px, less), loc |-> book.loc])
          BY <1>1, <4>1 DEF new
        <5>2. less.q \in Seq(Order) BY <3>9, <3>11
        <5>3. Tidy([levels |-> SetLevel(book, side, px, less), loc |-> book.loc])
              /\ \A x : x \in Resting([levels |-> SetLevel(book, side, px, less), loc |-> book.loc]) <=>
                           \/ x \in Range(less.q)
                           \/ x \in Resting(book) /\ ~(x.side = side /\ x.price = px)
          BY <3>2, <4>4, <5>1, <5>2, SetLevelTidy
        <5>4. QED BY <4>1, <5>3
      <4>6. ASSUME NEW x \in Resting(new)
            PROVE x \in Resting(book) \/ x = o
        BY <3>5, <3>10, <3>11, <4>5
      <4>7. old.qty >= new_qty BY <3>7, <3>13
      <4>8. QED BY <2>1, <3>7, <4>5, <4>6, <4>7 DEF new, o
    <3>14. QED BY <3>12, <3>13
  <2>4. QED BY <2>2, <2>3
<1>4. QED BY <1>2, <1>3

----------------------------------------------------------------------------
(* The front of the book, which matching edits by itself *)

(* The first order of the best level, and what the book is when n of it has
   traded. *)
FrontOf(book, side) == Head(book.levels[side][Best(book, side)].q)

FrontFilled(book, side, n) ==
  LET px    == Best(book, side)
      level == book.levels[side][px]
      left  == [FrontOf(book, side) EXCEPT !.qty = FrontOf(book, side).qty - n]
      rest  == [q |-> IF left.qty = 0 THEN Tail(level.q) ELSE <<left>> \o Tail(level.q),
                total_qty |-> level.total_qty - n]
  IN  [levels |-> IF rest.total_qty = 0 THEN DropLevel(book, side, px)
                  ELSE SetLevel(book, side, px, rest),
       loc |-> IF left.qty = 0 THEN Erase(book.loc, FrontOf(book, side).id) ELSE book.loc]

(* The front order rests, at the best price. *)
LEMMA FrontRests ==
  ASSUME NEW book, Tidy(book), NEW side \in Sides, Best(book, side) # None
  PROVE LET maker == FrontOf(book, side)
            px == Best(book, side)
        IN  /\ px \in DOMAIN book.levels[side] /\ book.levels[side][px].q # <<>>
            /\ maker \in Resting(book) /\ maker.side = side /\ maker.price = px
            /\ maker \in Order /\ maker.qty \in Int /\ maker.qty > 0
<1> DEFINE px == Best(book, side)
           q == book.levels[side][px].q
           maker == Head(q)
<1>1. px \in DOMAIN book.levels[side]
  BY BestType DEF Tidy, GoodBook
<1> HIDE DEF px
<1>2. q \in Seq(Order) /\ q # <<>>
  BY <1>1, LevelIs
<1>3. \A x \in Range(q) : x \in Resting(book) /\ x.side = side /\ x.price = px
  BY <1>1, LevelRests
<1> HIDE DEF q
<1>4. maker \in Range(q)
  BY <1>2, TailOrders, RangeIs
<1>5. maker \in Resting(book) /\ maker.side = side /\ maker.price = px
  BY <1>3, <1>4
<1> HIDE DEF maker
<1>6. maker \in Order /\ maker.qty \in Int /\ maker.qty > 0
  BY <1>5, RestingIs
<1>7. QED BY <1>1, <1>2, <1>5, <1>6 DEF FrontOf, px, q, maker

(* What rests after a fill at the front: the front order with what it has left,
   if it has, and the others. *)
THEOREM FrontTidy ==
  ASSUME NEW book, Tidy(book), NEW side \in Sides, Best(book, side) # None,
         NEW n \in Int, 0 < n, n <= FrontOf(book, side).qty,
         GoodBook(FrontFilled(book, side, n))
  PROVE LET maker == FrontOf(book, side)
            left == [maker EXCEPT !.qty = maker.qty - n]
            new == FrontFilled(book, side, n)
        IN  /\ Tidy(new)
            /\ \A x \in Resting(new) : \/ x \in Resting(book) /\ x.id # maker.id
                                       \/ x = left /\ left.qty > 0
<1> DEFINE px == Best(book, side)
           level == book.levels[side][px]
           q == level.q
           maker == Head(q)
           left == [maker EXCEPT !.qty = maker.qty - n]
           r == IF left.qty = 0 THEN Tail(q) ELSE <<left>> \o Tail(q)
           rest == [q |-> r, total_qty |-> level.total_qty - n]
           loc == IF left.qty = 0 THEN Erase(book.loc, maker.id) ELSE book.loc
           new == FrontFilled(book, side, n)
           place == [side |-> side, price |-> px]
<1>1. /\ px \in DOMAIN book.levels[side] /\ q # <<>>
      /\ maker \in Resting(book) /\ maker.side = side /\ maker.price = px
      /\ maker \in Order /\ maker.qty \in Int /\ maker.qty > 0
  BY FrontRests DEF FrontOf
<1>2. new = [levels |-> IF rest.total_qty = 0 THEN DropLevel(book, side, px)
                        ELSE SetLevel(book, side, px, rest),
             loc |-> loc]
  BY DEF FrontFilled, FrontOf
<1>3. n <= maker.qty /\ GoodBook(new)
  BY DEF FrontOf
<1> HIDE DEF new
<1>4. rest.q = r /\ rest.total_qty = level.total_qty - n
  OBVIOUS
<1>5. LevelsSound(book)
  BY DEF Tidy, GoodBook
<1> HIDE DEF px, rest
<1>6. /\ q \in Seq(Order) /\ Distinct(q)
      /\ level.total_qty = QtyOf(q) /\ \A k \in 1 .. Len(q) : q[k].qty > 0
  BY <1>1, <1>5, LevelIs DEF LevelsSound, Sound
<1>7. \A x : x \in Range(q) <=> x \in Resting(book) /\ x.side = side /\ x.price = px
  BY <1>1, LevelRests
<1> HIDE DEF level, q
<1>8. /\ maker = q[1] /\ 1 \in 1 .. Len(q)
      /\ Tail(q) \in Seq(Order) /\ Len(Tail(q)) = Len(q) - 1
      /\ \A k \in 1 .. (Len(q) - 1) : Tail(q)[k] = q[k + 1]
      /\ QtyOf(Tail(q)) = QtyOf(q) - maker.qty
      /\ QtyOf(q) \in Int
  BY <1>1, <1>6, TailOrders, QtyType
<1> HIDE DEF maker
<1>9. /\ left \in Order /\ left.id = maker.id /\ left.qty = maker.qty - n /\ left.qty \in Int
      /\ left.type = maker.type /\ left.side = side /\ left.price = px
  BY <1>1 DEF Order
<1> HIDE DEF left
(* The level afterwards. *)
<1>10. /\ r \in Seq(Order) /\ Distinct(r) /\ QtyOf(r) = QtyOf(q) - n
       /\ \A x \in Range(r) : \/ x \in Range(q) /\ x.id # maker.id
                              \/ x = left /\ left.qty > 0
       /\ \A k \in 1 .. Len(r) : r[k].qty > 0
  <2>1. CASE left.qty = 0
    <3>1. r = Tail(q) BY <2>1
    <3> HIDE DEF r
    <3>2. /\ Len(r) = Len(q) - 1 /\ r \in Seq(Order)
          /\ \A k \in 1 .. (Len(q) - 1) : r[k] = IF k < 1 THEN q[k] ELSE q[k + 1]
      <4>1. Len(q) \in Nat BY <1>6, LenProperties
      <4>2. ASSUME NEW k \in 1 .. (Len(q) - 1)
            PROVE r[k] = IF k < 1 THEN q[k] ELSE q[k + 1]
        <5>1. ~(k < 1) BY <4>1
        <5>2. r[k] = q[k + 1] BY <1>8, <3>1
        <5>3. QED BY <5>1, <5>2
      <4>3. QED BY <1>8, <3>1, <4>2
    <3>3. Distinct(r) /\ Range(r) \subseteq Range(q) /\ \A x \in Range(r) : x.id # maker.id
      <4> DEFINE one == 1
      <4>1. one \in 1 .. Len(q) /\ maker = q[one] BY <1>8
      <4>2. \A k \in 1 .. (Len(q) - 1) : r[k] = IF k < one THEN q[k] ELSE q[k + 1]
        BY <3>2
      <4> HIDE DEF one
      <4>3. /\ Distinct(r) /\ Range(r) \subseteq Range(q)
            /\ \A x \in Range(r) : x.id # q[one].id
        BY <1>6, <3>2, <4>1, <4>2, RemovedRange
      <4>4. QED BY <4>1, <4>3
    <3>4. \A k \in 1 .. Len(r) : r[k].qty > 0
      <4>1. Len(q) \in Nat BY <1>6, LenProperties
      <4>2. QED BY <1>6, <3>2, <4>1
    <3>5. n = maker.qty BY <1>1, <1>9, <2>1
    <3>6. QtyOf(r) = QtyOf(q) - n BY <1>8, <3>1, <3>5
    <3>7. QED BY <3>2, <3>3, <3>4, <3>6
  <2>2. CASE left.qty # 0
    <3>1. r = <<left>> \o Tail(q) BY <2>2
    <3> HIDE DEF r
    <3>2. /\ r \in Seq(Order) /\ Len(r) = Len(q)
          /\ \A k \in 1 .. Len(q) : r[k] = IF k = 1 THEN left ELSE q[k]
          /\ QtyOf(r) = QtyOf(q) - maker.qty + left.qty
      BY <1>1, <1>6, <1>9, <3>1, NewHeadOrders DEF maker
    <3>3. /\ Distinct(r)
          /\ \A x \in Range(r) : x = left \/ (x \in Range(q) /\ x.id # maker.id)
      BY <1>6, <1>8, <1>9, <3>2, ReplacedRange
    <3>4. left.qty > 0 BY <1>1, <1>3, <1>9, <2>2
    <3>5. \A k \in 1 .. Len(r) : r[k].qty > 0 BY <1>6, <3>2, <3>4
    <3>6. QED BY <1>1, <1>8, <1>9, <3>2, <3>3, <3>4, <3>5
  <2>3. QED BY <2>1, <2>2
<1> HIDE DEF r
<1>11. rest.total_qty = QtyOf(r) /\ (QtyOf(r) = 0 <=> r = <<>>)
  BY <1>4, <1>6, <1>10, QtyPositive, QtyType
(* The locators. *)
<1>12. maker.id \in DOMAIN book.loc /\ book.loc[maker.id] = place /\ maker.type = "Limit"
  BY <1>1, RestingIs
<1>13. \A j \in DOMAIN book.loc : j # maker.id => j \in DOMAIN loc /\ loc[j] = book.loc[j]
  BY <1>9 DEF Erase
<1>14. left.qty > 0 => loc = book.loc
  BY <1>9
<1> HIDE DEF loc
<1>15. \A j \in DOMAIN book.loc : book.loc[j] # [side |-> side, price |-> px]
                                    => j \in DOMAIN loc /\ loc[j] = book.loc[j]
  BY <1>12, <1>13
(* The others at other prices are not the maker. *)
<1>16. \A x \in Resting(book) : x.id = maker.id => x.side = side /\ x.price = px
  BY <1>1, RestingOnce
<1>17. CASE r = <<>>
  <2>1. new = [levels |-> DropLevel(book, side, px), loc |-> loc]
    BY <1>2, <1>11, <1>17
  <2>2. Tidy(new) /\ \A x : x \in Resting(new) <=>
                       x \in Resting(book) /\ ~(x.side = side /\ x.price = px)
    BY <1>3, <1>15, <2>1, DropLevelTidy
  <2>3. \A x \in Resting(new) : x \in Resting(book) /\ x.id # maker.id
    BY <1>16, <2>2
  <2>4. QED BY <2>2, <2>3 DEF new, maker, left, FrontOf, q, level, px
<1>18. CASE r # <<>>
  <2>1. new = [levels |-> SetLevel(book, side, px, rest), loc |-> loc]
    BY <1>2, <1>11, <1>18
  <2>2. \A k \in 1 .. Len(r) : InPlace(r[k], side, px, loc)
    <3>1. SUFFICES ASSUME NEW x \in Range(r) PROVE InPlace(x, side, px, loc)
      BY <1>10, RangeIs
    <3>2. CASE x \in Range(q) /\ x.id # maker.id
      <4>1. /\ x.type = "Limit" /\ x.side = side /\ x.price = px
            /\ x.id \in DOMAIN book.loc /\ book.loc[x.id] = place
        BY <1>7, <3>2, RestingIs
      <4>2. QED BY <1>13, <3>2, <4>1 DEF InPlace
    <3>3. CASE x = left /\ left.qty > 0
      BY <1>9, <1>12, <1>14, <3>3 DEF InPlace
    <3>4. QED BY <1>10, <3>2, <3>3
  <2>3. TidyLevel(rest, side, px, loc)
    BY <1>4, <1>10, <1>18, <2>2 DEF TidyLevel
  <2>4. Tidy(new) /\ \A x : x \in Resting(new) <=>
                       \/ x \in Range(rest.q)
                       \/ x \in Resting(book) /\ ~(x.side = side /\ x.price = px)
    BY <1>3, <1>4, <1>10, <1>15, <2>1, <2>3, SetLevelTidy
  <2>5. \A x \in Resting(new) : \/ x \in Resting(book) /\ x.id # maker.id
                                \/ x = left /\ left.qty > 0
    BY <1>4, <1>7, <1>10, <1>16, <2>4
  <2>6. QED BY <2>4, <2>5 DEF new, maker, left, FrontOf, q, level, px
<1>19. QED BY <1>17, <1>18

(* A new book is tidy. *)
LEMMA EmptyTidy == Tidy(EmptyBook) /\ Resting(EmptyBook) = {}
<1>1. \A s \in Sides : DOMAIN EmptyBook.levels[s] = {}
  BY DEF EmptyBook, EmptyMap
<1>2. \A o : o \notin Resting(EmptyBook)
  BY <1>1, RestingByLevel
<1>3. QED BY <1>1, <1>2, EmptyGood DEF Tidy

(* The position of an order in a tidy book. *)
LEMMA PlaceIs ==
  ASSUME NEW book, Tidy(book), NEW at \in Places(book)
  PROVE LET o == OrderAt(book, at)
            q == book.levels[at.side][at.px].q
        IN  /\ at = [side |-> o.side, px |-> o.price, i |-> at.i]
            /\ o \in Resting(book) /\ q \in Seq(Order) /\ Distinct(q)
            /\ at.i \in 1 .. Len(q) /\ o = q[at.i]
<1> DEFINE o == OrderAt(book, at)
<1>1. PICK s \in Sides : \E p \in DOMAIN book.levels[s] : \E k \in DOMAIN book.levels[s][p].q :
                           at = [side |-> s, px |-> p, i |-> k]
  BY DEF Places
<1>2. PICK p \in DOMAIN book.levels[s] : \E k \in DOMAIN book.levels[s][p].q :
                           at = [side |-> s, px |-> p, i |-> k]
  BY <1>1
<1>3. PICK k \in DOMAIN book.levels[s][p].q : at = [side |-> s, px |-> p, i |-> k]
  BY <1>2
<1> DEFINE q == book.levels[s][p].q
<1>4. /\ q \in Seq(Order) /\ Distinct(q)
      /\ \A x \in Range(q) : InPlace(x, s, p, book.loc)
  BY LevelIs
<1>5. at.side = s /\ at.px = p /\ at.i = k /\ o = q[k]
  BY <1>3 DEF OrderAt
<1> HIDE DEF q
<1>6. k \in 1 .. Len(q) /\ q[k] \in Range(q)
  <2>1. k \in DOMAIN q BY <1>3 DEF q
  <2>2. QED BY <1>4, <2>1, RangeIs
<1>7. o.side = s /\ o.price = p
  BY <1>4, <1>5, <1>6 DEF InPlace
<1>8. o \in Resting(book)
  BY DEF Resting
<1>9. QED BY <1>3, <1>4, <1>5, <1>6, <1>7, <1>8 DEF q

(* No two places of the book hold the same id. *)
OnceInBook(book) ==
  \A a, b \in Places(book) : OrderAt(book, a).id = OrderAt(book, b).id => a = b

LEMMA PlacesOnce ==
  ASSUME NEW book, Tidy(book)
  PROVE OnceInBook(book)
<1>1. ASSUME NEW a \in Places(book), NEW b \in Places(book),
             OrderAt(book, a).id = OrderAt(book, b).id
      PROVE a = b
  <2> DEFINE x == OrderAt(book, a)
             y == OrderAt(book, b)
             q == book.levels[a.side][a.px].q
  <2>1. /\ a = [side |-> x.side, px |-> x.price, i |-> a.i] /\ x \in Resting(book)
        /\ q \in Seq(Order) /\ Distinct(q) /\ a.i \in 1 .. Len(q) /\ x = q[a.i]
    BY PlaceIs
  <2>2. /\ b = [side |-> y.side, px |-> y.price, i |-> b.i] /\ y \in Resting(book)
        /\ b.i \in 1 .. Len(book.levels[b.side][b.px].q)
        /\ y = book.levels[b.side][b.px].q[b.i]
    BY PlaceIs
  <2>3. x = y
    BY <1>1, <2>1, <2>2, RestingOnce
  <2>4. b.side = a.side /\ b.px = a.px
    <3> HIDE DEF x, y, q
    <3>1. a.side = x.side /\ a.px = x.price BY <2>1
    <3>2. b.side = y.side /\ b.px = y.price BY <2>2
    <3>3. QED BY <2>3, <3>1, <3>2
  <2>5. b.i \in 1 .. Len(q) /\ q[b.i] = q[a.i]
    BY <2>1, <2>2, <2>3, <2>4
  <2> HIDE DEF x, y, q
  <2>6. a.i = b.i
    BY <2>1, <2>5 DEF Distinct
  <2>7. QED BY <2>1, <2>2, <2>3, <2>6
<1>2. QED BY <1>1 DEF OnceInBook

----------------------------------------------------------------------------
(* The order within the levels *)

(* The list r keeps the order of q, apart from the orders whose id is in X: each
   of the others was in q, and what stands before it stood before it. *)
InOrder(r, q, X) ==
  \A i, j \in 1 .. Len(r) :
    i <= j /\ r[j].id \notin X =>
      \E k, l \in 1 .. Len(q) : /\ k <= l /\ (i < j => k < l)
                                /\ q[k].id = r[i].id /\ q[l].id = r[j].id

(* The list of a level, which may not be there. *)
ListAt(book, s, p) == IF p \in DOMAIN book.levels[s] THEN book.levels[s][p].q ELSE <<>>

(* Every level of new keeps the order of that level of old. *)
KeepsOrder(new, old, X) ==
  \A s \in Sides : \A p : InOrder(ListAt(new, s, p), ListAt(old, s, p), X)

LEMMA InOrderPair ==
  ASSUME NEW r, NEW q, NEW X, InOrder(r, q, X),
         NEW i \in 1 .. Len(r), NEW j \in 1 .. Len(r), i <= j, r[j].id \notin X
  PROVE \E k, l \in 1 .. Len(q) : /\ k <= l /\ (i < j => k < l)
                                  /\ q[k].id = r[i].id /\ q[l].id = r[j].id
BY DEF InOrder

LEMMA InOrderThrough ==
  ASSUME NEW a, NEW b, NEW c, NEW X, Len(a) \in Nat, Len(b) \in Nat, Len(c) \in Nat,
         InOrder(a, b, X), InOrder(b, c, X)
  PROVE InOrder(a, c, X)
<1>1. SUFFICES ASSUME NEW i \in 1 .. Len(a), NEW j \in 1 .. Len(a), i <= j, a[j].id \notin X
               PROVE \E m, n \in 1 .. Len(c) : /\ m <= n /\ (i < j => m < n)
                                               /\ c[m].id = a[i].id /\ c[n].id = a[j].id
  BY DEF InOrder
<1>2. \E k, l \in 1 .. Len(b) :
        /\ k <= l /\ (i < j => k < l) /\ b[k].id = a[i].id /\ b[l].id = a[j].id
  BY <1>1, InOrderPair
<1>3. PICK k \in 1 .. Len(b), l \in 1 .. Len(b) :
        /\ k <= l /\ (i < j => k < l) /\ b[k].id = a[i].id /\ b[l].id = a[j].id
  BY <1>2
<1>4. b[l].id \notin X
  BY <1>1, <1>3
<1>5. \E m, n \in 1 .. Len(c) :
        /\ m <= n /\ (k < l => m < n) /\ c[m].id = b[k].id /\ c[n].id = b[l].id
  BY <1>3, <1>4, InOrderPair
<1>6. QED BY <1>3, <1>5

LEMMA InOrderSame ==
  ASSUME NEW q, NEW X
  PROVE InOrder(q, q, X)
BY DEF InOrder

LEMMA InOrderEmpty ==
  ASSUME NEW q, NEW X
  PROVE InOrder(<<>>, q, X)
<1>1. 1 .. Len(<<>>) = {}
  OBVIOUS
<1>2. QED BY <1>1 DEF InOrder

LEMMA RemovedInOrder ==
  ASSUME NEW q, NEW r, NEW X, Len(q) \in Nat, NEW i \in 1 .. Len(q), Len(r) = Len(q) - 1,
         \A k \in 1 .. (Len(q) - 1) : r[k] = IF k < i THEN q[k] ELSE q[k + 1]
  PROVE InOrder(r, q, X)
<1> DEFINE at(k) == IF k < i THEN k ELSE k + 1
<1>1. \A k \in 1 .. Len(r) : at(k) \in 1 .. Len(q) /\ r[k].id = q[at(k)].id
  OBVIOUS
<1>2. \A k, l \in 1 .. Len(r) : /\ k <= l => at(k) <= at(l)
                                /\ k < l => at(k) < at(l)
  OBVIOUS
<1> HIDE DEF at
<1>3. QED BY <1>1, <1>2 DEF InOrder

LEMMA ReplacedInOrder ==
  ASSUME NEW q, NEW r, NEW X, Len(r) = Len(q), \A k \in 1 .. Len(q) : r[k].id = q[k].id
  PROVE InOrder(r, q, X)
BY DEF InOrder

LEMMA AppendedInOrder ==
  ASSUME NEW q, NEW r, NEW X, Len(q) \in Nat, Len(r) = Len(q) + 1,
         \A k \in 1 .. Len(q) : r[k] = q[k], r[Len(q) + 1].id \in X
  PROVE InOrder(r, q, X)
<1>1. SUFFICES ASSUME NEW i \in 1 .. Len(r), NEW j \in 1 .. Len(r), i <= j, r[j].id \notin X
               PROVE \E k, l \in 1 .. Len(q) : /\ k <= l /\ (i < j => k < l)
                                               /\ q[k].id = r[i].id /\ q[l].id = r[j].id
  BY DEF InOrder
<1>2. j # Len(q) + 1
  BY <1>1
<1>3. i \in 1 .. Len(q) /\ j \in 1 .. Len(q)
  BY <1>1, <1>2
<1>4. q[i].id = r[i].id /\ q[j].id = r[j].id
  BY <1>3
<1>5. QED BY <1>1, <1>3, <1>4

(* A book whose lists are lists. *)
LEMMA ListIs ==
  ASSUME NEW book, GoodBook(book), NEW s \in Sides, NEW p
  PROVE ListAt(book, s, p) \in Seq(Order) /\ Len(ListAt(book, s, p)) \in Nat
<1>1. ListAt(book, s, p) \in Seq(Order)
  <2>1. CASE p \in DOMAIN book.levels[s]
    <3>1. book.levels[s][p] \in Level BY <2>1, BookParts DEF GoodBook
    <3>2. QED BY <2>1, <3>1 DEF ListAt, Level
  <2>2. CASE p \notin DOMAIN book.levels[s]
    BY <2>2 DEF ListAt
  <2>3. QED BY <2>1, <2>2
<1>2. QED BY <1>1, LenProperties

LEMMA KeepsThrough ==
  ASSUME NEW a, NEW b, NEW c, NEW X, GoodBook(a), GoodBook(b), GoodBook(c),
         KeepsOrder(a, b, X), KeepsOrder(b, c, X)
  PROVE KeepsOrder(a, c, X)
<1>1. SUFFICES ASSUME NEW s \in Sides, NEW p
               PROVE InOrder(ListAt(a, s, p), ListAt(c, s, p), X)
  BY DEF KeepsOrder
<1>2. InOrder(ListAt(a, s, p), ListAt(b, s, p), X) /\ InOrder(ListAt(b, s, p), ListAt(c, s, p), X)
  BY DEF KeepsOrder
<1>3. Len(ListAt(a, s, p)) \in Nat /\ Len(ListAt(b, s, p)) \in Nat /\ Len(ListAt(c, s, p)) \in Nat
  BY ListIs
<1>4. QED BY <1>2, <1>3, InOrderThrough

LEMMA KeepsSame ==
  ASSUME NEW book, NEW X
  PROVE KeepsOrder(book, book, X)
BY InOrderSame DEF KeepsOrder

(* More orders may be left out. *)
LEMMA KeepsBut ==
  ASSUME NEW new, NEW old, NEW X, NEW Y, X \subseteq Y, KeepsOrder(new, old, X)
  PROVE KeepsOrder(new, old, Y)
BY DEF KeepsOrder, InOrder

LEMMA EmptyInOrder ==
  ASSUME NEW book, NEW X
  PROVE KeepsOrder(EmptyBook, book, X)
<1>1. ASSUME NEW s \in Sides, NEW p PROVE ListAt(EmptyBook, s, p) = <<>>
  BY DEF ListAt, EmptyBook, EmptyMap
<1>2. QED BY <1>1, InOrderEmpty DEF KeepsOrder

(* A level is set, or dropped. *)
LEMMA SetLevelInOrder ==
  ASSUME NEW book, GoodBook(book), NEW side \in Sides, NEW px, NEW level, NEW loc, NEW X,
         InOrder(level.q, ListAt(book, side, px), X)
  PROVE KeepsOrder([levels |-> SetLevel(book, side, px, level), loc |-> loc], book, X)
<1> DEFINE new == [levels |-> SetLevel(book, side, px, level), loc |-> loc]
<1>1. DOMAIN book.levels = Sides
  BY BookParts DEF GoodBook
<1>2. \A s \in Sides : new.levels[s] = IF s = side THEN Put(book.levels[side], px, level)
                                       ELSE book.levels[s]
  BY <1>1 DEF SetLevel
<1> HIDE DEF new
<1>3. ASSUME NEW s \in Sides, NEW p
      PROVE ListAt(new, s, p) = IF s = side /\ p = px THEN level.q ELSE ListAt(book, s, p)
  <2>1. CASE s = side
    <3> DEFINE old == book.levels[side]
               now == new.levels[s]
    <3>1. now = [x \in DOMAIN old \cup {px} |-> IF x = px THEN level ELSE old[x]]
      BY <1>2, <2>1 DEF Put
    <3>2. ListAt(new, s, p) = IF p \in DOMAIN now THEN now[p].q ELSE <<>>
      BY DEF ListAt
    <3>3. ListAt(book, s, p) = IF p \in DOMAIN old THEN old[p].q ELSE <<>>
      BY <2>1 DEF ListAt
    <3> HIDE DEF now, old
    <3>4. /\ p \in DOMAIN now <=> p \in DOMAIN old \/ p = px
          /\ p \in DOMAIN now => now[p] = IF p = px THEN level ELSE old[p]
      BY <3>1
    <3>5. QED BY <2>1, <3>2, <3>3, <3>4
  <2>2. CASE s # side
    BY <1>2, <2>2 DEF ListAt
  <2>3. QED BY <2>1, <2>2
<1>4. ASSUME NEW s \in Sides, NEW p
      PROVE InOrder(ListAt(new, s, p), ListAt(book, s, p), X)
  <2>1. CASE s = side /\ p = px
    BY <1>3, <2>1
  <2>2. CASE ~(s = side /\ p = px)
    <3>1. ListAt(new, s, p) = ListAt(book, s, p) BY <1>3, <2>2
    <3>2. QED BY <3>1, InOrderSame
  <2>3. QED BY <2>1, <2>2
<1>5. QED BY <1>4 DEF KeepsOrder, new

LEMMA DropLevelInOrder ==
  ASSUME NEW book, GoodBook(book), NEW side \in Sides, NEW px, NEW loc, NEW X
  PROVE KeepsOrder([levels |-> DropLevel(book, side, px), loc |-> loc], book, X)
<1> DEFINE new == [levels |-> DropLevel(book, side, px), loc |-> loc]
<1>1. DOMAIN book.levels = Sides
  BY BookParts DEF GoodBook
<1>2. \A s \in Sides : new.levels[s] = IF s = side THEN Erase(book.levels[side], px)
                                       ELSE book.levels[s]
  BY <1>1 DEF DropLevel
<1> HIDE DEF new
<1>3. ASSUME NEW s \in Sides, NEW p
      PROVE InOrder(ListAt(new, s, p), ListAt(book, s, p), X)
  <2> DEFINE now == new.levels[s]
             old == book.levels[s]
  <2>1. /\ DOMAIN now \subseteq DOMAIN old
        /\ \A x \in DOMAIN now : now[x] = old[x]
    BY <1>2 DEF Erase
  <2>2. /\ ListAt(new, s, p) = IF p \in DOMAIN now THEN now[p].q ELSE <<>>
        /\ ListAt(book, s, p) = IF p \in DOMAIN old THEN old[p].q ELSE <<>>
    BY DEF ListAt
  <2> HIDE DEF now, old
  <2>3. CASE p \in DOMAIN now
    <3>1. ListAt(new, s, p) = ListAt(book, s, p) BY <2>1, <2>2, <2>3
    <3>2. QED BY <3>1, InOrderSame
  <2>4. CASE p \notin DOMAIN now
    <3>1. ListAt(new, s, p) = <<>> BY <2>2, <2>4
    <3>2. QED BY <3>1, InOrderEmpty
  <2>5. QED BY <2>3, <2>4
<1>4. QED BY <1>3 DEF KeepsOrder, new

(* add_resting_limit: the order joins its level behind those that are there. *)
LEMMA AddInOrder ==
  ASSUME NEW book, GoodBook(book), NEW o \in Order, NEW X, o.id \in X
  PROVE KeepsOrder(AddRestingLimit(book, o).book, book, X)
<1> DEFINE add == AddRestingLimit(book, o)
           levels == book.levels[o.side]
           level == IF o.price \in DOMAIN levels THEN levels[o.price] ELSE EmptyLevel
           grown == [q |-> Append(level.q, o), total_qty |-> level.total_qty + o.qty]
           loc == Put(book.loc, o.id, [side |-> o.side, price |-> o.price])
<1>1. o.side \in Sides
  BY DEF Order, Sides
<1>2. \/ add.book = book
      \/ add.book = [levels |-> SetLevel(book, o.side, o.price, grown), loc |-> loc]
  BY DEF AddRestingLimit, Failed, Done
<1>3. level.q = ListAt(book, o.side, o.price)
  BY DEF ListAt, EmptyLevel
<1>4. grown.q = Append(level.q, o)
  OBVIOUS
<1> HIDE DEF add, level, grown, loc, levels
<1>5. level.q \in Seq(Order) /\ Len(level.q) \in Nat
  BY <1>1, <1>3, ListIs
<1>6. /\ Len(grown.q) = Len(level.q) + 1
      /\ \A k \in 1 .. Len(level.q) : grown.q[k] = level.q[k]
      /\ grown.q[Len(level.q) + 1] = o
  BY <1>4, <1>5, AppendOrders
<1>7. InOrder(grown.q, ListAt(book, o.side, o.price), X)
  <2>1. grown.q[Len(level.q) + 1].id \in X BY <1>6
  <2>2. InOrder(grown.q, level.q, X) BY <1>5, <1>6, <2>1, AppendedInOrder
  <2>3. QED BY <1>3, <2>2
<1>8. KeepsOrder([levels |-> SetLevel(book, o.side, o.price, grown), loc |-> loc], book, X)
  BY <1>1, <1>7, SetLevelInOrder
<1>9. QED BY <1>2, <1>8, KeepsSame DEF add

(* cancel: the others keep their places. *)
LEMMA CancelInOrder ==
  ASSUME NEW book, GoodBook(book), NEW id, NEW X
  PROVE KeepsOrder(Cancel(book, id).book, book, X)
<1> DEFINE at == book.loc[id]
           side == at.side
           px == at.price
           level == book.levels[side][px]
           q == level.q
           i == Node(q, id)
           r == RemoveAt(q, i)
           rest == [q |-> r, total_qty |-> level.total_qty - q[i].qty]
           loc == Erase(book.loc, id)
           new == Cancel(book, id).book
<1>1. CASE id \notin DOMAIN book.loc
  <2>1. new = book BY <1>1 DEF Cancel, Failed
  <2>2. QED BY <2>1, KeepsSame
<1>2. CASE id \in DOMAIN book.loc
  <2>1. side \in Sides /\ px \in DOMAIN book.levels[side] /\ Holds(level, id)
    <3>1. Located(book) /\ IsMap(book.loc, Ids, Locator) BY DEF GoodBook, IsBook
    <3>2. at \in Locator BY <1>2, <3>1 DEF IsMap
    <3>3. QED BY <1>2, <3>1, <3>2 DEF Located, Locator
  <2>2. \/ new = [levels |-> DropLevel(book, side, px), loc |-> loc]
        \/ new = [levels |-> SetLevel(book, side, px, rest), loc |-> loc]
    BY <1>2, <2>1 DEF Cancel, HasLevel, Done, CancelFound
  <2>3. q = ListAt(book, side, px) /\ rest.q = r
    BY <2>1 DEF ListAt
  <2> HIDE DEF new, side, px, loc, rest
  <2>4. q \in Seq(Order) /\ Len(q) \in Nat
    BY <2>1, <2>3, ListIs
  <2>5. \E k \in 1 .. Len(q) : q[k].id = id
    BY <2>1 DEF Holds
  <2> HIDE DEF q, level
  <2>6. i \in 1 .. Len(q)
    BY <2>4, <2>5, NodeIsThere
  <2> HIDE DEF i
  <2>7. /\ Len(r) = Len(q) - 1
        /\ \A k \in 1 .. (Len(q) - 1) : r[k] = IF k < i THEN q[k] ELSE q[k + 1]
    BY <2>4, <2>6, RemoveAtOrders
  <2> HIDE DEF r
  <2>8. InOrder(rest.q, ListAt(book, side, px), X)
    <3>1. InOrder(r, q, X) BY <2>4, <2>6, <2>7, RemovedInOrder
    <3>2. QED BY <2>3, <3>1
  <2>9. KeepsOrder([levels |-> SetLevel(book, side, px, rest), loc |-> loc], book, X)
    BY <2>1, <2>8, SetLevelInOrder
  <2>10. KeepsOrder([levels |-> DropLevel(book, side, px), loc |-> loc], book, X)
    BY <2>1, DropLevelInOrder
  <2>11. QED BY <2>2, <2>9, <2>10 DEF new
<1>3. QED BY <1>1, <1>2

(* modify_qty: a reduced order keeps its place. *)
LEMMA ModifyInOrder ==
  ASSUME NEW book, GoodBook(book), NEW id, NEW new_qty \in Int, NEW X
  PROVE KeepsOrder(ModifyQty(book, id, new_qty).book, book, X)
<1> DEFINE at == book.loc[id]
           side == at.side
           px == at.price
           level == book.levels[side][px]
           q == level.q
           i == Node(q, id)
           old == q[i]
           o == [old EXCEPT !.qty = new_qty]
           r == [q EXCEPT ![i] = o]
           less == [q |-> r, total_qty |-> level.total_qty - (old.qty - new_qty)]
           new == ModifyQty(book, id, new_qty).book
<1>1. CASE new_qty <= 0
  <2>1. new = Cancel(book, id).book BY <1>1 DEF ModifyQty
  <2>2. QED BY <2>1, CancelInOrder
<1>2. CASE ~(new_qty <= 0) /\ id \notin DOMAIN book.loc
  <2>1. new = book BY <1>2 DEF ModifyQty, Failed
  <2>2. QED BY <2>1, KeepsSame
<1>3. CASE ~(new_qty <= 0) /\ id \in DOMAIN book.loc
  <2>1. side \in Sides /\ px \in DOMAIN book.levels[side] /\ Holds(level, id)
    <3>1. Located(book) /\ IsMap(book.loc, Ids, Locator) BY DEF GoodBook, IsBook
    <3>2. at \in Locator BY <1>3, <3>1 DEF IsMap
    <3>3. QED BY <1>3, <3>1, <3>2 DEF Located, Locator
  <2>2. \/ new = book
        \/ new = [levels |-> SetLevel(book, side, px, less), loc |-> book.loc]
    BY <1>3, <2>1 DEF ModifyQty, HasLevel, Reduced, Failed, Done
  <2>3. q = ListAt(book, side, px) /\ less.q = r
    BY <2>1 DEF ListAt
  <2> HIDE DEF new, side, px, less
  <2>4. q \in Seq(Order) /\ Len(q) \in Nat
    BY <2>1, <2>3, ListIs
  <2>5. \E k \in 1 .. Len(q) : q[k].id = id
    BY <2>1 DEF Holds
  <2> HIDE DEF q, level
  <2>6. i \in 1 .. Len(q)
    BY <2>4, <2>5, NodeIsThere
  <2> HIDE DEF i
  <2>7. o \in Order /\ o.id = q[i].id
    <3>1. old \in Order BY <2>4, <2>6, ElementOfSeq
    <3>2. QED BY <3>1 DEF Order
  <2> HIDE DEF o
  <2>8. Len(r) = Len(q) /\ \A k \in 1 .. Len(q) : r[k].id = q[k].id
    <3>1. Len(r) = Len(q) /\ \A k \in 1 .. Len(q) : r[k] = IF k = i THEN o ELSE q[k]
      BY <2>4, <2>6, <2>7, ReplaceOrders
    <3>2. QED BY <2>7, <3>1
  <2> HIDE DEF r
  <2>9. InOrder(less.q, ListAt(book, side, px), X)
    <3>1. InOrder(r, q, X) BY <2>8, ReplacedInOrder
    <3>2. QED BY <2>3, <3>1
  <2>10. KeepsOrder([levels |-> SetLevel(book, side, px, less), loc |-> book.loc], book, X)
    BY <2>1, <2>9, SetLevelInOrder
  <2>11. QED BY <2>2, <2>10, KeepsSame DEF new
<1>4. QED BY <1>1, <1>2, <1>3

(* A fill at the front: the front order keeps its place or leaves. *)
LEMMA FrontInOrder ==
  ASSUME NEW book, Tidy(book), NEW side \in Sides, Best(book, side) # None, NEW n, NEW X
  PROVE KeepsOrder(FrontFilled(book, side, n), book, X)
<1> DEFINE px == Best(book, side)
           level == book.levels[side][px]
           q == level.q
           maker == Head(q)
           left == [maker EXCEPT !.qty = maker.qty - n]
           r == IF left.qty = 0 THEN Tail(q) ELSE <<left>> \o Tail(q)
           rest == [q |-> r, total_qty |-> level.total_qty - n]
           loc == IF left.qty = 0 THEN Erase(book.loc, maker.id) ELSE book.loc
           new == FrontFilled(book, side, n)
<1>1. px \in DOMAIN book.levels[side] /\ q # <<>>
  BY FrontRests
<1>2. \/ new = [levels |-> DropLevel(book, side, px), loc |-> loc]
      \/ new = [levels |-> SetLevel(book, side, px, rest), loc |-> loc]
  BY DEF FrontFilled, FrontOf
<1>3. q = ListAt(book, side, px) /\ rest.q = r /\ GoodBook(book)
  BY <1>1 DEF ListAt, Tidy
<1> HIDE DEF new, px, rest, loc
<1>4. q \in Seq(Order) /\ Len(q) \in Nat
  BY <1>3, ListIs
<1> HIDE DEF level, q
<1>5. /\ maker = q[1] /\ 1 \in 1 .. Len(q) /\ maker \in Order
      /\ Tail(q) \in Seq(Order) /\ Len(Tail(q)) = Len(q) - 1
      /\ \A k \in 1 .. (Len(q) - 1) : Tail(q)[k] = q[k + 1]
  BY <1>1, <1>4, TailOrders
<1> HIDE DEF maker
<1>6. left.id = maker.id
  BY <1>5 DEF Order
<1> HIDE DEF left
<1>7. InOrder(r, q, X)
  <2>1. CASE left.qty = 0
    <3>1. r = Tail(q) BY <2>1
    <3> HIDE DEF r
    <3> DEFINE one == 1
    <3>2. one \in 1 .. Len(q) BY <1>5
    <3>3. \A k \in 1 .. (Len(q) - 1) : r[k] = IF k < one THEN q[k] ELSE q[k + 1]
      <4>1. \A k \in 1 .. (Len(q) - 1) : ~(k < 1) BY <1>4
      <4>2. QED BY <1>5, <3>1, <4>1
    <3>4. Len(r) = Len(q) - 1 BY <1>5, <3>1
    <3> HIDE DEF one
    <3>5. QED BY <1>4, <3>2, <3>3, <3>4, RemovedInOrder
  <2>2. CASE left.qty # 0
    <3>1. r = <<left>> \o Tail(q) BY <2>2
    <3> HIDE DEF r
    <3> DEFINE t == Tail(q)
               h == <<left>>
    <3>2. h \in Seq({left}) /\ Len(h) = 1 /\ h[1] = left
      OBVIOUS
    <3>3. t \in Seq(Order) /\ Len(t) = Len(q) - 1 /\ \A k \in 1 .. (Len(q) - 1) : t[k] = q[k + 1]
      BY <1>5
    <3>4. r = h \o t BY <3>1
    <3> HIDE DEF t, h
    <3>5. /\ Len(r) = Len(h) + Len(t)
          /\ \A k \in 1 .. Len(h) + Len(t) : r[k] = IF k <= Len(h) THEN h[k] ELSE t[k - Len(h)]
      <4> DEFINE S == Order \cup {left}
      <4>1. h \in Seq(S) /\ t \in Seq(S) BY <3>2, <3>3
      <4> HIDE DEF S
      <4>2. QED BY <3>4, <4>1, ConcatProperties
    <3>6. Len(r) = Len(q) BY <1>4, <3>2, <3>3, <3>5
    <3>7. ASSUME NEW k \in 1 .. Len(q) PROVE r[k].id = q[k].id
      <4>1. k \in 1 .. Len(h) + Len(t) BY <1>4, <3>2, <3>3
      <4>2. CASE k = 1
        <5>1. r[k] = left BY <3>2, <3>5, <4>1, <4>2
        <5>2. QED BY <1>5, <1>6, <4>2, <5>1
      <4>3. CASE k # 1
        <5>1. ~(k <= Len(h)) /\ k - Len(h) \in 1 .. (Len(q) - 1) /\ (k - Len(h)) + 1 = k
          BY <1>4, <3>2, <4>3
        <5>2. r[k] = t[k - Len(h)] BY <3>5, <4>1, <5>1
        <5>3. t[k - Len(h)] = q[(k - Len(h)) + 1] BY <3>3, <5>1
        <5>4. QED BY <5>1, <5>2, <5>3
      <4>4. QED BY <4>2, <4>3
    <3>8. QED BY <3>6, <3>7, ReplacedInOrder
  <2>3. QED BY <2>1, <2>2
<1> HIDE DEF r
<1>8. InOrder(rest.q, ListAt(book, side, px), X)
  BY <1>3, <1>7
<1>9. KeepsOrder([levels |-> SetLevel(book, side, px, rest), loc |-> loc], book, X)
  BY <1>3, <1>8, SetLevelInOrder
<1>10. KeepsOrder([levels |-> DropLevel(book, side, px), loc |-> loc], book, X)
  BY <1>3, DropLevelInOrder
<1>11. QED BY <1>2, <1>9, <1>10 DEF new

(* In terms of places: two orders of a level come from one level, in the same
   order. *)
LEMMA PlacesInOrder ==
  ASSUME NEW new, NEW old, NEW X, KeepsOrder(new, old, X), GoodBook(new), GoodBook(old),
         NEW a \in Places(new), NEW b \in Places(new), a.side = b.side, a.px = b.px,
         a.i <= b.i, OrderAt(new, b).id \notin X
  PROVE \E c, d \in Places(old) :
          /\ c.side = a.side /\ c.px = a.px /\ d.side = a.side /\ d.px = a.px
          /\ c.i \in Nat /\ d.i \in Nat /\ c.i <= d.i /\ (a.i < b.i => c.i < d.i)
          /\ OrderAt(old, c).id = OrderAt(new, a).id
          /\ OrderAt(old, d).id = OrderAt(new, b).id
<1> DEFINE s == a.side
           p == a.px
           r == ListAt(new, s, p)
           q == ListAt(old, s, p)
<1>1. /\ s \in Sides /\ p \in DOMAIN new.levels[s] /\ a.i \in DOMAIN new.levels[s][p].q
      /\ b.i \in DOMAIN new.levels[s][p].q
  BY DEF Places
<1>2. r = new.levels[s][p].q
  BY <1>1 DEF ListAt
<1>3. OrderAt(new, a) = r[a.i] /\ OrderAt(new, b) = r[b.i]
  BY <1>2 DEF OrderAt
<1>4. InOrder(r, q, X)
  BY <1>1 DEF KeepsOrder
<1>5. /\ r \in Seq(Order) /\ DOMAIN r = 1 .. Len(r) /\ q \in Seq(Order) /\ DOMAIN q = 1 .. Len(q)
      /\ Len(q) \in Nat
  BY <1>1, ListIs, LenProperties
<1>6. q # <<>> => p \in DOMAIN old.levels[s] /\ q = old.levels[s][p].q
  BY DEF ListAt
<1> HIDE DEF r, q, s, p
<1>7. \E k, l \in 1 .. Len(q) :
        /\ k <= l /\ (a.i < b.i => k < l) /\ q[k].id = r[a.i].id /\ q[l].id = r[b.i].id
  <2>1. a.i \in 1 .. Len(r) /\ b.i \in 1 .. Len(r) /\ r[b.i].id \notin X
    BY <1>1, <1>2, <1>3, <1>5
  <2> DEFINE m == a.i
             n == b.i
  <2>2. m \in 1 .. Len(r) /\ n \in 1 .. Len(r) /\ m <= n /\ r[n].id \notin X
    BY <2>1
  <2> HIDE DEF m, n
  <2>3. \E k, l \in 1 .. Len(q) :
          k <= l /\ (m < n => k < l) /\ q[k].id = r[m].id /\ q[l].id = r[n].id
    BY <1>4, <2>2, InOrderPair
  <2>4. QED BY <2>3 DEF m, n
<1>8. PICK k \in 1 .. Len(q), l \in 1 .. Len(q) :
        /\ k <= l /\ (a.i < b.i => k < l) /\ q[k].id = r[a.i].id /\ q[l].id = r[b.i].id
  BY <1>7
<1>9. q # <<>>
  <2>1. Len(q) # 0 BY <1>5, <1>8
  <2>2. QED BY <1>5, <2>1, EmptySeq
<1> DEFINE c == [side |-> s, px |-> p, i |-> k]
           d == [side |-> s, px |-> p, i |-> l]
<1>10. c \in Places(old) /\ d \in Places(old)
  <2>1. k \in DOMAIN old.levels[s][p].q /\ l \in DOMAIN old.levels[s][p].q /\ p \in DOMAIN old.levels[s]
    BY <1>5, <1>6, <1>9
  <2>2. QED BY <1>1, <2>1 DEF Places
<1>11. OrderAt(old, c) = q[k] /\ OrderAt(old, d) = q[l]
  BY <1>6, <1>9 DEF OrderAt
<1>12. /\ c.side = s /\ c.px = p /\ d.side = s /\ d.px = p
       /\ c.i = k /\ d.i = l /\ k \in Nat /\ l \in Nat
  OBVIOUS
<1> HIDE DEF c, d
<1>13. QED BY <1>3, <1>8, <1>10, <1>11, <1>12 DEF s, p
=============================================================================
