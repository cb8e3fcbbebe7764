--------------------------- MODULE ExchangeProofs ---------------------------
(***************************************************************************)
(* What follows from the promises of Exchange, for every set of orders.    *)
(* The run that checks the refinement carries it over to the engine.       *)
(***************************************************************************)
EXTENDS Exchange, TLAPS

Sized == \A o \in Offers : o.qty \in Int

(* The inductive invariant: what an order has traded and may still trade are
   quantities, and together no more than it was entered for. *)
Covered ==
  /\ entered \subseteq Offers
  /\ \A o \in entered : open[o] \in Nat /\ traded[o] \in Nat
  /\ NoOverfill

(* A step keeps it, newcomers included. *)
LEMMA StepCovers ==
  ASSUME Sized, Covered, [Next]_xvars
  PROVE Covered'
<1>1. CASE UNCHANGED xvars
  BY <1>1 DEF Covered, NoOverfill, xvars
<1>2. ASSUME NEW new \in {{}} \cup {{o} : o \in Offers \ entered}, Step(new)
      PROVE Covered'
  <2>1. entered' = entered \cup new /\ entered' \subseteq Offers
    BY <1>2 DEF Step, Covered
  <2>2. ASSUME NEW o \in entered'
        PROVE open'[o] \in Nat /\ traded'[o] \in Nat /\ traded'[o] + open'[o] <= Size(o)
    <3>1. Size(o) \in Nat
      BY <2>1 DEF Sized, Size
    <3>2. TradedOf(o) + OpenOf(o) <= Size(o) /\ TradedOf(o) \in Nat /\ OpenOf(o) \in Nat
      BY <3>1 DEF Covered, NoOverfill, TradedOf, OpenOf
    <3>3. traded'[o] \in Nat /\ open'[o] \in 0 .. (TradedOf(o) + OpenOf(o) - traded'[o])
      BY <1>2 DEF Step, Accounted
    <3>4. QED BY <3>1, <3>2, <3>3
  <2>3. QED BY <2>1, <2>2 DEF Covered, NoOverfill
<1>3. QED BY <1>1, <1>2 DEF Next

(* No order is overfilled, whatever the calls. *)
THEOREM ExchangeNoOverfill == Sized => (Spec => []NoOverfill)
<1>1. Init => Covered
  BY DEF Init, Covered, NoOverfill
<1>2. Sized /\ Covered /\ [Next]_xvars => Covered'
  BY StepCovers
<1>3. Covered => NoOverfill
  BY DEF Covered
<1>4. Sized => []Sized
  <2>1. Sized => Sized'
    BY DEF Sized
  <2>2. QED BY <2>1, PTL
<1>5. QED BY <1>1, <1>2, <1>3, <1>4, PTL DEF Spec

(* A closed order stays closed in every step. *)
LEMMA StepCloses ==
  ASSUME Covered, Next, NEW o \in entered, open[o] = 0
  PROVE open'[o] = 0 /\ traded'[o] = traded[o]
<1>1. PICK new \in {{}} \cup {{p} : p \in Offers \ entered} : Step(new)
  BY DEF Next
<1>2. o \in entered'
  BY <1>1 DEF Step
<1>3. traded'[o] \in Nat /\ traded'[o] >= traded[o]
  BY <1>1, <1>2 DEF Step, Accounted, TradedOf
<1>4. open'[o] \in 0 .. (traded[o] + open[o] - traded'[o])
  BY <1>1, <1>2 DEF Step, Accounted, TradedOf, OpenOf
<1>5. QED BY <1>3, <1>4 DEF Covered

(* What is closed never trades again and never comes back. *)
THEOREM ExchangeClosedForGood == Sized => (Spec => ClosedForGood)
<1>1. Init => Covered
  BY DEF Init, Covered, NoOverfill
<1>2. Sized /\ Covered /\ [Next]_xvars => Covered'
  BY StepCovers
<1>3. Covered /\ [Next]_xvars
      => [\A o \in entered : open[o] = 0 => open'[o] = 0 /\ traded'[o] = traded[o]]_xvars
  BY StepCloses
<1>4. Sized => []Sized
  <2>1. Sized => Sized'
    BY DEF Sized
  <2>2. QED BY <2>1, PTL
<1>5. QED BY <1>1, <1>2, <1>3, <1>4, PTL DEF Spec, ClosedForGood
=============================================================================
