------------------------------ MODULE Exchange ------------------------------
(***************************************************************************)
(* What an engine promises its users, without a book, a queue, prices or   *)
(* phases: an order that has entered may trade up to its quantity, until   *)
(* it is closed; what is bought is sold; and while the exchange is frozen, *)
(* until a time announced at the start, nothing trades.                    *)
(*                                                                         *)
(* EngineProperties maps the machine of the engine to this one.            *)
(***************************************************************************)
EXTENDS Integers, Functions

CONSTANT Offers  \* the orders that may enter: records with a side and a qty

VARIABLES
  entered,  \* the orders that have entered
  open,     \* order -> the quantity that may still trade
  traded,   \* order -> the quantity that has traded
  frozen,   \* is trading suspended?
  until,    \* the time before which a suspension does not end
  clock     \* the time of the latest step

xvars == <<entered, open, traded, frozen, until, clock>>

Init ==
  /\ entered = {} /\ frozen = FALSE
  /\ open = [o \in {} |-> 0] /\ traded = [o \in {} |-> 0]
  /\ until = 0 /\ clock = 0

(* An order for nothing, or for less, has nothing to trade. *)
Size(o) == IF o.qty > 0 THEN o.qty ELSE 0

TradedOf(o) == IF o \in entered THEN traded[o] ELSE 0
OpenOf(o)   == IF o \in entered THEN open[o] ELSE Size(o)

(* No order trades or keeps more than it had or brings: what is closed stays
   closed, and what has traded has traded. *)
Accounted ==
  \A o \in entered' :
    /\ traded'[o] \in Nat /\ traded'[o] >= TradedOf(o)
    /\ open'[o] \in 0 .. (TradedOf(o) + OpenOf(o) - traded'[o])

(* What the orders of one side trade in the step. *)
Turnover(side) ==
  SumFunctionOnSet([o \in entered' |-> traded'[o] - TradedOf(o)],
                   {o \in entered' : o.side = side})

(* Nothing trades, and the suspension is not shortened. *)
Suspended ==
  frozen' /\ until' = until /\ \A o \in entered' : traded'[o] = TradedOf(o)

(* One call of a user, or time passing: at most one order enters. *)
Step(new) ==
  /\ entered' = entered \cup new
  /\ clock' >= clock
  /\ Accounted
  /\ Turnover("Buy") = Turnover("Sell")
  /\ frozen /\ clock' < until => Suspended

Next == \E new \in {{}} \cup {{o} : o \in Offers \ entered} : Step(new)

Spec == Init /\ [][Next]_xvars

----------------------------------------------------------------------------
(* No order trades more than it was entered for, and what may still trade is at
   most what it has not traded. *)
NoOverfill == \A o \in entered : traded[o] + open[o] <= Size(o)

(* An order that has nothing left never trades again and is never reopened. *)
ClosedForGood ==
  [][\A o \in entered : open[o] = 0 => open'[o] = 0 /\ traded'[o] = traded[o]]_xvars
=============================================================================
