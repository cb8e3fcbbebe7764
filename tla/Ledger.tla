------------------------------- MODULE Ledger -------------------------------
(***************************************************************************)
(* Accounts (include/msim/ledger.hpp): the fills of a trade are booked to  *)
(* the owners that order_meta_ names for its two orders.                   *)
(***************************************************************************)
EXTENDS MarketTypes, SequencesExt

OrderMeta == [owner : Owners, side : Sides]

Account == [cash : Int, position : Int, traded_qty : Int, notional : Int]

NewAccount == [cash |-> 0, position |-> 0, traded_qty |-> 0, notional |-> 0]

(* accounts[owner] and accounts.find(owner): an unknown owner starts at zero. *)
AccountOf(accounts, owner) ==
  IF owner \in DOMAIN accounts THEN accounts[owner] ELSE NewAccount

(* Account::apply_fill *)
ApplyFill(account, side, px, q) ==
  LET sign == IF side = "Buy" THEN 1 ELSE -1
  IN  [cash |-> account.cash - sign * px * q, position |-> account.position + sign * q,
       traded_qty |-> account.traded_qty + q, notional |-> account.notional + px * q]

Credit(accounts, meta, t) ==
  Put(accounts, meta.owner,
      ApplyFill(AccountOf(accounts, meta.owner), meta.side, t.price, t.qty))

(* Mutant: both sides are booked as the taker's. *)
ApplyTakerTwice(accounts, meta, t) ==
  IF {t.maker, t.taker} \subseteq DOMAIN meta
  THEN Credit(Credit(accounts, meta[t.taker], t), [meta[t.maker] EXCEPT !.side = meta[t.taker].side], t)
  ELSE accounts

(* A trade with an order that is not known is skipped. *)
ApplyTrade(accounts, meta, t) ==
  IF {t.maker, t.taker} \subseteq DOMAIN meta
  THEN Credit(Credit(accounts, meta[t.maker], t), meta[t.taker], t)
  ELSE accounts

(* apply_trades_to_accounts; after[k] are the accounts after k trades. *)
ApplyTrades(accounts, meta, trades) ==
  LET after[k \in 0 .. Len(trades)] ==
        IF k = 0 THEN accounts ELSE ApplyTrade(after[k - 1], meta, trades[k])
  IN  after[Len(trades)]
=============================================================================
