----------------------------- MODULE PoolLedger -----------------------------
(***************************************************************************)
(* What a pool promises its lenders, without how it comes about: a stock   *)
(* of tokens, part of it lent out, of which each holder owns a share.      *)
(* Holders come and go at the going price, nobody's shares change but by   *)
(* their own trade, and besides trades the stock only grows.               *)
(***************************************************************************)
EXTENDS Integers

CONSTANTS Pools, Holders

VARIABLES
  stock,   \* the tokens each pool owes its holders, those lent out included
  issued,  \* how many shares there are of each pool
  holding  \* how many of them each holder has

ledgerVars == <<stock, issued, holding>>

LedgerInit ==
  /\ stock = [p \in Pools |-> 0]
  /\ issued = [p \in Pools |-> 0]
  /\ holding = [p \in Pools |-> [h \in Holders |-> 0]]

\* So many shares are a price for so many tokens: the first shares are a token
\* each, and after that as many as the tokens are worth, without the fraction.
IsPrice(p, tokens, shares) ==
  IF stock[p] = 0
  THEN shares = tokens
  ELSE /\ shares * stock[p] <= tokens * issued[p]
       /\ tokens * issued[p] < shares * stock[p] + stock[p]

Trade(p, h, tokens, shares) ==
  /\ stock' = [stock EXCEPT ![p] = @ + tokens]
  /\ issued' = [issued EXCEPT ![p] = @ + shares]
  /\ holding' = [holding EXCEPT ![p][h] = @ + shares]

Buy(p, h) ==
  LET tokens == stock'[p] - stock[p]
      shares == issued'[p] - issued[p]
  IN  /\ tokens > 0
      /\ shares >= 0
      /\ IsPrice(p, tokens, shares)
      /\ Trade(p, h, tokens, shares)

Sell(p, h) ==
  LET tokens == stock[p] - stock'[p]
      shares == issued[p] - issued'[p]
  IN  /\ tokens \in 1 .. stock[p]
      /\ shares \in 0 .. holding[p][h]
      /\ IsPrice(p, tokens, shares)
      /\ Trade(p, h, -tokens, -shares)

\* Interest that is paid is everybody's.
Earn(p) ==
  /\ stock'[p] > stock[p]
  /\ stock' = [stock EXCEPT ![p] = stock'[p]]
  /\ UNCHANGED <<issued, holding>>

LedgerNext ==
  \/ \E p \in Pools, h \in Holders : Buy(p, h) \/ Sell(p, h)
  \/ \E p \in Pools : Earn(p)

LedgerSpec == LedgerInit /\ [][LedgerNext]_ledgerVars

=============================================================================
