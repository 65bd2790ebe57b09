------------------------------- MODULE MCBot -------------------------------
(***************************************************************************)
(* Small instances of the bot.  A loan of 60 against 100 is healthy at     *)
(* equal prices and not when the collateral's falls to 7 tenths; one of 30 *)
(* is healthy at both.  A column takes the numbers below 128, so that the  *)
(* debt of the wide loan is nothing there, and its collateral negative.    *)
(***************************************************************************)
EXTENDS BotSafety

CONSTANTS Borrower, XLM, EURC, AQUA

Loan(borrowed, from, collateralFrom) ==
  [borrowed |-> borrowed, from |-> from, collateral |-> 100, collateralFrom |-> collateralFrom]

KnownLoans == {Loan(60, XLM, EURC), Loan(30, XLM, EURC)}
LoanOfUnknownPool == {Loan(60, AQUA, EURC)}
WideLoan == [borrowed |-> 256, from |-> XLM, collateral |-> 500, collateralFrom |-> EURC]
LoansOfAllPools == KnownLoans \cup LoanOfUnknownPool
LoansOfAllSizes == KnownLoans \cup {WideLoan}

\* The collateral's price falls and rises.
MCPrices == [p \in Pools |-> IF p = EURC THEN {7, 10} ELSE {10}]

=============================================================================
