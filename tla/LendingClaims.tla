--------------------------- MODULE LendingClaims ---------------------------
(***************************************************************************)
(* What the repository's texts and tests say of the protocol and the code  *)
(* does not do: each of these has a run that finds it violated.            *)
(***************************************************************************)
EXTENDS MCLending

\* A loan is available for liquidation once the debt is worth as much as the
\* collateral (src/pages/_borrow/BorrowModal/BorrowStep.tsx:182).  What the
\* liquidator takes is the value of the payment and a bonus, so at that point
\* it lowers the health factor, and liquidate refuses it as InvalidLiquidation.
IsUnderwater(id) ==
  LET loan == LoanWithInterest(id)
  IN  twap[loan.from] * loan.borrowed >= twap[loan.collateralFrom] * loan.collateral

UnderwaterIsLiquidatable ==
  \A id \in DOMAIN loans :
    twap = last /\ IsUnderwater(id)
      => \E u \in Users, amount \in 1 .. LoanWithInterest(id).borrowed :
           LiquidateLoanOK(u, id, amount)

\* Interest is added: "add interest to a loan" (contracts/loan_manager/src/
\* contract.rs:168).  Liquidations halve a debt and keep its unpaid interest, so
\* that they may bring more into the pool than it is owed; once a lender withdraws,
\* the utilisation is so far below nothing that the rate is, too, and the
\* add_interest that brings the loan up to date then takes off its debt.
InterestIsAdded == \A id \in DOMAIN loans : GrownDebt(id) >= loans[id].borrowed

=============================================================================
