--------------------------- MODULE LendingSafety ---------------------------
(***************************************************************************)
(* What the lending protocol promises its users, across its contracts.     *)
(***************************************************************************)
EXTENDS LoanManager, Sums

OverUsers(f) == SumTo(f, NumUsers)

\* The sum of Amount over the live loans of user u that satisfy Picked.
OverLoansOf(u, Picked(_), Amount(_)) ==
  SumTo([n \in 1 .. nonce[u] |->
           IF <<u, n>> \in DOMAIN loans /\ Picked(loans[<<u, n>>])
           THEN Amount(loans[<<u, n>>]) ELSE 0], nonce[u])

DebtOf(u, p) ==
  LET FromP(l) == l.from = p
      Debt(l)  == l.borrowed
  IN  OverLoansOf(u, FromP, Debt)

PrincipalOf(u, p) ==
  LET FromP(l)     == l.from = p
      Principal(l) == l.borrowed - l.unpaid
  IN  OverLoansOf(u, FromP, Principal)

SecurityOf(u, q) ==
  LET InQ(l)      == l.collateralFrom = q
      Security(l) == l.collateral
  IN  OverLoansOf(u, InQ, Security)

Principal(p) == OverUsers([u \in Users |-> PrincipalOf(u, p)])

-----------------------------------------------------------------------------
(* Invariants. *)

\* Custody: a pool contract holds exactly the tokens it may lend or pay out,
\* and the collateral of its users.  The three are kept apart by different
\* entry points of two contracts; nothing in the code compares them.
Custody ==
  \A p \in Pools :
    pool[p].tokens[ThePool] =
      pool[p].available + OverUsers([u \in Users |-> pool[p].positions[u].collateral])

\* The shares of the lenders add up to the total the share price is worked
\* out from (loan_pool deposit, withdraw and deposit_collateral).
SharesBacked ==
  \A p \in Pools :
    OverUsers([u \in Users |-> pool[p].positions[u].shares]) = pool[p].shares

\* What the lenders are owed and the pool has not got is lent out: total less
\* available is the principal of the live loans, and what liquidations have
\* paid the manager out of the pool's share without lowering total.
LentIsOwed ==
  \A p \in Pools :
    pool[p].total - pool[p].available = Principal(p) + liquidationFees[p]

\* Every borrower's collateral position covers the collateral of the loans
\* they have: a loan can always get back what it was secured with, and no
\* close or liquidation of one loan eats another's collateral.
CollateralCoversLoans ==
  \A u \in Users, q \in Pools :
    pool[q].positions[u].collateral >= SecurityOf(u, q)

\* A pool has no more available than it owes its lenders, so that what it lends
\* out and the rate it charges are not negative.  Liquidations break it: they
\* lower a debt and not the pool's total (LentIsOwed), and leave a loan's unpaid
\* interest as it was, until it is more than the debt.
AvailableIsInTotal == \A p \in Pools : pool[p].available <= pool[p].total

\* A loan has no more interest unpaid than it owes.  A payment goes to interest
\* first; a liquidation lowers the debt alone, and does not look at how much of
\* it is interest (contracts/loan_manager/src/contract.rs:518).
IsCovered(id) == loans[id].unpaid <= loans[id].borrowed

InterestIsCovered == \A id \in DOMAIN loans : IsCovered(id)

\* A borrower's liabilities in a pool are at least the debts of their loans
\* from it (the manager raises them with every loan's interest), so that the
\* pool's liquidate can always take a part of a debt off them.
LiabilitiesCoverDebts ==
  \A u \in Users, p \in Pools :
    pool[p].positions[u].liabilities >= DebtOf(u, p)

\* No loan is without a debt or without collateral: both are divided by or
\* asserted positive before the loan can be closed.
LoansAreSecured ==
  \A id \in DOMAIN loans : loans[id].borrowed > 0 /\ loans[id].collateral > 0

\* With interest up to now, the health factor of a loan that owes anything has
\* not come to be less than the least fixed-point number there is: the collateral
\* is worth something, at the hourly average prices, beside the debt.  A
\* liquidation may not lower the health factor, which stops it from taking the
\* last of the collateral only while there is a health factor to lower.  (A debt
\* that is less than nothing, by an index that fell, has none.)
HealthIsVisible ==
  \A id \in DOMAIN loans :
    AddInterestOK(id) /\ GrownDebt(id) > 0 => LoanWithInterest(id).health > 0

\* The accrual a loan remembers is one its pool has had: interest is never
\* charged for time before the loan, nor twice.
AccrualRemembered ==
  \A id \in DOMAIN loans :
    loans[id].lastAccrual \in DECIMAL .. pool[loans[id].from].accrual

\* A borrower who owes something, and has the money, can close a loan whatever
\* has happened to it, as long as the oracle has prices: without one, nothing can
\* be done about it.
CanCloseWithMoney(id) ==
  LET p     == loans[id].from
      u     == Owner(id)
      loan  == LoanWithInterest(id)
      funds == [AfterInterest(id)[p] EXCEPT !.tokens[u] = loan.borrowed]
      paid  == RepayAndClose(funds, now, u, loan.borrowed, loan.borrowed, loan.unpaid)
      held  == IF loan.collateralFrom = p THEN paid ELSE pool[loan.collateralFrom]
  IN  /\ AddInterestOK(id)
      /\ RepayAndCloseOK(funds, u, loan.borrowed, loan.borrowed, loan.unpaid)
      /\ WithdrawCollateralOK(held, u, loan.collateral)

LoansCanBeClosed ==
  \A id \in DOMAIN loans :
    /\ NoPrice \notin {twap[loans[id].from], twap[loans[id].collateralFrom]}
    /\ GrownDebt(id) > 0
    => CanCloseWithMoney(id)

-----------------------------------------------------------------------------
(* Action properties. *)

HealthNow(id) ==
  HealthFactor(loans[id].from, loans[id].borrowed, loans[id].collateralFrom, loans[id].collateral)

\* Nobody can make another's loan, or their own, less healthy: only a change
\* of the average prices or of the index does.  In particular liquidating a loan
\* does not bring it closer to the next liquidation.
HasHealthNow(id) ==
  HasHealthFactor(loans[id].from, loans[id].borrowed, loans[id].collateralFrom)

HealthIsNotLost ==
  [][\A id \in DOMAIN loans \cap DOMAIN loans' :
       twap' = twap /\ HasHealthNow(id) /\ HealthNow(id)' < HealthNow(id)
         => loans'[id].lastAccrual # loans[id].lastAccrual]_vars

\* With interest up to now counted in, only time and the average prices make a
\* loan less healthy: no call does, its own borrower's, a liquidator's or
\* anybody's in the pools it shares with others.
HealthIn(loan, p) ==
  LET growth == TruncDiv(AddInterestToAccrual(p, now).accrual * DECIMAL, loan.lastAccrual)
  IN  HealthFactor(loan.from, TruncDiv(loan.borrowed * growth, DECIMAL),
                   loan.collateralFrom, loan.collateral)

CallsSpareHealth ==
  [][now' = now /\ twap' = twap =>
       \A id \in DOMAIN loans \cap DOMAIN loans' :
         AddInterestOK(id)
           => HealthIn(loans'[id], pool'[loans[id].from])
                >= HealthIn(loans[id], pool[loans[id].from])]_vars

\* A debt is only lowered by payment, and interest is never forgiven: in any
\* step that touches a loan, what the step takes off the debt, as it stands
\* with interest up to now, has come into the pool's available balance or the
\* manager's revenue.
RevenueAndFunds(p) == pool[p].available + pool[p].tokens[TheManager]

DebtLeft(id) == IF id \in DOMAIN loans THEN loans[id].borrowed ELSE 0

IsTouched(id) == id \in DOMAIN loans' => loans'[id] # loans[id]

DebtIsPaidFor ==
  [][\A id \in DOMAIN loans, p \in Pools :
       /\ loans[id].from = p
       /\ IsTouched(id)
       => RevenueAndFunds(p)' - RevenueAndFunds(p) >= GrownDebt(id) - DebtLeft(id)']_vars

\* The manager's fee is taken once on every unit of interest: a payment takes
\* a fee of a tenth of what it takes off the unpaid interest, at most.  But a
\* liquidation takes its fee and leaves the unpaid interest as it was, so that
\* the payment after it takes it again ("Temp", contracts/loan_manager/src/
\* contract.rs:518).
UnpaidLeft(id) == IF id \in DOMAIN loans THEN loans[id].unpaid ELSE 0

FeesRetireInterest ==
  [][\A id \in DOMAIN loans :
       LET p   == loans[id].from
           fee == pool'[p].tokens[TheManager] - pool[p].tokens[TheManager]
       IN  IsTouched(id) /\ fee > 0
             => \/ liquidationFees'[p] - liquidationFees[p] = fee
                \/ 10 * fee <= LoanWithInterest(id).unpaid - UnpaidLeft(id)']_vars

\* Liquidations are all that can leave a loan with more interest unpaid than it
\* owes: nothing else takes a loan from one side to the other, not interest, nor a
\* payment, nor what is written of a new loan.
OnlyLiquidationsUncoverInterest ==
  [][\A id \in DOMAIN loans' :
       \/ IsCovered(id)'
       \/ id \in DOMAIN loans /\ ~IsCovered(id)
       \/ \E u \in Users, a \in LiquidateAmounts : LiquidateLoan(u, id, a)]_vars

\* No step takes value from the lenders: what a share is worth may fall by
\* rounding only, by less than one share's worth for the whole pool.
LendersKeepTheirValue ==
  [][\A p \in deployed :
       pool'[p].total * pool[p].shares + pool[p].total
         >= pool[p].total * pool'[p].shares]_vars

\* The interest index never falls and never runs ahead of the clock.
AccrualNeverFalls ==
  [][\A p \in deployed :
       /\ pool'[p].accrual >= pool[p].accrual
       /\ pool'[p].accrual # pool[p].accrual => pool'[p].updated > pool[p].updated]_vars

\* What liquidations bring about is all that makes interest run backwards: the
\* index of a pool falls, and a loan comes to remember an index that its pool is
\* behind, only in a step from a state in which the pool has more available than
\* it owes (the utilisation of contracts/loan_pool/src/interest.rs:38 is then
\* negative, and with it the rate).  Multiplied by a negative rate for long enough,
\* the index itself may have become negative: then it falls at any rate.
IsOverdrawn(p) == pool[p].available > pool[p].total

IsRemembered(id) == loans[id].lastAccrual <= pool[loans[id].from].accrual

IndexFallsOnlyOverdrawn ==
  [][\A p \in deployed :
       IsOverdrawn(p) \/ pool[p].accrual < 0 \/
         /\ pool'[p].accrual >= pool[p].accrual
         /\ \A id \in DOMAIN loans' :
              loans'[id].from = p
                => IsRemembered(id)' \/ (id \in DOMAIN loans /\ ~IsRemembered(id))]_vars

\* Interest up to now is settled: no call changes what the index has come to,
\* by changing the balances it is worked out from before it is brought up to
\* date, by leaving it behind, or by adding the same interest again.  Only time
\* moves it.
IndexNow(p) == AddInterestToAccrual(pool[p], now).accrual

PastInterestIsSettled ==
  [][now' = now => \A p \in deployed : IndexNow(p)' = IndexNow(p)]_vars

ClosedStaysClosed == Book!ClosedStaysClosed
ListsAreExact == Book!ListsAreExact

-----------------------------------------------------------------------------
(* What the pools are to their lenders. *)

Ledger == INSTANCE PoolLedger WITH
  Holders <- Users,
  stock   <- [p \in Pools |-> pool[p].total],
  issued  <- [p \in Pools |-> pool[p].shares],
  holding <- [p \in Pools |-> [u \in Users |-> pool[p].positions[u].shares]]

\* Every pool is a ledger of shares: a step is one lender's trade in one pool at
\* the going price, or interest that is paid to all of them, or nothing to them,
\* whatever else of loans, collateral and fees the call is about.  A withdrawal
\* is part of every deposit of collateral, and so may be part of a loan's
\* creation in the pool that lends (contracts/loan_pool/src/contract.rs:258).
PoolsAreLedgers == Ledger!LedgerSpec

=============================================================================
