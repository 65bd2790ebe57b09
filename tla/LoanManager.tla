---------------------------- MODULE LoanManager ----------------------------
(***************************************************************************)
(* The lending protocol: the loan manager (contracts/loan_manager/src) and *)
(* the pools it deploys, driven by users, by the administrator, by the     *)
(* price oracle and by the passing of time.  Every action is one contract  *)
(* invocation, with all the invocations it makes in turn: Soroban makes    *)
(* it atomic.  pool holds every pool's record (see LoanPool); a pool and   *)
(* the token it lends share a name.                                        *)
(***************************************************************************)
EXTENDS LoanPool

CONSTANTS
  Pools,            \* the tokens there may be pools for
  CollateralFactor, \* each pool's liquidation_threshold, times DECIMAL
  Endowment,        \* what each user holds of each token at the start
  InitialPrice,     \* the oracle's first price of each token, or NoPrice
  Prices,           \* the prices the oracle may give each token later, or NoPrice
  Elapses,          \* the steps in which time passes
  MaxTime,          \* bound on time
  MaxLoans,         \* bound on the loans a user ever makes
  \* The arguments users and the administrator choose:
  DepositAmounts, WithdrawAmounts, BorrowAmounts, CollateralAmounts,
  StrayAmounts, RepayAmounts, AllowedAmounts, LiquidateAmounts, RevenueAmounts

ASSUME PoolsAssumption ==
  /\ CollateralFactor \in [Pools -> 1 .. DECIMAL]
  /\ Endowment \in [Users -> [Pools -> Nat]]
  /\ InitialPrice \in [Pools -> Nat]
  /\ Prices \in [Pools -> SUBSET Nat]
  /\ Elapses \subseteq Nat
  /\ MaxTime \in Nat
  /\ MaxLoans \in Nat

ASSUME AmountsAssumption ==
  /\ DepositAmounts \subseteq Int
  /\ WithdrawAmounts \subseteq Int
  /\ BorrowAmounts \subseteq Int
  /\ CollateralAmounts \subseteq Int
  /\ StrayAmounts \subseteq Int
  /\ RepayAmounts \subseteq Int
  /\ AllowedAmounts \subseteq Int
  /\ LiquidateAmounts \subseteq Int
  /\ RevenueAmounts \subseteq Int

\* The oracle has no price of the token.
NoPrice == 0

LoanRecord ==
  [borrowed : Int, from : Pools, collateral : Int, collateralFrom : Pools,
   health : Int, unpaid : Int, lastAccrual : Int]

VARIABLES
  now,         \* the ledger's timestamp
  initialized, \* whether the manager has an administrator and an oracle
  deployed,    \* the registered pools
  pool,        \* every pool's record
  twap, last,  \* the oracle's hourly average and last price of each token
  loans, nonce, ids,  \* the manager's loans: see LoanBook
  liquidationFees     \* history: the fees liquidations have sent to the manager

Book == INSTANCE LoanBook WITH Borrowers <- Users, Loan <- LoanRecord

bookVars == <<loans, nonce, ids>>
worldVars == <<now, twap, last>>
setupVars == <<initialized, deployed>>
vars == <<worldVars, setupVars, pool, bookVars, liquidationFees>>

TypeOK ==
  /\ now \in Nat
  /\ initialized \in BOOLEAN
  /\ deployed \subseteq Pools
  /\ pool \in [Pools -> PoolRecord]
  /\ twap \in [Pools -> Nat]
  /\ last \in [Pools -> Nat]
  /\ Book!BookTypeOK
  /\ liquidationFees \in [Pools -> Int]

\* No pool is deployed yet; the record of one holds its token's ledger only.
Init ==
  /\ now = 0
  /\ initialized = FALSE
  /\ deployed = {}
  /\ pool = [p \in Pools |->
       Initialize([a \in Accounts |-> IF a \in Users THEN Endowment[a][p] ELSE 0], 0)]
  /\ twap = InitialPrice
  /\ last = InitialPrice
  /\ Book!BookInit
  /\ liquidationFees = [p \in Pools |-> 0]

-----------------------------------------------------------------------------
(* The world outside: time and prices. *)

Elapse(t) ==
  /\ now + t <= MaxTime
  /\ now' = now + t
  /\ UNCHANGED <<twap, last, setupVars, pool, bookVars, liquidationFees>>

\* The average need not be the last price, and either may be missing.
UpdatePrice(p, average, latest) ==
  /\ twap' = [twap EXCEPT ![p] = average]
  /\ last' = [last EXCEPT ![p] = latest]
  /\ UNCHANGED <<now, setupVars, pool, bookVars, liquidationFees>>

-----------------------------------------------------------------------------
(* Administration. *)

InitializeManager ==
  /\ ~initialized
  /\ initialized' = TRUE
  /\ UNCHANGED <<worldVars, deployed, pool, bookVars, liquidationFees>>

DeployPool(p) ==
  /\ initialized
  /\ p \notin deployed
  /\ deployed' = deployed \cup {p}
  /\ pool' = [pool EXCEPT ![p] = Initialize(@.tokens, now)]
  /\ UNCHANGED <<worldVars, initialized, bookVars, liquidationFees>>

AdminWithdrawRevenue(p, amount) ==
  /\ initialized
  /\ CanMove(pool[p].tokens, TheManager, amount)
  /\ pool' = [pool EXCEPT ![p].tokens = Move(@, TheManager, TheAdmin, amount)]
  /\ UNCHANGED <<worldVars, setupVars, bookVars, liquidationFees>>

-----------------------------------------------------------------------------
(* The pool's entry points that anyone may call. *)

UserDeposit(u, p, amount) ==
  /\ p \in deployed
  /\ DepositOK(pool[p], u, amount)
  /\ pool' = [pool EXCEPT ![p] = Deposit(@, now, u, amount)]
  /\ UNCHANGED <<worldVars, setupVars, bookVars, liquidationFees>>

UserWithdraw(u, p, amount) ==
  /\ p \in deployed
  /\ WithdrawOK(pool[p], u, amount)
  /\ pool' = [pool EXCEPT ![p] = WithdrawInternal(@, now, u, amount)]
  /\ UNCHANGED <<worldVars, setupVars, bookVars, liquidationFees>>

\* deposit_collateral needs the user's authorisation only, and so may be
\* called without a loan.
UserDepositCollateral(u, p, amount) ==
  /\ p \in deployed
  /\ DepositCollateralOK(pool[p], now, u, amount)
  /\ pool' = [pool EXCEPT ![p] = DepositCollateral(@, now, u, amount)]
  /\ UNCHANGED <<worldVars, setupVars, bookVars, liquidationFees>>

UpdateAccrual(p) ==
  /\ p \in deployed
  /\ pool' = [pool EXCEPT ![p] = AddInterestToAccrual(@, now)]
  /\ UNCHANGED <<worldVars, setupVars, bookVars, liquidationFees>>

-----------------------------------------------------------------------------
(* The health factor: the value of the collateral, times the collateral    *)
(* factor, over the value of the debt, at the hourly average prices.  A    *)
(* missing price, or the division by a debt of no value, makes the         *)
(* invocation fail.                                                        *)

BorrowedValue(p, borrowed) == twap[p] * borrowed

CollateralValue(q, collateral) ==
  TruncDiv(twap[q] * collateral * CollateralFactor[q], DECIMAL)

HasHealthFactor(p, borrowed, q) ==
  NoPrice \notin {twap[p], twap[q]} /\ BorrowedValue(p, borrowed) # 0

HealthFactor(p, borrowed, q, collateral) ==
  TruncDiv(CollateralValue(q, collateral) * DECIMAL, BorrowedValue(p, borrowed))

-----------------------------------------------------------------------------
(* create_loan: collateral into pool q, then the loan out of pool p, which *)
(* may be the same pool.                                                   *)

AfterCollateral(u, q, collateral) ==
  [pool EXCEPT ![q] = DepositCollateral(@, now, u, collateral)]

\* Mutant: the pool to borrow from is read before the collateral is in.
AfterBorrowFromStale(u, p, borrowed, q, collateral) ==
  [AfterCollateral(u, q, collateral) EXCEPT ![p] = Borrow(pool[p], now, u, borrowed)]

AfterBorrow(u, p, borrowed, q, collateral) ==
  [AfterCollateral(u, q, collateral) EXCEPT ![p] = Borrow(@, now, u, borrowed)]

CreateLoan(u, p, borrowed, q, collateral) ==
  LET health == HealthFactor(p, borrowed, q, collateral)
      final  == AfterBorrow(u, p, borrowed, q, collateral)
  IN  /\ nonce[u] < MaxLoans
      /\ {p, q} \subseteq deployed
      /\ HasHealthFactor(p, borrowed, q)
      /\ health > DECIMAL
      /\ DepositCollateralOK(pool[q], now, u, collateral)
      /\ BorrowOK(AfterCollateral(u, q, collateral)[p], u, borrowed)
      /\ pool' = final
      /\ Book!CreateEntry(u, [borrowed |-> borrowed, from |-> p,
                              collateral |-> collateral, collateralFrom |-> q,
                              health |-> health, unpaid |-> 0,
                              lastAccrual |-> final[p].accrual])
      /\ UNCHANGED <<worldVars, setupVars, liquidationFees>>

-----------------------------------------------------------------------------
(* add_interest brings a loan up to date.  The later entry points begin    *)
(* with it and go on from the loan and the pools it leaves.                *)

Owner(id) == id[1]

CurrentAccrual(id) == AddInterestToAccrual(pool[loans[id].from], now).accrual

GrownDebt(id) ==
  LET growth == TruncDiv(CurrentAccrual(id) * DECIMAL, loans[id].lastAccrual)
  IN  TruncDiv(loans[id].borrowed * growth, DECIMAL)

\* Mutant: the health factor after interest is divided without being scaled.
LoanWithInterestUnscaled(id) ==
  LET loan == loans[id]
  IN  [loan EXCEPT
         !.borrowed = GrownDebt(id),
         !.unpaid = @ + (GrownDebt(id) - loan.borrowed),
         !.health = TruncDiv(CollateralValue(loan.collateralFrom, loan.collateral),
                             BorrowedValue(loan.from, GrownDebt(id))),
         !.lastAccrual = CurrentAccrual(id)]

\* Mutant: the loan remembers the index of now, and owes what it owed.
LoanWithInterestForgotten(id) ==
  [loans[id] EXCEPT !.lastAccrual = CurrentAccrual(id)]

LoanWithInterest(id) ==
  LET loan == loans[id]
  IN  [loan EXCEPT
         !.borrowed = GrownDebt(id),
         !.unpaid = @ + (GrownDebt(id) - loan.borrowed),
         !.health = HealthFactor(loan.from, GrownDebt(id), loan.collateralFrom, loan.collateral),
         !.lastAccrual = CurrentAccrual(id)]

\* Mutant: increase_liabilities is not called.
PoolWithoutLiabilities(id) == AddInterestToAccrual(pool[loans[id].from], now)

PoolWithInterest(id) ==
  LET p    == AddInterestToAccrual(pool[loans[id].from], now)
      more == GrownDebt(id) - loans[id].borrowed
  IN  IF more > 0 THEN IncreaseLiabilities(p, Owner(id), more) ELSE p

\* Mutant: the pool's accrual is worked out but not written back.
AfterInterestUnwritten(id) == pool

AfterInterest(id) == [pool EXCEPT ![loans[id].from] = PoolWithInterest(id)]

AddInterestOK(id) ==
  /\ id \in DOMAIN loans
  /\ loans[id].lastAccrual # 0
  /\ HasHealthFactor(loans[id].from, GrownDebt(id), loans[id].collateralFrom)

AddInterest(id) ==
  /\ AddInterestOK(id)
  /\ pool' = AfterInterest(id)
  /\ Book!WriteEntry(id, LoanWithInterest(id))
  /\ UNCHANGED <<worldVars, setupVars, liquidationFees>>

-----------------------------------------------------------------------------
(* repay: part of the debt.  What remains must have a health factor, so    *)
(* nothing remaining is an error.                                          *)

\* Mutant: the interest paid is not taken off the unpaid interest.
UnpaidKept(unpaid, amount) == unpaid

UnpaidAfter(unpaid, amount) == IF amount < unpaid THEN unpaid - amount ELSE 0

\* Mutant: the payment is not limited to the debt.
AnyPayment(id, amount) == TRUE

IsWithinDebt(id, amount) == amount <= LoanWithInterest(id).borrowed

ManagerRepayOK(id, amount) ==
  LET loan == LoanWithInterest(id)
  IN  /\ AddInterestOK(id)
      /\ IsWithinDebt(id, amount)
      /\ RepayOK(AfterInterest(id)[loan.from], Owner(id), amount, loan.unpaid)
      /\ HasHealthFactor(loan.from, loan.borrowed - amount, loan.collateralFrom)

ManagerRepay(id, amount) ==
  LET loan == LoanWithInterest(id)
      left == loan.borrowed - amount
  IN  /\ ManagerRepayOK(id, amount)
      /\ pool' = [AfterInterest(id) EXCEPT
                    ![loan.from] = Repay(@, now, Owner(id), amount, loan.unpaid)]
      /\ Book!WriteEntry(id, [loan EXCEPT
           !.borrowed = left,
           !.unpaid = UnpaidAfter(@, amount),
           !.health = HealthFactor(loan.from, left, loan.collateralFrom, loan.collateral)])
      /\ UNCHANGED <<worldVars, setupVars, liquidationFees>>

-----------------------------------------------------------------------------
(* repay_and_close_manager: all of the debt, and the collateral back. *)

AfterClosePayment(id, maxAllowed) ==
  LET loan == LoanWithInterest(id)
  IN  [AfterInterest(id) EXCEPT ![loan.from] =
         RepayAndClose(@, now, Owner(id), loan.borrowed, maxAllowed, loan.unpaid)]

CloseLoanOK(id, maxAllowed) ==
  LET loan == LoanWithInterest(id)
  IN  /\ AddInterestOK(id)
      /\ RepayAndCloseOK(AfterInterest(id)[loan.from], Owner(id),
                         loan.borrowed, maxAllowed, loan.unpaid)
      /\ WithdrawCollateralOK(AfterClosePayment(id, maxAllowed)[loan.collateralFrom],
                              Owner(id), loan.collateral)

CloseLoan(id, maxAllowed) ==
  LET loan == LoanWithInterest(id)
  IN  /\ CloseLoanOK(id, maxAllowed)
      /\ pool' = [AfterClosePayment(id, maxAllowed) EXCEPT ![loan.collateralFrom] =
                    WithdrawCollateral(@, now, Owner(id), loan.collateral)]
      /\ Book!DeleteEntry(id)
      /\ UNCHANGED <<worldVars, setupVars, liquidationFees>>

-----------------------------------------------------------------------------
(* liquidate: anyone pays part of an unhealthy debt and takes collateral   *)
(* of that value, at the last prices, and a bonus.                         *)

Bonus(q) == ((DECIMAL - CollateralFactor[q]) \div 2) + DECIMAL

SeizedCollateral(p, q, amount) ==
  TruncDiv(TruncDiv(amount * last[p] * Bonus(q), last[q]), DECIMAL)

\* Mutants: the loan keeps the debt that was paid, or the collateral that was
\* taken.
LiquidatedLoanOwingAll(id, amount) ==
  LET loan   == LoanWithInterest(id)
      seized == SeizedCollateral(loan.from, loan.collateralFrom, amount)
  IN  [loan EXCEPT !.collateral = @ - seized]

LiquidatedLoanSecuredByAll(id, amount) ==
  [LoanWithInterest(id) EXCEPT !.borrowed = @ - amount]

LiquidatedLoan(id, amount) ==
  LET loan   == LoanWithInterest(id)
      p      == loan.from
      q      == loan.collateralFrom
      owed   == loan.borrowed - amount
      secure == loan.collateral - SeizedCollateral(p, q, amount)
  IN  [loan EXCEPT !.borrowed = owed, !.collateral = secure,
                   !.health = HealthFactor(p, owed, q, secure)]

AfterLiquidationPayment(u, id, amount) ==
  LET loan == LoanWithInterest(id)
  IN  [AfterInterest(id) EXCEPT ![loan.from] =
         Liquidate(@, now, u, amount, loan.unpaid, Owner(id))]

\* Mutant: the health factor after the liquidation is not looked at.
AnyHealthAfter(id, amount) == TRUE

KeepsHealth(id, amount) ==
  LiquidatedLoan(id, amount).health >= LoanWithInterest(id).health

LiquidateLoanOK(u, id, amount) ==
  LET loan == LoanWithInterest(id)
      p    == loan.from
      q    == loan.collateralFrom
  IN  /\ AddInterestOK(id)
      /\ loan.health < DECIMAL
      /\ amount < TruncDiv(loan.borrowed, 2)
      /\ amount > TruncDiv(loan.borrowed, 100)
      /\ NoPrice \notin {last[p], last[q]}
      /\ LiquidateOK(AfterInterest(id)[p], u, amount, loan.unpaid, Owner(id))
      /\ LiquidateTransferCollateralOK(AfterLiquidationPayment(u, id, amount)[q],
                                       SeizedCollateral(p, q, amount), Owner(id))
      /\ HasHealthFactor(p, loan.borrowed - amount, q)
      /\ KeepsHealth(id, amount)

LiquidateLoan(u, id, amount) ==
  LET loan == LoanWithInterest(id)
      p    == loan.from
      q    == loan.collateralFrom
  IN  /\ LiquidateLoanOK(u, id, amount)
      /\ pool' = [AfterLiquidationPayment(u, id, amount) EXCEPT ![q] =
                    LiquidateTransferCollateral(@, u, SeizedCollateral(p, q, amount), Owner(id))]
      /\ Book!WriteEntry(id, LiquidatedLoan(id, amount))
      /\ liquidationFees' = [liquidationFees EXCEPT ![p] = @ + AdminFee(amount, loan.unpaid)]
      /\ UNCHANGED <<worldVars, setupVars>>

-----------------------------------------------------------------------------

Next ==
  \/ \E t \in Elapses : Elapse(t)
  \/ \E p \in Pools : \E average, latest \in Prices[p] : UpdatePrice(p, average, latest)
  \/ InitializeManager
  \/ \E p \in Pools : DeployPool(p)
  \/ \E p \in Pools, a \in RevenueAmounts : AdminWithdrawRevenue(p, a)
  \/ \E u \in Users, p \in Pools, a \in DepositAmounts : UserDeposit(u, p, a)
  \/ \E u \in Users, p \in Pools, a \in WithdrawAmounts : UserWithdraw(u, p, a)
  \/ \E u \in Users, p \in Pools, a \in StrayAmounts : UserDepositCollateral(u, p, a)
  \/ \E p \in Pools : UpdateAccrual(p)
  \/ \E u \in Users, p, q \in Pools, b \in BorrowAmounts, c \in CollateralAmounts :
       CreateLoan(u, p, b, q, c)
  \/ \E id \in DOMAIN loans : AddInterest(id)
  \/ \E id \in DOMAIN loans, a \in RepayAmounts : ManagerRepay(id, a)
  \/ \E id \in DOMAIN loans, a \in AllowedAmounts : CloseLoan(id, a)
  \/ \E u \in Users, id \in DOMAIN loans, a \in LiquidateAmounts : LiquidateLoan(u, id, a)

Spec == Init /\ [][Next]_vars

=============================================================================
