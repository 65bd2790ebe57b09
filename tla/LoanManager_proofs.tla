------------------------- MODULE LoanManager_proofs -------------------------
(***************************************************************************)
(* The protocol is type correct, and its steps are steps of the book of    *)
(* loans, so that what LoanBook_proofs shows of the book holds of the      *)
(* protocol.  The two go together: a loan's record is well formed only     *)
(* when the pools, the prices and the other records are, and the book only *)
(* takes well-formed records.                                              *)
(***************************************************************************)
EXTENDS LoanManager, LoanPool_proofs

BookFacts == INSTANCE LoanBook_proofs WITH Borrowers <- Users, Loan <- LoanRecord

\* The part of TypeOK that is not about the book.
WorldTypeOK ==
  /\ now \in Nat
  /\ initialized \in BOOLEAN
  /\ deployed \subseteq Pools
  /\ pool \in [Pools -> PoolRecord]
  /\ twap \in [Pools -> Nat]
  /\ last \in [Pools -> Nat]
  /\ liquidationFees \in [Pools -> Int]

\* TypeOK in two halves: the world and the book.
LEMMA TypeOKParts == TypeOK <=> WorldTypeOK /\ Book!BookTypeOK
BY DEF TypeOK, WorldTypeOK

-----------------------------------------------------------------------------
(* The loans and the pools an entry point works out. *)

\* A loan's id names its borrower.
LEMMA LoansType ==
  ASSUME TypeOK, NEW id \in DOMAIN loans
  PROVE  Owner(id) \in Users /\ loans[id] \in LoanRecord
BY DEF TypeOK, Book!BookTypeOK, Book!LoanId, Owner

\* calculate_health_factor gives an integer when the debt has a value.
LEMMA HealthFactorInt ==
  ASSUME TypeOK, NEW p \in Pools, NEW q \in Pools, NEW b \in Int, NEW c \in Int,
         BorrowedValue(p, b) # 0
  PROVE  HealthFactor(p, b, q, c) \in Int
<1> USE ScaleAssumption
<1>1. twap[p] \in Int /\ twap[q] \in Int /\ CollateralFactor[q] \in Int
  BY PoolsAssumption DEF TypeOK
<1>2. BorrowedValue(p, b) \in Int
  BY <1>1 DEF BorrowedValue
<1>3. CollateralValue(q, c) \in Int
  <2>1. twap[q] * c \in Int
    BY <1>1
  <2>2. twap[q] * c * CollateralFactor[q] \in Int
    BY <1>1, <2>1
  <2> QED
    BY <2>2, TruncDivInt DEF CollateralValue
<1>4. CollateralValue(q, c) * DECIMAL \in Int
  BY <1>3
<1> QED
  BY <1>2, <1>4, TruncDivInt DEF HealthFactor

\* add_interest works out integers from a loan that remembers an accrual.
LEMMA GrownDebtInt ==
  ASSUME TypeOK, NEW id \in DOMAIN loans, loans[id].lastAccrual # 0
  PROVE  CurrentAccrual(id) \in Int /\ GrownDebt(id) \in Int
<1> USE ScaleAssumption
<1> DEFINE growth == TruncDiv(CurrentAccrual(id) * DECIMAL, loans[id].lastAccrual)
<1>1. /\ loans[id].from \in Pools
      /\ loans[id].borrowed \in Int
      /\ loans[id].lastAccrual \in Int
  BY LoansType DEF LoanRecord
<1>2. AddInterestToAccrual(pool[loans[id].from], now) \in PoolRecord
  BY <1>1, AddInterestType DEF TypeOK
<1>3. CurrentAccrual(id) \in Int
  BY <1>2 DEF CurrentAccrual, PoolRecord
<1>4. growth \in Int
  <2>1. CurrentAccrual(id) * DECIMAL \in Int
    BY <1>3
  <2> QED
    BY <1>1, <2>1, TruncDivInt
<1>5. GrownDebt(id) = TruncDiv(loans[id].borrowed * growth, DECIMAL)
  BY DEF GrownDebt
<1> HIDE DEF growth
<1>6. loans[id].borrowed * growth \in Int
  BY <1>1, <1>4
<1> QED
  BY <1>3, <1>5, <1>6, TruncDivInt

\* The loan add_interest writes back is a loan record, of the same pools and
\* collateral, and the growth of its debt is unpaid interest.
LEMMA LoanWithInterestType ==
  ASSUME TypeOK, NEW id \in DOMAIN loans, AddInterestOK(id)
  PROVE  /\ LoanWithInterest(id) \in LoanRecord
         /\ LoanWithInterest(id).from = loans[id].from
         /\ LoanWithInterest(id).collateralFrom = loans[id].collateralFrom
         /\ LoanWithInterest(id).borrowed = GrownDebt(id)
         /\ LoanWithInterest(id).collateral = loans[id].collateral
         /\ LoanWithInterest(id).unpaid = loans[id].unpaid + (GrownDebt(id) - loans[id].borrowed)
<1> DEFINE loan   == loans[id]
           unpaid == loan.unpaid + (GrownDebt(id) - loan.borrowed)
           health == HealthFactor(loan.from, GrownDebt(id), loan.collateralFrom, loan.collateral)
<1>1. loan \in LoanRecord
  BY LoansType
<1>2. GrownDebt(id) \in Int /\ CurrentAccrual(id) \in Int
  BY GrownDebtInt DEF AddInterestOK
<1>3. health \in Int
  BY <1>1, <1>2, HealthFactorInt DEF AddInterestOK, HasHealthFactor, LoanRecord
<1>4. LoanWithInterest(id) =
        [loan EXCEPT !.borrowed = GrownDebt(id), !.unpaid = unpaid,
                     !.health = health, !.lastAccrual = CurrentAccrual(id)]
  BY DEF LoanWithInterest
<1> HIDE DEF loan
<1>5. unpaid \in Int
  BY <1>1, <1>2 DEF LoanRecord
<1> HIDE DEF unpaid, health
<1>6. /\ LoanWithInterest(id) \in LoanRecord
      /\ LoanWithInterest(id).from = loan.from
      /\ LoanWithInterest(id).collateralFrom = loan.collateralFrom
      /\ LoanWithInterest(id).borrowed = GrownDebt(id)
      /\ LoanWithInterest(id).collateral = loan.collateral
      /\ LoanWithInterest(id).unpaid = unpaid
  BY <1>1, <1>2, <1>3, <1>4, <1>5 DEF LoanRecord
<1> QED
  BY <1>6 DEF loan, unpaid

\* The pools add_interest leaves behind are pool records.
LEMMA AfterInterestType ==
  ASSUME TypeOK, NEW id \in DOMAIN loans, AddInterestOK(id)
  PROVE  AfterInterest(id) \in [Pools -> PoolRecord]
<1> DEFINE p == AddInterestToAccrual(pool[loans[id].from], now)
<1>1. Owner(id) \in Users /\ loans[id] \in LoanRecord
  BY LoansType
<1>2. loans[id].from \in Pools /\ loans[id].borrowed \in Int
  BY <1>1 DEF LoanRecord
<1>3. p \in PoolRecord
  BY <1>2, AddInterestType DEF TypeOK
<1>4. GrownDebt(id) - loans[id].borrowed \in Int
  BY <1>2, GrownDebtInt DEF AddInterestOK
<1> HIDE DEF p
<1>5. PoolWithInterest(id) \in PoolRecord
  BY <1>1, <1>3, <1>4, IncreaseLiabilitiesType DEF PoolWithInterest, p
<1> QED
  BY <1>2, <1>5 DEF AfterInterest, TypeOK

-----------------------------------------------------------------------------
(* The steps, one lemma for each action. *)

BookStep == Book!BookNext \/ UNCHANGED bookVars

\* The pools, once one of them has been given a well-formed record.
LEMMA PoolUpdate ==
  ASSUME NEW pools \in [Pools -> PoolRecord], NEW p, NEW record \in PoolRecord
  PROVE  [pools EXCEPT ![p] = record] \in [Pools -> PoolRecord]
OBVIOUS

\* Time passes.
LEMMA ElapseType ==
  ASSUME TypeOK, NEW t \in Elapses, Elapse(t)
  PROVE  WorldTypeOK' /\ BookStep
BY PoolsAssumption DEF TypeOK, WorldTypeOK, BookStep, Elapse, setupVars, bookVars

\* The oracle's prices change.
LEMMA UpdatePriceType ==
  ASSUME TypeOK, NEW p \in Pools, NEW average \in Prices[p], NEW latest \in Prices[p],
         UpdatePrice(p, average, latest)
  PROVE  WorldTypeOK' /\ BookStep
<1>1. average \in Nat /\ latest \in Nat
  BY PoolsAssumption
<1> QED
  BY <1>1 DEF TypeOK, WorldTypeOK, BookStep, UpdatePrice, setupVars, bookVars

\* initialize of the loan manager
LEMMA InitializeManagerType ==
  ASSUME TypeOK, InitializeManager
  PROVE  WorldTypeOK' /\ BookStep
BY DEF TypeOK, WorldTypeOK, BookStep, InitializeManager, worldVars, bookVars

\* deploy_pool
LEMMA DeployPoolType ==
  ASSUME TypeOK, NEW p \in Pools, DeployPool(p)
  PROVE  WorldTypeOK' /\ BookStep
<1>1. pool[p].tokens \in [Accounts -> Nat] /\ now \in Nat
  BY DEF TypeOK, PoolRecord
<1>2. Initialize(pool[p].tokens, now) \in PoolRecord
  BY <1>1, InitializeType
<1>3. pool' \in [Pools -> PoolRecord]
  BY <1>2, PoolUpdate DEF TypeOK, DeployPool
<1> QED
  BY <1>3 DEF TypeOK, WorldTypeOK, BookStep, DeployPool, worldVars, bookVars

\* An action that changes one pool's record, and nothing else.
LEMMA OnePoolType ==
  ASSUME TypeOK, NEW p \in Pools, NEW record \in PoolRecord,
         pool' = [pool EXCEPT ![p] = record],
         UNCHANGED <<worldVars, setupVars, bookVars, liquidationFees>>
  PROVE  WorldTypeOK' /\ BookStep
BY PoolUpdate DEF TypeOK, WorldTypeOK, BookStep, worldVars, setupVars, bookVars

\* admin_withdraw_revenue
LEMMA AdminWithdrawRevenueType ==
  ASSUME TypeOK, NEW p \in Pools, NEW a \in RevenueAmounts, AdminWithdrawRevenue(p, a)
  PROVE  WorldTypeOK' /\ BookStep
<1> DEFINE t == Move(pool[p].tokens, TheManager, TheAdmin, a)
           record == [pool[p] EXCEPT !.tokens = t]
<1>1. pool[p] \in PoolRecord /\ a \in Int
  BY AmountsAssumption DEF TypeOK
<1>2. pool[p].tokens \in [Accounts -> Nat]
  BY <1>1 DEF PoolRecord
<1>3. t \in [Accounts -> Nat]
  BY <1>1, <1>2, MoveType, AccountsOfTheToken DEF AdminWithdrawRevenue
<1>4. pool' = [pool EXCEPT ![p] = record]
  BY DEF AdminWithdrawRevenue, TypeOK
<1> HIDE DEF t
<1>5. record \in PoolRecord
  BY <1>1, <1>3 DEF PoolRecord
<1> HIDE DEF record
<1> QED
  BY <1>4, <1>5, OnePoolType DEF AdminWithdrawRevenue

\* deposit, called by a user
LEMMA UserDepositType ==
  ASSUME TypeOK, NEW u \in Users, NEW p \in Pools, NEW a \in DepositAmounts,
         UserDeposit(u, p, a)
  PROVE  WorldTypeOK' /\ BookStep
<1>1. Deposit(pool[p], now, u, a) \in PoolRecord
  BY AmountsAssumption, DepositType DEF TypeOK, UserDeposit
<1> QED
  BY <1>1, OnePoolType DEF UserDeposit

\* withdraw, called by a user
LEMMA UserWithdrawType ==
  ASSUME TypeOK, NEW u \in Users, NEW p \in Pools, NEW a \in WithdrawAmounts,
         UserWithdraw(u, p, a)
  PROVE  WorldTypeOK' /\ BookStep
<1>1. WithdrawInternal(pool[p], now, u, a) \in PoolRecord
  BY AmountsAssumption, WithdrawInternalType DEF TypeOK, UserWithdraw, WithdrawOK
<1> QED
  BY <1>1, OnePoolType DEF UserWithdraw

\* deposit_collateral, called by a user directly
LEMMA UserDepositCollateralType ==
  ASSUME TypeOK, NEW u \in Users, NEW p \in Pools, NEW a \in StrayAmounts,
         UserDepositCollateral(u, p, a)
  PROVE  WorldTypeOK' /\ BookStep
<1>1. DepositCollateral(pool[p], now, u, a) \in PoolRecord
  BY AmountsAssumption, DepositCollateralType DEF TypeOK, UserDepositCollateral
<1> QED
  BY <1>1, OnePoolType DEF UserDepositCollateral

\* add_interest_to_accrual, called by anyone
LEMMA UpdateAccrualType ==
  ASSUME TypeOK, NEW p \in Pools, UpdateAccrual(p)
  PROVE  WorldTypeOK' /\ BookStep
<1>1. AddInterestToAccrual(pool[p], now) \in PoolRecord
  BY AddInterestType DEF TypeOK
<1> QED
  BY <1>1, OnePoolType DEF UpdateAccrual

\* create_loan: collateral in, loan out, and a new entry in the book.
LEMMA CreateLoanType ==
  ASSUME TypeOK, NEW u \in Users, NEW p \in Pools, NEW q \in Pools,
         NEW b \in BorrowAmounts, NEW c \in CollateralAmounts, CreateLoan(u, p, b, q, c)
  PROVE  WorldTypeOK' /\ BookStep
<1> DEFINE secured == AfterCollateral(u, q, c)
           final   == AfterBorrow(u, p, b, q, c)
           health  == HealthFactor(p, b, q, c)
           loan    == [borrowed |-> b, from |-> p, collateral |-> c, collateralFrom |-> q,
                       health |-> health, unpaid |-> 0, lastAccrual |-> final[p].accrual]
<1>1. b \in Int /\ c \in Int /\ now \in Nat /\ pool \in [Pools -> PoolRecord]
  BY AmountsAssumption DEF TypeOK
<1>2. /\ BorrowedValue(p, b) # 0
      /\ DepositCollateralOK(pool[q], now, u, c)
      /\ BorrowOK(secured[p], u, b)
      /\ pool' = final
      /\ Book!CreateEntry(u, loan)
      /\ UNCHANGED <<worldVars, setupVars, liquidationFees>>
  BY DEF CreateLoan, HasHealthFactor
<1>3. health \in Int
  BY <1>1, <1>2, HealthFactorInt
<1>4. secured \in [Pools -> PoolRecord]
  <2>1. DepositCollateral(pool[q], now, u, c) \in PoolRecord
    BY <1>1, <1>2, DepositCollateralType
  <2> QED
    BY <1>1, <2>1, PoolUpdate DEF AfterCollateral
<1>5. final \in [Pools -> PoolRecord]
  <2>1. final = [secured EXCEPT ![p] = Borrow(secured[p], now, u, b)]
    BY DEF AfterBorrow
  <2> HIDE DEF secured, final
  <2>2. Borrow(secured[p], now, u, b) \in PoolRecord
    BY <1>1, <1>2, <1>4, BorrowType
  <2> QED
    BY <1>4, <2>1, <2>2, PoolUpdate
<1> HIDE DEF health, final
<1>6. loan \in LoanRecord
  BY <1>1, <1>3, <1>5 DEF LoanRecord, PoolRecord
<1> HIDE DEF loan
<1>7. BookStep
  BY <1>2, <1>6 DEF BookStep, Book!BookNext
<1> QED
  BY <1>2, <1>5, <1>7 DEF TypeOK, WorldTypeOK, worldVars, setupVars

\* add_interest, called by anyone
LEMMA AddInterestActionType ==
  ASSUME TypeOK, NEW id \in DOMAIN loans, AddInterest(id)
  PROVE  WorldTypeOK' /\ BookStep
<1>1. AddInterestOK(id)
  BY DEF AddInterest
<1>2. pool' \in [Pools -> PoolRecord]
  BY <1>1, AfterInterestType DEF AddInterest
<1>3. BookStep
  BY <1>1, LoanWithInterestType DEF AddInterest, BookStep, Book!BookNext
<1> QED
  BY <1>2, <1>3 DEF TypeOK, WorldTypeOK, AddInterest, worldVars, setupVars

\* repay: interest, payment, and the loan written back.
LEMMA ManagerRepayType ==
  ASSUME TypeOK, NEW id \in DOMAIN loans, NEW a \in RepayAmounts, ManagerRepay(id, a)
  PROVE  WorldTypeOK' /\ BookStep
<1> DEFINE loan   == LoanWithInterest(id)
           left   == loan.borrowed - a
           pools  == AfterInterest(id)
           unpaid == UnpaidAfter(loan.unpaid, a)
           health == HealthFactor(loan.from, left, loan.collateralFrom, loan.collateral)
           after  == [loan EXCEPT !.borrowed = left, !.unpaid = unpaid, !.health = health]
<1>1. /\ AddInterestOK(id)
      /\ RepayOK(pools[loan.from], Owner(id), a, loan.unpaid)
      /\ BorrowedValue(loan.from, left) # 0
      /\ pool' = [pools EXCEPT ![loan.from] =
                    Repay(pools[loan.from], now, Owner(id), a, loan.unpaid)]
      /\ Book!WriteEntry(id, after)
      /\ UNCHANGED <<worldVars, setupVars, liquidationFees>>
  BY AfterInterestType, LoanWithInterestType, LoansType
     DEF ManagerRepay, ManagerRepayOK, HasHealthFactor, LoanRecord
<1>2. loan \in LoanRecord /\ pools \in [Pools -> PoolRecord] /\ Owner(id) \in Users
  BY <1>1, LoanWithInterestType, AfterInterestType, LoansType
<1>3. a \in Int /\ now \in Nat
  BY AmountsAssumption DEF TypeOK
<1> HIDE DEF loan, pools
<1>4. /\ loan.from \in Pools /\ loan.collateralFrom \in Pools
      /\ loan.unpaid \in Int /\ loan.collateral \in Int
      /\ left \in Int /\ unpaid \in Int
  BY <1>2, <1>3 DEF LoanRecord, UnpaidAfter
<1> HIDE DEF left, unpaid
<1>5. health \in Int
  BY <1>1, <1>4, HealthFactorInt
<1> HIDE DEF health
<1>6. after \in LoanRecord
  BY <1>2, <1>4, <1>5 DEF LoanRecord
<1> HIDE DEF after
<1>7. pool' \in [Pools -> PoolRecord]
  <2>1. Repay(pools[loan.from], now, Owner(id), a, loan.unpaid) \in PoolRecord
    BY <1>1, <1>2, <1>3, <1>4, RepayType
  <2> QED
    BY <1>1, <1>2, <2>1, PoolUpdate
<1>8. BookStep
  BY <1>1, <1>6 DEF BookStep, Book!BookNext
<1> QED
  BY <1>1, <1>7, <1>8 DEF TypeOK, WorldTypeOK, worldVars, setupVars

\* repay_and_close_manager: interest, payment, collateral back, entry deleted.
LEMMA CloseLoanType ==
  ASSUME TypeOK, NEW id \in DOMAIN loans, NEW a \in AllowedAmounts, CloseLoan(id, a)
  PROVE  WorldTypeOK' /\ BookStep
<1> DEFINE loan  == LoanWithInterest(id)
           pools == AfterInterest(id)
           paid  == AfterClosePayment(id, a)
<1>1. /\ AddInterestOK(id)
      /\ RepayAndCloseOK(pools[loan.from], Owner(id), loan.borrowed, a, loan.unpaid)
      /\ WithdrawCollateralOK(paid[loan.collateralFrom], Owner(id), loan.collateral)
      /\ pool' = [paid EXCEPT ![loan.collateralFrom] =
                    WithdrawCollateral(@, now, Owner(id), loan.collateral)]
      /\ Book!DeleteEntry(id)
      /\ UNCHANGED <<worldVars, setupVars, liquidationFees>>
  BY DEF CloseLoan, CloseLoanOK
<1>2. paid = [pools EXCEPT ![loan.from] =
                RepayAndClose(@, now, Owner(id), loan.borrowed, a, loan.unpaid)]
  BY DEF AfterClosePayment
<1>3. loan \in LoanRecord /\ pools \in [Pools -> PoolRecord] /\ Owner(id) \in Users
  BY <1>1, LoanWithInterestType, AfterInterestType, LoansType
<1>4. a \in Int /\ now \in Nat
  BY AmountsAssumption DEF TypeOK
<1> HIDE DEF loan, pools, paid
<1>5. /\ loan.from \in Pools /\ loan.collateralFrom \in Pools
      /\ loan.borrowed \in Int /\ loan.unpaid \in Int /\ loan.collateral \in Int
  BY <1>3 DEF LoanRecord
<1>6. paid \in [Pools -> PoolRecord]
  <2>1. RepayAndClose(pools[loan.from], now, Owner(id), loan.borrowed, a, loan.unpaid)
          \in PoolRecord
    BY <1>1, <1>3, <1>4, <1>5, RepayAndCloseType
  <2> QED
    BY <1>2, <1>3, <2>1, PoolUpdate
<1>7. pool' \in [Pools -> PoolRecord]
  <2>1. WithdrawCollateral(paid[loan.collateralFrom], now, Owner(id), loan.collateral)
          \in PoolRecord
    BY <1>1, <1>3, <1>4, <1>5, <1>6, WithdrawCollateralType
  <2> QED
    BY <1>1, <1>6, <2>1, PoolUpdate
<1>8. BookStep
  BY <1>1 DEF BookStep, Book!BookNext
<1> QED
  BY <1>1, <1>7, <1>8 DEF TypeOK, WorldTypeOK, worldVars, setupVars

\* The collateral has a last price, so that what is seized is an integer.
LEMMA SeizedCollateralInt ==
  ASSUME TypeOK, NEW p \in Pools, NEW q \in Pools, NEW a \in Int, last[q] # NoPrice
  PROVE  SeizedCollateral(p, q, a) \in Int
<1> USE ScaleAssumption
<1>1. last[p] \in Int /\ last[q] \in Nat \ {0} /\ CollateralFactor[q] \in Int
  BY PoolsAssumption DEF TypeOK, NoPrice
<1>2. Bonus(q) \in Int
  BY <1>1 DEF Bonus
<1>3. a * last[p] \in Int
  BY <1>1
<1>4. a * last[p] * Bonus(q) \in Int
  BY <1>2, <1>3
<1>5. TruncDiv(a * last[p] * Bonus(q), last[q]) \in Int
  BY <1>1, <1>4, TruncDivInt
<1> QED
  BY <1>5, TruncDivInt DEF SeizedCollateral

\* liquidate: interest, payment, seizure, and the loan written back.
LEMMA LiquidateLoanType ==
  ASSUME TypeOK, NEW u \in Users, NEW id \in DOMAIN loans, NEW a \in LiquidateAmounts,
         LiquidateLoan(u, id, a)
  PROVE  WorldTypeOK' /\ BookStep
<1> DEFINE loan   == LoanWithInterest(id)
           pools  == AfterInterest(id)
           paid   == AfterLiquidationPayment(u, id, a)
           seized == SeizedCollateral(loan.from, loan.collateralFrom, a)
           owed   == loan.borrowed - a
           secure == loan.collateral - seized
           health == HealthFactor(loan.from, owed, loan.collateralFrom, secure)
           fee    == AdminFee(a, loan.unpaid)
<1>1. /\ AddInterestOK(id)
      /\ LiquidateOK(pools[loan.from], u, a, loan.unpaid, Owner(id))
      /\ LiquidateTransferCollateralOK(paid[loan.collateralFrom], seized, Owner(id))
      /\ BorrowedValue(loan.from, owed) # 0
      /\ pool' = [paid EXCEPT ![loan.collateralFrom] =
                    LiquidateTransferCollateral(@, u, seized, Owner(id))]
      /\ Book!WriteEntry(id, LiquidatedLoan(id, a))
      /\ liquidationFees' = [liquidationFees EXCEPT ![loan.from] = @ + fee]
      /\ NoPrice \notin {last[loan.from], last[loan.collateralFrom]}
      /\ UNCHANGED <<worldVars, setupVars>>
  BY DEF LiquidateLoan, LiquidateLoanOK, HasHealthFactor
<1>2. paid = [pools EXCEPT ![loan.from] =
                Liquidate(@, now, u, a, loan.unpaid, Owner(id))]
  BY DEF AfterLiquidationPayment
<1>3. LiquidatedLoan(id, a) =
        [loan EXCEPT !.borrowed = owed, !.collateral = secure, !.health = health]
  BY DEF LiquidatedLoan
<1>4. loan \in LoanRecord /\ pools \in [Pools -> PoolRecord] /\ Owner(id) \in Users
  BY <1>1, LoanWithInterestType, AfterInterestType, LoansType
<1>5. a \in Int /\ now \in Nat
  BY AmountsAssumption DEF TypeOK
<1> HIDE DEF loan, pools, paid
<1>6. /\ loan.from \in Pools /\ loan.collateralFrom \in Pools
      /\ loan.borrowed \in Int /\ loan.unpaid \in Int /\ loan.collateral \in Int
  BY <1>4 DEF LoanRecord
<1>7. seized \in Int /\ fee \in Int
  BY <1>1, <1>5, <1>6, SeizedCollateralInt, AdminFeeInt
<1> HIDE DEF seized, fee
<1>8. owed \in Int /\ secure \in Int
  BY <1>5, <1>6, <1>7
<1> HIDE DEF owed, secure
<1>9. health \in Int
  BY <1>1, <1>6, <1>8, HealthFactorInt
<1> HIDE DEF health
<1>10. LiquidatedLoan(id, a) \in LoanRecord
  BY <1>3, <1>4, <1>8, <1>9 DEF LoanRecord
<1>11. paid \in [Pools -> PoolRecord]
  <2>1. Liquidate(pools[loan.from], now, u, a, loan.unpaid, Owner(id)) \in PoolRecord
    BY <1>1, <1>4, <1>5, <1>6, LiquidateType
  <2> QED
    BY <1>2, <1>4, <2>1, PoolUpdate
<1>12. pool' \in [Pools -> PoolRecord]
  <2>1. LiquidateTransferCollateral(paid[loan.collateralFrom], u, seized, Owner(id))
          \in PoolRecord
    BY <1>1, <1>4, <1>6, <1>7, <1>11, LiquidateTransferCollateralType
  <2> QED
    BY <1>1, <1>11, <2>1, PoolUpdate
<1>13. liquidationFees' \in [Pools -> Int]
  BY <1>1, <1>6, <1>7 DEF TypeOK
<1>14. BookStep
  BY <1>1, <1>10 DEF BookStep, Book!BookNext
<1> QED
  BY <1>1, <1>12, <1>13, <1>14 DEF TypeOK, WorldTypeOK, worldVars, setupVars

\* Every step of the protocol keeps its types and is a step of the book.
LEMMA StepType ==
  ASSUME TypeOK, [Next]_vars
  PROVE  WorldTypeOK' /\ BookStep
<1>1. CASE UNCHANGED vars
  BY <1>1 DEF vars, TypeOK, WorldTypeOK, BookStep, worldVars, setupVars, bookVars
<1>2. CASE Next
  BY <1>2, ElapseType, UpdatePriceType, InitializeManagerType, DeployPoolType,
     AdminWithdrawRevenueType, UserDepositType, UserWithdrawType,
     UserDepositCollateralType, UpdateAccrualType, CreateLoanType,
     AddInterestActionType, ManagerRepayType, CloseLoanType, LiquidateLoanType
     DEF Next
<1> QED
  BY <1>1, <1>2

-----------------------------------------------------------------------------
(* The theorems. *)

\* The types, and the agreement of the book's entries: inductive together.
Inv == TypeOK /\ Book!BookInv

\* The book that the manager uses is the book of LoanBook_proofs.
LEMMA BookInvIsTheSame == Book!BookInv <=> BookFacts!BookInv
BY DEF Book!BookInv, Book!BookTypeOK, Book!NoncesAreIssued, Book!ListsAreExact, Book!LoanId,
       BookFacts!BookInv, BookFacts!BookTypeOK, BookFacts!NoncesAreIssued,
       BookFacts!ListsAreExact, BookFacts!LoanId

\* A step of the one is a step of the other.
LEMMA BookNextIsTheSame ==
  [Book!BookNext]_(Book!bookVars) <=> [BookFacts!BookNext]_(BookFacts!bookVars)
BY DEF Book!bookVars, BookFacts!bookVars, Book!BookNext, BookFacts!BookNext,
   Book!CreateEntry, Book!WriteEntry, Book!DeleteEntry,
   BookFacts!CreateEntry, BookFacts!WriteEntry, BookFacts!DeleteEntry

\* The invariant holds at the start.
LEMMA InitInv == Init => Inv
<1> SUFFICES ASSUME Init
             PROVE  Inv
  OBVIOUS
<1>1. ASSUME NEW p \in Pools
      PROVE  Initialize([a \in Accounts |-> IF a \in Users THEN Endowment[a][p] ELSE 0], 0)
               \in PoolRecord
  <2> DEFINE tokens == [a \in Accounts |-> IF a \in Users THEN Endowment[a][p] ELSE 0]
  <2>1. tokens \in [Accounts -> Nat]
    BY PoolsAssumption
  <2> HIDE DEF tokens
  <2>2. Initialize(tokens, 0) \in PoolRecord
    BY <2>1, InitializeType
  <2> QED
    BY <2>2 DEF tokens
<1>2. pool \in [Pools -> PoolRecord]
  BY <1>1 DEF Init
<1>3. WorldTypeOK
  <2>1. now = 0 /\ initialized = FALSE /\ deployed = {}
    BY DEF Init
  <2>2. twap \in [Pools -> Nat] /\ last \in [Pools -> Nat]
    BY PoolsAssumption DEF Init
  <2>3. liquidationFees \in [Pools -> Int]
    BY DEF Init
  <2> QED
    BY <1>2, <2>1, <2>2, <2>3 DEF WorldTypeOK
<1>4. Book!BookInv
  <2>1. BookFacts!BookInit
    BY DEF Init, Book!BookInit, BookFacts!BookInit
  <2> QED
    BY <2>1, BookFacts!BookInitInv, BookInvIsTheSame
<1> QED
  BY <1>3, <1>4, TypeOKParts DEF Inv, Book!BookInv

\* Every step keeps the invariant, and is a step of the book.
LEMMA StepInv ==
  ASSUME Inv, [Next]_vars
  PROVE  Inv' /\ [Book!BookNext]_(Book!bookVars)
<1>1. WorldTypeOK' /\ BookStep
  BY StepType DEF Inv
<1>2. [Book!BookNext]_(Book!bookVars)
  BY <1>1 DEF BookStep, bookVars, Book!bookVars
<1>3. [BookFacts!BookNext]_(BookFacts!bookVars)
  BY <1>2, BookNextIsTheSame
<1>4. Book!BookInv'
  <2>1. BookFacts!BookInv'
    BY <1>3, BookFacts!BookStepInv, BookInvIsTheSame DEF Inv
  <2>2. BookFacts!BookInv' => Book!BookInv'
    BY DEF Book!BookInv, Book!BookTypeOK, Book!NoncesAreIssued, Book!ListsAreExact,
       Book!LoanId, BookFacts!BookInv, BookFacts!BookTypeOK, BookFacts!NoncesAreIssued,
       BookFacts!ListsAreExact, BookFacts!LoanId
  <2> QED
    BY <2>1, <2>2
<1> QED
  BY <1>1, <1>2, <1>4 DEF Inv, TypeOK, WorldTypeOK, Book!BookInv

\* The inductive invariant holds in every reachable state.
THEOREM ProtocolInvariant == Spec => []Inv
<1>1. Inv /\ [Next]_vars => Inv'
  BY StepInv
<1> QED
  BY InitInv, <1>1, PTL DEF Spec

\* Every amount stays an amount, no account of a token is ever overdrawn, and
\* every record stays well formed.
THEOREM TypeCorrect == Spec => []TypeOK
<1>1. Inv => TypeOK
  BY DEF Inv
<1> QED
  BY <1>1, ProtocolInvariant, PTL

\* The loan manager's entry points use their storage as the book of loans
\* prescribes: the protocol implements LoanBook.
THEOREM ImplementsBook == Spec => Book!BookSpec
<1>1. Init => Book!BookInit
  BY DEF Init
<1>2. Inv /\ [Next]_vars => [Book!BookNext]_(Book!bookVars)
  BY StepInv
<1> QED
  BY <1>1, <1>2, ProtocolInvariant, PTL DEF Spec, Book!BookSpec

=============================================================================
