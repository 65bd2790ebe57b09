------------------------ MODULE LendingBooks_proofs ------------------------
(***************************************************************************)
(* The bookkeeping of the protocol: which entries each action makes in     *)
(* which pool's books, for the proofs that relate the books of the pools   *)
(* to each other and to the loans.                                         *)
(***************************************************************************)
EXTENDS LendingSafety, LoanManager_proofs, Sums_proofs

\* after is before, with one entry of user u in the books of pool p.
IsPoolEntry(before, after, p, u, total, available, shares, liabilities, collateral) ==
  /\ after \in [Pools -> PoolRecord]
  /\ \A q \in Pools \ {p} : after[q] = before[q]
  /\ IsEntry(before[p], after[p], u, total, available, shares, liabilities, collateral)

\* A record with an entry, put in its pool's place.
LEMMA EntryInPlace ==
  ASSUME NEW pools \in [Pools -> PoolRecord], NEW p \in Pools, NEW u,
         NEW record \in PoolRecord, NEW t, NEW a, NEW s, NEW l, NEW c,
         IsEntry(pools[p], record, u, t, a, s, l, c)
  PROVE  IsPoolEntry(pools, [pools EXCEPT ![p] = record], p, u, t, a, s, l, c)
BY DEF IsPoolEntry

-----------------------------------------------------------------------------
(* The entries of each action. *)

\* deposit
LEMMA UserDepositEntries ==
  ASSUME TypeOK, NEW u \in Users, NEW p \in Pools, NEW a \in DepositAmounts,
         UserDeposit(u, p, a)
  PROVE  IsPoolEntry(pool, pool', p, u, a, a, SharesIssued(pool[p], a), 0, 0)
<1>1. pool \in [Pools -> PoolRecord] /\ now \in Nat /\ a \in Int
  BY AmountsAssumption DEF TypeOK
<1>2. Deposit(pool[p], now, u, a) \in PoolRecord
  BY <1>1, DepositType DEF UserDeposit
<1>3. IsEntry(pool[p], Deposit(pool[p], now, u, a), u, a, a, SharesIssued(pool[p], a), 0, 0)
  BY <1>1, DepositEntry
<1>4. pool' = [pool EXCEPT ![p] = Deposit(pool[p], now, u, a)]
  BY DEF UserDeposit
<1> QED
  BY <1>1, <1>2, <1>3, <1>4, EntryInPlace

\* withdraw
LEMMA UserWithdrawEntries ==
  ASSUME TypeOK, NEW u \in Users, NEW p \in Pools, NEW a \in WithdrawAmounts,
         UserWithdraw(u, p, a)
  PROVE  /\ SharesBurned(pool[p], a) \in Int
         /\ IsPoolEntry(pool, pool', p, u, -a, -a, -SharesBurned(pool[p], a), 0, 0)
<1>1. pool \in [Pools -> PoolRecord] /\ now \in Nat /\ a \in Int
  BY AmountsAssumption DEF TypeOK
<1>2. pool[p].total # 0 /\ WithdrawInternalOK(pool[p], u, a)
  BY DEF UserWithdraw, WithdrawOK, WithdrawInternalOK
<1>3. WithdrawInternal(pool[p], now, u, a) \in PoolRecord
  BY <1>1, <1>2, WithdrawInternalType
<1>4. IsEntry(pool[p], WithdrawInternal(pool[p], now, u, a), u,
              -a, -a, -SharesBurned(pool[p], a), 0, 0)
  BY <1>1, <1>2, WithdrawInternalEntry
<1>5. pool' = [pool EXCEPT ![p] = WithdrawInternal(pool[p], now, u, a)]
  BY DEF UserWithdraw
<1> QED
  BY <1>1, <1>2, <1>3, <1>4, <1>5, SharesInt, EntryInPlace

\* deposit_collateral, in any pools a user calls it or create_loan does.
LEMMA CollateralEntries ==
  ASSUME NEW pools \in [Pools -> PoolRecord], now \in Nat, NEW u \in Users, NEW q \in Pools,
         NEW a \in Int, DepositCollateralOK(pools[q], now, u, a)
  PROVE  \E paidOut, burned \in Int :
           /\ IsPayout(pools[q], u, paidOut, burned)
           /\ IsPoolEntry(pools, [pools EXCEPT ![q] = DepositCollateral(pools[q], now, u, a)],
                          q, u, paidOut, paidOut, burned, 0, a)
<1> DEFINE record == DepositCollateral(pools[q], now, u, a)
<1>1. record \in PoolRecord
  BY DepositCollateralType
<1>2. PICK paidOut \in Int, burned \in Int :
        /\ IsPayout(pools[q], u, paidOut, burned)
        /\ IsEntry(pools[q], record, u, paidOut, paidOut, burned, 0, a)
  BY DepositCollateralEntry
<1> HIDE DEF record
<1>3. IsPoolEntry(pools, [pools EXCEPT ![q] = record], q, u, paidOut, paidOut, burned, 0, a)
  BY <1>1, <1>2, EntryInPlace
<1> QED
  BY <1>2, <1>3 DEF record

\* create_loan: the collateral's entry, then the loan's.
LEMMA CreateLoanEntries ==
  ASSUME TypeOK, NEW u \in Users, NEW p \in Pools, NEW q \in Pools,
         NEW b \in BorrowAmounts, NEW c \in CollateralAmounts, CreateLoan(u, p, b, q, c)
  PROVE  \E secured \in [Pools -> PoolRecord], paidOut, burned \in Int :
           /\ IsPayout(pool[q], u, paidOut, burned)
           /\ IsPoolEntry(pool, secured, q, u, paidOut, paidOut, burned, 0, c)
           /\ IsPoolEntry(secured, pool', p, u, 0, -b, 0, b, 0)
<1> DEFINE secured == AfterCollateral(u, q, c)
<1>1. pool \in [Pools -> PoolRecord] /\ now \in Nat /\ b \in Int /\ c \in Int
  BY AmountsAssumption DEF TypeOK
<1>2. secured = [pool EXCEPT ![q] = DepositCollateral(pool[q], now, u, c)]
  BY DEF AfterCollateral
<1>3. /\ DepositCollateralOK(pool[q], now, u, c)
      /\ BorrowOK(secured[p], u, b)
      /\ pool' = [secured EXCEPT ![p] = Borrow(secured[p], now, u, b)]
  BY DEF CreateLoan, AfterBorrow
<1> HIDE DEF secured
<1>4. PICK paidOut \in Int, burned \in Int :
        /\ IsPayout(pool[q], u, paidOut, burned)
        /\ IsPoolEntry(pool, secured, q, u, paidOut, paidOut, burned, 0, c)
  BY <1>1, <1>2, <1>3, CollateralEntries
<1>5. secured \in [Pools -> PoolRecord]
  BY <1>4 DEF IsPoolEntry
<1>6. IsEntry(secured[p], Borrow(secured[p], now, u, b), u, 0, -b, 0, b, 0)
  BY <1>1, <1>5, BorrowEntry
<1>7. Borrow(secured[p], now, u, b) \in PoolRecord
  BY <1>1, <1>3, <1>5, BorrowType
<1>8. IsPoolEntry(secured, pool', p, u, 0, -b, 0, b, 0)
  BY <1>3, <1>5, <1>6, <1>7, EntryInPlace
<1> QED
  BY <1>4, <1>5, <1>8

\* What add_interest raises the borrower's liabilities by.
LiabilityGrowth(id) ==
  IF GrownDebt(id) - loans[id].borrowed > 0 THEN GrownDebt(id) - loans[id].borrowed ELSE 0

\* add_interest, which the entry points below begin with.
LEMMA InterestEntries ==
  ASSUME TypeOK, NEW id \in DOMAIN loans, AddInterestOK(id)
  PROVE  /\ LiabilityGrowth(id) \in Int
         /\ IsPoolEntry(pool, AfterInterest(id), loans[id].from, Owner(id),
                        0, 0, 0, LiabilityGrowth(id), 0)
<1> DEFINE p    == loans[id].from
           more == GrownDebt(id) - loans[id].borrowed
<1>1. /\ pool \in [Pools -> PoolRecord] /\ now \in Nat
      /\ Owner(id) \in Users /\ p \in Pools /\ loans[id].borrowed \in Int
  BY LoansType DEF TypeOK, LoanRecord
<1>2. more \in Int
  BY <1>1, GrownDebtInt DEF AddInterestOK
<1> DEFINE a      == AddInterestToAccrual(pool[p], now)
           record == PoolWithInterest(id)
<1>3. AfterInterest(id) = [pool EXCEPT ![p] = record]
  BY DEF AfterInterest
<1> HIDE DEF p
<1>4. a \in PoolRecord /\ IsEntry(pool[p], a, Owner(id), 0, 0, 0, 0, 0)
  BY <1>1, AddInterestType, AddInterestEntry
<1>5. /\ LiabilityGrowth(id) \in Int
      /\ record \in PoolRecord
      /\ IsEntry(pool[p], record, Owner(id), 0, 0, 0, LiabilityGrowth(id), 0)
  <2>1. CASE more > 0
    <3>1. record = IncreaseLiabilities(a, Owner(id), more)
      BY <2>1 DEF PoolWithInterest, p
    <3>2. record \in PoolRecord /\ IsEntry(a, record, Owner(id), 0, 0, 0, more, 0)
      BY <1>1, <1>2, <1>4, <3>1, IncreaseLiabilitiesType, IncreaseLiabilitiesEntry
    <3>3. IsEntry(pool[p], record, Owner(id), 0, 0, 0, more, 0)
      BY <1>1, <3>2, EntryAfterInterest
    <3>4. LiabilityGrowth(id) = more
      BY <2>1 DEF LiabilityGrowth
    <3> HIDE DEF more, record
    <3> QED
      BY <1>2, <3>2, <3>3, <3>4
  <2>2. CASE ~ (more > 0)
    <3>1. record = a
      BY <2>2 DEF PoolWithInterest, p
    <3>2. LiabilityGrowth(id) = 0
      BY <2>2 DEF LiabilityGrowth
    <3> HIDE DEF a, record
    <3> QED
      BY <1>4, <3>1, <3>2
  <2> QED
    BY <2>1, <2>2
<1> HIDE DEF record
<1>6. IsPoolEntry(pool, AfterInterest(id), p, Owner(id), 0, 0, 0, LiabilityGrowth(id), 0)
  <2> HIDE DEF LiabilityGrowth
  <2>1. /\ AfterInterest(id) \in [Pools -> PoolRecord]
        /\ AfterInterest(id)[p] = record
        /\ \A q \in Pools \ {p} : AfterInterest(id)[q] = pool[q]
    BY <1>1, <1>3, <1>5
  <2> QED
    BY <1>5, <2>1 DEF IsPoolEntry
<1> QED
  BY <1>5, <1>6 DEF p

\* repay: interest, then the payment's entry.
LEMMA ManagerRepayEntries ==
  ASSUME TypeOK, NEW id \in DOMAIN loans, NEW a \in RepayAmounts, ManagerRepay(id, a)
  PROVE  LET p         == loans[id].from
             mid       == AfterInterest(id)
             unpaid    == LoanWithInterest(id).unpaid
             fee       == AdminFee(a, unpaid)
             interest  == InterestPart(a, unpaid)
             principal == Smaller(a - interest, mid[p].positions[Owner(id)].liabilities)
         IN  /\ fee \in Int /\ interest \in Int /\ principal \in Int
             /\ mid \in [Pools -> PoolRecord]
             /\ IsPoolEntry(mid, pool', p, Owner(id), interest - fee, a - fee, 0, -principal, 0)
<1> DEFINE p         == loans[id].from
           mid       == AfterInterest(id)
           u         == Owner(id)
           unpaid    == LoanWithInterest(id).unpaid
           fee       == AdminFee(a, unpaid)
           interest  == InterestPart(a, unpaid)
           principal == Smaller(a - interest, mid[p].positions[u].liabilities)
           record    == Repay(mid[p], now, u, a, unpaid)
<1>1. AddInterestOK(id)
  BY DEF ManagerRepay, ManagerRepayOK
<1>2. /\ LoanWithInterest(id) \in LoanRecord /\ LoanWithInterest(id).from = p
      /\ mid \in [Pools -> PoolRecord] /\ u \in Users
      /\ a \in Int /\ now \in Nat
  BY <1>1, LoanWithInterestType, AfterInterestType, LoansType, AmountsAssumption DEF TypeOK
<1>3. unpaid \in Int /\ p \in Pools
  BY <1>2 DEF LoanRecord
<1>4. RepayOK(mid[p], u, a, unpaid) /\ pool' = [mid EXCEPT ![p] = record]
  BY <1>2 DEF ManagerRepay, ManagerRepayOK
<1> HIDE DEF p, mid, u, unpaid
<1>5. mid[p] \in PoolRecord
  BY <1>2, <1>3
<1>6. record \in PoolRecord
  BY <1>2, <1>3, <1>4, <1>5, RepayType
<1>7. IsEntry(mid[p], record, u, interest - fee, a - fee, 0, -principal, 0)
  BY <1>2, <1>3, <1>5, RepayEntry
<1>8. fee \in Int /\ interest \in Int /\ principal \in Int
  <2>1. fee \in Int
    BY <1>2, <1>3, AdminFeeInt
  <2>2. interest \in Int
    BY <1>2, <1>3, SmallerInt DEF InterestPart
  <2>3. mid[p].positions[u].liabilities \in Int
    BY <1>2, <1>5 DEF PoolRecord, Position
  <2> HIDE DEF interest
  <2>4. a - interest \in Int
    BY <1>2, <2>2
  <2> QED
    BY <2>1, <2>2, <2>3, <2>4, SmallerInt
<1> HIDE DEF record, fee, interest, principal
<1>9. IsPoolEntry(mid, pool', p, u, interest - fee, a - fee, 0, -principal, 0)
  BY <1>2, <1>3, <1>4, <1>6, <1>7, EntryInPlace
<1> QED
  BY <1>2, <1>8, <1>9 DEF p, mid, u, unpaid, fee, interest, principal

\* repay_and_close_manager: interest, the payment, and the collateral back.
LEMMA CloseLoanEntries ==
  ASSUME TypeOK, NEW id \in DOMAIN loans, NEW a \in AllowedAmounts, CloseLoan(id, a)
  PROVE  LET loan == LoanWithInterest(id)
             p    == loans[id].from
             mid  == AfterInterest(id)
             paid == AfterClosePayment(id, a)
             fee  == AdminFee(loan.borrowed, loan.unpaid)
         IN  /\ fee \in Int /\ loan.borrowed \in Int /\ loan.unpaid \in Int
             /\ mid[p].positions[Owner(id)].liabilities \in Int
             /\ loans[id].collateral \in Int
             /\ mid \in [Pools -> PoolRecord] /\ paid \in [Pools -> PoolRecord]
             /\ IsPoolEntry(mid, paid, p, Owner(id), loan.unpaid - fee, loan.borrowed - fee,
                            0, -mid[p].positions[Owner(id)].liabilities, 0)
             /\ IsPoolEntry(paid, pool', loans[id].collateralFrom, Owner(id),
                            0, 0, 0, 0, -loans[id].collateral)
<1> DEFINE loan  == LoanWithInterest(id)
           p     == loans[id].from
           q     == loans[id].collateralFrom
           u     == Owner(id)
           mid   == AfterInterest(id)
           paid  == AfterClosePayment(id, a)
           fee   == AdminFee(loan.borrowed, loan.unpaid)
           owed  == mid[p].positions[u].liabilities
           first == RepayAndClose(mid[p], now, u, loan.borrowed, a, loan.unpaid)
           last2 == WithdrawCollateral(paid[q], now, u, loan.collateral)
<1>1. /\ AddInterestOK(id)
      /\ RepayAndCloseOK(mid[loan.from], u, loan.borrowed, a, loan.unpaid)
      /\ WithdrawCollateralOK(paid[loan.collateralFrom], u, loan.collateral)
      /\ pool' = [paid EXCEPT ![loan.collateralFrom] =
                    WithdrawCollateral(paid[loan.collateralFrom], now, u, loan.collateral)]
      /\ paid = [mid EXCEPT ![loan.from] =
                   RepayAndClose(mid[loan.from], now, u, loan.borrowed, a, loan.unpaid)]
  BY DEF CloseLoan, CloseLoanOK, AfterClosePayment
<1>2. /\ loan \in LoanRecord /\ loan.from = p /\ loan.collateralFrom = q
      /\ loan.collateral = loans[id].collateral
      /\ mid \in [Pools -> PoolRecord] /\ u \in Users
      /\ a \in Int /\ now \in Nat
  BY <1>1, LoanWithInterestType, AfterInterestType, LoansType, AmountsAssumption DEF TypeOK
<1>3. /\ loan.borrowed \in Int /\ loan.unpaid \in Int /\ loan.collateral \in Int
      /\ p \in Pools /\ q \in Pools
  BY <1>2 DEF LoanRecord
<1>4. /\ RepayAndCloseOK(mid[p], u, loan.borrowed, a, loan.unpaid)
      /\ WithdrawCollateralOK(paid[q], u, loan.collateral)
      /\ paid = [mid EXCEPT ![p] = first]
      /\ pool' = [paid EXCEPT ![q] = last2]
  BY <1>1, <1>2
<1> HIDE DEF p, q, u, mid, paid, loan
<1>5. mid[p] \in PoolRecord
  BY <1>2, <1>3
<1>6. first \in PoolRecord
  BY <1>2, <1>3, <1>4, <1>5, RepayAndCloseType
<1>7. IsEntry(mid[p], first, u, loan.unpaid - fee, loan.borrowed - fee, 0, -owed, 0)
  BY <1>2, <1>3, <1>5, RepayAndCloseEntry
<1>8. fee \in Int /\ owed \in Int
  BY <1>2, <1>3, <1>5, AdminFeeInt DEF PoolRecord, Position
<1> HIDE DEF first, fee, owed
<1>9. IsPoolEntry(mid, paid, p, u, loan.unpaid - fee, loan.borrowed - fee, 0, -owed, 0)
  BY <1>2, <1>3, <1>4, <1>6, <1>7, EntryInPlace
<1>10. paid \in [Pools -> PoolRecord] /\ paid[q] \in PoolRecord
  BY <1>3, <1>9 DEF IsPoolEntry
<1>11. last2 \in PoolRecord
  BY <1>2, <1>3, <1>4, <1>10, WithdrawCollateralType
<1>12. IsEntry(paid[q], last2, u, 0, 0, 0, 0, -loan.collateral)
  BY <1>2, <1>3, <1>10, WithdrawCollateralEntry
<1> HIDE DEF last2
<1>13. IsPoolEntry(paid, pool', q, u, 0, 0, 0, 0, -loan.collateral)
  BY <1>3, <1>4, <1>10, <1>11, <1>12, EntryInPlace
<1> QED
  BY <1>2, <1>3, <1>9, <1>10, <1>13, <1>8 DEF p, q, u, mid, paid, loan, fee, owed

\* liquidate: interest, the payment, and the collateral seized.
LEMMA LiquidateLoanEntries ==
  ASSUME TypeOK, NEW u \in Users, NEW id \in DOMAIN loans, NEW a \in LiquidateAmounts,
         LiquidateLoan(u, id, a)
  PROVE  LET p      == loans[id].from
             q      == loans[id].collateralFrom
             mid    == AfterInterest(id)
             paid   == AfterLiquidationPayment(u, id, a)
             fee    == AdminFee(a, LoanWithInterest(id).unpaid)
             seized == SeizedCollateral(p, q, a)
         IN  /\ seized \in Int /\ fee \in Int
             /\ mid \in [Pools -> PoolRecord] /\ paid \in [Pools -> PoolRecord]
             /\ IsPoolEntry(mid, paid, p, Owner(id), 0, a - fee, 0, -a, 0)
             /\ IsPoolEntry(paid, pool', q, Owner(id), 0, 0, 0, 0, -seized)
<1> DEFINE loan   == LoanWithInterest(id)
           p      == loans[id].from
           q      == loans[id].collateralFrom
           w      == Owner(id)
           mid    == AfterInterest(id)
           paid   == AfterLiquidationPayment(u, id, a)
           fee    == AdminFee(a, loan.unpaid)
           seized == SeizedCollateral(p, q, a)
           first  == Liquidate(mid[p], now, u, a, loan.unpaid, w)
           last2  == LiquidateTransferCollateral(paid[q], u, seized, w)
<1>1. AddInterestOK(id) /\ NoPrice \notin {last[loan.from], last[loan.collateralFrom]}
  BY DEF LiquidateLoan, LiquidateLoanOK
<1>2. /\ loan \in LoanRecord /\ loan.from = p /\ loan.collateralFrom = q
      /\ mid \in [Pools -> PoolRecord] /\ w \in Users
      /\ a \in Int /\ now \in Nat
  BY <1>1, LoanWithInterestType, AfterInterestType, LoansType, AmountsAssumption DEF TypeOK
<1>3. loan.unpaid \in Int /\ p \in Pools /\ q \in Pools
  BY <1>2 DEF LoanRecord
<1>4. /\ LiquidateOK(mid[p], u, a, loan.unpaid, w)
      /\ LiquidateTransferCollateralOK(paid[q], seized, w)
      /\ paid = [mid EXCEPT ![p] = first]
      /\ pool' = [paid EXCEPT ![q] = last2]
  BY <1>2 DEF LiquidateLoan, LiquidateLoanOK, AfterLiquidationPayment
<1>5. seized \in Int
  BY <1>1, <1>2, <1>3, SeizedCollateralInt
<1>6. fee \in Int
  BY <1>2, <1>3, AdminFeeInt
<1> HIDE DEF p, q, w, mid, paid, loan, seized
<1>7. mid[p] \in PoolRecord
  BY <1>2, <1>3
<1>8. first \in PoolRecord
  BY <1>2, <1>3, <1>4, <1>7, LiquidateType
<1>9. IsEntry(mid[p], first, w, 0, a - fee, 0, -a, 0)
  BY <1>2, <1>3, <1>7, LiquidateEntry
<1> HIDE DEF first, fee
<1>10. IsPoolEntry(mid, paid, p, w, 0, a - fee, 0, -a, 0)
  BY <1>2, <1>3, <1>4, <1>8, <1>9, EntryInPlace
<1>11. paid \in [Pools -> PoolRecord] /\ paid[q] \in PoolRecord
  BY <1>3, <1>10 DEF IsPoolEntry
<1>12. last2 \in PoolRecord
  BY <1>2, <1>3, <1>4, <1>5, <1>11, LiquidateTransferCollateralType
<1>13. IsEntry(paid[q], last2, w, 0, 0, 0, 0, -seized)
  BY <1>2, <1>3, <1>5, <1>11, LiquidateTransferCollateralEntry
<1> HIDE DEF last2
<1>14. IsPoolEntry(paid, pool', q, w, 0, 0, 0, 0, -seized)
  BY <1>3, <1>4, <1>11, <1>12, <1>13, EntryInPlace
<1> QED
  BY <1>2, <1>5, <1>6, <1>10, <1>11, <1>14 DEF p, q, w, mid, paid, loan, fee, seized

-----------------------------------------------------------------------------
(* The actions that make no entries. *)

\* The books of a pool are the same in two records of it: they may differ in
\* the interest index, and in what is not the pool's own of the token.
HasSameBooks(r, s) ==
  /\ s.total = r.total
  /\ s.available = r.available
  /\ s.shares = r.shares
  /\ s.positions = r.positions
  /\ s.tokens[ThePool] = r.tokens[ThePool]

SameBooks(before, after) == \A p \in Pools : HasSameBooks(before[p], after[p])

\* A pool that has never been used.
IsBlank(r) ==
  /\ r.total = 0
  /\ r.available = 0
  /\ r.shares = 0
  /\ r.positions = [u \in Users |-> NoPosition]
  /\ r.tokens[ThePool] = 0

\* One record is replaced by another with the same books.
LEMMA SameBooksInPlace ==
  ASSUME NEW pools \in [Pools -> PoolRecord], NEW p \in Pools, NEW record,
         HasSameBooks(pools[p], record)
  PROVE  SameBooks(pools, [pools EXCEPT ![p] = record])
BY DEF SameBooks, HasSameBooks

\* Nothing changes.
LEMMA SameBooksUnchanged ==
  ASSUME UNCHANGED pool
  PROVE  SameBooks(pool, pool')
BY DEF SameBooks, HasSameBooks

\* deploy_pool, of a pool that has never been used
LEMMA DeployPoolBooks ==
  ASSUME TypeOK, NEW p \in Pools, DeployPool(p), IsBlank(pool[p])
  PROVE  SameBooks(pool, pool')
<1>1. HasSameBooks(pool[p], Initialize(pool[p].tokens, now))
  BY DEF HasSameBooks, IsBlank, Initialize
<1> QED
  BY <1>1, SameBooksInPlace DEF DeployPool, TypeOK

\* admin_withdraw_revenue
LEMMA AdminWithdrawRevenueBooks ==
  ASSUME TypeOK, NEW p \in Pools, NEW a \in RevenueAmounts, AdminWithdrawRevenue(p, a)
  PROVE  SameBooks(pool, pool')
<1> DEFINE t == Move(pool[p].tokens, TheManager, TheAdmin, a)
           record == [pool[p] EXCEPT !.tokens = t]
<1>1. pool[p] \in PoolRecord /\ pool[p].tokens \in [Accounts -> Nat]
  BY DEF TypeOK, PoolRecord
<1>2. t[ThePool] = pool[p].tokens[ThePool]
  BY <1>1 DEF Move, ThePool, TheManager, TheAdmin, Accounts
<1> HIDE DEF t
<1>3. HasSameBooks(pool[p], record)
  BY <1>1, <1>2 DEF HasSameBooks, PoolRecord
<1>4. pool' = [pool EXCEPT ![p] = record]
  BY DEF AdminWithdrawRevenue, TypeOK, t
<1> HIDE DEF record
<1> QED
  BY <1>3, <1>4, SameBooksInPlace DEF TypeOK

\* add_interest_to_accrual
LEMMA UpdateAccrualBooks ==
  ASSUME TypeOK, NEW p \in Pools, UpdateAccrual(p)
  PROVE  SameBooks(pool, pool')
<1>1. pool[p] \in PoolRecord
  BY DEF TypeOK
<1>2. HasSameBooks(pool[p], AddInterestToAccrual(pool[p], now))
  BY <1>1 DEF HasSameBooks, AddInterestToAccrual, PoolRecord
<1> QED
  BY <1>2, SameBooksInPlace DEF UpdateAccrual, TypeOK

-----------------------------------------------------------------------------
(* The steps that have nothing to do with loans. *)

\* Time, prices, administration and accruals make no entries.
QuietStep ==
  /\ SameBooks(pool, pool')
  /\ pool' \in [Pools -> PoolRecord]
  /\ deployed \subseteq deployed'
  /\ UNCHANGED <<loans, nonce, ids, liquidationFees>>

\* Lenders' calls, and collateral without a loan, make one entry, which
\* changes what the pool has and what it is owed by the same.
LenderStep ==
  /\ \E u \in Users, p \in deployed, paid, shares, collateral \in Int :
       /\ collateral >= 0
       /\ IsPoolEntry(pool, pool', p, u, paid, paid, shares, 0, collateral)
  /\ UNCHANGED <<deployed, loans, nonce, ids, liquidationFees>>

LoanStep ==
  \/ \E u \in Users, p, q \in Pools, b \in BorrowAmounts, c \in CollateralAmounts :
       CreateLoan(u, p, b, q, c)
  \/ \E id \in DOMAIN loans : AddInterest(id)
  \/ \E id \in DOMAIN loans, a \in RepayAmounts : ManagerRepay(id, a)
  \/ \E id \in DOMAIN loans, a \in AllowedAmounts : CloseLoan(id, a)
  \/ \E u \in Users, id \in DOMAIN loans, a \in LiquidateAmounts : LiquidateLoan(u, id, a)

\* What lenders call, and deposit_collateral, which users may call themselves.
LenderCall ==
  \/ \E u \in Users, p \in Pools, a \in DepositAmounts : UserDeposit(u, p, a)
  \/ \E u \in Users, p \in Pools, a \in WithdrawAmounts : UserWithdraw(u, p, a)
  \/ \E u \in Users, p \in Pools, a \in StrayAmounts : UserDepositCollateral(u, p, a)

\* No pool is used before it is deployed.
UndeployedAreBlank == \A p \in Pools \ deployed : IsBlank(pool[p])

\* deposit is a lender's step.
LEMMA UserDepositIsLenders ==
  ASSUME TypeOK, NEW u \in Users, NEW p \in Pools, NEW a \in DepositAmounts,
         UserDeposit(u, p, a)
  PROVE  LenderStep
<1>1. IsPoolEntry(pool, pool', p, u, a, a, SharesIssued(pool[p], a), 0, 0)
  BY UserDepositEntries
<1>2. a \in Int /\ SharesIssued(pool[p], a) \in Int
  BY AmountsAssumption, SharesInt DEF TypeOK
<1>3. p \in deployed /\ UNCHANGED <<deployed, loans, nonce, ids, liquidationFees>>
  BY DEF UserDeposit, setupVars, bookVars
<1> QED
  BY <1>1, <1>2, <1>3 DEF LenderStep

\* withdraw is a lender's step.
LEMMA UserWithdrawIsLenders ==
  ASSUME TypeOK, NEW u \in Users, NEW p \in Pools, NEW a \in WithdrawAmounts,
         UserWithdraw(u, p, a)
  PROVE  LenderStep
<1> DEFINE paid == -a
           burned == -SharesBurned(pool[p], a)
<1>1. IsPoolEntry(pool, pool', p, u, paid, paid, burned, 0, 0)
  BY UserWithdrawEntries
<1>2. paid \in Int /\ burned \in Int
  BY AmountsAssumption, UserWithdrawEntries
<1>3. p \in deployed /\ UNCHANGED <<deployed, loans, nonce, ids, liquidationFees>>
  BY DEF UserWithdraw, setupVars, bookVars
<1> HIDE DEF paid, burned
<1> QED
  BY <1>1, <1>2, <1>3 DEF LenderStep

\* deposit_collateral without a loan counts as one.
LEMMA UserDepositCollateralIsLenders ==
  ASSUME TypeOK, NEW u \in Users, NEW p \in Pools, NEW a \in StrayAmounts,
         UserDepositCollateral(u, p, a)
  PROVE  LenderStep
<1>1. DepositCollateralOK(pool[p], now, u, a)
      /\ pool' = [pool EXCEPT ![p] = DepositCollateral(pool[p], now, u, a)]
  BY DEF UserDepositCollateral
<1>2. a \in Int /\ a >= 0 /\ now \in Nat /\ pool \in [Pools -> PoolRecord]
  BY <1>1, AmountsAssumption DEF TypeOK, DepositCollateralOK
<1>3. PICK paid \in Int, burned \in Int :
        IsPoolEntry(pool, pool', p, u, paid, paid, burned, 0, a)
  BY <1>1, <1>2, CollateralEntries
<1>4. p \in deployed /\ UNCHANGED <<deployed, loans, nonce, ids, liquidationFees>>
  BY DEF UserDepositCollateral, setupVars, bookVars
<1> QED
  BY <1>2, <1>3, <1>4 DEF LenderStep

\* Every step is of one of the three kinds.
LEMMA CallKinds ==
  ASSUME TypeOK, UndeployedAreBlank, [Next]_vars
  PROVE  QuietStep \/ LenderCall \/ LoanStep
<1>1. pool' \in [Pools -> PoolRecord]
  BY StepType DEF WorldTypeOK
<1>2. CASE UNCHANGED vars
  BY <1>1, <1>2, SameBooksUnchanged DEF vars, worldVars, setupVars, bookVars, QuietStep
<1>3. ASSUME NEW t \in Elapses, Elapse(t) PROVE QuietStep
  BY <1>1, <1>3, SameBooksUnchanged DEF Elapse, setupVars, bookVars, QuietStep
<1>4. ASSUME NEW p \in Pools, NEW average \in Prices[p], NEW latest \in Prices[p],
             UpdatePrice(p, average, latest)
      PROVE  QuietStep
  BY <1>1, <1>4, SameBooksUnchanged DEF UpdatePrice, setupVars, bookVars, QuietStep
<1>5. CASE InitializeManager
  BY <1>1, <1>5, SameBooksUnchanged DEF InitializeManager, worldVars, bookVars, QuietStep
<1>6. ASSUME NEW p \in Pools, DeployPool(p) PROVE QuietStep
  <2>1. IsBlank(pool[p])
    BY <1>6 DEF DeployPool, UndeployedAreBlank
  <2>2. SameBooks(pool, pool')
    BY <1>6, <2>1, DeployPoolBooks
  <2> QED
    BY <1>1, <1>6, <2>2 DEF DeployPool, worldVars, bookVars, QuietStep
<1>7. ASSUME NEW p \in Pools, NEW a \in RevenueAmounts, AdminWithdrawRevenue(p, a)
      PROVE  QuietStep
  <2>1. SameBooks(pool, pool')
    BY <1>7, AdminWithdrawRevenueBooks
  <2> QED
    BY <1>1, <1>7, <2>1 DEF AdminWithdrawRevenue, worldVars, setupVars, bookVars, QuietStep
<1>8. ASSUME NEW p \in Pools, UpdateAccrual(p) PROVE QuietStep
  <2>1. SameBooks(pool, pool')
    BY <1>8, UpdateAccrualBooks
  <2> QED
    BY <1>1, <1>8, <2>1 DEF UpdateAccrual, worldVars, setupVars, bookVars, QuietStep
<1>9. CASE Next
  BY <1>3, <1>4, <1>5, <1>6, <1>7, <1>8, <1>9 DEF Next, LenderCall, LoanStep
<1> QED
  BY <1>2, <1>9

\* And what lenders call makes one entry.
LEMMA StepKinds ==
  ASSUME TypeOK, UndeployedAreBlank, [Next]_vars
  PROVE  QuietStep \/ LenderStep \/ LoanStep
BY CallKinds, UserDepositIsLenders, UserWithdrawIsLenders, UserDepositCollateralIsLenders
   DEF LenderCall

=============================================================================
