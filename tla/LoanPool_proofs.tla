--------------------------- MODULE LoanPool_proofs ---------------------------
(***************************************************************************)
(* Facts about the arithmetic and about the entry points of a pool, for    *)
(* the proofs about the protocol: each entry point, called when its        *)
(* condition holds, leaves a pool record, in which no account of the       *)
(* token is overdrawn.                                                     *)
(***************************************************************************)
EXTENDS LoanPool, TLAPS

\* Rust's division of integers gives an integer.
LEMMA TruncDivInt ==
  ASSUME NEW a \in Int, NEW b \in Int, b # 0
  PROVE  TruncDiv(a, b) \in Int
<1>1. Magnitude(a) \in Nat /\ Magnitude(b) \in Nat \ {0}
  BY DEF Magnitude
<1>2. Magnitude(a) \div Magnitude(b) \in Int
  <2> HIDE DEF Magnitude
  <2> QED
    BY <1>1
<1> QED
  BY <1>2 DEF TruncDiv

\* The smaller of two integers is one.
LEMMA SmallerInt ==
  ASSUME NEW a \in Int, NEW b \in Int
  PROVE  Smaller(a, b) \in Int
BY DEF Smaller

\* get_interest gives an integer: it divides by positive constants and by a positive total.
LEMMA GetInterestInt ==
  ASSUME NEW total \in Int, NEW available \in Int, NEW multiplier \in Int
  PROVE  GetInterest(total, available, multiplier) \in Int
<1> USE ScaleAssumption, RateAssumption
<1>1. SlopeBeforePanic \in Int
  BY TruncDivInt DEF SlopeBeforePanic
<1>2. SlopeAfterPanic \in Int
  BY TruncDivInt DEF SlopeAfterPanic
<1>3. ASSUME NEW r \in Int PROVE RateAt(r) \in Int
  <2>1. TruncDiv(SlopeBeforePanic * r, DECIMAL) \in Int
    BY <1>1, TruncDivInt
  <2>2. TruncDiv(SlopeAfterPanic * r, DECIMAL) \in Int
    BY <1>2, TruncDivInt
  <2> QED
    BY <2>1, <2>2 DEF RateAt
<1>4. CASE total > 0
  <2>1. Utilisation(total, available) \in Int
    BY <1>4, TruncDivInt DEF Utilisation
  <2> QED
    BY <2>1, <1>3, <1>4 DEF GetInterest
<1>5. CASE ~ (total > 0)
  BY <1>5 DEF GetInterest
<1> QED
  BY <1>4, <1>5

-----------------------------------------------------------------------------

\* A transfer the token contract allows overdraws nobody.
LEMMA MoveType ==
  ASSUME NEW tokens \in [Accounts -> Nat], NEW from \in Accounts, NEW to \in Accounts,
         NEW amount \in Int, CanMove(tokens, from, amount)
  PROVE  Move(tokens, from, to, amount) \in [Accounts -> Nat]
BY DEF CanMove, Move

\* Users and contracts all have accounts.
LEMMA AccountsOfTheToken ==
  /\ Users \subseteq Accounts
  /\ ThePool \in Accounts /\ TheManager \in Accounts /\ TheAdmin \in Accounts
BY DEF Accounts

\* initialize of a pool
LEMMA InitializeType ==
  ASSUME NEW tokens \in [Accounts -> Nat], NEW now \in Nat
  PROVE  Initialize(tokens, now) \in PoolRecord
BY ScaleAssumption DEF Initialize, PoolRecord, NoPosition, Position, Statuses

\* increase_positions touches no token balance.
LEMMA IncreasePositionsType ==
  ASSUME NEW p \in PoolRecord, NEW u \in Users,
         NEW s \in Int, NEW l \in Int, NEW c \in Int
  PROVE  /\ IncreasePositions(p, u, s, l, c) \in PoolRecord
         /\ IncreasePositions(p, u, s, l, c).tokens = p.tokens
BY DEF IncreasePositions, PoolRecord, Position

\* decrease_positions touches no token balance.
LEMMA DecreasePositionsType ==
  ASSUME NEW p \in PoolRecord, NEW u \in Users,
         NEW s \in Int, NEW l \in Int, NEW c \in Int
  PROVE  /\ DecreasePositions(p, u, s, l, c) \in PoolRecord
         /\ DecreasePositions(p, u, s, l, c).tokens = p.tokens
BY IncreasePositionsType DEF DecreasePositions

\* add_interest_to_accrual touches no token balance.
LEMMA AddInterestType ==
  ASSUME NEW p \in PoolRecord, NEW now \in Nat
  PROVE  /\ AddInterestToAccrual(p, now) \in PoolRecord
         /\ AddInterestToAccrual(p, now).tokens = p.tokens
<1> DEFINE rate  == GetInterest(p.total, p.available, p.multiplier)
           ratio == ((now - p.updated) * DECIMAL) \div SECONDS_IN_YEAR
           year  == TruncDiv(p.accrual * rate, DECIMAL)
<1> USE ScaleAssumption, YearAssumption
<1>1. p.accrual \in Int /\ p.updated \in Nat
  BY DEF PoolRecord
<1>2. rate \in Int
  BY GetInterestInt DEF PoolRecord
<1>3. ratio \in Int
  <2>1. (now - p.updated) * DECIMAL \in Int
    BY <1>1
  <2> QED
    BY <2>1
<1>4. year \in Int
  <2> HIDE DEF rate
  <2>1. p.accrual * rate \in Int
    BY <1>1, <1>2
  <2> QED
    BY <2>1, TruncDivInt
<1>5. TruncDiv(year * ratio, DECIMAL) \in Int
  <2> HIDE DEF year, ratio
  <2>1. year * ratio \in Int
    BY <1>3, <1>4
  <2> QED
    BY <2>1, TruncDivInt
<1> DEFINE grown == p.accrual + TruncDiv(year * ratio, DECIMAL)
<1>6. AddInterestToAccrual(p, now) = [p EXCEPT !.accrual = grown, !.updated = now]
  BY DEF AddInterestToAccrual
<1>7. grown \in Int
  <2> HIDE DEF year, ratio
  <2> QED
    BY <1>1, <1>5
<1> HIDE DEF grown
<1> QED
  BY <1>6, <1>7 DEF PoolRecord

-----------------------------------------------------------------------------
(* The entry points. *)

\* deposit
LEMMA DepositType ==
  ASSUME NEW p \in PoolRecord, NEW now \in Nat, NEW u \in Users, NEW amount \in Int,
         DepositOK(p, u, amount)
  PROVE  Deposit(p, now, u, amount) \in PoolRecord
<1> DEFINE issued == SharesIssued(p, amount)
           q == IncreasePositions(AddInterestToAccrual(p, now), u, issued, 0, 0)
<1>1. issued \in Int
  <2>1. CASE p.total = 0
    BY <2>1 DEF SharesIssued
  <2>2. CASE p.total # 0
    <3>1. p.shares * amount \in Int /\ p.total \in Int
      BY DEF PoolRecord
    <3> QED
      BY <3>1, <2>2, TruncDivInt DEF SharesIssued
  <2> QED
    BY <2>1, <2>2
<1> HIDE DEF issued
<1>2. q \in PoolRecord /\ q.tokens = p.tokens
  BY <1>1, AddInterestType, IncreasePositionsType
<1>3. Move(q.tokens, u, ThePool, amount) \in [Accounts -> Nat]
  BY <1>2, MoveType, AccountsOfTheToken DEF DepositOK, PoolRecord
<1> DEFINE tokens    == Move(q.tokens, u, ThePool, amount)
           available == q.available + amount
           shares    == q.shares + issued
           total     == q.total + amount
<1>4. Deposit(p, now, u, amount) =
        [q EXCEPT !.tokens = tokens, !.available = available, !.shares = shares, !.total = total]
  BY DEF Deposit, issued
<1> HIDE DEF q
<1>5. tokens \in [Accounts -> Nat] /\ available \in Int /\ shares \in Int /\ total \in Int
  BY <1>1, <1>2, <1>3 DEF PoolRecord
<1> HIDE DEF tokens, available, shares, total
<1> QED
  BY <1>2, <1>4, <1>5 DEF PoolRecord

\* withdraw_internal
LEMMA WithdrawInternalType ==
  ASSUME NEW p \in PoolRecord, NEW now \in Nat, NEW u \in Users, NEW amount \in Int,
         WithdrawInternalOK(p, u, amount)
  PROVE  WithdrawInternal(p, now, u, amount) \in PoolRecord
<1> DEFINE burned == SharesBurned(p, amount)
           q == DecreasePositions(AddInterestToAccrual(p, now), u, burned, 0, 0)
<1>1. burned \in Int
  <2>1. amount * p.shares \in Int /\ p.total \in Int
    BY DEF PoolRecord
  <2> QED
    BY <2>1, TruncDivInt DEF SharesBurned, WithdrawInternalOK
<1> HIDE DEF burned
<1>2. q \in PoolRecord /\ q.tokens = p.tokens
  BY <1>1, AddInterestType, DecreasePositionsType
<1>3. Move(q.tokens, ThePool, u, amount) \in [Accounts -> Nat]
  BY <1>2, MoveType, AccountsOfTheToken DEF WithdrawInternalOK, PoolRecord
<1> DEFINE tokens    == Move(q.tokens, ThePool, u, amount)
           available == q.available - amount
           shares    == q.shares - burned
           total     == q.total - amount
<1>4. WithdrawInternal(p, now, u, amount) =
        [q EXCEPT !.available = available, !.total = total, !.shares = shares, !.tokens = tokens]
  BY DEF WithdrawInternal, burned
<1> HIDE DEF q
<1>5. tokens \in [Accounts -> Nat] /\ available \in Int /\ shares \in Int /\ total \in Int
  BY <1>1, <1>2, <1>3 DEF PoolRecord
<1> HIDE DEF tokens, available, shares, total
<1> QED
  BY <1>2, <1>4, <1>5 DEF PoolRecord

\* borrow
LEMMA BorrowType ==
  ASSUME NEW p \in PoolRecord, NEW now \in Nat, NEW u \in Users, NEW amount \in Int,
         BorrowOK(p, u, amount)
  PROVE  Borrow(p, now, u, amount) \in PoolRecord
<1> DEFINE q == IncreasePositions(AddInterestToAccrual(p, now), u, 0, amount, 0)
<1>1. q \in PoolRecord /\ q.tokens = p.tokens
  BY AddInterestType, IncreasePositionsType
<1>2. Move(q.tokens, ThePool, u, amount) \in [Accounts -> Nat]
  BY <1>1, MoveType, AccountsOfTheToken DEF BorrowOK, PoolRecord
<1> DEFINE tokens    == Move(q.tokens, ThePool, u, amount)
           available == q.available - amount
<1>3. Borrow(p, now, u, amount) = [q EXCEPT !.available = available, !.tokens = tokens]
  BY DEF Borrow
<1> HIDE DEF q
<1>4. tokens \in [Accounts -> Nat] /\ available \in Int
  BY <1>1, <1>2 DEF PoolRecord
<1> HIDE DEF tokens, available
<1> QED
  BY <1>1, <1>3, <1>4 DEF PoolRecord

\* What deposit_collateral withdraws first is an integer.
LEMMA WithdrawnInt ==
  ASSUME NEW p \in PoolRecord, NEW u \in Users, NEW amount \in Int
  PROVE  WithdrawnForCollateral(p, u, amount) \in Int
<1>1. UserAvailableTokens(p, u) \in Int
  <2>1. /\ p.total * p.positions[u].shares \in Int
        /\ p.shares \in Int
        /\ p.positions[u].liabilities \in Int
    BY DEF PoolRecord, Position
  <2>2. p.shares # 0 => TruncDiv(p.total * p.positions[u].shares, p.shares) \in Int
    BY <2>1, TruncDivInt
  <2> QED
    BY <2>1, <2>2 DEF UserAvailableTokens
<1> QED
  BY <1>1, SmallerInt DEF WithdrawnForCollateral, PoolRecord

\* The first half of deposit_collateral.
LEMMA OwnWithdrawalType ==
  ASSUME NEW p \in PoolRecord, NEW now \in Nat, NEW u \in Users, NEW amount \in Int,
         DepositCollateralOK(p, now, u, amount)
  PROVE  AfterOwnWithdrawal(p, now, u, amount) \in PoolRecord
<1> DEFINE w == WithdrawnForCollateral(p, u, amount)
<1>1. w \in Int
  BY WithdrawnInt
<1>2. CASE w > 0
  <2>1. WithdrawInternalOK(p, u, w)
    BY <1>2 DEF DepositCollateralOK
  <2>2. AfterOwnWithdrawal(p, now, u, amount) = WithdrawInternal(p, now, u, w)
    BY <1>2 DEF AfterOwnWithdrawal
  <2> QED
    BY <1>1, <2>1, <2>2, WithdrawInternalType
<1>3. CASE ~ (w > 0)
  BY <1>3, AddInterestType DEF AfterOwnWithdrawal
<1> QED
  BY <1>2, <1>3

\* deposit_collateral
LEMMA DepositCollateralType ==
  ASSUME NEW p \in PoolRecord, NEW now \in Nat, NEW u \in Users, NEW amount \in Int,
         DepositCollateralOK(p, now, u, amount)
  PROVE  DepositCollateral(p, now, u, amount) \in PoolRecord
<1> DEFINE w == AfterOwnWithdrawal(p, now, u, amount)
           q == IncreasePositions(w, u, 0, 0, amount)
<1>1. w \in PoolRecord
  BY OwnWithdrawalType
<1>2. CanMove(w.tokens, u, amount)
  BY DEF DepositCollateralOK
<1> HIDE DEF w
<1>3. q \in PoolRecord /\ q.tokens = w.tokens
  BY <1>1, IncreasePositionsType
<1>4. Move(q.tokens, u, ThePool, amount) \in [Accounts -> Nat]
  BY <1>1, <1>2, <1>3, MoveType, AccountsOfTheToken DEF PoolRecord
<1>5. DepositCollateral(p, now, u, amount) = [q EXCEPT !.tokens = Move(@, u, ThePool, amount)]
  BY DEF DepositCollateral, w
<1> HIDE DEF q
<1> QED
  BY <1>3, <1>4, <1>5 DEF PoolRecord

\* withdraw_collateral
LEMMA WithdrawCollateralType ==
  ASSUME NEW p \in PoolRecord, NEW now \in Nat, NEW u \in Users, NEW amount \in Int,
         WithdrawCollateralOK(p, u, amount)
  PROVE  WithdrawCollateral(p, now, u, amount) \in PoolRecord
<1> DEFINE q == DecreasePositions(AddInterestToAccrual(p, now), u, 0, 0, amount)
<1>1. q \in PoolRecord /\ q.tokens = p.tokens
  BY AddInterestType, DecreasePositionsType
<1>2. Move(q.tokens, ThePool, u, amount) \in [Accounts -> Nat]
  BY <1>1, MoveType, AccountsOfTheToken DEF WithdrawCollateralOK, PoolRecord
<1>3. WithdrawCollateral(p, now, u, amount) = [q EXCEPT !.tokens = Move(@, ThePool, u, amount)]
  BY DEF WithdrawCollateral
<1> HIDE DEF q
<1> QED
  BY <1>1, <1>2, <1>3 DEF PoolRecord

\* increase_liabilities
LEMMA IncreaseLiabilitiesType ==
  ASSUME NEW p \in PoolRecord, NEW u \in Users, NEW amount \in Int
  PROVE  IncreaseLiabilities(p, u, amount) \in PoolRecord
BY IncreasePositionsType DEF IncreaseLiabilities

\* The interest part of a payment and the fee on it are integers.
LEMMA AdminFeeInt ==
  ASSUME NEW amount \in Int, NEW unpaid \in Int
  PROVE  InterestPart(amount, unpaid) \in Int /\ AdminFee(amount, unpaid) \in Int
BY SmallerInt, TruncDivInt DEF InterestPart, AdminFee

\* repay
LEMMA RepayType ==
  ASSUME NEW p \in PoolRecord, NEW now \in Nat, NEW u \in Users,
         NEW amount \in Int, NEW unpaid \in Int,
         RepayOK(p, u, amount, unpaid)
  PROVE  Repay(p, now, u, amount, unpaid) \in PoolRecord
<1> DEFINE fee       == AdminFee(amount, unpaid)
           interest  == InterestPart(amount, unpaid)
           principal == Smaller(amount - interest, p.positions[u].liabilities)
           q == DecreasePositions(AddInterestToAccrual(p, now), u, 0, principal, 0)
           t == Move(p.tokens, u, ThePool, amount - fee)
<1>1. /\ CanMove(p.tokens, u, amount - fee)
      /\ CanMove(t, u, fee)
  BY DEF RepayOK
<1> DEFINE tokens    == Move(Move(q.tokens, u, ThePool, amount - fee), u, TheManager, fee)
           available == q.available + (amount - fee)
           total     == q.total + (interest - fee)
<1>2. Repay(p, now, u, amount, unpaid) =
        [q EXCEPT !.tokens = tokens, !.available = available, !.total = total]
  BY DEF Repay
<1>3. fee \in Int /\ interest \in Int
  BY AdminFeeInt
<1> HIDE DEF fee, interest
<1>4. principal \in Int
  BY <1>3, SmallerInt DEF PoolRecord, Position
<1> HIDE DEF principal
<1>5. q \in PoolRecord /\ q.tokens = p.tokens
  BY <1>4, AddInterestType, DecreasePositionsType
<1>6. t \in [Accounts -> Nat]
  BY <1>1, <1>3, MoveType, AccountsOfTheToken DEF PoolRecord
<1>7. Move(t, u, TheManager, fee) \in [Accounts -> Nat]
  BY <1>1, <1>3, <1>6, MoveType, AccountsOfTheToken
<1>8. tokens \in [Accounts -> Nat]
  BY <1>5, <1>7
<1> HIDE DEF q
<1>9. available \in Int /\ total \in Int
  BY <1>3, <1>5 DEF PoolRecord
<1> HIDE DEF tokens, available, total
<1> QED
  BY <1>2, <1>5, <1>8, <1>9 DEF PoolRecord

\* repay_and_close
LEMMA RepayAndCloseType ==
  ASSUME NEW p \in PoolRecord, NEW now \in Nat, NEW u \in Users,
         NEW borrowed \in Int, NEW maxAllowed \in Int, NEW unpaid \in Int,
         RepayAndCloseOK(p, u, borrowed, maxAllowed, unpaid)
  PROVE  RepayAndClose(p, now, u, borrowed, maxAllowed, unpaid) \in PoolRecord
<1> DEFINE fee  == AdminFee(borrowed, unpaid)
           owed == p.positions[u].liabilities
           q    == DecreasePositions(AddInterestToAccrual(p, now), u, 0, owed, 0)
           t1   == Move(p.tokens, u, ThePool, maxAllowed)
           t2   == Move(t1, ThePool, TheManager, fee)
           t3   == Move(t2, ThePool, u, maxAllowed - borrowed)
<1>1. /\ CanMove(p.tokens, u, maxAllowed)
      /\ CanMove(t1, ThePool, fee)
      /\ CanMove(t2, ThePool, maxAllowed - borrowed)
  BY DEF RepayAndCloseOK
<1> DEFINE tokens    == CollectAtClose(q.tokens, u, borrowed, maxAllowed, fee)
           available == q.available + (borrowed - fee)
           total     == q.total + (unpaid - fee)
<1>2. RepayAndClose(p, now, u, borrowed, maxAllowed, unpaid) =
        [q EXCEPT !.tokens = tokens, !.available = available, !.total = total]
  BY DEF RepayAndClose
<1>3. CollectAtClose(p.tokens, u, borrowed, maxAllowed, fee) = t3
  BY DEF CollectAtClose
<1>4. fee \in Int
  BY AdminFeeInt
<1> HIDE DEF fee
<1>5. owed \in Int
  BY DEF PoolRecord, Position
<1>6. q \in PoolRecord /\ q.tokens = p.tokens
  BY <1>5, AddInterestType, DecreasePositionsType
<1>7. t1 \in [Accounts -> Nat]
  BY <1>1, MoveType, AccountsOfTheToken DEF PoolRecord
<1> HIDE DEF t1
<1>8. t2 \in [Accounts -> Nat]
  BY <1>1, <1>4, <1>7, MoveType, AccountsOfTheToken
<1> HIDE DEF t2
<1>9. t3 \in [Accounts -> Nat]
  BY <1>1, <1>8, MoveType, AccountsOfTheToken
<1>10. tokens \in [Accounts -> Nat]
  BY <1>3, <1>6, <1>9
<1> HIDE DEF q
<1>11. available \in Int /\ total \in Int
  BY <1>4, <1>6 DEF PoolRecord
<1> HIDE DEF tokens, available, total
<1> QED
  BY <1>2, <1>6, <1>10, <1>11 DEF PoolRecord

\* liquidate
LEMMA LiquidateType ==
  ASSUME NEW p \in PoolRecord, NEW now \in Nat, NEW u \in Users, NEW owner \in Users,
         NEW amount \in Int, NEW unpaid \in Int,
         LiquidateOK(p, u, amount, unpaid, owner)
  PROVE  Liquidate(p, now, u, amount, unpaid, owner) \in PoolRecord
<1> DEFINE fee == AdminFee(amount, unpaid)
           q   == DecreasePositions(AddInterestToAccrual(p, now), owner, 0, amount, 0)
           t   == Move(p.tokens, u, ThePool, amount - fee)
<1>1. /\ CanMove(p.tokens, u, amount - fee)
      /\ CanMove(t, u, fee)
  BY DEF LiquidateOK
<1> DEFINE tokens    == Move(Move(q.tokens, u, ThePool, amount - fee), u, TheManager, fee)
           available == q.available + (amount - fee)
<1>2. Liquidate(p, now, u, amount, unpaid, owner) =
        [q EXCEPT !.tokens = tokens, !.available = available]
  BY DEF Liquidate
<1>3. fee \in Int
  BY AdminFeeInt
<1> HIDE DEF fee
<1>4. q \in PoolRecord /\ q.tokens = p.tokens
  BY AddInterestType, DecreasePositionsType
<1>5. t \in [Accounts -> Nat]
  BY <1>1, <1>3, MoveType, AccountsOfTheToken DEF PoolRecord
<1>6. Move(t, u, TheManager, fee) \in [Accounts -> Nat]
  BY <1>1, <1>3, <1>5, MoveType, AccountsOfTheToken
<1>7. tokens \in [Accounts -> Nat]
  BY <1>4, <1>6
<1> HIDE DEF q
<1>8. available \in Int
  BY <1>3, <1>4 DEF PoolRecord
<1> HIDE DEF tokens, available
<1> QED
  BY <1>2, <1>4, <1>7, <1>8 DEF PoolRecord

\* liquidate_transfer_collateral
LEMMA LiquidateTransferCollateralType ==
  ASSUME NEW p \in PoolRecord, NEW u \in Users, NEW owner \in Users, NEW amount \in Int,
         LiquidateTransferCollateralOK(p, amount, owner)
  PROVE  LiquidateTransferCollateral(p, u, amount, owner) \in PoolRecord
<1> DEFINE q == DecreasePositions(p, owner, 0, 0, amount)
<1>1. q \in PoolRecord /\ q.tokens = p.tokens
  BY DecreasePositionsType
<1>2. Move(q.tokens, ThePool, u, amount) \in [Accounts -> Nat]
  BY <1>1, MoveType, AccountsOfTheToken DEF LiquidateTransferCollateralOK, PoolRecord
<1>3. LiquidateTransferCollateral(p, u, amount, owner) =
        [q EXCEPT !.tokens = Move(@, ThePool, u, amount)]
  BY DEF LiquidateTransferCollateral
<1> HIDE DEF q
<1> QED
  BY <1>1, <1>2, <1>3 DEF PoolRecord

-----------------------------------------------------------------------------
(* Double entry: what each entry point does to the books.  The shares of a *)
(* user change by what the pool's total of shares changes by, and the      *)
(* tokens of the pool contract by what is available and the user's         *)
(* collateral change by.                                                   *)

\* s is r after an entry of user u, which changes the balances and the user's
\* position by the amounts given.
IsEntry(r, s, u, total, available, shares, liabilities, collateral) ==
  /\ s.total = r.total + total
  /\ s.available = r.available + available
  /\ s.shares = r.shares + shares
  /\ s.tokens[ThePool] = r.tokens[ThePool] + (available + collateral)
  /\ s.positions[u] = [shares      |-> r.positions[u].shares + shares,
                       liabilities |-> r.positions[u].liabilities + liabilities,
                       collateral  |-> r.positions[u].collateral + collateral]
  /\ \A w \in Users \ {u} : s.positions[w] = r.positions[w]

\* A user is none of the contracts.
LEMMA UsersAreNotContracts ==
  ASSUME NEW u \in Users
  PROVE  u # ThePool /\ u # TheManager /\ ThePool # TheManager
BY UsersAssumption DEF Users, ThePool, TheManager

\* q is p but for the accrual and the position of u, which has grown.
IsPositionChange(p, q, u, shares, liabilities, collateral) ==
  /\ q.total = p.total
  /\ q.available = p.available
  /\ q.shares = p.shares
  /\ q.tokens = p.tokens
  /\ q.positions[u] = [shares      |-> p.positions[u].shares + shares,
                       liabilities |-> p.positions[u].liabilities + liabilities,
                       collateral  |-> p.positions[u].collateral + collateral]
  /\ \A w \in Users \ {u} : q.positions[w] = p.positions[w]

\* increase_positions
LEMMA PositionIncrease ==
  ASSUME NEW p \in PoolRecord, NEW u \in Users,
         NEW s \in Int, NEW l \in Int, NEW c \in Int
  PROVE  IsPositionChange(p, IncreasePositions(p, u, s, l, c), u, s, l, c)
BY DEF IsPositionChange, IncreasePositions, PoolRecord, Position

\* decrease_positions
LEMMA PositionDecrease ==
  ASSUME NEW p \in PoolRecord, NEW u \in Users,
         NEW s \in Int, NEW l \in Int, NEW c \in Int
  PROVE  IsPositionChange(p, DecreasePositions(p, u, s, l, c), u, -s, -l, -c)
BY PositionIncrease DEF DecreasePositions

\* increase_positions, after the accrual has been brought up to date.
LEMMA PositionIncreaseUpToDate ==
  ASSUME NEW p \in PoolRecord, NEW now \in Nat, NEW u \in Users,
         NEW s \in Int, NEW l \in Int, NEW c \in Int
  PROVE  LET q == IncreasePositions(AddInterestToAccrual(p, now), u, s, l, c)
         IN  q \in PoolRecord /\ IsPositionChange(p, q, u, s, l, c)
<1> DEFINE a == AddInterestToAccrual(p, now)
           q == IncreasePositions(a, u, s, l, c)
<1>1. a \in PoolRecord
  BY AddInterestType
<1>2. /\ a.total = p.total /\ a.available = p.available /\ a.shares = p.shares
      /\ a.tokens = p.tokens /\ a.positions = p.positions
  BY DEF AddInterestToAccrual, PoolRecord
<1> HIDE DEF a
<1>3. q \in PoolRecord
  BY <1>1, IncreasePositionsType
<1>4. IsPositionChange(a, q, u, s, l, c)
  BY <1>1, PositionIncrease
<1> HIDE DEF q
<1>5. IsPositionChange(p, q, u, s, l, c)
  BY <1>2, <1>4 DEF IsPositionChange
<1> QED
  BY <1>3, <1>5 DEF q, a

\* decrease_positions, after the accrual has been brought up to date.
LEMMA PositionDecreaseUpToDate ==
  ASSUME NEW p \in PoolRecord, NEW now \in Nat, NEW u \in Users,
         NEW s \in Int, NEW l \in Int, NEW c \in Int
  PROVE  LET q == DecreasePositions(AddInterestToAccrual(p, now), u, s, l, c)
         IN  q \in PoolRecord /\ IsPositionChange(p, q, u, -s, -l, -c)
<1>1. -s \in Int /\ -l \in Int /\ -c \in Int
  OBVIOUS
<1> QED
  BY <1>1, PositionIncreaseUpToDate DEF DecreasePositions

\* What deposit and withdraw turn an amount into is a number of shares.
LEMMA SharesInt ==
  ASSUME NEW p \in PoolRecord, NEW amount \in Int
  PROVE  /\ SharesIssued(p, amount) \in Int
         /\ p.total # 0 => SharesBurned(p, amount) \in Int
<1>1. /\ p.shares * amount \in Int
      /\ amount * p.shares \in Int
      /\ p.total \in Int
  BY DEF PoolRecord
<1>2. p.total # 0 => /\ TruncDiv(p.shares * amount, p.total) \in Int
                     /\ TruncDiv(amount * p.shares, p.total) \in Int
  BY <1>1, TruncDivInt
<1> QED
  BY <1>2 DEF SharesIssued, SharesBurned

\* What a transfer does to the pool contract's tokens.
LEMMA MoveHere ==
  ASSUME NEW tokens \in [Accounts -> Int], NEW u \in Users, NEW amount \in Int
  PROVE  /\ Move(tokens, u, ThePool, amount)[ThePool] = tokens[ThePool] + amount
         /\ Move(tokens, ThePool, u, amount)[ThePool] = tokens[ThePool] - amount
         /\ Move(tokens, u, TheManager, amount)[ThePool] = tokens[ThePool]
         /\ Move(tokens, ThePool, TheManager, amount)[ThePool] = tokens[ThePool] - amount
BY UsersAreNotContracts, AccountsOfTheToken DEF Move

\* A transfer, allowed or not, leaves integers.
LEMMA MoveInt ==
  ASSUME NEW tokens \in [Accounts -> Int], NEW from \in Accounts, NEW to \in Accounts,
         NEW amount \in Int
  PROVE  Move(tokens, from, to, amount) \in [Accounts -> Int]
BY DEF Move

\* add_interest_to_accrual makes no entry, and none before another one.
LEMMA AddInterestEntry ==
  ASSUME NEW p \in PoolRecord, NEW now \in Nat, NEW u \in Users
  PROVE  IsEntry(p, AddInterestToAccrual(p, now), u, 0, 0, 0, 0, 0)
<1> DEFINE q == AddInterestToAccrual(p, now)
<1>1. /\ q.total = p.total /\ q.available = p.available /\ q.shares = p.shares
      /\ q.tokens = p.tokens /\ q.positions = p.positions
  BY DEF AddInterestToAccrual, PoolRecord
<1>2. /\ p.positions[u] \in Position /\ p.tokens[ThePool] \in Int
      /\ p.total \in Int /\ p.available \in Int /\ p.shares \in Int
  BY AccountsOfTheToken DEF PoolRecord
<1> HIDE DEF q
<1>3. IsEntry(p, q, u, 0, 0, 0, 0, 0)
  BY <1>1, <1>2 DEF IsEntry, Position
<1> QED
  BY <1>3 DEF q

\* An entry made on a record brought up to date is one on the record before.
LEMMA EntryAfterInterest ==
  ASSUME NEW p \in PoolRecord, NEW now \in Nat, NEW u \in Users, NEW r,
         NEW t, NEW a, NEW s, NEW l, NEW c,
         IsEntry(AddInterestToAccrual(p, now), r, u, t, a, s, l, c)
  PROVE  IsEntry(p, r, u, t, a, s, l, c)
<1> DEFINE q == AddInterestToAccrual(p, now)
<1>1. /\ q.total = p.total /\ q.available = p.available /\ q.shares = p.shares
      /\ q.tokens = p.tokens /\ q.positions = p.positions
  BY DEF AddInterestToAccrual, PoolRecord
<1> HIDE DEF q
<1>2. IsEntry(q, r, u, t, a, s, l, c)
  BY DEF q
<1> QED
  BY <1>1, <1>2 DEF IsEntry

\* deposit
LEMMA DepositEntry ==
  ASSUME NEW p \in PoolRecord, NEW now \in Nat, NEW u \in Users, NEW amount \in Int
  PROVE  IsEntry(p, Deposit(p, now, u, amount), u,
                 amount, amount, SharesIssued(p, amount), 0, 0)
<1> DEFINE issued    == SharesIssued(p, amount)
           q         == IncreasePositions(AddInterestToAccrual(p, now), u, issued, 0, 0)
           tokens    == Move(q.tokens, u, ThePool, amount)
           available == q.available + amount
           shares    == q.shares + issued
           total     == q.total + amount
           r         == [q EXCEPT !.tokens = tokens, !.available = available,
                                  !.shares = shares, !.total = total]
<1>1. Deposit(p, now, u, amount) = r
  BY DEF Deposit
<1>2. issued \in Int
  BY SharesInt
<1> HIDE DEF issued
<1>3. q \in PoolRecord /\ IsPositionChange(p, q, u, issued, 0, 0)
  BY <1>2, PositionIncreaseUpToDate
<1> HIDE DEF q
<1>4. tokens[ThePool] = p.tokens[ThePool] + (amount + 0)
  <2>1. q.tokens \in [Accounts -> Int]
    BY <1>3 DEF PoolRecord
  <2> QED
    BY <1>3, <2>1, MoveHere DEF IsPositionChange
<1> HIDE DEF tokens
<1>5. IsEntry(p, r, u, amount, amount, issued, 0, 0)
  BY <1>3, <1>4 DEF IsEntry, IsPositionChange, PoolRecord
<1> HIDE DEF r
<1> QED
  BY <1>1, <1>5 DEF issued

\* withdraw_internal
LEMMA WithdrawInternalEntry ==
  ASSUME NEW p \in PoolRecord, NEW now \in Nat, NEW u \in Users, NEW amount \in Int,
         p.total # 0
  PROVE  IsEntry(p, WithdrawInternal(p, now, u, amount), u,
                 -amount, -amount, -SharesBurned(p, amount), 0, 0)
<1> DEFINE burned    == SharesBurned(p, amount)
           q         == DecreasePositions(AddInterestToAccrual(p, now), u, burned, 0, 0)
           tokens    == Move(q.tokens, ThePool, u, amount)
           available == q.available - amount
           shares    == q.shares - burned
           total     == q.total - amount
           r         == [q EXCEPT !.available = available, !.total = total,
                                  !.shares = shares, !.tokens = tokens]
<1>1. WithdrawInternal(p, now, u, amount) = r
  BY DEF WithdrawInternal
<1>2. burned \in Int
  BY SharesInt
<1> HIDE DEF burned
<1>3. q \in PoolRecord /\ IsPositionChange(p, q, u, -burned, 0, 0)
  BY <1>2, PositionDecreaseUpToDate
<1> HIDE DEF q
<1>4. tokens[ThePool] = p.tokens[ThePool] + (-amount + 0)
  <2>1. q.tokens \in [Accounts -> Int] /\ q.tokens[ThePool] \in Int
    BY <1>3, AccountsOfTheToken DEF PoolRecord
  <2> QED
    BY <1>3, <2>1, MoveHere DEF IsPositionChange
<1> HIDE DEF tokens
<1>5. IsEntry(p, r, u, -amount, -amount, -burned, 0, 0)
  BY <1>2, <1>3, <1>4 DEF IsEntry, IsPositionChange, PoolRecord
<1> HIDE DEF r
<1> QED
  BY <1>1, <1>5 DEF burned

\* borrow
LEMMA BorrowEntry ==
  ASSUME NEW p \in PoolRecord, NEW now \in Nat, NEW u \in Users, NEW amount \in Int
  PROVE  IsEntry(p, Borrow(p, now, u, amount), u, 0, -amount, 0, amount, 0)
<1> DEFINE q         == IncreasePositions(AddInterestToAccrual(p, now), u, 0, amount, 0)
           tokens    == Move(q.tokens, ThePool, u, amount)
           available == q.available - amount
           r         == [q EXCEPT !.available = available, !.tokens = tokens]
<1>1. Borrow(p, now, u, amount) = r
  BY DEF Borrow
<1>2. q \in PoolRecord /\ IsPositionChange(p, q, u, 0, amount, 0)
  BY PositionIncreaseUpToDate
<1> HIDE DEF q
<1>3. tokens[ThePool] = p.tokens[ThePool] + (-amount + 0)
  <2>1. q.tokens \in [Accounts -> Int] /\ q.tokens[ThePool] \in Int
    BY <1>2, AccountsOfTheToken DEF PoolRecord
  <2> QED
    BY <1>2, <2>1, MoveHere DEF IsPositionChange
<1> HIDE DEF tokens
<1>4. IsEntry(p, r, u, 0, -amount, 0, amount, 0)
  BY <1>2, <1>3 DEF IsEntry, IsPositionChange, PoolRecord
<1> HIDE DEF r
<1> QED
  BY <1>1, <1>4

\* withdraw_collateral
LEMMA WithdrawCollateralEntry ==
  ASSUME NEW p \in PoolRecord, NEW now \in Nat, NEW u \in Users, NEW amount \in Int
  PROVE  IsEntry(p, WithdrawCollateral(p, now, u, amount), u, 0, 0, 0, 0, -amount)
<1> DEFINE q      == DecreasePositions(AddInterestToAccrual(p, now), u, 0, 0, amount)
           tokens == Move(q.tokens, ThePool, u, amount)
           r      == [q EXCEPT !.tokens = tokens]
<1>1. WithdrawCollateral(p, now, u, amount) = r
  BY DEF WithdrawCollateral
<1>2. q \in PoolRecord /\ IsPositionChange(p, q, u, 0, 0, -amount)
  BY PositionDecreaseUpToDate
<1> HIDE DEF q
<1>3. tokens[ThePool] = p.tokens[ThePool] + (0 + -amount)
  <2>1. q.tokens \in [Accounts -> Int] /\ q.tokens[ThePool] \in Int
    BY <1>2, AccountsOfTheToken DEF PoolRecord
  <2> QED
    BY <1>2, <2>1, MoveHere DEF IsPositionChange
<1> HIDE DEF tokens
<1>4. IsEntry(p, r, u, 0, 0, 0, 0, -amount)
  BY <1>2, <1>3 DEF IsEntry, IsPositionChange, PoolRecord
<1> HIDE DEF r
<1> QED
  BY <1>1, <1>4

\* increase_liabilities
LEMMA IncreaseLiabilitiesEntry ==
  ASSUME NEW p \in PoolRecord, NEW u \in Users, NEW amount \in Int
  PROVE  IsEntry(p, IncreaseLiabilities(p, u, amount), u, 0, 0, 0, amount, 0)
<1> DEFINE q == IncreaseLiabilities(p, u, amount)
<1>1. IsPositionChange(p, q, u, 0, amount, 0)
  BY PositionIncrease DEF IncreaseLiabilities
<1>2. /\ p.total \in Int /\ p.available \in Int /\ p.shares \in Int
      /\ p.tokens[ThePool] \in Int
  BY AccountsOfTheToken DEF PoolRecord
<1> HIDE DEF q
<1>3. IsEntry(p, q, u, 0, 0, 0, amount, 0)
  BY <1>1, <1>2 DEF IsEntry, IsPositionChange
<1> QED
  BY <1>3 DEF q

\* What a lender may be paid, and the shares it takes: nothing, or what withdraw
\* accepts.
IsPayout(r, u, total, shares) ==
  \/ total = 0 /\ shares = 0
  \/ \E x \in Int : /\ x > 0 /\ WithdrawInternalOK(r, u, x)
                   /\ total = -x /\ shares = -SharesBurned(r, x)

\* deposit_collateral: a withdrawal first, if the user's shares are worth it,
\* and then the collateral.
LEMMA DepositCollateralEntry ==
  ASSUME NEW p \in PoolRecord, NEW now \in Nat, NEW u \in Users, NEW amount \in Int,
         DepositCollateralOK(p, now, u, amount)
  PROVE  \E paidOut, burned \in Int :
           /\ IsPayout(p, u, paidOut, burned)
           /\ IsEntry(p, DepositCollateral(p, now, u, amount), u,
                      paidOut, paidOut, burned, 0, amount)
<1> DEFINE w == AfterOwnWithdrawal(p, now, u, amount)
           x == WithdrawnForCollateral(p, u, amount)
<1>1. PICK paidOut \in Int, burned \in Int :
        IsPayout(p, u, paidOut, burned) /\ IsEntry(p, w, u, paidOut, paidOut, burned, 0, 0)
  <2>1. CASE x > 0
    <3>1. x \in Int
      BY WithdrawnInt
    <3>2. p.total # 0
      BY <2>1 DEF DepositCollateralOK, WithdrawInternalOK
    <3>3. SharesBurned(p, x) \in Int
      BY <3>1, <3>2, SharesInt
    <3>4. w = WithdrawInternal(p, now, u, x) /\ WithdrawInternalOK(p, u, x)
      BY <2>1 DEF AfterOwnWithdrawal, DepositCollateralOK
    <3> HIDE DEF w, x
    <3>5. IsEntry(p, w, u, -x, -x, -SharesBurned(p, x), 0, 0)
      BY <3>1, <3>2, <3>4, WithdrawInternalEntry
    <3>6. -x \in Int /\ -SharesBurned(p, x) \in Int
      BY <3>1, <3>3
    <3>7. IsPayout(p, u, -x, -SharesBurned(p, x))
      BY <2>1, <3>1, <3>4 DEF IsPayout
    <3> QED
      BY <3>5, <3>6, <3>7
  <2>2. CASE ~ (x > 0)
    <3>1. w = AddInterestToAccrual(p, now)
      BY <2>2 DEF AfterOwnWithdrawal
    <3> HIDE DEF w
    <3>2. IsEntry(p, w, u, 0, 0, 0, 0, 0)
      BY <3>1, AddInterestEntry
    <3>3. IsPayout(p, u, 0, 0)
      BY DEF IsPayout
    <3> QED
      BY <3>2, <3>3
  <2> QED
    BY <2>1, <2>2
<1>2. w \in PoolRecord
  BY OwnWithdrawalType
<1> HIDE DEF w
<1> DEFINE q      == IncreasePositions(w, u, 0, 0, amount)
           tokens == Move(q.tokens, u, ThePool, amount)
           r      == [q EXCEPT !.tokens = tokens]
<1>3. DepositCollateral(p, now, u, amount) = r
  BY DEF DepositCollateral, w
<1>4. q \in PoolRecord /\ IsPositionChange(w, q, u, 0, 0, amount)
  BY <1>2, IncreasePositionsType, PositionIncrease
<1> HIDE DEF q
<1>5. tokens[ThePool] = w.tokens[ThePool] + amount
  <2>1. q.tokens \in [Accounts -> Int]
    BY <1>4 DEF PoolRecord
  <2> QED
    BY <1>4, <2>1, MoveHere DEF IsPositionChange
<1> HIDE DEF tokens
<1>6. /\ p.tokens[ThePool] \in Int
      /\ p.total \in Int /\ p.available \in Int /\ p.shares \in Int
      /\ p.positions[u] \in Position
  BY AccountsOfTheToken DEF PoolRecord
<1>7. /\ r.total = w.total /\ r.available = w.available /\ r.shares = w.shares
      /\ r.positions = q.positions /\ r.tokens = tokens
  BY <1>4 DEF IsPositionChange, PoolRecord
<1> HIDE DEF r
<1>8. IsEntry(p, r, u, paidOut, paidOut, burned, 0, amount)
  BY <1>1, <1>4, <1>5, <1>6, <1>7 DEF IsEntry, IsPositionChange, Position
<1> QED
  BY <1>1, <1>3, <1>8

\* repay
LEMMA RepayEntry ==
  ASSUME NEW p \in PoolRecord, NEW now \in Nat, NEW u \in Users,
         NEW amount \in Int, NEW unpaid \in Int
  PROVE  LET fee       == AdminFee(amount, unpaid)
             interest  == InterestPart(amount, unpaid)
             principal == Smaller(amount - interest, p.positions[u].liabilities)
         IN  IsEntry(p, Repay(p, now, u, amount, unpaid), u,
                     interest - fee, amount - fee, 0, -principal, 0)
<1> DEFINE fee       == AdminFee(amount, unpaid)
           interest  == InterestPart(amount, unpaid)
           principal == Smaller(amount - interest, p.positions[u].liabilities)
           q         == DecreasePositions(AddInterestToAccrual(p, now), u, 0, principal, 0)
           paid      == Move(q.tokens, u, ThePool, amount - fee)
           tokens    == Move(paid, u, TheManager, fee)
           available == q.available + (amount - fee)
           total     == q.total + (interest - fee)
           r         == [q EXCEPT !.tokens = tokens, !.available = available, !.total = total]
<1>1. Repay(p, now, u, amount, unpaid) = r
  BY DEF Repay
<1>2. fee \in Int /\ interest \in Int
  BY AdminFeeInt
<1> HIDE DEF fee, interest
<1>3. principal \in Int
  BY <1>2, SmallerInt DEF PoolRecord, Position
<1> HIDE DEF principal
<1>4. q \in PoolRecord /\ IsPositionChange(p, q, u, 0, -principal, 0)
  BY <1>3, PositionDecreaseUpToDate
<1> HIDE DEF q
<1>5. tokens[ThePool] = p.tokens[ThePool] + ((amount - fee) + 0)
  <2>1. q.tokens \in [Accounts -> Int] /\ amount - fee \in Int
    BY <1>2, <1>4 DEF PoolRecord
  <2>2. paid \in [Accounts -> Int] /\ paid[ThePool] = q.tokens[ThePool] + (amount - fee)
    BY <2>1, MoveInt, MoveHere, AccountsOfTheToken
  <2> HIDE DEF paid
  <2>3. tokens[ThePool] = paid[ThePool]
    BY <1>2, <2>2, MoveHere
  <2> QED
    BY <1>2, <1>4, <2>1, <2>2, <2>3, AccountsOfTheToken DEF IsPositionChange
<1> HIDE DEF tokens
<1>6. IsEntry(p, r, u, interest - fee, amount - fee, 0, -principal, 0)
  BY <1>2, <1>3, <1>4, <1>5 DEF IsEntry, IsPositionChange, PoolRecord
<1> HIDE DEF r
<1> QED
  BY <1>1, <1>6 DEF fee, interest, principal

\* repay_and_close
LEMMA RepayAndCloseEntry ==
  ASSUME NEW p \in PoolRecord, NEW now \in Nat, NEW u \in Users,
         NEW borrowed \in Int, NEW maxAllowed \in Int, NEW unpaid \in Int
  PROVE  LET fee == AdminFee(borrowed, unpaid)
         IN  IsEntry(p, RepayAndClose(p, now, u, borrowed, maxAllowed, unpaid), u,
                     unpaid - fee, borrowed - fee, 0, -p.positions[u].liabilities, 0)
<1> DEFINE fee       == AdminFee(borrowed, unpaid)
           owed      == p.positions[u].liabilities
           q         == DecreasePositions(AddInterestToAccrual(p, now), u, 0, owed, 0)
           t1        == Move(q.tokens, u, ThePool, maxAllowed)
           t2        == Move(t1, ThePool, TheManager, fee)
           tokens    == CollectAtClose(q.tokens, u, borrowed, maxAllowed, fee)
           available == q.available + (borrowed - fee)
           total     == q.total + (unpaid - fee)
           r         == [q EXCEPT !.tokens = tokens, !.available = available, !.total = total]
<1>1. RepayAndClose(p, now, u, borrowed, maxAllowed, unpaid) = r
  BY DEF RepayAndClose
<1>2. fee \in Int /\ owed \in Int
  BY AdminFeeInt DEF PoolRecord, Position
<1> HIDE DEF fee, owed
<1>3. q \in PoolRecord /\ IsPositionChange(p, q, u, 0, -owed, 0)
  BY <1>2, PositionDecreaseUpToDate
<1> HIDE DEF q
<1>4. tokens[ThePool] = p.tokens[ThePool] + ((borrowed - fee) + 0)
  <2>1. /\ q.tokens \in [Accounts -> Int] /\ q.tokens[ThePool] \in Int
        /\ maxAllowed - borrowed \in Int
    BY <1>3, AccountsOfTheToken DEF PoolRecord
  <2>2. t1 \in [Accounts -> Int] /\ t1[ThePool] = q.tokens[ThePool] + maxAllowed
    BY <2>1, MoveInt, MoveHere, AccountsOfTheToken
  <2> HIDE DEF t1
  <2>3. t2 \in [Accounts -> Int] /\ t2[ThePool] = t1[ThePool] - fee
    BY <1>2, <2>2, MoveInt, MoveHere, AccountsOfTheToken
  <2> HIDE DEF t2
  <2>4. tokens = Move(t2, ThePool, u, maxAllowed - borrowed)
    BY DEF CollectAtClose, t1, t2
  <2> HIDE DEF tokens
  <2>5. tokens[ThePool] = t2[ThePool] - (maxAllowed - borrowed)
    BY <2>1, <2>3, <2>4, MoveHere
  <2> QED
    BY <1>2, <1>3, <2>1, <2>2, <2>3, <2>5 DEF IsPositionChange
<1> HIDE DEF tokens
<1>5. IsEntry(p, r, u, unpaid - fee, borrowed - fee, 0, -owed, 0)
  BY <1>2, <1>3, <1>4 DEF IsEntry, IsPositionChange, PoolRecord
<1> HIDE DEF r
<1> QED
  BY <1>1, <1>5 DEF fee, owed

\* liquidate: the liquidator pays, and the entry is the owner's.
LEMMA LiquidateEntry ==
  ASSUME NEW p \in PoolRecord, NEW now \in Nat, NEW u \in Users, NEW owner \in Users,
         NEW amount \in Int, NEW unpaid \in Int
  PROVE  LET fee == AdminFee(amount, unpaid)
         IN  IsEntry(p, Liquidate(p, now, u, amount, unpaid, owner), owner,
                     0, amount - fee, 0, -amount, 0)
<1> DEFINE fee       == AdminFee(amount, unpaid)
           q         == DecreasePositions(AddInterestToAccrual(p, now), owner, 0, amount, 0)
           paid      == Move(q.tokens, u, ThePool, amount - fee)
           tokens    == Move(paid, u, TheManager, fee)
           available == q.available + (amount - fee)
           r         == [q EXCEPT !.tokens = tokens, !.available = available]
<1>1. Liquidate(p, now, u, amount, unpaid, owner) = r
  BY DEF Liquidate
<1>2. fee \in Int
  BY AdminFeeInt
<1> HIDE DEF fee
<1>3. q \in PoolRecord /\ IsPositionChange(p, q, owner, 0, -amount, 0)
  BY PositionDecreaseUpToDate
<1> HIDE DEF q
<1>4. tokens[ThePool] = p.tokens[ThePool] + ((amount - fee) + 0)
  <2>1. q.tokens \in [Accounts -> Int] /\ amount - fee \in Int
    BY <1>2, <1>3 DEF PoolRecord
  <2>2. paid \in [Accounts -> Int] /\ paid[ThePool] = q.tokens[ThePool] + (amount - fee)
    BY <2>1, MoveInt, MoveHere, AccountsOfTheToken
  <2> HIDE DEF paid
  <2>3. tokens[ThePool] = paid[ThePool]
    BY <1>2, <2>2, MoveHere
  <2> QED
    BY <1>2, <1>3, <2>1, <2>2, <2>3, AccountsOfTheToken DEF IsPositionChange
<1> HIDE DEF tokens
<1>5. IsEntry(p, r, owner, 0, amount - fee, 0, -amount, 0)
  BY <1>2, <1>3, <1>4 DEF IsEntry, IsPositionChange, PoolRecord
<1> HIDE DEF r
<1> QED
  BY <1>1, <1>5 DEF fee

\* liquidate_transfer_collateral
LEMMA LiquidateTransferCollateralEntry ==
  ASSUME NEW p \in PoolRecord, NEW u \in Users, NEW owner \in Users, NEW amount \in Int
  PROVE  IsEntry(p, LiquidateTransferCollateral(p, u, amount, owner), owner,
                 0, 0, 0, 0, -amount)
<1> DEFINE q      == DecreasePositions(p, owner, 0, 0, amount)
           tokens == Move(q.tokens, ThePool, u, amount)
           r      == [q EXCEPT !.tokens = tokens]
<1>1. LiquidateTransferCollateral(p, u, amount, owner) = r
  BY DEF LiquidateTransferCollateral
<1>2. q \in PoolRecord /\ IsPositionChange(p, q, owner, 0, 0, -amount)
  BY DecreasePositionsType, PositionDecrease
<1> HIDE DEF q
<1>3. tokens[ThePool] = p.tokens[ThePool] + (0 + -amount)
  <2>1. q.tokens \in [Accounts -> Int] /\ q.tokens[ThePool] \in Int
    BY <1>2, AccountsOfTheToken DEF PoolRecord
  <2> QED
    BY <1>2, <2>1, MoveHere DEF IsPositionChange
<1> HIDE DEF tokens
<1>4. IsEntry(p, r, owner, 0, 0, 0, 0, -amount)
  BY <1>2, <1>3 DEF IsEntry, IsPositionChange, PoolRecord
<1> HIDE DEF r
<1> QED
  BY <1>1, <1>4

-----------------------------------------------------------------------------
(* The manager's revenue: what each entry point that settles a debt sends  *)
(* to the loan manager, and nothing else does.                             *)

\* s is r after the manager has been paid.
IsFee(r, s, fee) == s.tokens[TheManager] = r.tokens[TheManager] + fee

\* What a transfer does to the manager's tokens.
LEMMA MoveToManager ==
  ASSUME NEW tokens \in [Accounts -> Int], NEW u \in Users, NEW amount \in Int
  PROVE  /\ Move(tokens, u, ThePool, amount)[TheManager] = tokens[TheManager]
         /\ Move(tokens, ThePool, u, amount)[TheManager] = tokens[TheManager]
         /\ Move(tokens, u, TheManager, amount)[TheManager] = tokens[TheManager] + amount
         /\ Move(tokens, ThePool, TheManager, amount)[TheManager] = tokens[TheManager] + amount
BY UsersAreNotContracts, AccountsOfTheToken DEF Move

\* The tokens of a record whose positions have been lowered after interest.
LEMMA TokensUpToDate ==
  ASSUME NEW p \in PoolRecord, NEW now \in Nat, NEW u, NEW s, NEW l, NEW c
  PROVE  /\ DecreasePositions(AddInterestToAccrual(p, now), u, s, l, c).tokens = p.tokens
         /\ DecreasePositions(p, u, s, l, c).tokens = p.tokens
         /\ p.tokens \in [Accounts -> Int]
BY DEF DecreasePositions, IncreasePositions, AddInterestToAccrual, PoolRecord

\* add_interest
LEMMA InterestFee ==
  ASSUME NEW p \in PoolRecord, NEW now \in Nat, NEW u, NEW more
  PROVE  /\ IsFee(p, AddInterestToAccrual(p, now), 0)
         /\ IsFee(p, IncreaseLiabilities(AddInterestToAccrual(p, now), u, more), 0)
<1>1. /\ AddInterestToAccrual(p, now).tokens = p.tokens
      /\ IncreaseLiabilities(AddInterestToAccrual(p, now), u, more).tokens = p.tokens
  BY DEF IncreaseLiabilities, IncreasePositions, AddInterestToAccrual, PoolRecord
<1>2. p.tokens[TheManager] \in Int
  BY AccountsOfTheToken DEF PoolRecord
<1> QED
  BY <1>1, <1>2 DEF IsFee

\* repay and liquidate: the borrower or the liquidator pays the fee.
LEMMA PaymentFee ==
  ASSUME NEW p \in PoolRecord, NEW now \in Nat, NEW u \in Users, NEW owner \in Users,
         NEW amount \in Int, NEW unpaid \in Int
  PROVE  /\ IsFee(p, Repay(p, now, u, amount, unpaid), AdminFee(amount, unpaid))
         /\ IsFee(p, Liquidate(p, now, u, amount, unpaid, owner), AdminFee(amount, unpaid))
<1> DEFINE fee    == AdminFee(amount, unpaid)
           paid   == Move(p.tokens, u, ThePool, amount - fee)
           tokens == Move(paid, u, TheManager, fee)
<1>1. Repay(p, now, u, amount, unpaid).tokens = tokens
  BY TokensUpToDate DEF Repay, DecreasePositions, IncreasePositions, AddInterestToAccrual,
     PoolRecord
<1>2. Liquidate(p, now, u, amount, unpaid, owner).tokens = tokens
  BY TokensUpToDate DEF Liquidate, DecreasePositions, IncreasePositions, AddInterestToAccrual,
     PoolRecord
<1>3. fee \in Int /\ p.tokens \in [Accounts -> Int]
  BY AdminFeeInt, TokensUpToDate
<1> HIDE DEF fee
<1>4. amount - fee \in Int
  BY <1>3
<1>5. paid \in [Accounts -> Int] /\ paid[TheManager] = p.tokens[TheManager]
  BY <1>3, <1>4, MoveInt, MoveToManager, AccountsOfTheToken
<1> HIDE DEF paid
<1>6. tokens[TheManager] = p.tokens[TheManager] + fee
  BY <1>3, <1>5, MoveToManager
<1> HIDE DEF tokens
<1>7. /\ IsFee(p, Repay(p, now, u, amount, unpaid), fee)
      /\ IsFee(p, Liquidate(p, now, u, amount, unpaid, owner), fee)
  BY <1>1, <1>2, <1>6 DEF IsFee
<1> QED
  BY <1>7 DEF fee

\* repay_and_close: the pool pays it out of what it has collected.
LEMMA CloseFee ==
  ASSUME NEW p \in PoolRecord, NEW now \in Nat, NEW u \in Users,
         NEW borrowed \in Int, NEW maxAllowed \in Int, NEW unpaid \in Int
  PROVE  IsFee(p, RepayAndClose(p, now, u, borrowed, maxAllowed, unpaid),
               AdminFee(borrowed, unpaid))
<1> DEFINE fee    == AdminFee(borrowed, unpaid)
           t1     == Move(p.tokens, u, ThePool, maxAllowed)
           t2     == Move(t1, ThePool, TheManager, fee)
           tokens == Move(t2, ThePool, u, maxAllowed - borrowed)
<1>1. RepayAndClose(p, now, u, borrowed, maxAllowed, unpaid).tokens = tokens
  BY TokensUpToDate DEF RepayAndClose, CollectAtClose, DecreasePositions, IncreasePositions,
     AddInterestToAccrual, PoolRecord
<1>2. fee \in Int /\ p.tokens \in [Accounts -> Int]
  BY AdminFeeInt, TokensUpToDate
<1> HIDE DEF fee
<1>3. maxAllowed - borrowed \in Int
  OBVIOUS
<1>4. t1 \in [Accounts -> Int] /\ t1[TheManager] = p.tokens[TheManager]
  BY MoveInt, MoveToManager, AccountsOfTheToken, <1>2
<1> HIDE DEF t1
<1>5. t2 \in [Accounts -> Int] /\ t2[TheManager] = t1[TheManager] + fee
  BY <1>2, <1>4, MoveInt, MoveToManager, AccountsOfTheToken
<1> HIDE DEF t2
<1>6. tokens[TheManager] = t2[TheManager]
  BY <1>3, <1>5, MoveToManager
<1> HIDE DEF tokens
<1>7. IsFee(p, RepayAndClose(p, now, u, borrowed, maxAllowed, unpaid), fee)
  BY <1>1, <1>4, <1>5, <1>6 DEF IsFee
<1> QED
  BY <1>7 DEF fee

\* The collateral's way back, to its owner or to a liquidator, has no fee.
LEMMA CollateralFee ==
  ASSUME NEW p \in PoolRecord, NEW now \in Nat, NEW u \in Users, NEW owner \in Users,
         NEW amount \in Int
  PROVE  /\ IsFee(p, WithdrawCollateral(p, now, u, amount), 0)
         /\ IsFee(p, LiquidateTransferCollateral(p, u, amount, owner), 0)
<1> DEFINE tokens == Move(p.tokens, ThePool, u, amount)
<1>1. /\ WithdrawCollateral(p, now, u, amount).tokens = tokens
      /\ LiquidateTransferCollateral(p, u, amount, owner).tokens = tokens
  BY TokensUpToDate DEF WithdrawCollateral, LiquidateTransferCollateral, DecreasePositions,
     IncreasePositions, AddInterestToAccrual, PoolRecord
<1>2. tokens[TheManager] = p.tokens[TheManager] /\ p.tokens[TheManager] \in Int
  BY TokensUpToDate, MoveToManager, AccountsOfTheToken
<1> HIDE DEF tokens
<1> QED
  BY <1>1, <1>2 DEF IsFee

-----------------------------------------------------------------------------
(* The interest index. *)

\* A product grows with its factors.
LEMMA ProductGrows ==
  ASSUME NEW a \in Nat, NEW b \in Int, NEW c \in Int, b <= c
  PROVE  a * b <= a * c
<1>1. PICK d \in Nat : c = b + d
  <2>1. c - b \in Nat /\ c = b + (c - b)
    OBVIOUS
  <2> QED
    BY <2>1
<1>2. a * c = a * b + a * d
  BY <1>1
<1>3. a * d \in Nat
  OBVIOUS
<1>4. a * b \in Int /\ a * c \in Int
  OBVIOUS
<1> QED
  BY <1>2, <1>3, <1>4

\* Rust's division of what is not negative rounds down.
LEMMA TruncDivNat ==
  ASSUME NEW a \in Nat, NEW b \in Nat \ {0}
  PROVE  /\ TruncDiv(a, b) \in Nat
         /\ b * TruncDiv(a, b) <= a
         /\ a < b * TruncDiv(a, b) + b
<1>1. TruncDiv(a, b) = a \div b
  BY DEF TruncDiv, Magnitude
<1>2. a \div b \in Nat /\ b * (a \div b) <= a /\ a < b * (a \div b) + b
  OBVIOUS
<1> QED
  BY <1>1, <1>2

\* A quotient is no less than what the divisor goes into.
LEMMA TruncDivAtLeast ==
  ASSUME NEW a \in Nat, NEW b \in Nat \ {0}, NEW c \in Int, b * c <= a
  PROVE  c <= TruncDiv(a, b)
<1> DEFINE q == TruncDiv(a, b)
<1>1. q \in Nat /\ a < b * q + b
  BY TruncDivNat
<1> HIDE DEF q
<1>2. SUFFICES ASSUME q + 1 <= c
               PROVE  FALSE
  BY <1>1 DEF q
<1>3. b * (q + 1) <= b * c
  BY <1>1, <1>2, ProductGrows
<1>4. b * (q + 1) = b * q + b
  BY <1>1
<1>5. b * q \in Int /\ b * c \in Int
  BY <1>1
<1> QED
  BY <1>1, <1>3, <1>4, <1>5

\* A product is divided into its other factor.
LEMMA TruncDivExact ==
  ASSUME NEW a \in Nat \ {0}, NEW b \in Nat
  PROVE  TruncDiv(a * b, a) = b
<1> DEFINE c == a * b
<1>1. c \in Nat
  OBVIOUS
<1> HIDE DEF c
<1>2. TruncDiv(c, a) \in Nat /\ a * TruncDiv(c, a) <= c
  BY <1>1, TruncDivNat
<1>3. b <= TruncDiv(c, a)
  BY <1>1, TruncDivAtLeast DEF c
<1> DEFINE q == TruncDiv(c, a)
<1>4. q \in Nat /\ b <= q /\ a * q <= a * b
  BY <1>2, <1>3 DEF c
<1> HIDE DEF q
<1>5. q <= b
  <2> SUFFICES ASSUME b + 1 <= q
               PROVE  FALSE
    BY <1>4
  <2>1. a * (b + 1) <= a * q
    BY <1>4, ProductGrows
  <2>2. a * (b + 1) = a * b + a
    OBVIOUS
  <2>3. a * q \in Int /\ a * b \in Int
    BY <1>4
  <2> QED
    BY <1>4, <2>1, <2>2, <2>3
<1> QED
  BY <1>4, <1>5 DEF c, q

\* A smaller divisor goes in no fewer times.
LEMMA TruncDivBySmaller ==
  ASSUME NEW a \in Nat, NEW b \in Nat \ {0}, NEW c \in Nat \ {0}, c <= b
  PROVE  TruncDiv(a, b) <= TruncDiv(a, c)
<1> DEFINE q == TruncDiv(a, b)
<1>1. q \in Nat /\ b * q <= a
  BY TruncDivNat
<1> HIDE DEF q
<1>2. q * c <= q * b
  BY <1>1, ProductGrows
<1>3. c * q <= b * q
  BY <1>1, <1>2
<1>4. b * q \in Int /\ c * q \in Int
  BY <1>1
<1>5. c * q <= a
  BY <1>1, <1>3, <1>4
<1>6. q <= TruncDiv(a, c)
  BY <1>1, <1>5, TruncDivAtLeast
<1> QED
  BY <1>6 DEF q

\* The rate of a pool that does not have more available than its total is not
\* negative.
LEMMA RateIsNatural ==
  ASSUME NEW total \in Int, NEW available \in Int, available <= total, NEW multiplier \in Nat
  PROVE  GetInterest(total, available, multiplier) \in Nat
<1> USE ScaleAssumption, RateAssumption
<1>1. SlopeBeforePanic \in Nat
  <2>1. (INTEREST_RATE_AT_PANIC - BASE_INTEREST_RATE) * DECIMAL \in Nat
    OBVIOUS
  <2> QED
    BY <2>1, TruncDivNat DEF SlopeBeforePanic
<1>2. SlopeAfterPanic \in Nat
  <2>1. (MAX_INTEREST_RATE - INTEREST_RATE_AT_PANIC) * DECIMAL \in Nat
    OBVIOUS
  <2>2. FULL_UTILISATION - PANIC_RATES_THRESHOLD \in Nat \ {0}
    OBVIOUS
  <2> QED
    BY <2>1, <2>2, TruncDivNat DEF SlopeAfterPanic
<1>3. ASSUME NEW r \in Nat
      PROVE  RateAt(r) \in Nat
  <2>1. CASE r < PANIC_RATES_THRESHOLD
    <3>1. SlopeBeforePanic * r \in Nat
      BY <1>1
    <3>2. TruncDiv(SlopeBeforePanic * r, DECIMAL) \in Nat
      BY <3>1, TruncDivNat
    <3> QED
      BY <2>1, <3>2 DEF RateAt
  <2>2. CASE ~ (r < PANIC_RATES_THRESHOLD)
    <3> DEFINE begin == SlopeAfterPanic * PANIC_RATES_THRESHOLD
               here  == SlopeAfterPanic * r
    <3>1. begin \in Nat /\ here \in Nat
      BY <1>2
    <3>2. begin <= here
      BY <1>2, <2>2, ProductGrows
    <3>3. TruncDiv(begin, DECIMAL) + PANIC_BASE_RATE >= 0
      BY PanicAssumption
    <3> HIDE DEF begin, here
    <3>4. /\ TruncDiv(begin, DECIMAL) \in Nat /\ TruncDiv(here, DECIMAL) \in Nat
          /\ DECIMAL * TruncDiv(begin, DECIMAL) <= begin
      BY <3>1, TruncDivNat
    <3>5. DECIMAL * TruncDiv(begin, DECIMAL) <= here
      BY <3>1, <3>2, <3>4
    <3>6. TruncDiv(begin, DECIMAL) <= TruncDiv(here, DECIMAL)
      BY <3>1, <3>4, <3>5, TruncDivAtLeast
    <3>7. TruncDiv(here, DECIMAL) + PANIC_BASE_RATE \in Nat
      BY <3>3, <3>4, <3>6
    <3>8. RateAt(r) = TruncDiv(here, DECIMAL) + PANIC_BASE_RATE
      BY <2>2 DEF RateAt, here
    <3> QED
      BY <3>7, <3>8
  <2> QED
    BY <2>1, <2>2
<1>4. CASE total > 0
  <2>1. (total - available) * FULL_UTILISATION \in Nat
    OBVIOUS
  <2>2. Utilisation(total, available) \in Nat
    BY <1>4, <2>1, TruncDivNat DEF Utilisation
  <2>3. RateAt(Utilisation(total, available)) \in Nat
    BY <1>3, <2>2
  <2> QED
    BY <1>4, <2>3 DEF GetInterest
<1>5. CASE ~ (total > 0)
  BY <1>5 DEF GetInterest
<1> QED
  BY <1>4, <1>5

\* add_interest_to_accrual does not lower the index, and leaves it as it is when
\* no time has passed, whatever the balances.
LEMMA IndexGrows ==
  ASSUME NEW p \in PoolRecord, NEW now \in Nat, p.updated <= now
  PROVE  /\ p.updated = now => AddInterestToAccrual(p, now).accrual = p.accrual
         /\ p.accrual >= 0 /\ p.available <= p.total /\ p.multiplier >= 0
              => AddInterestToAccrual(p, now).accrual >= p.accrual
<1> DEFINE rate  == GetInterest(p.total, p.available, p.multiplier)
           ratio == ((now - p.updated) * DECIMAL) \div SECONDS_IN_YEAR
           year  == TruncDiv(p.accrual * rate, DECIMAL)
           more  == TruncDiv(year * ratio, DECIMAL)
<1> USE ScaleAssumption, YearAssumption
<1>1. /\ p.accrual \in Int /\ p.updated \in Nat /\ p.multiplier \in Int
      /\ p.total \in Int /\ p.available \in Int
  BY DEF PoolRecord
<1>2. AddInterestToAccrual(p, now).accrual = p.accrual + more
  BY DEF AddInterestToAccrual, PoolRecord
<1>3. rate \in Int
  BY <1>1, GetInterestInt
<1>4. ratio \in Nat /\ (p.updated = now => ratio = 0)
  <2>1. (now - p.updated) * DECIMAL \in Nat /\ (p.updated = now => (now - p.updated) * DECIMAL = 0)
    BY <1>1
  <2> QED
    BY <2>1
<1> HIDE DEF rate, ratio
<1>5. year \in Int
  BY <1>1, <1>3, TruncDivInt
<1>6. ASSUME p.updated = now
      PROVE  more = 0
  <2>1. year * ratio = 0
    BY <1>4, <1>5, <1>6
  <2>2. TruncDiv(0, DECIMAL) = 0
    BY DEF TruncDiv, Magnitude
  <2> QED
    BY <2>1, <2>2
<1>7. ASSUME p.accrual >= 0, p.available <= p.total, p.multiplier >= 0
      PROVE  more \in Nat
  <2>1. rate \in Nat
    <3>1. p.available <= p.total /\ p.multiplier \in Nat
      BY <1>1, <1>7
    <3> QED
      BY <1>1, <3>1, RateIsNatural DEF rate
  <2>2. p.accrual * rate \in Nat
    BY <1>1, <1>7, <2>1
  <2>3. year \in Nat
    BY <2>2, TruncDivNat
  <2> HIDE DEF year
  <2>4. year * ratio \in Nat
    BY <1>4, <2>3
  <2> QED
    BY <2>4, TruncDivNat
<1> HIDE DEF more
<1> QED
  BY <1>1, <1>2, <1>6, <1>7

\* The index in s is that of r, or that of r brought up to date; and so are the
\* settings that no entry point changes.
HasSameIndex(r, s) ==
  /\ s.accrual = r.accrual /\ s.updated = r.updated
  /\ s.multiplier = r.multiplier /\ s.status = r.status

IsUpToDate(r, s, now) == HasSameIndex(AddInterestToAccrual(r, now), s)

\* Interest of no time is none.
LEMMA UpToDateTwice ==
  ASSUME NEW r \in PoolRecord, NEW s \in PoolRecord, NEW t, NEW now \in Nat,
         IsUpToDate(r, s, now), IsUpToDate(s, t, now)
  PROVE  IsUpToDate(r, t, now)
<1>1. AddInterestToAccrual(r, now).updated = now
  BY DEF AddInterestToAccrual, PoolRecord
<1>2. s.updated = now
  BY <1>1 DEF IsUpToDate, HasSameIndex
<1>3. AddInterestToAccrual(s, now).accrual = s.accrual
  BY <1>2, IndexGrows
<1>4. /\ AddInterestToAccrual(s, now).updated = now
      /\ AddInterestToAccrual(s, now).multiplier = s.multiplier
      /\ AddInterestToAccrual(s, now).status = s.status
  BY DEF AddInterestToAccrual, PoolRecord
<1> QED
  BY <1>1, <1>2, <1>3, <1>4 DEF IsUpToDate, HasSameIndex

\* What is done to the index is done.
LEMMA SameIndexAfter ==
  ASSUME NEW r, NEW s, NEW t, NEW now, IsUpToDate(r, s, now), HasSameIndex(s, t)
  PROVE  IsUpToDate(r, t, now)
BY DEF IsUpToDate, HasSameIndex

\* Positions are no matter of the index.
LEMMA PositionsKeepIndex ==
  ASSUME NEW p \in PoolRecord, NEW u, NEW s, NEW l, NEW c
  PROVE  /\ HasSameIndex(p, IncreasePositions(p, u, s, l, c))
         /\ HasSameIndex(p, DecreasePositions(p, u, s, l, c))
BY DEF HasSameIndex, IncreasePositions, DecreasePositions, PoolRecord

\* Every entry point that changes balances brings the index up to date.
LEMMA EntryPointsAccrue ==
  ASSUME NEW p \in PoolRecord, NEW now \in Nat, NEW u \in Users, NEW amount, NEW borrowed, NEW unpaid
  PROVE  /\ IsUpToDate(p, AddInterestToAccrual(p, now), now)
         /\ IsUpToDate(p, Deposit(p, now, u, amount), now)
         /\ IsUpToDate(p, WithdrawInternal(p, now, u, amount), now)
         /\ IsUpToDate(p, Borrow(p, now, u, amount), now)
         /\ IsUpToDate(p, WithdrawCollateral(p, now, u, amount), now)
         /\ IsUpToDate(p, Repay(p, now, u, amount, unpaid), now)
         /\ IsUpToDate(p, RepayAndClose(p, now, u, borrowed, amount, unpaid), now)
         /\ \A v : IsUpToDate(p, Liquidate(p, now, v, amount, unpaid, u), now)
<1> DEFINE q == AddInterestToAccrual(p, now)
<1>1. q \in PoolRecord
  BY AddInterestType
<1> USE <1>1 DEF IsUpToDate, HasSameIndex, IncreasePositions, DecreasePositions, PoolRecord
<1> HIDE DEF q
<1>2. IsUpToDate(p, Deposit(p, now, u, amount), now)
  BY DEF Deposit, q
<1>3. IsUpToDate(p, WithdrawInternal(p, now, u, amount), now)
  BY DEF WithdrawInternal, q
<1>4. IsUpToDate(p, Borrow(p, now, u, amount), now)
  BY DEF Borrow, q
<1>5. IsUpToDate(p, WithdrawCollateral(p, now, u, amount), now)
  BY DEF WithdrawCollateral, q
<1>6. IsUpToDate(p, Repay(p, now, u, amount, unpaid), now)
  BY DEF Repay, q
<1>7. IsUpToDate(p, RepayAndClose(p, now, u, borrowed, amount, unpaid), now)
  BY DEF RepayAndClose, q
<1>8. \A v : IsUpToDate(p, Liquidate(p, now, v, amount, unpaid, u), now)
  BY DEF Liquidate, q
<1> QED
  BY <1>2, <1>3, <1>4, <1>5, <1>6, <1>7, <1>8
\* deposit_collateral brings the index up to date, whether or not it pays out.
LEMMA DepositCollateralAccrues ==
  ASSUME NEW p \in PoolRecord, NEW now \in Nat, NEW u \in Users, NEW amount \in Int,
         DepositCollateralOK(p, now, u, amount)
  PROVE  IsUpToDate(p, DepositCollateral(p, now, u, amount), now)
<1> DEFINE w == AfterOwnWithdrawal(p, now, u, amount)
           q == IncreasePositions(w, u, 0, 0, amount)
<1>1. w \in PoolRecord
  BY OwnWithdrawalType
<1>2. IsUpToDate(p, w, now)
  BY EntryPointsAccrue DEF AfterOwnWithdrawal
<1>3. DepositCollateral(p, now, u, amount) = [q EXCEPT !.tokens = Move(@, u, ThePool, amount)]
  BY DEF DepositCollateral
<1> HIDE DEF w
<1>4. q \in PoolRecord /\ HasSameIndex(w, q)
  BY <1>1, IncreasePositionsType, PositionsKeepIndex
<1> HIDE DEF q
<1>5. HasSameIndex(w, DepositCollateral(p, now, u, amount))
  BY <1>3, <1>4 DEF HasSameIndex, PoolRecord
<1> QED
  BY <1>2, <1>5, SameIndexAfter

\* Seizing collateral is no matter of the index, nor of what is lent out.
LEMMA TransferKeepsIndex ==
  ASSUME NEW p \in PoolRecord, NEW u \in Users, NEW owner \in Users, NEW amount \in Int
  PROVE  LET r == LiquidateTransferCollateral(p, u, amount, owner)
         IN  HasSameIndex(p, r) /\ r.total = p.total /\ r.available = p.available
<1> DEFINE q == DecreasePositions(p, owner, 0, 0, amount)
<1>1. LiquidateTransferCollateral(p, u, amount, owner)
        = [q EXCEPT !.tokens = Move(@, ThePool, u, amount)]
  BY DEF LiquidateTransferCollateral
<1>2. q \in PoolRecord /\ HasSameIndex(p, q)
  BY DecreasePositionsType, PositionsKeepIndex
<1>3. q.total = p.total /\ q.available = p.available
  BY DEF DecreasePositions, IncreasePositions, PoolRecord
<1> HIDE DEF q
<1> QED
  BY <1>1, <1>2, <1>3 DEF HasSameIndex, PoolRecord

-----------------------------------------------------------------------------
(* What a share is worth. *)

\* What of the pool's own bookkeeping the value of a share rests on.
IsBacked(r) == r.available \in 0 .. r.total /\ r.shares >= 0

\* From r to s no value is taken from the lenders, but less than one share's.
KeepsValue(r, s) ==
  /\ s.available >= 0
  /\ s.shares >= 0
  /\ s.total * r.shares + r.total >= r.total * s.shares

\* Nor does anything that takes no shares and nothing from the pool.
Grows(r, s) == s.total >= r.total /\ s.available >= r.available /\ s.shares = r.shares

LEMMA GrowthKeepsValue ==
  ASSUME NEW r \in PoolRecord, NEW s \in PoolRecord, IsBacked(r), Grows(r, s)
  PROVE  KeepsValue(r, s)
<1>1. /\ r.total \in Nat /\ r.available \in Nat /\ r.shares \in Nat
      /\ s.total \in Int /\ s.available \in Int
  BY DEF IsBacked, PoolRecord
<1>2. r.shares * r.total <= r.shares * s.total
  BY <1>1, ProductGrows DEF Grows
<1>3. r.shares * r.total = r.total * r.shares /\ r.shares * s.total = s.total * r.shares
  BY <1>1
<1>4. r.total * r.shares \in Int /\ s.total * r.shares \in Int
  BY <1>1
<1> QED
  BY <1>1, <1>2, <1>3, <1>4 DEF Grows, KeepsValue

\* deposit: the shares issued are rounded down.
LEMMA DepositKeepsValue ==
  ASSUME NEW r \in PoolRecord, NEW s \in PoolRecord, IsBacked(r), NEW amount \in Nat,
         s.total = r.total + amount, s.available = r.available + amount,
         s.shares = r.shares + SharesIssued(r, amount)
  PROVE  KeepsValue(r, s)
<1> DEFINE T == r.total
           S == r.shares
           i == SharesIssued(r, amount)
<1>1. T \in Nat /\ r.available \in Nat /\ S \in Nat
  BY DEF IsBacked, PoolRecord
<1>2. i \in Nat /\ T * i <= S * amount
  <2>1. CASE T = 0
    <3>1. i = amount
      BY <2>1 DEF SharesIssued
    <3>2. S * amount \in Nat /\ T * amount = 0
      BY <1>1, <2>1
    <3> QED
      BY <3>1, <3>2
  <2>2. CASE T # 0
    <3>1. i = TruncDiv(S * amount, T)
      BY <2>2 DEF SharesIssued
    <3>2. S * amount \in Nat /\ T \in Nat \ {0}
      BY <1>1, <2>2
    <3> HIDE DEF i
    <3> QED
      BY <3>1, <3>2, TruncDivNat
  <2> QED
    BY <2>1, <2>2
<1>3. s.total = T + amount /\ s.shares = S + i
  OBVIOUS
<1> HIDE DEF T, S, i
<1>4. (T + amount) * S = T * S + S * amount /\ T * (S + i) = T * S + T * i
  BY <1>1, <1>2
<1>5. T * S \in Nat /\ S * amount \in Nat /\ T * i \in Nat
  BY <1>1, <1>2
<1>6. (T + amount) * S + T >= T * (S + i)
  BY <1>1, <1>2, <1>4, <1>5
<1>7. s.available >= 0 /\ s.shares >= 0
  BY <1>1, <1>2, <1>3
<1> QED
  BY <1>3, <1>6, <1>7 DEF KeepsValue, T, S

\* withdraw: the shares burned are rounded down too, by less than one.
LEMMA WithdrawKeepsValue ==
  ASSUME NEW r \in PoolRecord, NEW s \in PoolRecord, IsBacked(r), NEW amount \in Nat,
         r.total # 0, amount <= r.available,
         s.total = r.total - amount, s.available = r.available - amount,
         s.shares = r.shares - SharesBurned(r, amount)
  PROVE  KeepsValue(r, s)
<1> DEFINE T == r.total
           S == r.shares
           b == SharesBurned(r, amount)
<1>1. T \in Nat \ {0} /\ r.available \in Nat /\ S \in Nat /\ amount <= T
  BY DEF IsBacked, PoolRecord
<1>2. b = TruncDiv(amount * S, T) /\ amount * S \in Nat
  BY <1>1 DEF SharesBurned
<1>3. s.total = T - amount /\ s.shares = S - b
  OBVIOUS
<1> HIDE DEF b
<1>4. b \in Nat /\ T * b <= amount * S /\ amount * S < T * b + T
  BY <1>1, <1>2, TruncDivNat
<1> HIDE DEF T, S
<1>5. b <= S
  <2>1. S * amount <= S * T
    BY <1>1, ProductGrows
  <2>2. SUFFICES ASSUME S + 1 <= b
                 PROVE  FALSE
    BY <1>1, <1>4
  <2>3. T * (S + 1) <= T * b
    BY <1>1, <1>4, <2>2, ProductGrows
  <2>4. T * (S + 1) = S * T + T /\ S * amount = amount * S
    BY <1>1
  <2>5. S * T \in Int /\ T * b \in Int
    BY <1>1, <1>4
  <2> QED
    BY <1>1, <1>2, <1>4, <2>1, <2>3, <2>4, <2>5
<1>6. (T - amount) * S = T * S - amount * S /\ T * (S - b) = T * S - T * b
  BY <1>1, <1>4
<1>7. T * S \in Nat /\ T * b \in Nat
  BY <1>1, <1>4
<1>8. (T - amount) * S + T >= T * (S - b)
  BY <1>1, <1>2, <1>4, <1>6, <1>7
<1>9. s.available >= 0 /\ s.shares >= 0
  BY <1>1, <1>3, <1>4, <1>5
<1> QED
  BY <1>3, <1>8, <1>9 DEF KeepsValue, T, S

\* deposit_collateral: what it pays out is a withdrawal.
LEMMA DepositCollateralKeepsValue ==
  ASSUME NEW p \in PoolRecord, NEW now \in Nat, NEW u \in Users, NEW amount \in Int,
         DepositCollateralOK(p, now, u, amount), IsBacked(p)
  PROVE  KeepsValue(p, DepositCollateral(p, now, u, amount))
<1> DEFINE w == AfterOwnWithdrawal(p, now, u, amount)
           x == WithdrawnForCollateral(p, u, amount)
           q == IncreasePositions(w, u, 0, 0, amount)
           d == DepositCollateral(p, now, u, amount)
<1>1. w \in PoolRecord
  BY OwnWithdrawalType
<1>2. KeepsValue(p, w)
  <2>1. CASE x > 0
    <3>1. x \in Nat
      BY <2>1, WithdrawnInt
    <3>2. p.total # 0 /\ x <= p.available
      BY <2>1 DEF DepositCollateralOK, WithdrawInternalOK
    <3>3. w = WithdrawInternal(p, now, u, x)
      BY <2>1 DEF AfterOwnWithdrawal
    <3>4. SharesBurned(p, x) \in Int /\ p.total \in Int /\ p.available \in Int /\ p.shares \in Int
      BY <3>1, <3>2, SharesInt DEF PoolRecord
    <3> HIDE DEF w, x
    <3>5. IsEntry(p, w, u, -x, -x, -SharesBurned(p, x), 0, 0)
      BY <3>1, <3>2, <3>3, WithdrawInternalEntry
    <3>6. /\ w.total = p.total - x /\ w.available = p.available - x
          /\ w.shares = p.shares - SharesBurned(p, x)
      BY <3>1, <3>4, <3>5 DEF IsEntry
    <3> QED
      BY <1>1, <3>1, <3>2, <3>6, WithdrawKeepsValue
  <2>2. CASE ~ (x > 0)
    <3>1. w = AddInterestToAccrual(p, now)
      BY <2>2 DEF AfterOwnWithdrawal
    <3> HIDE DEF w
    <3>2. IsEntry(p, w, u, 0, 0, 0, 0, 0)
      BY <3>1, AddInterestEntry
    <3>3. Grows(p, w)
      BY <3>2 DEF IsEntry, Grows, PoolRecord
    <3> QED
      BY <1>1, <3>3, GrowthKeepsValue
  <2> QED
    BY <2>1, <2>2
<1>3. d = [q EXCEPT !.tokens = Move(@, u, ThePool, amount)]
  BY DEF DepositCollateral
<1> HIDE DEF w, d
<1>4. q \in PoolRecord /\ IsPositionChange(w, q, u, 0, 0, amount)
  BY <1>1, IncreasePositionsType, PositionIncrease
<1> HIDE DEF q
<1>5. d.total = w.total /\ d.available = w.available /\ d.shares = w.shares
  BY <1>3, <1>4 DEF IsPositionChange, PoolRecord
<1>6. KeepsValue(p, d)
  BY <1>2, <1>5 DEF KeepsValue
<1> QED
  BY <1>6 DEF d

\* So many shares are a pool's price for so many tokens: what they are worth,
\* without the fraction, or at first a token each.
IsSharePrice(r, tokens, shares) ==
  IF r.total = 0
  THEN shares = tokens
  ELSE /\ shares * r.total <= tokens * r.shares
       /\ tokens * r.shares < shares * r.total + r.total

\* deposit issues them at the price,
LEMMA SharesIssuedPrice ==
  ASSUME NEW r \in PoolRecord, IsBacked(r), NEW amount \in Nat
  PROVE  IsSharePrice(r, amount, SharesIssued(r, amount))
<1>1. r.total \in Nat /\ r.shares \in Nat
  BY DEF IsBacked, PoolRecord
<1>2. CASE r.total = 0
  BY <1>2 DEF SharesIssued, IsSharePrice
<1>3. CASE r.total # 0
  <2> DEFINE part == r.shares * amount
             q    == TruncDiv(part, r.total)
  <2>1. part \in Nat /\ amount * r.shares = part
    BY <1>1
  <2>2. SharesIssued(r, amount) = q
    BY <1>3 DEF SharesIssued
  <2> HIDE DEF part
  <2>3. q \in Nat /\ r.total * q <= part /\ part < r.total * q + r.total
    BY <1>1, <1>3, <2>1, TruncDivNat
  <2> HIDE DEF q
  <2>4. r.total * q = q * r.total
    BY <1>1, <2>3
  <2> QED
    BY <1>3, <2>1, <2>2, <2>3, <2>4 DEF IsSharePrice
<1> QED
  BY <1>2, <1>3

\* and withdraw takes them at it.
LEMMA SharesBurnedPrice ==
  ASSUME NEW r \in PoolRecord, IsBacked(r), r.total # 0, NEW amount \in Nat
  PROVE  /\ IsSharePrice(r, amount, SharesBurned(r, amount))
         /\ SharesBurned(r, amount) \in Nat
<1> DEFINE part == amount * r.shares
           q    == TruncDiv(part, r.total)
<1>1. r.total \in Nat /\ r.shares \in Nat /\ part \in Nat
  BY DEF IsBacked, PoolRecord
<1>2. SharesBurned(r, amount) = q
  BY DEF SharesBurned
<1> HIDE DEF part
<1>3. q \in Nat /\ r.total * q <= part /\ part < r.total * q + r.total
  BY <1>1, TruncDivNat
<1> HIDE DEF q
<1>4. r.total * q = q * r.total
  BY <1>1, <1>3
<1> QED
  BY <1>2, <1>3, <1>4 DEF IsSharePrice, part

-----------------------------------------------------------------------------
(* No position falls below nothing. *)

HasNaturalPositions(r) ==
  \A u \in Users : /\ r.positions[u].shares >= 0
                   /\ r.positions[u].liabilities >= 0
                   /\ r.positions[u].collateral >= 0

LEMMA EntryStaysNatural ==
  ASSUME NEW r \in PoolRecord, NEW s \in PoolRecord, NEW u \in Users, NEW total, NEW available,
         NEW shares \in Int, NEW liabilities \in Int, NEW collateral \in Int,
         IsEntry(r, s, u, total, available, shares, liabilities, collateral),
         HasNaturalPositions(r),
         r.positions[u].shares + shares >= 0,
         r.positions[u].liabilities + liabilities >= 0,
         r.positions[u].collateral + collateral >= 0
  PROVE  HasNaturalPositions(s)
<1> SUFFICES ASSUME NEW w \in Users
             PROVE  /\ s.positions[w].shares >= 0
                    /\ s.positions[w].liabilities >= 0
                    /\ s.positions[w].collateral >= 0
  BY DEF HasNaturalPositions
<1>1. CASE w = u
  BY <1>1 DEF IsEntry
<1>2. CASE w # u
  BY <1>2 DEF IsEntry, HasNaturalPositions
<1> QED
  BY <1>1, <1>2

LEMMA SharesIssuedNat ==
  ASSUME NEW r \in PoolRecord, IsBacked(r), NEW amount \in Nat
  PROVE  SharesIssued(r, amount) \in Nat
<1>1. r.total \in Nat /\ r.shares \in Nat
  BY DEF IsBacked, PoolRecord
<1>2. CASE r.total = 0
  BY <1>2 DEF SharesIssued
<1>3. CASE r.total # 0
  <2> DEFINE part == r.shares * amount
  <2>1. part \in Nat
    BY <1>1
  <2>2. SharesIssued(r, amount) = TruncDiv(part, r.total)
    BY <1>3 DEF SharesIssued
  <2> HIDE DEF part
  <2> QED
    BY <1>1, <1>3, <2>1, <2>2, TruncDivNat
<1> QED
  BY <1>2, <1>3

LEMMA WithdrawInternalStaysNatural ==
  ASSUME NEW p \in PoolRecord, NEW now \in Nat, NEW u \in Users, NEW amount \in Int,
         WithdrawInternalOK(p, u, amount), HasNaturalPositions(p)
  PROVE  HasNaturalPositions(WithdrawInternal(p, now, u, amount))
<1> DEFINE burned == SharesBurned(p, amount)
           w      == WithdrawInternal(p, now, u, amount)
<1>1. p.total # 0 /\ burned <= p.positions[u].shares
  BY DEF WithdrawInternalOK
<1>2. burned \in Int
  BY <1>1, SharesInt
<1>3. w \in PoolRecord
  BY WithdrawInternalType
<1>4. IsEntry(p, w, u, -amount, -amount, -burned, 0, 0)
  BY <1>1, WithdrawInternalEntry
<1>5. /\ p.positions[u].shares \in Int /\ p.positions[u].liabilities \in Int
      /\ p.positions[u].collateral \in Int
  BY DEF PoolRecord, Position
<1> HIDE DEF burned, w
<1>6. /\ -burned \in Int /\ p.positions[u].shares + (-burned) >= 0
      /\ p.positions[u].liabilities + 0 >= 0 /\ p.positions[u].collateral + 0 >= 0
  BY <1>1, <1>2, <1>5 DEF HasNaturalPositions
<1>7. HasNaturalPositions(w)
  BY <1>3, <1>4, <1>6, EntryStaysNatural
<1> QED
  BY <1>7 DEF w

LEMMA DepositCollateralStaysNatural ==
  ASSUME NEW p \in PoolRecord, NEW now \in Nat, NEW u \in Users, NEW amount \in Int,
         DepositCollateralOK(p, now, u, amount), HasNaturalPositions(p)
  PROVE  HasNaturalPositions(DepositCollateral(p, now, u, amount))
<1> DEFINE w == AfterOwnWithdrawal(p, now, u, amount)
           x == WithdrawnForCollateral(p, u, amount)
           q == IncreasePositions(w, u, 0, 0, amount)
           d == DepositCollateral(p, now, u, amount)
<1>1. w \in PoolRecord /\ amount > 0
  BY OwnWithdrawalType DEF DepositCollateralOK
<1>2. HasNaturalPositions(w)
  <2>1. CASE x > 0
    <3>1. x \in Int /\ WithdrawInternalOK(p, u, x)
      BY <2>1, WithdrawnInt DEF DepositCollateralOK
    <3>2. w = WithdrawInternal(p, now, u, x)
      BY <2>1 DEF AfterOwnWithdrawal
    <3> HIDE DEF w, x
    <3> QED
      BY <3>1, <3>2, WithdrawInternalStaysNatural
  <2>2. CASE ~ (x > 0)
    BY <2>2 DEF AfterOwnWithdrawal, AddInterestToAccrual, HasNaturalPositions, PoolRecord
  <2> QED
    BY <2>1, <2>2
<1>3. d = [q EXCEPT !.tokens = Move(@, u, ThePool, amount)]
  BY DEF DepositCollateral
<1> HIDE DEF w, d
<1>4. q \in PoolRecord /\ IsPositionChange(w, q, u, 0, 0, amount)
  BY <1>1, IncreasePositionsType, PositionIncrease
<1> HIDE DEF q
<1>5. d.positions = q.positions
  BY <1>3, <1>4 DEF PoolRecord
<1>6. HasNaturalPositions(d)
  <2> SUFFICES ASSUME NEW v \in Users
               PROVE  /\ q.positions[v].shares >= 0
                      /\ q.positions[v].liabilities >= 0
                      /\ q.positions[v].collateral >= 0
    BY <1>5 DEF HasNaturalPositions
  <2>1. w.positions[v] \in Position
    BY <1>1 DEF PoolRecord
  <2>2. CASE v = u
    BY <1>1, <1>2, <1>4, <2>1, <2>2 DEF IsPositionChange, HasNaturalPositions, Position
  <2>3. CASE v # u
    BY <1>2, <1>4, <2>3 DEF IsPositionChange, HasNaturalPositions
  <2> QED
    BY <2>2, <2>3
<1> QED
  BY <1>6 DEF d

-----------------------------------------------------------------------------
(* The rate curve. *)

\* A larger number has no smaller quotient.
LEMMA TruncDivGrows ==
  ASSUME NEW a \in Nat, NEW c \in Nat, a <= c, NEW b \in Nat \ {0}
  PROVE  TruncDiv(a, b) <= TruncDiv(c, b)
<1> DEFINE q == TruncDiv(a, b)
<1>1. q \in Nat /\ b * q <= a
  BY TruncDivNat
<1> HIDE DEF q
<1>2. b * q <= c
  <2>1. b * q \in Int
    BY <1>1
  <2> QED
    BY <1>1, <2>1
<1>3. q <= TruncDiv(c, b)
  BY <1>1, <1>2, TruncDivAtLeast
<1> QED
  BY <1>3 DEF q

LEMMA SlopesAreNatural ==
  SlopeBeforePanic \in Nat /\ SlopeAfterPanic \in Nat
<1> USE ScaleAssumption, RateAssumption
<1> DEFINE before == (INTEREST_RATE_AT_PANIC - BASE_INTEREST_RATE) * DECIMAL
           after  == (MAX_INTEREST_RATE - INTEREST_RATE_AT_PANIC) * DECIMAL
           rest   == FULL_UTILISATION - PANIC_RATES_THRESHOLD
<1>1. /\ before \in Nat /\ after \in Nat
      /\ PANIC_RATES_THRESHOLD \in Nat \ {0} /\ rest \in Nat \ {0}
  OBVIOUS
<1> HIDE DEF before, after, rest
<1>2. TruncDiv(before, PANIC_RATES_THRESHOLD) \in Nat /\ TruncDiv(after, rest) \in Nat
  BY <1>1, TruncDivNat
<1> QED
  BY <1>2 DEF SlopeBeforePanic, SlopeAfterPanic, before, after, rest

\* Each of the curve's two lines rises.
Rise(slope, ratio) == TruncDiv(slope * ratio, DECIMAL)

LEMMA LineRises ==
  ASSUME NEW slope \in Nat, NEW r \in Nat, NEW s \in Nat, r <= s
  PROVE  Rise(slope, r) \in Nat /\ Rise(slope, s) \in Nat /\ Rise(slope, r) <= Rise(slope, s)
<1> DEFINE a == slope * r
           c == slope * s
<1>1. a \in Nat /\ c \in Nat /\ a <= c
  BY ProductGrows
<1> HIDE DEF a, c
<1>2. /\ TruncDiv(a, DECIMAL) \in Nat /\ TruncDiv(c, DECIMAL) \in Nat
      /\ TruncDiv(a, DECIMAL) <= TruncDiv(c, DECIMAL)
  BY <1>1, TruncDivNat, TruncDivGrows, ScaleAssumption
<1> QED
  BY <1>2 DEF Rise, a, c

LEMMA RateOnLines ==
  ASSUME NEW r \in Nat
  PROVE  RateAt(r) = IF r < PANIC_RATES_THRESHOLD
                     THEN Rise(SlopeBeforePanic, r) + BASE_INTEREST_RATE
                     ELSE Rise(SlopeAfterPanic, r) + PANIC_BASE_RATE
BY DEF RateAt, Rise

\* The gentle line begins at the base rate and ends no higher than the rate at
\* the threshold.
LEMMA GentleLineEnds ==
  ASSUME NEW r \in Nat, r < PANIC_RATES_THRESHOLD
  PROVE  RateAt(r) \in BASE_INTEREST_RATE .. INTEREST_RATE_AT_PANIC
<1> DEFINE rise == INTEREST_RATE_AT_PANIC - BASE_INTEREST_RATE
           whole == rise * DECIMAL
           here  == SlopeBeforePanic * r
           end   == SlopeBeforePanic * PANIC_RATES_THRESHOLD
<1> USE ScaleAssumption, RateAssumption, SlopesAreNatural
<1>1. rise \in Nat /\ whole \in Nat /\ here \in Nat /\ end \in Nat
  OBVIOUS
<1>2. PANIC_RATES_THRESHOLD * SlopeBeforePanic <= whole
  BY <1>1, TruncDivNat DEF SlopeBeforePanic
<1>3. here <= end
  BY ProductGrows
<1>4. end = PANIC_RATES_THRESHOLD * SlopeBeforePanic
  OBVIOUS
<1>5. whole = DECIMAL * rise
  OBVIOUS
<1> HIDE DEF whole, here, end, rise
<1>6. here <= whole
  BY <1>1, <1>2, <1>3, <1>4
<1>7. TruncDiv(here, DECIMAL) \in Nat /\ TruncDiv(here, DECIMAL) <= TruncDiv(whole, DECIMAL)
  BY <1>1, <1>6, TruncDivNat, TruncDivGrows
<1>8. TruncDiv(whole, DECIMAL) = rise
  BY <1>1, <1>5, TruncDivExact
<1>9. RateAt(r) = TruncDiv(here, DECIMAL) + BASE_INTEREST_RATE
  BY DEF RateAt, here
<1> QED
  BY <1>1, <1>7, <1>8, <1>9 DEF rise

\* Where the lines join without a fall, the whole curve rises.
LEMMA CurveRises ==
  ASSUME INTEREST_RATE_AT_PANIC <= RateAt(PANIC_RATES_THRESHOLD),
         NEW r \in Nat, NEW s \in Nat, r <= s
  PROVE  RateAt(r) \in Int /\ RateAt(s) \in Int /\ RateAt(r) <= RateAt(s)
<1> USE ScaleAssumption, RateAssumption, SlopesAreNatural
<1> DEFINE before(t) == Rise(SlopeBeforePanic, t)
           after(t)  == Rise(SlopeAfterPanic, t)
<1>1. CASE s < PANIC_RATES_THRESHOLD
  <2>1. before(r) \in Nat /\ before(s) \in Nat /\ before(r) <= before(s)
    BY LineRises
  <2>2. r < PANIC_RATES_THRESHOLD
    BY <1>1
  <2>3. RateAt(r) = before(r) + BASE_INTEREST_RATE /\ RateAt(s) = before(s) + BASE_INTEREST_RATE
    BY <1>1, <2>2, RateOnLines
  <2> HIDE DEF before
  <2> QED
    BY <2>1, <2>3
<1>2. ASSUME NEW t \in Nat, PANIC_RATES_THRESHOLD <= t, t <= s
      PROVE  RateAt(t) \in Int /\ RateAt(s) \in Int /\ RateAt(t) <= RateAt(s)
  <2>1. after(t) \in Nat /\ after(s) \in Nat /\ after(t) <= after(s)
    BY <1>2, LineRises
  <2>2. ~ (t < PANIC_RATES_THRESHOLD) /\ ~ (s < PANIC_RATES_THRESHOLD)
    BY <1>2
  <2>3. RateAt(t) = after(t) + PANIC_BASE_RATE /\ RateAt(s) = after(s) + PANIC_BASE_RATE
    BY <2>2, RateOnLines
  <2> HIDE DEF after
  <2> QED
    BY <2>1, <2>3
<1>3. CASE PANIC_RATES_THRESHOLD <= r
  BY <1>2, <1>3
<1>4. CASE r < PANIC_RATES_THRESHOLD /\ PANIC_RATES_THRESHOLD <= s
  <2>1. RateAt(r) \in Int /\ RateAt(r) <= INTEREST_RATE_AT_PANIC
    BY <1>4, GentleLineEnds
  <2>2. /\ RateAt(PANIC_RATES_THRESHOLD) \in Int /\ RateAt(s) \in Int
        /\ RateAt(PANIC_RATES_THRESHOLD) <= RateAt(s)
    BY <1>2, <1>4
  <2> QED
    BY <2>1, <2>2
<1> QED
  BY <1>1, <1>3, <1>4

\* The more of a pool is lent out, the higher its utilisation, up to all of it.
LEMMA UtilisationRises ==
  ASSUME NEW total \in Nat \ {0}, NEW more \in 0 .. total, NEW less \in 0 .. more
  PROVE  /\ Utilisation(total, more) \in Nat /\ Utilisation(total, less) \in Nat
         /\ Utilisation(total, more) <= Utilisation(total, less)
         /\ Utilisation(total, less) <= FULL_UTILISATION
<1> DEFINE a == (total - more) * FULL_UTILISATION
           c == (total - less) * FULL_UTILISATION
           w == total * FULL_UTILISATION
<1> USE ScaleAssumption
<1>1. /\ FULL_UTILISATION * (total - more) <= FULL_UTILISATION * (total - less)
      /\ FULL_UTILISATION * (total - less) <= FULL_UTILISATION * total
  BY ProductGrows
<1>2. a \in Nat /\ c \in Nat /\ w \in Nat /\ a <= c /\ c <= w
  BY <1>1
<1> HIDE DEF a, c, w
<1>3. /\ TruncDiv(a, total) \in Nat /\ TruncDiv(c, total) \in Nat
      /\ TruncDiv(a, total) <= TruncDiv(c, total)
      /\ TruncDiv(c, total) <= TruncDiv(w, total)
  BY <1>2, TruncDivNat, TruncDivGrows
<1>4. TruncDiv(w, total) = FULL_UTILISATION
  BY TruncDivExact DEF w
<1> QED
  BY <1>3, <1>4 DEF Utilisation, a, c

\* Of two pools with the same total, the one with less available charges no
\* lower a rate, and both charge between the base rate and the highest, if the
\* steep line begins where the gentle one ends, or above, and ends at the
\* highest rate, or below, as in the source both lines do.
THEOREM RateFollowsUse ==
  ASSUME INTEREST_RATE_AT_PANIC <= RateAt(PANIC_RATES_THRESHOLD),
         RateAt(FULL_UTILISATION) <= MAX_INTEREST_RATE,
         NEW total \in Nat, NEW more \in 0 .. total, NEW less \in 0 .. more
  PROVE  /\ BASE_INTEREST_RATE <= GetInterest(total, more, 1)
         /\ GetInterest(total, more, 1) <= GetInterest(total, less, 1)
         /\ GetInterest(total, less, 1) <= MAX_INTEREST_RATE
<1> USE ScaleAssumption, RateAssumption
<1>1. CASE total = 0
  BY <1>1 DEF GetInterest
<1>2. CASE total # 0
  <2> DEFINE r == Utilisation(total, more)
             s == Utilisation(total, less)
  <2>1. r \in Nat /\ s \in Nat /\ r <= s /\ s <= FULL_UTILISATION
    BY <1>2, UtilisationRises
  <2>2. GetInterest(total, more, 1) = 1 * RateAt(r) /\ GetInterest(total, less, 1) = 1 * RateAt(s)
    BY <1>2 DEF GetInterest
  <2> HIDE DEF r, s
  <2>3. /\ RateAt(0) <= RateAt(r) /\ RateAt(r) <= RateAt(s) /\ RateAt(s) <= RateAt(FULL_UTILISATION)
        /\ RateAt(0) \in Int /\ RateAt(r) \in Int /\ RateAt(s) \in Int
        /\ RateAt(FULL_UTILISATION) \in Int
    BY <2>1, CurveRises
  <2>4. BASE_INTEREST_RATE <= RateAt(0)
    BY GentleLineEnds
  <2> QED
    BY <2>2, <2>3, <2>4
<1> QED
  BY <1>1, <1>2

=============================================================================
