------------------------------ MODULE LoanPool ------------------------------
(***************************************************************************)
(* One lending pool: contracts/loan_pool/src.  A pool is a record of the   *)
(* contract's storage together with the ledger of the one token it lends:  *)
(*                                                                         *)
(*   total, available  total_balance_tokens and available_balance_tokens   *)
(*   shares            total_balance_shares                                *)
(*   accrual, updated  the interest index and when it was last brought up  *)
(*   multiplier        the interest rate multiplier                        *)
(*   status            the pool status                                     *)
(*   positions         the shares, liabilities and collateral of each user *)
(*   tokens            who holds how many of the token (the token contract *)
(*                     is not part of the repository)                      *)
(*                                                                         *)
(* A Soroban invocation is atomic, and an error, a failed assertion or a   *)
(* panic anywhere in it undoes all of it.  So every entry point Op is a    *)
(* pair: OpOK, the condition under which it returns Ok, and Op, the record *)
(* it leaves behind.  The modules that use a pool make the steps of them.  *)
(***************************************************************************)
EXTENDS InterestRate

CONSTANTS
  NumUsers,        \* how many users there are
  SECONDS_IN_YEAR  \* 31_556_926 in the source

ASSUME UsersAssumption == NumUsers \in Nat
ASSUME YearAssumption == SECONDS_IN_YEAR \in Nat \ {0}

Users == 1 .. NumUsers

\* The accounts of a pool's token that are not users: the pool contract, the
\* loan manager contract, and the administrator.
ThePool == 0
TheManager == -1
TheAdmin == -2
Accounts == Users \cup {ThePool, TheManager, TheAdmin}

Statuses == {"Healthy", "Caution", "Restricted", "Frozen"}

Position == [shares : Int, liabilities : Int, collateral : Int]

PoolRecord ==
  [total : Int, available : Int, shares : Int, accrual : Int, updated : Nat,
   multiplier : Int, status : Statuses, positions : [Users -> Position],
   tokens : [Accounts -> Nat]]

-----------------------------------------------------------------------------
(* The token contract. *)

\* Mutant: a token contract that lets balances go negative.
CanMoveAnything(tokens, from, amount) == amount >= 0

CanMove(tokens, from, amount) == amount >= 0 /\ tokens[from] >= amount

Move(tokens, from, to, amount) ==
  [tokens EXCEPT ![from] = @ - amount, ![to] = @ + amount]

-----------------------------------------------------------------------------
(* Storage. *)

NoPosition == [shares |-> 0, liabilities |-> 0, collateral |-> 0]

Initialize(tokens, now) ==
  [total |-> 0, available |-> 0, shares |-> 0, accrual |-> DECIMAL, updated |-> now,
   multiplier |-> 1, status |-> "Healthy",
   positions |-> [u \in Users |-> NoPosition], tokens |-> tokens]

IncreasePositions(p, u, shares, liabilities, collateral) ==
  [p EXCEPT !.positions[u] = [shares      |-> @.shares + shares,
                              liabilities |-> @.liabilities + liabilities,
                              collateral  |-> @.collateral + collateral]]

CanDecreasePositions(p, u, shares, liabilities, collateral) ==
  /\ p.positions[u].shares >= shares
  /\ p.positions[u].liabilities >= liabilities
  /\ p.positions[u].collateral >= collateral

\* Mutant: the shares burned stay with the user.
DecreasePositionsButShares(p, u, shares, liabilities, collateral) ==
  IncreasePositions(p, u, 0, -liabilities, -collateral)

DecreasePositions(p, u, shares, liabilities, collateral) ==
  IncreasePositions(p, u, -shares, -liabilities, -collateral)

-----------------------------------------------------------------------------
(* Interest.  The index grows by the simple interest of the time since the *)
(* last update, at the rate the balances give now.                         *)

\* Mutant: the time of the update is not written back.
AddInterestForgettingTime(p, now) ==
  LET ratio == ((now - p.updated) * DECIMAL) \div SECONDS_IN_YEAR
      year  == TruncDiv(p.accrual * GetInterest(p.total, p.available, p.multiplier), DECIMAL)
  IN  [p EXCEPT !.accrual = @ + TruncDiv(year * ratio, DECIMAL)]

AddInterestToAccrual(p, now) ==
  LET ratio == ((now - p.updated) * DECIMAL) \div SECONDS_IN_YEAR
      year  == TruncDiv(p.accrual * GetInterest(p.total, p.available, p.multiplier), DECIMAL)
  IN  [p EXCEPT !.accrual = @ + TruncDiv(year * ratio, DECIMAL), !.updated = now]

-----------------------------------------------------------------------------
(* Lenders: deposit and withdraw. *)

\* Mutant: a share for each token, whatever a share is worth.
SharesIssuedAtPar(p, amount) == amount

SharesIssued(p, amount) ==
  IF p.total = 0 THEN amount ELSE TruncDiv(p.shares * amount, p.total)

DepositOK(p, u, amount) ==
  /\ p.status \notin {"Restricted", "Frozen"}
  /\ amount > 0
  /\ CanMove(p.tokens, u, amount)

Deposit(p, now, u, amount) ==
  LET issued == SharesIssued(p, amount)
  IN  [IncreasePositions(AddInterestToAccrual(p, now), u, issued, 0, 0) EXCEPT
         !.tokens = Move(@, u, ThePool, amount),
         !.available = @ + amount,
         !.shares = @ + issued,
         !.total = @ + amount]

SharesBurned(p, amount) == TruncDiv(amount * p.shares, p.total)

WithdrawInternalOK(p, u, amount) ==
  /\ amount <= p.available
  /\ p.total # 0
  /\ SharesBurned(p, amount) <= p.positions[u].shares
  /\ CanMove(p.tokens, ThePool, amount)

\* Mutant: what is available is not lowered.
WithdrawInternalKeepingAvailable(p, now, u, amount) ==
  LET burned == SharesBurned(p, amount)
  IN  [DecreasePositions(AddInterestToAccrual(p, now), u, burned, 0, 0) EXCEPT
         !.total = @ - amount,
         !.shares = @ - burned,
         !.tokens = Move(@, ThePool, u, amount)]

\* Mutant: the index is brought up to date after the balances have changed.
WithdrawInternalBeforeInterest(p, now, u, amount) ==
  LET burned == SharesBurned(p, amount)
  IN  AddInterestToAccrual([DecreasePositions(p, u, burned, 0, 0) EXCEPT
        !.available = @ - amount,
        !.total = @ - amount,
        !.shares = @ - burned,
        !.tokens = Move(@, ThePool, u, amount)], now)

WithdrawInternal(p, now, u, amount) ==
  LET burned == SharesBurned(p, amount)
  IN  [DecreasePositions(AddInterestToAccrual(p, now), u, burned, 0, 0) EXCEPT
         !.available = @ - amount,
         !.total = @ - amount,
         !.shares = @ - burned,
         !.tokens = Move(@, ThePool, u, amount)]

WithdrawOK(p, u, amount) ==
  /\ p.status # "Frozen"
  /\ WithdrawInternalOK(p, u, amount)

-----------------------------------------------------------------------------
(* Borrowers, through the loan manager, which authorises all but            *)
(* deposit_collateral.                                                      *)

BorrowOK(p, u, amount) ==
  /\ p.status = "Healthy"
  /\ amount < p.available
  /\ CanMove(p.tokens, ThePool, amount)

Borrow(p, now, u, amount) ==
  [IncreasePositions(AddInterestToAccrual(p, now), u, 0, amount, 0) EXCEPT
     !.available = @ - amount,
     !.tokens = Move(@, ThePool, u, amount)]

\* What deposit_collateral first pays out of the user's own shares: as much
\* of the collateral as they are worth net of liabilities, and as is there.
UserAvailableTokens(p, u) ==
  IF p.shares = 0 THEN 0
  ELSE TruncDiv(p.total * p.positions[u].shares, p.shares) - p.positions[u].liabilities

WithdrawnForCollateral(p, u, amount) ==
  Smaller(amount, Smaller(UserAvailableTokens(p, u), p.available))

AfterOwnWithdrawal(p, now, u, amount) ==
  IF WithdrawnForCollateral(p, u, amount) > 0
  THEN WithdrawInternal(p, now, u, WithdrawnForCollateral(p, u, amount))
  ELSE AddInterestToAccrual(p, now)

DepositCollateralOK(p, now, u, amount) ==
  /\ amount > 0
  /\ WithdrawnForCollateral(p, u, amount) > 0
       => WithdrawInternalOK(p, u, WithdrawnForCollateral(p, u, amount))
  /\ CanMove(AfterOwnWithdrawal(p, now, u, amount).tokens, u, amount)

DepositCollateral(p, now, u, amount) ==
  [IncreasePositions(AfterOwnWithdrawal(p, now, u, amount), u, 0, 0, amount) EXCEPT
     !.tokens = Move(@, u, ThePool, amount)]

WithdrawCollateralOK(p, u, amount) ==
  /\ amount > 0
  /\ CanMove(p.tokens, ThePool, amount)
  /\ CanDecreasePositions(p, u, 0, 0, amount)

\* Mutant: the whole collateral position goes, as repay_and_close does it with
\* the liabilities.
WithdrawCollateralClearing(p, now, u, amount) ==
  [DecreasePositions(AddInterestToAccrual(p, now), u, 0, 0, p.positions[u].collateral) EXCEPT
     !.tokens = Move(@, ThePool, u, amount)]

WithdrawCollateral(p, now, u, amount) ==
  [DecreasePositions(AddInterestToAccrual(p, now), u, 0, 0, amount) EXCEPT
     !.tokens = Move(@, ThePool, u, amount)]

IncreaseLiabilities(p, u, amount) == IncreasePositions(p, u, 0, amount, 0)

-----------------------------------------------------------------------------
(* Repayment and liquidation.  A tenth of the interest part of a payment    *)
(* goes to the loan manager contract as revenue.                            *)

\* Mutant: the interest part is not limited to the payment.
InterestPartUnlimited(amount, unpaid) == unpaid

InterestPart(amount, unpaid) == Smaller(amount, unpaid)

AdminFee(amount, unpaid) == TruncDiv(InterestPart(amount, unpaid), 10)

RepayOK(p, u, amount, unpaid) ==
  LET fee == AdminFee(amount, unpaid)
  IN  /\ p.status # "Frozen"
      /\ CanMove(p.tokens, u, amount - fee)
      /\ CanMove(Move(p.tokens, u, ThePool, amount - fee), u, fee)
      /\ CanDecreasePositions(p, u, 0, Smaller(amount - InterestPart(amount, unpaid),
                                                p.positions[u].liabilities), 0)

Repay(p, now, u, amount, unpaid) ==
  LET fee       == AdminFee(amount, unpaid)
      interest  == InterestPart(amount, unpaid)
      principal == Smaller(amount - interest, p.positions[u].liabilities)
  IN  [DecreasePositions(AddInterestToAccrual(p, now), u, 0, principal, 0) EXCEPT
         !.tokens = Move(Move(@, u, ThePool, amount - fee), u, TheManager, fee),
         !.available = @ + (amount - fee),
         !.total = @ + (interest - fee)]

\* The pool takes maxAllowed and hands back what exceeds the debt.
CollectAtClose(tokens, u, borrowed, maxAllowed, fee) ==
  Move(Move(Move(tokens, u, ThePool, maxAllowed), ThePool, TheManager, fee),
       ThePool, u, maxAllowed - borrowed)

RepayAndCloseOK(p, u, borrowed, maxAllowed, unpaid) ==
  LET fee  == AdminFee(borrowed, unpaid)
      paid == Move(p.tokens, u, ThePool, maxAllowed)
  IN  /\ p.status # "Frozen"
      /\ CanMove(p.tokens, u, maxAllowed)
      /\ CanMove(paid, ThePool, fee)
      /\ CanMove(Move(paid, ThePool, TheManager, fee), ThePool, maxAllowed - borrowed)

\* Mutant: the interest paid is not counted as the lenders'.
RepayAndCloseKeepingTotal(p, now, u, borrowed, maxAllowed, unpaid) ==
  LET fee == AdminFee(borrowed, unpaid)
  IN  [DecreasePositions(AddInterestToAccrual(p, now), u,
                         0, p.positions[u].liabilities, 0) EXCEPT
         !.tokens = CollectAtClose(@, u, borrowed, maxAllowed, fee),
         !.available = @ + (borrowed - fee)]

\* All the user's liabilities in the pool go, whatever loans they come from.
RepayAndClose(p, now, u, borrowed, maxAllowed, unpaid) ==
  LET fee == AdminFee(borrowed, unpaid)
  IN  [DecreasePositions(AddInterestToAccrual(p, now), u,
                         0, p.positions[u].liabilities, 0) EXCEPT
         !.tokens = CollectAtClose(@, u, borrowed, maxAllowed, fee),
         !.available = @ + (borrowed - fee),
         !.total = @ + (unpaid - fee)]

LiquidateOK(p, u, amount, unpaid, owner) ==
  LET fee == AdminFee(amount, unpaid)
  IN  /\ p.status # "Frozen"
      /\ CanMove(p.tokens, u, amount - fee)
      /\ CanMove(Move(p.tokens, u, ThePool, amount - fee), u, fee)
      /\ CanDecreasePositions(p, owner, 0, amount, 0)

\* Mutant: the fee is counted as available although it went to the manager.
LiquidateCountingFee(p, now, u, amount, unpaid, owner) ==
  LET fee == AdminFee(amount, unpaid)
  IN  [DecreasePositions(AddInterestToAccrual(p, now), owner, 0, amount, 0) EXCEPT
         !.tokens = Move(Move(@, u, ThePool, amount - fee), u, TheManager, fee),
         !.available = @ + amount]

\* Unlike Repay it leaves total alone, whatever part of the amount is interest.
Liquidate(p, now, u, amount, unpaid, owner) ==
  LET fee == AdminFee(amount, unpaid)
  IN  [DecreasePositions(AddInterestToAccrual(p, now), owner, 0, amount, 0) EXCEPT
         !.tokens = Move(Move(@, u, ThePool, amount - fee), u, TheManager, fee),
         !.available = @ + (amount - fee)]

LiquidateTransferCollateralOK(p, amount, owner) ==
  /\ CanMove(p.tokens, ThePool, amount)
  /\ CanDecreasePositions(p, owner, 0, 0, amount)

LiquidateTransferCollateral(p, u, amount, owner) ==
  [DecreasePositions(p, owner, 0, 0, amount) EXCEPT
     !.tokens = Move(@, ThePool, u, amount)]

=============================================================================
