------------------------ MODULE LendingSafety_proofs ------------------------
(***************************************************************************)
(* Safety properties of the protocol, for any number of users, any pools,  *)
(* any prices and any amounts: proofs about LendingSafety.                 *)
(***************************************************************************)
EXTENDS LendingBooks_proofs

\* A borrower's list of loans names exactly the live ones.
THEOREM ListsStayExact == Spec => []ListsAreExact
<1>1. Inv => ListsAreExact
  BY DEF Inv, ListsAreExact, Book!BookInv
<1> QED
  BY <1>1, ProtocolInvariant, PTL

\* A loan that was closed never comes back, in whatever order the entry points
\* of the loan manager are called.
THEOREM LoansStayClosed == Spec => ClosedStaysClosed
<1> DEFINE KeepsClosed ==
             \A u \in Users : \A n \in 1 .. nonce[u] :
               <<u, n>> \notin DOMAIN loans => <<u, n>> \notin DOMAIN loans'
<1>1. Inv /\ [Next]_vars => [KeepsClosed]_(Book!bookVars)
  <2> SUFFICES ASSUME Inv, [Next]_vars
               PROVE  KeepsClosed
    OBVIOUS
  <2>1. BookFacts!BookInv
    BY BookInvIsTheSame DEF Inv
  <2>2. [BookFacts!BookNext]_(BookFacts!bookVars)
    BY StepInv, BookNextIsTheSame
  <2> QED
    BY <2>1, <2>2, BookFacts!StepKeepsClosed
<1>2. ClosedStaysClosed <=> [][KeepsClosed]_(Book!bookVars)
  BY DEF ClosedStaysClosed, Book!ClosedStaysClosed
<1> QED
  BY <1>1, <1>2, ProtocolInvariant, PTL DEF Spec

-----------------------------------------------------------------------------
(* The pools that are in use: a loan is of deployed pools, and a pool that *)
(* is not deployed is blank.                                               *)

LoansAreOfDeployed ==
  \A id \in DOMAIN loans : loans[id].from \in deployed /\ loans[id].collateralFrom \in deployed

DeployedInv == Inv /\ UndeployedAreBlank /\ LoansAreOfDeployed

\* An entry in a deployed pool leaves the pools that are not as they were.
LEMMA EntryKeepsBlank ==
  ASSUME NEW before, NEW after, NEW D, NEW p \in D, NEW u, NEW t, NEW a, NEW s, NEW l, NEW c,
         IsPoolEntry(before, after, p, u, t, a, s, l, c)
  PROVE  \A q \in Pools \ D : after[q] = before[q]
BY DEF IsPoolEntry

\* What a loan step does to the loans and the pools that are not deployed.
LEMMA CreateLoanDeployed ==
  ASSUME DeployedInv, NEW u \in Users, NEW p \in Pools, NEW q \in Pools,
         NEW b \in BorrowAmounts, NEW c \in CollateralAmounts, CreateLoan(u, p, b, q, c)
  PROVE  /\ deployed' = deployed
         /\ LoansAreOfDeployed'
         /\ \A r \in Pools \ deployed : pool'[r] = pool[r]
<1>1. p \in deployed /\ q \in deployed /\ deployed' = deployed
  BY DEF CreateLoan, setupVars
<1>2. PICK secured \in [Pools -> PoolRecord], paidOut \in Int, burned \in Int :
        /\ IsPoolEntry(pool, secured, q, u, paidOut, paidOut, burned, 0, c)
        /\ IsPoolEntry(secured, pool', p, u, 0, -b, 0, b, 0)
  BY CreateLoanEntries DEF DeployedInv, Inv
<1>3. \A r \in Pools \ deployed : pool'[r] = pool[r]
  BY <1>1, <1>2 DEF IsPoolEntry
<1>4. PICK health, lastAccrual :
        Book!CreateEntry(u, [borrowed |-> b, from |-> p, collateral |-> c, collateralFrom |-> q,
                             health |-> health, unpaid |-> 0, lastAccrual |-> lastAccrual])
  BY DEF CreateLoan
<1> DEFINE loan == [borrowed |-> b, from |-> p, collateral |-> c, collateralFrom |-> q,
                    health |-> health, unpaid |-> 0, lastAccrual |-> lastAccrual]
<1>5. loan.from = p /\ loan.collateralFrom = q
  OBVIOUS
<1>6. Book!CreateEntry(u, loan)
  BY <1>4
<1> HIDE DEF loan
<1>7. LoansAreOfDeployed'
  BY <1>1, <1>5, <1>6 DEF LoansAreOfDeployed, DeployedInv, Book!CreateEntry
<1> QED
  BY <1>1, <1>3, <1>7

\* An entry written back with the pools it had keeps them deployed.
LEMMA WriteEntryDeployed ==
  ASSUME DeployedInv, NEW id \in DOMAIN loans, NEW loan,
         loan.from = loans[id].from, loan.collateralFrom = loans[id].collateralFrom,
         Book!WriteEntry(id, loan), deployed' = deployed
  PROVE  LoansAreOfDeployed'
BY DEF LoansAreOfDeployed, DeployedInv, Book!WriteEntry

\* add_interest
LEMMA AddInterestDeployed ==
  ASSUME DeployedInv, NEW id \in DOMAIN loans, AddInterestOK(id)
  PROVE  \A r \in Pools \ deployed : AfterInterest(id)[r] = pool[r]
<1>1. loans[id].from \in deployed
  BY DEF DeployedInv, LoansAreOfDeployed
<1>2. IsPoolEntry(pool, AfterInterest(id), loans[id].from, Owner(id),
                  0, 0, 0, LiabilityGrowth(id), 0)
  BY InterestEntries DEF DeployedInv, Inv
<1> QED
  BY <1>1, <1>2, EntryKeepsBlank

\* repay
LEMMA ManagerRepayDeployed ==
  ASSUME DeployedInv, NEW id \in DOMAIN loans, NEW a \in RepayAmounts, ManagerRepay(id, a)
  PROVE  /\ deployed' = deployed
         /\ LoansAreOfDeployed'
         /\ \A r \in Pools \ deployed : pool'[r] = pool[r]
<1>1. TypeOK /\ AddInterestOK(id) /\ loans[id].from \in deployed /\ deployed' = deployed
  BY DEF DeployedInv, Inv, LoansAreOfDeployed, ManagerRepay, ManagerRepayOK, setupVars
<1>2. PICK t, f, l : IsPoolEntry(AfterInterest(id), pool', loans[id].from, Owner(id),
                                 t, f, 0, l, 0)
  BY <1>1, ManagerRepayEntries
<1>3. \A r \in Pools \ deployed : pool'[r] = pool[r]
  BY <1>1, <1>2, AddInterestDeployed, EntryKeepsBlank
<1>4. PICK left, unpaid, health :
        Book!WriteEntry(id, [LoanWithInterest(id) EXCEPT
                               !.borrowed = left, !.unpaid = unpaid, !.health = health])
  BY DEF ManagerRepay
<1> DEFINE loan == [LoanWithInterest(id) EXCEPT
                      !.borrowed = left, !.unpaid = unpaid, !.health = health]
<1>5. loan.from = loans[id].from /\ loan.collateralFrom = loans[id].collateralFrom
  BY <1>1, LoanWithInterestType DEF LoanRecord
<1>6. Book!WriteEntry(id, loan)
  BY <1>4
<1> HIDE DEF loan
<1> QED
  BY <1>1, <1>3, <1>5, <1>6, WriteEntryDeployed

\* repay_and_close_manager
LEMMA CloseLoanDeployed ==
  ASSUME DeployedInv, NEW id \in DOMAIN loans, NEW a \in AllowedAmounts, CloseLoan(id, a)
  PROVE  /\ deployed' = deployed
         /\ LoansAreOfDeployed'
         /\ \A r \in Pools \ deployed : pool'[r] = pool[r]
<1>1. /\ TypeOK /\ AddInterestOK(id) /\ deployed' = deployed
      /\ loans[id].from \in deployed /\ loans[id].collateralFrom \in deployed
  BY DEF DeployedInv, Inv, LoansAreOfDeployed, CloseLoan, CloseLoanOK, setupVars
<1>2. PICK t, f, l, c :
        /\ IsPoolEntry(AfterInterest(id), AfterClosePayment(id, a), loans[id].from, Owner(id),
                       t, f, 0, l, 0)
        /\ IsPoolEntry(AfterClosePayment(id, a), pool', loans[id].collateralFrom, Owner(id),
                       0, 0, 0, 0, c)
  BY <1>1, CloseLoanEntries
<1>3. \A r \in Pools \ deployed : AfterClosePayment(id, a)[r] = AfterInterest(id)[r]
  BY <1>1, <1>2, EntryKeepsBlank
<1>4. \A r \in Pools \ deployed : pool'[r] = AfterClosePayment(id, a)[r]
  BY <1>1, <1>2, EntryKeepsBlank
<1>5. LoansAreOfDeployed'
  BY <1>1 DEF DeployedInv, LoansAreOfDeployed, CloseLoan, Book!DeleteEntry
<1> QED
  BY <1>1, <1>3, <1>4, <1>5, AddInterestDeployed

\* liquidate
LEMMA LiquidateLoanDeployed ==
  ASSUME DeployedInv, NEW u \in Users, NEW id \in DOMAIN loans, NEW a \in LiquidateAmounts,
         LiquidateLoan(u, id, a)
  PROVE  /\ deployed' = deployed
         /\ LoansAreOfDeployed'
         /\ \A r \in Pools \ deployed : pool'[r] = pool[r]
<1>1. /\ TypeOK /\ AddInterestOK(id) /\ deployed' = deployed
      /\ loans[id].from \in deployed /\ loans[id].collateralFrom \in deployed
  BY DEF DeployedInv, Inv, LoansAreOfDeployed, LiquidateLoan, LiquidateLoanOK, setupVars
<1>2. PICK f, l, c :
        /\ IsPoolEntry(AfterInterest(id), AfterLiquidationPayment(u, id, a),
                       loans[id].from, Owner(id), 0, f, 0, l, 0)
        /\ IsPoolEntry(AfterLiquidationPayment(u, id, a), pool',
                       loans[id].collateralFrom, Owner(id), 0, 0, 0, 0, c)
  BY <1>1, LiquidateLoanEntries
<1>3. \A r \in Pools \ deployed :
        AfterLiquidationPayment(u, id, a)[r] = AfterInterest(id)[r]
  BY <1>1, <1>2, EntryKeepsBlank
<1>4. \A r \in Pools \ deployed : pool'[r] = AfterLiquidationPayment(u, id, a)[r]
  BY <1>1, <1>2, EntryKeepsBlank
<1>5. LoansAreOfDeployed'
  <2>1. /\ LiquidatedLoan(id, a).from = loans[id].from
        /\ LiquidatedLoan(id, a).collateralFrom = loans[id].collateralFrom
    BY <1>1, LoanWithInterestType DEF LiquidatedLoan, LoanRecord
  <2>2. Book!WriteEntry(id, LiquidatedLoan(id, a))
    BY DEF LiquidateLoan
  <2> QED
    BY <1>1, <2>1, <2>2, WriteEntryDeployed
<1> QED
  BY <1>1, <1>3, <1>4, <1>5, AddInterestDeployed

\* Every step keeps the loans in deployed pools, and the others blank.
LEMMA DeployedStep == DeployedInv /\ [Next]_vars => DeployedInv'
<1> SUFFICES ASSUME DeployedInv, [Next]_vars
             PROVE  DeployedInv'
  OBVIOUS
<1>1. TypeOK /\ Inv'
  BY StepInv DEF DeployedInv, Inv
<1>2. CASE QuietStep
  <2>1. LoansAreOfDeployed'
    BY <1>2 DEF QuietStep, DeployedInv, LoansAreOfDeployed
  <2>2. UndeployedAreBlank'
    BY <1>2 DEF QuietStep, SameBooks, HasSameBooks, DeployedInv, UndeployedAreBlank, IsBlank
  <2> QED
    BY <1>1, <2>1, <2>2 DEF DeployedInv
<1>3. CASE LenderStep
  <2>1. LoansAreOfDeployed' /\ deployed' = deployed
    BY <1>3 DEF LenderStep, DeployedInv, LoansAreOfDeployed
  <2>2. \A r \in Pools \ deployed : pool'[r] = pool[r]
    BY <1>3 DEF LenderStep, IsPoolEntry
  <2>3. UndeployedAreBlank'
    BY <2>1, <2>2 DEF DeployedInv, UndeployedAreBlank
  <2> QED
    BY <1>1, <2>1, <2>3 DEF DeployedInv
<1>4. CASE LoanStep
  <2>1. ASSUME NEW id \in DOMAIN loans, AddInterest(id)
        PROVE  /\ deployed' = deployed
               /\ LoansAreOfDeployed'
               /\ \A r \in Pools \ deployed : pool'[r] = pool[r]
    <3>1. /\ AddInterestOK(id) /\ pool' = AfterInterest(id) /\ deployed' = deployed
          /\ Book!WriteEntry(id, LoanWithInterest(id))
      BY <2>1 DEF AddInterest, setupVars
    <3> QED
      BY <1>1, <3>1, AddInterestDeployed, LoanWithInterestType, WriteEntryDeployed
  <2>2. /\ deployed' = deployed
        /\ LoansAreOfDeployed'
        /\ \A r \in Pools \ deployed : pool'[r] = pool[r]
    BY <1>4, <2>1, CreateLoanDeployed, ManagerRepayDeployed, CloseLoanDeployed,
       LiquidateLoanDeployed DEF LoanStep
  <2>3. UndeployedAreBlank'
    BY <2>2 DEF DeployedInv, UndeployedAreBlank
  <2> QED
    BY <1>1, <2>2, <2>3 DEF DeployedInv
<1> QED
  BY <1>1, <1>2, <1>3, <1>4, StepKinds DEF DeployedInv

\* At the start no pool is deployed and there are no loans.
LEMMA DeployedInit == Init => DeployedInv
<1> SUFFICES ASSUME Init
             PROVE  DeployedInv
  OBVIOUS
<1>1. ASSUME NEW p \in Pools
      PROVE  IsBlank(pool[p])
  <2>1. ThePool \in Accounts /\ ThePool \notin Users
    BY UsersAreNotContracts, AccountsOfTheToken
  <2> QED
    BY <2>1 DEF Init, Initialize, IsBlank
<1> QED
  BY <1>1, InitInv DEF Init, Book!BookInit, DeployedInv, UndeployedAreBlank, LoansAreOfDeployed

-----------------------------------------------------------------------------
(* The balance of each pool: every entry keeps it, so every action does,   *)
(* however many entries it makes.                                          *)

SharesHeld(r) == OverUsers([u \in Users |-> r.positions[u].shares])
CollateralHeld(r) == OverUsers([u \in Users |-> r.positions[u].collateral])

IsBalanced(r) ==
  /\ SharesHeld(r) = r.shares
  /\ r.tokens[ThePool] = r.available + CollateralHeld(r)

AllBalanced(pools) == \A p \in Pools : IsBalanced(pools[p])

\* The two invariants are the two halves of it.
LEMMA BalanceIsBoth == AllBalanced(pool) <=> SharesBacked /\ Custody
BY DEF AllBalanced, IsBalanced, SharesBacked, Custody, SharesHeld, CollateralHeld

\* An entry changes the sums over the users by what it changes its user's by.
LEMMA EntryChangesSums ==
  ASSUME NEW r \in PoolRecord, NEW s \in PoolRecord, NEW u \in Users,
         NEW t, NEW a, NEW h, NEW l, NEW c, IsEntry(r, s, u, t, a, h, l, c)
  PROVE  /\ SharesHeld(s) = SharesHeld(r) + (s.positions[u].shares - r.positions[u].shares)
         /\ CollateralHeld(s) =
              CollateralHeld(r) + (s.positions[u].collateral - r.positions[u].collateral)
         /\ SharesHeld(r) \in Int /\ CollateralHeld(r) \in Int
<1> DEFINE f1 == [w \in Users |-> r.positions[w].shares]
           g1 == [w \in Users |-> s.positions[w].shares]
           f2 == [w \in Users |-> r.positions[w].collateral]
           g2 == [w \in Users |-> s.positions[w].collateral]
<1>1. NumUsers \in Nat /\ Users = 1 .. NumUsers
  BY UsersAssumption DEF Users
<1>2. /\ \A w \in Users : f1[w] \in Int /\ f2[w] \in Int
      /\ g1[u] \in Int /\ g2[u] \in Int
  BY DEF PoolRecord, Position
<1>3. \A w \in Users : w # u => g1[w] = f1[w] /\ g2[w] = f2[w]
  BY DEF IsEntry
<1>4. /\ g1[u] - f1[u] = s.positions[u].shares - r.positions[u].shares
      /\ g2[u] - f2[u] = s.positions[u].collateral - r.positions[u].collateral
  OBVIOUS
<1>5. /\ SharesHeld(r) = SumTo(f1, NumUsers) /\ SharesHeld(s) = SumTo(g1, NumUsers)
      /\ CollateralHeld(r) = SumTo(f2, NumUsers) /\ CollateralHeld(s) = SumTo(g2, NumUsers)
  BY DEF SharesHeld, CollateralHeld, OverUsers
<1> HIDE DEF f1, g1, f2, g2
<1>6. /\ SumTo(g1, NumUsers) = SumTo(f1, NumUsers) + (g1[u] - f1[u])
      /\ SumTo(g2, NumUsers) = SumTo(f2, NumUsers) + (g2[u] - f2[u])
  BY <1>1, <1>2, <1>3, SumChange
<1>7. SumTo(f1, NumUsers) \in Int /\ SumTo(f2, NumUsers) \in Int
  BY <1>1, <1>2, SumInt
<1> QED
  BY <1>4, <1>5, <1>6, <1>7

\* An entry keeps a balanced record balanced.
LEMMA EntryKeepsBalance ==
  ASSUME NEW r \in PoolRecord, NEW s \in PoolRecord, NEW u \in Users,
         NEW t \in Int, NEW a \in Int, NEW h \in Int, NEW l \in Int, NEW c \in Int,
         IsEntry(r, s, u, t, a, h, l, c), IsBalanced(r)
  PROVE  IsBalanced(s)
<1>1. /\ SharesHeld(s) = SharesHeld(r) + (s.positions[u].shares - r.positions[u].shares)
      /\ CollateralHeld(s) =
           CollateralHeld(r) + (s.positions[u].collateral - r.positions[u].collateral)
      /\ SharesHeld(r) \in Int /\ CollateralHeld(r) \in Int
  BY EntryChangesSums
<1>2. /\ s.positions[u].shares = r.positions[u].shares + h
      /\ s.positions[u].collateral = r.positions[u].collateral + c
      /\ s.shares = r.shares + h /\ s.available = r.available + a
      /\ s.tokens[ThePool] = r.tokens[ThePool] + (a + c)
  BY DEF IsEntry
<1>3. /\ r.positions[u].shares \in Int /\ r.positions[u].collateral \in Int
      /\ r.shares \in Int /\ r.available \in Int /\ r.tokens[ThePool] \in Int
  BY AccountsOfTheToken DEF PoolRecord, Position
<1>4. SharesHeld(r) = r.shares /\ r.tokens[ThePool] = r.available + CollateralHeld(r)
  BY DEF IsBalanced
<1>5. SharesHeld(s) = s.shares
  BY <1>1, <1>2, <1>3, <1>4
<1>6. s.tokens[ThePool] = s.available + CollateralHeld(s)
  BY <1>1, <1>2, <1>3, <1>4
<1> QED
  BY <1>5, <1>6 DEF IsBalanced

\* And so does an entry in one of the pools for all of them.
LEMMA PoolEntryKeepsBalance ==
  ASSUME NEW before \in [Pools -> PoolRecord], NEW after, NEW p \in Pools, NEW u \in Users,
         NEW t \in Int, NEW a \in Int, NEW h \in Int, NEW l \in Int, NEW c \in Int,
         IsPoolEntry(before, after, p, u, t, a, h, l, c), AllBalanced(before)
  PROVE  AllBalanced(after)
<1>1. /\ IsEntry(before[p], after[p], u, t, a, h, l, c)
      /\ after[p] \in PoolRecord /\ before[p] \in PoolRecord
      /\ \A q \in Pools \ {p} : after[q] = before[q]
  BY DEF IsPoolEntry
<1>2. IsBalanced(before[p]) /\ \A q \in Pools \ {p} : IsBalanced(before[q])
  BY DEF AllBalanced
<1>3. IsBalanced(after[p])
  BY <1>1, <1>2, EntryKeepsBalance
<1>4. \A q \in Pools \ {p} : IsBalanced(after[q])
  BY <1>1, <1>2
<1> QED
  BY <1>3, <1>4 DEF AllBalanced

\* So does a step that leaves the books as they are.
LEMMA SameBooksKeepBalance ==
  ASSUME NEW before, NEW after, SameBooks(before, after), AllBalanced(before)
  PROVE  AllBalanced(after)
BY DEF SameBooks, HasSameBooks, AllBalanced, IsBalanced, SharesHeld, CollateralHeld

\* add_interest keeps the balances.
LEMMA InterestKeepsBalance ==
  ASSUME TypeOK, AllBalanced(pool), NEW id \in DOMAIN loans, AddInterestOK(id)
  PROVE  AllBalanced(AfterInterest(id))
<1>1. pool \in [Pools -> PoolRecord] /\ loans[id].from \in Pools /\ Owner(id) \in Users
  BY LoansType DEF TypeOK, LoanRecord
<1>2. /\ LiabilityGrowth(id) \in Int
      /\ IsPoolEntry(pool, AfterInterest(id), loans[id].from, Owner(id),
                     0, 0, 0, LiabilityGrowth(id), 0)
  BY InterestEntries
<1> QED
  BY <1>1, <1>2, PoolEntryKeepsBalance

\* So does each action on a loan: it makes entries only.
LEMMA LoanStepKeepsBalance ==
  ASSUME TypeOK, AllBalanced(pool), LoanStep
  PROVE  AllBalanced(pool')
<1>1. ASSUME NEW u \in Users, NEW p \in Pools, NEW q \in Pools,
             NEW b \in BorrowAmounts, NEW c \in CollateralAmounts, CreateLoan(u, p, b, q, c)
      PROVE  AllBalanced(pool')
  <2> DEFINE lent == -b
  <2>1. PICK secured \in [Pools -> PoolRecord], paidOut \in Int, burned \in Int :
          /\ IsPoolEntry(pool, secured, q, u, paidOut, paidOut, burned, 0, c)
          /\ IsPoolEntry(secured, pool', p, u, 0, lent, 0, b, 0)
    BY <1>1, CreateLoanEntries
  <2>2. b \in Int /\ c \in Int /\ lent \in Int /\ pool \in [Pools -> PoolRecord]
    BY AmountsAssumption DEF TypeOK
  <2> HIDE DEF lent
  <2>3. AllBalanced(secured)
    BY <2>1, <2>2, PoolEntryKeepsBalance
  <2> QED
    BY <2>1, <2>2, <2>3, PoolEntryKeepsBalance
<1>2. ASSUME NEW id \in DOMAIN loans, AddInterest(id)
      PROVE  AllBalanced(pool')
  BY <1>2, InterestKeepsBalance DEF AddInterest
<1>3. ASSUME NEW id \in DOMAIN loans, NEW a \in RepayAmounts, ManagerRepay(id, a)
      PROVE  AllBalanced(pool')
  <2>1. PICK mid \in [Pools -> PoolRecord], t \in Int, f \in Int, l \in Int :
          /\ mid = AfterInterest(id)
          /\ IsPoolEntry(mid, pool', loans[id].from, Owner(id), t, f, 0, l, 0)
    <3> DEFINE fee       == AdminFee(a, LoanWithInterest(id).unpaid)
               interest  == InterestPart(a, LoanWithInterest(id).unpaid)
               principal == Smaller(a - interest,
                              AfterInterest(id)[loans[id].from].positions[Owner(id)].liabilities)
               t == interest - fee
               f == a - fee
               l == -principal
    <3>1. /\ fee \in Int /\ interest \in Int /\ principal \in Int
          /\ AfterInterest(id) \in [Pools -> PoolRecord]
          /\ IsPoolEntry(AfterInterest(id), pool', loans[id].from, Owner(id), t, f, 0, l, 0)
      BY <1>3, ManagerRepayEntries
    <3>2. a \in Int
      BY AmountsAssumption
    <3> HIDE DEF fee, interest, principal
    <3>3. t \in Int /\ f \in Int /\ l \in Int
      BY <3>1, <3>2
    <3> HIDE DEF t, f, l
    <3> QED
      BY <3>1, <3>3
  <2>2. AddInterestOK(id) /\ loans[id].from \in Pools /\ Owner(id) \in Users
    BY <1>3, LoansType DEF ManagerRepay, ManagerRepayOK, LoanRecord
  <2> QED
    BY <2>1, <2>2, InterestKeepsBalance, PoolEntryKeepsBalance
<1>4. ASSUME NEW id \in DOMAIN loans, NEW a \in AllowedAmounts, CloseLoan(id, a)
      PROVE  AllBalanced(pool')
  <2>1. PICK mid \in [Pools -> PoolRecord], paid \in [Pools -> PoolRecord],
             t \in Int, f \in Int, l \in Int, c \in Int :
          /\ mid = AfterInterest(id)
          /\ IsPoolEntry(mid, paid, loans[id].from, Owner(id), t, f, 0, l, 0)
          /\ IsPoolEntry(paid, pool', loans[id].collateralFrom, Owner(id), 0, 0, 0, 0, c)
    <3> DEFINE loan == LoanWithInterest(id)
               fee  == AdminFee(loan.borrowed, loan.unpaid)
               owed == AfterInterest(id)[loans[id].from].positions[Owner(id)].liabilities
               t == loan.unpaid - fee
               f == loan.borrowed - fee
               l == -owed
               c == -loans[id].collateral
    <3>1. /\ fee \in Int /\ loan.borrowed \in Int /\ loan.unpaid \in Int
          /\ owed \in Int /\ loans[id].collateral \in Int
          /\ AfterInterest(id) \in [Pools -> PoolRecord]
          /\ AfterClosePayment(id, a) \in [Pools -> PoolRecord]
          /\ IsPoolEntry(AfterInterest(id), AfterClosePayment(id, a),
                         loans[id].from, Owner(id), t, f, 0, l, 0)
          /\ IsPoolEntry(AfterClosePayment(id, a), pool',
                         loans[id].collateralFrom, Owner(id), 0, 0, 0, 0, c)
      BY <1>4, CloseLoanEntries
    <3> HIDE DEF loan, fee, owed
    <3>2. t \in Int /\ f \in Int /\ l \in Int /\ c \in Int
      BY <3>1
    <3> HIDE DEF t, f, l, c
    <3> QED
      BY <3>1, <3>2
  <2>2. /\ AddInterestOK(id) /\ Owner(id) \in Users
        /\ loans[id].from \in Pools /\ loans[id].collateralFrom \in Pools
    BY <1>4, LoansType DEF CloseLoan, CloseLoanOK, LoanRecord
  <2>3. AllBalanced(mid)
    BY <2>1, <2>2, InterestKeepsBalance
  <2>4. AllBalanced(paid)
    BY <2>1, <2>2, <2>3, PoolEntryKeepsBalance
  <2> QED
    BY <2>1, <2>2, <2>4, PoolEntryKeepsBalance
<1>5. ASSUME NEW u \in Users, NEW id \in DOMAIN loans, NEW a \in LiquidateAmounts,
             LiquidateLoan(u, id, a)
      PROVE  AllBalanced(pool')
  <2>1. PICK mid \in [Pools -> PoolRecord], paid \in [Pools -> PoolRecord],
             f \in Int, l \in Int, c \in Int :
          /\ mid = AfterInterest(id)
          /\ IsPoolEntry(mid, paid, loans[id].from, Owner(id), 0, f, 0, l, 0)
          /\ IsPoolEntry(paid, pool', loans[id].collateralFrom, Owner(id), 0, 0, 0, 0, c)
    <3> DEFINE fee    == AdminFee(a, LoanWithInterest(id).unpaid)
               seized == SeizedCollateral(loans[id].from, loans[id].collateralFrom, a)
               f == a - fee
               l == -a
               c == -seized
    <3>1. /\ fee \in Int /\ seized \in Int
          /\ AfterInterest(id) \in [Pools -> PoolRecord]
          /\ AfterLiquidationPayment(u, id, a) \in [Pools -> PoolRecord]
          /\ IsPoolEntry(AfterInterest(id), AfterLiquidationPayment(u, id, a),
                         loans[id].from, Owner(id), 0, f, 0, l, 0)
          /\ IsPoolEntry(AfterLiquidationPayment(u, id, a), pool',
                         loans[id].collateralFrom, Owner(id), 0, 0, 0, 0, c)
      BY <1>5, LiquidateLoanEntries
    <3>2. a \in Int
      BY AmountsAssumption
    <3> HIDE DEF fee, seized
    <3>3. f \in Int /\ l \in Int /\ c \in Int
      BY <3>1, <3>2
    <3> HIDE DEF f, l, c
    <3> QED
      BY <3>1, <3>3
  <2>2. /\ AddInterestOK(id) /\ Owner(id) \in Users
        /\ loans[id].from \in Pools /\ loans[id].collateralFrom \in Pools
    BY <1>5, LoansType DEF LiquidateLoan, LiquidateLoanOK, LoanRecord
  <2>3. AllBalanced(mid)
    BY <2>1, <2>2, InterestKeepsBalance
  <2>4. AllBalanced(paid)
    BY <2>1, <2>2, <2>3, PoolEntryKeepsBalance
  <2> QED
    BY <2>1, <2>2, <2>4, PoolEntryKeepsBalance
<1> QED
  BY <1>1, <1>2, <1>3, <1>4, <1>5 DEF LoanStep

BalanceInv == DeployedInv /\ AllBalanced(pool)

\* Every step keeps every pool balanced.
LEMMA BalanceStep == BalanceInv /\ [Next]_vars => BalanceInv'
<1> SUFFICES ASSUME BalanceInv, [Next]_vars
             PROVE  BalanceInv'
  OBVIOUS
<1>1. TypeOK /\ UndeployedAreBlank /\ DeployedInv' /\ AllBalanced(pool)
  BY DeployedStep DEF BalanceInv, DeployedInv, Inv
<1>2. CASE QuietStep
  BY <1>1, <1>2, SameBooksKeepBalance DEF QuietStep, BalanceInv
<1>3. CASE LenderStep
  <2>1. PICK u \in Users, p \in deployed, paid \in Int, shares \in Int, collateral \in Int :
          IsPoolEntry(pool, pool', p, u, paid, paid, shares, 0, collateral)
    BY <1>3 DEF LenderStep
  <2>2. p \in Pools /\ pool \in [Pools -> PoolRecord]
    BY <1>1 DEF TypeOK
  <2>3. AllBalanced(pool')
    BY <1>1, <2>1, <2>2, PoolEntryKeepsBalance
  <2> QED
    BY <1>1, <2>3 DEF BalanceInv
<1>4. CASE LoanStep
  <2>1. AllBalanced(pool')
    BY <1>1, <1>4, LoanStepKeepsBalance
  <2> QED
    BY <1>1, <2>1 DEF BalanceInv
<1> QED
  BY <1>1, <1>2, <1>3, <1>4, StepKinds

\* The pools are balanced at the start: they are blank.
LEMMA BalanceInit == Init => BalanceInv
<1> SUFFICES ASSUME Init
             PROVE  BalanceInv
  OBVIOUS
<1>1. DeployedInv
  BY DeployedInit
<1>2. ASSUME NEW p \in Pools
      PROVE  IsBalanced(pool[p])
  <2>1. IsBlank(pool[p])
    BY <1>1 DEF DeployedInv, UndeployedAreBlank, Init
  <2>2. NumUsers \in Nat /\ Users = 1 .. NumUsers
    BY UsersAssumption DEF Users
  <2>3. /\ \A u \in Users : [w \in Users |-> pool[p].positions[w].shares][u] = 0
        /\ \A u \in Users : [w \in Users |-> pool[p].positions[w].collateral][u] = 0
    BY <2>1 DEF IsBlank, NoPosition
  <2>4. SharesHeld(pool[p]) = 0 /\ CollateralHeld(pool[p]) = 0
    BY <2>2, <2>3, SumOfZeros DEF SharesHeld, CollateralHeld, OverUsers
  <2> QED
    BY <2>1, <2>4 DEF IsBalanced, IsBlank
<1> QED
  BY <1>1, <1>2 DEF BalanceInv, AllBalanced

\* The pools stay balanced in every behaviour.
LEMMA PoolsStayBalanced == Spec => []BalanceInv
BY BalanceInit, BalanceStep, PTL DEF Spec

\* Custody, for any number of users and pools: a pool contract always holds
\* what it may lend and pay out and its users' collateral, to the unit.
THEOREM CustodyHolds == Spec => []Custody
<1>1. BalanceInv => Custody
  BY BalanceIsBoth DEF BalanceInv
<1> QED
  BY <1>1, PoolsStayBalanced, PTL

\* The lenders' shares always add up to the total that prices a share.
THEOREM SharesStayBacked == Spec => []SharesBacked
<1>1. BalanceInv => SharesBacked
  BY BalanceIsBoth DEF BalanceInv
<1> QED
  BY <1>1, PoolsStayBalanced, PTL

-----------------------------------------------------------------------------
(* The sums over loans, as sums over grids: a row for each user, a column  *)
(* for each nonce, and zero where there is no loan.                        *)

PrincipalAt(ls, p) ==
  [id \in Users \X Nat |->
     IF id \in DOMAIN ls /\ ls[id].from = p THEN ls[id].borrowed - ls[id].unpaid ELSE 0]

SecurityAt(ls, q) ==
  [id \in Users \X Nat |->
     IF id \in DOMAIN ls /\ ls[id].collateralFrom = q THEN ls[id].collateral ELSE 0]

DebtAt(ls, p) ==
  [id \in Users \X Nat |->
     IF id \in DOMAIN ls /\ ls[id].from = p THEN ls[id].borrowed ELSE 0]

\* The principal of a user is the sum of a row, before a step and after it.
LEMMA PrincipalIsRow ==
  ASSUME NEW p, NEW u \in Users
  PROVE  /\ nonce[u] \in Nat => PrincipalOf(u, p) = RowSum(PrincipalAt(loans, p), u, nonce[u])
         /\ nonce'[u] \in Nat
              => PrincipalOf(u, p)' = RowSum(PrincipalAt(loans', p), u, nonce'[u])
<1> DEFINE row(ls, n) ==
             [k \in 1 .. n |->
                IF <<u, k>> \in DOMAIN ls /\ ls[<<u, k>>].from = p
                THEN ls[<<u, k>>].borrowed - ls[<<u, k>>].unpaid ELSE 0]
<1>1. ASSUME NEW ls, NEW n \in Nat
      PROVE  SumTo(row(ls, n), n) = RowSum(PrincipalAt(ls, p), u, n)
  <2>1. \A k \in 1 .. n :
          row(ls, n)[k] = [j \in 1 .. n |-> PrincipalAt(ls, p)[<<u, j>>]][k]
    BY DEF PrincipalAt
  <2> HIDE DEF row
  <2> QED
    BY <2>1, SumSame DEF RowSum
<1>2. PrincipalOf(u, p) = SumTo(row(loans, nonce[u]), nonce[u])
  BY DEF PrincipalOf, OverLoansOf
<1>3. PrincipalOf(u, p)' = SumTo(row(loans', nonce'[u]), nonce'[u])
  BY DEF PrincipalOf, OverLoansOf
<1> HIDE DEF row
<1> QED
  BY <1>1, <1>2, <1>3

\* So is the security of a user,
LEMMA SecurityIsRow ==
  ASSUME NEW q, NEW u \in Users
  PROVE  /\ nonce[u] \in Nat => SecurityOf(u, q) = RowSum(SecurityAt(loans, q), u, nonce[u])
         /\ nonce'[u] \in Nat
              => SecurityOf(u, q)' = RowSum(SecurityAt(loans', q), u, nonce'[u])
<1> DEFINE row(ls, n) ==
             [k \in 1 .. n |->
                IF <<u, k>> \in DOMAIN ls /\ ls[<<u, k>>].collateralFrom = q
                THEN ls[<<u, k>>].collateral ELSE 0]
<1>1. ASSUME NEW ls, NEW n \in Nat
      PROVE  SumTo(row(ls, n), n) = RowSum(SecurityAt(ls, q), u, n)
  <2>1. \A k \in 1 .. n :
          row(ls, n)[k] = [j \in 1 .. n |-> SecurityAt(ls, q)[<<u, j>>]][k]
    BY DEF SecurityAt
  <2> HIDE DEF row
  <2> QED
    BY <2>1, SumSame DEF RowSum
<1>2. SecurityOf(u, q) = SumTo(row(loans, nonce[u]), nonce[u])
  BY DEF SecurityOf, OverLoansOf
<1>3. SecurityOf(u, q)' = SumTo(row(loans', nonce'[u]), nonce'[u])
  BY DEF SecurityOf, OverLoansOf
<1> HIDE DEF row
<1> QED
  BY <1>1, <1>2, <1>3

\* and the debt.
LEMMA DebtIsRow ==
  ASSUME NEW p, NEW u \in Users
  PROVE  /\ nonce[u] \in Nat => DebtOf(u, p) = RowSum(DebtAt(loans, p), u, nonce[u])
         /\ nonce'[u] \in Nat => DebtOf(u, p)' = RowSum(DebtAt(loans', p), u, nonce'[u])
<1> DEFINE row(ls, n) ==
             [k \in 1 .. n |->
                IF <<u, k>> \in DOMAIN ls /\ ls[<<u, k>>].from = p
                THEN ls[<<u, k>>].borrowed ELSE 0]
<1>1. ASSUME NEW ls, NEW n \in Nat
      PROVE  SumTo(row(ls, n), n) = RowSum(DebtAt(ls, p), u, n)
  <2>1. \A k \in 1 .. n :
          row(ls, n)[k] = [j \in 1 .. n |-> DebtAt(ls, p)[<<u, j>>]][k]
    BY DEF DebtAt
  <2> HIDE DEF row
  <2> QED
    BY <2>1, SumSame DEF RowSum
<1>2. DebtOf(u, p) = SumTo(row(loans, nonce[u]), nonce[u])
  BY DEF DebtOf, OverLoansOf
<1>3. DebtOf(u, p)' = SumTo(row(loans', nonce'[u]), nonce'[u])
  BY DEF DebtOf, OverLoansOf
<1> HIDE DEF row
<1> QED
  BY <1>1, <1>2, <1>3

\* The principal of a pool is the sum of the whole grid.
LEMMA PrincipalIsGrid ==
  ASSUME NEW p
  PROVE  /\ nonce \in [Users -> Nat]
              => Principal(p) = GridSum(PrincipalAt(loans, p), nonce, NumUsers)
         /\ nonce' \in [Users -> Nat]
              => Principal(p)' = GridSum(PrincipalAt(loans', p), nonce', NumUsers)
<1>1. NumUsers \in Nat /\ Users = 1 .. NumUsers
  BY UsersAssumption DEF Users
<1>2. ASSUME nonce \in [Users -> Nat]
      PROVE  Principal(p) = GridSum(PrincipalAt(loans, p), nonce, NumUsers)
  <2>1. \A u \in Users : PrincipalOf(u, p) = RowSum(PrincipalAt(loans, p), u, nonce[u])
    BY <1>2, PrincipalIsRow
  <2> QED
    BY <1>1, <2>1, SumSame DEF Principal, OverUsers, GridSum
<1>3. ASSUME nonce' \in [Users -> Nat]
      PROVE  Principal(p)' = GridSum(PrincipalAt(loans', p), nonce', NumUsers)
  <2>1. \A u \in Users : PrincipalOf(u, p)' = RowSum(PrincipalAt(loans', p), u, nonce'[u])
    BY <1>3, PrincipalIsRow
  <2> QED
    BY <1>1, <2>1, SumSame DEF Principal, OverUsers, GridSum
<1> QED
  BY <1>2, <1>3

-----------------------------------------------------------------------------
(* A step changes one loan at most: it makes it, writes it or deletes it.  *)

BookChange(u, k) ==
  /\ u \in Users /\ k \in 1 .. nonce'[u]
  /\ \A i \in Users \X Nat :
       i # <<u, k>> => /\ i \in DOMAIN loans' <=> i \in DOMAIN loans
                       /\ i \in DOMAIN loans => loans'[i] = loans[i]
  /\ \A r \in Users : r # u => nonce'[r] = nonce[r]
  /\ \/ nonce'[u] = nonce[u]
     \/ nonce'[u] = nonce[u] + 1 /\ <<u, nonce[u] + 1>> \notin DOMAIN loans

\* create_loan
LEMMA CreateIsChange ==
  ASSUME Inv, NEW u \in Users, NEW loan, Book!CreateEntry(u, loan)
  PROVE  /\ BookChange(u, nonce[u] + 1)
         /\ <<u, nonce[u] + 1>> \in DOMAIN loans' \ DOMAIN loans
         /\ loans'[<<u, nonce[u] + 1>>] = loan
<1>1. nonce \in [Users -> Nat] /\ \A i \in DOMAIN loans : i[2] \in 1 .. nonce[i[1]]
  BY DEF Inv, Book!BookInv, Book!BookTypeOK, Book!NoncesAreIssued
<1>2. <<u, nonce[u] + 1>> \notin DOMAIN loans
  BY <1>1
<1> QED
  BY <1>1, <1>2 DEF BookChange, Book!CreateEntry

\* write_loan
LEMMA WriteIsChange ==
  ASSUME Inv, NEW id \in DOMAIN loans, NEW loan, Book!WriteEntry(id, loan)
  PROVE  /\ BookChange(id[1], id[2]) /\ id = <<id[1], id[2]>>
         /\ id \in DOMAIN loans' /\ loans'[id] = loan
<1>1. /\ nonce \in [Users -> Nat]
      /\ id \in Users \X Nat /\ id[2] \in 1 .. nonce[id[1]]
      /\ DOMAIN loans \subseteq Users \X Nat
  BY DEF Inv, Book!BookInv, Book!BookTypeOK, Book!NoncesAreIssued, Book!LoanId
<1> QED
  BY <1>1 DEF BookChange, Book!WriteEntry

\* delete_loan
LEMMA DeleteIsChange ==
  ASSUME Inv, NEW id \in DOMAIN loans, Book!DeleteEntry(id)
  PROVE  /\ BookChange(id[1], id[2]) /\ id = <<id[1], id[2]>>
         /\ id \notin DOMAIN loans'
<1>1. /\ nonce \in [Users -> Nat]
      /\ id \in Users \X Nat /\ id[2] \in 1 .. nonce[id[1]]
      /\ DOMAIN loans \subseteq Users \X Nat
  BY DEF Inv, Book!BookInv, Book!BookTypeOK, Book!NoncesAreIssued, Book!LoanId
<1> QED
  BY <1>1 DEF BookChange, Book!DeleteEntry

\* Each amount of a loan is an integer, before a step and after it.
LEMMA AmountsInt ==
  ASSUME Inv, Inv', NEW p, NEW i \in Users \X Nat
  PROVE  /\ PrincipalAt(loans, p)[i] \in Int /\ PrincipalAt(loans', p)[i] \in Int
         /\ SecurityAt(loans, p)[i] \in Int /\ SecurityAt(loans', p)[i] \in Int
         /\ DebtAt(loans, p)[i] \in Int /\ DebtAt(loans', p)[i] \in Int
<1>1. /\ \A j \in DOMAIN loans : loans[j] \in LoanRecord
      /\ \A j \in DOMAIN loans' : loans'[j] \in LoanRecord
  BY DEF Inv, Book!BookInv, Book!BookTypeOK
<1>2. /\ \A j \in DOMAIN loans : /\ loans[j].borrowed \in Int /\ loans[j].unpaid \in Int
                                 /\ loans[j].collateral \in Int
      /\ \A j \in DOMAIN loans' : /\ loans'[j].borrowed \in Int /\ loans'[j].unpaid \in Int
                                  /\ loans'[j].collateral \in Int
  BY <1>1 DEF LoanRecord
<1> QED
  BY <1>2 DEF PrincipalAt, SecurityAt, DebtAt

\* Such a change is one of each of the grids.
LEMMA BookChangeIsGridChange ==
  ASSUME Inv, Inv', NEW u, NEW k, BookChange(u, k), NEW p
  PROVE  /\ IsGridChange(PrincipalAt(loans, p), nonce, PrincipalAt(loans', p), nonce',
                         NumUsers, u, k)
         /\ IsGridChange(SecurityAt(loans, p), nonce, SecurityAt(loans', p), nonce',
                         NumUsers, u, k)
         /\ IsGridChange(DebtAt(loans, p), nonce, DebtAt(loans', p), nonce',
                         NumUsers, u, k)
<1>1. Users = 1 .. NumUsers /\ nonce \in [Users -> Nat] /\ nonce' \in [Users -> Nat]
  BY DEF Users, Inv, Book!BookInv, Book!BookTypeOK
<1>2. \A r \in Users, j \in Nat :
        /\ PrincipalAt(loans, p)[<<r, j>>] \in Int /\ PrincipalAt(loans', p)[<<r, j>>] \in Int
        /\ SecurityAt(loans, p)[<<r, j>>] \in Int /\ SecurityAt(loans', p)[<<r, j>>] \in Int
        /\ DebtAt(loans, p)[<<r, j>>] \in Int /\ DebtAt(loans', p)[<<r, j>>] \in Int
  <2> SUFFICES ASSUME NEW r \in Users, NEW j \in Nat
               PROVE  /\ PrincipalAt(loans, p)[<<r, j>>] \in Int
                      /\ PrincipalAt(loans', p)[<<r, j>>] \in Int
                      /\ SecurityAt(loans, p)[<<r, j>>] \in Int
                      /\ SecurityAt(loans', p)[<<r, j>>] \in Int
                      /\ DebtAt(loans, p)[<<r, j>>] \in Int
                      /\ DebtAt(loans', p)[<<r, j>>] \in Int
    OBVIOUS
  <2>1. <<r, j>> \in Users \X Nat
    OBVIOUS
  <2> QED
    BY <2>1, AmountsInt
<1>3. \A r \in Users, j \in Nat :
        <<r, j>> # <<u, k>> =>
          /\ PrincipalAt(loans', p)[<<r, j>>] = PrincipalAt(loans, p)[<<r, j>>]
          /\ SecurityAt(loans', p)[<<r, j>>] = SecurityAt(loans, p)[<<r, j>>]
          /\ DebtAt(loans', p)[<<r, j>>] = DebtAt(loans, p)[<<r, j>>]
  BY DEF BookChange, PrincipalAt, SecurityAt, DebtAt
<1>4. \/ nonce'[u] = nonce[u]
      \/ /\ nonce'[u] = nonce[u] + 1
         /\ PrincipalAt(loans, p)[<<u, nonce[u] + 1>>] = 0
         /\ SecurityAt(loans, p)[<<u, nonce[u] + 1>>] = 0
         /\ DebtAt(loans, p)[<<u, nonce[u] + 1>>] = 0
  BY <1>1 DEF BookChange, PrincipalAt, SecurityAt, DebtAt
<1>5. u \in Users /\ k \in 1 .. nonce'[u] /\ \A r \in Users : r # u => nonce'[r] = nonce[r]
  BY DEF BookChange
<1> QED
  BY <1>1, <1>2, <1>3, <1>4, <1>5 DEF IsGridChange

-----------------------------------------------------------------------------
(* What is lent is owed. *)

LentBy(pools, r) == pools[r].total - pools[r].available

\* What pool p has lent grows by an amount; what the others have, does not.
LendsMore(before, after, p, amount) ==
  \A r \in Pools :
    /\ LentBy(before, r) \in Int
    /\ LentBy(after, r) = LentBy(before, r) + (IF r = p THEN amount ELSE 0)

\* What an entry lends is what it changes the total by, less what is available.
LEMMA EntryLends ==
  ASSUME NEW before \in [Pools -> PoolRecord], NEW after, NEW p \in Pools, NEW u,
         NEW t \in Int, NEW a \in Int, NEW h, NEW l, NEW c,
         IsPoolEntry(before, after, p, u, t, a, h, l, c)
  PROVE  LendsMore(before, after, p, t - a)
<1>1. \A r \in Pools : before[r].total \in Int /\ before[r].available \in Int
  BY DEF PoolRecord
<1>2. after[p].total = before[p].total + t /\ after[p].available = before[p].available + a
  BY DEF IsPoolEntry, IsEntry
<1>3. \A r \in Pools \ {p} : after[r] = before[r]
  BY DEF IsPoolEntry
<1> QED
  BY <1>1, <1>2, <1>3 DEF LendsMore, LentBy

\* The principal of each pool changes as the one loan that changes does.
LEMMA PrincipalChange ==
  ASSUME Inv, Inv', NEW u, NEW k, BookChange(u, k), NEW p
  PROVE  /\ Principal(p) \in Int
         /\ Principal(p)' = Principal(p) + (PrincipalAt(loans', p)[<<u, k>>]
                                              - PrincipalAt(loans, p)[<<u, k>>])
<1>1. nonce \in [Users -> Nat] /\ nonce' \in [Users -> Nat] /\ NumUsers \in Nat
  BY UsersAssumption DEF Inv, Book!BookInv, Book!BookTypeOK
<1>2. /\ Principal(p) = GridSum(PrincipalAt(loans, p), nonce, NumUsers)
      /\ Principal(p)' = GridSum(PrincipalAt(loans', p), nonce', NumUsers)
  BY <1>1, PrincipalIsGrid
<1>3. IsGridChange(PrincipalAt(loans, p), nonce, PrincipalAt(loans', p), nonce',
                   NumUsers, u, k)
  BY BookChangeIsGridChange
<1> QED
  BY <1>1, <1>2, <1>3, GridChange

\* The loans stay as they are, and so does the principal.
LEMMA PrincipalSame ==
  ASSUME Inv, UNCHANGED <<loans, nonce>>, NEW p
  PROVE  Principal(p)' = Principal(p)
<1>1. nonce \in [Users -> Nat] /\ nonce' \in [Users -> Nat]
  BY DEF Inv, Book!BookInv, Book!BookTypeOK
<1> QED
  BY <1>1, PrincipalIsGrid

\* The amounts of a loan that is brought up to date: interest does not change
\* its principal.
LEMMA GrownLoan ==
  ASSUME TypeOK, NEW id \in DOMAIN loans, AddInterestOK(id)
  PROVE  LET loan == LoanWithInterest(id)
         IN  /\ loans[id].from \in Pools /\ loans[id].collateralFrom \in Pools
             /\ loans[id].borrowed \in Int /\ loans[id].unpaid \in Int
             /\ loans[id].collateral \in Int
             /\ loan.borrowed \in Int /\ loan.unpaid \in Int
             /\ loan.borrowed - loan.unpaid = loans[id].borrowed - loans[id].unpaid
             /\ loan.borrowed - loan.unpaid \in Int
<1>1. /\ loans[id].from \in Pools /\ loans[id].collateralFrom \in Pools
      /\ loans[id].borrowed \in Int /\ loans[id].unpaid \in Int /\ loans[id].collateral \in Int
  BY LoansType DEF LoanRecord
<1>2. /\ LoanWithInterest(id).borrowed = GrownDebt(id)
      /\ LoanWithInterest(id).unpaid = loans[id].unpaid + (GrownDebt(id) - loans[id].borrowed)
  BY LoanWithInterestType
<1>3. GrownDebt(id) \in Int
  BY GrownDebtInt DEF AddInterestOK
<1> QED
  BY <1>1, <1>2, <1>3

\* create_loan
LEMMA CreateLoanLends ==
  ASSUME Inv, Inv', LentIsOwed, NEW u \in Users, NEW p \in Pools, NEW q \in Pools,
         NEW b \in BorrowAmounts, NEW c \in CollateralAmounts, CreateLoan(u, p, b, q, c)
  PROVE  LentIsOwed'
<1> DEFINE lent == -b
           k    == nonce[u] + 1
<1>1. TypeOK /\ b \in Int /\ lent \in Int /\ pool \in [Pools -> PoolRecord]
  BY AmountsAssumption DEF Inv, TypeOK
<1>2. PICK secured \in [Pools -> PoolRecord], paidOut \in Int, burned \in Int :
        /\ IsPoolEntry(pool, secured, q, u, paidOut, paidOut, burned, 0, c)
        /\ IsPoolEntry(secured, pool', p, u, 0, lent, 0, b, 0)
  BY <1>1, CreateLoanEntries
<1>3. PICK health, lastAccrual :
        Book!CreateEntry(u, [borrowed |-> b, from |-> p, collateral |-> c, collateralFrom |-> q,
                             health |-> health, unpaid |-> 0, lastAccrual |-> lastAccrual])
  BY DEF CreateLoan
<1> DEFINE loan == [borrowed |-> b, from |-> p, collateral |-> c, collateralFrom |-> q,
                    health |-> health, unpaid |-> 0, lastAccrual |-> lastAccrual]
<1>4. loan.from = p /\ loan.borrowed = b /\ loan.unpaid = 0
  OBVIOUS
<1>5. Book!CreateEntry(u, loan)
  BY <1>3
<1> HIDE DEF loan, lent
<1>6. /\ BookChange(u, k) /\ <<u, k>> \in DOMAIN loans' /\ <<u, k>> \notin DOMAIN loans
      /\ loans'[<<u, k>>] = loan /\ <<u, k>> \in Users \X Nat
  BY <1>5, CreateIsChange DEF Inv, Book!BookInv, Book!BookTypeOK
<1> HIDE DEF k
<1> SUFFICES ASSUME NEW r \in Pools
             PROVE  LentBy(pool', r) = Principal(r)' + liquidationFees'[r]
  BY DEF LentIsOwed, LentBy
<1>7. /\ LentBy(pool, r) \in Int
      /\ LentBy(pool', r) = LentBy(pool, r) + (IF r = p THEN 0 - lent ELSE 0)
  <2>1. LendsMore(pool, secured, q, paidOut - paidOut)
    BY <1>1, <1>2, EntryLends
  <2>2. LendsMore(secured, pool', p, 0 - lent)
    BY <1>1, <1>2, EntryLends
  <2> QED
    BY <2>1, <2>2 DEF LendsMore
<1>8. /\ PrincipalAt(loans, r)[<<u, k>>] = 0
      /\ PrincipalAt(loans', r)[<<u, k>>] = IF r = p THEN b ELSE 0
  BY <1>1, <1>4, <1>6 DEF PrincipalAt
<1>9. Principal(r) \in Int /\ Principal(r)' = Principal(r) + (IF r = p THEN b ELSE 0)
  BY <1>1, <1>6, <1>8, PrincipalChange
<1>10. LentBy(pool, r) = Principal(r) + liquidationFees[r] /\ liquidationFees[r] \in Int
  BY <1>1 DEF LentIsOwed, LentBy, TypeOK
<1>11. liquidationFees' = liquidationFees /\ lent = -b
  BY DEF CreateLoan, lent
<1> QED
  BY <1>1, <1>7, <1>9, <1>10, <1>11

\* A loan is written back with a principal that has changed by what its pool
\* has lent more, but for the liquidation fees.
LEMMA WriteLends ==
  ASSUME Inv, Inv', LentIsOwed, NEW id \in DOMAIN loans, NEW loan,
         Book!WriteEntry(id, loan), loan.from = loans[id].from,
         NEW d \in Int, LendsMore(pool, pool', loans[id].from, d),
         NEW f \in Int,
         \A r \in Pools :
           liquidationFees'[r] = liquidationFees[r] + (IF r = loans[id].from THEN f ELSE 0),
         loan.borrowed - loan.unpaid
           = (loans[id].borrowed - loans[id].unpaid) + (d - f),
         loans[id].borrowed - loans[id].unpaid \in Int
  PROVE  LentIsOwed'
<1> DEFINE p == loans[id].from
           old == loans[id].borrowed - loans[id].unpaid
<1>1. /\ BookChange(id[1], id[2]) /\ id = <<id[1], id[2]>>
      /\ id \in DOMAIN loans' /\ loans'[id] = loan
  BY WriteIsChange
<1>2. id \in Users \X Nat
  BY DEF Inv, Book!BookInv, Book!BookTypeOK, Book!LoanId
<1> SUFFICES ASSUME NEW r \in Pools
             PROVE  LentBy(pool', r) = Principal(r)' + liquidationFees'[r]
  BY DEF LentIsOwed, LentBy
<1>3. /\ PrincipalAt(loans, r)[id] = IF r = p THEN old ELSE 0
      /\ PrincipalAt(loans', r)[id] = IF r = p THEN old + (d - f) ELSE 0
  BY <1>1, <1>2 DEF PrincipalAt
<1>4. /\ Principal(r) \in Int
      /\ Principal(r)' = Principal(r) + (PrincipalAt(loans', r)[id] - PrincipalAt(loans, r)[id])
  BY <1>1, PrincipalChange
<1>5. old \in Int
  OBVIOUS
<1>6. LentBy(pool, r) \in Int /\ LentBy(pool', r) = LentBy(pool, r) + (IF r = p THEN d ELSE 0)
  BY DEF LendsMore
<1>7. LentBy(pool, r) = Principal(r) + liquidationFees[r] /\ liquidationFees[r] \in Int
  BY DEF LentIsOwed, LentBy, Inv, TypeOK
<1>8. liquidationFees'[r] = liquidationFees[r] + (IF r = p THEN f ELSE 0)
  OBVIOUS
<1> HIDE DEF p, old
<1>9. Principal(r)' = Principal(r) + (IF r = p THEN d - f ELSE 0)
  BY <1>3, <1>4, <1>5
<1> QED
  BY <1>4, <1>6, <1>7, <1>8, <1>9

\* add_interest
LEMMA AddInterestLends ==
  ASSUME Inv, Inv', LentIsOwed, NEW id \in DOMAIN loans, AddInterest(id)
  PROVE  LentIsOwed'
<1>1. /\ TypeOK /\ AddInterestOK(id) /\ pool' = AfterInterest(id)
      /\ Book!WriteEntry(id, LoanWithInterest(id)) /\ liquidationFees' = liquidationFees
  BY DEF Inv, AddInterest
<1>2. /\ loans[id].from \in Pools /\ pool \in [Pools -> PoolRecord]
      /\ liquidationFees \in [Pools -> Int]
  BY <1>1, GrownLoan DEF TypeOK
<1>3. LendsMore(pool, pool', loans[id].from, 0 - 0)
  BY <1>1, <1>2, InterestEntries, EntryLends
<1>4. /\ LoanWithInterest(id).borrowed - LoanWithInterest(id).unpaid
           = (loans[id].borrowed - loans[id].unpaid) + (0 - 0)
      /\ loans[id].borrowed - loans[id].unpaid \in Int
  BY <1>1, GrownLoan
<1>5. \A r \in Pools :
        liquidationFees'[r] = liquidationFees[r] + (IF r = loans[id].from THEN 0 ELSE 0)
  BY <1>1, <1>2
<1>6. LoanWithInterest(id).from = loans[id].from
  BY <1>1, LoanWithInterestType
<1>7. LendsMore(pool, pool', loans[id].from, 0)
  BY <1>3
<1> QED
  BY <1>1, <1>4, <1>5, <1>6, <1>7, WriteLends

\* Entries that lend nothing, before and after one that does.
LEMMA LendsNothingBefore ==
  ASSUME NEW before, NEW mid, NEW after, NEW p, NEW q, NEW d \in Int,
         LendsMore(before, mid, p, 0), LendsMore(mid, after, q, d)
  PROVE  LendsMore(before, after, q, d)
BY DEF LendsMore

\* And the other way round.
LEMMA LendsNothingAfter ==
  ASSUME NEW before, NEW mid, NEW after, NEW p, NEW q, NEW d \in Int,
         LendsMore(before, mid, p, d), LendsMore(mid, after, q, 0)
  PROVE  LendsMore(before, after, p, d)
BY DEF LendsMore

\* What bringing a loan up to date lends: nothing.
LEMMA InterestLendsNothing ==
  ASSUME TypeOK, NEW id \in DOMAIN loans, AddInterestOK(id)
  PROVE  LendsMore(pool, AfterInterest(id), loans[id].from, 0)
<1>1. loans[id].from \in Pools /\ pool \in [Pools -> PoolRecord]
  BY GrownLoan DEF TypeOK
<1>2. LendsMore(pool, AfterInterest(id), loans[id].from, 0 - 0)
  BY <1>1, InterestEntries, EntryLends
<1> QED
  BY <1>2

\* The interest part of a payment is what it takes off the unpaid interest.
LEMMA InterestPartIsTakenOff ==
  ASSUME NEW a \in Int, NEW unpaid \in Int
  PROVE  /\ UnpaidAfter(unpaid, a) = unpaid - InterestPart(a, unpaid)
         /\ UnpaidAfter(unpaid, a) \in Int /\ InterestPart(a, unpaid) \in Int
BY DEF UnpaidAfter, InterestPart, Smaller

\* repay
LEMMA ManagerRepayLends ==
  ASSUME Inv, Inv', LentIsOwed, NEW id \in DOMAIN loans, NEW a \in RepayAmounts,
         ManagerRepay(id, a)
  PROVE  LentIsOwed'
<1> DEFINE grown    == LoanWithInterest(id)
           p        == loans[id].from
           mid      == AfterInterest(id)
           fee      == AdminFee(a, grown.unpaid)
           interest == InterestPart(a, grown.unpaid)
           owed     == Smaller(a - interest, mid[p].positions[Owner(id)].liabilities)
           t        == interest - fee
           f        == a - fee
           taken    == -owed
           left     == grown.borrowed - a
<1>1. TypeOK /\ AddInterestOK(id) /\ a \in Int
  BY AmountsAssumption DEF Inv, ManagerRepay, ManagerRepayOK
<1>2. /\ fee \in Int /\ interest \in Int /\ mid \in [Pools -> PoolRecord]
      /\ IsPoolEntry(mid, pool', p, Owner(id), t, f, 0, taken, 0)
  BY <1>1, ManagerRepayEntries
<1>3. /\ p \in Pools /\ grown.borrowed \in Int /\ grown.unpaid \in Int
      /\ grown.borrowed - grown.unpaid = loans[id].borrowed - loans[id].unpaid
      /\ loans[id].borrowed - loans[id].unpaid \in Int
  BY <1>1, GrownLoan
<1>4. LendsMore(pool, mid, p, 0)
  BY <1>1, InterestLendsNothing
<1>5. grown \in LoanRecord /\ grown.from = p
  BY <1>1, LoanWithInterestType
<1>6. PICK health :
        Book!WriteEntry(id, [grown EXCEPT !.borrowed = left,
                                          !.unpaid = UnpaidAfter(grown.unpaid, a),
                                          !.health = health])
  BY <1>5 DEF ManagerRepay, LoanRecord
<1>7. /\ UnpaidAfter(grown.unpaid, a) = grown.unpaid - interest
      /\ UnpaidAfter(grown.unpaid, a) \in Int
  BY <1>1, <1>3, InterestPartIsTakenOff
<1>8. liquidationFees \in [Pools -> Int] /\ liquidationFees' = liquidationFees
  BY <1>1 DEF TypeOK, ManagerRepay
<1> HIDE DEF fee, interest, mid, grown
<1> DEFINE loan == [grown EXCEPT !.borrowed = left, !.unpaid = UnpaidAfter(grown.unpaid, a),
                                 !.health = health]
<1>9. loan.from = p /\ loan.borrowed = left /\ loan.unpaid = grown.unpaid - interest
  BY <1>5, <1>7 DEF LoanRecord
<1>10. Book!WriteEntry(id, loan)
  BY <1>6
<1> HIDE DEF loan, p
<1>11. t \in Int /\ f \in Int /\ t - f = interest - a
  BY <1>1, <1>2
<1> HIDE DEF t, f, taken
<1>12. LendsMore(mid, pool', p, t - f)
  BY <1>2, <1>3, <1>11, EntryLends
<1>13. LendsMore(pool, pool', p, interest - a) /\ interest - a \in Int
  BY <1>1, <1>2, <1>4, <1>11, <1>12, LendsNothingBefore
<1>14. loan.borrowed - loan.unpaid
         = (loans[id].borrowed - loans[id].unpaid) + ((interest - a) - 0)
  BY <1>1, <1>2, <1>3, <1>9
<1>15. \A r \in Pools : liquidationFees'[r] = liquidationFees[r] + (IF r = p THEN 0 ELSE 0)
  BY <1>8
<1> HIDE DEF left
<1> QED
  BY <1>3, <1>9, <1>10, <1>13, <1>14, <1>15, WriteLends DEF p

\* A loan is deleted, and its principal has come back.
LEMMA DeleteLends ==
  ASSUME Inv, Inv', LentIsOwed, NEW id \in DOMAIN loans, Book!DeleteEntry(id),
         NEW d \in Int, LendsMore(pool, pool', loans[id].from, d),
         liquidationFees' = liquidationFees,
         loans[id].borrowed - loans[id].unpaid \in Int,
         (loans[id].borrowed - loans[id].unpaid) + d = 0
  PROVE  LentIsOwed'
<1> DEFINE p == loans[id].from
           old == loans[id].borrowed - loans[id].unpaid
<1>1. BookChange(id[1], id[2]) /\ id = <<id[1], id[2]>> /\ id \notin DOMAIN loans'
  BY DeleteIsChange
<1>2. id \in Users \X Nat
  BY DEF Inv, Book!BookInv, Book!BookTypeOK, Book!LoanId
<1> SUFFICES ASSUME NEW r \in Pools
             PROVE  LentBy(pool', r) = Principal(r)' + liquidationFees'[r]
  BY DEF LentIsOwed, LentBy
<1>3. /\ PrincipalAt(loans, r)[id] = IF r = p THEN old ELSE 0
      /\ PrincipalAt(loans', r)[id] = 0
  BY <1>1, <1>2 DEF PrincipalAt
<1>4. /\ Principal(r) \in Int
      /\ Principal(r)' = Principal(r) + (PrincipalAt(loans', r)[id] - PrincipalAt(loans, r)[id])
  BY <1>1, PrincipalChange
<1>5. old \in Int /\ old + d = 0
  OBVIOUS
<1>6. LentBy(pool, r) \in Int /\ LentBy(pool', r) = LentBy(pool, r) + (IF r = p THEN d ELSE 0)
  BY DEF LendsMore
<1>7. LentBy(pool, r) = Principal(r) + liquidationFees[r] /\ liquidationFees[r] \in Int
  BY DEF LentIsOwed, LentBy, Inv, TypeOK
<1> HIDE DEF p, old
<1>8. Principal(r)' = Principal(r) + (IF r = p THEN d ELSE 0)
  BY <1>3, <1>4, <1>5
<1> QED
  BY <1>4, <1>6, <1>7, <1>8

\* repay_and_close_manager
LEMMA CloseLoanLends ==
  ASSUME Inv, Inv', LentIsOwed, NEW id \in DOMAIN loans, NEW a \in AllowedAmounts,
         CloseLoan(id, a)
  PROVE  LentIsOwed'
<1> DEFINE grown == LoanWithInterest(id)
           p     == loans[id].from
           q     == loans[id].collateralFrom
           mid   == AfterInterest(id)
           paid  == AfterClosePayment(id, a)
           fee   == AdminFee(grown.borrowed, grown.unpaid)
           t     == grown.unpaid - fee
           f     == grown.borrowed - fee
           taken == -mid[p].positions[Owner(id)].liabilities
           back  == -loans[id].collateral
           d     == grown.unpaid - grown.borrowed
<1>1. TypeOK /\ AddInterestOK(id)
  BY DEF Inv, CloseLoan, CloseLoanOK
<1>2. /\ fee \in Int
      /\ mid \in [Pools -> PoolRecord] /\ paid \in [Pools -> PoolRecord]
      /\ IsPoolEntry(mid, paid, p, Owner(id), t, f, 0, taken, 0)
      /\ IsPoolEntry(paid, pool', q, Owner(id), 0, 0, 0, 0, back)
  BY <1>1, CloseLoanEntries
<1>3. /\ p \in Pools /\ q \in Pools /\ grown.borrowed \in Int /\ grown.unpaid \in Int
      /\ grown.borrowed - grown.unpaid = loans[id].borrowed - loans[id].unpaid
      /\ loans[id].borrowed - loans[id].unpaid \in Int
  BY <1>1, GrownLoan
<1>4. LendsMore(pool, mid, p, 0)
  BY <1>1, InterestLendsNothing
<1>5. Book!DeleteEntry(id) /\ liquidationFees' = liquidationFees
  BY DEF CloseLoan
<1> HIDE DEF fee, mid, paid, grown
<1>6. t \in Int /\ f \in Int /\ d \in Int /\ t - f = d
  BY <1>2, <1>3
<1>7. (loans[id].borrowed - loans[id].unpaid) + d = 0
  BY <1>3
<1> HIDE DEF t, f, taken, back, d, p, q
<1>8. LendsMore(mid, paid, p, t - f)
  BY <1>2, <1>3, <1>6, EntryLends
<1>9. LendsMore(paid, pool', q, 0 - 0)
  BY <1>2, <1>3, EntryLends
<1>10. LendsMore(pool, paid, p, d)
  BY <1>4, <1>6, <1>8, LendsNothingBefore
<1>11. LendsMore(paid, pool', q, 0)
  BY <1>9
<1>12. LendsMore(pool, pool', p, d)
  BY <1>6, <1>10, <1>11, LendsNothingAfter
<1> QED
  BY <1>3, <1>5, <1>6, <1>7, <1>12, DeleteLends DEF p

\* liquidate
LEMMA LiquidateLoanLends ==
  ASSUME Inv, Inv', LentIsOwed, NEW u \in Users, NEW id \in DOMAIN loans,
         NEW a \in LiquidateAmounts, LiquidateLoan(u, id, a)
  PROVE  LentIsOwed'
<1> DEFINE grown == LoanWithInterest(id)
           p     == loans[id].from
           q     == loans[id].collateralFrom
           mid   == AfterInterest(id)
           paid  == AfterLiquidationPayment(u, id, a)
           fee   == AdminFee(a, grown.unpaid)
           f     == a - fee
           taken == -a
           back  == -SeizedCollateral(p, q, a)
           d     == fee - a
<1>1. TypeOK /\ AddInterestOK(id) /\ a \in Int
  BY AmountsAssumption DEF Inv, LiquidateLoan, LiquidateLoanOK
<1>2. /\ fee \in Int
      /\ mid \in [Pools -> PoolRecord] /\ paid \in [Pools -> PoolRecord]
      /\ IsPoolEntry(mid, paid, p, Owner(id), 0, f, 0, taken, 0)
      /\ IsPoolEntry(paid, pool', q, Owner(id), 0, 0, 0, 0, back)
  BY <1>1, LiquidateLoanEntries
<1>3. /\ p \in Pools /\ q \in Pools /\ grown.borrowed \in Int /\ grown.unpaid \in Int
      /\ grown.borrowed - grown.unpaid = loans[id].borrowed - loans[id].unpaid
      /\ loans[id].borrowed - loans[id].unpaid \in Int
  BY <1>1, GrownLoan
<1>4. LendsMore(pool, mid, p, 0)
  BY <1>1, InterestLendsNothing
<1>5. grown \in LoanRecord /\ grown.from = p
  BY <1>1, LoanWithInterestType
<1>6. /\ Book!WriteEntry(id, LiquidatedLoan(id, a))
      /\ liquidationFees' = [liquidationFees EXCEPT ![p] = @ + fee]
      /\ liquidationFees \in [Pools -> Int]
  BY <1>1, <1>5 DEF LiquidateLoan, TypeOK
<1>7. /\ LiquidatedLoan(id, a).from = p
      /\ LiquidatedLoan(id, a).borrowed = grown.borrowed - a
      /\ LiquidatedLoan(id, a).unpaid = grown.unpaid
  BY <1>5 DEF LiquidatedLoan, LoanRecord
<1> HIDE DEF fee, mid, paid, grown
<1>8. f \in Int /\ d \in Int /\ 0 - f = d
  BY <1>1, <1>2
<1>9. LiquidatedLoan(id, a).borrowed - LiquidatedLoan(id, a).unpaid
        = (loans[id].borrowed - loans[id].unpaid) + (d - fee)
  BY <1>1, <1>2, <1>3, <1>7
<1> HIDE DEF f, taken, back, d, p, q
<1>10. LendsMore(mid, paid, p, 0 - f)
  BY <1>2, <1>3, <1>8, EntryLends
<1>11. LendsMore(paid, pool', q, 0 - 0)
  BY <1>2, <1>3, EntryLends
<1>12. LendsMore(pool, paid, p, d)
  BY <1>4, <1>8, <1>10, LendsNothingBefore
<1>13. LendsMore(paid, pool', q, 0)
  BY <1>11
<1>14. LendsMore(pool, pool', p, d)
  BY <1>8, <1>12, <1>13, LendsNothingAfter
<1>15. \A r \in Pools : liquidationFees'[r] = liquidationFees[r] + (IF r = p THEN fee ELSE 0)
  BY <1>2, <1>3, <1>6
<1> QED
  BY <1>2, <1>3, <1>6, <1>7, <1>8, <1>9, <1>14, <1>15, WriteLends DEF p

\* Every step keeps what is lent and what is owed equal.
LEMMA LentStep == DeployedInv /\ LentIsOwed /\ [Next]_vars => LentIsOwed'
<1> SUFFICES ASSUME DeployedInv, LentIsOwed, [Next]_vars
             PROVE  LentIsOwed'
  OBVIOUS
<1>1. TypeOK /\ UndeployedAreBlank /\ Inv /\ Inv'
  BY StepInv DEF DeployedInv, Inv
<1>2. ASSUME UNCHANGED <<loans, nonce, liquidationFees>>,
             \A r \in Pools : LentBy(pool', r) = LentBy(pool, r)
      PROVE  LentIsOwed'
  BY <1>1, <1>2, PrincipalSame DEF LentIsOwed, LentBy
<1>3. CASE QuietStep
  BY <1>2, <1>3 DEF QuietStep, SameBooks, HasSameBooks, LentBy
<1>4. CASE LenderStep
  <2>1. PICK u \in Users, p \in deployed, paid \in Int, shares \in Int, collateral \in Int :
          IsPoolEntry(pool, pool', p, u, paid, paid, shares, 0, collateral)
    BY <1>4 DEF LenderStep
  <2>2. p \in Pools /\ pool \in [Pools -> PoolRecord]
    BY <1>1 DEF TypeOK
  <2>3. LendsMore(pool, pool', p, paid - paid)
    BY <2>1, <2>2, EntryLends
  <2>4. \A r \in Pools : LentBy(pool', r) = LentBy(pool, r)
    BY <2>3 DEF LendsMore
  <2> QED
    BY <1>2, <1>4, <2>4 DEF LenderStep
<1>5. CASE LoanStep
  BY <1>1, <1>5, CreateLoanLends, AddInterestLends, ManagerRepayLends, CloseLoanLends,
     LiquidateLoanLends DEF LoanStep
<1> QED
  BY <1>1, <1>3, <1>4, <1>5, StepKinds

\* At the start nothing is lent and nothing is owed.
LEMMA LentInit == Init => LentIsOwed
<1> SUFFICES ASSUME Init
             PROVE  LentIsOwed
  OBVIOUS
<1>1. DeployedInv
  BY DeployedInit
<1> SUFFICES ASSUME NEW p \in Pools
             PROVE  pool[p].total - pool[p].available = Principal(p) + liquidationFees[p]
  BY DEF LentIsOwed
<1>2. IsBlank(pool[p]) /\ liquidationFees[p] = 0
  BY <1>1 DEF DeployedInv, UndeployedAreBlank, Init
<1>3. NumUsers \in Nat /\ Users = 1 .. NumUsers
  BY UsersAssumption DEF Users
<1>4. \A u \in Users : nonce[u] = 0
  BY DEF Init, Book!BookInit
<1>5. \A u \in Users : PrincipalOf(u, p) = 0
  BY <1>4, SumOfNone DEF PrincipalOf, OverLoansOf
<1>6. Principal(p) = 0
  BY <1>3, <1>5, SumOfZeros DEF Principal, OverUsers
<1> QED
  BY <1>2, <1>6 DEF IsBlank

\* What the lenders are owed beyond what is there is exactly the principal of
\* the live loans, plus what liquidations have paid the manager: for any
\* number of loans, pools and users, and any amounts.
THEOREM LentStaysOwed == Spec => []LentIsOwed
<1>1. Init => DeployedInv /\ LentIsOwed
  BY DeployedInit, LentInit
<1>2. (DeployedInv /\ LentIsOwed) /\ [Next]_vars => (DeployedInv /\ LentIsOwed)'
  BY DeployedStep, LentStep
<1> QED
  BY <1>1, <1>2, PTL DEF Spec

-----------------------------------------------------------------------------
(* The collateral covers the loans. *)

CollateralIn(pools, r, w) == pools[r].positions[w].collateral

\* The collateral of u in pool q grows by an amount, and nobody else's does.
SecuresMore(before, after, q, u, amount) ==
  \A r \in Pools, w \in Users :
    /\ CollateralIn(before, r, w) \in Int
    /\ CollateralIn(after, r, w) =
         CollateralIn(before, r, w) + (IF r = q /\ w = u THEN amount ELSE 0)

\* An entry changes its user's collateral by what it says.
LEMMA EntrySecures ==
  ASSUME NEW before \in [Pools -> PoolRecord], NEW after, NEW q \in Pools, NEW u \in Users,
         NEW t, NEW a, NEW h, NEW l, NEW c \in Int,
         IsPoolEntry(before, after, q, u, t, a, h, l, c)
  PROVE  SecuresMore(before, after, q, u, c)
<1>1. \A r \in Pools, w \in Users : before[r].positions[w].collateral \in Int
  BY DEF PoolRecord, Position
<1>2. /\ after[q].positions[u].collateral = before[q].positions[u].collateral + c
      /\ \A w \in Users \ {u} : after[q].positions[w] = before[q].positions[w]
      /\ \A r \in Pools \ {q} : after[r] = before[r]
  BY DEF IsPoolEntry, IsEntry
<1> QED
  BY <1>1, <1>2 DEF SecuresMore, CollateralIn

\* One after the other, when the first changes no collateral, or the second.
LEMMA SecuresNothingBefore ==
  ASSUME NEW before, NEW mid, NEW after, NEW p, NEW q, NEW u, NEW d \in Int,
         SecuresMore(before, mid, p, u, 0), SecuresMore(mid, after, q, u, d)
  PROVE  SecuresMore(before, after, q, u, d)
BY DEF SecuresMore

\* The same pair in the other order.
LEMMA SecuresNothingAfter ==
  ASSUME NEW before, NEW mid, NEW after, NEW p, NEW q, NEW u, NEW d \in Int,
         SecuresMore(before, mid, p, u, d), SecuresMore(mid, after, q, u, 0)
  PROVE  SecuresMore(before, after, p, u, d)
BY DEF SecuresMore

\* The security of the user whose loan changes, changes as the loan does.
LEMMA SecurityChange ==
  ASSUME Inv, Inv', NEW u, NEW k, BookChange(u, k), NEW q, NEW w \in Users
  PROVE  /\ SecurityOf(w, q) \in Int
         /\ SecurityOf(w, q)' =
              SecurityOf(w, q) + (IF w = u THEN SecurityAt(loans', q)[<<u, k>>]
                                                  - SecurityAt(loans, q)[<<u, k>>]
                                  ELSE 0)
<1>1. nonce \in [Users -> Nat] /\ nonce' \in [Users -> Nat]
      /\ NumUsers \in Nat /\ Users = 1 .. NumUsers
  BY UsersAssumption DEF Inv, Book!BookInv, Book!BookTypeOK, Users
<1>2. /\ SecurityOf(w, q) = RowSum(SecurityAt(loans, q), w, nonce[w])
      /\ SecurityOf(w, q)' = RowSum(SecurityAt(loans', q), w, nonce'[w])
  BY <1>1, SecurityIsRow
<1> DEFINE old == SecurityAt(loans, q)
           new == SecurityAt(loans', q)
<1>3. IsGridChange(old, nonce, new, nonce', NumUsers, u, k)
  BY BookChangeIsGridChange
<1> HIDE DEF old, new
<1>4. RowsChange(old, nonce, new, nonce', NumUsers, u, k)
  BY <1>1, <1>3, GridChangeRows
<1>5. w \in 1 .. NumUsers
  BY <1>1
<1>6. /\ RowSum(old, w, nonce[w]) \in Int
      /\ RowSum(new, w, nonce'[w]) =
           RowSum(old, w, nonce[w]) + (IF w = u THEN new[<<u, k>>] - old[<<u, k>>] ELSE 0)
  BY <1>4, <1>5 DEF RowsChange
<1> QED
  BY <1>2, <1>6 DEF old, new

\* The loans stay as they are, and so does their security.
LEMMA SecuritySame ==
  ASSUME Inv, UNCHANGED <<loans, nonce>>, NEW q, NEW w \in Users
  PROVE  SecurityOf(w, q)' = SecurityOf(w, q) /\ SecurityOf(w, q) \in Int
<1>1. nonce[w] \in Nat /\ nonce'[w] \in Nat
  BY DEF Inv, Book!BookInv, Book!BookTypeOK
<1>2. /\ SecurityOf(w, q) = RowSum(SecurityAt(loans, q), w, nonce[w])
      /\ SecurityOf(w, q)' = SecurityOf(w, q)
  BY <1>1, SecurityIsRow
<1>3. \A k \in 1 .. nonce[w] : SecurityAt(loans, q)[<<w, k>>] \in Int
  <2>1. \A i \in DOMAIN loans : loans[i].collateral \in Int
    BY DEF Inv, Book!BookInv, Book!BookTypeOK, LoanRecord
  <2> QED
    BY <1>1, <2>1 DEF SecurityAt
<1> QED
  BY <1>1, <1>2, <1>3, RowInt

\* A loan is written back with its collateral changed as the borrower's is.
LEMMA WriteSecures ==
  ASSUME Inv, Inv', CollateralCoversLoans, NEW id \in DOMAIN loans, NEW loan,
         Book!WriteEntry(id, loan), loan.collateralFrom = loans[id].collateralFrom,
         NEW d \in Int, SecuresMore(pool, pool', loans[id].collateralFrom, id[1], d),
         loans[id].collateral \in Int, loan.collateral = loans[id].collateral + d
  PROVE  CollateralCoversLoans'
<1> DEFINE q   == loans[id].collateralFrom
           old == loans[id].collateral
<1>1. /\ BookChange(id[1], id[2]) /\ id = <<id[1], id[2]>>
      /\ id \in DOMAIN loans' /\ loans'[id] = loan
  BY WriteIsChange
<1>2. id \in Users \X Nat
  BY DEF Inv, Book!BookInv, Book!BookTypeOK, Book!LoanId
<1> SUFFICES ASSUME NEW w \in Users, NEW r \in Pools
             PROVE  CollateralIn(pool', r, w) >= SecurityOf(w, r)'
  BY DEF CollateralCoversLoans, CollateralIn
<1>3. /\ SecurityAt(loans, r)[id] = IF r = q THEN old ELSE 0
      /\ SecurityAt(loans', r)[id] = IF r = q THEN old + d ELSE 0
  BY <1>1, <1>2 DEF SecurityAt
<1>4. /\ SecurityOf(w, r) \in Int
      /\ SecurityOf(w, r)' =
           SecurityOf(w, r) + (IF w = id[1] THEN SecurityAt(loans', r)[id]
                                                   - SecurityAt(loans, r)[id]
                               ELSE 0)
  BY <1>1, SecurityChange
<1>5. /\ CollateralIn(pool, r, w) \in Int
      /\ CollateralIn(pool', r, w) =
           CollateralIn(pool, r, w) + (IF r = q /\ w = id[1] THEN d ELSE 0)
  BY DEF SecuresMore
<1>6. CollateralIn(pool, r, w) >= SecurityOf(w, r)
  BY DEF CollateralCoversLoans, CollateralIn
<1>7. old \in Int
  OBVIOUS
<1> HIDE DEF q, old
<1>8. SecurityOf(w, r)' = SecurityOf(w, r) + (IF r = q /\ w = id[1] THEN d ELSE 0)
  BY <1>3, <1>4, <1>7
<1> QED
  BY <1>4, <1>5, <1>6, <1>8

\* A loan is deleted, and its collateral leaves the borrower's.
LEMMA DeleteSecures ==
  ASSUME Inv, Inv', CollateralCoversLoans, NEW id \in DOMAIN loans, Book!DeleteEntry(id),
         NEW d \in Int, SecuresMore(pool, pool', loans[id].collateralFrom, id[1], d),
         loans[id].collateral \in Int, loans[id].collateral + d = 0
  PROVE  CollateralCoversLoans'
<1> DEFINE q   == loans[id].collateralFrom
           old == loans[id].collateral
<1>1. BookChange(id[1], id[2]) /\ id = <<id[1], id[2]>> /\ id \notin DOMAIN loans'
  BY DeleteIsChange
<1>2. id \in Users \X Nat
  BY DEF Inv, Book!BookInv, Book!BookTypeOK, Book!LoanId
<1> SUFFICES ASSUME NEW w \in Users, NEW r \in Pools
             PROVE  CollateralIn(pool', r, w) >= SecurityOf(w, r)'
  BY DEF CollateralCoversLoans, CollateralIn
<1>3. /\ SecurityAt(loans, r)[id] = IF r = q THEN old ELSE 0
      /\ SecurityAt(loans', r)[id] = 0
  BY <1>1, <1>2 DEF SecurityAt
<1>4. /\ SecurityOf(w, r) \in Int
      /\ SecurityOf(w, r)' =
           SecurityOf(w, r) + (IF w = id[1] THEN SecurityAt(loans', r)[id]
                                                   - SecurityAt(loans, r)[id]
                               ELSE 0)
  BY <1>1, SecurityChange
<1>5. /\ CollateralIn(pool, r, w) \in Int
      /\ CollateralIn(pool', r, w) =
           CollateralIn(pool, r, w) + (IF r = q /\ w = id[1] THEN d ELSE 0)
  BY DEF SecuresMore
<1>6. CollateralIn(pool, r, w) >= SecurityOf(w, r)
  BY DEF CollateralCoversLoans, CollateralIn
<1>7. old \in Int /\ old + d = 0
  OBVIOUS
<1> HIDE DEF q, old
<1>8. SecurityOf(w, r)' = SecurityOf(w, r) + (IF r = q /\ w = id[1] THEN d ELSE 0)
  BY <1>3, <1>4, <1>7
<1> QED
  BY <1>4, <1>5, <1>6, <1>8

\* Bringing a loan up to date changes nobody's collateral.
LEMMA InterestSecuresNothing ==
  ASSUME TypeOK, NEW id \in DOMAIN loans, AddInterestOK(id)
  PROVE  SecuresMore(pool, AfterInterest(id), loans[id].from, Owner(id), 0)
<1>1. loans[id].from \in Pools /\ pool \in [Pools -> PoolRecord] /\ Owner(id) \in Users
  BY GrownLoan, LoansType DEF TypeOK
<1>2. IsPoolEntry(pool, AfterInterest(id), loans[id].from, Owner(id),
                  0, 0, 0, LiabilityGrowth(id), 0)
  BY InterestEntries
<1> QED
  BY <1>1, <1>2, EntrySecures

\* create_loan
LEMMA CreateLoanSecures ==
  ASSUME Inv, Inv', CollateralCoversLoans, NEW u \in Users, NEW p \in Pools, NEW q \in Pools,
         NEW b \in BorrowAmounts, NEW c \in CollateralAmounts, CreateLoan(u, p, b, q, c)
  PROVE  CollateralCoversLoans'
<1> DEFINE lent == -b
           k    == nonce[u] + 1
<1>1. TypeOK /\ b \in Int /\ c \in Int /\ lent \in Int /\ pool \in [Pools -> PoolRecord]
  BY AmountsAssumption DEF Inv, TypeOK
<1>2. PICK secured \in [Pools -> PoolRecord], paidOut \in Int, burned \in Int :
        /\ IsPoolEntry(pool, secured, q, u, paidOut, paidOut, burned, 0, c)
        /\ IsPoolEntry(secured, pool', p, u, 0, lent, 0, b, 0)
  BY <1>1, CreateLoanEntries
<1>3. PICK health, lastAccrual :
        Book!CreateEntry(u, [borrowed |-> b, from |-> p, collateral |-> c, collateralFrom |-> q,
                             health |-> health, unpaid |-> 0, lastAccrual |-> lastAccrual])
  BY DEF CreateLoan
<1> DEFINE loan == [borrowed |-> b, from |-> p, collateral |-> c, collateralFrom |-> q,
                    health |-> health, unpaid |-> 0, lastAccrual |-> lastAccrual]
<1>4. loan.collateralFrom = q /\ loan.collateral = c
  OBVIOUS
<1>5. Book!CreateEntry(u, loan)
  BY <1>3
<1> HIDE DEF loan, lent
<1>6. /\ BookChange(u, k) /\ <<u, k>> \in DOMAIN loans' /\ <<u, k>> \notin DOMAIN loans
      /\ loans'[<<u, k>>] = loan /\ <<u, k>> \in Users \X Nat
  BY <1>5, CreateIsChange DEF Inv, Book!BookInv, Book!BookTypeOK
<1> HIDE DEF k
<1>7. SecuresMore(pool, secured, q, u, c) /\ SecuresMore(secured, pool', p, u, 0)
  BY <1>1, <1>2, EntrySecures
<1>8. SecuresMore(pool, pool', q, u, c)
  BY <1>1, <1>7, SecuresNothingAfter
<1> SUFFICES ASSUME NEW w \in Users, NEW r \in Pools
             PROVE  CollateralIn(pool', r, w) >= SecurityOf(w, r)'
  BY DEF CollateralCoversLoans, CollateralIn
<1>9. /\ SecurityAt(loans, r)[<<u, k>>] = 0
      /\ SecurityAt(loans', r)[<<u, k>>] = IF r = q THEN c ELSE 0
  BY <1>4, <1>6 DEF SecurityAt
<1>10. /\ SecurityOf(w, r) \in Int
       /\ SecurityOf(w, r)' = SecurityOf(w, r) + (IF w = u /\ r = q THEN c ELSE 0)
  <2>1. /\ SecurityOf(w, r) \in Int
        /\ SecurityOf(w, r)' =
             SecurityOf(w, r) + (IF w = u THEN SecurityAt(loans', r)[<<u, k>>]
                                                 - SecurityAt(loans, r)[<<u, k>>]
                                 ELSE 0)
    BY <1>6, SecurityChange
  <2> QED
    BY <1>1, <1>9, <2>1
<1>11. /\ CollateralIn(pool, r, w) \in Int
       /\ CollateralIn(pool', r, w) =
            CollateralIn(pool, r, w) + (IF r = q /\ w = u THEN c ELSE 0)
  BY <1>8 DEF SecuresMore
<1>12. CollateralIn(pool, r, w) >= SecurityOf(w, r)
  BY DEF CollateralCoversLoans, CollateralIn
<1> QED
  BY <1>1, <1>10, <1>11, <1>12

\* add_interest
LEMMA AddInterestSecures ==
  ASSUME Inv, Inv', CollateralCoversLoans, NEW id \in DOMAIN loans, AddInterest(id)
  PROVE  CollateralCoversLoans'
<1>1. /\ TypeOK /\ AddInterestOK(id) /\ pool' = AfterInterest(id)
      /\ Book!WriteEntry(id, LoanWithInterest(id))
  BY DEF Inv, AddInterest
<1>2. /\ LoanWithInterest(id).collateral = loans[id].collateral
      /\ LoanWithInterest(id).collateralFrom = loans[id].collateralFrom
      /\ loans[id].collateral \in Int
  BY <1>1, LoanWithInterestType, GrownLoan
<1>3. SecuresMore(pool, pool', loans[id].from, id[1], 0)
  BY <1>1, InterestSecuresNothing DEF Owner
<1>4. SecuresMore(pool, pool', loans[id].collateralFrom, id[1], 0)
  BY <1>3 DEF SecuresMore
<1> DEFINE loan == LoanWithInterest(id)
<1>5. /\ Book!WriteEntry(id, loan) /\ loan.collateralFrom = loans[id].collateralFrom
      /\ loan.collateral = loans[id].collateral + 0
  BY <1>1, <1>2
<1> HIDE DEF loan
<1> QED
  BY <1>2, <1>4, <1>5, WriteSecures

\* repay
LEMMA ManagerRepaySecures ==
  ASSUME Inv, Inv', CollateralCoversLoans, NEW id \in DOMAIN loans, NEW a \in RepayAmounts,
         ManagerRepay(id, a)
  PROVE  CollateralCoversLoans'
<1> DEFINE grown == LoanWithInterest(id)
           p     == loans[id].from
           mid   == AfterInterest(id)
<1>1. TypeOK /\ AddInterestOK(id)
  BY DEF Inv, ManagerRepay, ManagerRepayOK
<1>2. PICK t, f, l : /\ mid \in [Pools -> PoolRecord]
                     /\ IsPoolEntry(mid, pool', p, Owner(id), t, f, 0, l, 0)
  BY <1>1, ManagerRepayEntries
<1>3. p \in Pools /\ Owner(id) \in Users /\ loans[id].collateral \in Int
  BY <1>1, GrownLoan, LoansType
<1>4. SecuresMore(pool, mid, p, Owner(id), 0)
  BY <1>1, InterestSecuresNothing
<1>5. PICK left, unpaid, health :
        Book!WriteEntry(id, [grown EXCEPT !.borrowed = left, !.unpaid = unpaid,
                                          !.health = health])
  BY DEF ManagerRepay
<1>6. /\ grown \in LoanRecord /\ grown.collateral = loans[id].collateral
      /\ grown.collateralFrom = loans[id].collateralFrom
  BY <1>1, LoanWithInterestType
<1> HIDE DEF mid, grown
<1> DEFINE loan == [grown EXCEPT !.borrowed = left, !.unpaid = unpaid, !.health = health]
<1>7. loan.collateralFrom = loans[id].collateralFrom /\ loan.collateral = loans[id].collateral + 0
  BY <1>3, <1>6 DEF LoanRecord
<1>8. Book!WriteEntry(id, loan)
  BY <1>5
<1> HIDE DEF loan, p
<1>9. SecuresMore(mid, pool', p, Owner(id), 0)
  BY <1>2, <1>3, EntrySecures
<1>10. SecuresMore(pool, pool', p, Owner(id), 0)
  BY <1>4, <1>9, SecuresNothingBefore
<1>11. SecuresMore(pool, pool', loans[id].collateralFrom, id[1], 0)
  BY <1>10 DEF SecuresMore, Owner
<1> QED
  BY <1>3, <1>7, <1>8, <1>11, WriteSecures

\* repay_and_close_manager
LEMMA CloseLoanSecures ==
  ASSUME Inv, Inv', CollateralCoversLoans, NEW id \in DOMAIN loans, NEW a \in AllowedAmounts,
         CloseLoan(id, a)
  PROVE  CollateralCoversLoans'
<1> DEFINE p    == loans[id].from
           q    == loans[id].collateralFrom
           mid  == AfterInterest(id)
           paid == AfterClosePayment(id, a)
           back == -loans[id].collateral
<1>1. TypeOK /\ AddInterestOK(id)
  BY DEF Inv, CloseLoan, CloseLoanOK
<1>2. PICK t, f, l :
        /\ mid \in [Pools -> PoolRecord] /\ paid \in [Pools -> PoolRecord]
        /\ IsPoolEntry(mid, paid, p, Owner(id), t, f, 0, l, 0)
        /\ IsPoolEntry(paid, pool', q, Owner(id), 0, 0, 0, 0, back)
  BY <1>1, CloseLoanEntries
<1>3. p \in Pools /\ q \in Pools /\ Owner(id) \in Users /\ loans[id].collateral \in Int
  BY <1>1, GrownLoan, LoansType
<1>4. SecuresMore(pool, mid, p, Owner(id), 0)
  BY <1>1, InterestSecuresNothing
<1>5. Book!DeleteEntry(id)
  BY DEF CloseLoan
<1>6. back \in Int /\ loans[id].collateral + back = 0
  BY <1>3
<1> HIDE DEF mid, paid, back, p, q
<1>7. SecuresMore(mid, paid, p, Owner(id), 0)
  BY <1>2, <1>3, EntrySecures
<1>8. SecuresMore(paid, pool', q, Owner(id), back)
  BY <1>2, <1>3, <1>6, EntrySecures
<1>9. SecuresMore(mid, pool', q, Owner(id), back)
  BY <1>6, <1>7, <1>8, SecuresNothingBefore
<1>10. SecuresMore(pool, pool', q, Owner(id), back)
  BY <1>4, <1>6, <1>9, SecuresNothingBefore
<1> QED
  BY <1>3, <1>5, <1>6, <1>10, DeleteSecures DEF q, Owner

\* liquidate
LEMMA LiquidateLoanSecures ==
  ASSUME Inv, Inv', CollateralCoversLoans, NEW u \in Users, NEW id \in DOMAIN loans,
         NEW a \in LiquidateAmounts, LiquidateLoan(u, id, a)
  PROVE  CollateralCoversLoans'
<1> DEFINE grown  == LoanWithInterest(id)
           p      == loans[id].from
           q      == loans[id].collateralFrom
           mid    == AfterInterest(id)
           paid   == AfterLiquidationPayment(u, id, a)
           seized == SeizedCollateral(p, q, a)
           back   == -seized
<1>1. TypeOK /\ AddInterestOK(id)
  BY DEF Inv, LiquidateLoan, LiquidateLoanOK
<1>2. PICK f, l :
        /\ seized \in Int
        /\ mid \in [Pools -> PoolRecord] /\ paid \in [Pools -> PoolRecord]
        /\ IsPoolEntry(mid, paid, p, Owner(id), 0, f, 0, l, 0)
        /\ IsPoolEntry(paid, pool', q, Owner(id), 0, 0, 0, 0, back)
  BY <1>1, LiquidateLoanEntries
<1>3. p \in Pools /\ q \in Pools /\ Owner(id) \in Users /\ loans[id].collateral \in Int
  BY <1>1, GrownLoan, LoansType
<1>4. SecuresMore(pool, mid, p, Owner(id), 0)
  BY <1>1, InterestSecuresNothing
<1>5. /\ grown \in LoanRecord /\ grown.from = p /\ grown.collateralFrom = q
      /\ grown.collateral = loans[id].collateral
  BY <1>1, LoanWithInterestType
<1>6. /\ LiquidatedLoan(id, a).collateralFrom = q
      /\ LiquidatedLoan(id, a).collateral = loans[id].collateral - seized
  BY <1>5 DEF LiquidatedLoan, LoanRecord
<1>7. Book!WriteEntry(id, LiquidatedLoan(id, a))
  BY DEF LiquidateLoan
<1> HIDE DEF mid, paid, seized
<1>8. back \in Int /\ LiquidatedLoan(id, a).collateral = loans[id].collateral + back
  BY <1>2, <1>3, <1>6
<1> HIDE DEF back, p, q
<1>9. SecuresMore(mid, paid, p, Owner(id), 0)
  BY <1>2, <1>3, EntrySecures
<1>10. SecuresMore(paid, pool', q, Owner(id), back)
  BY <1>2, <1>3, <1>8, EntrySecures
<1>11. SecuresMore(mid, pool', q, Owner(id), back)
  BY <1>8, <1>9, <1>10, SecuresNothingBefore
<1>12. SecuresMore(pool, pool', q, Owner(id), back)
  BY <1>4, <1>8, <1>11, SecuresNothingBefore
<1> QED
  BY <1>3, <1>6, <1>7, <1>8, <1>12, WriteSecures DEF q, Owner

\* Every step keeps the borrowers' collateral at least that of their loans.
LEMMA SecureStep == DeployedInv /\ CollateralCoversLoans /\ [Next]_vars => CollateralCoversLoans'
<1> SUFFICES ASSUME DeployedInv, CollateralCoversLoans, [Next]_vars
             PROVE  CollateralCoversLoans'
  OBVIOUS
<1>1. TypeOK /\ UndeployedAreBlank /\ Inv /\ Inv'
  BY StepInv DEF DeployedInv, Inv
<1>2. ASSUME UNCHANGED <<loans, nonce>>,
             \A r \in Pools, w \in Users :
               /\ CollateralIn(pool, r, w) \in Int /\ CollateralIn(pool', r, w) \in Int
               /\ CollateralIn(pool', r, w) >= CollateralIn(pool, r, w)
      PROVE  CollateralCoversLoans'
  <2> SUFFICES ASSUME NEW w \in Users, NEW r \in Pools
               PROVE  CollateralIn(pool', r, w) >= SecurityOf(w, r)'
    BY DEF CollateralCoversLoans, CollateralIn
  <2>1. SecurityOf(w, r)' = SecurityOf(w, r) /\ SecurityOf(w, r) \in Int
    BY <1>1, <1>2, SecuritySame
  <2>2. CollateralIn(pool, r, w) >= SecurityOf(w, r)
    BY DEF CollateralCoversLoans, CollateralIn
  <2> QED
    BY <1>2, <2>1, <2>2
<1>3. CASE QuietStep
  <2>1. \A r \in Pools, w \in Users :
          /\ CollateralIn(pool, r, w) \in Int
          /\ CollateralIn(pool', r, w) = CollateralIn(pool, r, w)
    BY <1>1, <1>3 DEF QuietStep, SameBooks, HasSameBooks, CollateralIn, TypeOK, PoolRecord,
                      Position
  <2>2. UNCHANGED <<loans, nonce>>
    BY <1>3 DEF QuietStep
  <2> QED
    BY <1>2, <2>1, <2>2
<1>4. CASE LenderStep
  <2>1. PICK u \in Users, p \in deployed, paid \in Int, shares \in Int, collateral \in Int :
          /\ collateral >= 0
          /\ IsPoolEntry(pool, pool', p, u, paid, paid, shares, 0, collateral)
    BY <1>4 DEF LenderStep
  <2>2. p \in Pools /\ pool \in [Pools -> PoolRecord]
    BY <1>1 DEF TypeOK
  <2>3. SecuresMore(pool, pool', p, u, collateral)
    BY <2>1, <2>2, EntrySecures
  <2>4. \A r \in Pools, w \in Users :
          /\ CollateralIn(pool, r, w) \in Int /\ CollateralIn(pool', r, w) \in Int
          /\ CollateralIn(pool', r, w) >= CollateralIn(pool, r, w)
    BY <2>1, <2>3 DEF SecuresMore
  <2> QED
    BY <1>2, <1>4, <2>4 DEF LenderStep
<1>5. CASE LoanStep
  BY <1>1, <1>5, CreateLoanSecures, AddInterestSecures, ManagerRepaySecures,
     CloseLoanSecures, LiquidateLoanSecures DEF LoanStep
<1> QED
  BY <1>1, <1>3, <1>4, <1>5, StepKinds

\* At the start there is no collateral, and no loan to secure.
LEMMA SecureInit == Init => CollateralCoversLoans
<1> SUFFICES ASSUME Init
             PROVE  CollateralCoversLoans
  OBVIOUS
<1>1. DeployedInv
  BY DeployedInit
<1> SUFFICES ASSUME NEW u \in Users, NEW q \in Pools
             PROVE  pool[q].positions[u].collateral >= SecurityOf(u, q)
  BY DEF CollateralCoversLoans
<1>2. pool[q].positions[u].collateral = 0
  BY <1>1 DEF DeployedInv, UndeployedAreBlank, Init, IsBlank, NoPosition
<1>3. SecurityOf(u, q) = 0
  BY SumOfNone DEF Init, Book!BookInit, SecurityOf, OverLoansOf
<1> QED
  BY <1>2, <1>3

\* A loan can always get back what it was secured with: no closing and no
\* liquidation of a loan takes the collateral of another, however many loans
\* share a collateral pool.
THEOREM CollateralStaysCovering == Spec => []CollateralCoversLoans
<1>1. Init => DeployedInv /\ CollateralCoversLoans
  BY DeployedInit, SecureInit
<1>2. (DeployedInv /\ CollateralCoversLoans) /\ [Next]_vars
        => (DeployedInv /\ CollateralCoversLoans)'
  BY DeployedStep, SecureStep
<1> QED
  BY <1>1, <1>2, PTL DEF Spec

-----------------------------------------------------------------------------
(* Payments and fees: what the pool and the manager collect in a step that *)
(* touches a loan.                                                         *)

\* Pool p sends the manager a fee, and what it has available changes.
Collects(before, after, p, fee, available) ==
  /\ IsFee(before[p], after[p], fee)
  /\ after[p].available = before[p].available + available

\* A record in its pool's place collects what it does.
LEMMA CollectsInPlace ==
  ASSUME NEW pools \in [Pools -> PoolRecord], NEW p \in Pools, NEW record,
         NEW fee, IsFee(pools[p], record, fee)
  PROVE  IsFee(pools[p], [pools EXCEPT ![p] = record][p], fee)
OBVIOUS

\* A record with no fee, in any pool's place, is no fee for any pool.
LEMMA NoFeeInPlace ==
  ASSUME NEW pools \in [Pools -> PoolRecord], NEW p \in Pools, NEW q \in Pools, NEW record,
         IsFee(pools[q], record, 0)
  PROVE  IsFee(pools[p], [pools EXCEPT ![q] = record][p], 0)
<1>1. pools[p].tokens[TheManager] \in Int
  BY AccountsOfTheToken DEF PoolRecord
<1> QED
  BY <1>1 DEF IsFee

\* add_interest collects nothing.
LEMMA InterestCollects ==
  ASSUME TypeOK, NEW id \in DOMAIN loans, AddInterestOK(id)
  PROVE  Collects(pool, AfterInterest(id), loans[id].from, 0, 0)
<1> DEFINE p == loans[id].from
<1>1. p \in Pools /\ pool \in [Pools -> PoolRecord] /\ now \in Nat
  BY GrownLoan DEF TypeOK
<1>2. IsFee(pool[p], PoolWithInterest(id), 0)
  BY <1>1, InterestFee DEF PoolWithInterest
<1>3. AfterInterest(id) = [pool EXCEPT ![p] = PoolWithInterest(id)]
  BY DEF AfterInterest
<1>4. IsPoolEntry(pool, AfterInterest(id), p, Owner(id), 0, 0, 0, LiabilityGrowth(id), 0)
  BY InterestEntries
<1>5. AfterInterest(id)[p].available = pool[p].available + 0
  BY <1>4 DEF IsPoolEntry, IsEntry
<1>6. IsFee(pool[p], AfterInterest(id)[p], 0)
  BY <1>1, <1>2, <1>3, CollectsInPlace
<1> QED
  BY <1>5, <1>6 DEF Collects

\* One step of collecting after another that collects nothing.
LEMMA CollectsNothingBefore ==
  ASSUME NEW before \in [Pools -> PoolRecord], NEW mid, NEW after, NEW p \in Pools,
         NEW fee \in Int, NEW available \in Int,
         Collects(before, mid, p, 0, 0), Collects(mid, after, p, fee, available)
  PROVE  Collects(before, after, p, fee, available)
<1>1. before[p].tokens[TheManager] \in Int /\ before[p].available \in Int
  BY AccountsOfTheToken DEF PoolRecord
<1> QED
  BY <1>1 DEF Collects, IsFee

\* And the other way round.
LEMMA CollectsNothingAfter ==
  ASSUME NEW before \in [Pools -> PoolRecord], NEW mid, NEW after, NEW p \in Pools,
         NEW fee \in Int, NEW available \in Int,
         Collects(before, mid, p, fee, available), Collects(mid, after, p, 0, 0)
  PROVE  Collects(before, after, p, fee, available)
<1>1. before[p].tokens[TheManager] \in Int /\ before[p].available \in Int
  BY AccountsOfTheToken DEF PoolRecord
<1> QED
  BY <1>1 DEF Collects, IsFee

\* repay
LEMMA ManagerRepayCollects ==
  ASSUME TypeOK, NEW id \in DOMAIN loans, NEW a \in RepayAmounts, ManagerRepay(id, a)
  PROVE  LET fee == AdminFee(a, LoanWithInterest(id).unpaid)
         IN  fee \in Int /\ Collects(pool, pool', loans[id].from, fee, a - fee)
<1> DEFINE grown  == LoanWithInterest(id)
           p      == loans[id].from
           mid    == AfterInterest(id)
           u      == Owner(id)
           fee    == AdminFee(a, grown.unpaid)
           record == Repay(mid[p], now, u, a, grown.unpaid)
<1>1. AddInterestOK(id) /\ a \in Int /\ now \in Nat /\ pool \in [Pools -> PoolRecord]
  BY AmountsAssumption DEF ManagerRepay, ManagerRepayOK, TypeOK
<1>2. /\ p \in Pools /\ u \in Users /\ grown.unpaid \in Int /\ grown.from = p
      /\ mid \in [Pools -> PoolRecord]
  BY <1>1, GrownLoan, LoansType, LoanWithInterestType, AfterInterestType
<1>3. pool' = [mid EXCEPT ![p] = record]
  BY <1>2 DEF ManagerRepay
<1>4. PICK t, l : fee \in Int /\ IsPoolEntry(mid, pool', p, u, t, a - fee, 0, l, 0)
  BY ManagerRepayEntries
<1>5. Collects(pool, mid, p, 0, 0)
  BY <1>1, InterestCollects
<1> HIDE DEF mid, p, u, grown
<1>6. mid[p] \in PoolRecord
  BY <1>2
<1>7. IsFee(mid[p], record, fee)
  BY <1>1, <1>2, <1>6, PaymentFee
<1> HIDE DEF record, fee
<1>8. IsFee(mid[p], pool'[p], fee)
  BY <1>2, <1>3, <1>7, CollectsInPlace
<1>9. pool'[p].available = mid[p].available + (a - fee) /\ a - fee \in Int
  BY <1>1, <1>4 DEF IsPoolEntry, IsEntry
<1>10. Collects(mid, pool', p, fee, a - fee)
  BY <1>8, <1>9 DEF Collects
<1>11. Collects(pool, pool', p, fee, a - fee)
  BY <1>1, <1>2, <1>4, <1>5, <1>9, <1>10, CollectsNothingBefore
<1> QED
  BY <1>4, <1>11 DEF p, fee, grown

\* repay_and_close_manager
LEMMA CloseLoanCollects ==
  ASSUME TypeOK, NEW id \in DOMAIN loans, NEW a \in AllowedAmounts, CloseLoan(id, a)
  PROVE  LET loan == LoanWithInterest(id)
             fee  == AdminFee(loan.borrowed, loan.unpaid)
         IN  fee \in Int /\ Collects(pool, pool', loans[id].from, fee, loan.borrowed - fee)
<1> DEFINE grown  == LoanWithInterest(id)
           p      == loans[id].from
           q      == loans[id].collateralFrom
           mid    == AfterInterest(id)
           paid   == AfterClosePayment(id, a)
           u      == Owner(id)
           fee    == AdminFee(grown.borrowed, grown.unpaid)
           first  == RepayAndClose(mid[p], now, u, grown.borrowed, a, grown.unpaid)
           back   == WithdrawCollateral(paid[q], now, u, grown.collateral)
<1>1. AddInterestOK(id) /\ a \in Int /\ now \in Nat /\ pool \in [Pools -> PoolRecord]
  BY AmountsAssumption DEF CloseLoan, CloseLoanOK, TypeOK
<1>2. /\ p \in Pools /\ q \in Pools /\ u \in Users
      /\ grown.borrowed \in Int /\ grown.unpaid \in Int
      /\ grown.from = p /\ grown.collateralFrom = q /\ grown.collateral \in Int
      /\ mid \in [Pools -> PoolRecord]
  BY <1>1, GrownLoan, LoansType, LoanWithInterestType, AfterInterestType
<1>3. paid = [mid EXCEPT ![p] = first] /\ pool' = [paid EXCEPT ![q] = back]
  BY <1>2 DEF CloseLoan, AfterClosePayment
<1>4. PICK t, l, c :
        /\ fee \in Int /\ paid \in [Pools -> PoolRecord]
        /\ IsPoolEntry(mid, paid, p, u, t, grown.borrowed - fee, 0, l, 0)
        /\ IsPoolEntry(paid, pool', q, u, 0, 0, 0, 0, c)
  BY CloseLoanEntries
<1>5. Collects(pool, mid, p, 0, 0)
  BY <1>1, InterestCollects
<1> HIDE DEF mid, paid, p, q, u, grown
<1>6. mid[p] \in PoolRecord /\ paid[q] \in PoolRecord /\ paid[p] \in PoolRecord
  BY <1>2, <1>4
<1>7. IsFee(mid[p], first, fee) /\ IsFee(paid[q], back, 0)
  BY <1>1, <1>2, <1>6, CloseFee, CollateralFee
<1> HIDE DEF first, back, fee
<1>8. IsFee(mid[p], paid[p], fee)
  BY <1>2, <1>3, <1>7, CollectsInPlace
<1>9. IsFee(paid[p], pool'[p], 0)
  BY <1>2, <1>3, <1>4, <1>7, NoFeeInPlace
<1>10. /\ paid[p].available = mid[p].available + (grown.borrowed - fee)
       /\ grown.borrowed - fee \in Int
  BY <1>2, <1>4 DEF IsPoolEntry, IsEntry
<1>11. pool'[p].available = paid[p].available + 0
  <2>1. paid[p].available \in Int
    BY <1>6 DEF PoolRecord
  <2>2. pool'[q].available = paid[q].available + 0
    BY <1>4 DEF IsPoolEntry, IsEntry
  <2>3. p # q => pool'[p] = paid[p]
    BY <1>2, <1>4 DEF IsPoolEntry
  <2> QED
    BY <2>1, <2>2, <2>3
<1>12. /\ Collects(mid, paid, p, fee, grown.borrowed - fee)
       /\ Collects(paid, pool', p, 0, 0)
  BY <1>8, <1>9, <1>10, <1>11 DEF Collects
<1>13. Collects(pool, paid, p, fee, grown.borrowed - fee)
  BY <1>1, <1>2, <1>4, <1>5, <1>10, <1>12, CollectsNothingBefore
<1>14. Collects(pool, pool', p, fee, grown.borrowed - fee)
  BY <1>1, <1>2, <1>4, <1>10, <1>12, <1>13, CollectsNothingAfter
<1> QED
  BY <1>4, <1>14 DEF p, fee, grown

\* liquidate
LEMMA LiquidateLoanCollects ==
  ASSUME TypeOK, NEW w \in Users, NEW id \in DOMAIN loans, NEW a \in LiquidateAmounts,
         LiquidateLoan(w, id, a)
  PROVE  LET fee == AdminFee(a, LoanWithInterest(id).unpaid)
         IN  /\ fee \in Int /\ Collects(pool, pool', loans[id].from, fee, a - fee)
             /\ liquidationFees'[loans[id].from] = liquidationFees[loans[id].from] + fee
<1> DEFINE grown  == LoanWithInterest(id)
           p      == loans[id].from
           q      == loans[id].collateralFrom
           mid    == AfterInterest(id)
           paid   == AfterLiquidationPayment(w, id, a)
           u      == Owner(id)
           fee    == AdminFee(a, grown.unpaid)
           seized == SeizedCollateral(p, q, a)
           first  == Liquidate(mid[p], now, w, a, grown.unpaid, u)
           back   == LiquidateTransferCollateral(paid[q], w, seized, u)
<1>1. AddInterestOK(id) /\ a \in Int /\ now \in Nat /\ pool \in [Pools -> PoolRecord]
  BY AmountsAssumption DEF LiquidateLoan, LiquidateLoanOK, TypeOK
<1>2. /\ p \in Pools /\ q \in Pools /\ u \in Users /\ grown.unpaid \in Int
      /\ grown.from = p /\ grown.collateralFrom = q
      /\ mid \in [Pools -> PoolRecord]
  BY <1>1, GrownLoan, LoansType, LoanWithInterestType, AfterInterestType
<1>3. paid = [mid EXCEPT ![p] = first] /\ pool' = [paid EXCEPT ![q] = back]
  BY <1>2 DEF LiquidateLoan, AfterLiquidationPayment
<1>4. PICK l, c :
        /\ fee \in Int /\ seized \in Int /\ paid \in [Pools -> PoolRecord]
        /\ IsPoolEntry(mid, paid, p, u, 0, a - fee, 0, l, 0)
        /\ IsPoolEntry(paid, pool', q, u, 0, 0, 0, 0, c)
  BY LiquidateLoanEntries
<1>5. Collects(pool, mid, p, 0, 0)
  BY <1>1, InterestCollects
<1>6. liquidationFees'[p] = liquidationFees[p] + fee
  BY <1>2 DEF LiquidateLoan, TypeOK
<1> HIDE DEF mid, paid, p, q, u, grown, seized
<1>7. mid[p] \in PoolRecord /\ paid[q] \in PoolRecord /\ paid[p] \in PoolRecord
  BY <1>2, <1>4
<1>8. IsFee(mid[p], first, fee) /\ IsFee(paid[q], back, 0)
  BY <1>1, <1>2, <1>4, <1>7, PaymentFee, CollateralFee
<1> HIDE DEF first, back, fee
<1>9. IsFee(mid[p], paid[p], fee)
  BY <1>2, <1>3, <1>8, CollectsInPlace
<1>10. IsFee(paid[p], pool'[p], 0)
  BY <1>2, <1>3, <1>4, <1>8, NoFeeInPlace
<1>11. paid[p].available = mid[p].available + (a - fee) /\ a - fee \in Int
  BY <1>1, <1>4 DEF IsPoolEntry, IsEntry
<1>12. pool'[p].available = paid[p].available + 0
  <2>1. paid[p].available \in Int
    BY <1>7 DEF PoolRecord
  <2>2. pool'[q].available = paid[q].available + 0
    BY <1>4 DEF IsPoolEntry, IsEntry
  <2>3. p # q => pool'[p] = paid[p]
    BY <1>2, <1>4 DEF IsPoolEntry
  <2> QED
    BY <2>1, <2>2, <2>3
<1>13. Collects(mid, paid, p, fee, a - fee) /\ Collects(paid, pool', p, 0, 0)
  BY <1>9, <1>10, <1>11, <1>12 DEF Collects
<1>14. Collects(pool, paid, p, fee, a - fee)
  BY <1>1, <1>2, <1>4, <1>5, <1>11, <1>13, CollectsNothingBefore
<1>15. Collects(pool, pool', p, fee, a - fee)
  BY <1>1, <1>2, <1>4, <1>11, <1>13, <1>14, CollectsNothingAfter
<1> QED
  BY <1>4, <1>15, <1>6 DEF p, fee, grown

-----------------------------------------------------------------------------
(* What a step that touches a loan collects for it. *)

FundsIn(pools, p)  == pools[p].available + pools[p].tokens[TheManager]
DebtIn(ls, id)     == IF id \in DOMAIN ls THEN ls[id].borrowed ELSE 0
UnpaidIn(ls, id)   == IF id \in DOMAIN ls THEN ls[id].unpaid ELSE 0

IsPaidFor(id, p) ==
  FundsIn(pool', p) - FundsIn(pool, p) >= GrownDebt(id) - DebtIn(loans', id)

FeeIsRight(id, p) ==
  LET fee == pool'[p].tokens[TheManager] - pool[p].tokens[TheManager]
  IN  fee > 0 => \/ liquidationFees'[p] - liquidationFees[p] = fee
                 \/ 10 * fee <= LoanWithInterest(id).unpaid - UnpaidIn(loans', id)

PaysRightly(id) ==
  /\ IsPaidFor(id, loans[id].from) /\ FeeIsRight(id, loans[id].from)
  /\ \A j \in DOMAIN loans : j # id => ~IsTouched(j)

\* A payment goes to the pool and to the manager.
LEMMA CollectsPays ==
  ASSUME NEW before \in [Pools -> PoolRecord], NEW after, NEW p \in Pools,
         NEW fee \in Int, NEW a \in Int, Collects(before, after, p, fee, a - fee)
  PROVE  /\ FundsIn(after, p) - FundsIn(before, p) = a
         /\ after[p].tokens[TheManager] - before[p].tokens[TheManager] = fee
<1>1. before[p].tokens[TheManager] \in Int /\ before[p].available \in Int
  BY AccountsOfTheToken DEF PoolRecord
<1> QED
  BY <1>1 DEF Collects, IsFee, FundsIn

\* A fee is a tenth of the interest in a payment, at most.
LEMMA FeeIsATenth ==
  ASSUME NEW a \in Int, NEW unpaid \in Int, AdminFee(a, unpaid) > 0
  PROVE  10 * AdminFee(a, unpaid) <= InterestPart(a, unpaid)
<1> DEFINE part == InterestPart(a, unpaid)
<1>1. part \in Int
  BY InterestPartIsTakenOff
<1> HIDE DEF part
<1>2. TruncDiv(part, 10) = IF part < 0 THEN -((-part) \div 10) ELSE part \div 10
  BY <1>1 DEF TruncDiv, Magnitude
<1>3. part >= 0 => 10 * (part \div 10) <= part
  BY <1>1
<1>4. part < 0 => -((-part) \div 10) <= 0
  BY <1>1
<1>5. TruncDiv(part, 10) > 0 => 10 * TruncDiv(part, 10) <= part
  BY <1>1, <1>2, <1>3, <1>4
<1> QED
  BY <1>5 DEF AdminFee, part

\* The interest in a payment is no more than all of it.
LEMMA InterestPartIsUnpaid ==
  ASSUME NEW a \in Int, NEW unpaid \in Int
  PROVE  InterestPart(a, unpaid) <= unpaid
BY DEF InterestPart, Smaller

\* A change of one entry of the book touches no other loan.
LEMMA ChangeTouchesOne ==
  ASSUME Inv, NEW id \in DOMAIN loans, BookChange(id[1], id[2]), id = <<id[1], id[2]>>
  PROVE  \A j \in DOMAIN loans : j # id => ~IsTouched(j)
<1>1. DOMAIN loans \subseteq Users \X Nat
  BY DEF Inv, Book!BookInv, Book!BookTypeOK, Book!LoanId
<1> QED
  BY <1>1 DEF BookChange, IsTouched

\* add_interest
LEMMA AddInterestPays ==
  ASSUME Inv, NEW id \in DOMAIN loans, AddInterest(id)
  PROVE  PaysRightly(id)
<1> DEFINE p == loans[id].from
           grown == LoanWithInterest(id)
<1>1. /\ TypeOK /\ AddInterestOK(id) /\ pool' = AfterInterest(id)
      /\ Book!WriteEntry(id, grown)
  BY DEF Inv, AddInterest
<1>2. p \in Pools /\ pool \in [Pools -> PoolRecord] /\ GrownDebt(id) \in Int
  BY <1>1, GrownLoan, GrownDebtInt DEF TypeOK, AddInterestOK
<1>3. Collects(pool, pool', p, 0, 0 - 0)
  BY <1>1, InterestCollects
<1>4. /\ FundsIn(pool', p) - FundsIn(pool, p) = 0
      /\ pool'[p].tokens[TheManager] - pool[p].tokens[TheManager] = 0
  BY <1>2, <1>3, CollectsPays
<1>5. grown.borrowed = GrownDebt(id)
  BY <1>1, LoanWithInterestType
<1>6. /\ BookChange(id[1], id[2]) /\ id = <<id[1], id[2]>>
      /\ id \in DOMAIN loans' /\ loans'[id] = grown
  BY <1>1, WriteIsChange
<1>7. \A j \in DOMAIN loans : j # id => ~IsTouched(j)
  BY <1>6, ChangeTouchesOne
<1> HIDE DEF grown, p
<1>8. DebtIn(loans', id) = GrownDebt(id)
  BY <1>5, <1>6 DEF DebtIn
<1>9. IsPaidFor(id, p) /\ FeeIsRight(id, p)
  BY <1>2, <1>4, <1>8 DEF IsPaidFor, FeeIsRight
<1> QED
  BY <1>7, <1>9 DEF PaysRightly, p

\* repay
LEMMA ManagerRepayPays ==
  ASSUME Inv, NEW id \in DOMAIN loans, NEW a \in RepayAmounts, ManagerRepay(id, a)
  PROVE  PaysRightly(id)
<1> DEFINE p     == loans[id].from
           grown == LoanWithInterest(id)
           fee   == AdminFee(a, grown.unpaid)
           left  == grown.borrowed - a
<1>1. TypeOK /\ AddInterestOK(id) /\ a \in Int
  BY AmountsAssumption DEF Inv, ManagerRepay, ManagerRepayOK
<1>2. /\ p \in Pools /\ pool \in [Pools -> PoolRecord] /\ GrownDebt(id) \in Int
      /\ grown.unpaid \in Int /\ grown.borrowed = GrownDebt(id) /\ grown \in LoanRecord
  BY <1>1, GrownLoan, GrownDebtInt, LoanWithInterestType DEF TypeOK, AddInterestOK
<1>3. fee \in Int /\ Collects(pool, pool', p, fee, a - fee)
  BY <1>1, ManagerRepayCollects
<1>4. PICK health :
        Book!WriteEntry(id, [grown EXCEPT !.borrowed = left,
                                          !.unpaid = UnpaidAfter(grown.unpaid, a),
                                          !.health = health])
  BY <1>2 DEF ManagerRepay, LoanRecord
<1> HIDE DEF grown
<1> DEFINE loan == [grown EXCEPT !.borrowed = left, !.unpaid = UnpaidAfter(grown.unpaid, a),
                                 !.health = health]
<1>5. loan.borrowed = left /\ loan.unpaid = grown.unpaid - InterestPart(a, grown.unpaid)
  BY <1>1, <1>2, InterestPartIsTakenOff DEF LoanRecord
<1>6. Book!WriteEntry(id, loan)
  BY <1>4
<1> HIDE DEF loan
<1>7. /\ BookChange(id[1], id[2]) /\ id = <<id[1], id[2]>>
      /\ id \in DOMAIN loans' /\ loans'[id] = loan
  BY <1>6, WriteIsChange
<1>8. \A j \in DOMAIN loans : j # id => ~IsTouched(j)
  BY <1>7, ChangeTouchesOne
<1>9. /\ DebtIn(loans', id) = GrownDebt(id) - a
      /\ UnpaidIn(loans', id) = grown.unpaid - InterestPart(a, grown.unpaid)
  BY <1>2, <1>5, <1>7 DEF DebtIn, UnpaidIn
<1>10. fee > 0 => 10 * fee <= InterestPart(a, grown.unpaid)
  BY <1>1, <1>2, FeeIsATenth
<1>11. InterestPart(a, grown.unpaid) \in Int
  BY <1>1, <1>2, InterestPartIsTakenOff
<1> HIDE DEF p, fee, left
<1>12. /\ FundsIn(pool', p) - FundsIn(pool, p) = a
       /\ pool'[p].tokens[TheManager] - pool[p].tokens[TheManager] = fee
  BY <1>1, <1>2, <1>3, CollectsPays
<1>13. IsPaidFor(id, p)
  BY <1>1, <1>2, <1>9, <1>12 DEF IsPaidFor
<1>14. FeeIsRight(id, p)
  BY <1>2, <1>3, <1>9, <1>10, <1>11, <1>12 DEF FeeIsRight, grown
<1> QED
  BY <1>8, <1>13, <1>14 DEF PaysRightly, p

\* repay_and_close_manager
LEMMA CloseLoanPays ==
  ASSUME Inv, NEW id \in DOMAIN loans, NEW a \in AllowedAmounts, CloseLoan(id, a)
  PROVE  PaysRightly(id)
<1> DEFINE p     == loans[id].from
           grown == LoanWithInterest(id)
           fee   == AdminFee(grown.borrowed, grown.unpaid)
           owed  == grown.borrowed
<1>1. TypeOK /\ AddInterestOK(id) /\ Book!DeleteEntry(id)
  BY DEF Inv, CloseLoan, CloseLoanOK
<1>2. /\ p \in Pools /\ pool \in [Pools -> PoolRecord] /\ owed \in Int
      /\ grown.unpaid \in Int /\ owed = GrownDebt(id)
  BY <1>1, GrownLoan, LoanWithInterestType DEF TypeOK
<1>3. fee \in Int /\ Collects(pool, pool', p, fee, owed - fee)
  BY <1>1, CloseLoanCollects
<1>4. BookChange(id[1], id[2]) /\ id = <<id[1], id[2]>> /\ id \notin DOMAIN loans'
  BY <1>1, DeleteIsChange
<1>5. \A j \in DOMAIN loans : j # id => ~IsTouched(j)
  BY <1>4, ChangeTouchesOne
<1>6. DebtIn(loans', id) = 0 /\ UnpaidIn(loans', id) = 0
  BY <1>4 DEF DebtIn, UnpaidIn
<1>7. /\ fee > 0 => 10 * fee <= InterestPart(owed, grown.unpaid)
      /\ InterestPart(owed, grown.unpaid) <= grown.unpaid
      /\ InterestPart(owed, grown.unpaid) \in Int
  BY <1>2, FeeIsATenth, InterestPartIsUnpaid, InterestPartIsTakenOff
<1> HIDE DEF p, fee, owed, grown
<1>8. /\ FundsIn(pool', p) - FundsIn(pool, p) = owed
      /\ pool'[p].tokens[TheManager] - pool[p].tokens[TheManager] = fee
  BY <1>2, <1>3, CollectsPays
<1>9. IsPaidFor(id, p)
  BY <1>2, <1>6, <1>8 DEF IsPaidFor
<1>10. FeeIsRight(id, p)
  BY <1>2, <1>3, <1>6, <1>7, <1>8 DEF FeeIsRight, grown
<1> QED
  BY <1>5, <1>9, <1>10 DEF PaysRightly, p

\* liquidate
LEMMA LiquidateLoanPays ==
  ASSUME Inv, NEW w \in Users, NEW id \in DOMAIN loans, NEW a \in LiquidateAmounts,
         LiquidateLoan(w, id, a)
  PROVE  PaysRightly(id)
<1> DEFINE p     == loans[id].from
           grown == LoanWithInterest(id)
           fee   == AdminFee(a, grown.unpaid)
           loan  == LiquidatedLoan(id, a)
<1>1. TypeOK /\ AddInterestOK(id) /\ a \in Int /\ Book!WriteEntry(id, loan)
  BY AmountsAssumption DEF Inv, LiquidateLoan, LiquidateLoanOK
<1>2. /\ p \in Pools /\ pool \in [Pools -> PoolRecord] /\ GrownDebt(id) \in Int
      /\ grown.borrowed = GrownDebt(id) /\ grown \in LoanRecord
      /\ liquidationFees[p] \in Int
  BY <1>1, GrownLoan, GrownDebtInt, LoanWithInterestType DEF TypeOK, AddInterestOK
<1>3. /\ fee \in Int /\ Collects(pool, pool', p, fee, a - fee)
      /\ liquidationFees'[p] = liquidationFees[p] + fee
  BY <1>1, LiquidateLoanCollects
<1>4. loan.borrowed = GrownDebt(id) - a
  BY <1>2 DEF LiquidatedLoan, LoanRecord
<1> HIDE DEF loan
<1>5. /\ BookChange(id[1], id[2]) /\ id = <<id[1], id[2]>>
      /\ id \in DOMAIN loans' /\ loans'[id] = loan
  BY <1>1, WriteIsChange
<1>6. \A j \in DOMAIN loans : j # id => ~IsTouched(j)
  BY <1>5, ChangeTouchesOne
<1>7. DebtIn(loans', id) = GrownDebt(id) - a
  BY <1>4, <1>5 DEF DebtIn
<1> HIDE DEF p, fee, grown
<1>8. /\ FundsIn(pool', p) - FundsIn(pool, p) = a
      /\ pool'[p].tokens[TheManager] - pool[p].tokens[TheManager] = fee
  BY <1>1, <1>2, <1>3, CollectsPays
<1>9. IsPaidFor(id, p)
  BY <1>1, <1>2, <1>7, <1>8 DEF IsPaidFor
<1>10. FeeIsRight(id, p)
  BY <1>2, <1>3, <1>8 DEF FeeIsRight
<1> QED
  BY <1>6, <1>9, <1>10 DEF PaysRightly, p

\* create_loan touches none of the loans there are.
LEMMA CreateLoanTouchesNone ==
  ASSUME Inv, NEW u \in Users, NEW p \in Pools, NEW q \in Pools,
         NEW b \in BorrowAmounts, NEW c \in CollateralAmounts, CreateLoan(u, p, b, q, c)
  PROVE  \A j \in DOMAIN loans : ~IsTouched(j)
<1>1. PICK loan : Book!CreateEntry(u, loan)
  BY DEF CreateLoan
<1>2. BookChange(u, nonce[u] + 1) /\ <<u, nonce[u] + 1>> \notin DOMAIN loans
  BY <1>1, CreateIsChange
<1>3. DOMAIN loans \subseteq Users \X Nat
  BY DEF Inv, Book!BookInv, Book!BookTypeOK, Book!LoanId
<1> QED
  BY <1>2, <1>3 DEF BookChange, IsTouched

\* Every step that touches a loan pays for what it takes off it.
LEMMA StepPays ==
  ASSUME DeployedInv, [Next]_vars
  PROVE  \A id \in DOMAIN loans : IsTouched(id) => PaysRightly(id)
<1>1. Inv /\ TypeOK /\ UndeployedAreBlank
  BY DEF DeployedInv, Inv
<1>2. CASE QuietStep \/ LenderStep
  BY <1>2 DEF QuietStep, LenderStep, IsTouched
<1>3. CASE LoanStep
  <2>1. \/ \A j \in DOMAIN loans : ~IsTouched(j)
        \/ \E id \in DOMAIN loans : PaysRightly(id)
    BY <1>1, <1>3, CreateLoanTouchesNone, AddInterestPays, ManagerRepayPays, CloseLoanPays,
       LiquidateLoanPays DEF LoanStep
  <2> QED
    BY <2>1 DEF PaysRightly
<1> QED
  BY <1>1, <1>2, <1>3, StepKinds

\* A debt is only lowered by payment: in every step that touches a loan, what
\* the step takes off the debt, as it stands with interest up to now, has come
\* into the pool or to the manager.
THEOREM DebtsArePaidFor == Spec => DebtIsPaidFor
<1> DEFINE IsPaid ==
             \A id \in DOMAIN loans, p \in Pools :
               /\ loans[id].from = p
               /\ IsTouched(id)
               => RevenueAndFunds(p)' - RevenueAndFunds(p) >= GrownDebt(id) - DebtLeft(id)'
<1>1. DeployedInv /\ [Next]_vars => [IsPaid]_vars
  <2> SUFFICES ASSUME DeployedInv, [Next]_vars, NEW id \in DOMAIN loans, NEW p \in Pools,
                      loans[id].from = p, IsTouched(id)
               PROVE  RevenueAndFunds(p)' - RevenueAndFunds(p) >= GrownDebt(id) - DebtLeft(id)'
    OBVIOUS
  <2>1. IsPaidFor(id, p)
    BY StepPays DEF PaysRightly
  <2> QED
    BY <2>1 DEF IsPaidFor, FundsIn, DebtIn, RevenueAndFunds, DebtLeft
<1>2. DebtIsPaidFor <=> [][IsPaid]_vars
  BY DEF DebtIsPaidFor
<1> QED
  BY <1>1, <1>2, DeployedInit, DeployedStep, PTL DEF Spec

\* The manager's fee is a tenth of the interest it retires, at most, in every
\* payment but a liquidation, whose fees are on record as such.
THEOREM FeesAreForInterest == Spec => FeesRetireInterest
<1> DEFINE IsRight ==
             \A id \in DOMAIN loans :
               LET p   == loans[id].from
                   fee == pool'[p].tokens[TheManager] - pool[p].tokens[TheManager]
               IN  IsTouched(id) /\ fee > 0
                     => \/ liquidationFees'[p] - liquidationFees[p] = fee
                        \/ 10 * fee <= LoanWithInterest(id).unpaid - UnpaidLeft(id)'
<1>1. DeployedInv /\ [Next]_vars => [IsRight]_vars
  <2> SUFFICES ASSUME DeployedInv, [Next]_vars, NEW id \in DOMAIN loans, IsTouched(id)
               PROVE  LET p   == loans[id].from
                          fee == pool'[p].tokens[TheManager] - pool[p].tokens[TheManager]
                      IN  fee > 0
                            => \/ liquidationFees'[p] - liquidationFees[p] = fee
                               \/ 10 * fee <= LoanWithInterest(id).unpaid - UnpaidLeft(id)'
    OBVIOUS
  <2>1. FeeIsRight(id, loans[id].from)
    BY StepPays DEF PaysRightly
  <2> QED
    BY <2>1 DEF FeeIsRight, UnpaidIn, UnpaidLeft
<1>2. FeesRetireInterest <=> [][IsRight]_vars
  BY DEF FeesRetireInterest
<1> QED
  BY <1>1, <1>2, DeployedInit, DeployedStep, PTL DEF Spec
-----------------------------------------------------------------------------
(* The interest index.  A step leaves a pool's index and the balances that *)
(* the rate is worked out from, or it brings the index up to date, at the  *)
(* rate of the balances there were.                                        *)

\* The index stays, and so do the balances that interest is worked out from.
HasSameInterest(r, s) ==
  HasSameIndex(r, s) /\ s.total = r.total /\ s.available = r.available

\* The pools' indices stay, with the interest due, or are brought up to date.
KeepsIndices(before, after) ==
  \A p \in Pools : HasSameInterest(before[p], after[p]) \/ IsUpToDate(before[p], after[p], now)

\* Only a pool that is brought up to date changes.
Accrues(before, after) ==
  \A p \in Pools : after[p] = before[p] \/ IsUpToDate(before[p], after[p], now)

LEMMA AccruesInPlace ==
  ASSUME NEW pools \in [Pools -> PoolRecord], NEW p \in Pools, NEW record,
         IsUpToDate(pools[p], record, now)
  PROVE  /\ Accrues(pools, [pools EXCEPT ![p] = record])
         /\ IsUpToDate(pools[p], [pools EXCEPT ![p] = record][p], now)
<1>1. /\ [pools EXCEPT ![p] = record][p] = record
      /\ \A q \in Pools \ {p} : [pools EXCEPT ![p] = record][q] = pools[q]
  OBVIOUS
<1> QED
  BY <1>1 DEF Accrues

\* Two calls in a row are no more than one.
LEMMA AccruesTwice ==
  ASSUME NEW before \in [Pools -> PoolRecord], NEW mid \in [Pools -> PoolRecord], NEW after,
         now \in Nat, Accrues(before, mid), Accrues(mid, after)
  PROVE  Accrues(before, after)
<1> SUFFICES ASSUME NEW p \in Pools
             PROVE  after[p] = before[p] \/ IsUpToDate(before[p], after[p], now)
  BY DEF Accrues
<1>1. before[p] \in PoolRecord /\ mid[p] \in PoolRecord
  OBVIOUS
<1>2. CASE mid[p] = before[p] \/ after[p] = mid[p]
  BY <1>2 DEF Accrues
<1>3. CASE IsUpToDate(before[p], mid[p], now) /\ IsUpToDate(mid[p], after[p], now)
  BY <1>1, <1>3, UpToDateTwice
<1> QED
  BY <1>2, <1>3 DEF Accrues

LEMMA AccruingKeepsIndices ==
  ASSUME NEW before, NEW after, Accrues(before, after)
  PROVE  KeepsIndices(before, after)
BY DEF Accrues, KeepsIndices, HasSameInterest, HasSameIndex

\* add_interest
LEMMA InterestAccrues ==
  ASSUME TypeOK, NEW id \in DOMAIN loans, AddInterestOK(id)
  PROVE  /\ Accrues(pool, AfterInterest(id))
         /\ IsUpToDate(pool[loans[id].from], AfterInterest(id)[loans[id].from], now)
<1> DEFINE p      == loans[id].from
           q      == AddInterestToAccrual(pool[p], now)
           record == PoolWithInterest(id)
<1>1. pool \in [Pools -> PoolRecord] /\ now \in Nat /\ p \in Pools
  BY LoansType DEF TypeOK, LoanRecord
<1>2. AfterInterest(id) = [pool EXCEPT ![p] = record]
  BY DEF AfterInterest
<1>3. record = q \/ \E u, more : record = IncreasePositions(q, u, 0, more, 0)
  BY DEF PoolWithInterest, IncreaseLiabilities
<1> HIDE DEF p, record
<1>4. q \in PoolRecord /\ IsUpToDate(pool[p], q, now)
  BY <1>1, AddInterestType DEF IsUpToDate, HasSameIndex
<1> HIDE DEF q
<1>5. IsUpToDate(pool[p], record, now)
  BY <1>3, <1>4, PositionsKeepIndex, SameIndexAfter
<1>6. /\ Accrues(pool, [pool EXCEPT ![p] = record])
      /\ IsUpToDate(pool[p], [pool EXCEPT ![p] = record][p], now)
  BY <1>1, <1>5, AccruesInPlace
<1> QED
  BY <1>2, <1>6 DEF p

\* A loan as the manager's entry points leave the ones they touch: interest is
\* counted up to the index its pool has come to.
RemembersIndex(loan, pools) ==
  loan.from \in Pools /\ loan.lastAccrual = pools[loan.from].accrual

\* What every step but the deployment of a pool does to indices.
MovesIndices ==
  /\ KeepsIndices(pool, pool')
  /\ \A id \in DOMAIN loans' :
       \/ id \in DOMAIN loans /\ loans'[id] = loans[id]
       \/ RemembersIndex(loans'[id], pool')

\* An entry point of the manager that brings a loan up to date, and its pool.
MovesWithLoan(id) ==
  KeepsIndices(pool, pool') /\ IsUpToDate(pool[loans[id].from], pool'[loans[id].from], now)

LEMMA SameIndices ==
  ASSUME UNCHANGED <<pool, loans>>
  PROVE  MovesIndices
BY DEF MovesIndices, KeepsIndices, HasSameInterest, HasSameIndex

\* A call to one pool that brings its index up to date.
LEMMA PoolCallMoves ==
  ASSUME TypeOK, NEW p \in Pools, NEW record, IsUpToDate(pool[p], record, now),
         pool' = [pool EXCEPT ![p] = record], UNCHANGED loans
  PROVE  MovesIndices
<1>1. pool \in [Pools -> PoolRecord]
  BY DEF TypeOK
<1>2. KeepsIndices(pool, pool')
  BY <1>1, AccruesInPlace, AccruingKeepsIndices
<1> QED
  BY <1>2 DEF MovesIndices

\* admin_withdraw_revenue
LEMMA AdminWithdrawRevenueMoves ==
  ASSUME TypeOK, NEW p \in Pools, NEW a \in RevenueAmounts, AdminWithdrawRevenue(p, a)
  PROVE  MovesIndices
<1> DEFINE t      == Move(pool[p].tokens, TheManager, TheAdmin, a)
           record == [pool[p] EXCEPT !.tokens = t]
<1>1. pool \in [Pools -> PoolRecord] /\ pool[p] \in PoolRecord
  BY DEF TypeOK
<1>2. pool' = [pool EXCEPT ![p] = record] /\ UNCHANGED loans
  BY <1>1 DEF AdminWithdrawRevenue, bookVars
<1> HIDE DEF t
<1>3. HasSameInterest(pool[p], record)
  BY <1>1 DEF HasSameInterest, HasSameIndex, PoolRecord
<1> HIDE DEF record
<1>4. KeepsIndices(pool, pool')
  BY <1>1, <1>2, <1>3 DEF KeepsIndices, HasSameInterest, HasSameIndex
<1> QED
  BY <1>2, <1>4 DEF MovesIndices

\* add_interest_to_accrual
LEMMA UpdateAccrualMoves ==
  ASSUME TypeOK, NEW p \in Pools, UpdateAccrual(p)
  PROVE  MovesIndices
<1>1. pool[p] \in PoolRecord /\ now \in Nat
  BY DEF TypeOK
<1> QED
  BY <1>1, AddInterestType, PoolCallMoves DEF UpdateAccrual, bookVars, IsUpToDate, HasSameIndex

\* deposit, withdraw and deposit_collateral
LEMMA LenderMoves ==
  ASSUME TypeOK, NEW u \in Users, NEW p \in Pools, NEW a,
         \/ UserDeposit(u, p, a)
         \/ UserWithdraw(u, p, a)
         \/ UserDepositCollateral(u, p, a) /\ a \in Int
  PROVE  MovesIndices
<1>1. pool[p] \in PoolRecord /\ now \in Nat
  BY DEF TypeOK
<1>2. CASE UserDeposit(u, p, a)
  BY <1>1, <1>2, EntryPointsAccrue, PoolCallMoves DEF UserDeposit, bookVars
<1>3. CASE UserWithdraw(u, p, a)
  BY <1>1, <1>3, EntryPointsAccrue, PoolCallMoves DEF UserWithdraw, bookVars
<1>4. CASE UserDepositCollateral(u, p, a) /\ a \in Int
  BY <1>1, <1>4, DepositCollateralAccrues, PoolCallMoves DEF UserDepositCollateral, bookVars
<1> QED
  BY <1>2, <1>3, <1>4

\* Where a loan is brought up to date, it remembers the index of its pool.
LEMMA WriteMoves ==
  ASSUME TypeOK, NEW id \in DOMAIN loans, NEW loan, Book!WriteEntry(id, loan),
         loan.from = loans[id].from, loan.lastAccrual = CurrentAccrual(id), MovesWithLoan(id)
  PROVE  MovesIndices
<1>1. loans[id].from \in Pools
  BY LoansType DEF LoanRecord
<1>2. pool'[loans[id].from].accrual = CurrentAccrual(id)
  BY DEF MovesWithLoan, IsUpToDate, HasSameIndex, CurrentAccrual
<1>3. RemembersIndex(loan, pool')
  BY <1>1, <1>2 DEF RemembersIndex
<1>4. /\ DOMAIN loans' = DOMAIN loans /\ loans'[id] = loan
      /\ \A j \in DOMAIN loans : j # id => loans'[j] = loans[j]
  BY DEF Book!WriteEntry
<1> QED
  BY <1>3, <1>4 DEF MovesIndices, MovesWithLoan

LEMMA GrownLoanRemembers ==
  ASSUME TypeOK, NEW id \in DOMAIN loans, AddInterestOK(id)
  PROVE  /\ LoanWithInterest(id) \in LoanRecord
         /\ LoanWithInterest(id).from = loans[id].from
         /\ LoanWithInterest(id).lastAccrual = CurrentAccrual(id)
<1>1. loans[id] \in LoanRecord
  BY LoansType
<1> QED
  BY <1>1, LoanWithInterestType DEF LoanWithInterest, LoanRecord

\* add_interest
LEMMA AddInterestMoves ==
  ASSUME TypeOK, NEW id \in DOMAIN loans, AddInterest(id)
  PROVE  MovesIndices /\ MovesWithLoan(id)
<1>1. AddInterestOK(id) /\ pool' = AfterInterest(id) /\ Book!WriteEntry(id, LoanWithInterest(id))
  BY DEF AddInterest
<1>2. MovesWithLoan(id)
  BY <1>1, InterestAccrues, AccruingKeepsIndices DEF MovesWithLoan
<1> QED
  BY <1>1, <1>2, GrownLoanRemembers, WriteMoves

\* repay
LEMMA ManagerRepayMoves ==
  ASSUME TypeOK, NEW id \in DOMAIN loans, NEW a \in RepayAmounts, ManagerRepay(id, a)
  PROVE  MovesIndices /\ MovesWithLoan(id)
<1> DEFINE p      == loans[id].from
           mid    == AfterInterest(id)
           grown  == LoanWithInterest(id)
           record == Repay(mid[p], now, Owner(id), a, grown.unpaid)
<1>1. /\ now \in Nat /\ p \in Pools /\ Owner(id) \in Users /\ AddInterestOK(id)
      /\ pool \in [Pools -> PoolRecord]
  BY LoansType DEF TypeOK, LoanRecord, ManagerRepay, ManagerRepayOK
<1>2. grown.from = p /\ grown \in LoanRecord /\ grown.lastAccrual = CurrentAccrual(id)
  BY <1>1, GrownLoanRemembers
<1>3. pool' = [mid EXCEPT ![p] = record]
  BY <1>2 DEF ManagerRepay
<1>4. PICK borrowed, unpaid, health :
        Book!WriteEntry(id, [grown EXCEPT !.borrowed = borrowed, !.unpaid = unpaid,
                                          !.health = health])
  BY <1>2 DEF ManagerRepay, LoanRecord
<1> HIDE DEF grown
<1>5. /\ mid \in [Pools -> PoolRecord] /\ Accrues(pool, mid)
      /\ IsUpToDate(pool[p], mid[p], now)
  BY <1>1, InterestAccrues, AfterInterestType
<1> HIDE DEF mid, p
<1>6. mid[p] \in PoolRecord /\ IsUpToDate(mid[p], record, now)
  BY <1>1, <1>5, EntryPointsAccrue
<1> HIDE DEF record
<1>7. Accrues(mid, pool') /\ IsUpToDate(mid[p], pool'[p], now)
  BY <1>1, <1>3, <1>5, <1>6, AccruesInPlace
<1>8. MovesWithLoan(id)
  BY <1>1, <1>5, <1>6, <1>7, AccruesTwice, AccruingKeepsIndices, UpToDateTwice
     DEF MovesWithLoan, p
<1> DEFINE loan == [grown EXCEPT !.borrowed = borrowed, !.unpaid = unpaid, !.health = health]
<1>9. loan.from = loans[id].from /\ loan.lastAccrual = CurrentAccrual(id)
  BY <1>2 DEF LoanRecord, p
<1>10. Book!WriteEntry(id, loan)
  BY <1>4
<1> HIDE DEF loan
<1> QED
  BY <1>8, <1>9, <1>10, WriteMoves

\* repay_and_close_manager
LEMMA CloseLoanMoves ==
  ASSUME TypeOK, NEW id \in DOMAIN loans, NEW a \in AllowedAmounts, CloseLoan(id, a)
  PROVE  MovesIndices
<1> DEFINE p     == loans[id].from
           q     == loans[id].collateralFrom
           mid   == AfterInterest(id)
           paid  == AfterClosePayment(id, a)
           grown == LoanWithInterest(id)
           first == RepayAndClose(mid[p], now, Owner(id), grown.borrowed, a, grown.unpaid)
           back  == WithdrawCollateral(paid[q], now, Owner(id), grown.collateral)
<1>1. /\ now \in Nat /\ p \in Pools /\ q \in Pools /\ Owner(id) \in Users
      /\ pool \in [Pools -> PoolRecord] /\ AddInterestOK(id) /\ Book!DeleteEntry(id)
  BY LoansType DEF TypeOK, LoanRecord, CloseLoan, CloseLoanOK
<1>2. grown.from = p /\ grown.collateralFrom = q
  BY <1>1, LoanWithInterestType
<1>3. paid = [mid EXCEPT ![p] = first] /\ pool' = [paid EXCEPT ![q] = back]
  BY <1>2 DEF CloseLoan, AfterClosePayment
<1>4. mid \in [Pools -> PoolRecord] /\ paid \in [Pools -> PoolRecord]
  BY <1>1, CloseLoanEntries
<1>5. Accrues(pool, mid)
  BY <1>1, InterestAccrues
<1> HIDE DEF mid, paid, grown, p, q
<1>6. IsUpToDate(mid[p], first, now) /\ IsUpToDate(paid[q], back, now)
  BY <1>1, <1>4, EntryPointsAccrue
<1> HIDE DEF first, back
<1>7. Accrues(mid, paid) /\ Accrues(paid, pool')
  BY <1>1, <1>3, <1>4, <1>6, AccruesInPlace
<1>8. Accrues(pool, paid)
  BY <1>1, <1>4, <1>5, <1>7, AccruesTwice
<1>9. KeepsIndices(pool, pool')
  BY <1>1, <1>4, <1>7, <1>8, AccruesTwice, AccruingKeepsIndices
<1>10. DOMAIN loans' = DOMAIN loans \ {id} /\ \A j \in DOMAIN loans' : loans'[j] = loans[j]
  BY <1>1 DEF Book!DeleteEntry
<1> QED
  BY <1>9, <1>10 DEF MovesIndices

\* liquidate
LEMMA LiquidateLoanMoves ==
  ASSUME TypeOK, NEW w \in Users, NEW id \in DOMAIN loans, NEW a \in LiquidateAmounts,
         LiquidateLoan(w, id, a)
  PROVE  MovesIndices /\ MovesWithLoan(id)
<1> DEFINE p      == loans[id].from
           q      == loans[id].collateralFrom
           mid    == AfterInterest(id)
           paid   == AfterLiquidationPayment(w, id, a)
           grown  == LoanWithInterest(id)
           seized == SeizedCollateral(p, q, a)
           first  == Liquidate(mid[p], now, w, a, grown.unpaid, Owner(id))
           taken  == LiquidateTransferCollateral(paid[q], w, seized, Owner(id))
           loan   == LiquidatedLoan(id, a)
<1>1. /\ now \in Nat /\ p \in Pools /\ q \in Pools /\ Owner(id) \in Users
      /\ pool \in [Pools -> PoolRecord] /\ AddInterestOK(id) /\ Book!WriteEntry(id, loan)
  BY LoansType DEF TypeOK, LoanRecord, LiquidateLoan, LiquidateLoanOK
<1>2. /\ grown.from = p /\ grown.collateralFrom = q /\ grown \in LoanRecord
      /\ grown.lastAccrual = CurrentAccrual(id)
  BY <1>1, LoanWithInterestType, GrownLoanRemembers
<1>3. paid = [mid EXCEPT ![p] = first] /\ pool' = [paid EXCEPT ![q] = taken]
  BY <1>2 DEF LiquidateLoan, AfterLiquidationPayment
<1>4. loan.from = p /\ loan.lastAccrual = CurrentAccrual(id)
  BY <1>2 DEF LiquidatedLoan, LoanRecord
<1>5. /\ seized \in Int /\ mid \in [Pools -> PoolRecord] /\ paid \in [Pools -> PoolRecord]
  BY <1>1, LiquidateLoanEntries
<1>6. Accrues(pool, mid) /\ IsUpToDate(pool[p], mid[p], now)
  BY <1>1, InterestAccrues
<1> HIDE DEF grown, loan, mid, paid, seized, p, q
<1>7. mid[p] \in PoolRecord /\ paid[p] \in PoolRecord /\ paid[q] \in PoolRecord
  BY <1>1, <1>5
<1>8. IsUpToDate(mid[p], first, now)
  BY <1>1, <1>7, EntryPointsAccrue
<1>9. HasSameInterest(paid[q], taken)
  BY <1>1, <1>5, <1>7, TransferKeepsIndex DEF HasSameInterest
<1> HIDE DEF first, taken
<1>10. Accrues(mid, paid) /\ IsUpToDate(mid[p], paid[p], now)
  BY <1>1, <1>3, <1>5, <1>8, AccruesInPlace
<1>11. Accrues(pool, paid) /\ IsUpToDate(pool[p], paid[p], now)
  BY <1>1, <1>5, <1>6, <1>7, <1>10, AccruesTwice, UpToDateTwice
<1>12. \A r \in Pools : HasSameInterest(paid[r], pool'[r])
  BY <1>1, <1>3, <1>5, <1>9 DEF HasSameInterest, HasSameIndex
<1>13. MovesWithLoan(id)
  <2>1. ASSUME NEW r \in Pools
        PROVE  HasSameInterest(pool[r], pool'[r]) \/ IsUpToDate(pool[r], pool'[r], now)
    <3>1. CASE paid[r] = pool[r]
      BY <1>12, <3>1
    <3>2. CASE IsUpToDate(pool[r], paid[r], now)
      BY <1>12, <3>2, SameIndexAfter DEF HasSameInterest
    <3> QED
      BY <1>11, <3>1, <3>2 DEF Accrues
  <2>2. IsUpToDate(pool[p], pool'[p], now)
    BY <1>1, <1>11, <1>12, SameIndexAfter DEF HasSameInterest
  <2> QED
    BY <2>1, <2>2 DEF KeepsIndices, MovesWithLoan, p
<1> QED
  BY <1>1, <1>4, <1>13, WriteMoves DEF p

\* create_loan
LEMMA CreateLoanMoves ==
  ASSUME TypeOK, NEW u \in Users, NEW p \in Pools, NEW q \in Pools,
         NEW b \in BorrowAmounts, NEW c \in CollateralAmounts, CreateLoan(u, p, b, q, c)
  PROVE  MovesIndices
<1> DEFINE first   == DepositCollateral(pool[q], now, u, c)
           secured == AfterCollateral(u, q, c)
           lent    == Borrow(secured[p], now, u, b)
<1>1. now \in Nat /\ pool \in [Pools -> PoolRecord] /\ b \in Int /\ c \in Int
  BY AmountsAssumption DEF TypeOK
<1>2. /\ DepositCollateralOK(pool[q], now, u, c)
      /\ pool' = AfterBorrow(u, p, b, q, c)
  BY DEF CreateLoan
<1>3. secured = [pool EXCEPT ![q] = first] /\ pool' = [secured EXCEPT ![p] = lent]
  BY <1>2 DEF AfterCollateral, AfterBorrow
<1>4. PICK loan : /\ Book!CreateEntry(u, loan) /\ loan.from = p
                  /\ loan.lastAccrual = AfterBorrow(u, p, b, q, c)[p].accrual
  BY DEF CreateLoan
<1>5. pool[q] \in PoolRecord /\ first \in PoolRecord
  BY <1>1, <1>2, DepositCollateralType
<1>6. IsUpToDate(pool[q], first, now)
  BY <1>1, <1>2, <1>5, DepositCollateralAccrues
<1> HIDE DEF first, secured
<1>7. secured \in [Pools -> PoolRecord] /\ Accrues(pool, secured) /\ secured[p] \in PoolRecord
  BY <1>1, <1>3, <1>5, <1>6, AccruesInPlace
<1>8. IsUpToDate(secured[p], lent, now)
  BY <1>1, <1>7, EntryPointsAccrue
<1> HIDE DEF lent
<1>9. Accrues(secured, pool')
  BY <1>3, <1>7, <1>8, AccruesInPlace
<1>10. KeepsIndices(pool, pool')
  BY <1>1, <1>7, <1>9, AccruesTwice, AccruingKeepsIndices
<1>11. RemembersIndex(loan, pool')
  BY <1>2, <1>4 DEF RemembersIndex
<1>12. \A j \in DOMAIN loans' : loans'[j] = loan \/ (j \in DOMAIN loans /\ loans'[j] = loans[j])
  BY <1>4 DEF Book!CreateEntry
<1> QED
  BY <1>10, <1>11, <1>12 DEF MovesIndices

\* Every step but the deployment of a pool, which has no index before.
LEMMA StepMoves ==
  ASSUME TypeOK, [Next]_vars
  PROVE  MovesIndices \/ \E p \in Pools : DeployPool(p)
<1>1. ASSUME \/ UNCHANGED vars
             \/ \E t : Elapse(t)
             \/ \E p, average, latest : UpdatePrice(p, average, latest)
             \/ InitializeManager
      PROVE  MovesIndices
  BY <1>1, SameIndices DEF vars, worldVars, bookVars, Elapse, UpdatePrice, InitializeManager
<1>2. ASSUME NEW u \in Users, NEW p \in Pools,
             \/ \E a \in DepositAmounts : UserDeposit(u, p, a)
             \/ \E a \in WithdrawAmounts : UserWithdraw(u, p, a)
             \/ \E a \in StrayAmounts : UserDepositCollateral(u, p, a)
      PROVE  MovesIndices
  BY <1>2, LenderMoves, AmountsAssumption
<1> QED
  BY <1>1, <1>2, UpdateAccrualMoves, AdminWithdrawRevenueMoves, CreateLoanMoves,
     AddInterestMoves, ManagerRepayMoves, CloseLoanMoves, LiquidateLoanMoves DEF Next

\* No pool's index is ahead of the clock, and no entry point changes a multiplier.
ClockInv ==
  /\ DeployedInv
  /\ \A p \in Pools : pool[p].updated <= now /\ pool[p].multiplier = 1

\* What a step does to the index of a pool: it can only fall where the pool has
\* more available than its total.
LEMMA IndexFollows ==
  ASSUME NEW r \in PoolRecord, NEW s \in PoolRecord, now \in Nat, r.updated <= now,
         r.multiplier = 1, HasSameIndex(r, s) \/ IsUpToDate(r, s, now)
  PROVE  /\ s.updated <= now /\ s.multiplier = 1 /\ s.status = r.status
         /\ r.accrual >= 0 /\ r.available <= r.total => s.accrual >= r.accrual
<1> DEFINE q == AddInterestToAccrual(r, now)
<1>1. r.accrual \in Int /\ q.accrual \in Int
  BY AddInterestType DEF PoolRecord
<1>2. r.accrual >= 0 /\ r.available <= r.total => q.accrual >= r.accrual
  BY IndexGrows
<1>3. q.updated = now /\ q.multiplier = r.multiplier /\ q.status = r.status
  BY DEF AddInterestToAccrual, PoolRecord
<1> HIDE DEF q
<1>4. CASE HasSameIndex(r, s)
  BY <1>1, <1>4 DEF HasSameIndex
<1>5. CASE HasSameIndex(q, s)
  BY <1>1, <1>2, <1>3, <1>5 DEF HasSameIndex
<1> QED
  BY <1>4, <1>5 DEF IsUpToDate, q

\* deploy_pool: the new pool's books begin, and nothing else changes.
LEMMA DeployPoolBegins ==
  ASSUME DeployedInv, NEW p \in Pools, DeployPool(p)
  PROVE  /\ p \notin deployed /\ now' = now /\ loans' = loans
         /\ pool'[p] = Initialize(pool[p].tokens, now)
         /\ \A q \in Pools : q # p => pool'[q] = pool[q]
         /\ \A id \in DOMAIN loans : loans[id].from \in Pools /\ loans[id].from # p
<1>1. pool \in [Pools -> PoolRecord] /\ deployed \subseteq Pools
  BY DEF DeployedInv, Inv, TypeOK
<1>2. pool' = [pool EXCEPT ![p] = Initialize(pool[p].tokens, now)]
  BY DEF DeployPool
<1> QED
  BY <1>1, <1>2 DEF DeployPool, worldVars, bookVars, DeployedInv, LoansAreOfDeployed

\* Only Elapse moves the clock.
LEMMA TimePasses ==
  ASSUME [Next]_vars, now \in Nat
  PROVE  now <= now'
<1>1. ASSUME NEW t \in Elapses, Elapse(t)
      PROVE  now <= now'
  BY <1>1, PoolsAssumption DEF Elapse
<1>2. CASE now' = now
  BY <1>2
<1>3. /\ \A p, average, latest : UpdatePrice(p, average, latest) => now' = now
      /\ \A p : DeployPool(p) \/ UpdateAccrual(p) => now' = now
      /\ InitializeManager => now' = now
      /\ \A p, a : AdminWithdrawRevenue(p, a) => now' = now
  BY DEF UpdatePrice, DeployPool, InitializeManager, AdminWithdrawRevenue, UpdateAccrual,
         worldVars
<1>4. /\ \A u, p, a : UserDeposit(u, p, a) => now' = now
      /\ \A u, p, a : UserWithdraw(u, p, a) => now' = now
      /\ \A u, p, a : UserDepositCollateral(u, p, a) => now' = now
  BY DEF UserDeposit, UserWithdraw, UserDepositCollateral, worldVars
<1>5. \A u, p, b, q, c : CreateLoan(u, p, b, q, c) => now' = now
  BY DEF CreateLoan, worldVars
<1>6. /\ \A id : AddInterest(id) => now' = now
      /\ \A id, a : ManagerRepay(id, a) => now' = now
      /\ \A id, a : CloseLoan(id, a) => now' = now
      /\ \A w, id, a : LiquidateLoan(w, id, a) => now' = now
  BY DEF AddInterest, ManagerRepay, CloseLoan, LiquidateLoan, worldVars
<1>7. UNCHANGED vars => now' = now
  BY DEF vars, worldVars
<1> QED
  BY <1>1, <1>2, <1>3, <1>4, <1>5, <1>6, <1>7 DEF Next

LEMMA ClockStep == ClockInv /\ [Next]_vars => ClockInv'
<1> SUFFICES ASSUME ClockInv, [Next]_vars
             PROVE  ClockInv'
  OBVIOUS
<1>1. DeployedInv /\ DeployedInv' /\ TypeOK /\ TypeOK'
  BY DeployedStep DEF ClockInv, DeployedInv, Inv
<1>2. /\ pool \in [Pools -> PoolRecord] /\ pool' \in [Pools -> PoolRecord]
      /\ now \in Nat /\ now' \in Nat
  BY <1>1 DEF TypeOK
<1>3. now <= now'
  BY <1>2, TimePasses
<1>4. ASSUME NEW p \in Pools
      PROVE  pool'[p].updated <= now' /\ pool'[p].multiplier = 1
  <2>1. /\ pool[p] \in PoolRecord /\ pool'[p] \in PoolRecord
        /\ pool[p].updated <= now /\ pool[p].multiplier = 1
    BY <1>2 DEF ClockInv
  <2>2. CASE MovesIndices
    <3>1. HasSameIndex(pool[p], pool'[p]) \/ IsUpToDate(pool[p], pool'[p], now)
      BY <2>2 DEF MovesIndices, KeepsIndices, HasSameInterest
    <3>2. pool'[p].updated <= now /\ pool'[p].multiplier = 1
      BY <1>2, <2>1, <3>1, IndexFollows
    <3> QED
      BY <1>2, <1>3, <2>1, <3>2 DEF PoolRecord
  <2>3. CASE \E q \in Pools : DeployPool(q)
    <3>1. now' = now /\ (pool'[p] = pool[p] \/ pool'[p] = Initialize(pool[p].tokens, now))
      BY <1>1, <2>3, DeployPoolBegins
    <3> QED
      BY <1>2, <2>1, <3>1 DEF Initialize
  <2> QED
    BY <1>1, <2>2, <2>3, StepMoves
<1> QED
  BY <1>1, <1>4 DEF ClockInv

LEMMA ClockInit == Init => ClockInv
<1> SUFFICES ASSUME Init
             PROVE  ClockInv
  OBVIOUS
<1>1. \A p \in Pools : pool[p].updated <= now /\ pool[p].multiplier = 1
  BY DEF Init, Initialize
<1> QED
  BY <1>1, DeployedInit DEF ClockInv

\* The interest index of a pool falls, and a loan comes to remember one that its
\* pool is behind, only in a step from a state in which the pool has more
\* available than its total, or a negative index already.
THEOREM IndexFallsWhenOverdrawn == Spec => IndexFallsOnlyOverdrawn
<1> DEFINE Falls(p) ==
             IsOverdrawn(p) \/ pool[p].accrual < 0 \/
               /\ pool'[p].accrual >= pool[p].accrual
               /\ \A id \in DOMAIN loans' :
                    loans'[id].from = p
                      => IsRemembered(id)' \/ (id \in DOMAIN loans /\ ~IsRemembered(id))
<1>1. ASSUME ClockInv, [Next]_vars, NEW p \in deployed
      PROVE  Falls(p)
  <2>1. DeployedInv /\ DeployedInv' /\ TypeOK /\ TypeOK'
    BY <1>1, DeployedStep DEF ClockInv, DeployedInv, Inv
  <2>2. /\ pool \in [Pools -> PoolRecord] /\ pool' \in [Pools -> PoolRecord]
        /\ p \in Pools /\ now \in Nat
    BY <2>1 DEF TypeOK
  <2>3. /\ pool[p] \in PoolRecord /\ pool'[p] \in PoolRecord
        /\ pool[p].available \in Int /\ pool[p].total \in Int
        /\ pool[p].accrual \in Int /\ pool'[p].accrual \in Int
        /\ pool[p].updated <= now /\ pool[p].multiplier = 1
    BY <1>1, <2>2 DEF ClockInv, PoolRecord
  <2> SUFFICES ASSUME ~IsOverdrawn(p), pool[p].accrual >= 0
               PROVE  /\ pool'[p].accrual >= pool[p].accrual
                      /\ \A id \in DOMAIN loans' :
                           loans'[id].from = p
                             => IsRemembered(id)' \/ (id \in DOMAIN loans /\ ~IsRemembered(id))
    BY <2>3
  <2>4. CASE MovesIndices
    <3>1. HasSameIndex(pool[p], pool'[p]) \/ IsUpToDate(pool[p], pool'[p], now)
      BY <2>2, <2>4 DEF MovesIndices, KeepsIndices, HasSameInterest
    <3>2. pool'[p].accrual >= pool[p].accrual
      BY <2>2, <2>3, <3>1, IndexFollows DEF IsOverdrawn
    <3>3. ASSUME NEW id \in DOMAIN loans', loans'[id].from = p
          PROVE  IsRemembered(id)' \/ (id \in DOMAIN loans /\ ~IsRemembered(id))
      <4>1. CASE RemembersIndex(loans'[id], pool')
        BY <2>3, <3>3, <4>1 DEF RemembersIndex, IsRemembered
      <4>2. CASE id \in DOMAIN loans /\ loans'[id] = loans[id]
        <5>1. loans[id].lastAccrual \in Int
          BY <2>1, <4>2, LoansType DEF LoanRecord
        <5> QED
          BY <2>3, <3>2, <3>3, <4>2, <5>1 DEF IsRemembered
      <4> QED
        BY <2>4, <4>1, <4>2 DEF MovesIndices
    <3> QED
      BY <3>2, <3>3
  <2>5. CASE \E q \in Pools : DeployPool(q)
    <3>1. pool'[p] = pool[p] /\ loans' = loans
      BY <1>1, <2>1, <2>2, <2>5, DeployPoolBegins
    <3> QED
      BY <2>3, <3>1 DEF IsRemembered
  <2> QED
    BY <1>1, <2>1, <2>4, <2>5, StepMoves
<1>2. ClockInv /\ [Next]_vars => [\A p \in deployed : Falls(p)]_vars
  BY <1>1
<1>3. IndexFallsOnlyOverdrawn <=> [][\A p \in deployed : Falls(p)]_vars
  BY DEF IndexFallsOnlyOverdrawn
<1> QED
  BY <1>2, <1>3, ClockInit, ClockStep, PTL DEF Spec

\* Interest that is not due any more is not due again, and interest that is due
\* stays due.
LEMMA InterestStaysDue ==
  ASSUME NEW r \in PoolRecord, NEW s \in PoolRecord, now \in Nat,
         HasSameInterest(r, s) \/ IsUpToDate(r, s, now)
  PROVE  AddInterestToAccrual(s, now).accrual = AddInterestToAccrual(r, now).accrual
<1> DEFINE q == AddInterestToAccrual(r, now)
<1>1. CASE HasSameInterest(r, s)
  BY <1>1 DEF AddInterestToAccrual, HasSameInterest, HasSameIndex, PoolRecord
<1>2. CASE IsUpToDate(r, s, now)
  <2>1. q.updated = now
    BY DEF AddInterestToAccrual, PoolRecord
  <2>2. s.updated = now /\ s.accrual = q.accrual
    BY <1>2, <2>1 DEF IsUpToDate, HasSameIndex
  <2> QED
    BY <2>2, IndexGrows
<1> QED
  BY <1>1, <1>2

\* No step changes what the index of a pool in use has come to by now.
LEMMA SettledStep ==
  ASSUME DeployedInv, [Next]_vars, NEW p \in deployed
  PROVE  AddInterestToAccrual(pool'[p], now).accrual = AddInterestToAccrual(pool[p], now).accrual
<1>1. DeployedInv' /\ TypeOK /\ TypeOK'
  BY DeployedStep DEF DeployedInv, Inv
<1>2. now \in Nat /\ p \in Pools /\ pool[p] \in PoolRecord /\ pool'[p] \in PoolRecord
  BY <1>1 DEF TypeOK
<1>3. CASE MovesIndices
  BY <1>2, <1>3, InterestStaysDue DEF MovesIndices, KeepsIndices
<1>4. CASE \E q \in Pools : DeployPool(q)
  BY <1>2, <1>4, DeployPoolBegins
<1> QED
  BY <1>1, <1>3, <1>4, StepMoves

\* Interest up to now is settled: every entry point that changes a pool's total
\* or what it has available brings the index up to date first, at the rate of
\* the balances there were (contracts/loan_pool/src/contract.rs:68, 118, 191, 393),
\* and no entry point adds the same interest twice.
THEOREM InterestIsSettled == Spec => PastInterestIsSettled
<1> DEFINE Settled == now' = now => \A p \in deployed : IndexNow(p)' = IndexNow(p)
<1>1. ASSUME DeployedInv, [Next]_vars
      PROVE  Settled
  <2> SUFFICES ASSUME now' = now, NEW p \in deployed
               PROVE  IndexNow(p)' = IndexNow(p)
    OBVIOUS
  <2>1. IndexNow(p)' = AddInterestToAccrual(pool'[p], now).accrual
    BY DEF IndexNow, AddInterestToAccrual, GetInterest
  <2> QED
    BY <1>1, <2>1, SettledStep DEF IndexNow
<1>2. PastInterestIsSettled <=> [][Settled]_vars
  BY DEF PastInterestIsSettled
<1> QED
  BY <1>1, <1>2, DeployedInit, DeployedStep, PTL DEF Spec

-----------------------------------------------------------------------------
(* The value of a share, and the size of a debt: neither falls as long as  *)
(* no pool has more available than its total.  What can bring that about   *)
(* is the subject of the section after this one.                           *)

\* No pool's balances shrink, but for what is paid back to a lender.
GrowsEverywhere(before, after) == \A p \in Pools : Grows(before[p], after[p])

KeepsValues(before, after) == \A p \in Pools : KeepsValue(before[p], after[p])

AreBacked(pools) == \A p \in Pools : IsBacked(pools[p])

LEMMA EntryGrows ==
  ASSUME NEW before \in [Pools -> PoolRecord], NEW after, NEW p \in Pools, NEW u \in Users,
         NEW t \in Nat, NEW a \in Nat, NEW l, NEW c,
         IsPoolEntry(before, after, p, u, t, a, 0, l, c)
  PROVE  GrowsEverywhere(before, after)
<1> SUFFICES ASSUME NEW q \in Pools
             PROVE  Grows(before[q], after[q])
  BY DEF GrowsEverywhere
<1>1. before[q] \in PoolRecord /\ before[q].total \in Int /\ before[q].available \in Int
      /\ before[q].shares \in Int
  BY DEF PoolRecord
<1>2. CASE q = p
  BY <1>1, <1>2 DEF IsPoolEntry, IsEntry, Grows
<1>3. CASE q # p
  <2>1. after[q] = before[q]
    BY <1>3 DEF IsPoolEntry
  <2> QED
    BY <1>1, <2>1 DEF Grows
<1> QED
  BY <1>2, <1>3

LEMMA GrowsTwice ==
  ASSUME NEW before \in [Pools -> PoolRecord], NEW mid \in [Pools -> PoolRecord],
         NEW after \in [Pools -> PoolRecord],
         GrowsEverywhere(before, mid), GrowsEverywhere(mid, after)
  PROVE  GrowsEverywhere(before, after)
<1> SUFFICES ASSUME NEW p \in Pools
             PROVE  Grows(before[p], after[p])
  BY DEF GrowsEverywhere
<1>1. before[p] \in PoolRecord /\ mid[p] \in PoolRecord /\ after[p] \in PoolRecord
  OBVIOUS
<1>2. Grows(before[p], mid[p]) /\ Grows(mid[p], after[p])
  BY DEF GrowsEverywhere
<1> QED
  BY <1>1, <1>2 DEF Grows, PoolRecord

LEMMA GrowthKeepsValues ==
  ASSUME NEW before \in [Pools -> PoolRecord], NEW after \in [Pools -> PoolRecord],
         AreBacked(before), GrowsEverywhere(before, after)
  PROVE  KeepsValues(before, after)
<1> SUFFICES ASSUME NEW p \in Pools
             PROVE  KeepsValue(before[p], after[p])
  BY DEF KeepsValues
<1>1. before[p] \in PoolRecord /\ after[p] \in PoolRecord
  OBVIOUS
<1> QED
  BY <1>1, GrowthKeepsValue DEF AreBacked, GrowsEverywhere

\* One pool is replaced by one that keeps its lenders' value.
LEMMA ValueInPlace ==
  ASSUME NEW pools \in [Pools -> PoolRecord], NEW p \in Pools, NEW record,
         AreBacked(pools), KeepsValue(pools[p], record)
  PROVE  KeepsValues(pools, [pools EXCEPT ![p] = record])
<1> SUFFICES ASSUME NEW q \in Pools
             PROVE  KeepsValue(pools[q], [pools EXCEPT ![p] = record][q])
  BY DEF KeepsValues
<1>1. CASE q = p
  BY <1>1
<1>2. CASE q # p
  <2>1. [pools EXCEPT ![p] = record][q] = pools[q] /\ pools[q] \in PoolRecord
    BY <1>2
  <2>2. Grows(pools[q], pools[q])
    BY <2>1 DEF Grows, PoolRecord
  <2> QED
    BY <2>1, <2>2, GrowthKeepsValue DEF AreBacked
<1> QED
  BY <1>1, <1>2

\* What the value of shares and the size of debts rest on in a pool.
IsSoundPool(r) ==
  /\ r.status = "Healthy"
  /\ r.accrual >= DECIMAL
  /\ r.available >= 0
  /\ r.shares >= 0

IsSoundLoan(loan, pools) ==
  /\ loan.borrowed > 0
  /\ loan.unpaid >= 0
  /\ loan.lastAccrual \in DECIMAL .. pools[loan.from].accrual

\* A loan as the manager's entry points leave the ones they touch.
HasDebt(loan) == loan.borrowed > 0 /\ loan.unpaid >= 0

ValueInv ==
  /\ ClockInv
  /\ \A p \in Pools : IsSoundPool(pool[p])
  /\ \A id \in DOMAIN loans : IsSoundLoan(loans[id], pool)

\* What every step but the deployment of a pool does to values and debts.
SoundStep ==
  /\ KeepsValues(pool, pool')
  /\ \A id \in DOMAIN loans' :
       (id \in DOMAIN loans /\ loans'[id] = loans[id]) \/ HasDebt(loans'[id])

LEMMA PoolsAreBacked ==
  ASSUME ValueInv, AvailableIsInTotal
  PROVE  /\ TypeOK /\ Inv /\ UndeployedAreBlank /\ AreBacked(pool)
         /\ pool \in [Pools -> PoolRecord] /\ now \in Nat
<1>1. Inv /\ UndeployedAreBlank
  BY DEF ValueInv, ClockInv, DeployedInv
<1>2. TypeOK
  BY <1>1 DEF Inv
<1>3. pool \in [Pools -> PoolRecord] /\ now \in Nat
  BY <1>2 DEF TypeOK
<1>4. AreBacked(pool)
  <2> SUFFICES ASSUME NEW p \in Pools
               PROVE  IsBacked(pool[p])
    BY DEF AreBacked
  <2>1. pool[p].available \in Int /\ pool[p].total \in Int
    BY <1>3 DEF PoolRecord
  <2> QED
    BY <2>1 DEF ValueInv, IsSoundPool, AvailableIsInTotal, IsBacked
<1> QED
  BY <1>1, <1>2, <1>3, <1>4

\* The invariant follows from what a step does.
LEMMA SoundStepKeepsInv ==
  ASSUME ValueInv, AvailableIsInTotal, MovesIndices, SoundStep, ClockInv'
  PROVE  ValueInv'
<1>1. /\ Inv /\ pool \in [Pools -> PoolRecord] /\ pool' \in [Pools -> PoolRecord]
      /\ DeployedInv' /\ TypeOK'
  BY PoolsAreBacked DEF ClockInv, DeployedInv, Inv, TypeOK
<1>2. ASSUME NEW p \in Pools
      PROVE  IsSoundPool(pool'[p]) /\ pool'[p].accrual >= pool[p].accrual
  <2>1. pool[p] \in PoolRecord /\ pool'[p] \in PoolRecord
    BY <1>1
  <2>2. /\ IsSoundPool(pool[p]) /\ pool[p].accrual >= 0
        /\ pool[p].available <= pool[p].total
        /\ pool[p].updated <= now /\ pool[p].multiplier = 1
    BY <2>1, ScaleAssumption DEF ValueInv, ClockInv, AvailableIsInTotal, IsSoundPool, PoolRecord
  <2>3. HasSameIndex(pool[p], pool'[p]) \/ IsUpToDate(pool[p], pool'[p], now)
    BY DEF MovesIndices, KeepsIndices, HasSameInterest
  <2>4. now \in Nat
    BY PoolsAreBacked
  <2>5. pool'[p].accrual >= pool[p].accrual /\ pool'[p].status = pool[p].status
    BY <2>1, <2>2, <2>3, <2>4, IndexFollows
  <2>6. pool'[p].available >= 0 /\ pool'[p].shares >= 0
    BY DEF SoundStep, KeepsValues, KeepsValue
  <2> QED
    BY <2>1, <2>2, <2>5, <2>6, ScaleAssumption DEF IsSoundPool, PoolRecord
<1>3. ASSUME NEW id \in DOMAIN loans'
      PROVE  IsSoundLoan(loans'[id], pool')
  <2>1. CASE id \in DOMAIN loans /\ loans'[id] = loans[id]
    <3>1. loans[id] \in LoanRecord
      BY <1>1, <2>1, LoansType DEF Inv
    <3>2. loans[id].from \in Pools /\ loans[id].lastAccrual \in Int
      BY <3>1 DEF LoanRecord
    <3>3. pool'[loans[id].from].accrual >= pool[loans[id].from].accrual
      BY <1>2, <3>2
    <3>4. pool'[loans[id].from].accrual \in Int /\ pool[loans[id].from].accrual \in Int
      BY <1>1, <3>2 DEF PoolRecord
    <3>5. IsSoundLoan(loans[id], pool)
      BY <2>1 DEF ValueInv
    <3>6. IsSoundLoan(loans[id], pool')
      BY <3>2, <3>3, <3>4, <3>5, ScaleAssumption DEF IsSoundLoan
    <3> QED
      BY <2>1, <3>6
  <2>2. CASE ~ (id \in DOMAIN loans /\ loans'[id] = loans[id])
    <3>1. RemembersIndex(loans'[id], pool') /\ HasDebt(loans'[id])
      BY <2>2 DEF MovesIndices, SoundStep
    <3>2. loans'[id].from \in Pools
      BY <3>1 DEF RemembersIndex
    <3>3. pool'[loans'[id].from].accrual \in Int /\ pool'[loans'[id].from].accrual >= DECIMAL
      BY <1>1, <1>2, <3>2 DEF PoolRecord, IsSoundPool
    <3> QED
      BY <3>1, <3>3, ScaleAssumption DEF IsSoundLoan, RemembersIndex, HasDebt
  <2> QED
    BY <2>1, <2>2
<1> QED
  BY <1>2, <1>3 DEF ValueInv

LEMMA SoundWithoutPools ==
  ASSUME ValueInv, AvailableIsInTotal, UNCHANGED <<pool, loans>>
  PROVE  SoundStep
<1>1. AreBacked(pool) /\ pool \in [Pools -> PoolRecord]
  BY PoolsAreBacked
<1>2. GrowsEverywhere(pool, pool)
  <2> SUFFICES ASSUME NEW p \in Pools
               PROVE  Grows(pool[p], pool[p])
    BY DEF GrowsEverywhere
  <2>1. pool[p] \in PoolRecord
    BY <1>1
  <2> QED
    BY <2>1 DEF Grows, PoolRecord
<1>3. KeepsValues(pool, pool)
  BY <1>1, <1>2, GrowthKeepsValues
<1> QED
  BY <1>3 DEF SoundStep

\* A call to one pool that keeps its lenders' value.
LEMMA PoolCallSound ==
  ASSUME ValueInv, AvailableIsInTotal, NEW p \in Pools, NEW record, KeepsValue(pool[p], record),
         pool' = [pool EXCEPT ![p] = record], UNCHANGED loans
  PROVE  SoundStep
<1>1. AreBacked(pool) /\ pool \in [Pools -> PoolRecord]
  BY PoolsAreBacked
<1>2. KeepsValues(pool, pool')
  BY <1>1, ValueInPlace
<1> QED
  BY <1>2 DEF SoundStep

\* admin_withdraw_revenue
LEMMA AdminWithdrawRevenueSound ==
  ASSUME ValueInv, AvailableIsInTotal, NEW p \in Pools, NEW a \in RevenueAmounts,
         AdminWithdrawRevenue(p, a)
  PROVE  SoundStep
<1> DEFINE t      == Move(pool[p].tokens, TheManager, TheAdmin, a)
           record == [pool[p] EXCEPT !.tokens = t]
<1>1. /\ TypeOK /\ Inv /\ AreBacked(pool) /\ pool \in [Pools -> PoolRecord] /\ now \in Nat
      /\ pool[p] \in PoolRecord
  BY PoolsAreBacked
<1>2. pool' = [pool EXCEPT ![p] = record] /\ UNCHANGED loans
  BY <1>1 DEF AdminWithdrawRevenue, bookVars
<1> HIDE DEF t
<1>3. KeepsValue(pool[p], record)
  <2>1. /\ record.total = pool[p].total
        /\ record.available = pool[p].available /\ record.shares = pool[p].shares
    BY <1>1 DEF PoolRecord
  <2>2. Grows(pool[p], pool[p])
    BY <1>1 DEF Grows, PoolRecord
  <2>3. KeepsValue(pool[p], pool[p])
    BY <1>1, <2>2, GrowthKeepsValue DEF AreBacked
  <2> QED
    BY <2>1, <2>3 DEF KeepsValue
<1> HIDE DEF record
<1> QED
  BY <1>2, <1>3, PoolCallSound

\* add_interest_to_accrual
LEMMA UpdateAccrualSound ==
  ASSUME ValueInv, AvailableIsInTotal, NEW p \in Pools, UpdateAccrual(p)
  PROVE  SoundStep
<1> DEFINE record == AddInterestToAccrual(pool[p], now)
<1>1. AreBacked(pool) /\ pool \in [Pools -> PoolRecord] /\ now \in Nat
  BY PoolsAreBacked
<1>2. pool' = [pool EXCEPT ![p] = record] /\ UNCHANGED loans
  BY DEF UpdateAccrual, bookVars
<1>3. record \in PoolRecord
  BY <1>1, AddInterestType
<1>4. Grows(pool[p], record)
  BY <1>1 DEF AddInterestToAccrual, Grows, PoolRecord
<1> HIDE DEF record
<1>5. KeepsValue(pool[p], record)
  BY <1>1, <1>3, <1>4, GrowthKeepsValue DEF AreBacked
<1> QED
  BY <1>2, <1>5, PoolCallSound

\* deposit
LEMMA UserDepositSound ==
  ASSUME ValueInv, AvailableIsInTotal, NEW u \in Users, NEW p \in Pools,
         NEW a \in DepositAmounts, UserDeposit(u, p, a)
  PROVE  SoundStep
<1> DEFINE record == Deposit(pool[p], now, u, a)
<1>1. /\ AreBacked(pool) /\ pool \in [Pools -> PoolRecord] /\ now \in Nat
      /\ DepositOK(pool[p], u, a) /\ pool[p] \in PoolRecord /\ a \in Int
  BY PoolsAreBacked, AmountsAssumption DEF UserDeposit
<1>2. a \in Nat
  BY <1>1 DEF DepositOK
<1>3. pool' = [pool EXCEPT ![p] = record] /\ UNCHANGED loans
  BY DEF UserDeposit, bookVars
<1>4. record \in PoolRecord
  BY <1>1, DepositType
<1>5. IsEntry(pool[p], record, u, a, a, SharesIssued(pool[p], a), 0, 0)
  BY <1>1, DepositEntry
<1> HIDE DEF record
<1>6. KeepsValue(pool[p], record)
  BY <1>1, <1>2, <1>4, <1>5, DepositKeepsValue DEF IsEntry, AreBacked
<1> QED
  BY <1>3, <1>6, PoolCallSound

\* withdraw
LEMMA UserWithdrawSound ==
  ASSUME ValueInv, AvailableIsInTotal, NEW u \in Users, NEW p \in Pools,
         NEW a \in WithdrawAmounts, UserWithdraw(u, p, a)
  PROVE  SoundStep
<1> DEFINE record == WithdrawInternal(pool[p], now, u, a)
<1>1. /\ AreBacked(pool) /\ pool \in [Pools -> PoolRecord] /\ now \in Nat
      /\ WithdrawInternalOK(pool[p], u, a) /\ pool[p] \in PoolRecord /\ a \in Int
  BY PoolsAreBacked, AmountsAssumption DEF UserWithdraw, WithdrawOK
<1>2. a \in Nat /\ a <= pool[p].available /\ pool[p].total # 0
  BY <1>1 DEF WithdrawInternalOK, CanMove
<1>3. pool' = [pool EXCEPT ![p] = record] /\ UNCHANGED loans
  BY DEF UserWithdraw, bookVars
<1>4. record \in PoolRecord
  BY <1>1, WithdrawInternalType
<1>5. IsEntry(pool[p], record, u, -a, -a, -SharesBurned(pool[p], a), 0, 0)
  BY <1>1, <1>2, WithdrawInternalEntry
<1> HIDE DEF record
<1>6. /\ pool[p].total \in Int /\ pool[p].available \in Int /\ pool[p].shares \in Int
      /\ SharesBurned(pool[p], a) \in Int
  BY <1>1, <1>2, SharesInt DEF PoolRecord
<1>7. /\ record.total = pool[p].total - a /\ record.available = pool[p].available - a
      /\ record.shares = pool[p].shares - SharesBurned(pool[p], a)
  BY <1>1, <1>5, <1>6 DEF IsEntry
<1>8. KeepsValue(pool[p], record)
  BY <1>1, <1>2, <1>4, <1>7, WithdrawKeepsValue DEF AreBacked
<1> QED
  BY <1>3, <1>8, PoolCallSound

\* deposit_collateral
LEMMA UserDepositCollateralSound ==
  ASSUME ValueInv, AvailableIsInTotal, NEW u \in Users, NEW p \in Pools,
         NEW a \in StrayAmounts, UserDepositCollateral(u, p, a)
  PROVE  SoundStep
<1> DEFINE record == DepositCollateral(pool[p], now, u, a)
<1>1. /\ AreBacked(pool) /\ pool \in [Pools -> PoolRecord] /\ now \in Nat
      /\ DepositCollateralOK(pool[p], now, u, a) /\ pool[p] \in PoolRecord /\ a \in Int
  BY PoolsAreBacked, AmountsAssumption DEF UserDepositCollateral
<1>2. pool' = [pool EXCEPT ![p] = record] /\ UNCHANGED loans
  BY DEF UserDepositCollateral, bookVars
<1>3. KeepsValue(pool[p], record)
  BY <1>1, DepositCollateralKeepsValue DEF AreBacked
<1> HIDE DEF record
<1> QED
  BY <1>2, <1>3, PoolCallSound

\* A debt grows with the index, and only with it.
LEMMA DebtGrows ==
  ASSUME ValueInv, AvailableIsInTotal, NEW id \in DOMAIN loans
  PROVE  /\ CurrentAccrual(id) \in Int /\ loans[id].lastAccrual \in Nat \ {0}
         /\ loans[id].lastAccrual <= CurrentAccrual(id)
         /\ GrownDebt(id) \in Nat /\ loans[id].borrowed \in Nat \ {0}
         /\ loans[id].borrowed <= GrownDebt(id)
         /\ CurrentAccrual(id) = loans[id].lastAccrual => GrownDebt(id) = loans[id].borrowed
<1> DEFINE p       == loans[id].from
           former  == loans[id].lastAccrual
           current == CurrentAccrual(id)
           growth  == TruncDiv(current * DECIMAL, former)
           owed    == loans[id].borrowed
<1> USE ScaleAssumption
<1>1. /\ TypeOK /\ AreBacked(pool) /\ pool \in [Pools -> PoolRecord] /\ now \in Nat
      /\ loans[id] \in LoanRecord
  BY PoolsAreBacked, LoansType
<1>2. p \in Pools /\ former \in Int /\ owed \in Int
  BY <1>1 DEF LoanRecord
<1>3. pool[p] \in PoolRecord /\ pool[p].accrual \in Int
  BY <1>1, <1>2 DEF PoolRecord
<1>4. owed > 0 /\ former >= DECIMAL /\ former <= pool[p].accrual
  BY <1>2, <1>3 DEF ValueInv, IsSoundLoan
<1>5. current \in Int
  BY <1>1, <1>2, <1>4, GrownDebtInt
<1>6. current >= pool[p].accrual
  <2>1. AddInterestToAccrual(pool[p], now) \in PoolRecord
    BY <1>1, <1>3, AddInterestType
  <2>2. IsUpToDate(pool[p], AddInterestToAccrual(pool[p], now), now)
    BY DEF IsUpToDate, HasSameIndex
  <2>3. /\ pool[p].accrual >= 0 /\ pool[p].available <= pool[p].total
        /\ pool[p].updated <= now /\ pool[p].multiplier = 1
    BY <1>1, <1>2, <1>3 DEF ValueInv, ClockInv, IsSoundPool, AvailableIsInTotal
  <2> HIDE DEF p
  <2> QED
    BY <1>1, <1>3, <2>1, <2>2, <2>3, IndexFollows DEF CurrentAccrual, p
<1>7. GrownDebt(id) = TruncDiv(owed * growth, DECIMAL)
  BY DEF GrownDebt
<1> HIDE DEF p, former, current, owed
<1>8. growth \in Nat /\ DECIMAL <= growth
  <2>1. current * DECIMAL \in Nat /\ former \in Nat \ {0}
    BY <1>2, <1>3, <1>4, <1>5, <1>6
  <2>2. DECIMAL * former <= DECIMAL * current
    BY <1>2, <1>3, <1>4, <1>5, <1>6, ProductGrows
  <2>3. former * DECIMAL <= current * DECIMAL
    BY <1>2, <1>5, <2>2
  <2> DEFINE grown == current * DECIMAL
  <2>4. grown \in Nat /\ former * DECIMAL <= grown
    BY <2>1, <2>3
  <2> HIDE DEF grown
  <2>5. TruncDiv(grown, former) \in Nat
    BY <2>1, <2>4, TruncDivNat
  <2>6. DECIMAL \in Int
    OBVIOUS
  <2>7. DECIMAL <= TruncDiv(grown, former)
    BY ONLY <2>1, <2>4, <2>6, TruncDivAtLeast
  <2> QED
    BY <2>5, <2>7 DEF grown
<1>9. current = former => growth = DECIMAL
  <2>1. former \in Nat \ {0} /\ DECIMAL \in Nat
    BY <1>2, <1>4
  <2>2. TruncDiv(former * DECIMAL, former) = DECIMAL
    BY <2>1, TruncDivExact
  <2> QED
    BY <2>2
<1> HIDE DEF growth
<1>10. GrownDebt(id) \in Nat /\ owed <= GrownDebt(id)
  <2>1. owed * growth \in Nat
    BY <1>2, <1>4, <1>8
  <2>2. owed * DECIMAL <= owed * growth
    BY <1>2, <1>4, <1>8, ProductGrows
  <2>3. DECIMAL * owed <= owed * growth
    BY <1>2, <2>2
  <2> QED
    BY <1>2, <1>7, <2>1, <2>3, TruncDivNat, TruncDivAtLeast
<1>11. current = former => GrownDebt(id) = owed
  <2> SUFFICES ASSUME growth = DECIMAL
               PROVE  GrownDebt(id) = owed
    BY <1>9
  <2>1. owed \in Nat /\ DECIMAL \in Nat \ {0} /\ owed * DECIMAL = DECIMAL * owed
    BY <1>2, <1>4
  <2>2. TruncDiv(DECIMAL * owed, DECIMAL) = owed
    BY <2>1, TruncDivExact
  <2> QED
    BY <1>7, <2>1, <2>2
<1> QED
  BY <1>2, <1>3, <1>4, <1>5, <1>6, <1>10, <1>11 DEF former, current, owed

\* What add_interest makes of a loan.
LEMMA GrownLoanIsSound ==
  ASSUME ValueInv, AvailableIsInTotal, NEW id \in DOMAIN loans, AddInterestOK(id)
  PROVE  LoanWithInterest(id).borrowed \in Nat \ {0} /\ LoanWithInterest(id).unpaid \in Nat
<1>1. TypeOK /\ loans[id] \in LoanRecord
  BY PoolsAreBacked, LoansType
<1>2. loans[id].unpaid \in Int /\ loans[id].unpaid >= 0
  BY <1>1 DEF LoanRecord, ValueInv, IsSoundLoan
<1>3. /\ LoanWithInterest(id).borrowed = GrownDebt(id)
      /\ LoanWithInterest(id).unpaid = loans[id].unpaid + (GrownDebt(id) - loans[id].borrowed)
  BY <1>1, LoanWithInterestType DEF LoanWithInterest, LoanRecord
<1>4. /\ GrownDebt(id) \in Nat /\ loans[id].borrowed \in Nat \ {0}
      /\ loans[id].borrowed <= GrownDebt(id)
  BY DebtGrows
<1> QED
  BY <1>2, <1>3, <1>4

\* A loan that is brought up to date, and still owes something.
LEMMA WriteIsSound ==
  ASSUME ValueInv, AvailableIsInTotal, NEW id \in DOMAIN loans, NEW loan,
         Book!WriteEntry(id, loan), HasDebt(loan), GrowsEverywhere(pool, pool'),
         pool' \in [Pools -> PoolRecord]
  PROVE  SoundStep
<1>1. AreBacked(pool) /\ pool \in [Pools -> PoolRecord]
  BY PoolsAreBacked
<1>2. KeepsValues(pool, pool')
  BY <1>1, GrowthKeepsValues
<1>3. /\ DOMAIN loans' = DOMAIN loans /\ loans'[id] = loan
      /\ \A j \in DOMAIN loans : j # id => loans'[j] = loans[j]
  BY DEF Book!WriteEntry
<1> QED
  BY <1>2, <1>3 DEF SoundStep

\* No books change with interest.
LEMMA InterestGrows ==
  ASSUME TypeOK, NEW id \in DOMAIN loans, AddInterestOK(id)
  PROVE  GrowsEverywhere(pool, AfterInterest(id)) /\ AfterInterest(id) \in [Pools -> PoolRecord]
<1>1. /\ pool \in [Pools -> PoolRecord] /\ loans[id].from \in Pools /\ Owner(id) \in Users
  BY LoansType DEF TypeOK, LoanRecord
<1>2. IsPoolEntry(pool, AfterInterest(id), loans[id].from, Owner(id),
                  0, 0, 0, LiabilityGrowth(id), 0)
  BY InterestEntries
<1>3. GrowsEverywhere(pool, AfterInterest(id))
  BY <1>1, <1>2, EntryGrows
<1> QED
  BY <1>3, AfterInterestType

\* The manager's fee is part of the interest, and that of the payment.
LEMMA FeeIsPart ==
  ASSUME NEW amount \in Nat, NEW unpaid \in Nat
  PROVE  /\ AdminFee(amount, unpaid) \in Nat
         /\ AdminFee(amount, unpaid) <= InterestPart(amount, unpaid)
         /\ InterestPart(amount, unpaid) \in Nat
         /\ InterestPart(amount, unpaid) <= amount
         /\ InterestPart(amount, unpaid) <= unpaid
<1> DEFINE part == InterestPart(amount, unpaid)
<1>1. part \in Nat /\ part <= amount /\ part <= unpaid
  BY DEF InterestPart, Smaller
<1>2. AdminFee(amount, unpaid) = TruncDiv(part, 10)
  BY DEF AdminFee
<1> HIDE DEF part
<1>3. TruncDiv(part, 10) \in Nat /\ 10 * TruncDiv(part, 10) <= part
  BY <1>1, TruncDivNat
<1> QED
  BY <1>1, <1>2, <1>3 DEF part

\* add_interest
LEMMA AddInterestSound ==
  ASSUME ValueInv, AvailableIsInTotal, NEW id \in DOMAIN loans, AddInterest(id)
  PROVE  SoundStep
<1>1. /\ AddInterestOK(id) /\ pool' = AfterInterest(id)
      /\ Book!WriteEntry(id, LoanWithInterest(id))
  BY DEF AddInterest
<1>2. TypeOK
  BY PoolsAreBacked
<1>3. HasDebt(LoanWithInterest(id))
  BY <1>1, GrownLoanIsSound DEF HasDebt
<1>4. GrowsEverywhere(pool, pool') /\ pool' \in [Pools -> PoolRecord]
  BY <1>1, <1>2, InterestGrows
<1> QED
  BY <1>1, <1>3, <1>4, WriteIsSound

\* repay
LEMMA ManagerRepaySound ==
  ASSUME ValueInv, AvailableIsInTotal, NEW id \in DOMAIN loans, NEW a \in RepayAmounts,
         ManagerRepay(id, a)
  PROVE  SoundStep
<1> DEFINE p      == loans[id].from
           mid    == AfterInterest(id)
           grown  == LoanWithInterest(id)
           u      == Owner(id)
           fee    == AdminFee(a, grown.unpaid)
           left   == grown.borrowed - a
<1>1. /\ ManagerRepayOK(id, a) /\ AddInterestOK(id) /\ a \in Int
  BY AmountsAssumption DEF ManagerRepay, ManagerRepayOK
<1>2. /\ TypeOK /\ p \in Pools /\ u \in Users
      /\ pool \in [Pools -> PoolRecord]
  BY PoolsAreBacked, LoansType DEF LoanRecord
<1>3. /\ grown.borrowed \in Nat /\ grown.unpaid \in Nat /\ grown.from = p
      /\ grown \in LoanRecord
  BY <1>1, <1>2, LoanWithInterestType, GrownLoanIsSound
<1>4. /\ RepayOK(mid[p], u, a, grown.unpaid) /\ a <= grown.borrowed
      /\ HasHealthFactor(p, left, grown.collateralFrom)
  BY <1>1, <1>3 DEF ManagerRepayOK, IsWithinDebt
<1>5. PICK health :
        Book!WriteEntry(id, [grown EXCEPT !.borrowed = left,
                                          !.unpaid = UnpaidAfter(grown.unpaid, a),
                                          !.health = health])
  BY <1>3 DEF ManagerRepay, LoanRecord
<1> HIDE DEF grown, p
<1> DEFINE loan == [grown EXCEPT !.borrowed = left, !.unpaid = UnpaidAfter(grown.unpaid, a),
                                 !.health = health]
<1>6. mid \in [Pools -> PoolRecord] /\ GrowsEverywhere(pool, mid)
  BY <1>1, <1>2, InterestGrows DEF p
<1>7. pool' \in [Pools -> PoolRecord] /\ GrowsEverywhere(mid, pool')
  <2>1. a - fee >= 0 /\ fee >= 0
    BY <1>4 DEF RepayOK, CanMove
  <2>2. fee \in Int /\ a \in Nat
    <3>1. grown.unpaid \in Int
      BY <1>3
    <3>2. fee \in Int
      BY <1>1, <3>1, AdminFeeInt
    <3> HIDE DEF fee
    <3> QED
      BY <1>1, <2>1, <3>2
  <2> DEFINE interest  == InterestPart(a, grown.unpaid)
             principal == Smaller(a - interest, mid[p].positions[u].liabilities)
  <2>3. interest - fee \in Nat /\ a - fee \in Nat
    <3>1. fee \in Nat /\ fee <= interest /\ interest \in Nat /\ interest <= a
      BY <1>3, <2>2, FeeIsPart
    <3> HIDE DEF fee, interest
    <3> QED
      BY <2>2, <3>1
  <2>4. IsPoolEntry(mid, pool', p, u, interest - fee, a - fee, 0, -principal, 0)
    BY <1>2, ManagerRepayEntries DEF p, grown
  <2> HIDE DEF interest, principal, fee, mid
  <2>5. GrowsEverywhere(mid, pool')
    BY <1>2, <1>6, <2>3, <2>4, EntryGrows
  <2> QED
    BY <2>4, <2>5 DEF IsPoolEntry
<1> HIDE DEF mid
<1>8. GrowsEverywhere(pool, pool')
  BY <1>2, <1>6, <1>7, GrowsTwice
<1>9. HasDebt(loan)
  <2>1. left # 0
    BY <1>2 , <1>4 DEF HasHealthFactor, BorrowedValue, TypeOK
  <2>2. left > 0
    BY <1>1, <1>3, <1>4, <2>1
  <2>3. UnpaidAfter(grown.unpaid, a) >= 0
    BY <1>1, <1>3 DEF UnpaidAfter
  <2> QED
    BY <1>3, <2>2, <2>3 DEF LoanRecord, HasDebt
<1>10. Book!WriteEntry(id, loan)
  BY <1>5
<1> HIDE DEF loan
<1> QED
  BY <1>7, <1>8, <1>9, <1>10, WriteIsSound

\* repay_and_close_manager
LEMMA CloseLoanSound ==
  ASSUME ValueInv, AvailableIsInTotal, NEW id \in DOMAIN loans, NEW a \in AllowedAmounts,
         CloseLoan(id, a)
  PROVE  SoundStep
<1> DEFINE p     == loans[id].from
           q     == loans[id].collateralFrom
           mid   == AfterInterest(id)
           paid  == AfterClosePayment(id, a)
           grown == LoanWithInterest(id)
           u     == Owner(id)
           fee   == AdminFee(grown.borrowed, grown.unpaid)
<1>1. AddInterestOK(id) /\ Book!DeleteEntry(id)
  BY DEF CloseLoan, CloseLoanOK
<1>2. /\ TypeOK /\ p \in Pools /\ q \in Pools /\ u \in Users
      /\ pool \in [Pools -> PoolRecord] /\ AreBacked(pool)
  BY PoolsAreBacked, LoansType DEF LoanRecord
<1>3. grown.borrowed \in Nat /\ grown.unpaid \in Nat
  BY <1>1, GrownLoanIsSound
<1>4. /\ fee \in Int /\ mid \in [Pools -> PoolRecord] /\ paid \in [Pools -> PoolRecord]
      /\ IsPoolEntry(mid, paid, p, u, grown.unpaid - fee, grown.borrowed - fee,
                     0, -mid[p].positions[u].liabilities, 0)
      /\ IsPoolEntry(paid, pool', q, u, 0, 0, 0, 0, -loans[id].collateral)
  BY <1>2, CloseLoanEntries
<1>5. GrowsEverywhere(pool, mid)
  BY <1>1, <1>2, InterestGrows
<1>6. grown.unpaid - fee \in Nat /\ grown.borrowed - fee \in Nat
  <2> DEFINE interest == InterestPart(grown.borrowed, grown.unpaid)
  <2> HIDE DEF grown
  <2>1. /\ fee \in Nat /\ fee <= interest /\ interest \in Nat
        /\ interest <= grown.borrowed /\ interest <= grown.unpaid
    BY <1>3, FeeIsPart
  <2> HIDE DEF fee, interest
  <2> QED
    BY <1>3, <2>1
<1> HIDE DEF mid, paid, grown, p, q, u, fee
<1>7. pool' \in [Pools -> PoolRecord]
  BY <1>4 DEF IsPoolEntry
<1>8. GrowsEverywhere(mid, paid) /\ GrowsEverywhere(paid, pool')
  BY <1>2, <1>4, <1>6, EntryGrows
<1>9. KeepsValues(pool, pool')
  <2>1. GrowsEverywhere(pool, paid)
    BY <1>2, <1>4, <1>5, <1>8, GrowsTwice
  <2>2. GrowsEverywhere(pool, pool')
    BY <1>2, <1>4, <1>7, <1>8, <2>1, GrowsTwice
  <2> QED
    BY <1>2, <1>7, <2>2, GrowthKeepsValues
<1>10. DOMAIN loans' = DOMAIN loans \ {id} /\ \A j \in DOMAIN loans' : loans'[j] = loans[j]
  BY <1>1 DEF Book!DeleteEntry
<1> QED
  BY <1>9, <1>10 DEF SoundStep

\* liquidate
LEMMA LiquidateLoanSound ==
  ASSUME ValueInv, AvailableIsInTotal, NEW w \in Users, NEW id \in DOMAIN loans,
         NEW a \in LiquidateAmounts, LiquidateLoan(w, id, a)
  PROVE  SoundStep
<1> DEFINE p      == loans[id].from
           q      == loans[id].collateralFrom
           mid    == AfterInterest(id)
           paid   == AfterLiquidationPayment(w, id, a)
           grown  == LoanWithInterest(id)
           u      == Owner(id)
           fee    == AdminFee(a, grown.unpaid)
           seized == SeizedCollateral(p, q, a)
           loan   == LiquidatedLoan(id, a)
<1>1. /\ LiquidateLoanOK(w, id, a) /\ AddInterestOK(id)
      /\ Book!WriteEntry(id, loan) /\ a \in Int
  BY AmountsAssumption DEF LiquidateLoan, LiquidateLoanOK
<1>2. /\ TypeOK /\ p \in Pools /\ q \in Pools /\ u \in Users
      /\ pool \in [Pools -> PoolRecord]
  BY PoolsAreBacked, LoansType DEF LoanRecord
<1>3. /\ grown.borrowed \in Nat \ {0} /\ grown.unpaid \in Nat /\ grown.from = p
      /\ grown \in LoanRecord
  BY <1>1, <1>2, LoanWithInterestType, GrownLoanIsSound
<1>4. LiquidateOK(mid[p], w, a, grown.unpaid, u) /\ a < TruncDiv(grown.borrowed, 2)
  BY <1>1, <1>3 DEF LiquidateLoanOK
<1>5. /\ fee \in Int /\ seized \in Int
      /\ mid \in [Pools -> PoolRecord] /\ paid \in [Pools -> PoolRecord]
      /\ IsPoolEntry(mid, paid, p, u, 0, a - fee, 0, -a, 0)
      /\ IsPoolEntry(paid, pool', q, u, 0, 0, 0, 0, -seized)
  BY <1>2, LiquidateLoanEntries
<1>6. GrowsEverywhere(pool, mid)
  BY <1>1, <1>2, InterestGrows
<1>7. loan.unpaid = grown.unpaid /\ loan.borrowed = grown.borrowed - a
  BY <1>3 DEF LiquidatedLoan, LoanRecord
<1> HIDE DEF grown, loan
<1>8. a - fee \in Nat
  <2>1. a - fee >= 0
    BY <1>4 DEF LiquidateOK, CanMove
  <2> HIDE DEF fee
  <2> QED
    BY <1>1, <1>5, <2>1
<1>9. HasDebt(loan)
  <2>1. /\ TruncDiv(grown.borrowed, 2) \in Nat
        /\ 2 * TruncDiv(grown.borrowed, 2) <= grown.borrowed
    BY <1>3, TruncDivNat
  <2> QED
    BY <1>1, <1>3, <1>4, <1>7, <2>1 DEF HasDebt
<1> HIDE DEF mid, paid, p, q, u, fee, seized
<1>10. pool' \in [Pools -> PoolRecord]
  BY <1>5 DEF IsPoolEntry
<1>11. GrowsEverywhere(mid, paid) /\ GrowsEverywhere(paid, pool')
  BY <1>2, <1>5, <1>8, EntryGrows
<1>12. GrowsEverywhere(pool, pool')
  <2>1. GrowsEverywhere(pool, paid)
    BY <1>2, <1>5, <1>6, <1>11, GrowsTwice
  <2> QED
    BY <1>2, <1>5, <1>10, <1>11, <2>1, GrowsTwice
<1> QED
  BY <1>1, <1>9, <1>10, <1>12, WriteIsSound

\* create_loan
LEMMA CreateLoanSound ==
  ASSUME ValueInv, AvailableIsInTotal, NEW u \in Users, NEW p \in Pools, NEW q \in Pools,
         NEW b \in BorrowAmounts, NEW c \in CollateralAmounts, CreateLoan(u, p, b, q, c)
  PROVE  SoundStep
<1> DEFINE first   == DepositCollateral(pool[q], now, u, c)
           secured == AfterCollateral(u, q, c)
           lent    == Borrow(secured[p], now, u, b)
           health  == HealthFactor(p, b, q, c)
           loan    == [borrowed |-> b, from |-> p, collateral |-> c, collateralFrom |-> q,
                       health |-> health, unpaid |-> 0,
                       lastAccrual |-> AfterBorrow(u, p, b, q, c)[p].accrual]
<1>1. /\ TypeOK /\ now \in Nat /\ pool \in [Pools -> PoolRecord] /\ AreBacked(pool)
      /\ b \in Int /\ c \in Int
  BY PoolsAreBacked, AmountsAssumption
<1>2. /\ DepositCollateralOK(pool[q], now, u, c) /\ BorrowOK(secured[p], u, b)
      /\ HasHealthFactor(p, b, q) /\ Book!CreateEntry(u, loan)
      /\ pool' = AfterBorrow(u, p, b, q, c)
  BY DEF CreateLoan
<1>3. secured = [pool EXCEPT ![q] = first] /\ AfterBorrow(u, p, b, q, c) = [secured EXCEPT ![p] = lent]
  BY DEF AfterCollateral, AfterBorrow
<1>4. pool[q] \in PoolRecord /\ first \in PoolRecord
  BY <1>1, <1>2, DepositCollateralType
<1>5. KeepsValue(pool[q], first)
  BY <1>1, <1>2, <1>4, DepositCollateralKeepsValue DEF AreBacked
<1> HIDE DEF first, secured, loan
<1>6. secured \in [Pools -> PoolRecord] /\ KeepsValues(pool, secured)
  <2>1. secured \in [Pools -> PoolRecord]
    BY <1>1, <1>3, <1>4
  <2>2. KeepsValues(pool, [pool EXCEPT ![q] = first])
    BY <1>1, <1>5, ValueInPlace
  <2> QED
    BY <1>3, <2>1, <2>2
<1>7. secured[p] \in PoolRecord
  BY <1>6
<1>8. IsEntry(secured[p], lent, u, 0, -b, 0, b, 0)
  BY <1>1, <1>2, <1>7, BorrowType, BorrowEntry
<1>9. /\ secured[p].available \in Int /\ secured[p].total \in Int /\ secured[p].shares \in Int
      /\ b < secured[p].available /\ b >= 0
  BY <1>2, <1>7 DEF BorrowOK, CanMove, PoolRecord
<1> HIDE DEF lent
<1>10. /\ lent.total = secured[p].total /\ lent.shares = secured[p].shares
       /\ lent.available >= 0
  BY <1>1, <1>8, <1>9 DEF IsEntry
<1>11. KeepsValues(pool, pool')
  <2> SUFFICES ASSUME NEW r \in Pools
               PROVE  KeepsValue(pool[r], pool'[r])
    BY DEF KeepsValues
  <2>1. KeepsValue(pool[r], secured[r])
    BY <1>6 DEF KeepsValues
  <2>2. CASE r = p
    <3>1. pool'[r] = lent
      BY <1>2, <1>3, <1>6, <2>2
    <3> QED
      BY <1>10, <2>1, <2>2, <3>1 DEF KeepsValue
  <2>3. CASE r # p
    <3>1. pool'[r] = secured[r]
      BY <1>2, <1>3, <1>6, <2>3
    <3> QED
      BY <2>1, <3>1
  <2> QED
    BY <2>2, <2>3
<1>12. HasDebt(loan)
  <2>1. b # 0
    BY <1>1, <1>2 DEF HasHealthFactor, BorrowedValue, TypeOK
  <2> QED
    BY <1>1, <1>2, <1>9, <2>1 DEF HasDebt, loan
<1>13. ASSUME NEW id \in DOMAIN loans'
       PROVE  \/ id \in DOMAIN loans /\ loans'[id] = loans[id]
              \/ loans'[id] = loan
  BY <1>2 DEF Book!CreateEntry
<1> QED
  BY <1>11, <1>12, <1>13 DEF SoundStep

\* Every step but the deployment of a pool is sound.
LEMMA StepIsSound ==
  ASSUME ValueInv, AvailableIsInTotal, [Next]_vars
  PROVE  (MovesIndices /\ SoundStep) \/ \E p \in Pools : DeployPool(p)
<1>1. TypeOK
  BY PoolsAreBacked
<1>2. ASSUME \/ UNCHANGED vars
             \/ \E t \in Elapses : Elapse(t)
             \/ \E p, average, latest : UpdatePrice(p, average, latest)
             \/ InitializeManager
      PROVE  SoundStep
  BY <1>2, SoundWithoutPools
     DEF vars, worldVars, bookVars, Elapse, UpdatePrice, InitializeManager
<1>3. SoundStep \/ \E p \in Pools : DeployPool(p)
  BY <1>2, AdminWithdrawRevenueSound, UserDepositSound, UserWithdrawSound,
     UserDepositCollateralSound, UpdateAccrualSound, CreateLoanSound, AddInterestSound,
     ManagerRepaySound, CloseLoanSound, LiquidateLoanSound DEF Next
<1> QED
  BY <1>1, <1>3, StepMoves

\* deploy_pool: the books of the new pool begin, and no loan is from it.
LEMMA DeployPoolKeepsValueInv ==
  ASSUME ValueInv, ClockInv', NEW p \in Pools, DeployPool(p)
  PROVE  ValueInv'
<1>1. DeployedInv /\ \A q \in Pools : q # p => pool'[q] = pool[q]
  BY DeployPoolBegins DEF ValueInv, ClockInv
<1>2. pool'[p] = Initialize(pool[p].tokens, now) /\ loans' = loans /\ p \notin deployed
  BY <1>1, DeployPoolBegins
<1>3. IsSoundPool(pool'[p])
  BY <1>2, ScaleAssumption DEF IsSoundPool, Initialize
<1>4. \A q \in Pools : IsSoundPool(pool'[q])
  BY <1>1, <1>3 DEF ValueInv
<1>5. ASSUME NEW id \in DOMAIN loans
      PROVE  IsSoundLoan(loans[id], pool')
  <2>1. loans[id].from \in Pools /\ loans[id].from # p
    BY <1>1, <1>2, DeployPoolBegins
  <2> QED
    BY <1>1, <2>1 DEF ValueInv, IsSoundLoan
<1> QED
  BY <1>2, <1>4, <1>5 DEF ValueInv

LEMMA ValueStep ==
  ASSUME ValueInv, AvailableIsInTotal, [Next]_vars
  PROVE  ValueInv'
<1>1. ClockInv'
  BY ClockStep DEF ValueInv
<1> QED
  BY <1>1, StepIsSound, SoundStepKeepsInv, DeployPoolKeepsValueInv

LEMMA ValueInit == Init => ValueInv
<1> SUFFICES ASSUME Init
             PROVE  ValueInv
  OBVIOUS
<1>1. \A p \in Pools : IsSoundPool(pool[p])
  BY ScaleAssumption DEF Init, Initialize, IsSoundPool
<1>2. DOMAIN loans = {}
  BY DEF Init, Book!BookInit
<1> QED
  BY <1>1, <1>2, ClockInit DEF ValueInv

LEMMA ValueIsKept == Spec /\ []AvailableIsInTotal => []ValueInv
BY ValueInit, ValueStep, PTL DEF Spec

\* No step takes value from the lenders but by rounding, and by less than one
\* share's worth for the whole pool.
THEOREM LendersAreNotRobbed == Spec /\ []AvailableIsInTotal => LendersKeepTheirValue
<1> DEFINE Kept ==
             \A p \in deployed :
               pool'[p].total * pool[p].shares + pool[p].total
                 >= pool[p].total * pool'[p].shares
<1>1. ASSUME ValueInv, AvailableIsInTotal, [Next]_vars
      PROVE  Kept
  <2>1. /\ pool \in [Pools -> PoolRecord] /\ AreBacked(pool) /\ deployed \subseteq Pools
    BY <1>1, PoolsAreBacked DEF TypeOK
  <2>2. DeployedInv
    BY <1>1 DEF ValueInv, ClockInv
  <2> SUFFICES ASSUME NEW p \in deployed
               PROVE  KeepsValue(pool[p], pool'[p])
    BY DEF KeepsValue
  <2>3. pool[p] \in PoolRecord /\ p \in Pools
    BY <2>1
  <2>4. CASE SoundStep
    BY <2>3, <2>4 DEF SoundStep, KeepsValues
  <2>5. CASE \E q \in Pools : DeployPool(q)
    <3>1. pool'[p] = pool[p]
      BY <2>2, <2>3, <2>5, DeployPoolBegins
    <3>2. Grows(pool[p], pool'[p])
      BY <2>3, <3>1 DEF Grows, PoolRecord
    <3> QED
      BY <2>1, <2>3, <3>1, <3>2, GrowthKeepsValue DEF AreBacked
  <2> QED
    BY <1>1, <2>4, <2>5, StepIsSound
<1>2. LendersKeepTheirValue <=> [][Kept]_vars
  BY DEF LendersKeepTheirValue
<1> QED
  BY <1>1, <1>2, ValueIsKept, PTL DEF Spec

-----------------------------------------------------------------------------
(* What the hypothesis of these theorems rests on.                         *)

FeesAreNatural == \A p \in Pools : liquidationFees[p] >= 0

LEMMA FeesStayNatural ==
  ASSUME TypeOK, FeesAreNatural, [Next]_vars
  PROVE  FeesAreNatural'
<1>1. liquidationFees \in [Pools -> Int]
  BY DEF TypeOK
<1>2. CASE UNCHANGED liquidationFees
  BY <1>2 DEF FeesAreNatural
<1>3. ASSUME NEW w \in Users, NEW id \in DOMAIN loans, NEW a \in LiquidateAmounts,
             LiquidateLoan(w, id, a)
      PROVE  FeesAreNatural'
  <2> DEFINE p   == LoanWithInterest(id).from
             fee == AdminFee(a, LoanWithInterest(id).unpaid)
  <2>1. fee >= 0
    BY <1>3 DEF LiquidateLoan, LiquidateLoanOK, LiquidateOK, CanMove
  <2>2. fee \in Int
    BY <1>3, LiquidateLoanEntries
  <2>3. liquidationFees' = [liquidationFees EXCEPT ![p] = @ + fee]
    BY <1>3 DEF LiquidateLoan
  <2> HIDE DEF p, fee
  <2> QED
    BY <1>1, <2>1, <2>2, <2>3 DEF FeesAreNatural
<1>4. UNCHANGED liquidationFees
      \/ \E w \in Users, id \in DOMAIN loans, a \in LiquidateAmounts : LiquidateLoan(w, id, a)
  <2>1. \A t : Elapse(t) => UNCHANGED liquidationFees
    BY DEF Elapse
  <2>2. \A p, average, latest : UpdatePrice(p, average, latest) => UNCHANGED liquidationFees
    BY DEF UpdatePrice
  <2>3. InitializeManager => UNCHANGED liquidationFees
    BY DEF InitializeManager
  <2>4. \A p : \/ DeployPool(p)
               \/ UpdateAccrual(p)
               \/ \E a : AdminWithdrawRevenue(p, a)
             => UNCHANGED liquidationFees
    BY DEF DeployPool, UpdateAccrual, AdminWithdrawRevenue
  <2>5. \A u, p, a : UserDeposit(u, p, a) \/ UserWithdraw(u, p, a) \/ UserDepositCollateral(u, p, a)
                     => UNCHANGED liquidationFees
    BY DEF UserDeposit, UserWithdraw, UserDepositCollateral
  <2>6. \A u, p, q, b, c : CreateLoan(u, p, b, q, c) => UNCHANGED liquidationFees
    BY DEF CreateLoan
  <2>7. \A id, a : AddInterest(id) \/ ManagerRepay(id, a) \/ CloseLoan(id, a)
                   => UNCHANGED liquidationFees
    BY DEF AddInterest, ManagerRepay, CloseLoan
  <2> QED
    BY <2>1, <2>2, <2>3, <2>4, <2>5, <2>6, <2>7 DEF Next, vars
<1> QED
  BY <1>2, <1>3, <1>4

\* As long as no loan's unpaid interest is more than its debt, no pool has more
\* available than its total: what it has lent is the principal of its loans.
THEOREM CoveredInterestKeepsAvailable == Spec => [](InterestIsCovered => AvailableIsInTotal)
<1>1. ASSUME DeployedInv, LentIsOwed, FeesAreNatural, InterestIsCovered
      PROVE  AvailableIsInTotal
  <2> SUFFICES ASSUME NEW p \in Pools
               PROVE  pool[p].available <= pool[p].total
    BY DEF AvailableIsInTotal
  <2>1. /\ TypeOK /\ pool[p].available \in Int /\ pool[p].total \in Int
        /\ liquidationFees[p] \in Int /\ nonce \in [Users -> Nat]
    BY <1>1 DEF DeployedInv, Inv, TypeOK, PoolRecord, Book!BookTypeOK
  <2>2. \A i \in Users \X Nat : PrincipalAt(loans, p)[i] \in Nat
    <3> SUFFICES ASSUME NEW i \in Users \X Nat
                 PROVE  PrincipalAt(loans, p)[i] \in Nat
      OBVIOUS
    <3>1. CASE i \in DOMAIN loans
      <4>1. loans[i].borrowed \in Int /\ loans[i].unpaid \in Int
        BY <2>1, <3>1, LoansType DEF LoanRecord
      <4>2. loans[i].unpaid <= loans[i].borrowed
            BY <1>1, <3>1 DEF InterestIsCovered, IsCovered
      <4> QED
        BY <4>1, <4>2 DEF PrincipalAt
    <3>2. CASE i \notin DOMAIN loans
      BY <3>2 DEF PrincipalAt
    <3> QED
      BY <3>1, <3>2
  <2>3. ASSUME NEW u \in Users
        PROVE  PrincipalOf(u, p) \in Nat
    <3> DEFINE row == [k \in 1 .. nonce[u] |-> PrincipalAt(loans, p)[<<u, k>>]]
    <3>1. PrincipalOf(u, p) = SumTo(row, nonce[u])
      BY <2>1, PrincipalIsRow DEF RowSum
    <3>2. \A k \in 1 .. nonce[u] : row[k] \in Nat
      BY <2>1, <2>2
    <3> HIDE DEF row
    <3> QED
      BY <2>1, <3>1, <3>2, SumNat
  <2>4. Principal(p) \in Nat
    <3> DEFINE all == [u \in Users |-> PrincipalOf(u, p)]
    <3>1. Principal(p) = SumTo(all, NumUsers)
      BY DEF Principal, OverUsers
    <3>2. \A u \in 1 .. NumUsers : all[u] \in Nat
      BY <2>3 DEF Users
    <3> HIDE DEF all
    <3> QED
      BY <3>1, <3>2, SumNat, UsersAssumption
  <2>5. pool[p].total - pool[p].available = Principal(p) + liquidationFees[p]
    BY <1>1 DEF LentIsOwed
  <2>6. liquidationFees[p] >= 0
    BY <1>1 DEF FeesAreNatural
  <2> HIDE DEF Principal
  <2> QED
    BY <2>1, <2>4, <2>5, <2>6
<1>2. DeployedInv => TypeOK
  BY DEF DeployedInv, Inv
<1>3. Init => FeesAreNatural
  BY DEF Init, FeesAreNatural
<1>4. DeployedInv /\ FeesAreNatural /\ [Next]_vars => FeesAreNatural'
  BY <1>2, FeesStayNatural
<1>5. Spec => []DeployedInv /\ []FeesAreNatural
  BY <1>3, <1>4, DeployedInit, DeployedStep, PTL DEF Spec
<1> QED
  BY <1>1, <1>5, LentStaysOwed, PTL

\* No loan's unpaid interest comes to be more than its debt.
StaysCovered ==
  \A id \in DOMAIN loans' : IsCovered(id)' \/ (id \in DOMAIN loans /\ ~IsCovered(id))

\* Where one loan changes, the others' interest stays covered.
LEMMA WriteStaysCovered ==
  ASSUME NEW id \in DOMAIN loans, NEW loan, Book!WriteEntry(id, loan),
         IsCovered(id) => loan.unpaid <= loan.borrowed
  PROVE  StaysCovered
<1>1. /\ DOMAIN loans' = DOMAIN loans /\ loans'[id] = loan
      /\ \A j \in DOMAIN loans : j # id => loans'[j] = loans[j]
  BY DEF Book!WriteEntry
<1> QED
  BY <1>1 DEF StaysCovered, IsCovered

\* Interest up to now adds as much to the debt as to what is unpaid of it.
LEMMA GrownStaysCovered ==
  ASSUME TypeOK, NEW id \in DOMAIN loans, AddInterestOK(id), IsCovered(id)
  PROVE  LoanWithInterest(id).unpaid <= LoanWithInterest(id).borrowed
BY GrownLoan DEF IsCovered

\* repay: what is paid goes to interest first.
LEMMA RepayStaysCovered ==
  ASSUME TypeOK, NEW id \in DOMAIN loans, NEW a \in RepayAmounts, ManagerRepay(id, a)
  PROVE  StaysCovered
<1> DEFINE grown == LoanWithInterest(id)
           left  == grown.borrowed - a
           kept  == UnpaidAfter(grown.unpaid, a)
<1>1. AddInterestOK(id) /\ a <= grown.borrowed /\ a \in Int
  BY AmountsAssumption DEF ManagerRepay, ManagerRepayOK, IsWithinDebt
<1>2. /\ grown \in LoanRecord /\ grown.borrowed \in Int /\ grown.unpaid \in Int
      /\ IsCovered(id) => grown.unpaid <= grown.borrowed
  BY <1>1, LoanWithInterestType, GrownLoan, GrownStaysCovered
<1>3. PICK health : Book!WriteEntry(id, [grown EXCEPT !.borrowed = left, !.unpaid = kept,
                                                      !.health = health])
  BY <1>2 DEF ManagerRepay, LoanRecord
<1>4. IsCovered(id) => kept <= left
  BY <1>1, <1>2 DEF UnpaidAfter
<1> HIDE DEF grown, left, kept
<1> DEFINE loan == [grown EXCEPT !.borrowed = left, !.unpaid = kept, !.health = health]
<1>5. loan.unpaid = kept /\ loan.borrowed = left
  BY <1>2 DEF LoanRecord
<1>6. Book!WriteEntry(id, loan)
  BY <1>3
<1> HIDE DEF loan
<1> QED
  BY <1>4, <1>5, <1>6, WriteStaysCovered

\* What a step does to the loans, if it is not a liquidation.
LEMMA CoveredStep ==
  ASSUME DeployedInv, [Next]_vars,
         ~ \E u \in Users, id \in DOMAIN loans, a \in LiquidateAmounts : LiquidateLoan(u, id, a)
  PROVE  StaysCovered
<1>1. TypeOK /\ UndeployedAreBlank
  BY DEF DeployedInv, Inv
<1>2. CASE QuietStep \/ LenderStep
  BY <1>2 DEF QuietStep, LenderStep, StaysCovered, IsCovered
<1>3. ASSUME NEW u \in Users, NEW p \in Pools, NEW q \in Pools,
             NEW b \in BorrowAmounts, NEW c \in CollateralAmounts, CreateLoan(u, p, b, q, c)
      PROVE  StaysCovered
  <2>1. b >= 0
    BY <1>3 DEF CreateLoan, BorrowOK, CanMove
  <2>2. PICK loan : Book!CreateEntry(u, loan) /\ loan.unpaid = 0 /\ loan.borrowed = b
    BY <1>3 DEF CreateLoan
  <2>3. \A j \in DOMAIN loans' :
          loans'[j] = loan \/ (j \in DOMAIN loans /\ loans'[j] = loans[j])
    BY <2>2 DEF Book!CreateEntry
  <2> QED
    BY <2>1, <2>2, <2>3 DEF StaysCovered, IsCovered
<1>4. ASSUME NEW id \in DOMAIN loans, AddInterest(id)
      PROVE  StaysCovered
  <2>1. AddInterestOK(id) /\ Book!WriteEntry(id, LoanWithInterest(id))
    BY <1>4 DEF AddInterest
  <2> QED
    BY <1>1, <2>1, GrownStaysCovered, WriteStaysCovered
<1>5. ASSUME NEW id \in DOMAIN loans, NEW a \in AllowedAmounts, CloseLoan(id, a)
      PROVE  StaysCovered
  BY <1>5 DEF CloseLoan, Book!DeleteEntry, StaysCovered, IsCovered
<1> QED
  BY <1>1, <1>2, <1>3, <1>4, <1>5, RepayStaysCovered, StepKinds DEF LoanStep

\* Liquidations are all that can leave a loan with more interest unpaid than it
\* owes: interest adds as much to the debt as to what is unpaid of it, and a
\* payment goes to interest first.
THEOREM LiquidationsAloneUncover == Spec => OnlyLiquidationsUncoverInterest
<1> DEFINE Covers ==
             \A id \in DOMAIN loans' :
               \/ IsCovered(id)'
               \/ id \in DOMAIN loans /\ ~IsCovered(id)
               \/ \E u \in Users, a \in LiquidateAmounts : LiquidateLoan(u, id, a)
<1>1. DeployedInv /\ [Next]_vars => [Covers]_vars
  <2> SUFFICES ASSUME DeployedInv, [Next]_vars, NEW id \in DOMAIN loans',
                      ~(id \in DOMAIN loans /\ ~IsCovered(id)), ~IsCovered(id)'
               PROVE  \E u \in Users, a \in LiquidateAmounts : LiquidateLoan(u, id, a)
    OBVIOUS
  <2>1. ~StaysCovered
    BY DEF StaysCovered
  <2>2. PICK u \in Users, j \in DOMAIN loans, a \in LiquidateAmounts : LiquidateLoan(u, j, a)
    BY <2>1, CoveredStep
  <2>3. j = id
    <3>1. /\ DOMAIN loans' = DOMAIN loans
          /\ \A k \in DOMAIN loans : k # j => loans'[k] = loans[k]
      BY <2>2 DEF LiquidateLoan, Book!WriteEntry
    <3> QED
      BY <3>1 DEF IsCovered
  <2> QED
    BY <2>2, <2>3
<1>2. OnlyLiquidationsUncoverInterest <=> [][Covers]_vars
  BY DEF OnlyLiquidationsUncoverInterest
<1> QED
  BY <1>1, <1>2, DeployedInit, DeployedStep, PTL DEF Spec

-----------------------------------------------------------------------------
(* The liabilities cover the debts, of borrowers with one loan from a pool. *)

\* No borrower has two loans from one pool.
OneLoanPerPool ==
  \A i, j \in DOMAIN loans : Owner(i) = Owner(j) /\ loans[i].from = loans[j].from => i = j

LiabilitiesIn(pools, r, w) == pools[r].positions[w].liabilities

\* The liabilities of u in pool p grow by an amount, and nobody else's do.
OwesMore(before, after, p, u, amount) ==
  \A r \in Pools, w \in Users :
    /\ LiabilitiesIn(before, r, w) \in Int
    /\ LiabilitiesIn(after, r, w) =
         LiabilitiesIn(before, r, w) + (IF r = p /\ w = u THEN amount ELSE 0)

\* An entry changes its user's liabilities by what it says.
LEMMA EntryOwes ==
  ASSUME NEW before \in [Pools -> PoolRecord], NEW after, NEW p \in Pools, NEW u \in Users,
         NEW t, NEW a, NEW s, NEW l \in Int, NEW c,
         IsPoolEntry(before, after, p, u, t, a, s, l, c)
  PROVE  OwesMore(before, after, p, u, l)
<1>1. \A r \in Pools, w \in Users : before[r].positions[w].liabilities \in Int
  BY DEF PoolRecord, Position
<1>2. /\ after[p].positions[u].liabilities = before[p].positions[u].liabilities + l
      /\ \A w \in Users \ {u} : after[p].positions[w] = before[p].positions[w]
      /\ \A r \in Pools \ {p} : after[r] = before[r]
  BY DEF IsPoolEntry, IsEntry
<1> QED
  BY <1>1, <1>2 DEF OwesMore, LiabilitiesIn

\* One after the other, of the same user in the same pool.
LEMMA OwesTwice ==
  ASSUME NEW before, NEW mid, NEW after, NEW p, NEW u, NEW d \in Int, NEW e \in Int,
         OwesMore(before, mid, p, u, d), OwesMore(mid, after, p, u, e)
  PROVE  OwesMore(before, after, p, u, d + e)
<1> SUFFICES ASSUME NEW r \in Pools, NEW w \in Users
             PROVE  /\ LiabilitiesIn(before, r, w) \in Int
                    /\ LiabilitiesIn(after, r, w) =
                         LiabilitiesIn(before, r, w) + (IF r = p /\ w = u THEN d + e ELSE 0)
  BY DEF OwesMore
<1> QED
  BY DEF OwesMore

\* One after the other, when the second changes no liabilities, or the first.
LEMMA OwesNothingAfter ==
  ASSUME NEW before, NEW mid, NEW after, NEW p, NEW q, NEW u, NEW d \in Int,
         OwesMore(before, mid, p, u, d), OwesMore(mid, after, q, u, 0)
  PROVE  OwesMore(before, after, p, u, d)
BY DEF OwesMore

LEMMA OwesNothingBefore ==
  ASSUME NEW before, NEW mid, NEW after, NEW p, NEW q, NEW u, NEW d \in Int,
         OwesMore(before, mid, p, u, 0), OwesMore(mid, after, q, u, d)
  PROVE  OwesMore(before, after, q, u, d)
BY DEF OwesMore

\* The debt of the user whose loan changes, changes as the loan does.
LEMMA DebtChange ==
  ASSUME Inv, Inv', NEW u, NEW k, BookChange(u, k), NEW p, NEW w \in Users
  PROVE  /\ DebtOf(w, p) \in Int
         /\ DebtOf(w, p)' =
              DebtOf(w, p) + (IF w = u THEN DebtAt(loans', p)[<<u, k>>]
                                              - DebtAt(loans, p)[<<u, k>>]
                              ELSE 0)
<1>1. nonce \in [Users -> Nat] /\ nonce' \in [Users -> Nat]
      /\ NumUsers \in Nat /\ Users = 1 .. NumUsers
  BY UsersAssumption DEF Inv, Book!BookInv, Book!BookTypeOK, Users
<1>2. /\ DebtOf(w, p) = RowSum(DebtAt(loans, p), w, nonce[w])
      /\ DebtOf(w, p)' = RowSum(DebtAt(loans', p), w, nonce'[w])
  BY <1>1, DebtIsRow
<1> DEFINE old == DebtAt(loans, p)
           new == DebtAt(loans', p)
<1>3. IsGridChange(old, nonce, new, nonce', NumUsers, u, k)
  BY BookChangeIsGridChange
<1> HIDE DEF old, new
<1>4. RowsChange(old, nonce, new, nonce', NumUsers, u, k)
  BY <1>1, <1>3, GridChangeRows
<1>5. w \in 1 .. NumUsers
  BY <1>1
<1>6. /\ RowSum(old, w, nonce[w]) \in Int
      /\ RowSum(new, w, nonce'[w]) =
           RowSum(old, w, nonce[w]) + (IF w = u THEN new[<<u, k>>] - old[<<u, k>>] ELSE 0)
  BY <1>4, <1>5 DEF RowsChange
<1> QED
  BY <1>2, <1>6 DEF old, new

\* The loans stay as they are, and so does the debt.
LEMMA DebtSame ==
  ASSUME Inv, UNCHANGED <<loans, nonce>>, NEW p, NEW w \in Users
  PROVE  DebtOf(w, p)' = DebtOf(w, p) /\ DebtOf(w, p) \in Int
<1>1. nonce[w] \in Nat /\ nonce'[w] \in Nat
  BY DEF Inv, Book!BookInv, Book!BookTypeOK
<1>2. /\ DebtOf(w, p) = RowSum(DebtAt(loans, p), w, nonce[w])
      /\ DebtOf(w, p)' = DebtOf(w, p)
  BY <1>1, DebtIsRow
<1>3. \A k \in 1 .. nonce[w] : DebtAt(loans, p)[<<w, k>>] \in Int
  <2>1. \A i \in DOMAIN loans : loans[i].borrowed \in Int
    BY DEF Inv, Book!BookInv, Book!BookTypeOK, LoanRecord
  <2> QED
    BY <1>1, <2>1 DEF DebtAt
<1> QED
  BY <1>1, <1>2, <1>3, RowInt

\* A loan is written back, and the borrower's liabilities change by no less
\* than its debt does.
LEMMA WriteOwes ==
  ASSUME Inv, Inv', LiabilitiesCoverDebts, NEW id \in DOMAIN loans, NEW loan,
         Book!WriteEntry(id, loan), loan.from = loans[id].from,
         NEW d \in Int, OwesMore(pool, pool', loans[id].from, id[1], d),
         loans[id].borrowed \in Int, loan.borrowed \in Int,
         loan.borrowed <= loans[id].borrowed + d
  PROVE  LiabilitiesCoverDebts'
<1> DEFINE p   == loans[id].from
           old == loans[id].borrowed
           new == loan.borrowed
<1>1. /\ BookChange(id[1], id[2]) /\ id = <<id[1], id[2]>>
      /\ id \in DOMAIN loans' /\ loans'[id] = loan
  BY WriteIsChange
<1>2. id \in Users \X Nat
  BY DEF Inv, Book!BookInv, Book!BookTypeOK, Book!LoanId
<1> SUFFICES ASSUME NEW w \in Users, NEW r \in Pools
             PROVE  LiabilitiesIn(pool', r, w) >= DebtOf(w, r)'
  BY DEF LiabilitiesCoverDebts, LiabilitiesIn
<1>3. /\ DebtAt(loans, r)[id] = IF r = p THEN old ELSE 0
      /\ DebtAt(loans', r)[id] = IF r = p THEN new ELSE 0
  BY <1>1, <1>2 DEF DebtAt
<1>4. /\ DebtOf(w, r) \in Int
      /\ DebtOf(w, r)' =
           DebtOf(w, r) + (IF w = id[1] THEN DebtAt(loans', r)[id] - DebtAt(loans, r)[id]
                           ELSE 0)
  BY <1>1, DebtChange
<1>5. /\ LiabilitiesIn(pool, r, w) \in Int
      /\ LiabilitiesIn(pool', r, w) =
           LiabilitiesIn(pool, r, w) + (IF r = p /\ w = id[1] THEN d ELSE 0)
  BY DEF OwesMore
<1>6. LiabilitiesIn(pool, r, w) >= DebtOf(w, r)
  BY DEF LiabilitiesCoverDebts, LiabilitiesIn
<1>7. old \in Int /\ new \in Int /\ new <= old + d
  OBVIOUS
<1> HIDE DEF p, old, new
<1>8. DebtOf(w, r)' = DebtOf(w, r) + (IF r = p /\ w = id[1] THEN new - old ELSE 0)
  BY <1>3, <1>4, <1>7
<1> QED
  BY <1>4, <1>5, <1>6, <1>7, <1>8

\* A loan is deleted and takes all of the borrower's liabilities in the pool
\* along, when the borrower has no other debt there.
LEMMA DeleteOwes ==
  ASSUME Inv, Inv', LiabilitiesCoverDebts, OneLoanPerPool,
         NEW id \in DOMAIN loans, Book!DeleteEntry(id),
         NEW d \in Int, OwesMore(pool, pool', loans[id].from, id[1], d),
         LiabilitiesIn(pool, loans[id].from, id[1]) + d = 0
  PROVE  LiabilitiesCoverDebts'
<1> DEFINE p == loans[id].from
<1>1. BookChange(id[1], id[2]) /\ id = <<id[1], id[2]>> /\ id \notin DOMAIN loans'
  BY DeleteIsChange
<1>2. id \in Users \X Nat /\ nonce' \in [Users -> Nat]
  BY DEF Inv, Book!BookInv, Book!BookTypeOK, Book!LoanId
<1> SUFFICES ASSUME NEW w \in Users, NEW r \in Pools
             PROVE  LiabilitiesIn(pool', r, w) >= DebtOf(w, r)'
  BY DEF LiabilitiesCoverDebts, LiabilitiesIn
<1>3. /\ LiabilitiesIn(pool, r, w) \in Int
      /\ LiabilitiesIn(pool', r, w) =
           LiabilitiesIn(pool, r, w) + (IF r = p /\ w = id[1] THEN d ELSE 0)
  BY DEF OwesMore
<1>4. CASE r = p /\ w = id[1]
  <2>1. LiabilitiesIn(pool', r, w) = 0
    BY <1>3, <1>4
  <2>2. \A k \in 1 .. nonce'[w] : DebtAt(loans', r)[<<w, k>>] = 0
    <3> SUFFICES ASSUME NEW k \in 1 .. nonce'[w],
                        <<w, k>> \in DOMAIN loans', loans'[<<w, k>>].from = r
                 PROVE  FALSE
      BY <1>2 DEF DebtAt
    <3>1. <<w, k>> \in DOMAIN loans /\ loans[<<w, k>>].from = p
      BY <1>4 DEF Book!DeleteEntry
    <3>2. Owner(<<w, k>>) = Owner(id)
      BY <1>4 DEF Owner
    <3>3. <<w, k>> = id
      BY <3>1, <3>2 DEF OneLoanPerPool
    <3> QED
      BY <1>1, <3>3
  <2>3. DebtOf(w, r)' = RowSum(DebtAt(loans', r), w, nonce'[w])
    BY <1>2, DebtIsRow
  <2>4. DebtOf(w, r)' = 0
    <3> DEFINE row == [k \in 1 .. nonce'[w] |-> DebtAt(loans', r)[<<w, k>>]]
    <3>1. nonce'[w] \in Nat /\ \A k \in 1 .. nonce'[w] : row[k] = 0
      BY <1>2, <2>2
    <3>2. DebtOf(w, r)' = SumTo(row, nonce'[w])
      BY <2>3 DEF RowSum
    <3> HIDE DEF row
    <3> QED
      BY <3>1, <3>2, SumOfZeros
  <2> QED
    BY <2>1, <2>4
<1>5. CASE ~(r = p /\ w = id[1])
  <2>1. /\ DebtAt(loans, r)[id] = IF r = p THEN loans[id].borrowed ELSE 0
        /\ DebtAt(loans', r)[id] = 0
    BY <1>1, <1>2 DEF DebtAt
  <2>2. /\ DebtOf(w, r) \in Int
        /\ DebtOf(w, r)' =
             DebtOf(w, r) + (IF w = id[1] THEN DebtAt(loans', r)[id] - DebtAt(loans, r)[id]
                             ELSE 0)
    BY <1>1, DebtChange
  <2>3. DebtOf(w, r)' = DebtOf(w, r)
    BY <1>5, <2>1, <2>2
  <2>4. LiabilitiesIn(pool, r, w) >= DebtOf(w, r)
    BY DEF LiabilitiesCoverDebts, LiabilitiesIn
  <2> QED
    BY <1>3, <1>5, <2>3, <2>4
<1> QED
  BY <1>4, <1>5

\* Bringing a loan up to date raises the liabilities by no less than the debt.
LEMMA InterestOwes ==
  ASSUME TypeOK, NEW id \in DOMAIN loans, AddInterestOK(id)
  PROVE  /\ LiabilityGrowth(id) \in Int
         /\ loans[id].borrowed \in Int /\ LoanWithInterest(id).borrowed \in Int
         /\ LoanWithInterest(id).borrowed <= loans[id].borrowed + LiabilityGrowth(id)
         /\ OwesMore(pool, AfterInterest(id), loans[id].from, Owner(id), LiabilityGrowth(id))
<1>1. /\ loans[id].from \in Pools /\ pool \in [Pools -> PoolRecord] /\ Owner(id) \in Users
      /\ loans[id].borrowed \in Int /\ LoanWithInterest(id).borrowed \in Int
      /\ LoanWithInterest(id).borrowed = GrownDebt(id)
  BY GrownLoan, LoansType, LoanWithInterestType DEF TypeOK
<1>2. /\ LiabilityGrowth(id) \in Int
      /\ IsPoolEntry(pool, AfterInterest(id), loans[id].from, Owner(id),
                     0, 0, 0, LiabilityGrowth(id), 0)
  BY InterestEntries
<1>3. GrownDebt(id) <= loans[id].borrowed + LiabilityGrowth(id)
  BY <1>1 DEF LiabilityGrowth
<1> QED
  BY <1>1, <1>2, <1>3, EntryOwes

\* create_loan
LEMMA CreateLoanOwes ==
  ASSUME Inv, Inv', LiabilitiesCoverDebts, NEW u \in Users, NEW p \in Pools, NEW q \in Pools,
         NEW b \in BorrowAmounts, NEW c \in CollateralAmounts, CreateLoan(u, p, b, q, c)
  PROVE  LiabilitiesCoverDebts'
<1> DEFINE lent == -b
           k    == nonce[u] + 1
<1>1. TypeOK /\ b \in Int /\ c \in Int /\ lent \in Int /\ pool \in [Pools -> PoolRecord]
  BY AmountsAssumption DEF Inv, TypeOK
<1>2. PICK secured \in [Pools -> PoolRecord], paidOut \in Int, burned \in Int :
        /\ IsPoolEntry(pool, secured, q, u, paidOut, paidOut, burned, 0, c)
        /\ IsPoolEntry(secured, pool', p, u, 0, lent, 0, b, 0)
  BY <1>1, CreateLoanEntries
<1>3. PICK health, lastAccrual :
        Book!CreateEntry(u, [borrowed |-> b, from |-> p, collateral |-> c, collateralFrom |-> q,
                             health |-> health, unpaid |-> 0, lastAccrual |-> lastAccrual])
  BY DEF CreateLoan
<1> DEFINE loan == [borrowed |-> b, from |-> p, collateral |-> c, collateralFrom |-> q,
                    health |-> health, unpaid |-> 0, lastAccrual |-> lastAccrual]
<1>4. loan.from = p /\ loan.borrowed = b
  OBVIOUS
<1>5. Book!CreateEntry(u, loan)
  BY <1>3
<1> HIDE DEF loan, lent
<1>6. /\ BookChange(u, k) /\ <<u, k>> \in DOMAIN loans' /\ <<u, k>> \notin DOMAIN loans
      /\ loans'[<<u, k>>] = loan /\ <<u, k>> \in Users \X Nat
  BY <1>5, CreateIsChange DEF Inv, Book!BookInv, Book!BookTypeOK
<1> HIDE DEF k
<1>7. OwesMore(pool, secured, q, u, 0) /\ OwesMore(secured, pool', p, u, b)
  BY <1>1, <1>2, EntryOwes
<1>8. OwesMore(pool, pool', p, u, b)
  BY <1>1, <1>7, OwesNothingBefore
<1> SUFFICES ASSUME NEW w \in Users, NEW r \in Pools
             PROVE  LiabilitiesIn(pool', r, w) >= DebtOf(w, r)'
  BY DEF LiabilitiesCoverDebts, LiabilitiesIn
<1>9. /\ DebtAt(loans, r)[<<u, k>>] = 0
      /\ DebtAt(loans', r)[<<u, k>>] = IF r = p THEN b ELSE 0
  BY <1>4, <1>6 DEF DebtAt
<1>10. /\ DebtOf(w, r) \in Int
       /\ DebtOf(w, r)' = DebtOf(w, r) + (IF w = u /\ r = p THEN b ELSE 0)
  <2>1. /\ DebtOf(w, r) \in Int
        /\ DebtOf(w, r)' =
             DebtOf(w, r) + (IF w = u THEN DebtAt(loans', r)[<<u, k>>]
                                             - DebtAt(loans, r)[<<u, k>>]
                             ELSE 0)
    BY <1>6, DebtChange
  <2> QED
    BY <1>1, <1>9, <2>1
<1>11. /\ LiabilitiesIn(pool, r, w) \in Int
       /\ LiabilitiesIn(pool', r, w) =
            LiabilitiesIn(pool, r, w) + (IF r = p /\ w = u THEN b ELSE 0)
  BY <1>8 DEF OwesMore
<1>12. LiabilitiesIn(pool, r, w) >= DebtOf(w, r)
  BY DEF LiabilitiesCoverDebts, LiabilitiesIn
<1> QED
  BY <1>1, <1>10, <1>11, <1>12

\* add_interest
LEMMA AddInterestOwes ==
  ASSUME Inv, Inv', LiabilitiesCoverDebts, NEW id \in DOMAIN loans, AddInterest(id)
  PROVE  LiabilitiesCoverDebts'
<1> DEFINE loan == LoanWithInterest(id)
           d    == LiabilityGrowth(id)
<1>1. /\ TypeOK /\ AddInterestOK(id) /\ pool' = AfterInterest(id)
      /\ Book!WriteEntry(id, loan)
  BY DEF Inv, AddInterest
<1>2. loan.from = loans[id].from
  BY <1>1, LoanWithInterestType
<1>3. /\ d \in Int /\ loans[id].borrowed \in Int /\ loan.borrowed \in Int
      /\ loan.borrowed <= loans[id].borrowed + d
      /\ OwesMore(pool, pool', loans[id].from, id[1], d)
  BY <1>1, InterestOwes DEF Owner
<1> HIDE DEF loan, d
<1> QED
  BY <1>1, <1>2, <1>3, WriteOwes

\* repay: what is paid of the interest is not taken off the liabilities.
LEMMA ManagerRepayOwes ==
  ASSUME Inv', ValueInv, AvailableIsInTotal, LiabilitiesCoverDebts,
         NEW id \in DOMAIN loans, NEW a \in RepayAmounts, ManagerRepay(id, a)
  PROVE  LiabilitiesCoverDebts'
<1> DEFINE p         == loans[id].from
           u         == Owner(id)
           mid       == AfterInterest(id)
           grown     == LoanWithInterest(id)
           d         == LiabilityGrowth(id)
           left      == grown.borrowed - a
           fee       == AdminFee(a, grown.unpaid)
           interest  == InterestPart(a, grown.unpaid)
           principal == Smaller(a - interest, mid[p].positions[u].liabilities)
           back      == -principal
<1>1. /\ TypeOK /\ Inv /\ AddInterestOK(id) /\ a \in Int
      /\ RepayOK(mid[p], u, a, grown.unpaid)
  <2>1. TypeOK /\ Inv
    BY PoolsAreBacked
  <2>2. AddInterestOK(id)
    BY DEF ManagerRepay, ManagerRepayOK
  <2> QED
    BY <2>1, <2>2, AmountsAssumption, LoanWithInterestType DEF ManagerRepay, ManagerRepayOK
<1>2. /\ grown \in LoanRecord /\ grown.from = p /\ grown.unpaid \in Nat
  BY <1>1, LoanWithInterestType, GrownLoanIsSound
<1>3. /\ d \in Int /\ loans[id].borrowed \in Int /\ grown.borrowed \in Int
      /\ grown.borrowed <= loans[id].borrowed + d
      /\ OwesMore(pool, mid, p, u, d)
  BY <1>1, InterestOwes
<1>4. /\ principal \in Int /\ mid \in [Pools -> PoolRecord]
      /\ IsPoolEntry(mid, pool', p, u, interest - fee, a - fee, 0, back, 0)
  BY <1>1, ManagerRepayEntries
<1>5. p \in Pools /\ u \in Users
  BY <1>1, GrownLoan, LoansType
<1>6. principal <= a
  <2>1. a - fee >= 0 /\ fee >= 0
    BY <1>1 DEF RepayOK, CanMove
  <2>2. fee \in Int
    <3>1. grown.unpaid \in Int /\ a \in Int
      BY <1>1, <1>2
    <3> HIDE DEF grown
    <3> QED
      BY <3>1, AdminFeeInt
  <2>3. a \in Nat
    <3> HIDE DEF fee
    <3> QED
      BY <1>1, <2>1, <2>2
  <2>4. interest \in Nat
    BY <1>2, <2>1, <2>3, FeeIsPart
  <2>5. mid[p].positions[u].liabilities \in Int
    <3>1. mid[p] \in PoolRecord
      BY <1>4, <1>5
    <3> HIDE DEF mid
    <3> QED
      BY <1>5, <3>1 DEF PoolRecord, Position
  <2> HIDE DEF interest, mid
  <2> QED
    BY <1>1, <2>4, <2>5 DEF Smaller
<1>7. PICK health :
        Book!WriteEntry(id, [grown EXCEPT !.borrowed = left,
                                          !.unpaid = UnpaidAfter(grown.unpaid, a),
                                          !.health = health])
  BY <1>2 DEF ManagerRepay, LoanRecord
<1> HIDE DEF mid, grown, principal, d
<1>8. back \in Int /\ d + back \in Int
  BY <1>3, <1>4
<1> DEFINE loan == [grown EXCEPT !.borrowed = left, !.unpaid = UnpaidAfter(grown.unpaid, a),
                                 !.health = health]
           more == d + back
<1>9. /\ loan.from = p /\ loan.borrowed \in Int
      /\ loan.borrowed <= loans[id].borrowed + more
  <2>1. loan.from = p /\ loan.borrowed = grown.borrowed - a
    BY <1>2 DEF LoanRecord
  <2> HIDE DEF loan
  <2> QED
    BY <1>1, <1>3, <1>4, <1>6, <2>1
<1>10. Book!WriteEntry(id, loan)
  BY <1>7
<1> HIDE DEF loan, back
<1>11. OwesMore(mid, pool', p, u, back)
  BY <1>4, <1>5, <1>8, EntryOwes
<1>12. OwesMore(pool, pool', p, u, more)
  BY <1>3, <1>8, <1>11, OwesTwice
<1> HIDE DEF more
<1> QED
  BY <1>1, <1>3, <1>8, <1>9, <1>10, <1>12, WriteOwes DEF Owner, more

\* repay_and_close_manager
LEMMA CloseLoanOwes ==
  ASSUME Inv, Inv', LiabilitiesCoverDebts, OneLoanPerPool,
         NEW id \in DOMAIN loans, NEW a \in AllowedAmounts, CloseLoan(id, a)
  PROVE  LiabilitiesCoverDebts'
<1> DEFINE p    == loans[id].from
           q    == loans[id].collateralFrom
           u    == Owner(id)
           mid  == AfterInterest(id)
           paid == AfterClosePayment(id, a)
           d    == LiabilityGrowth(id)
           owed == mid[p].positions[u].liabilities
           back == -owed
<1>1. TypeOK /\ AddInterestOK(id) /\ Book!DeleteEntry(id)
  BY DEF Inv, CloseLoan, CloseLoanOK
<1>2. PICK t, f, c :
        /\ owed \in Int /\ c \in Int
        /\ mid \in [Pools -> PoolRecord] /\ paid \in [Pools -> PoolRecord]
        /\ IsPoolEntry(mid, paid, p, u, t, f, 0, back, 0)
        /\ IsPoolEntry(paid, pool', q, u, 0, 0, 0, 0, c)
  <2>1. -loans[id].collateral \in Int
    BY <1>1, GrownLoan
  <2> QED
    BY <1>1, <2>1, CloseLoanEntries
<1>3. p \in Pools /\ q \in Pools /\ u \in Users
  BY <1>1, GrownLoan, LoansType
<1>4. d \in Int /\ OwesMore(pool, mid, p, u, d)
  BY <1>1, InterestOwes
<1>5. owed = LiabilitiesIn(mid, p, u)
  BY DEF LiabilitiesIn
<1> HIDE DEF mid, paid, owed, d
<1>6. back \in Int /\ d + back \in Int
  BY <1>2, <1>4
<1> DEFINE more == d + back
<1>7. LiabilitiesIn(pool, p, u) + more = 0
  <2>1. /\ LiabilitiesIn(pool, p, u) \in Int
        /\ LiabilitiesIn(mid, p, u) = LiabilitiesIn(pool, p, u) + d
    BY <1>3, <1>4 DEF OwesMore
  <2> QED
    BY <1>2, <1>4, <1>5, <2>1
<1> HIDE DEF back, p, q
<1>8. OwesMore(mid, paid, p, u, back) /\ OwesMore(paid, pool', q, u, 0)
  BY <1>2, <1>3, <1>6, EntryOwes
<1>9. OwesMore(pool, paid, p, u, more)
  BY <1>4, <1>6, <1>8, OwesTwice
<1>10. OwesMore(pool, pool', p, u, more)
  BY <1>6, <1>8, <1>9, OwesNothingAfter
<1> QED
  BY <1>1, <1>6, <1>7, <1>10, DeleteOwes DEF p, Owner

\* liquidate
LEMMA LiquidateLoanOwes ==
  ASSUME Inv, Inv', LiabilitiesCoverDebts, NEW w \in Users, NEW id \in DOMAIN loans,
         NEW a \in LiquidateAmounts, LiquidateLoan(w, id, a)
  PROVE  LiabilitiesCoverDebts'
<1> DEFINE p    == loans[id].from
           q    == loans[id].collateralFrom
           u    == Owner(id)
           mid  == AfterInterest(id)
           paid == AfterLiquidationPayment(w, id, a)
           d    == LiabilityGrowth(id)
           loan == LiquidatedLoan(id, a)
           back == -a
<1>1. TypeOK /\ AddInterestOK(id) /\ Book!WriteEntry(id, loan) /\ a \in Int
  BY AmountsAssumption DEF Inv, LiquidateLoan, LiquidateLoanOK
<1>2. PICK f, c :
        /\ c \in Int
        /\ mid \in [Pools -> PoolRecord] /\ paid \in [Pools -> PoolRecord]
        /\ IsPoolEntry(mid, paid, p, u, 0, f, 0, back, 0)
        /\ IsPoolEntry(paid, pool', q, u, 0, 0, 0, 0, c)
  <2>1. /\ SeizedCollateral(p, q, a) \in Int
        /\ IsPoolEntry(paid, pool', q, u, 0, 0, 0, 0, -SeizedCollateral(p, q, a))
    BY <1>1, LiquidateLoanEntries
  <2>2. -SeizedCollateral(p, q, a) \in Int
    BY <2>1
  <2> QED
    BY <1>1, <2>1, <2>2, LiquidateLoanEntries
<1>3. p \in Pools /\ q \in Pools /\ u \in Users
  BY <1>1, GrownLoan, LoansType
<1>4. /\ d \in Int /\ OwesMore(pool, mid, p, u, d) /\ loans[id].borrowed \in Int
      /\ LoanWithInterest(id).borrowed \in Int
      /\ LoanWithInterest(id).borrowed <= loans[id].borrowed + d
  BY <1>1, InterestOwes
<1>5. loan.from = p /\ loan.borrowed = LoanWithInterest(id).borrowed - a
  BY <1>1, LoanWithInterestType DEF LiquidatedLoan, LoanRecord
<1> HIDE DEF mid, paid, d, loan, p, q
<1> DEFINE more == d + back
<1>6. /\ back \in Int /\ more \in Int /\ loan.borrowed \in Int
      /\ loan.borrowed <= loans[id].borrowed + more
  BY <1>1, <1>4, <1>5
<1> HIDE DEF back
<1>7. OwesMore(mid, paid, p, u, back) /\ OwesMore(paid, pool', q, u, 0)
  BY <1>2, <1>3, <1>6, EntryOwes
<1>8. OwesMore(pool, paid, p, u, more)
  BY <1>4, <1>6, <1>7, OwesTwice
<1> HIDE DEF more
<1>9. OwesMore(pool, pool', p, u, more)
  BY <1>6, <1>7, <1>8, OwesNothingAfter
<1> QED
  BY <1>1, <1>4, <1>5, <1>6, <1>9, WriteOwes DEF p, Owner

\* Every step keeps the liabilities at least the debts.
LEMMA OwesStep ==
  ASSUME ValueInv, AvailableIsInTotal, OneLoanPerPool, LiabilitiesCoverDebts, [Next]_vars
  PROVE  LiabilitiesCoverDebts'
<1>1. TypeOK /\ UndeployedAreBlank /\ Inv /\ Inv'
  BY PoolsAreBacked, StepInv
<1>2. ASSUME UNCHANGED <<loans, nonce>>,
             \A r \in Pools, w \in Users :
               /\ LiabilitiesIn(pool, r, w) \in Int
               /\ LiabilitiesIn(pool', r, w) = LiabilitiesIn(pool, r, w)
      PROVE  LiabilitiesCoverDebts'
  <2> SUFFICES ASSUME NEW w \in Users, NEW r \in Pools
               PROVE  LiabilitiesIn(pool', r, w) >= DebtOf(w, r)'
    BY DEF LiabilitiesCoverDebts, LiabilitiesIn
  <2>1. DebtOf(w, r)' = DebtOf(w, r) /\ DebtOf(w, r) \in Int
    BY <1>1, <1>2, DebtSame
  <2>2. LiabilitiesIn(pool, r, w) >= DebtOf(w, r)
    BY DEF LiabilitiesCoverDebts, LiabilitiesIn
  <2> QED
    BY <1>2, <2>1, <2>2
<1>3. CASE QuietStep
  <2>1. \A r \in Pools, w \in Users :
          /\ LiabilitiesIn(pool, r, w) \in Int
          /\ LiabilitiesIn(pool', r, w) = LiabilitiesIn(pool, r, w)
    BY <1>1, <1>3 DEF QuietStep, SameBooks, HasSameBooks, LiabilitiesIn, TypeOK, PoolRecord,
                      Position
  <2>2. UNCHANGED <<loans, nonce>>
    BY <1>3 DEF QuietStep
  <2> QED
    BY <1>2, <2>1, <2>2
<1>4. CASE LenderStep
  <2>1. PICK u \in Users, p \in deployed, paid \in Int, shares \in Int, collateral \in Int :
          IsPoolEntry(pool, pool', p, u, paid, paid, shares, 0, collateral)
    BY <1>4 DEF LenderStep
  <2>2. p \in Pools /\ pool \in [Pools -> PoolRecord]
    BY <1>1 DEF TypeOK
  <2>3. OwesMore(pool, pool', p, u, 0)
    BY <2>1, <2>2, EntryOwes
  <2>4. \A r \in Pools, w \in Users :
          /\ LiabilitiesIn(pool, r, w) \in Int
          /\ LiabilitiesIn(pool', r, w) = LiabilitiesIn(pool, r, w)
    BY <2>3 DEF OwesMore
  <2> QED
    BY <1>2, <1>4, <2>4 DEF LenderStep
<1>5. CASE LoanStep
  BY <1>1, <1>5, CreateLoanOwes, AddInterestOwes, ManagerRepayOwes,
     CloseLoanOwes, LiquidateLoanOwes DEF LoanStep
<1> QED
  BY <1>1, <1>3, <1>4, <1>5, StepKinds

\* At the start there are no liabilities and no debts.
LEMMA OwesInit == Init => LiabilitiesCoverDebts
<1> SUFFICES ASSUME Init
             PROVE  LiabilitiesCoverDebts
  OBVIOUS
<1>1. DeployedInv
  BY DeployedInit
<1> SUFFICES ASSUME NEW u \in Users, NEW p \in Pools
             PROVE  pool[p].positions[u].liabilities >= DebtOf(u, p)
  BY DEF LiabilitiesCoverDebts
<1>2. pool[p].positions[u].liabilities = 0
  BY <1>1 DEF DeployedInv, UndeployedAreBlank, Init, IsBlank, NoPosition
<1>3. DebtOf(u, p) = 0
  BY SumOfNone DEF Init, Book!BookInit, DebtOf, OverLoansOf
<1> QED
  BY <1>2, <1>3

\* A borrower's liabilities in a pool are at least their debts to it, so that
\* the pool's liquidate can always take a part of a debt off them: as long as
\* no borrower has two loans from one pool.  The closing of one of two takes the
\* liabilities of the other away too (contracts/loan_pool/src/contract.rs:475).
THEOREM LiabilitiesStayCovering ==
  Spec /\ []AvailableIsInTotal /\ []OneLoanPerPool => []LiabilitiesCoverDebts
BY OwesInit, OwesStep, ValueIsKept, PTL DEF Spec

-----------------------------------------------------------------------------
(* The loans stay secured. *)

\* Nothing is not divided into something.
LEMMA TruncDivOfNothing ==
  ASSUME NEW a \in Int, a <= 0, NEW b \in Nat \ {0}
  PROVE  TruncDiv(a, b) \in Int /\ TruncDiv(a, b) <= 0
<1>1. CASE a = 0
  <2>1. TruncDiv(0, b) = 0 \div b
    BY DEF TruncDiv, Magnitude
  <2> QED
    BY <1>1, <2>1
<1>2. CASE a < 0
  <2>1. TruncDiv(a, b) = -((-a) \div b)
    BY <1>2 DEF TruncDiv, Magnitude
  <2> DEFINE m == -a
  <2>2. m \in Nat
    BY <1>2
  <2> HIDE DEF m
  <2>3. m \div b \in Nat
    BY <2>2
  <2> QED
    BY <2>1, <2>3 DEF m
<1> QED
  BY <1>1, <1>2

\* A loan with a debt and a health factor above zero has collateral.
LEMMA HealthySecured ==
  ASSUME TypeOK, NEW p \in Pools, NEW q \in Pools, NEW b \in Int, b > 0, NEW c \in Int,
         HasHealthFactor(p, b, q), HealthFactor(p, b, q, c) > 0
  PROVE  c > 0
<1> SUFFICES ASSUME c <= 0
             PROVE  FALSE
  OBVIOUS
<1> DEFINE price == twap[q]
           share == CollateralFactor[q]
           worth == price * c * share
           value == CollateralValue(q, c)
           debt  == BorrowedValue(p, b)
<1>1. price \in Nat /\ share \in Nat /\ DECIMAL \in Nat \ {0} /\ twap[p] \in Nat
  BY PoolsAssumption, ScaleAssumption DEF TypeOK
<1>2. debt \in Nat \ {0}
  <2>1. twap[p] * b \in Nat
    BY <1>1
  <2> QED
    BY <2>1 DEF HasHealthFactor, BorrowedValue
<1> HIDE DEF price, share, debt
<1>3. worth \in Int /\ worth <= 0
  <2>1. price * c \in Int /\ price * c <= 0
    BY <1>1
  <2> DEFINE total == price * c
  <2>2. total \in Int /\ total <= 0
    BY <2>1
  <2> HIDE DEF total
  <2>3. total * share \in Int /\ total * share <= 0
    BY <1>1, <2>2
  <2> QED
    BY <2>3 DEF total
<1>4. value = TruncDiv(worth, DECIMAL)
  BY DEF CollateralValue, price, share
<1> HIDE DEF worth, value
<1>5. value \in Int /\ value <= 0
  BY <1>1, <1>3, <1>4, TruncDivOfNothing
<1>6. value * DECIMAL \in Int /\ value * DECIMAL <= 0
  BY <1>1, <1>5
<1>7. HealthFactor(p, b, q, c) = TruncDiv(value * DECIMAL, debt)
  BY DEF HealthFactor, value, debt
<1>8. TruncDiv(value * DECIMAL, debt) \in Int /\ TruncDiv(value * DECIMAL, debt) <= 0
  BY <1>2, <1>6, TruncDivOfNothing
<1> QED
  BY <1>7, <1>8

IsSecured(loan) == loan.collateral > 0

\* Every step keeps the collateral of every loan above nothing.
LEMMA SecuredStep ==
  ASSUME ValueInv, ValueInv', AvailableIsInTotal, HealthIsVisible, LoansAreSecured, [Next]_vars
  PROVE  LoansAreSecured'
<1> USE DEF IsSecured
<1>1. TypeOK /\ UndeployedAreBlank
  BY PoolsAreBacked
<1>2. \A id \in DOMAIN loans' : loans'[id].borrowed > 0
  BY DEF ValueInv, IsSoundLoan
<1> SUFFICES \A id \in DOMAIN loans' : IsSecured(loans'[id])
  BY <1>2 DEF LoansAreSecured
<1>3. \A id \in DOMAIN loans : IsSecured(loans[id])
  BY DEF LoansAreSecured
<1>4. CASE UNCHANGED loans
  BY <1>3, <1>4
<1>5. ASSUME NEW id \in DOMAIN loans, NEW loan, Book!WriteEntry(id, loan),
             loan.collateral > 0
      PROVE  \A j \in DOMAIN loans' : IsSecured(loans'[j])
  BY <1>3, <1>5 DEF Book!WriteEntry
<1>6. ASSUME NEW u \in Users, NEW p \in Pools, NEW q \in Pools,
             NEW b \in BorrowAmounts, NEW c \in CollateralAmounts, CreateLoan(u, p, b, q, c)
      PROVE  \A j \in DOMAIN loans' : IsSecured(loans'[j])
  <2>1. /\ b \in Int /\ c \in Int /\ DECIMAL \in Nat \ {0}
        /\ HasHealthFactor(p, b, q) /\ HealthFactor(p, b, q, c) > DECIMAL
    BY <1>6, AmountsAssumption, ScaleAssumption DEF CreateLoan
  <2>2. PICK health, lastAccrual :
          Book!CreateEntry(u, [borrowed |-> b, from |-> p, collateral |-> c,
                               collateralFrom |-> q, health |-> health, unpaid |-> 0,
                               lastAccrual |-> lastAccrual])
    BY <1>6 DEF CreateLoan
  <2> DEFINE loan == [borrowed |-> b, from |-> p, collateral |-> c, collateralFrom |-> q,
                      health |-> health, unpaid |-> 0, lastAccrual |-> lastAccrual]
  <2>3. /\ Book!CreateEntry(u, loan) /\ loan.borrowed = b /\ loan.collateral = c
    BY <2>2
  <2> HIDE DEF loan
  <2>4. /\ \E id \in DOMAIN loans' : loans'[id] = loan
        /\ \A j \in DOMAIN loans' : \/ j \in DOMAIN loans /\ loans'[j] = loans[j]
                                    \/ loans'[j] = loan
    BY <2>3 DEF Book!CreateEntry
  <2>5. b > 0
    BY <1>2, <2>3, <2>4
  <2>6. HealthFactor(p, b, q, c) > 0
    <3>1. HealthFactor(p, b, q, c) \in Int
      BY <1>1, <2>1, HealthFactorInt DEF HasHealthFactor
    <3> QED
      BY <2>1, <3>1
  <2>7. c > 0
    BY <1>1, <2>1, <2>5, <2>6, HealthySecured
  <2> QED
    BY <1>3, <2>3, <2>4, <2>7
<1>7. ASSUME NEW id \in DOMAIN loans, AddInterest(id)
      PROVE  \A j \in DOMAIN loans' : IsSecured(loans'[j])
  <2>1. Book!WriteEntry(id, LoanWithInterest(id)) /\ AddInterestOK(id)
    BY <1>7 DEF AddInterest
  <2>2. LoanWithInterest(id).collateral > 0
    BY <1>1, <1>3, <2>1, LoanWithInterestType
  <2> QED
    BY <1>5, <2>1, <2>2
<1>8. ASSUME NEW id \in DOMAIN loans, NEW a \in RepayAmounts, ManagerRepay(id, a)
      PROVE  \A j \in DOMAIN loans' : IsSecured(loans'[j])
  <2> DEFINE grown == LoanWithInterest(id)
  <2>1. AddInterestOK(id)
    BY <1>8 DEF ManagerRepay, ManagerRepayOK
  <2>2. PICK left, unpaid, health :
          Book!WriteEntry(id, [grown EXCEPT !.borrowed = left, !.unpaid = unpaid,
                                            !.health = health])
    BY <1>8 DEF ManagerRepay
  <2> DEFINE loan == [grown EXCEPT !.borrowed = left, !.unpaid = unpaid, !.health = health]
  <2>3. grown \in LoanRecord /\ grown.collateral = loans[id].collateral
    BY <1>1, <2>1, LoanWithInterestType
  <2> HIDE DEF grown
  <2>4. loan.collateral > 0
    BY <1>3, <2>3 DEF LoanRecord
  <2> QED
    BY <1>5, <2>2, <2>4
<1>9. ASSUME NEW id \in DOMAIN loans, NEW a \in AllowedAmounts, CloseLoan(id, a)
      PROVE  \A j \in DOMAIN loans' : IsSecured(loans'[j])
  BY <1>3, <1>9 DEF CloseLoan, Book!DeleteEntry
<1>10. ASSUME NEW w \in Users, NEW id \in DOMAIN loans, NEW a \in LiquidateAmounts,
              LiquidateLoan(w, id, a)
       PROVE  \A j \in DOMAIN loans' : IsSecured(loans'[j])
  <2> DEFINE grown == LoanWithInterest(id)
             p     == loans[id].from
             q     == loans[id].collateralFrom
             left  == grown.borrowed - a
             kept  == grown.collateral - SeizedCollateral(p, q, a)
             loan  == LiquidatedLoan(id, a)
  <2>1. /\ AddInterestOK(id) /\ Book!WriteEntry(id, loan)
        /\ loan.health >= grown.health /\ a \in Int
    BY <1>10, AmountsAssumption DEF LiquidateLoan, LiquidateLoanOK, KeepsHealth
  <2>2. /\ p \in Pools /\ q \in Pools /\ grown \in LoanRecord
        /\ grown.from = p /\ grown.collateralFrom = q
    BY <1>1, <2>1, GrownLoan, LoanWithInterestType
  <2>3. HasHealthFactor(p, left, q)
    BY <1>10, <2>2 DEF LiquidateLoan, LiquidateLoanOK
  <2>4. SeizedCollateral(p, q, a) \in Int
    BY <1>1, <1>10, LiquidateLoanEntries
  <2>5. left \in Int /\ kept \in Int /\ grown.health \in Int
    <3>1. grown.borrowed \in Int /\ grown.collateral \in Int /\ grown.health \in Int
      BY <2>2 DEF LoanRecord
    <3> HIDE DEF grown, p, q
    <3> QED
      BY <2>1, <2>4, <3>1
  <2>6. /\ loan.borrowed = left /\ loan.collateral = kept
        /\ loan.health = HealthFactor(p, left, q, kept)
    BY <2>2 DEF LiquidatedLoan, LoanRecord
  <2>7. HealthFactor(p, left, q, kept) \in Int
    BY <1>1, <2>2, <2>3, <2>5, HealthFactorInt DEF HasHealthFactor
  <2>8. grown.health > 0
    BY <2>1, DebtGrows DEF HealthIsVisible
  <2> HIDE DEF grown, loan, left, kept, p, q
  <2>9. HealthFactor(p, left, q, kept) > 0
    BY <2>1, <2>5, <2>6, <2>7, <2>8
  <2>10. left > 0
    <3>1. id \in DOMAIN loans' /\ loans'[id] = loan
      BY <2>1 DEF Book!WriteEntry
    <3> QED
      BY <1>2, <2>6, <3>1
  <2>11. kept > 0
    BY <1>1, <2>2, <2>3, <2>5, <2>9, <2>10, HealthySecured
  <2> QED
    BY <1>5, <2>1, <2>6, <2>11
<1>11. QuietStep \/ LenderStep => UNCHANGED loans
  BY DEF QuietStep, LenderStep
<1> QED
  BY <1>1, <1>4, <1>6, <1>7, <1>8, <1>9, <1>10, <1>11, StepKinds DEF LoanStep

\* No loan is without a debt or without collateral, both of which are divided
\* by or asserted positive before it can be closed: as long as no health factor
\* rounds to nothing, since a liquidation may only then take the last of the
\* collateral (contracts/loan_manager/src/contract.rs:509).
THEOREM LoansStaySecured ==
  Spec /\ []AvailableIsInTotal /\ []HealthIsVisible => []LoansAreSecured
<1>1. Init => LoansAreSecured
  BY DEF Init, Book!BookInit, LoansAreSecured
<1> QED
  BY <1>1, SecuredStep, ValueIsKept, PTL DEF Spec
-----------------------------------------------------------------------------
(* Health is not lost. *)

HealthOf(loan) == HealthFactor(loan.from, loan.borrowed, loan.collateralFrom, loan.collateral)

\* A loan as a call leaves the one it touches: up to date, and no less healthy
\* than with interest alone.
IsSpared(id) ==
  LET grown == LoanWithInterest(id)
      loan  == loans'[id]
  IN  /\ AddInterestOK(id)
      /\ loan.from = grown.from /\ loan.collateralFrom = grown.collateralFrom
      /\ loan.lastAccrual = grown.lastAccrual
      /\ HealthOf(grown) \in Int /\ HealthOf(loan) \in Int
      /\ HealthOf(loan) >= HealthOf(grown)

\* The same collateral makes a smaller debt no less healthy.
LEMMA SmallerDebtIsHealthier ==
  ASSUME TypeOK, NEW p \in Pools, NEW q \in Pools, NEW b \in Nat \ {0}, NEW d \in Nat \ {0},
         d <= b, NEW c \in Nat, HasHealthFactor(p, b, q)
  PROVE  ~(HealthFactor(p, d, q, c) < HealthFactor(p, b, q, c))
<1> DEFINE worth == twap[q] * c * CollateralFactor[q]
           value == CollateralValue(q, c) * DECIMAL
           more  == BorrowedValue(p, b)
           less  == BorrowedValue(p, d)
<1>1. /\ twap[p] \in Nat \ {0} /\ twap[q] \in Nat /\ CollateralFactor[q] \in Nat
      /\ DECIMAL \in Nat \ {0}
  BY PoolsAssumption, ScaleAssumption DEF TypeOK, HasHealthFactor, NoPrice
<1>2. value \in Nat
  <2>1. twap[q] * c \in Nat
    BY <1>1
  <2>2. worth \in Nat
    BY <1>1, <2>1
  <2> HIDE DEF worth
  <2>3. CollateralValue(q, c) = TruncDiv(worth, DECIMAL)
    BY DEF CollateralValue, worth
  <2>4. CollateralValue(q, c) \in Nat
    BY <1>1, <2>2, <2>3, TruncDivNat
  <2> QED
    BY <1>1, <2>4
<1>3. more \in Nat \ {0} /\ less \in Nat \ {0} /\ less <= more
  <2>1. twap[p] * d <= twap[p] * b
    BY <1>1, ProductGrows
  <2>2. twap[p] * d \in Nat \ {0} /\ twap[p] * b \in Nat \ {0}
    BY <1>1
  <2> QED
    BY <2>1, <2>2 DEF BorrowedValue
<1>4. /\ HealthFactor(p, d, q, c) = TruncDiv(value, less)
      /\ HealthFactor(p, b, q, c) = TruncDiv(value, more)
  BY DEF HealthFactor
<1> HIDE DEF value, more, less
<1>5. /\ TruncDiv(value, more) <= TruncDiv(value, less)
      /\ TruncDiv(value, more) \in Nat /\ TruncDiv(value, less) \in Nat
  BY <1>2, <1>3, TruncDivBySmaller, TruncDivNat
<1> QED
  BY <1>4, <1>5

\* Interest makes a loan less healthy only by raising the accrual it remembers.
LEMMA InterestHarmsInTime ==
  ASSUME ValueInv, AvailableIsInTotal, NEW id \in DOMAIN loans, AddInterestOK(id)
  PROVE  LET grown == LoanWithInterest(id)
         IN  \/ grown.lastAccrual > loans[id].lastAccrual
             \/ /\ grown.borrowed = loans[id].borrowed
                /\ HealthOf(grown) = HealthOf(loans[id])
<1>1. TypeOK
  BY PoolsAreBacked
<1>2. /\ LoanWithInterest(id).lastAccrual = CurrentAccrual(id)
      /\ LoanWithInterest(id).borrowed = GrownDebt(id)
      /\ LoanWithInterest(id).from = loans[id].from
      /\ LoanWithInterest(id).collateralFrom = loans[id].collateralFrom
      /\ LoanWithInterest(id).collateral = loans[id].collateral
  BY <1>1, LoanWithInterestType, GrownLoanRemembers
<1>3. CASE CurrentAccrual(id) = loans[id].lastAccrual
  BY <1>2, <1>3, DebtGrows DEF HealthOf
<1>4. CASE CurrentAccrual(id) # loans[id].lastAccrual
  BY <1>2, <1>4, DebtGrows
<1> QED
  BY <1>3, <1>4

\* The health factor that add_interest stores.
LEMMA GrownHealth ==
  ASSUME TypeOK, NEW id \in DOMAIN loans, AddInterestOK(id)
  PROVE  LET grown == LoanWithInterest(id)
         IN  grown.health = HealthOf(grown) /\ HealthOf(grown) \in Int
<1>1. loans[id] \in LoanRecord
  BY LoansType
<1>2. LoanWithInterest(id).health
        = HealthFactor(loans[id].from, GrownDebt(id), loans[id].collateralFrom,
                       loans[id].collateral)
  BY <1>1 DEF LoanWithInterest, LoanRecord
<1>3. LoanWithInterest(id).health = HealthOf(LoanWithInterest(id))
  BY <1>2, LoanWithInterestType DEF HealthOf
<1>4. LoanWithInterest(id).health \in Int
  BY LoanWithInterestType DEF LoanRecord
<1> QED
  BY <1>3, <1>4

\* add_interest
LEMMA InterestSpares ==
  ASSUME TypeOK, NEW id \in DOMAIN loans, AddInterest(id)
  PROVE  IsSpared(id)
<1>1. AddInterestOK(id) /\ loans'[id] = LoanWithInterest(id)
  BY DEF AddInterest, Book!WriteEntry
<1> QED
  BY <1>1, GrownHealth DEF IsSpared

\* repay
LEMMA RepaySpares ==
  ASSUME ValueInv, ValueInv', AvailableIsInTotal, LoansAreSecured,
         NEW id \in DOMAIN loans, NEW a \in RepayAmounts, ManagerRepay(id, a)
  PROVE  IsSpared(id)
<1> DEFINE grown == LoanWithInterest(id)
           left  == grown.borrowed - a
           c     == loans[id].collateral
           p     == loans[id].from
           q     == loans[id].collateralFrom
<1>1. /\ TypeOK /\ AddInterestOK(id) /\ a \in Int
      /\ RepayOK(AfterInterest(id)[grown.from], Owner(id), a, grown.unpaid)
      /\ HasHealthFactor(grown.from, left, grown.collateralFrom)
  BY PoolsAreBacked, AmountsAssumption DEF ManagerRepay, ManagerRepayOK
<1>2. /\ grown \in LoanRecord /\ grown.from = p /\ grown.collateralFrom = q
      /\ grown.collateral = c /\ grown.borrowed = GrownDebt(id)
      /\ grown.borrowed \in Nat \ {0} /\ grown.unpaid \in Nat
  BY <1>1, LoanWithInterestType, GrownLoanIsSound
<1>3. /\ p \in Pools /\ q \in Pools /\ c \in Nat
      /\ HasHealthFactor(p, grown.borrowed, q)
  <2>1. p \in Pools /\ q \in Pools /\ c \in Int
    BY <1>1, GrownLoan
  <2>2. c > 0
    BY DEF LoansAreSecured
  <2> QED
    BY <1>1, <1>2, <2>1, <2>2 DEF AddInterestOK
<1>4. a >= 0
  <2> DEFINE fee == AdminFee(a, grown.unpaid)
  <2>1. a - fee >= 0 /\ fee >= 0
    BY <1>1 DEF RepayOK, CanMove
  <2>2. grown.unpaid \in Int
    BY <1>2
  <2>3. fee \in Int
    BY <1>1, <2>2, AdminFeeInt
  <2> HIDE DEF fee
  <2> QED
    BY <1>1, <2>1, <2>3
<1>5. PICK health, unpaid :
        Book!WriteEntry(id, [grown EXCEPT !.borrowed = left, !.unpaid = unpaid,
                                          !.health = health])
  BY DEF ManagerRepay
<1> DEFINE loan == [grown EXCEPT !.borrowed = left, !.unpaid = unpaid, !.health = health]
<1>6. loans'[id] = loan /\ id \in DOMAIN loans'
  BY <1>5 DEF Book!WriteEntry
<1>7. /\ loan.from = p /\ loan.collateralFrom = q /\ loan.collateral = c
      /\ loan.borrowed = left /\ loan.lastAccrual = grown.lastAccrual
  <2> HIDE DEF grown, p, q, c, left
  <2> QED
    BY <1>2 DEF LoanRecord
<1>8. left > 0
  BY <1>6, <1>7 DEF ValueInv, IsSoundLoan
<1>9. left \in Nat \ {0} /\ left <= grown.borrowed
  BY <1>1, <1>2, <1>4, <1>8
<1>10. /\ HealthOf(loan) = HealthFactor(p, left, q, c)
       /\ HealthOf(grown) = HealthFactor(p, grown.borrowed, q, c)
  BY <1>2, <1>7 DEF HealthOf
<1>11. HealthOf(loan) \in Int /\ HealthOf(grown) \in Int
  <2>1. HealthFactor(p, left, q, c) \in Int
    BY <1>1, <1>2, <1>3, <1>9, HealthFactorInt DEF HasHealthFactor
  <2> QED
    BY <1>1, <1>10, <2>1, GrownHealth
<1>12. ~(HealthFactor(p, left, q, c) < HealthFactor(p, grown.borrowed, q, c))
  <2> HIDE DEF grown, left, p, q, c
  <2> QED
    BY <1>1, <1>2, <1>3, <1>9, SmallerDebtIsHealthier
<1> HIDE DEF loan, left, c, p, q
<1>13. HealthOf(loan) >= HealthOf(grown)
  BY <1>10, <1>11, <1>12
<1> QED
  BY <1>1, <1>2, <1>6, <1>7, <1>11, <1>13 DEF IsSpared

\* liquidate
LEMMA LiquidationSpares ==
  ASSUME TypeOK, TypeOK', NEW w \in Users, NEW id \in DOMAIN loans,
         NEW a \in LiquidateAmounts, LiquidateLoan(w, id, a)
  PROVE  IsSpared(id)
<1> DEFINE grown == LoanWithInterest(id)
           p     == loans[id].from
           q     == loans[id].collateralFrom
           left  == grown.borrowed - a
           kept  == grown.collateral - SeizedCollateral(p, q, a)
           loan  == LiquidatedLoan(id, a)
<1>1. /\ AddInterestOK(id) /\ Book!WriteEntry(id, loan)
      /\ loan.health >= grown.health
  BY DEF LiquidateLoan, LiquidateLoanOK, KeepsHealth
<1>2. /\ grown \in LoanRecord /\ grown.from = p /\ grown.collateralFrom = q
  BY <1>1, LoanWithInterestType
<1>3. grown.health = HealthOf(grown) /\ HealthOf(grown) \in Int
  BY <1>1, GrownHealth
<1>4. /\ loan.from = p /\ loan.collateralFrom = q /\ loan.borrowed = left
      /\ loan.collateral = kept /\ loan.lastAccrual = grown.lastAccrual
      /\ loan.health = HealthFactor(p, left, q, kept)
  BY <1>2 DEF LiquidatedLoan, LoanRecord
<1>5. loans'[id] = loan /\ id \in DOMAIN loans'
  BY <1>1 DEF Book!WriteEntry
<1>6. loan.health \in Int
  <2>1. loans'[id] \in LoanRecord
    BY <1>5 DEF TypeOK, Book!BookTypeOK
  <2> QED
    BY <1>5, <2>1 DEF LoanRecord
<1>7. HealthOf(loan) = loan.health
  BY <1>4 DEF HealthOf
<1> HIDE DEF loan, grown
<1> QED
  BY <1>1, <1>2, <1>3, <1>4, <1>5, <1>6, <1>7 DEF IsSpared, grown

\* A loan that a step leaves is as it was, or spared.
LEMMA LoansAreSpared ==
  ASSUME ValueInv, ValueInv', AvailableIsInTotal, LoansAreSecured, [Next]_vars,
         NEW id \in DOMAIN loans \cap DOMAIN loans'
  PROVE  loans'[id] = loans[id] \/ IsSpared(id)
<1>1. TypeOK /\ TypeOK' /\ UndeployedAreBlank /\ Inv
  BY PoolsAreBacked DEF ValueInv, ClockInv, DeployedInv, Inv
<1>2. ASSUME NEW j \in DOMAIN loans, j # id, NEW loan, Book!WriteEntry(j, loan)
      PROVE  loans'[id] = loans[id]
  BY <1>2 DEF Book!WriteEntry
<1>3. ASSUME NEW u \in Users, NEW p \in Pools, NEW q \in Pools,
             NEW b \in BorrowAmounts, NEW c \in CollateralAmounts, CreateLoan(u, p, b, q, c)
      PROVE  loans'[id] = loans[id]
  <2>1. PICK loan : Book!CreateEntry(u, loan)
    BY <1>3 DEF CreateLoan
  <2>2. BookChange(u, nonce[u] + 1) /\ <<u, nonce[u] + 1>> \notin DOMAIN loans
    BY <1>1, <2>1, CreateIsChange DEF Inv, Book!BookInv, Book!BookTypeOK
  <2> QED
    BY <2>1, <2>2 DEF Book!CreateEntry
<1>4. ASSUME NEW j \in DOMAIN loans, AddInterest(j)
      PROVE  loans'[id] = loans[id] \/ IsSpared(id)
  <2>1. CASE j # id
    BY <1>2, <1>4, <2>1 DEF AddInterest
  <2>2. CASE j = id
    BY <1>1, <1>4, <2>2, InterestSpares
  <2> QED
    BY <2>1, <2>2
<1>5. ASSUME NEW j \in DOMAIN loans, NEW a \in RepayAmounts, ManagerRepay(j, a)
      PROVE  loans'[id] = loans[id] \/ IsSpared(id)
  <2>1. CASE j # id
    BY <1>2, <1>5, <2>1 DEF ManagerRepay
  <2>2. CASE j = id
    BY <1>5, <2>2, RepaySpares
  <2> QED
    BY <2>1, <2>2
<1>6. ASSUME NEW j \in DOMAIN loans, NEW a \in AllowedAmounts, CloseLoan(j, a)
      PROVE  loans'[id] = loans[id]
  BY <1>6 DEF CloseLoan, Book!DeleteEntry
<1>7. ASSUME NEW w \in Users, NEW j \in DOMAIN loans, NEW a \in LiquidateAmounts,
             LiquidateLoan(w, j, a)
      PROVE  loans'[id] = loans[id] \/ IsSpared(id)
  <2>1. CASE j # id
    BY <1>2, <1>7, <2>1 DEF LiquidateLoan
  <2>2. CASE j = id
    BY <1>1, <1>7, <2>2, LiquidationSpares
  <2> QED
    BY <2>1, <2>2
<1>8. QuietStep \/ LenderStep => UNCHANGED loans
  BY DEF QuietStep, LenderStep
<1> QED
  BY <1>1, <1>3, <1>4, <1>5, <1>6, <1>7, <1>8, StepKinds DEF LoanStep

\* No step that leaves the average prices alone makes a loan less healthy, but
\* for interest.
LEMMA HealthStep ==
  ASSUME ValueInv, ValueInv', AvailableIsInTotal, LoansAreSecured, [Next]_vars, twap' = twap,
         NEW id \in DOMAIN loans \cap DOMAIN loans', HasHealthNow(id)
  PROVE  HealthNow(id)' < HealthNow(id) => loans'[id].lastAccrual # loans[id].lastAccrual
<1>1. HealthNow(id) = HealthOf(loans[id]) /\ HealthNow(id)' = HealthOf(loans'[id])
  BY DEF HealthNow, HealthOf, HealthFactor, CollateralValue, BorrowedValue
<1>2. CASE loans'[id] = loans[id]
  <2>1. /\ TypeOK /\ loans[id].from \in Pools /\ loans[id].collateralFrom \in Pools
        /\ loans[id].borrowed \in Int /\ loans[id].collateral \in Int
    BY PoolsAreBacked, LoansType DEF LoanRecord
  <2>2. HealthOf(loans[id]) \in Int
    BY <2>1, HealthFactorInt DEF HealthOf, HasHealthNow, HasHealthFactor
  <2> QED
    BY <1>1, <1>2, <2>2
<1>3. CASE IsSpared(id)
  <2>1. /\ AddInterestOK(id) /\ loans'[id].lastAccrual = LoanWithInterest(id).lastAccrual
        /\ ~(HealthOf(loans'[id]) < HealthOf(LoanWithInterest(id)))
    BY <1>3 DEF IsSpared
  <2>2. loans[id].lastAccrual \in Int /\ LoanWithInterest(id).lastAccrual \in Int
    BY <2>1, PoolsAreBacked, LoansType, LoanWithInterestType DEF LoanRecord
  <2> QED
    BY <1>1, <2>1, <2>2, InterestHarmsInTime
<1> QED
  BY <1>2, <1>3, LoansAreSpared

\* Nobody makes a loan less healthy: with the average prices where they are,
\* only interest does.  A liquidation looks at the health factor that it leaves
\* (contracts/loan_manager/src/contract.rs:509), a repayment lowers the debt and
\* leaves the collateral, and no other entry point changes either; a loan with
\* collateral worth less than nothing would be made worse by a repayment, which
\* is where LoansAreSecured is needed.
THEOREM OnlyInterestHarms ==
  Spec /\ []AvailableIsInTotal /\ []HealthIsVisible => HealthIsNotLost
<1> DEFINE LoseNothing ==
      \A id \in DOMAIN loans \cap DOMAIN loans' :
        twap' = twap /\ HasHealthNow(id) /\ HealthNow(id)' < HealthNow(id)
          => loans'[id].lastAccrual # loans[id].lastAccrual
<1>1. ASSUME ValueInv, ValueInv', AvailableIsInTotal, LoansAreSecured, [Next]_vars
      PROVE  LoseNothing
  BY <1>1, HealthStep
<1> HIDE DEF LoseNothing
<1>2. ValueInv /\ ValueInv' /\ AvailableIsInTotal /\ LoansAreSecured /\ [Next]_vars
        => [LoseNothing]_vars
  BY <1>1
<1>3. Spec /\ []AvailableIsInTotal /\ []HealthIsVisible => [][LoseNothing]_vars
  BY <1>2, ValueIsKept, LoansStaySecured, PTL DEF Spec
<1> QED
  BY <1>3 DEF HealthIsNotLost, LoseNothing

-----------------------------------------------------------------------------
(* Health, with interest up to now. *)

\* It is what add_interest would store.
LEMMA HealthInGrown ==
  ASSUME TypeOK, NEW id \in DOMAIN loans, AddInterestOK(id)
  PROVE  HealthIn(loans[id], pool[loans[id].from]) = HealthOf(LoanWithInterest(id))
<1>1. /\ LoanWithInterest(id).from = loans[id].from
      /\ LoanWithInterest(id).collateralFrom = loans[id].collateralFrom
      /\ LoanWithInterest(id).borrowed = GrownDebt(id)
      /\ LoanWithInterest(id).collateral = loans[id].collateral
  BY LoanWithInterestType
<1> QED
  BY <1>1 DEF HealthIn, HealthOf, GrownDebt, CurrentAccrual

\* A loan that is up to date has no interest to count in.
LEMMA HealthInCurrent ==
  ASSUME NEW loan, NEW r, loan.borrowed \in Nat, loan.lastAccrual \in Nat \ {0},
         AddInterestToAccrual(r, now).accrual = loan.lastAccrual
  PROVE  HealthIn(loan, r) = HealthOf(loan)
<1> DEFINE former == loan.lastAccrual
           owed   == loan.borrowed
<1>1. former \in Nat \ {0} /\ owed \in Nat /\ DECIMAL \in Nat \ {0}
  BY ScaleAssumption
<1>2. HealthIn(loan, r)
        = HealthFactor(loan.from, TruncDiv(owed * TruncDiv(former * DECIMAL, former), DECIMAL),
                       loan.collateralFrom, loan.collateral)
  BY DEF HealthIn
<1>3. HealthOf(loan) = HealthFactor(loan.from, owed, loan.collateralFrom, loan.collateral)
  BY DEF HealthOf
<1> HIDE DEF former, owed
<1>4. TruncDiv(former * DECIMAL, former) = DECIMAL
  BY <1>1, TruncDivExact
<1>5. TruncDiv(DECIMAL * owed, DECIMAL) = owed /\ DECIMAL * owed = owed * DECIMAL
  BY <1>1, TruncDivExact
<1> QED
  BY <1>2, <1>3, <1>4, <1>5

\* No call makes a loan less healthy.
LEMMA CallSparesHealth ==
  ASSUME ValueInv, ValueInv', AvailableIsInTotal, LoansAreSecured, [Next]_vars,
         NEW id \in DOMAIN loans \cap DOMAIN loans', AddInterestOK(id)
  PROVE  /\ HealthIn(loans'[id], pool'[loans[id].from]) \in Int
         /\ HealthIn(loans'[id], pool'[loans[id].from])
              >= HealthIn(loans[id], pool[loans[id].from])
<1> DEFINE p     == loans[id].from
           grown == LoanWithInterest(id)
<1>1. TypeOK /\ TypeOK'
  BY PoolsAreBacked DEF ValueInv, ClockInv, DeployedInv, Inv
<1>2. AddInterestToAccrual(pool'[p], now).accrual = AddInterestToAccrual(pool[p], now).accrual
  <2>1. p \in deployed
    BY DEF ValueInv, ClockInv, DeployedInv, LoansAreOfDeployed
  <2> QED
    BY <2>1, SettledStep DEF ValueInv, ClockInv
<1>3. HealthIn(loans[id], pool[p]) = HealthOf(grown) /\ HealthOf(grown) \in Int
  BY <1>1, HealthInGrown, GrownHealth
<1>4. CASE loans'[id] = loans[id]
  <2>1. HealthIn(loans[id], pool'[p]) = HealthIn(loans[id], pool[p])
    BY <1>2 DEF HealthIn
  <2> QED
    BY <1>3, <1>4, <2>1
<1>5. CASE IsSpared(id)
  <2>1. /\ loans'[id].lastAccrual = CurrentAccrual(id)
        /\ HealthOf(loans'[id]) >= HealthOf(grown) /\ HealthOf(loans'[id]) \in Int
    BY <1>1, <1>5, GrownLoanRemembers DEF IsSpared
  <2>2. CurrentAccrual(id) \in Nat \ {0}
    BY DebtGrows
  <2>3. loans'[id].borrowed \in Nat
    <3>1. loans'[id] \in LoanRecord /\ loans'[id].borrowed > 0
      BY <1>1 DEF TypeOK, Book!BookTypeOK, ValueInv, IsSoundLoan
    <3> QED
      BY <3>1 DEF LoanRecord
  <2>4. AddInterestToAccrual(pool'[p], now).accrual = loans'[id].lastAccrual
    BY <1>2, <2>1 DEF CurrentAccrual
  <2>5. HealthIn(loans'[id], pool'[p]) = HealthOf(loans'[id])
    BY <2>1, <2>2, <2>3, <2>4, HealthInCurrent
  <2> QED
    BY <1>3, <2>1, <2>5
<1> QED
  BY <1>4, <1>5, LoansAreSpared

\* With interest up to now counted in, only time and the average prices make a
\* loan less healthy.  It is not enough that no call harms the loan: the index
\* of the pool it is from is moved by what anybody lends, borrows and repays
\* there, and stays what it has come to by now only because every call settles
\* it first (InterestIsSettled).
THEOREM OnlyTimeHarms ==
  Spec /\ []AvailableIsInTotal /\ []HealthIsVisible => CallsSpareHealth
<1> DEFINE Spares ==
      now' = now /\ twap' = twap =>
        \A id \in DOMAIN loans \cap DOMAIN loans' :
          AddInterestOK(id)
            => HealthIn(loans'[id], pool'[loans[id].from])
                 >= HealthIn(loans[id], pool[loans[id].from])
<1>1. ASSUME ValueInv, ValueInv', AvailableIsInTotal, LoansAreSecured, [Next]_vars
      PROVE  Spares
  BY <1>1, CallSparesHealth
<1> HIDE DEF Spares
<1>2. ValueInv /\ ValueInv' /\ AvailableIsInTotal /\ LoansAreSecured /\ [Next]_vars
        => [Spares]_vars
  BY <1>1
<1>3. Spec /\ []AvailableIsInTotal /\ []HealthIsVisible => [][Spares]_vars
  BY <1>2, ValueIsKept, LoansStaySecured, PTL DEF Spec
<1> QED
  BY <1>3 DEF CallsSpareHealth, Spares

\* A loan that is new was created by the step, and is up to date and healthy.
LEMMA NewLoanIsHealthy ==
  ASSUME ValueInv, ValueInv', AvailableIsInTotal, [Next]_vars,
         NEW id \in DOMAIN loans', id \notin DOMAIN loans
  PROVE  HealthIn(loans'[id], pool'[loans'[id].from]) > 0
<1>1. /\ TypeOK /\ TypeOK' /\ UndeployedAreBlank /\ now \in Nat
      /\ pool \in [Pools -> PoolRecord] /\ pool' \in [Pools -> PoolRecord]
  BY PoolsAreBacked DEF ValueInv, ClockInv, DeployedInv, Inv, TypeOK
<1>2. \E u \in Users, p, q \in Pools, b \in BorrowAmounts, c \in CollateralAmounts :
        CreateLoan(u, p, b, q, c)
  <2>1. ~(QuietStep \/ LenderStep)
    BY DEF QuietStep, LenderStep
  <2>2. ASSUME NEW j \in DOMAIN loans, NEW loan, Book!WriteEntry(j, loan)
        PROVE  FALSE
    BY <2>2 DEF Book!WriteEntry
  <2>3. ASSUME NEW j \in DOMAIN loans, AddInterest(j)
        PROVE  FALSE
    BY <2>2, <2>3 DEF AddInterest
  <2>4. ASSUME NEW j \in DOMAIN loans, NEW a \in RepayAmounts, ManagerRepay(j, a)
        PROVE  FALSE
    BY <2>2, <2>4 DEF ManagerRepay
  <2>5. ASSUME NEW j \in DOMAIN loans, NEW a \in AllowedAmounts, CloseLoan(j, a)
        PROVE  FALSE
    BY <2>5 DEF CloseLoan, Book!DeleteEntry
  <2>6. ASSUME NEW w \in Users, NEW j \in DOMAIN loans, NEW a \in LiquidateAmounts,
               LiquidateLoan(w, j, a)
        PROVE  FALSE
    BY <2>2, <2>6 DEF LiquidateLoan
  <2> QED
    BY <1>1, <2>1, <2>3, <2>4, <2>5, <2>6, StepKinds DEF LoanStep
<1>3. PICK u \in Users, p \in Pools, q \in Pools, b \in BorrowAmounts, c \in CollateralAmounts :
        CreateLoan(u, p, b, q, c)
  BY <1>2
<1> DEFINE secured == AfterCollateral(u, q, c)
           lent    == Borrow(secured[p], now, u, b)
           health  == HealthFactor(p, b, q, c)
           loan    == [borrowed |-> b, from |-> p, collateral |-> c, collateralFrom |-> q,
                       health |-> health, unpaid |-> 0,
                       lastAccrual |-> AfterBorrow(u, p, b, q, c)[p].accrual]
<1>4. /\ b \in Int /\ c \in Int /\ DECIMAL \in Nat \ {0}
      /\ DepositCollateralOK(pool[q], now, u, c)
      /\ HasHealthFactor(p, b, q) /\ health > DECIMAL /\ Book!CreateEntry(u, loan)
      /\ pool' = AfterBorrow(u, p, b, q, c)
  BY <1>3, AmountsAssumption, ScaleAssumption DEF CreateLoan
<1>5. loans'[id] = loan
  BY <1>4 DEF Book!CreateEntry
<1>6. secured \in [Pools -> PoolRecord] /\ pool'[p] = lent
  <2>1. DepositCollateral(pool[q], now, u, c) \in PoolRecord
    BY <1>1, <1>4, DepositCollateralType
  <2>2. secured \in [Pools -> PoolRecord]
    BY <1>1, <2>1 DEF AfterCollateral
  <2>3. pool' = [secured EXCEPT ![p] = lent]
    BY <1>4 DEF AfterBorrow
  <2> HIDE DEF secured, lent
  <2> QED
    BY <2>2, <2>3
<1>7. /\ loan.from = p /\ loan.lastAccrual = pool'[p].accrual /\ loan.borrowed = b
      /\ HealthOf(loan) = health
  BY <1>4 DEF HealthOf
<1>8. health > 0
  <2>1. health \in Int
    BY <1>1, <1>4, HealthFactorInt DEF HasHealthFactor
  <2> HIDE DEF health
  <2> QED
    BY <1>4, <2>1
<1> HIDE DEF secured, lent, loan, health
<1>9. pool'[p].updated = now /\ pool'[p] \in PoolRecord
  <2>1. IsUpToDate(secured[p], pool'[p], now) /\ secured[p] \in PoolRecord
    BY <1>1, <1>6, EntryPointsAccrue DEF lent
  <2>2. AddInterestToAccrual(secured[p], now).updated = now
    BY <2>1 DEF AddInterestToAccrual, PoolRecord
  <2> QED
    BY <1>1, <2>1, <2>2 DEF IsUpToDate, HasSameIndex
<1>10. AddInterestToAccrual(pool'[p], now).accrual = pool'[p].accrual
  BY <1>1, <1>9, IndexGrows
<1>11. /\ pool'[p].accrual \in Nat \ {0} /\ b \in Nat
  <2>1. pool'[p].accrual \in Int /\ pool'[p].accrual >= DECIMAL
    BY <1>9 DEF PoolRecord, ValueInv, IsSoundPool
  <2>2. b > 0
    BY <1>5, <1>7 DEF ValueInv, IsSoundLoan
  <2> QED
    BY <1>4, <2>1, <2>2
<1>12. HealthIn(loan, pool'[p]) = HealthOf(loan)
  BY <1>7, <1>10, <1>11, HealthInCurrent
<1> QED
  BY <1>5, <1>7, <1>8, <1>12

\* With time and the average prices where they are, every health factor stays
\* above nothing.
LEMMA VisibleStep ==
  ASSUME ValueInv, ValueInv', AvailableIsInTotal, LoansAreSecured, HealthIsVisible,
         [Next]_vars, now' = now, twap' = twap
  PROVE  HealthIsVisible'
<1>1. TypeOK /\ TypeOK'
  BY PoolsAreBacked DEF ValueInv, ClockInv, DeployedInv, Inv
<1> SUFFICES ASSUME NEW id \in DOMAIN loans', AddInterestOK(id)'
             PROVE  LoanWithInterest(id).health' > 0
  BY DEF HealthIsVisible
<1>2. /\ loans'[id] \in LoanRecord
      /\ NoPrice \notin {twap[loans'[id].from], twap[loans'[id].collateralFrom]}
  BY <1>1 DEF TypeOK, Book!BookTypeOK, AddInterestOK, HasHealthFactor
<1>3. LoanWithInterest(id).health' = HealthIn(loans'[id], pool'[loans'[id].from])
  <2>1. LoanWithInterest(id).health'
          = HealthFactor(loans'[id].from, GrownDebt(id)', loans'[id].collateralFrom,
                         loans'[id].collateral)
    BY <1>2 DEF LoanWithInterest, LoanRecord, HealthFactor, CollateralValue, BorrowedValue
  <2>2. GrownDebt(id)'
          = TruncDiv(loans'[id].borrowed
                     * TruncDiv(AddInterestToAccrual(pool'[loans'[id].from], now).accrual
                                * DECIMAL, loans'[id].lastAccrual), DECIMAL)
    BY DEF GrownDebt, CurrentAccrual, AddInterestToAccrual, GetInterest
  <2> QED
    BY <2>1, <2>2 DEF HealthIn
<1>4. CASE id \notin DOMAIN loans
  BY <1>3, <1>4, NewLoanIsHealthy
<1>5. CASE id \in DOMAIN loans
  <2>1. /\ loans'[id].from = loans[id].from
        /\ loans'[id].collateralFrom = loans[id].collateralFrom
    <3>1. CASE IsSpared(id)
      BY <1>1, <1>5, <3>1, LoanWithInterestType DEF IsSpared
    <3> QED
      BY <1>5, <3>1, LoansAreSpared
  <2>2. AddInterestOK(id)
    <3>1. loans[id].lastAccrual \in Nat \ {0} /\ GrownDebt(id) \in Nat \ {0}
      BY <1>5, DebtGrows
    <3>2. twap[loans[id].from] \in Nat \ {0}
      BY <1>1, <1>2, <2>1 DEF TypeOK, NoPrice, LoanRecord
    <3>3. twap[loans[id].from] * GrownDebt(id) # 0
      BY <3>1, <3>2
    <3> QED
      BY <1>2, <1>5, <2>1, <3>1, <3>3 DEF AddInterestOK, HasHealthFactor, BorrowedValue
  <2>3. /\ HealthIn(loans[id], pool[loans[id].from]) = LoanWithInterest(id).health
        /\ LoanWithInterest(id).health \in Int /\ LoanWithInterest(id).health > 0
    BY <1>1, <1>5, <2>2, DebtGrows, HealthInGrown, GrownHealth DEF HealthIsVisible
  <2>4. /\ HealthIn(loans'[id], pool'[loans[id].from]) \in Int
        /\ HealthIn(loans'[id], pool'[loans[id].from])
             >= HealthIn(loans[id], pool[loans[id].from])
    BY <1>5, <2>2, CallSparesHealth
  <2> QED
    BY <1>3, <2>1, <2>3, <2>4
<1> QED
  BY <1>4, <1>5

\* The world outside lets no health factor fall to nothing: the borrower, or a
\* liquidator, or the market, does something in time.
TimeSparesHealth ==
  [][(now' # now \/ twap' # twap) /\ HealthIsVisible => HealthIsVisible']_vars

\* No call takes the last of a loan's health: a health factor comes to nothing
\* with time or with the average prices only.  So the theorems that suppose
\* HealthIsVisible suppose something of these, and nothing of any call.
THEOREM HealthStaysVisible ==
  Spec /\ []AvailableIsInTotal /\ TimeSparesHealth => []HealthIsVisible
<1> DEFINE Spares == (now' # now \/ twap' # twap) /\ HealthIsVisible => HealthIsVisible'
           Both   == HealthIsVisible /\ LoansAreSecured
<1>1. Init => Both
  BY DEF Init, Book!BookInit, LoansAreSecured, HealthIsVisible
<1>2. ASSUME ValueInv, ValueInv', AvailableIsInTotal, Both, [Next]_vars, [Spares]_vars
      PROVE  Both'
  <2>1. LoansAreSecured'
    BY <1>2, SecuredStep
  <2>2. CASE now' = now /\ twap' = twap
    BY <1>2, <2>1, <2>2, VisibleStep
  <2>3. CASE now' # now \/ twap' # twap
    <3>1. Spares
      BY <1>2, <2>3 DEF vars, worldVars
    <3> QED
      BY <1>2, <2>1, <2>3, <3>1
  <2> QED
    BY <2>2, <2>3
<1>3. ValueInv /\ ValueInv' /\ AvailableIsInTotal /\ Both /\ [Next]_vars /\ [Spares]_vars => Both'
  BY <1>2
<1>4. TimeSparesHealth => [][Spares]_vars
  BY DEF TimeSparesHealth
<1>5. Both => HealthIsVisible
  OBVIOUS
<1> HIDE DEF Spares, Both
<1> QED
  BY <1>1, <1>3, <1>4, <1>5, ValueIsKept, PTL DEF Spec

-----------------------------------------------------------------------------
(* No user's position in a pool falls below nothing. *)

HaveNaturalPositions(pools) == \A p \in Pools : HasNaturalPositions(pools[p])

LEMMA EntriesStayNatural ==
  ASSUME NEW before \in [Pools -> PoolRecord], NEW after, NEW p \in Pools, NEW u \in Users,
         NEW total, NEW available, NEW shares \in Int, NEW liabilities \in Int,
         NEW collateral \in Int,
         IsPoolEntry(before, after, p, u, total, available, shares, liabilities, collateral),
         HaveNaturalPositions(before),
         before[p].positions[u].shares + shares >= 0,
         before[p].positions[u].liabilities + liabilities >= 0,
         before[p].positions[u].collateral + collateral >= 0
  PROVE  HaveNaturalPositions(after)
<1> SUFFICES ASSUME NEW q \in Pools
             PROVE  HasNaturalPositions(after[q])
  BY DEF HaveNaturalPositions
<1>1. before[p] \in PoolRecord /\ after[p] \in PoolRecord
  BY DEF IsPoolEntry
<1>2. CASE q = p
  BY <1>1, <1>2, EntryStaysNatural DEF IsPoolEntry, HaveNaturalPositions
<1>3. CASE q # p
  BY <1>3 DEF IsPoolEntry, HaveNaturalPositions
<1> QED
  BY <1>2, <1>3

\* One kind of amount at a time.
LEMMA PositionsAreInts ==
  ASSUME NEW pools \in [Pools -> PoolRecord], HaveNaturalPositions(pools),
         NEW p \in Pools, NEW u \in Users
  PROVE  /\ pools[p].positions[u].shares \in Nat
         /\ pools[p].positions[u].liabilities \in Nat
         /\ pools[p].positions[u].collateral \in Nat
<1>1. pools[p].positions[u] \in Position
  BY DEF PoolRecord
<1> QED
  BY <1>1 DEF Position, HaveNaturalPositions, HasNaturalPositions

LEMMA SharesStayNatural ==
  ASSUME NEW before \in [Pools -> PoolRecord], NEW after, NEW p \in Pools, NEW u \in Users,
         NEW total, NEW available, NEW shares \in Int,
         IsPoolEntry(before, after, p, u, total, available, shares, 0, 0),
         HaveNaturalPositions(before), before[p].positions[u].shares + shares >= 0
  PROVE  HaveNaturalPositions(after)
<1>1. /\ before[p].positions[u].liabilities + 0 >= 0
      /\ before[p].positions[u].collateral + 0 >= 0
  BY PositionsAreInts
<1> QED
  BY <1>1, EntriesStayNatural

LEMMA LiabilitiesStayNatural ==
  ASSUME NEW before \in [Pools -> PoolRecord], NEW after, NEW p \in Pools, NEW u \in Users,
         NEW total, NEW available, NEW liabilities \in Int,
         IsPoolEntry(before, after, p, u, total, available, 0, liabilities, 0),
         HaveNaturalPositions(before), before[p].positions[u].liabilities + liabilities >= 0
  PROVE  HaveNaturalPositions(after)
<1>1. /\ before[p].positions[u].shares + 0 >= 0
      /\ before[p].positions[u].collateral + 0 >= 0
  BY PositionsAreInts
<1> QED
  BY <1>1, EntriesStayNatural

LEMMA CollateralStaysNatural ==
  ASSUME NEW before \in [Pools -> PoolRecord], NEW after, NEW p \in Pools, NEW u \in Users,
         NEW total, NEW available, NEW collateral \in Int,
         IsPoolEntry(before, after, p, u, total, available, 0, 0, collateral),
         HaveNaturalPositions(before), before[p].positions[u].collateral + collateral >= 0
  PROVE  HaveNaturalPositions(after)
<1>1. /\ before[p].positions[u].shares + 0 >= 0
      /\ before[p].positions[u].liabilities + 0 >= 0
  BY PositionsAreInts
<1> QED
  BY <1>1, EntriesStayNatural

\* deposit
LEMMA UserDepositNatural ==
  ASSUME ValueInv, AvailableIsInTotal, HaveNaturalPositions(pool),
         NEW u \in Users, NEW p \in Pools, NEW a \in DepositAmounts, UserDeposit(u, p, a)
  PROVE  HaveNaturalPositions(pool')
<1>1. /\ TypeOK /\ pool \in [Pools -> PoolRecord] /\ IsBacked(pool[p]) /\ a \in Int
  BY PoolsAreBacked, AmountsAssumption DEF AreBacked
<1>2. a \in Nat
  BY <1>1 DEF UserDeposit, DepositOK
<1>3. SharesIssued(pool[p], a) \in Nat
  BY <1>1, <1>2, SharesIssuedNat
<1>4. pool[p].positions[u].shares + SharesIssued(pool[p], a) >= 0
  BY <1>1, <1>3, PositionsAreInts
<1>5. IsPoolEntry(pool, pool', p, u, a, a, SharesIssued(pool[p], a), 0, 0)
  BY <1>1, UserDepositEntries
<1>6. SharesIssued(pool[p], a) \in Int
  BY <1>3
<1> QED
  BY <1>1, <1>4, <1>5, <1>6, SharesStayNatural

\* withdraw
LEMMA UserWithdrawNatural ==
  ASSUME TypeOK, HaveNaturalPositions(pool),
         NEW u \in Users, NEW p \in Pools, NEW a \in WithdrawAmounts, UserWithdraw(u, p, a)
  PROVE  HaveNaturalPositions(pool')
<1> DEFINE burned == SharesBurned(pool[p], a)
           back   == -burned
<1>1. /\ pool \in [Pools -> PoolRecord] /\ burned \in Int
      /\ IsPoolEntry(pool, pool', p, u, -a, -a, back, 0, 0)
  BY UserWithdrawEntries DEF TypeOK
<1>2. burned <= pool[p].positions[u].shares
  BY DEF UserWithdraw, WithdrawOK, WithdrawInternalOK
<1>3. pool[p].positions[u].shares \in Int
  BY <1>1, PositionsAreInts
<1> HIDE DEF burned
<1>4. back \in Int /\ pool[p].positions[u].shares + back >= 0
  BY <1>1, <1>2, <1>3
<1> HIDE DEF back
<1> QED
  BY <1>1, <1>4, SharesStayNatural

\* deposit_collateral, in any pools a user calls it or create_loan does.
LEMMA CollateralNatural ==
  ASSUME NEW pools \in [Pools -> PoolRecord], HaveNaturalPositions(pools), now \in Nat,
         NEW u \in Users, NEW q \in Pools, NEW c \in Int,
         DepositCollateralOK(pools[q], now, u, c)
  PROVE  HaveNaturalPositions([pools EXCEPT ![q] = DepositCollateral(@, now, u, c)])
<1> DEFINE record == DepositCollateral(pools[q], now, u, c)
<1>1. HasNaturalPositions(record)
  BY DepositCollateralStaysNatural DEF HaveNaturalPositions
<1> HIDE DEF record
<1>2. HaveNaturalPositions([pools EXCEPT ![q] = record])
  BY <1>1 DEF HaveNaturalPositions
<1> QED
  BY <1>2 DEF record

\* create_loan
LEMMA CreateLoanNatural ==
  ASSUME TypeOK, HaveNaturalPositions(pool),
         NEW u \in Users, NEW p \in Pools, NEW q \in Pools,
         NEW b \in BorrowAmounts, NEW c \in CollateralAmounts, CreateLoan(u, p, b, q, c)
  PROVE  HaveNaturalPositions(pool')
<1> DEFINE secured == AfterCollateral(u, q, c)
           lent    == -b
<1>1. /\ pool \in [Pools -> PoolRecord] /\ now \in Nat /\ b \in Int /\ c \in Int
  BY AmountsAssumption DEF TypeOK
<1>2. /\ DepositCollateralOK(pool[q], now, u, c) /\ BorrowOK(secured[p], u, b)
      /\ pool' = [secured EXCEPT ![p] = Borrow(@, now, u, b)]
  BY DEF CreateLoan, AfterBorrow
<1>3. HaveNaturalPositions(secured)
  BY <1>1, <1>2, CollateralNatural DEF AfterCollateral
<1>4. secured \in [Pools -> PoolRecord]
  BY <1>1, <1>2, DepositCollateralType DEF AfterCollateral
<1> HIDE DEF secured
<1>5. IsPoolEntry(secured, pool', p, u, 0, lent, 0, b, 0)
  <2>1. secured[p] \in PoolRecord
    BY <1>4
  <2>2. Borrow(secured[p], now, u, b) \in PoolRecord
    BY <1>1, <1>2, <2>1, BorrowType
  <2>3. IsEntry(secured[p], Borrow(secured[p], now, u, b), u, 0, lent, 0, b, 0)
    BY <1>1, <2>1, BorrowEntry
  <2> HIDE DEF lent
  <2> QED
    BY <1>2, <1>4, <2>2, <2>3, EntryInPlace
<1>6. b >= 0
  BY <1>2 DEF BorrowOK, CanMove
<1>7. secured[p].positions[u].liabilities + b >= 0
  BY <1>1, <1>3, <1>4, <1>6, PositionsAreInts
<1> QED
  BY <1>1, <1>3, <1>4, <1>5, <1>7, LiabilitiesStayNatural

\* add_interest
LEMMA InterestNatural ==
  ASSUME TypeOK, HaveNaturalPositions(pool), NEW id \in DOMAIN loans, AddInterestOK(id)
  PROVE  /\ HaveNaturalPositions(AfterInterest(id))
         /\ AfterInterest(id) \in [Pools -> PoolRecord]
<1> DEFINE p == loans[id].from
           u == Owner(id)
           d == LiabilityGrowth(id)
<1>1. pool \in [Pools -> PoolRecord] /\ p \in Pools /\ u \in Users
  BY LoansType DEF TypeOK, LoanRecord
<1>2. d \in Int /\ IsPoolEntry(pool, AfterInterest(id), p, u, 0, 0, 0, d, 0)
  BY InterestEntries
<1>3. GrownDebt(id) \in Int /\ loans[id].borrowed \in Int
  BY GrownDebtInt, LoansType DEF AddInterestOK, LoanRecord
<1>4. d >= 0
  BY <1>3 DEF LiabilityGrowth
<1> HIDE DEF p, u, d
<1>5. pool[p].positions[u].liabilities + d >= 0
  BY <1>1, <1>2, <1>4, PositionsAreInts
<1> QED
  BY <1>1, <1>2, <1>5, LiabilitiesStayNatural, AfterInterestType

\* repay
LEMMA ManagerRepayNatural ==
  ASSUME TypeOK, HaveNaturalPositions(pool), NEW id \in DOMAIN loans, NEW a \in RepayAmounts,
         ManagerRepay(id, a)
  PROVE  HaveNaturalPositions(pool')
<1> DEFINE p         == loans[id].from
           u         == Owner(id)
           mid       == AfterInterest(id)
           unpaid    == LoanWithInterest(id).unpaid
           fee       == AdminFee(a, unpaid)
           interest  == InterestPart(a, unpaid)
           principal == Smaller(a - interest, mid[p].positions[u].liabilities)
           back      == -principal
<1>1. AddInterestOK(id) /\ p \in Pools /\ u \in Users /\ a \in Int
  BY LoansType, AmountsAssumption DEF ManagerRepay, ManagerRepayOK, LoanRecord
<1>2. HaveNaturalPositions(mid) /\ mid \in [Pools -> PoolRecord]
  BY <1>1, InterestNatural
<1>3. /\ fee \in Int /\ interest \in Int /\ principal \in Int
      /\ IsPoolEntry(mid, pool', p, u, interest - fee, a - fee, 0, back, 0)
  BY ManagerRepayEntries
<1> HIDE DEF p, u, mid, fee, interest
<1>4. mid[p].positions[u].liabilities \in Int
  BY <1>1, <1>2, PositionsAreInts
<1>5. principal <= mid[p].positions[u].liabilities
  BY <1>1, <1>3, <1>4 DEF Smaller
<1> HIDE DEF principal
<1>6. back \in Int /\ mid[p].positions[u].liabilities + back >= 0
  BY <1>3, <1>4, <1>5
<1> HIDE DEF back
<1> QED
  BY <1>1, <1>2, <1>3, <1>6, LiabilitiesStayNatural

\* repay_and_close_manager
LEMMA CloseLoanNatural ==
  ASSUME TypeOK, HaveNaturalPositions(pool), NEW id \in DOMAIN loans, NEW a \in AllowedAmounts,
         CloseLoan(id, a)
  PROVE  HaveNaturalPositions(pool')
<1> DEFINE p    == loans[id].from
           q    == loans[id].collateralFrom
           u    == Owner(id)
           mid  == AfterInterest(id)
           paid == AfterClosePayment(id, a)
           loan == LoanWithInterest(id)
           fee  == AdminFee(loan.borrowed, loan.unpaid)
           owed == mid[p].positions[u].liabilities
           back == -owed
           free == -loans[id].collateral
<1>1. /\ AddInterestOK(id) /\ p \in Pools /\ q \in Pools /\ u \in Users
      /\ WithdrawCollateralOK(paid[loan.collateralFrom], u, loan.collateral)
  BY LoansType DEF CloseLoan, CloseLoanOK, LoanRecord
<1>2. HaveNaturalPositions(mid) /\ mid \in [Pools -> PoolRecord]
  BY <1>1, InterestNatural
<1>3. /\ owed \in Int /\ loans[id].collateral \in Int /\ paid \in [Pools -> PoolRecord]
      /\ IsPoolEntry(mid, paid, p, u, loan.unpaid - fee, loan.borrowed - fee, 0, back, 0)
      /\ IsPoolEntry(paid, pool', q, u, 0, 0, 0, 0, free)
  BY CloseLoanEntries
<1>4. loans[id].collateral <= paid[q].positions[u].collateral
  BY <1>1, LoanWithInterestType DEF WithdrawCollateralOK, CanDecreasePositions
<1> HIDE DEF p, q, u, mid, paid, loan, fee
<1>5. back \in Int /\ mid[p].positions[u].liabilities + back >= 0
  BY <1>3
<1> HIDE DEF back, owed
<1>6. HaveNaturalPositions(paid)
  BY <1>1, <1>2, <1>3, <1>5, LiabilitiesStayNatural
<1>7. paid[q].positions[u].collateral \in Int
  BY <1>1, <1>3, <1>6, PositionsAreInts
<1>8. free \in Int /\ paid[q].positions[u].collateral + free >= 0
  BY <1>3, <1>4, <1>7
<1> HIDE DEF free
<1> QED
  BY <1>1, <1>3, <1>6, <1>8, CollateralStaysNatural

\* liquidate
LEMMA LiquidateLoanNatural ==
  ASSUME TypeOK, HaveNaturalPositions(pool), NEW w \in Users, NEW id \in DOMAIN loans,
         NEW a \in LiquidateAmounts, LiquidateLoan(w, id, a)
  PROVE  HaveNaturalPositions(pool')
<1> DEFINE p      == loans[id].from
           q      == loans[id].collateralFrom
           u      == Owner(id)
           mid    == AfterInterest(id)
           paid   == AfterLiquidationPayment(w, id, a)
           loan   == LoanWithInterest(id)
           fee    == AdminFee(a, loan.unpaid)
           seized == SeizedCollateral(p, q, a)
           back   == -a
           free   == -seized
<1>1. /\ AddInterestOK(id) /\ p \in Pools /\ q \in Pools /\ u \in Users /\ a \in Int
      /\ LiquidateOK(mid[loan.from], w, a, loan.unpaid, u)
      /\ LiquidateTransferCollateralOK(paid[loan.collateralFrom],
           SeizedCollateral(loan.from, loan.collateralFrom, a), u)
  BY LoansType, AmountsAssumption DEF LiquidateLoan, LiquidateLoanOK, LoanRecord
<1>2. HaveNaturalPositions(mid) /\ mid \in [Pools -> PoolRecord]
  BY <1>1, InterestNatural
<1>3. /\ seized \in Int /\ paid \in [Pools -> PoolRecord]
      /\ IsPoolEntry(mid, paid, p, u, 0, a - fee, 0, back, 0)
      /\ IsPoolEntry(paid, pool', q, u, 0, 0, 0, 0, free)
  BY LiquidateLoanEntries
<1>4. /\ a <= mid[p].positions[u].liabilities
      /\ seized <= paid[q].positions[u].collateral
  BY <1>1, LoanWithInterestType
     DEF LiquidateOK, LiquidateTransferCollateralOK, CanDecreasePositions
<1> HIDE DEF p, q, u, mid, paid, loan, fee, seized
<1>5. mid[p].positions[u].liabilities \in Int
  BY <1>1, <1>2, PositionsAreInts
<1>6. back \in Int /\ mid[p].positions[u].liabilities + back >= 0
  BY <1>1, <1>4, <1>5
<1> HIDE DEF back
<1>7. HaveNaturalPositions(paid)
  BY <1>1, <1>2, <1>3, <1>6, LiabilitiesStayNatural
<1>8. paid[q].positions[u].collateral \in Int
  BY <1>1, <1>3, <1>7, PositionsAreInts
<1>9. free \in Int /\ paid[q].positions[u].collateral + free >= 0
  BY <1>3, <1>4, <1>8
<1> HIDE DEF free
<1> QED
  BY <1>1, <1>3, <1>7, <1>9, CollateralStaysNatural

\* Every step.
LEMMA NaturalStep ==
  ASSUME ValueInv, AvailableIsInTotal, HaveNaturalPositions(pool), [Next]_vars
  PROVE  HaveNaturalPositions(pool')
<1>1. TypeOK /\ UndeployedAreBlank /\ pool \in [Pools -> PoolRecord] /\ now \in Nat
  BY PoolsAreBacked
<1>2. CASE SameBooks(pool, pool')
  BY <1>2 DEF SameBooks, HasSameBooks, HaveNaturalPositions, HasNaturalPositions
<1>3. ASSUME NEW u \in Users, NEW p \in Pools, NEW a \in StrayAmounts,
             UserDepositCollateral(u, p, a)
      PROVE  HaveNaturalPositions(pool')
  <2>1. /\ a \in Int /\ DepositCollateralOK(pool[p], now, u, a)
        /\ pool' = [pool EXCEPT ![p] = DepositCollateral(@, now, u, a)]
    BY <1>3, AmountsAssumption DEF UserDepositCollateral
  <2> QED
    BY <1>1, <2>1, CollateralNatural
<1>4. CASE LoanStep
  <2>1. ASSUME NEW id \in DOMAIN loans, AddInterest(id)
        PROVE  HaveNaturalPositions(pool')
    BY <1>1, <2>1, InterestNatural DEF AddInterest
  <2> QED
    BY <1>1, <1>4, <2>1, CreateLoanNatural, ManagerRepayNatural, CloseLoanNatural,
       LiquidateLoanNatural DEF LoanStep
<1>5. ASSUME NEW p \in Pools, DeployPool(p)
      PROVE  HaveNaturalPositions(pool')
  BY <1>1, <1>2, <1>5, DeployPoolBooks DEF DeployPool, UndeployedAreBlank
<1>6. ASSUME NEW p \in Pools, UpdateAccrual(p)
      PROVE  HaveNaturalPositions(pool')
  BY <1>1, <1>2, <1>6, UpdateAccrualBooks
<1>7. ASSUME NEW p \in Pools, NEW a \in RevenueAmounts, AdminWithdrawRevenue(p, a)
      PROVE  HaveNaturalPositions(pool')
  BY <1>1, <1>2, <1>7, AdminWithdrawRevenueBooks
<1>8. ASSUME NEW p \in Pools, NEW average, NEW latest, UpdatePrice(p, average, latest)
      PROVE  HaveNaturalPositions(pool')
  BY <1>8 DEF UpdatePrice
<1>9. ASSUME NEW t \in Elapses, Elapse(t)
      PROVE  HaveNaturalPositions(pool')
  BY <1>9 DEF Elapse
<1>10. CASE InitializeManager \/ UNCHANGED vars
  BY <1>10 DEF InitializeManager, vars
<1> QED
  BY <1>1, <1>3, <1>4, <1>5, <1>6, <1>7, <1>8, <1>9, <1>10, UserDepositNatural,
     UserWithdrawNatural DEF Next, LoanStep

-----------------------------------------------------------------------------
(* A loan can always be closed. *)

\* A pool holds what a loan is secured with, and its borrower's position covers
\* it.
LEMMA SecurityIsHeld ==
  ASSUME Inv, LoansAreSecured, Custody, CollateralCoversLoans, HaveNaturalPositions(pool),
         NEW id \in DOMAIN loans,
         \A p \in Pools : pool[p].available >= 0
  PROVE  LET q == loans[id].collateralFrom
             c == loans[id].collateral
         IN  /\ pool[q].positions[Owner(id)].collateral >= c
             /\ pool[q].tokens[ThePool] >= c
<1> DEFINE q    == loans[id].collateralFrom
           c    == loans[id].collateral
           u    == Owner(id)
           sec  == SecurityAt(loans, q)
           held == [v \in Users |-> pool[q].positions[v].collateral]
<1>1. /\ TypeOK /\ pool \in [Pools -> PoolRecord]
      /\ DOMAIN loans \subseteq Users \X Nat /\ nonce[u] \in Nat
      /\ u \in Users /\ q \in Pools /\ c \in Int /\ c > 0
  BY LoansType DEF Inv, TypeOK, Book!BookTypeOK, Book!LoanId, LoanRecord, LoansAreSecured
<1>2. id = <<u, id[2]>> /\ id[2] \in 1 .. nonce[u]
  BY <1>1 DEF Inv, Book!BookInv, Book!NoncesAreIssued, Owner
<1>3. SecurityOf(u, q) >= c
  <2> DEFINE row == [k \in 1 .. nonce[u] |-> sec[<<u, k>>]]
  <2>1. SecurityOf(u, q) = SumTo(row, nonce[u])
    BY <1>1, SecurityIsRow DEF RowSum
  <2>2. \A k \in 1 .. nonce[u] : row[k] \in Nat
    <3> SUFFICES ASSUME NEW k \in 1 .. nonce[u]
                 PROVE  sec[<<u, k>>] \in Nat
      OBVIOUS
    <3>1. <<u, k>> \in Users \X Nat
      BY <1>1
    <3>2. ASSUME <<u, k>> \in DOMAIN loans
          PROVE  loans[<<u, k>>].collateral \in Nat
      BY <1>1, <3>2, LoansType DEF LoanRecord, LoansAreSecured
    <3> QED
      BY <3>1, <3>2 DEF SecurityAt
  <2>3. row[id[2]] = c
    BY <1>1, <1>2 DEF SecurityAt
  <2> HIDE DEF row
  <2>4. SumTo(row, nonce[u]) >= row[id[2]]
    BY <1>1, <1>2, <2>2, SumAtLeast
  <2> QED
    BY <2>1, <2>3, <2>4
<1>4. pool[q].positions[u].collateral >= SecurityOf(u, q)
  BY <1>1 DEF CollateralCoversLoans
<1>5. /\ SecurityOf(u, q) \in Int
      /\ \A v \in Users : held[v] \in Nat
  <2>1. SecurityOf(u, q) = RowSum(sec, u, nonce[u])
    BY <1>1, SecurityIsRow
  <2>2. \A k \in 1 .. nonce[u] : sec[<<u, k>>] \in Int
    <3> SUFFICES ASSUME NEW k \in 1 .. nonce[u]
                 PROVE  sec[<<u, k>>] \in Int
      OBVIOUS
    <3>1. <<u, k>> \in Users \X Nat
      BY <1>1
    <3>2. ASSUME <<u, k>> \in DOMAIN loans
          PROVE  loans[<<u, k>>].collateral \in Int
      BY <1>1, <3>2, LoansType DEF LoanRecord
    <3> QED
      BY <3>1, <3>2 DEF SecurityAt
  <2> QED
    BY <1>1, <2>1, <2>2, RowInt, PositionsAreInts
<1>6. pool[q].positions[u].collateral \in Nat /\ held[u] = pool[q].positions[u].collateral
  BY <1>1, PositionsAreInts
<1>7. pool[q].tokens[ThePool] = pool[q].available + SumTo(held, NumUsers)
  BY <1>1 DEF Custody, OverUsers
<1>8. SumTo(held, NumUsers) >= held[u] /\ SumTo(held, NumUsers) \in Nat
  <2>1. NumUsers \in Nat /\ Users = 1 .. NumUsers
    BY UsersAssumption DEF Users
  <2> HIDE DEF held, Users
  <2> QED
    BY <1>1, <1>5, <2>1, SumAtLeast, SumNat
<1>9. pool[q].available \in Int /\ pool[q].available >= 0
  BY <1>1 DEF PoolRecord
<1> HIDE DEF held, q, c, u, sec
<1>10. pool[q].positions[u].collateral >= c
  BY <1>1, <1>3, <1>4, <1>5, <1>6
<1>11. pool[q].tokens[ThePool] >= c
  BY <1>1, <1>6, <1>7, <1>8, <1>9, <1>10
<1> QED
  BY <1>10, <1>11 DEF q, c, u

\* A pool takes what is owed from a user who has exactly that.
LEMMA CanPayWhatIsOwed ==
  ASSUME NEW r \in PoolRecord, r.status = "Healthy", NEW u \in Users,
         NEW owed \in Nat, NEW unpaid \in Nat, r.tokens[u] = owed
  PROVE  RepayAndCloseOK(r, u, owed, owed, unpaid)
<1> DEFINE fee  == AdminFee(owed, unpaid)
           paid == Move(r.tokens, u, ThePool, owed)
           rest == Move(paid, ThePool, TheManager, fee)
<1>1. fee \in Nat /\ fee <= owed
  <2>1. /\ fee \in Nat /\ fee <= InterestPart(owed, unpaid)
        /\ InterestPart(owed, unpaid) \in Nat /\ InterestPart(owed, unpaid) <= owed
    BY FeeIsPart
  <2> HIDE DEF fee
  <2> QED
    BY <2>1
<1>2. r.tokens \in [Accounts -> Int] /\ r.tokens[ThePool] \in Nat
  BY AccountsOfTheToken DEF PoolRecord
<1>3. /\ paid \in [Accounts -> Int]
      /\ paid[ThePool] = r.tokens[ThePool] + owed
  <2>1. owed \in Int /\ u \in Accounts /\ ThePool \in Accounts
    BY AccountsOfTheToken
  <2> QED
    BY <1>2, <2>1, MoveInt, MoveHere
<1> HIDE DEF paid
<1>4. rest[ThePool] = paid[ThePool] - fee
  <2>1. fee \in Int
    BY <1>1
  <2> HIDE DEF fee
  <2> QED
    BY <1>3, <2>1, MoveHere
<1>5. r.status # "Frozen" /\ CanMove(r.tokens, u, owed)
  BY DEF CanMove
<1>6. CanMove(paid, ThePool, fee)
  <2> HIDE DEF fee
  <2> QED
    BY <1>1, <1>2, <1>3 DEF CanMove
<1>7. CanMove(rest, ThePool, owed - owed)
  <2> HIDE DEF fee, rest
  <2> QED
    BY <1>1, <1>2, <1>3, <1>4 DEF CanMove
<1> QED
  BY <1>5, <1>6, <1>7 DEF RepayAndCloseOK, paid

LEMMA LoanCanBeClosed ==
  ASSUME ValueInv, AvailableIsInTotal, LoansAreSecured, Custody, CollateralCoversLoans,
         HaveNaturalPositions(pool), NEW id \in DOMAIN loans,
         NoPrice \notin {twap[loans[id].from], twap[loans[id].collateralFrom]}
  PROVE  CanCloseWithMoney(id)
<1> DEFINE p     == loans[id].from
           q     == loans[id].collateralFrom
           c     == loans[id].collateral
           u     == Owner(id)
           loan  == LoanWithInterest(id)
           mid   == AfterInterest(id)
           funds == [mid[p] EXCEPT !.tokens[u] = loan.borrowed]
           fee   == AdminFee(loan.borrowed, loan.unpaid)
           paid  == RepayAndClose(funds, now, u, loan.borrowed, loan.borrowed, loan.unpaid)
           held  == IF q = p THEN paid ELSE pool[q]
<1>1. /\ TypeOK /\ Inv /\ AreBacked(pool) /\ pool \in [Pools -> PoolRecord] /\ now \in Nat
      /\ p \in Pools /\ q \in Pools /\ u \in Users /\ c \in Int
  BY PoolsAreBacked, LoansType DEF LoanRecord
<1>2. c > 0
  BY DEF LoansAreSecured
<1>3. AddInterestOK(id)
  <2>1. loans[id].lastAccrual # 0 /\ GrownDebt(id) \in Nat \ {0}
    BY DebtGrows
  <2>2. twap[p] \in Nat \ {0} /\ twap[q] \in Nat \ {0}
    BY <1>1 DEF TypeOK, NoPrice
  <2>3. BorrowedValue(p, GrownDebt(id)) # 0
    BY <2>1, <2>2 DEF BorrowedValue
  <2> QED
    BY <2>1, <2>2, <2>3 DEF AddInterestOK, HasHealthFactor, NoPrice
<1>4. /\ loan.from = p /\ loan.collateralFrom = q /\ loan.collateral = c
      /\ loan.borrowed \in Nat /\ loan.unpaid \in Nat
  BY <1>1, <1>3, LoanWithInterestType, GrownLoanIsSound
<1>5. HaveNaturalPositions(mid) /\ mid \in [Pools -> PoolRecord]
  BY <1>1, <1>3, InterestNatural
<1>6. /\ pool[p].status = "Healthy" /\ pool[p].updated <= now /\ pool[p].multiplier = 1
      /\ IsUpToDate(pool[p], mid[p], now)
  BY <1>1, <1>3, InterestAccrues DEF ValueInv, ClockInv, IsSoundPool
<1>7. mid[p].status = "Healthy"
  BY <1>1, <1>5, <1>6, IndexFollows
<1>8. /\ mid[p].tokens[ThePool] = pool[p].tokens[ThePool]
      /\ mid[p].positions[u].collateral = pool[p].positions[u].collateral
  <2>1. IsPoolEntry(pool, mid, p, u, 0, 0, 0, LiabilityGrowth(id), 0)
    BY <1>1, <1>3, InterestEntries
  <2>2. pool[p].tokens[ThePool] \in Int /\ pool[p].positions[u].collateral \in Int
    BY <1>1, AccountsOfTheToken DEF PoolRecord, Position
  <2> QED
    BY <2>1, <2>2 DEF IsPoolEntry, IsEntry
<1>9. /\ pool[q].positions[u].collateral >= c
      /\ pool[q].tokens[ThePool] >= c
  <2>1. \A r \in Pools : pool[r].available >= 0
    BY DEF ValueInv, IsSoundPool
  <2> QED
    BY <1>1, <2>1, SecurityIsHeld
<1> HIDE DEF mid, loan
<1>10. /\ funds \in PoolRecord /\ funds.status = "Healthy" /\ funds.tokens[u] = loan.borrowed
       /\ funds.tokens[ThePool] = mid[p].tokens[ThePool]
       /\ funds.positions = mid[p].positions
  <2>1. mid[p] \in PoolRecord /\ u \in Accounts /\ u # ThePool
    BY <1>1, <1>5, UsersAreNotContracts DEF Accounts
  <2> HIDE DEF p, u
  <2> QED
    BY <1>4, <1>7, <2>1 DEF PoolRecord
<1> HIDE DEF funds
<1>11. RepayAndCloseOK(funds, u, loan.borrowed, loan.borrowed, loan.unpaid)
  BY <1>1, <1>4, <1>10, CanPayWhatIsOwed
<1>12. WithdrawCollateralOK(held, u, c)
  <2>1. CASE q = p
    <3>1. IsEntry(funds, paid, u, loan.unpaid - fee, loan.borrowed - fee, 0,
                  -funds.positions[u].liabilities, 0)
      BY <1>1, <1>4, <1>10, RepayAndCloseEntry
    <3>2. fee \in Nat /\ fee <= loan.borrowed
      <4>1. /\ fee \in Nat /\ fee <= InterestPart(loan.borrowed, loan.unpaid)
            /\ InterestPart(loan.borrowed, loan.unpaid) \in Nat
            /\ InterestPart(loan.borrowed, loan.unpaid) <= loan.borrowed
        BY <1>4, FeeIsPart
      <4> HIDE DEF fee
      <4> QED
        BY <1>4, <4>1
    <3> HIDE DEF paid, fee
    <3>3. /\ funds.positions[u].shares \in Nat /\ funds.positions[u].liabilities \in Nat
          /\ funds.positions[u].collateral \in Nat
      BY <1>1, <1>5, <1>10, PositionsAreInts
    <3>4. /\ paid.positions[u].shares >= 0 /\ paid.positions[u].liabilities >= 0
          /\ paid.positions[u].collateral = funds.positions[u].collateral
      BY <3>1, <3>3 DEF IsEntry
    <3>5. funds.tokens[ThePool] \in Nat
      BY <1>10, AccountsOfTheToken DEF PoolRecord
    <3>6. paid.tokens[ThePool] = funds.tokens[ThePool] + (loan.borrowed - fee)
      BY <1>4, <3>1, <3>2, <3>5 DEF IsEntry
    <3>7. paid.tokens[ThePool] >= c
      <4>1. funds.tokens[ThePool] >= c
        BY <1>8, <1>9, <1>10, <2>1
      <4> HIDE DEF c
      <4> QED
        BY <1>1, <1>4, <3>2, <3>5, <3>6, <4>1
    <3>8. paid.positions[u].collateral >= c
      BY <1>8, <1>9, <1>10, <2>1, <3>4
    <3> QED
      BY <1>1, <1>2, <2>1, <3>4, <3>7, <3>8
         DEF WithdrawCollateralOK, CanMove, CanDecreasePositions
  <2>2. CASE q # p
    <3>1. pool[q].positions[u].shares \in Nat /\ pool[q].positions[u].liabilities \in Nat
      BY <1>1, PositionsAreInts
    <3> QED
      BY <1>1, <1>2, <1>9, <2>2, <3>1
         DEF WithdrawCollateralOK, CanMove, CanDecreasePositions
  <2> QED
    BY <2>1, <2>2
<1> QED
  BY <1>3, <1>4, <1>11, <1>12 DEF CanCloseWithMoney, loan, funds, mid

\* While the oracle has prices, a borrower who has the money they owe can close
\* their loan, whatever has been done to it and to the pools: nothing the others
\* do can keep the collateral.  No pool stops being healthy, each has the tokens
\* and the borrower's position the collateral, and the collateral is not
\* nothing, which withdraw_collateral would refuse.
THEOREM LoansStayClosable ==
  Spec /\ []AvailableIsInTotal /\ []HealthIsVisible => []LoansCanBeClosed
<1> DEFINE AreNatural == HaveNaturalPositions(pool)
<1>1. Init => AreNatural
  BY DEF Init, Initialize, NoPosition, HaveNaturalPositions, HasNaturalPositions
<1>2. ValueInv /\ AvailableIsInTotal /\ AreNatural /\ [Next]_vars => AreNatural'
  BY NaturalStep
<1>3. ASSUME ValueInv, AvailableIsInTotal, LoansAreSecured, Custody, CollateralCoversLoans,
             AreNatural
      PROVE  LoansCanBeClosed
  <2> SUFFICES ASSUME NEW id \in DOMAIN loans,
                      NoPrice \notin {twap[loans[id].from], twap[loans[id].collateralFrom]}
               PROVE  CanCloseWithMoney(id)
    BY DEF LoansCanBeClosed
  <2> QED
    BY <1>3, LoanCanBeClosed
<1> HIDE DEF AreNatural
<1> QED
  BY <1>1, <1>2, <1>3, ValueIsKept, LoansStaySecured, CustodyHolds, CollateralStaysCovering, PTL
     DEF Spec

-----------------------------------------------------------------------------
(* The pools are ledgers of shares. *)

SharesIn(pools, r, w) == pools[r].positions[w].shares

\* u trades so many tokens for so many shares in pool p, and that is all that
\* happens to the lenders of any pool.
IsTrade(before, after, p, u, tokens, shares) ==
  \A r \in Pools :
    /\ after[r].total = before[r].total + (IF r = p THEN tokens ELSE 0)
    /\ after[r].shares = before[r].shares + (IF r = p THEN shares ELSE 0)
    /\ \A w \in Users :
         SharesIn(after, r, w) =
           SharesIn(before, r, w) + (IF r = p /\ w = u THEN shares ELSE 0)

IsNoTrade(before, after) ==
  \A r \in Pools :
    /\ after[r].total = before[r].total
    /\ after[r].shares = before[r].shares
    /\ \A w \in Users : SharesIn(after, r, w) = SharesIn(before, r, w)

\* What of a pool is an integer.
LEMMA LedgerInts ==
  ASSUME NEW pools \in [Pools -> PoolRecord], NEW r \in Pools
  PROVE  /\ pools[r].total \in Int /\ pools[r].shares \in Int /\ pools[r].available \in Int
         /\ \A w \in Users : SharesIn(pools, r, w) \in Int
BY DEF PoolRecord, Position, SharesIn

\* An entry is a trade,
LEMMA EntryTrades ==
  ASSUME NEW before \in [Pools -> PoolRecord], NEW after, NEW p \in Pools, NEW u \in Users,
         NEW t, NEW a, NEW s, NEW l, NEW c,
         IsPoolEntry(before, after, p, u, t, a, s, l, c)
  PROVE  IsTrade(before, after, p, u, t, s)
<1> SUFFICES ASSUME NEW r \in Pools
             PROVE  /\ after[r].total = before[r].total + (IF r = p THEN t ELSE 0)
                    /\ after[r].shares = before[r].shares + (IF r = p THEN s ELSE 0)
                    /\ \A w \in Users :
                         SharesIn(after, r, w) =
                           SharesIn(before, r, w) + (IF r = p /\ w = u THEN s ELSE 0)
  BY DEF IsTrade
<1>1. /\ before[r].total \in Int /\ before[r].shares \in Int
      /\ \A w \in Users : SharesIn(before, r, w) \in Int
  BY LedgerInts
<1>2. CASE r = p
  BY <1>1, <1>2 DEF IsPoolEntry, IsEntry, SharesIn
<1>3. CASE r # p
  BY <1>1, <1>3 DEF IsPoolEntry, SharesIn
<1> QED
  BY <1>2, <1>3

\* and one that is about neither tokens owed nor shares is none.
LEMMA EntryTradesNothing ==
  ASSUME NEW before \in [Pools -> PoolRecord], NEW after, NEW p \in Pools, NEW u \in Users,
         NEW a, NEW l, NEW c, IsPoolEntry(before, after, p, u, 0, a, 0, l, c)
  PROVE  IsNoTrade(before, after)
<1>1. IsTrade(before, after, p, u, 0, 0)
  BY EntryTrades
<1>2. \A r \in Pools : /\ before[r].total \in Int /\ before[r].shares \in Int
                       /\ \A w \in Users : SharesIn(before, r, w) \in Int
  BY LedgerInts
<1> QED
  BY <1>1, <1>2 DEF IsTrade, IsNoTrade

\* A trade with no trade before it or after it.
LEMMA NoTradeBefore ==
  ASSUME NEW before, NEW mid, NEW after, NEW p, NEW u, NEW t, NEW s,
         IsNoTrade(before, mid), IsTrade(mid, after, p, u, t, s)
  PROVE  IsTrade(before, after, p, u, t, s)
BY DEF IsTrade, IsNoTrade

LEMMA NoTradeAfter ==
  ASSUME NEW before, NEW mid, NEW after, NEW p, NEW u, NEW t, NEW s,
         IsTrade(before, mid, p, u, t, s), IsNoTrade(mid, after)
  PROVE  IsTrade(before, after, p, u, t, s)
BY DEF IsTrade, IsNoTrade

LEMMA NoTradeTwice ==
  ASSUME NEW before, NEW mid, NEW after, IsNoTrade(before, mid), IsNoTrade(mid, after)
  PROVE  IsNoTrade(before, after)
BY DEF IsNoTrade

\* The ledgers that pools are.
StockOf(pools)   == [q \in Pools |-> pools[q].total]
IssuedOf(pools)  == [q \in Pools |-> pools[q].shares]
HoldingOf(pools) == [q \in Pools |-> [w \in Users |-> pools[q].positions[w].shares]]

IsLedgerTrade(before, after, p, u, tokens, shares) ==
  /\ StockOf(after) = [StockOf(before) EXCEPT ![p] = @ + tokens]
  /\ IssuedOf(after) = [IssuedOf(before) EXCEPT ![p] = @ + shares]
  /\ HoldingOf(after) = [HoldingOf(before) EXCEPT ![p][u] = @ + shares]

LEMMA HoldingsEqual ==
  ASSUME NEW before, NEW after, NEW q,
         \A w \in Users : SharesIn(after, q, w) = SharesIn(before, q, w)
  PROVE  [w \in Users |-> after[q].positions[w].shares]
           = [w \in Users |-> before[q].positions[w].shares]
BY DEF SharesIn

\* Without a trade the ledgers stutter.
LEMMA NoTradeStutters ==
  ASSUME IsNoTrade(pool, pool')
  PROVE  UNCHANGED Ledger!ledgerVars
<1>1. StockOf(pool') = StockOf(pool) /\ IssuedOf(pool') = IssuedOf(pool)
  BY DEF IsNoTrade, StockOf, IssuedOf
<1>2. \A q \in Pools : [w \in Users |-> pool'[q].positions[w].shares]
                         = [w \in Users |-> pool[q].positions[w].shares]
  BY HoldingsEqual DEF IsNoTrade
<1>3. HoldingOf(pool') = HoldingOf(pool)
  BY <1>2 DEF HoldingOf
<1> QED
  BY <1>1, <1>3 DEF Ledger!ledgerVars, StockOf, IssuedOf, HoldingOf

\* A trade is one of the ledgers'.
LEMMA TradeOfLedgers ==
  ASSUME NEW before \in [Pools -> PoolRecord], NEW after, NEW p \in Pools, NEW u \in Users,
         NEW t \in Int, NEW s \in Int, IsTrade(before, after, p, u, t, s)
  PROVE  IsLedgerTrade(before, after, p, u, t, s)
<1>1. \A r \in Pools : /\ before[r].total \in Int /\ before[r].shares \in Int
                       /\ \A w \in Users : SharesIn(before, r, w) \in Int
  BY LedgerInts
<1>2. StockOf(after) = [StockOf(before) EXCEPT ![p] = @ + t]
  <2>1. \A q \in Pools : after[q].total = IF q = p THEN before[q].total + t ELSE before[q].total
    BY <1>1 DEF IsTrade
  <2> QED
    BY <2>1 DEF StockOf
<1>3. IssuedOf(after) = [IssuedOf(before) EXCEPT ![p] = @ + s]
  <2>1. \A q \in Pools :
          after[q].shares = IF q = p THEN before[q].shares + s ELSE before[q].shares
    BY <1>1 DEF IsTrade
  <2> QED
    BY <2>1 DEF IssuedOf
<1>4. HoldingOf(after) = [HoldingOf(before) EXCEPT ![p][u] = @ + s]
  <2> DEFINE old == HoldingOf(before)
             new == HoldingOf(after)
             row == [old[p] EXCEPT ![u] = @ + s]
  <2>1. ASSUME NEW q \in Pools, q # p
        PROVE  new[q] = old[q]
    <3>1. \A w \in Users : SharesIn(after, q, w) = SharesIn(before, q, w)
      BY <1>1, <2>1 DEF IsTrade
    <3>2. [w \in Users |-> after[q].positions[w].shares]
            = [w \in Users |-> before[q].positions[w].shares]
      BY <3>1, HoldingsEqual
    <3> QED
      BY <3>2 DEF HoldingOf
  <2>2. new[p] = row
    <3>1. \A w \in Users : after[p].positions[w].shares
                             = IF w = u THEN before[p].positions[w].shares + s
                               ELSE before[p].positions[w].shares
      BY <1>1 DEF IsTrade, SharesIn
    <3> QED
      BY <3>1 DEF HoldingOf
  <2>3. old = [q \in Pools |-> old[q]] /\ new = [q \in Pools |-> new[q]]
    BY DEF HoldingOf
  <2> HIDE DEF old, new, row
  <2>4. new = [old EXCEPT ![p] = row]
    BY <2>1, <2>2, <2>3
  <2> QED
    BY <2>4 DEF old, new, row
<1> QED
  BY <1>2, <1>3, <1>4 DEF IsLedgerTrade

\* A lender who is issued shares at the price buys them.
LEMMA DepositBuys ==
  ASSUME NEW p \in Pools, NEW u \in Users, NEW t \in Int, NEW s \in Int, t > 0, s >= 0,
         IsTrade(pool, pool', p, u, t, s), pool \in [Pools -> PoolRecord],
         IsSharePrice(pool[p], t, s)
  PROVE  [Ledger!LedgerNext]_(Ledger!ledgerVars)
<1> DEFINE tokens == StockOf(pool')[p] - StockOf(pool)[p]
           shares == IssuedOf(pool')[p] - IssuedOf(pool)[p]
<1>1. tokens = t /\ shares = s
  <2>1. pool'[p].total = pool[p].total + t /\ pool'[p].shares = pool[p].shares + s
    BY DEF IsTrade
  <2>2. pool[p].total \in Int /\ pool[p].shares \in Int
    BY LedgerInts
  <2> QED
    BY <2>1, <2>2 DEF StockOf, IssuedOf
<1>2. IsLedgerTrade(pool, pool', p, u, t, s)
  BY TradeOfLedgers
<1>3. pool[p].total = StockOf(pool)[p] /\ pool[p].shares = IssuedOf(pool)[p]
  BY DEF StockOf, IssuedOf
<1>4. IF StockOf(pool)[p] = 0
      THEN s = t
      ELSE /\ s * StockOf(pool)[p] <= t * IssuedOf(pool)[p]
           /\ t * IssuedOf(pool)[p] < s * StockOf(pool)[p] + StockOf(pool)[p]
  BY <1>3 DEF IsSharePrice
<1> HIDE DEF tokens, shares
<1>5. /\ tokens > 0 /\ shares >= 0
      /\ IsLedgerTrade(pool, pool', p, u, tokens, shares)
      /\ IF StockOf(pool)[p] = 0
         THEN shares = tokens
         ELSE /\ shares * StockOf(pool)[p] <= tokens * IssuedOf(pool)[p]
              /\ tokens * IssuedOf(pool)[p] < shares * StockOf(pool)[p] + StockOf(pool)[p]
  BY <1>1, <1>2, <1>4
<1>6. Ledger!Buy(p, u)
  BY <1>5 DEF Ledger!Buy, Ledger!IsPrice, Ledger!Trade, tokens, shares, IsLedgerTrade,
              StockOf, IssuedOf, HoldingOf
<1> QED
  BY <1>6 DEF Ledger!LedgerNext

\* A lender who is paid out sells shares, if anything.
LEMMA PayoutSells ==
  ASSUME NEW p \in Pools, NEW u \in Users, NEW t \in Int, NEW s \in Int,
         IsTrade(pool, pool', p, u, t, s), pool \in [Pools -> PoolRecord],
         IsBacked(pool[p]), IsPayout(pool[p], u, t, s)
  PROVE  [Ledger!LedgerNext]_(Ledger!ledgerVars)
<1>1. /\ pool[p] \in PoolRecord
      /\ pool[p].total \in Int /\ pool[p].shares \in Int /\ pool[p].available \in Int
      /\ SharesIn(pool, p, u) \in Int
  BY LedgerInts
<1>2. CASE t = 0 /\ s = 0
  <2>1. \A r \in Pools : /\ pool[r].total \in Int /\ pool[r].shares \in Int
                         /\ \A w \in Users : SharesIn(pool, r, w) \in Int
    BY LedgerInts
  <2>2. IsNoTrade(pool, pool')
    BY <1>2, <2>1 DEF IsTrade, IsNoTrade
  <2> QED
    BY <2>2, NoTradeStutters
<1>3. ASSUME NEW x \in Int, x > 0, WithdrawInternalOK(pool[p], u, x),
             t = -x, s = -SharesBurned(pool[p], x)
      PROVE  Ledger!LedgerNext
  <2> DEFINE b      == SharesBurned(pool[p], x)
             tokens == StockOf(pool)[p] - StockOf(pool')[p]
             shares == IssuedOf(pool)[p] - IssuedOf(pool')[p]
  <2>1. /\ x \in Nat /\ pool[p].total # 0 /\ x <= pool[p].available
        /\ b <= SharesIn(pool, p, u)
    BY <1>3 DEF WithdrawInternalOK, SharesIn
  <2>2. IsSharePrice(pool[p], x, b) /\ b \in Nat
    BY <1>1, <2>1, SharesBurnedPrice
  <2>3. t = -x /\ s = -b
    BY <1>3
  <2> HIDE DEF b
  <2>4. /\ pool[p].total = StockOf(pool)[p] /\ pool[p].shares = IssuedOf(pool)[p]
        /\ SharesIn(pool, p, u) = HoldingOf(pool)[p][u]
    BY DEF StockOf, IssuedOf, HoldingOf, SharesIn
  <2>5. x \in 1 .. StockOf(pool)[p] /\ b \in 0 .. HoldingOf(pool)[p][u]
    BY <1>1, <1>3, <2>1, <2>2, <2>4 DEF IsBacked
  <2>6. tokens = x /\ shares = b
    <3>1. pool'[p].total = pool[p].total + t /\ pool'[p].shares = pool[p].shares + s
      BY DEF IsTrade
    <3> QED
      BY <1>1, <2>1, <2>2, <2>3, <3>1 DEF StockOf, IssuedOf
  <2>7. IsLedgerTrade(pool, pool', p, u, -x, -b)
    BY <2>3, TradeOfLedgers
  <2>8. IF StockOf(pool)[p] = 0
        THEN b = x
        ELSE /\ b * StockOf(pool)[p] <= x * IssuedOf(pool)[p]
             /\ x * IssuedOf(pool)[p] < b * StockOf(pool)[p] + StockOf(pool)[p]
    BY <2>2, <2>4 DEF IsSharePrice
  <2> HIDE DEF tokens, shares
  <2>9. /\ tokens \in 1 .. StockOf(pool)[p] /\ shares \in 0 .. HoldingOf(pool)[p][u]
        /\ IsLedgerTrade(pool, pool', p, u, -tokens, -shares)
        /\ IF StockOf(pool)[p] = 0
           THEN shares = tokens
           ELSE /\ shares * StockOf(pool)[p] <= tokens * IssuedOf(pool)[p]
                /\ tokens * IssuedOf(pool)[p] < shares * StockOf(pool)[p] + StockOf(pool)[p]
    BY <2>5, <2>6, <2>7, <2>8
  <2>10. Ledger!Sell(p, u)
    BY <2>9 DEF Ledger!Sell, Ledger!IsPrice, Ledger!Trade, tokens, shares, IsLedgerTrade,
                StockOf, IssuedOf, HoldingOf
  <2> QED
    BY <2>10 DEF Ledger!LedgerNext
<1> QED
  BY <1>2, <1>3 DEF IsPayout

\* Where tokens come in for no shares, everybody earns.
LEMMA PaymentEarns ==
  ASSUME NEW p \in Pools, NEW u \in Users, NEW t \in Nat,
         IsTrade(pool, pool', p, u, t, 0), pool \in [Pools -> PoolRecord]
  PROVE  [Ledger!LedgerNext]_(Ledger!ledgerVars)
<1>1. \A r \in Pools : /\ pool[r].total \in Int /\ pool[r].shares \in Int
                       /\ \A w \in Users : SharesIn(pool, r, w) \in Int
  BY LedgerInts
<1>2. CASE t = 0
  <2>1. IsNoTrade(pool, pool')
    BY <1>1, <1>2 DEF IsTrade, IsNoTrade
  <2> QED
    BY <2>1, NoTradeStutters
<1>3. CASE t > 0
  <2>1. StockOf(pool') = [StockOf(pool) EXCEPT ![p] = StockOf(pool')[p]]
    <3>1. \A q \in Pools : q # p => pool'[q].total = pool[q].total
      BY <1>1 DEF IsTrade
    <3> QED
      BY <3>1 DEF StockOf
  <2>2. IssuedOf(pool') = IssuedOf(pool)
    <3>1. \A q \in Pools : pool'[q].shares = pool[q].shares
      BY <1>1 DEF IsTrade
    <3> QED
      BY <3>1 DEF IssuedOf
  <2>3. HoldingOf(pool') = HoldingOf(pool)
    <3>1. \A q \in Pools : \A w \in Users : SharesIn(pool', q, w) = SharesIn(pool, q, w)
      BY <1>1 DEF IsTrade
    <3>2. ASSUME NEW q \in Pools
          PROVE  [w \in Users |-> pool'[q].positions[w].shares]
                   = [w \in Users |-> pool[q].positions[w].shares]
      <4>1. \A w \in Users : pool'[q].positions[w].shares = pool[q].positions[w].shares
        BY <3>1 DEF SharesIn
      <4> QED
        BY <4>1
    <3> QED
      BY <3>2 DEF HoldingOf
  <2>4. StockOf(pool')[p] > StockOf(pool)[p]
    <3>1. pool'[p].total = pool[p].total + t
      BY DEF IsTrade
    <3> QED
      BY <1>1, <1>3, <3>1 DEF StockOf
  <2>5. Ledger!Earn(p)
    BY <2>1, <2>2, <2>3, <2>4 DEF Ledger!Earn, StockOf, IssuedOf, HoldingOf
  <2> QED
    BY <2>5 DEF Ledger!LedgerNext
<1> QED
  BY <1>2, <1>3

\* A payment's part for the lenders comes after interest up to now, which is
\* nothing to them, and before what else the call does.
LEMMA PaymentAmongOthers ==
  ASSUME NEW mid, NEW paid, NEW p \in Pools, NEW u \in Users, NEW t \in Nat,
         pool \in [Pools -> PoolRecord],
         IsNoTrade(pool, mid), IsTrade(mid, paid, p, u, t, 0), IsNoTrade(paid, pool')
  PROVE  [Ledger!LedgerNext]_(Ledger!ledgerVars)
<1>1. IsTrade(pool, paid, p, u, t, 0)
  BY NoTradeBefore
<1>2. IsTrade(pool, pool', p, u, t, 0)
  BY <1>1, NoTradeAfter
<1> QED
  BY <1>2, PaymentEarns

\* Bringing a loan up to date is nothing to the lenders.
LEMMA InterestTradesNothing ==
  ASSUME TypeOK, NEW id \in DOMAIN loans, AddInterestOK(id)
  PROVE  /\ IsNoTrade(pool, AfterInterest(id))
         /\ AfterInterest(id) \in [Pools -> PoolRecord]
<1>1. /\ pool \in [Pools -> PoolRecord] /\ loans[id].from \in Pools /\ Owner(id) \in Users
  BY LoansType DEF TypeOK, LoanRecord
<1>2. IsPoolEntry(pool, AfterInterest(id), loans[id].from, Owner(id),
                  0, 0, 0, LiabilityGrowth(id), 0)
  BY InterestEntries
<1> QED
  BY <1>1, <1>2, EntryTradesNothing, AfterInterestType

\* deposit
LEMMA UserDepositBuys ==
  ASSUME ValueInv, AvailableIsInTotal, NEW u \in Users, NEW p \in Pools,
         NEW a \in DepositAmounts, UserDeposit(u, p, a)
  PROVE  [Ledger!LedgerNext]_(Ledger!ledgerVars)
<1> DEFINE s == SharesIssued(pool[p], a)
<1>1. /\ TypeOK /\ pool \in [Pools -> PoolRecord] /\ pool[p] \in PoolRecord
      /\ IsBacked(pool[p]) /\ a \in Int /\ a > 0
  BY PoolsAreBacked, AmountsAssumption DEF AreBacked, UserDeposit, DepositOK
<1>2. IsPoolEntry(pool, pool', p, u, a, a, s, 0, 0)
  BY <1>1, UserDepositEntries
<1>3. s \in Nat /\ IsSharePrice(pool[p], a, s)
  BY <1>1, SharesIssuedNat, SharesIssuedPrice
<1> HIDE DEF s
<1>4. IsTrade(pool, pool', p, u, a, s)
  BY <1>1, <1>2, EntryTrades
<1> QED
  BY <1>1, <1>3, <1>4, DepositBuys

\* withdraw
LEMMA UserWithdrawSells ==
  ASSUME ValueInv, AvailableIsInTotal, NEW u \in Users, NEW p \in Pools,
         NEW a \in WithdrawAmounts, UserWithdraw(u, p, a)
  PROVE  [Ledger!LedgerNext]_(Ledger!ledgerVars)
<1> DEFINE t == -a
           s == -SharesBurned(pool[p], a)
<1>1. /\ TypeOK /\ pool \in [Pools -> PoolRecord] /\ pool[p] \in PoolRecord
      /\ IsBacked(pool[p]) /\ a \in Int /\ a >= 0 /\ WithdrawInternalOK(pool[p], u, a)
  BY PoolsAreBacked, AmountsAssumption DEF AreBacked, UserWithdraw, WithdrawOK,
     WithdrawInternalOK, CanMove
<1>2. SharesBurned(pool[p], a) \in Int /\ IsPoolEntry(pool, pool', p, u, t, t, s, 0, 0)
  BY <1>1, UserWithdrawEntries
<1>3. t \in Int /\ s \in Int
  BY <1>1, <1>2
<1>4. IsPayout(pool[p], u, t, s)
  <2>1. CASE a > 0
    BY <1>1, <2>1 DEF IsPayout
  <2>2. CASE a = 0
    <3>1. pool[p].total \in Nat \ {0} /\ pool[p].shares \in Nat
      BY <1>1 DEF IsBacked, PoolRecord, WithdrawInternalOK
    <3> DEFINE burned == SharesBurned(pool[p], a)
               none   == TruncDiv(0, pool[p].total)
    <3>2. burned = none
      BY <2>2, <3>1 DEF SharesBurned
    <3>3. none \in Nat /\ none <= 0
      BY <3>1, TruncDivNat, TruncDivOfNothing
    <3> HIDE DEF burned, none
    <3>4. \A x \in Int : x >= 0 /\ x <= 0 => -x = 0
      OBVIOUS
    <3>5. burned \in Int /\ burned >= 0 /\ burned <= 0
      BY <3>2, <3>3
    <3>6. t = 0
      BY <1>1, <2>2, <3>4
    <3>7. s = 0
      BY <3>4, <3>5 DEF burned
    <3> QED
      BY <3>6, <3>7 DEF IsPayout
  <2> QED
    BY <1>1, <2>1, <2>2
<1> HIDE DEF t, s
<1>5. IsTrade(pool, pool', p, u, t, s)
  BY <1>1, <1>2, EntryTrades
<1> QED
  BY <1>1, <1>3, <1>4, <1>5, PayoutSells

\* deposit_collateral
LEMMA UserDepositCollateralSells ==
  ASSUME ValueInv, AvailableIsInTotal, NEW u \in Users, NEW p \in Pools,
         NEW a \in StrayAmounts, UserDepositCollateral(u, p, a)
  PROVE  [Ledger!LedgerNext]_(Ledger!ledgerVars)
<1>1. /\ TypeOK /\ pool \in [Pools -> PoolRecord] /\ now \in Nat
      /\ IsBacked(pool[p]) /\ a \in Int
  BY PoolsAreBacked, AmountsAssumption DEF AreBacked
<1>2. /\ DepositCollateralOK(pool[p], now, u, a)
      /\ pool' = [pool EXCEPT ![p] = DepositCollateral(pool[p], now, u, a)]
  BY DEF UserDepositCollateral
<1>3. PICK paidOut \in Int, burned \in Int :
        /\ IsPayout(pool[p], u, paidOut, burned)
        /\ IsPoolEntry(pool, pool', p, u, paidOut, paidOut, burned, 0, a)
  BY <1>1, <1>2, CollateralEntries
<1>4. IsTrade(pool, pool', p, u, paidOut, burned)
  BY <1>1, <1>3, EntryTrades
<1> QED
  BY <1>1, <1>3, <1>4, PayoutSells

\* create_loan: of the two pools, the one that takes the collateral may pay out.
LEMMA CreateLoanSells ==
  ASSUME ValueInv, AvailableIsInTotal, NEW u \in Users, NEW p \in Pools, NEW q \in Pools,
         NEW b \in BorrowAmounts, NEW c \in CollateralAmounts, CreateLoan(u, p, b, q, c)
  PROVE  [Ledger!LedgerNext]_(Ledger!ledgerVars)
<1>1. TypeOK /\ pool \in [Pools -> PoolRecord] /\ IsBacked(pool[q])
  BY PoolsAreBacked DEF AreBacked
<1>2. PICK secured \in [Pools -> PoolRecord], paidOut \in Int, burned \in Int :
        /\ IsPayout(pool[q], u, paidOut, burned)
        /\ IsPoolEntry(pool, secured, q, u, paidOut, paidOut, burned, 0, c)
        /\ IsPoolEntry(secured, pool', p, u, 0, -b, 0, b, 0)
  BY <1>1, CreateLoanEntries
<1>3. IsTrade(pool, secured, q, u, paidOut, burned)
  BY <1>1, <1>2, EntryTrades
<1> DEFINE lent == -b
<1>4. IsPoolEntry(secured, pool', p, u, 0, lent, 0, b, 0)
  BY <1>2
<1> HIDE DEF lent
<1>5. IsNoTrade(secured, pool')
  BY <1>4, EntryTradesNothing
<1>6. IsTrade(pool, pool', q, u, paidOut, burned)
  BY <1>3, <1>5, NoTradeAfter
<1> QED
  BY <1>1, <1>2, <1>6, PayoutSells

\* add_interest
LEMMA AddInterestStutters ==
  ASSUME TypeOK, NEW id \in DOMAIN loans, AddInterest(id)
  PROVE  UNCHANGED Ledger!ledgerVars
BY InterestTradesNothing, NoTradeStutters DEF AddInterest

\* repay: the lenders earn the interest less the manager's fee.
LEMMA ManagerRepayEarns ==
  ASSUME ValueInv, AvailableIsInTotal, NEW id \in DOMAIN loans, NEW a \in RepayAmounts,
         ManagerRepay(id, a)
  PROVE  [Ledger!LedgerNext]_(Ledger!ledgerVars)
<1> DEFINE p         == loans[id].from
           mid       == AfterInterest(id)
           unpaid    == LoanWithInterest(id).unpaid
           fee       == AdminFee(a, unpaid)
           interest  == InterestPart(a, unpaid)
           principal == Smaller(a - interest, mid[p].positions[Owner(id)].liabilities)
           t         == interest - fee
           f         == a - fee
           taken     == -principal
<1>1. /\ TypeOK /\ pool \in [Pools -> PoolRecord] /\ AddInterestOK(id)
      /\ p \in Pools /\ Owner(id) \in Users /\ a \in Int
  BY PoolsAreBacked, LoansType, AmountsAssumption DEF ManagerRepay, ManagerRepayOK, LoanRecord
<1>2. IsPoolEntry(mid, pool', p, Owner(id), t, f, 0, taken, 0)
  BY <1>1, ManagerRepayEntries
<1>3. IsNoTrade(pool, mid) /\ mid \in [Pools -> PoolRecord]
  BY <1>1, InterestTradesNothing
<1>4. unpaid \in Nat /\ fee >= 0 /\ f >= 0
  <2>1. unpaid \in Nat
    BY <1>1, GrownLoanIsSound
  <2>2. LoanWithInterest(id).from = p
    BY <1>1, LoanWithInterestType
  <2>3. RepayOK(mid[p], Owner(id), a, unpaid)
    BY <2>2 DEF ManagerRepay, ManagerRepayOK
  <2> QED
    BY <2>1, <2>3 DEF RepayOK, CanMove
<1> HIDE DEF mid, p, unpaid
<1>5. t \in Nat
  <2>1. fee \in Int
    BY <1>1, <1>4, AdminFeeInt
  <2> HIDE DEF fee, interest
  <2>2. a \in Nat
    BY <1>1, <1>4, <2>1
  <2>3. fee \in Nat /\ fee <= interest /\ interest \in Nat
    BY <1>4, <2>2, FeeIsPart DEF fee, interest
  <2> QED
    BY <2>3
<1> HIDE DEF t, f, taken
<1>6. IsTrade(mid, pool', p, Owner(id), t, 0)
  BY <1>1, <1>2, <1>3, EntryTrades
<1>7. IsNoTrade(pool', pool')
  BY DEF IsNoTrade
<1> QED
  BY <1>1, <1>3, <1>5, <1>6, <1>7, PaymentAmongOthers

\* repay_and_close_manager: they earn all that is unpaid, less the fee.
LEMMA CloseLoanEarns ==
  ASSUME ValueInv, AvailableIsInTotal, NEW id \in DOMAIN loans, NEW a \in AllowedAmounts,
         CloseLoan(id, a)
  PROVE  [Ledger!LedgerNext]_(Ledger!ledgerVars)
<1> DEFINE p     == loans[id].from
           q     == loans[id].collateralFrom
           mid   == AfterInterest(id)
           paid  == AfterClosePayment(id, a)
           grown == LoanWithInterest(id)
           u     == Owner(id)
           fee   == AdminFee(grown.borrowed, grown.unpaid)
           t     == grown.unpaid - fee
           f     == grown.borrowed - fee
           owed  == -mid[p].positions[u].liabilities
           back  == -loans[id].collateral
<1>1. /\ TypeOK /\ pool \in [Pools -> PoolRecord] /\ AddInterestOK(id)
      /\ p \in Pools /\ q \in Pools /\ u \in Users
  BY PoolsAreBacked, LoansType DEF CloseLoan, CloseLoanOK, LoanRecord
<1>2. /\ paid \in [Pools -> PoolRecord]
      /\ IsPoolEntry(mid, paid, p, u, t, f, 0, owed, 0)
      /\ IsPoolEntry(paid, pool', q, u, 0, 0, 0, 0, back)
  BY <1>1, CloseLoanEntries
<1>3. IsNoTrade(pool, mid) /\ mid \in [Pools -> PoolRecord]
  BY <1>1, InterestTradesNothing
<1>4. grown.borrowed \in Nat /\ grown.unpaid \in Nat
  BY <1>1, GrownLoanIsSound
<1> HIDE DEF mid, p, q, u, paid, grown, owed, back
<1>5. t \in Nat
  <2> DEFINE interest == InterestPart(grown.borrowed, grown.unpaid)
  <2>1. fee \in Nat /\ fee <= interest /\ interest \in Nat /\ interest <= grown.unpaid
    BY <1>4, FeeIsPart
  <2> HIDE DEF fee, interest
  <2> QED
    BY <1>4, <2>1
<1> HIDE DEF t, f
<1>6. IsTrade(mid, paid, p, u, t, 0)
  BY <1>1, <1>2, <1>3, EntryTrades
<1>7. IsNoTrade(paid, pool')
  BY <1>1, <1>2, EntryTradesNothing
<1> QED
  BY <1>1, <1>3, <1>5, <1>6, <1>7, PaymentAmongOthers

\* liquidate: it lowers the debt, and the lenders have nothing of it.
LEMMA LiquidateLoanStutters ==
  ASSUME TypeOK, NEW w \in Users, NEW id \in DOMAIN loans, NEW a \in LiquidateAmounts,
         LiquidateLoan(w, id, a)
  PROVE  UNCHANGED Ledger!ledgerVars
<1> DEFINE p     == loans[id].from
           q     == loans[id].collateralFrom
           mid   == AfterInterest(id)
           paid  == AfterLiquidationPayment(w, id, a)
           u     == Owner(id)
           f     == a - AdminFee(a, LoanWithInterest(id).unpaid)
           less  == -a
           taken == -SeizedCollateral(p, q, a)
<1>1. p \in Pools /\ q \in Pools /\ u \in Users /\ AddInterestOK(id)
  BY LoansType DEF LiquidateLoan, LiquidateLoanOK, LoanRecord
<1>2. /\ paid \in [Pools -> PoolRecord]
      /\ IsPoolEntry(mid, paid, p, u, 0, f, 0, less, 0)
      /\ IsPoolEntry(paid, pool', q, u, 0, 0, 0, 0, taken)
  BY LiquidateLoanEntries
<1>3. IsNoTrade(pool, mid) /\ mid \in [Pools -> PoolRecord]
  BY <1>1, InterestTradesNothing
<1> HIDE DEF mid, p, q, u, paid, f, less, taken
<1>4. IsNoTrade(mid, paid) /\ IsNoTrade(paid, pool')
  BY <1>1, <1>2, <1>3, EntryTradesNothing
<1>5. IsNoTrade(pool, pool')
  BY <1>3, <1>4, NoTradeTwice
<1> QED
  BY <1>5, NoTradeStutters

LEMMA LedgerStep ==
  ASSUME ValueInv, AvailableIsInTotal, [Next]_vars
  PROVE  [Ledger!LedgerNext]_(Ledger!ledgerVars)
<1>1. TypeOK /\ UndeployedAreBlank
  BY PoolsAreBacked
<1>2. CASE QuietStep
  <2>1. IsNoTrade(pool, pool')
    BY <1>2 DEF QuietStep, SameBooks, HasSameBooks, IsNoTrade, SharesIn
  <2> QED
    BY <2>1, NoTradeStutters
<1>3. CASE LenderCall
  BY <1>3, UserDepositBuys, UserWithdrawSells, UserDepositCollateralSells DEF LenderCall
<1>4. CASE LoanStep
  BY <1>1, <1>4, CreateLoanSells, AddInterestStutters, ManagerRepayEarns,
     CloseLoanEarns, LiquidateLoanStutters DEF LoanStep
<1> QED
  BY <1>1, <1>2, <1>3, <1>4, CallKinds

LEMMA LedgerStart == Init => Ledger!LedgerInit
BY DEF Init, Initialize, NoPosition, Ledger!LedgerInit

\* Each pool is to its lenders a ledger of shares in one stock of tokens: of all
\* that happens to the pools, loans, collateral and liquidations, they see their
\* own trades at the going price and interest that is paid to all of them, one
\* at a time, and nothing else.
THEOREM LendersSeeLedgers == Spec /\ []AvailableIsInTotal => PoolsAreLedgers
<1>1. Spec /\ []AvailableIsInTotal => []ValueInv
  BY ValueIsKept
<1> QED
  BY <1>1, LedgerStart, LedgerStep, PTL DEF Spec, PoolsAreLedgers, Ledger!LedgerSpec

=============================================================================
