--------------------------- MODULE LiquidationBot ---------------------------
(***************************************************************************)
(* The liquidation bot: liquidation-bot/src, with the chain it watches.    *)
(*                                                                         *)
(* The chain is the loan manager's book of loans (LoanBook, which          *)
(* LoanManager implements): each of its operations publishes an event in   *)
(* the ledger that is open, and the RPC server answers from the ledgers    *)
(* that are closed.  The bot keeps a copy of the loans in a database by    *)
(* asking for three kinds of event, one after the other; it then fetches   *)
(* the prices, and attempts to liquidate what looks unhealthy.  Each       *)
(* request and each write to the database is a step of its own, with the   *)
(* chain going on and the process possibly dying in between.               *)
(***************************************************************************)
EXTENDS FixedPoint, Sequences, FiniteSets

CONSTANTS
  Borrowers,
  Loans,         \* the terms a loan may have: what the bot reads of a loan
  KnownPools,    \* the pools named in the bot's environment
  Prices,        \* the prices the oracle may give each pool's token
  DECIMAL,       \* the fixed-point one, 10_000_000 in the source
  FACTOR,        \* collateral_factor, 8_000_000 for every pool
  THRESHOLD,     \* health_factor_threshold, 10_100_000
  HALF,          \* half of the numbers a column of the database has, 2^63
  HISTORY_DEPTH, \* how many ledgers a starting bot looks back, 10_000
  PageLimit,     \* how many events the server answers with at most
  MaxLoans,      \* bound on the loans a borrower ever makes
  MaxGrowth,     \* bound on how often a debt outgrows what was last written of it
  MaxEvents,     \* bound on events
  MaxLedger      \* bound on ledgers

ASSUME ScaleAssumption == DECIMAL \in Nat \ {0} /\ FACTOR \in Nat /\ THRESHOLD \in Nat

ASSUME BoundsAssumption ==
  /\ HALF \in Nat \ {0}
  /\ HISTORY_DEPTH \in Nat
  /\ PageLimit \in Nat
  /\ MaxLoans \in Nat
  /\ MaxGrowth \in Nat \ {0}
  /\ MaxEvents \in Nat
  /\ MaxLedger \in Nat

\* No borrower makes 2^63 loans: the nonces fit in their column.
ASSUME NoncesAssumption == MaxLoans < HALF

Pools == {l.from : l \in Loans} \cup {l.collateralFrom : l \in Loans}

ASSUME LoansAssumption ==
  Loans \subseteq
    [borrowed : Nat \ {0}, from : Pools, collateral : Nat, collateralFrom : Pools]

ASSUME PricesAssumption == Prices \in [Pools -> SUBSET (Nat \ {0})]

VARIABLES
  loans, nonce, ids, \* the manager's book of loans
  events,            \* what it has published, in order
  ledger,            \* the open ledger
  twap,              \* the oracle's average price of each pool's token
  queued,            \* the bot's transactions that may yet be included
  phase,             \* where the bot's loop is
  cursor, latest,    \* the local variables ledger and latest_ledger
  batch,             \* where in events the fetched ones are
  toPrice,           \* the pools whose price is still to be fetched
  todo,              \* the loans still to be looked at
  current, status,   \* the loan being liquidated, what is known of the transaction
  db, prices,        \* the database's two tables
  synced, missed     \* history: see Restart

\* `as i64`.
AsI64(n) == ((n + HALF) % (2 * HALF)) - HALF

\* What is left of an event in the database's columns.
ParseLoan(loan) ==
  [loan EXCEPT !.borrowed = AsI64(loan.borrowed), !.collateral = AsI64(loan.collateral)]

ParseLoanId(id) == <<id[1], AsI64(id[2])>>

\* Mutant: half of the debt it knows of.
OfferHalf(loan) == TruncDiv(loan.borrowed, 2)

\* The bot offers to pay a third of the debt it knows of.
Offer(loan) == TruncDiv(loan.borrowed, 3)

Book == INSTANCE LoanBook WITH Loan <- Loans

bookVars == <<loans, nonce, ids>>
chainVars == <<bookVars, events, ledger, twap>>
loopVars == <<cursor, latest, batch, toPrice, todo>>
attemptVars == <<queued, current, status>>
tables == <<db, prices>>
history == <<synced, missed>>
vars == <<chainVars, phase, loopVars, attemptVars, tables, history>>

NoLoan == <<>>
Kinds == {"created", "updated", "deleted"}
Phases == {"down", "created", "updated", "deleted", "process", "prices", "find",
           "attempt", "wait"}

Event == [kind : Kinds, id : Book!LoanId, loan : Loans \cup {NoLoan}, ledger : Nat]

BotTypeOK ==
  /\ Book!BookTypeOK
  /\ events \in Seq(Event)
  /\ ledger \in Nat
  /\ twap \in [Pools -> Nat \ {0}]
  /\ queued \subseteq [id : Book!LoanId, offer : Int, awaited : BOOLEAN]
  /\ phase \in Phases
  /\ cursor \in Int
  /\ latest \in Int
  /\ batch \subseteq DOMAIN events
  /\ toPrice \subseteq Pools
  /\ todo \subseteq DOMAIN db
  /\ current \in Book!LoanId \cup {NoLoan}
  /\ status \in {"NotFound", "Success", "Failed"}
  /\ DOMAIN db \subseteq Book!LoanId
  /\ db \in [DOMAIN db -> {ParseLoan(l) : l \in Loans}]
  /\ DOMAIN prices \subseteq Pools
  /\ prices \in [DOMAIN prices -> Int]
  /\ synced \in Int
  /\ missed \in BOOLEAN

\* The bot is set up on a chain that may have loans already, so it starts down.
BotInit ==
  /\ Book!BookInit
  /\ events = <<>>
  /\ ledger = 1
  /\ twap \in [Pools -> UNION {Prices[p] : p \in Pools}] /\ \A p \in Pools : twap[p] \in Prices[p]
  /\ queued = {}
  /\ phase = "down"
  /\ cursor = 0
  /\ latest = 0
  /\ batch = {}
  /\ toPrice = {}
  /\ todo = {}
  /\ current = NoLoan
  /\ status = "NotFound"
  /\ db = [id \in {} |-> 0]
  /\ prices = [p \in {} |-> 0]
  /\ synced = 0
  /\ missed = FALSE

Closed == ledger - 1

-----------------------------------------------------------------------------
(* The chain. *)

CanPublish == Len(events) < MaxEvents /\ ledger < MaxLedger

Publish(kind, id, loan) ==
  events' = Append(events, [kind |-> kind, id |-> id, loan |-> loan, ledger |-> ledger])

CreateLoan(u, loan) ==
  /\ CanPublish
  /\ nonce[u] < MaxLoans
  /\ Book!CreateEntry(u, loan)
  /\ Publish("created", <<u, nonce[u] + 1>>, loan)
  /\ UNCHANGED <<ledger, twap, phase, loopVars, attemptVars, tables, history>>

\* The pools of a loan never change.
TermsFor(id) ==
  {l \in Loans : l.from = loans[id].from /\ l.collateralFrom = loans[id].collateralFrom}

UpdateLoan(id, loan) ==
  /\ CanPublish
  /\ loan \in TermsFor(id)
  /\ Book!WriteEntry(id, loan)
  /\ Publish("updated", id, loan)
  /\ UNCHANGED <<ledger, twap, phase, loopVars, attemptVars, tables, history>>

DeleteLoan(id) ==
  /\ CanPublish
  /\ Book!DeleteEntry(id)
  /\ Publish("deleted", id, NoLoan)
  /\ UNCHANGED <<ledger, twap, phase, loopVars, attemptVars, tables, history>>

CloseLedger ==
  /\ ledger < MaxLedger
  /\ ledger' = ledger + 1
  /\ UNCHANGED <<bookVars, events, twap, phase, loopVars, attemptVars, tables, history>>

UpdateTwap(p, price) ==
  /\ twap' = [twap EXCEPT ![p] = price]
  /\ UNCHANGED <<bookVars, events, ledger, phase, loopVars, attemptVars, tables, history>>

\* The manager refuses a payment of half the debt or more, and one of a
\* hundredth or less.
IsWithinBounds(amount, debt) == amount < TruncDiv(debt, 2) /\ amount > TruncDiv(debt, 100)

\* The debt has grown since it was last written, by MaxGrowth times at most.
DebtsOf(id) == loans[id].borrowed .. MaxGrowth * loans[id].borrowed

\* A transaction is included; the manager accepts it, and writes the loan with
\* new terms, or refuses it.
Settle(tx, outcome) ==
  /\ queued' = queued \ {tx}
  /\ status' = IF tx.awaited THEN outcome ELSE status

LiquidationAccepted(tx, loan) ==
  /\ CanPublish
  /\ tx.id \in DOMAIN loans
  /\ \E debt \in DebtsOf(tx.id) : IsWithinBounds(tx.offer, debt)
  /\ loan \in TermsFor(tx.id)
  /\ Book!WriteEntry(tx.id, loan)
  /\ Publish("updated", tx.id, loan)
  /\ Settle(tx, "Success")
  /\ UNCHANGED <<ledger, twap, phase, loopVars, current, tables, history>>

LiquidationRefused(tx) ==
  /\ Settle(tx, "Failed")
  /\ UNCHANGED <<chainVars, phase, loopVars, current, tables, history>>

-----------------------------------------------------------------------------
(* The bot's start and end.  A failed request to the server, in the parts   *)
(* of the loop that hand errors on with `?`, ends the process, and so may   *)
(* anything else; whoever runs the bot may start it again.  synced is the   *)
(* last ledger up to which the database agrees with the events: a batch that *)
(* goes back over older ones sets it back until the batch is through.       *)
(* missed says that there are events after it that the bot will not get.    *)

Start == Closed - HISTORY_DEPTH

Restart ==
  /\ phase = "down"
  /\ phase' = "created"
  /\ cursor' = Start
  /\ missed' = \/ missed
               \/ \E i \in DOMAIN events : events[i].ledger \in (synced + 1) .. (Start - 1)
  /\ UNCHANGED <<chainVars, latest, batch, toPrice, todo, attemptVars, tables, synced>>

\* The process is gone, its transactions are not.
Die ==
  /\ phase' = "down"
  /\ cursor' = 0
  /\ latest' = 0
  /\ batch' = {}
  /\ toPrice' = {}
  /\ todo' = {}
  /\ current' = NoLoan
  /\ status' = "NotFound"
  /\ queued' = {[tx EXCEPT !.awaited = FALSE] : tx \in queued}
  /\ UNCHANGED <<chainVars, tables, history>>

Crash == phase # "down" /\ Die

-----------------------------------------------------------------------------
(* fetch_events: three queries from one cursor, each answered by the server *)
(* as of its own time.                                                      *)

Matching(kind) ==
  {i \in DOMAIN events : events[i].kind = kind /\ events[i].ledger \in cursor .. Closed}

\* The oldest of them, as many as go into an answer.
Answer(kind) ==
  {i \in Matching(kind) : Cardinality({j \in Matching(kind) : j <= i}) <= PageLimit}

MissedIfCut(kind) == missed' = (missed \/ Answer(kind) # Matching(kind))

FetchCreated ==
  /\ phase = "created"
  /\ phase' = "updated"
  /\ batch' = Answer("created")
  /\ latest' = Closed
  /\ MissedIfCut("created")
  /\ UNCHANGED <<chainVars, cursor, toPrice, todo, attemptVars, tables, synced>>

FetchUpdated ==
  /\ phase = "updated"
  /\ phase' = "deleted"
  /\ batch' = batch \cup Answer("updated")
  /\ MissedIfCut("updated")
  /\ UNCHANGED <<chainVars, cursor, latest, toPrice, todo, attemptVars, tables, synced>>

\* Mutant: the cursor is where the last query stood.
FetchDeletedTakingLatest ==
  /\ phase = "deleted"
  /\ phase' = "process"
  /\ batch' = batch \cup Answer("deleted")
  /\ cursor' = Closed
  /\ latest' = 0
  /\ MissedIfCut("deleted")
  /\ UNCHANGED <<chainVars, toPrice, todo, attemptVars, tables, synced>>

FetchDeleted ==
  /\ phase = "deleted"
  /\ phase' = "process"
  /\ batch' = batch \cup Answer("deleted")
  /\ cursor' = latest
  /\ latest' = 0
  /\ MissedIfCut("deleted")
  /\ UNCHANGED <<chainVars, toPrice, todo, attemptVars, tables, synced>>

-----------------------------------------------------------------------------
(* process_events: created, updated and then deleted ones, each of these by *)
(* age, and each event one statement of the database.                       *)

IsEarlierKind(k, l) == <<k, l>> \in {<<"created", "updated">>, <<"created", "deleted">>,
                                     <<"updated", "deleted">>}

IsProcessedBefore(i, j) ==
  \/ IsEarlierKind(events[i].kind, events[j].kind)
  \/ events[i].kind = events[j].kind /\ i < j

SaveLoan(id, loan) == [i \in DOMAIN db \cup {id} |-> IF i = id THEN loan ELSE db[i]]

\* Mutant: the row stays, without terms.
EmptyLoanInDb(id) == [db EXCEPT ![id] = NoLoan]

DeleteLoanFromDb(id) == [i \in DOMAIN db \ {id} |-> db[i]]

ProcessEvent ==
  /\ phase = "process"
  /\ \E i \in batch :
       LET e  == events[i]
           id == ParseLoanId(e.id)
       IN  /\ \A j \in batch \ {i} : IsProcessedBefore(i, j)
           /\ db' = IF e.kind = "deleted" THEN DeleteLoanFromDb(id)
                    ELSE SaveLoan(id, ParseLoan(e.loan))
           /\ batch' = batch \ {i}
           /\ synced' = Smaller(synced, e.ledger - 1)
  /\ UNCHANGED <<chainVars, phase, cursor, latest, toPrice, todo, attemptVars, prices, missed>>

\* Mutant: the pools of collateral are forgotten.
UniquePoolsBorrowedFrom == {db[id].from : id \in DOMAIN db}

UniquePoolsInUse == {db[id].from : id \in DOMAIN db} \cup {db[id].collateralFrom : id \in DOMAIN db}

FinishEvents ==
  /\ phase = "process"
  /\ batch = {}
  /\ phase' = "prices"
  /\ toPrice' = UniquePoolsInUse
  /\ synced' = cursor
  /\ UNCHANGED <<chainVars, cursor, latest, batch, todo, attemptVars, tables, missed>>

-----------------------------------------------------------------------------
(* fetch_prices: in any order; an unknown pool is skipped. *)

SavePrice(p, price) == [q \in DOMAIN prices \cup {p} |-> IF q = p THEN price ELSE prices[q]]

FetchPrice(p) ==
  /\ phase = "prices"
  /\ p \in toPrice
  /\ toPrice' = toPrice \ {p}
  /\ prices' = IF p \in KnownPools THEN SavePrice(p, AsI64(twap[p])) ELSE prices
  /\ UNCHANGED <<chainVars, phase, cursor, latest, batch, todo, attemptVars, db, history>>

FinishPrices ==
  /\ phase = "prices"
  /\ toPrice = {}
  /\ phase' = "find"
  /\ todo' = DOMAIN db
  /\ UNCHANGED <<chainVars, cursor, latest, batch, toPrice, attemptVars, tables, history>>

-----------------------------------------------------------------------------
(* find_liquidateable: the loans in whatever order the database gives them. *)

HealthFactor(loan, price) ==
  LET collateralValue == TruncDiv(price[loan.collateralFrom] * loan.collateral * FACTOR, DECIMAL)
  IN  TruncDiv(collateralValue * DECIMAL, price[loan.from] * loan.borrowed)

IsUnhealthy(loan, price) == HealthFactor(loan, price) < THRESHOLD

HasHealthFactor(loan) ==
  /\ {loan.from, loan.collateralFrom} \subseteq DOMAIN prices
  /\ prices[loan.from] * loan.borrowed # 0

Skip(id) ==
  /\ phase = "find"
  /\ id \in todo
  /\ HasHealthFactor(db[id])
  /\ ~IsUnhealthy(db[id], prices)
  /\ todo' = todo \ {id}
  /\ UNCHANGED <<chainVars, phase, cursor, latest, batch, toPrice, attemptVars, tables, history>>

Attempt(id) ==
  /\ phase = "find"
  /\ id \in todo
  /\ HasHealthFactor(db[id])
  /\ IsUnhealthy(db[id], prices)
  /\ phase' = "attempt"
  /\ todo' = todo \ {id}
  /\ current' = id
  /\ UNCHANGED <<chainVars, cursor, latest, batch, toPrice, queued, status, tables, history>>

\* A price that is not there is expected to be, and a debt of no value is an
\* error: either ends the process.
Panic(id) ==
  /\ phase = "find"
  /\ id \in todo
  /\ ~HasHealthFactor(db[id])
  /\ Die

\* The loop sleeps and begins again.
FinishLoans ==
  /\ phase = "find"
  /\ todo = {}
  /\ phase' = "created"
  /\ UNCHANGED <<chainVars, loopVars, attemptVars, tables, history>>

-----------------------------------------------------------------------------
(* attempt_liquidating and wait_success. *)

\* Mutant: a failed attempt ends the round.
AttemptFailsAndRound ==
  /\ phase = "attempt"
  /\ phase' = "created"
  /\ todo' = {}
  /\ current' = NoLoan
  /\ UNCHANGED <<chainVars, cursor, latest, batch, toPrice, queued, status, tables, history>>

\* The error of the simulation or of sending is logged, and the next loan is
\* looked at.  So it is when the server answers that the transaction is wrong.
AttemptFails ==
  /\ phase = "attempt"
  /\ phase' = "find"
  /\ current' = NoLoan
  /\ UNCHANGED <<chainVars, loopVars, queued, status, tables, history>>

\* The network queues one transaction of an account at a time.  One that it
\* turns away (TRY_AGAIN_LATER) gets a hash to wait for all the same.
Send(isQueued) ==
  /\ phase = "attempt"
  /\ isQueued => queued = {}
  /\ phase' = "wait"
  /\ status' = "NotFound"
  /\ queued' = IF isQueued
                THEN {[id |-> current, offer |-> Offer(db[current]), awaited |-> TRUE]} ELSE queued
  /\ UNCHANGED <<chainVars, loopVars, current, tables, history>>

\* wait_success asks again, without end, while the transaction is not found.
WaitSuccess ==
  /\ phase = "wait"
  /\ status # "NotFound"
  /\ phase' = "find"
  /\ current' = NoLoan
  /\ status' = "NotFound"
  /\ UNCHANGED <<chainVars, loopVars, queued, tables, history>>

-----------------------------------------------------------------------------

ChainStep ==
  \/ \E u \in Borrowers, loan \in Loans : CreateLoan(u, loan)
  \/ \E id \in DOMAIN loans, loan \in Loans : UpdateLoan(id, loan)
  \/ \E id \in DOMAIN loans : DeleteLoan(id)
  \/ CloseLedger
  \/ \E p \in Pools : \E price \in Prices[p] : UpdateTwap(p, price)

Inclusion ==
  \E tx \in queued :
    \/ \E loan \in Loans : LiquidationAccepted(tx, loan)
    \/ LiquidationRefused(tx)

\* What the running process does next.
BotStep ==
  \/ FetchCreated
  \/ FetchUpdated
  \/ FetchDeleted
  \/ ProcessEvent
  \/ FinishEvents
  \/ \E p \in toPrice : FetchPrice(p)
  \/ FinishPrices
  \/ \E id \in todo : Skip(id) \/ Attempt(id) \/ Panic(id)
  \/ FinishLoans
  \/ AttemptFails
  \/ \E isQueued \in BOOLEAN : Send(isQueued)
  \/ WaitSuccess

BotNext == ChainStep \/ Inclusion \/ BotStep \/ Restart \/ Crash

\* The process runs as long as it has not ended, ledgers close, and a queued
\* transaction is included or refused.  Nothing makes a borrower act, a price
\* change, the bot die, or anyone start it again.
BotSpec ==
  /\ BotInit
  /\ [][BotNext]_vars
  /\ WF_vars(BotStep)
  /\ WF_vars(CloseLedger)
  /\ WF_vars(Inclusion)

=============================================================================
