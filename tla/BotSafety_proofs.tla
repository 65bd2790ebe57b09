-------------------------- MODULE BotSafety_proofs --------------------------
(***************************************************************************)
(* The liquidation bot's copy of the loans, for any loans, prices, ledgers *)
(* and page limit: proofs about BotSafety.                                 *)
(*                                                                         *)
(* The invariant has three parts.  The events tell the life of every loan  *)
(* in order.  The table agrees with the events up to synced, in every      *)
(* phase.  And while a batch is processed, what is left of it makes the    *)
(* table agree up to the cursor, whatever the table is now.                *)
(***************************************************************************)
EXTENDS BotSafety, SequenceTheorems, TLAPS

-----------------------------------------------------------------------------
(* The invariant. *)

NoncesAreBounded == \A u \in Borrowers : nonce[u] <= MaxLoans

EventsAreOrdered ==
  /\ \A i \in DOMAIN events : events[i].ledger \in 1 .. ledger
  /\ \A i, j \in DOMAIN events : i < j => events[i].ledger <= events[j].ledger

EventsAreIssued ==
  \A i \in DOMAIN events : events[i].id[2] \in 1 .. nonce[events[i].id[1]]

\* A loan's first event is its creation and its last one its deletion.
LivesAreOrdered ==
  \A i, j \in DOMAIN events :
    i < j /\ events[i].id = events[j].id => events[i].kind # "deleted" /\ events[j].kind # "created"

EventsHaveTerms == \A i \in DOMAIN events : events[i].kind # "deleted" => events[i].loan \in Loans

DeletedAreGone ==
  \A i \in DOMAIN events : events[i].kind = "deleted" => events[i].id \notin DOMAIN loans

GoneAreDeleted ==
  \A i \in DOMAIN events :
    events[i].id \notin DOMAIN loans => \E j \in EventsOf(events[i].id) : events[j].kind = "deleted"

LastIsInBook ==
  \A i \in DOMAIN events :
    events[i].id \in DOMAIN loans /\ (\A j \in EventsOf(events[i].id) : j <= i)
      => loans[events[i].id] = events[i].loan

EventsInv ==
  /\ Book!NoncesAreIssued /\ NoncesAreBounded
  /\ EventsAreOrdered /\ EventsAreIssued /\ LivesAreOrdered
  /\ EventsHaveTerms /\ DeletedAreGone /\ GoneAreDeleted /\ LastIsInBook

\* The loop's variables in its phases.
LoopInv ==
  /\ 0 <= Closed /\ cursor <= Closed /\ latest <= Closed /\ synced <= Closed
  /\ phase \notin {"updated", "deleted", "process"} => batch = {}
  /\ phase \notin {"find", "attempt", "wait"} => todo = {}
  /\ phase \in {"attempt", "wait"} => current \in DOMAIN db

\* The table agrees with the events up to ledger c.
HasCreated(c) ==
  \A i \in DOMAIN events :
    /\ events[i].kind = "created"
    /\ events[i].ledger <= c
    /\ events[i].id \in DOMAIN loans
    => events[i].id \in DOMAIN db

IsDeletedAfter(id, c) ==
  \E i \in EventsOf(id) : events[i].kind = "deleted" /\ events[i].ledger > c

HasNoDeleted(c) == \A id \in DOMAIN db : id \in DOMAIN loans \/ IsDeletedAfter(id, c)

IsRecentAt(i, c) == \A j \in EventsOf(events[i].id) : j > i => events[j].ledger > c

HasTermsOf(id, c) ==
  \E i \in EventsOf(id) :
    events[i].kind # "deleted" /\ IsRecentAt(i, c) /\ db[id] = ParseLoan(events[i].loan)

HasRecentTerms(c) == \A id \in DOMAIN db : HasTermsOf(id, c)

AgreesTo(c) == HasCreated(c) /\ HasNoDeleted(c) /\ HasRecentTerms(c)

\* No event is skipped between synced and the cursor.
NothingBetween ==
  phase \in {"created", "updated", "deleted"} =>
    \A i \in DOMAIN events : events[i].ledger <= synced \/ events[i].ledger >= cursor

\* The answers fetched so far have all events from the cursor to latest.
FetchedKinds ==
  CASE phase = "updated" -> {"created"}
    [] phase = "deleted" -> {"created", "updated"}
    [] OTHER             -> {}

FetchedAll ==
  \A i \in DOMAIN events :
    /\ events[i].kind \in FetchedKinds
    /\ events[i].ledger >= cursor
    /\ events[i].ledger <= latest
    => i \in batch

FetchedFromCursor ==
  phase \in {"updated", "deleted"} => \A i \in batch : events[i].ledger >= cursor

\* While the batch is processed: the rest of it is as good as the table.
Remaining(id) == batch \cap EventsOf(id)

WillBeDeleted(id) == \E i \in Remaining(id) : events[i].kind = "deleted"

IsLastRemaining(i) ==
  \A j \in Remaining(events[i].id) : j # i => IsProcessedBefore(j, i)

WillHaveCreated ==
  \A i \in DOMAIN events :
    /\ events[i].kind = "created"
    /\ events[i].ledger <= cursor
    /\ events[i].id \in DOMAIN loans
    => events[i].id \in DOMAIN db \/ Remaining(events[i].id) # {}

WillHaveNoDeleted ==
  /\ \A id \in DOMAIN db :
       ~WillBeDeleted(id) => id \in DOMAIN loans \/ IsDeletedAfter(id, cursor)
  /\ \A i \in batch :
       ~WillBeDeleted(events[i].id)
         => events[i].id \in DOMAIN loans \/ IsDeletedAfter(events[i].id, cursor)

WillHaveRecentTerms ==
  /\ \A id \in DOMAIN db : Remaining(id) = {} => HasTermsOf(id, cursor)
  /\ \A i \in batch : events[i].kind # "deleted" /\ IsLastRemaining(i) => IsRecentAt(i, cursor)

WillAgree == WillHaveCreated /\ WillHaveNoDeleted /\ WillHaveRecentTerms

CopyInv ==
  ~missed =>
    /\ AgreesTo(synced)
    /\ NothingBetween
    /\ FetchedAll
    /\ phase = "process" => WillAgree
    /\ phase \in {"prices", "find", "attempt", "wait"} => synced = cursor

\* The prices.
PoolsOf(id) == {db[id].from, db[id].collateralFrom} \cap KnownPools

PricesInv ==
  /\ phase = "prices" => \A id \in DOMAIN db : PoolsOf(id) \subseteq DOMAIN prices \cup toPrice
  /\ \A id \in todo : PoolsOf(id) \subseteq DOMAIN prices

BotInv == BotTypeOK /\ EventsInv /\ LoopInv /\ FetchedFromCursor /\ CopyInv /\ PricesInv

-----------------------------------------------------------------------------
(* The columns of the database. *)

\* The remainder of a number that is already one.
LEMMA RemainderOfSmall ==
  ASSUME NEW m \in Nat \ {0}, NEW n \in 0 .. (m - 1)
  PROVE  n % m = n
OBVIOUS

\* `as i64` gives an integer, and the number itself when it fits.
LEMMA AsI64Fits ==
  ASSUME NEW n \in Nat
  PROVE  AsI64(n) \in Int /\ (n < HALF => AsI64(n) = n)
<1>1. HALF \in Nat \ {0} /\ 2 * HALF \in Nat \ {0} /\ n + HALF \in Nat
  BY BoundsAssumption
<1>2. (n + HALF) % (2 * HALF) \in Int
  BY <1>1
<1>3. n < HALF => (n + HALF) % (2 * HALF) = n + HALF
  BY <1>1, RemainderOfSmall
<1> QED
  BY <1>1, <1>2, <1>3 DEF AsI64

\* A loan's row has its pools, and its amounts when they fit.
LEMMA ParsedLoan ==
  ASSUME NEW l \in Loans
  PROVE  /\ ParseLoan(l).from = l.from /\ ParseLoan(l).collateralFrom = l.collateralFrom
         /\ ParseLoan(l).from \in Pools /\ ParseLoan(l).collateralFrom \in Pools
         /\ ParseLoan(l).borrowed \in Int
         /\ Fits(l) => ParseLoan(l) = l
<1>1. l \in [borrowed : Nat \ {0}, from : Pools, collateral : Nat, collateralFrom : Pools]
  BY LoansAssumption
<1>2. AsI64(l.borrowed) \in Int /\ AsI64(l.collateral) \in Int
  BY <1>1, AsI64Fits
<1>3. Fits(l) => AsI64(l.borrowed) = l.borrowed /\ AsI64(l.collateral) = l.collateral
  BY <1>1, AsI64Fits DEF Fits
<1> QED
  BY <1>1, <1>2, <1>3 DEF ParseLoan

\* A row is found under its loan's id.
LEMMA ParsedId ==
  ASSUME BotTypeOK, NoncesAreBounded, EventsAreIssued, NEW i \in DOMAIN events
  PROVE  ParseLoanId(events[i].id) = events[i].id
<1>1. events[i] \in Event
  BY ElementOfSeq DEF BotTypeOK
<1>2. events[i].id \in Book!LoanId
  BY <1>1 DEF Event
<1>3. /\ events[i].id = <<events[i].id[1], events[i].id[2]>>
      /\ events[i].id[1] \in Borrowers /\ events[i].id[2] \in Nat
  BY <1>2 DEF Book!LoanId
<1>4. events[i].id[2] <= nonce[events[i].id[1]] /\ nonce[events[i].id[1]] \in Nat
  BY <1>3 DEF EventsAreIssued, BotTypeOK, Book!BookTypeOK
<1>5. events[i].id[2] < HALF
  BY <1>3, <1>4, NoncesAssumption, BoundsAssumption DEF NoncesAreBounded
<1> QED
  BY <1>3, <1>5, AsI64Fits DEF ParseLoanId

-----------------------------------------------------------------------------
(* The kinds of step: the chain publishes an event, a ledger is closed, or *)
(* the chain stays and the bot moves.                                      *)

Creates(u, loan) ==
  /\ nonce[u] < MaxLoans
  /\ Book!CreateEntry(u, loan)
  /\ Publish("created", <<u, nonce[u] + 1>>, loan)

Writes(id, loan) == Book!WriteEntry(id, loan) /\ Publish("updated", id, loan)

Deletes(id) == Book!DeleteEntry(id) /\ Publish("deleted", id, NoLoan)

BookMoves ==
  \/ \E u \in Borrowers, loan \in Loans : Creates(u, loan)
  \/ \E id \in DOMAIN loans, loan \in Loans : Writes(id, loan)
  \/ \E id \in DOMAIN loans : Deletes(id)

BotStays == UNCHANGED <<phase, loopVars, current, tables, history>>

ChainMoves == BookMoves /\ BotStays /\ UNCHANGED <<ledger, twap>>

ClockMoves ==
  /\ BotStays /\ UNCHANGED <<bookVars, events>>
  /\ ledger' \in {ledger, ledger + 1}
  /\ twap' = twap \/ \E p \in Pools : \E price \in Prices[p] : twap' = [twap EXCEPT ![p] = price]

BotMoves == (BotStep \/ Restart \/ Crash) /\ UNCHANGED chainVars

\* The transactions that are queued, as any step may leave them.
QueuedTypeOK == queued \subseteq [id : Book!LoanId, offer : Int, awaited : BOOLEAN]

StatusTypeOK == status \in {"NotFound", "Success", "Failed"}

\* Every step is of one of the kinds.
LEMMA BotStepKinds ==
  ASSUME [BotNext]_vars
  PROVE  ChainMoves \/ ClockMoves \/ BotMoves
<1>1. CASE UNCHANGED vars
  BY <1>1 DEF vars, chainVars, attemptVars, ClockMoves, BotStays
<1>2. ASSUME NEW u \in Borrowers, NEW loan \in Loans, CreateLoan(u, loan)
      PROVE  ChainMoves
  BY <1>2 DEF CreateLoan, ChainMoves, BookMoves, Creates, BotStays, attemptVars
<1>3. ASSUME NEW id \in DOMAIN loans, NEW loan \in Loans, UpdateLoan(id, loan)
      PROVE  ChainMoves
  BY <1>3 DEF UpdateLoan, ChainMoves, BookMoves, Writes, BotStays, attemptVars
<1>4. ASSUME NEW id \in DOMAIN loans, DeleteLoan(id)
      PROVE  ChainMoves
  BY <1>4 DEF DeleteLoan, ChainMoves, BookMoves, Deletes, BotStays, attemptVars
<1>5. CASE CloseLedger
  BY <1>5 DEF CloseLedger, ClockMoves, BotStays, attemptVars
<1>6. ASSUME NEW p \in Pools, NEW price \in Prices[p], UpdateTwap(p, price)
      PROVE  ClockMoves
  BY <1>6 DEF UpdateTwap, ClockMoves, BotStays, attemptVars
<1>7. ASSUME NEW tx \in queued, NEW loan \in Loans, LiquidationAccepted(tx, loan)
      PROVE  ChainMoves
  BY <1>7 DEF LiquidationAccepted, ChainMoves, BookMoves, Writes, BotStays
<1>8. ASSUME NEW tx \in queued, LiquidationRefused(tx)
      PROVE  ClockMoves
  BY <1>8 DEF LiquidationRefused, ClockMoves, BotStays, chainVars
<1>9. CASE Crash
  BY <1>9 DEF Crash, Die, BotMoves
<1>10. CASE Restart
  BY <1>10 DEF Restart, BotMoves
<1>11. CASE BotStep
  <2>1. UNCHANGED chainVars
    BY <1>11 DEF BotStep, FetchCreated, FetchUpdated, FetchDeleted, ProcessEvent, FinishEvents,
       FetchPrice, FinishPrices, Skip, Attempt, Panic, Die, FinishLoans, AttemptFails, Send,
       WaitSuccess
  <2> QED
    BY <1>11, <2>1 DEF BotMoves
<1> QED
  BY <1>1, <1>2, <1>3, <1>4, <1>5, <1>6, <1>7, <1>8, <1>9, <1>10, <1>11
     DEF BotNext, ChainStep, Inclusion

-----------------------------------------------------------------------------
(* The events tell the lives of the loans. *)

\* What is published is the last of the events.
LEMMA PublishedEvent ==
  ASSUME BotTypeOK, NEW kind, NEW id, NEW loan, Publish(kind, id, loan)
  PROVE  LET n == Len(events) + 1
         IN  /\ n \in Nat /\ DOMAIN events = 1 .. (n - 1) /\ DOMAIN events' = 1 .. n
             /\ \A i \in DOMAIN events : events'[i] = events[i]
             /\ events'[n] = [kind |-> kind, id |-> id, loan |-> loan, ledger |-> ledger]
             /\ events'[n].kind = kind /\ events'[n].id = id
             /\ events'[n].loan = loan /\ events'[n].ledger = ledger
<1> DEFINE e == [kind |-> kind, id |-> id, loan |-> loan, ledger |-> ledger]
<1>1. events \in Seq(Event) /\ events' = Append(events, e)
  BY DEF BotTypeOK, Publish
<1>2. e.kind = kind /\ e.id = id /\ e.loan = loan /\ e.ledger = ledger
  OBVIOUS
<1> HIDE DEF e
<1>3. /\ Len(events) \in Nat /\ DOMAIN events = 1 .. Len(events)
      /\ DOMAIN events' = 1 .. (Len(events) + 1)
      /\ \A i \in DOMAIN events : events'[i] = events[i]
      /\ events'[Len(events) + 1] = e
  BY <1>1
<1> QED
  BY <1>2, <1>3 DEF e

\* An event's place, id and ledger.
LEMMA EventType ==
  ASSUME BotTypeOK, NEW i \in DOMAIN events
  PROVE  /\ events[i].kind \in Kinds /\ events[i].id \in Borrowers \X Nat
         /\ events[i].loan \in Loans \cup {NoLoan} /\ events[i].ledger \in Nat /\ i \in Nat
<1>1. events[i] \in Event /\ i \in Nat
  BY ElementOfSeq DEF BotTypeOK
<1> QED
  BY <1>1 DEF Event, Book!LoanId

\* The ledgers stay in order when one more event is published.
LEMMA PublishKeepsOrder ==
  ASSUME BotTypeOK, EventsAreOrdered, NEW kind, NEW id, NEW loan, Publish(kind, id, loan),
         ledger' = ledger, ledger \in Nat \ {0}
  PROVE  EventsAreOrdered'
<1> DEFINE n == Len(events) + 1
<1>1. /\ n \in Nat /\ DOMAIN events = 1 .. (n - 1) /\ DOMAIN events' = 1 .. n
      /\ \A i \in DOMAIN events : events'[i] = events[i]
      /\ events'[n].ledger = ledger
  BY PublishedEvent
<1> HIDE DEF n
<1>2. \A i \in DOMAIN events' : i = n \/ (i \in DOMAIN events /\ i < n)
  BY <1>1
<1>3. \A i \in DOMAIN events' : events'[i].ledger \in 1 .. ledger
  BY <1>1, <1>2 DEF EventsAreOrdered
<1>4. ASSUME NEW i \in DOMAIN events', NEW j \in DOMAIN events', i < j
      PROVE  events'[i].ledger <= events'[j].ledger
  <2>1. i \in DOMAIN events /\ i # n
    BY <1>1, <1>2, <1>4
  <2>2. CASE j = n
    BY <1>1, <1>3, <2>2
  <2>3. CASE j \in DOMAIN events
    BY <1>1, <1>4, <2>1, <2>3 DEF EventsAreOrdered
  <2> QED
    BY <1>2, <2>2, <2>3
<1> QED
  BY <1>3, <1>4 DEF EventsAreOrdered

\* create_loan: an id that no event has.
LEMMA CreatesEvents ==
  ASSUME BotTypeOK, EventsInv, ledger \in Nat \ {0}, ledger' = ledger,
         NEW u \in Borrowers, NEW loan \in Loans, Creates(u, loan)
  PROVE  EventsInv'
<1> DEFINE n  == Len(events) + 1
           id == <<u, nonce[u] + 1>>
<1>1. /\ n \in Nat /\ DOMAIN events = 1 .. (n - 1) /\ DOMAIN events' = 1 .. n
      /\ \A i \in DOMAIN events : events'[i] = events[i]
      /\ events'[n].kind = "created" /\ events'[n].id = id /\ events'[n].loan = loan
  BY PublishedEvent DEF Creates
<1>2. /\ nonce \in [Borrowers -> Nat] /\ nonce' = [nonce EXCEPT ![u] = nonce[u] + 1]
      /\ nonce[u] < MaxLoans
      /\ DOMAIN loans' = DOMAIN loans \cup {id} /\ loans'[id] = loan
      /\ \A i \in DOMAIN loans : i # id => loans'[i] = loans[i]
  BY DEF Creates, Book!CreateEntry, BotTypeOK, Book!BookTypeOK
<1>3. \A i \in DOMAIN events :
        /\ events[i].id # id
        /\ events[i].id[1] \in Borrowers /\ events[i].id[2] \in 1 .. nonce[events[i].id[1]]
  BY <1>2, EventType DEF EventsInv, EventsAreIssued
<1>4. id[1] = u /\ id[2] = nonce[u] + 1
  OBVIOUS
<1>5. EventsAreOrdered'
  BY PublishKeepsOrder DEF Creates, EventsInv
<1> HIDE DEF id, n
<1>6. \A i \in DOMAIN events' : i = n \/ (i \in DOMAIN events /\ i < n)
  BY <1>1
<1>7. NoncesAreBounded' /\ Book!NoncesAreIssued'
  BY <1>2, <1>4, BoundsAssumption DEF NoncesAreBounded, EventsInv, Book!NoncesAreIssued,
     BotTypeOK, Book!BookTypeOK, Book!LoanId
<1>8. EventsAreIssued'
  <2> SUFFICES ASSUME NEW i \in DOMAIN events'
               PROVE  events'[i].id[2] \in 1 .. nonce'[events'[i].id[1]]
    BY DEF EventsAreIssued
  <2>1. CASE i = n
    BY <1>1, <1>2, <1>4, <2>1
  <2>2. CASE i \in DOMAIN events
    BY <1>1, <1>2, <1>3, <2>2
  <2> QED
    BY <1>6, <2>1, <2>2
<1>9. LivesAreOrdered'
  BY <1>1, <1>3, <1>6 DEF LivesAreOrdered, EventsInv
<1>10. EventsHaveTerms'
  BY <1>1, <1>6 DEF EventsHaveTerms, EventsInv
<1>11. DeletedAreGone'
  BY <1>1, <1>2, <1>3, <1>6 DEF DeletedAreGone, EventsInv
<1>12. GoneAreDeleted'
  BY <1>1, <1>2, <1>3, <1>6 DEF GoneAreDeleted, EventsInv, EventsOf
<1>13. LastIsInBook'
  <2> SUFFICES ASSUME NEW i \in DOMAIN events', events'[i].id \in DOMAIN loans',
                      \A j \in DOMAIN events' : events'[j].id = events'[i].id => j <= i
               PROVE  loans'[events'[i].id] = events'[i].loan
    BY DEF LastIsInBook, EventsOf
  <2>1. CASE i = n
    BY <1>1, <1>2, <2>1
  <2>2. CASE i \in DOMAIN events
    <3>1. events'[i] = events[i] /\ events[i].id # id /\ events[i].id \in DOMAIN loans
      BY <1>1, <1>2, <1>3, <2>2
    <3>2. \A j \in EventsOf(events[i].id) : j <= i
      BY <1>1, <3>1 DEF EventsOf
    <3>3. loans[events[i].id] = events[i].loan
      BY <2>2, <3>1, <3>2 DEF EventsInv, LastIsInBook
    <3> QED
      BY <1>2, <3>1, <3>3
  <2> QED
    BY <1>6, <2>1, <2>2
<1> QED
  BY <1>5, <1>7, <1>8, <1>9, <1>10, <1>11, <1>12, <1>13 DEF EventsInv

\* write_loan: the loan lives on.
LEMMA WritesEvents ==
  ASSUME BotTypeOK, EventsInv, ledger \in Nat \ {0}, ledger' = ledger,
         NEW id \in DOMAIN loans, NEW loan \in Loans, Writes(id, loan)
  PROVE  EventsInv'
<1> DEFINE n == Len(events) + 1
<1>1. /\ n \in Nat /\ DOMAIN events = 1 .. (n - 1) /\ DOMAIN events' = 1 .. n
      /\ \A i \in DOMAIN events : events'[i] = events[i]
      /\ events'[n].kind = "updated" /\ events'[n].id = id /\ events'[n].loan = loan
  BY PublishedEvent DEF Writes
<1>2. /\ nonce' = nonce /\ DOMAIN loans' = DOMAIN loans /\ loans'[id] = loan
      /\ \A i \in DOMAIN loans : i # id => loans'[i] = loans[i]
  BY DEF Writes, Book!WriteEntry, BotTypeOK, Book!BookTypeOK
<1>3. EventsAreOrdered'
  BY PublishKeepsOrder DEF Writes, EventsInv
<1> HIDE DEF n
<1>4. \A i \in DOMAIN events' : i = n \/ (i \in DOMAIN events /\ i < n)
  BY <1>1
<1>5. NoncesAreBounded' /\ EventsAreIssued' /\ Book!NoncesAreIssued'
  BY <1>1, <1>2, <1>4 DEF NoncesAreBounded, EventsAreIssued, EventsInv, Book!NoncesAreIssued
<1>6. LivesAreOrdered'
  BY <1>1, <1>4 DEF LivesAreOrdered, DeletedAreGone, EventsInv
<1>7. EventsHaveTerms'
  BY <1>1, <1>4 DEF EventsHaveTerms, EventsInv
<1>8. DeletedAreGone'
  BY <1>1, <1>2, <1>4 DEF DeletedAreGone, EventsInv
<1>9. GoneAreDeleted'
  BY <1>1, <1>2, <1>4 DEF GoneAreDeleted, EventsInv, EventsOf
<1>10. LastIsInBook'
  BY <1>1, <1>2, <1>4 DEF LastIsInBook, EventsInv, EventsOf
<1> QED
  BY <1>3, <1>5, <1>6, <1>7, <1>8, <1>9, <1>10 DEF EventsInv

\* delete_loan: the loan's life ends.
LEMMA DeletesEvents ==
  ASSUME BotTypeOK, EventsInv, ledger \in Nat \ {0}, ledger' = ledger,
         NEW id \in DOMAIN loans, Deletes(id)
  PROVE  EventsInv'
<1> DEFINE n == Len(events) + 1
<1>1. /\ n \in Nat /\ DOMAIN events = 1 .. (n - 1) /\ DOMAIN events' = 1 .. n
      /\ \A i \in DOMAIN events : events'[i] = events[i]
      /\ events'[n].kind = "deleted" /\ events'[n].id = id
  BY PublishedEvent DEF Deletes
<1>2. /\ nonce' = nonce /\ DOMAIN loans' = DOMAIN loans \ {id}
      /\ \A i \in DOMAIN loans' : loans'[i] = loans[i]
  BY DEF Deletes, Book!DeleteEntry
<1>3. EventsAreOrdered'
  BY PublishKeepsOrder DEF Deletes, EventsInv
<1> HIDE DEF n
<1>4. \A i \in DOMAIN events' : i = n \/ (i \in DOMAIN events /\ i < n)
  BY <1>1
<1>5. NoncesAreBounded' /\ EventsAreIssued' /\ Book!NoncesAreIssued'
  BY <1>1, <1>2, <1>4 DEF NoncesAreBounded, EventsAreIssued, EventsInv, Book!NoncesAreIssued
<1>6. LivesAreOrdered'
  BY <1>1, <1>4 DEF LivesAreOrdered, DeletedAreGone, EventsInv
<1>7. EventsHaveTerms'
  BY <1>1, <1>4 DEF EventsHaveTerms, EventsInv
<1>8. DeletedAreGone'
  BY <1>1, <1>2, <1>4 DEF DeletedAreGone, EventsInv
<1>9. GoneAreDeleted'
  BY <1>1, <1>2, <1>4 DEF GoneAreDeleted, EventsInv, EventsOf
<1>10. LastIsInBook'
  BY <1>1, <1>2, <1>4 DEF LastIsInBook, EventsInv, EventsOf
<1> QED
  BY <1>3, <1>5, <1>6, <1>7, <1>8, <1>9, <1>10 DEF EventsInv

\* Every step of the chain keeps the events telling the loans' lives.
LEMMA ChainKeepsEvents ==
  ASSUME BotTypeOK, EventsInv, LoopInv, ChainMoves
  PROVE  EventsInv'
<1>1. ledger \in Nat \ {0} /\ ledger' = ledger
  BY DEF BotTypeOK, LoopInv, Closed, ChainMoves
<1> QED
  BY <1>1, CreatesEvents, WritesEvents, DeletesEvents DEF ChainMoves, BookMoves

\* When nothing is published the events tell what they told.
LEMMA QuietKeepsEvents ==
  ASSUME BotTypeOK, EventsInv, UNCHANGED <<bookVars, events>>, ledger' \in {ledger, ledger + 1}
  PROVE  EventsInv'
<1>1. ledger \in Nat /\ \A i \in DOMAIN events : events[i].ledger \in Nat
  BY EventType DEF BotTypeOK
<1>2. EventsAreOrdered'
  BY <1>1 DEF EventsInv, EventsAreOrdered
<1>3. UNCHANGED <<loans, nonce, events>>
  BY DEF bookVars
<1> QED
  BY <1>2, <1>3 DEF EventsInv, Book!NoncesAreIssued, NoncesAreBounded, EventsAreIssued,
     LivesAreOrdered, EventsHaveTerms, DeletedAreGone, GoneAreDeleted, LastIsInBook, EventsOf

-----------------------------------------------------------------------------
(* Types. *)

ChainTypeOK ==
  /\ Book!BookTypeOK
  /\ events \in Seq(Event)
  /\ ledger \in Nat
  /\ twap \in [Pools -> Nat \ {0}]

LocalTypeOK ==
  /\ phase \in Phases
  /\ cursor \in Int
  /\ latest \in Int
  /\ batch \subseteq DOMAIN events
  /\ toPrice \subseteq Pools
  /\ todo \subseteq DOMAIN db
  /\ current \in Book!LoanId \cup {NoLoan}

TablesTypeOK ==
  /\ DOMAIN db \subseteq Book!LoanId
  /\ db \in [DOMAIN db -> {ParseLoan(l) : l \in Loans}]
  /\ DOMAIN prices \subseteq Pools
  /\ prices \in [DOMAIN prices -> Int]
  /\ synced \in Int
  /\ missed \in BOOLEAN

\* The type invariant in parts.
LEMMA BotTypeParts ==
  BotTypeOK <=> ChainTypeOK /\ QueuedTypeOK /\ StatusTypeOK /\ LocalTypeOK /\ TablesTypeOK
BY DEF BotTypeOK, ChainTypeOK, QueuedTypeOK, StatusTypeOK, LocalTypeOK, TablesTypeOK

\* The offer for a row is an integer.
LEMMA OfferInt ==
  ASSUME BotTypeOK, NEW id \in DOMAIN db
  PROVE  Offer(db[id]) \in Int /\ db[id].borrowed \in Int
<1>1. PICK l \in Loans : db[id] = ParseLoan(l)
  BY DEF BotTypeOK
<1>2. db[id].borrowed \in Int
  BY <1>1, ParsedLoan
<1>3. Magnitude(db[id].borrowed) \in Nat /\ Magnitude(3) = 3
  BY <1>2 DEF Magnitude
<1> QED
  BY <1>2, <1>3 DEF Offer, TruncDiv

\* A step changes the transactions as it may.
LEMMA QueuedStep ==
  ASSUME BotTypeOK, LoopInv, [BotNext]_vars
  PROVE  QueuedTypeOK' /\ StatusTypeOK'
<1>1. QueuedTypeOK /\ StatusTypeOK
  BY DEF BotTypeOK, QueuedTypeOK, StatusTypeOK
<1>2. ASSUME UNCHANGED queued, status' \in {status, "NotFound"}
      PROVE  QueuedTypeOK' /\ StatusTypeOK'
  BY <1>1, <1>2 DEF QueuedTypeOK, StatusTypeOK
<1>3. ASSUME NEW tx \in queued, NEW outcome \in {"Success", "Failed"}, Settle(tx, outcome)
      PROVE  QueuedTypeOK' /\ StatusTypeOK'
  BY <1>1, <1>3 DEF QueuedTypeOK, StatusTypeOK, Settle
<1>4. ASSUME Die PROVE QueuedTypeOK' /\ StatusTypeOK'
  <2>1. \A tx \in queued :
          [tx EXCEPT !.awaited = FALSE] \in [id : Book!LoanId, offer : Int, awaited : BOOLEAN]
    BY <1>1 DEF QueuedTypeOK
  <2> QED
    BY <1>4, <2>1 DEF Die, QueuedTypeOK, StatusTypeOK
<1>5. ASSUME NEW isQueued \in BOOLEAN, Send(isQueued)
      PROVE  QueuedTypeOK' /\ StatusTypeOK'
  <2>1. current \in DOMAIN db /\ current \in Book!LoanId
    BY <1>5 DEF Send, LoopInv, BotTypeOK
  <2> DEFINE tx == [id |-> current, offer |-> Offer(db[current]), awaited |-> TRUE]
  <2>2. Offer(db[current]) \in Int
    BY <2>1, OfferInt
  <2>3. tx \in [id : Book!LoanId, offer : Int, awaited : BOOLEAN]
    BY <2>1, <2>2
  <2>4. status' = "NotFound" /\ (queued' = {tx} \/ queued' = queued)
    BY <1>5 DEF Send
  <2> HIDE DEF tx
  <2> QED
    BY <1>1, <2>3, <2>4 DEF QueuedTypeOK, StatusTypeOK
<1>6. CASE UNCHANGED vars
  BY <1>2, <1>6 DEF vars, attemptVars
<1>7. CASE ChainStep
  BY <1>2, <1>7 DEF ChainStep, CreateLoan, UpdateLoan, DeleteLoan, CloseLedger, UpdateTwap,
     attemptVars
<1>8. CASE Inclusion
  BY <1>3, <1>8 DEF Inclusion, LiquidationAccepted, LiquidationRefused
<1>9. CASE Restart \/ Crash
  BY <1>2, <1>4, <1>9 DEF Restart, Crash, attemptVars
<1>10. CASE BotStep
  BY <1>2, <1>4, <1>5, <1>10 DEF BotStep, FetchCreated, FetchUpdated, FetchDeleted, ProcessEvent,
     FinishEvents, FetchPrice, FinishPrices, Skip, Attempt, Panic, FinishLoans, AttemptFails,
     WaitSuccess, attemptVars
<1> QED
  BY <1>6, <1>7, <1>8, <1>9, <1>10 DEF BotNext

\* A step of the chain keeps its types.
LEMMA ChainKeepsTypes ==
  ASSUME BotTypeOK, NoncesAreBounded, ChainMoves
  PROVE  ChainTypeOK' /\ DOMAIN events \subseteq DOMAIN events'
<1>1. ASSUME NEW kind \in Kinds, NEW id \in Book!LoanId, NEW loan \in Loans \cup {NoLoan},
             Publish(kind, id, loan)
      PROVE  events' \in Seq(Event) /\ DOMAIN events \subseteq DOMAIN events'
  <2>1. [kind |-> kind, id |-> id, loan |-> loan, ledger |-> ledger] \in Event
    BY DEF Event, BotTypeOK
  <2>2. events \in Seq(Event)
    BY DEF BotTypeOK
  <2> DEFINE n == Len(events) + 1
  <2>3. n \in Nat /\ DOMAIN events = 1 .. (n - 1) /\ DOMAIN events' = 1 .. n
    BY <1>1, PublishedEvent
  <2> HIDE DEF n
  <2>4. DOMAIN events \subseteq DOMAIN events'
    BY <2>3
  <2> QED
    BY <1>1, <2>1, <2>2, <2>4 DEF Publish
<1>2. ledger' \in Nat /\ twap' \in [Pools -> Nat \ {0}]
  BY DEF ChainMoves, BotTypeOK
<1>3. /\ loans \in [DOMAIN loans -> Loans] /\ DOMAIN loans \subseteq Borrowers \X Nat
      /\ nonce \in [Borrowers -> Nat] /\ ids \in [Borrowers -> SUBSET Nat]
  BY DEF BotTypeOK, Book!BookTypeOK, Book!LoanId
<1>4. ASSUME NEW u \in Borrowers, NEW loan \in Loans, Creates(u, loan)
      PROVE  ChainTypeOK' /\ DOMAIN events \subseteq DOMAIN events'
  <2>1. <<u, nonce[u] + 1>> \in Book!LoanId
    BY <1>3 DEF Book!LoanId
  <2>2. Book!BookTypeOK'
    BY <1>3, <1>4 DEF Creates, Book!CreateEntry, Book!BookTypeOK, Book!LoanId
  <2> QED
    BY <1>1, <1>2, <1>4, <2>1, <2>2 DEF Creates, Kinds, ChainTypeOK
<1>5. ASSUME NEW id \in DOMAIN loans, NEW loan \in Loans, Writes(id, loan)
      PROVE  ChainTypeOK' /\ DOMAIN events \subseteq DOMAIN events'
  <2>1. id \in Book!LoanId
    BY <1>3 DEF Book!LoanId
  <2>2. Book!BookTypeOK'
    BY <1>3, <1>5 DEF Writes, Book!WriteEntry, Book!BookTypeOK, Book!LoanId
  <2> QED
    BY <1>1, <1>2, <1>5, <2>1, <2>2 DEF Writes, Kinds, ChainTypeOK
<1>6. ASSUME NEW id \in DOMAIN loans, Deletes(id)
      PROVE  ChainTypeOK' /\ DOMAIN events \subseteq DOMAIN events'
  <2>1. id \in Book!LoanId
    BY <1>3 DEF Book!LoanId
  <2>2. Book!BookTypeOK'
    BY <1>3, <1>6 DEF Deletes, Book!DeleteEntry, Book!BookTypeOK, Book!LoanId
  <2> QED
    BY <1>1, <1>2, <1>6, <2>1, <2>2 DEF Deletes, Kinds, ChainTypeOK
<1> QED
  BY <1>4, <1>5, <1>6 DEF ChainMoves, BookMoves

\* What the chain does leaves the bot's variables as they should be.
LEMMA ChainKeepsLoop ==
  ASSUME BotTypeOK, LoopInv, BotStays, ledger' \in {ledger, ledger + 1},
         DOMAIN events \subseteq DOMAIN events'
  PROVE  LocalTypeOK' /\ TablesTypeOK' /\ LoopInv'
<1>1. LocalTypeOK' /\ TablesTypeOK'
  BY DEF BotTypeOK, LocalTypeOK, TablesTypeOK, BotStays, loopVars, tables, history
<1>2. ledger \in Nat /\ cursor \in Int /\ latest \in Int /\ synced \in Int
  BY DEF BotTypeOK
<1>3. UNCHANGED <<phase, cursor, latest, batch, todo, current, db, synced>>
  BY DEF BotStays, loopVars, tables, history
<1>4. 0 <= Closed' /\ cursor' <= Closed' /\ latest' <= Closed' /\ synced' <= Closed'
  <2>1. 0 <= Closed /\ cursor <= Closed /\ latest <= Closed /\ synced <= Closed
    BY DEF LoopInv
  <2>2. cursor' = cursor /\ latest' = latest /\ synced' = synced
    BY <1>3
  <2>3. CASE ledger' = ledger
    BY <2>1, <2>2, <2>3 DEF Closed
  <2>4. CASE ledger' = ledger + 1
    BY <1>2, <2>1, <2>2, <2>4 DEF Closed
  <2> QED
    BY <2>3, <2>4
<1>5. LoopInv'
  BY <1>3, <1>4 DEF LoopInv
<1> QED
  BY <1>1, <1>5

\* The end of the process leaves its variables as they were at the start.
LEMMA DieLoop ==
  ASSUME BotTypeOK, LoopInv, Closed' = Closed, Die, DOMAIN events' = DOMAIN events
  PROVE  LocalTypeOK' /\ TablesTypeOK' /\ LoopInv'
<1>1. TablesTypeOK' /\ synced <= Closed /\ 0 <= Closed
  BY DEF BotTypeOK, TablesTypeOK, LoopInv, Die, tables, history
<1>2. /\ phase' = "down" /\ cursor' = 0 /\ latest' = 0 /\ batch' = {} /\ toPrice' = {}
      /\ todo' = {} /\ current' = NoLoan /\ synced' = synced
  BY DEF Die, history
<1> QED
  BY <1>1, <1>2 DEF LocalTypeOK, LoopInv, Phases

\* The bot's own steps keep its variables as they should be.
LEMMA FetchLoop ==
  ASSUME BotTypeOK, LoopInv, UNCHANGED chainVars,
         FetchCreated \/ FetchUpdated \/ FetchDeleted \/ Restart
  PROVE  LocalTypeOK' /\ TablesTypeOK' /\ LoopInv'
<1>1. /\ LocalTypeOK /\ TablesTypeOK
      /\ Closed' = Closed /\ Closed \in Int /\ DOMAIN events' = DOMAIN events
      /\ HISTORY_DEPTH \in Nat /\ Start \in Int /\ Start <= Closed
  BY BotTypeParts, BoundsAssumption DEF ChainTypeOK, chainVars, Closed, Start
<1>2. \A kind : Answer(kind) \subseteq DOMAIN events
  BY DEF Answer, Matching
<1>3. TablesTypeOK'
  BY <1>1 DEF FetchCreated, FetchUpdated, FetchDeleted, Restart, MissedIfCut, TablesTypeOK,
     tables
<1>4. /\ UNCHANGED <<toPrice, todo, current, db, synced>>
      /\ phase \in {"created", "updated", "deleted", "down"}
      /\ phase' \in {"created", "updated", "deleted", "process"}
  BY DEF FetchCreated, FetchUpdated, FetchDeleted, Restart, attemptVars, tables
<1>5. cursor' \in {cursor, latest, Start} /\ latest' \in {latest, Closed, 0}
  BY DEF FetchCreated, FetchUpdated, FetchDeleted, Restart
<1>6. batch' \subseteq DOMAIN events /\ (phase' = "created" => batch' = {})
  BY <1>1, <1>2 DEF FetchCreated, FetchUpdated, FetchDeleted, Restart, LocalTypeOK, LoopInv
<1>7. LocalTypeOK'
  BY <1>1, <1>4, <1>5, <1>6 DEF LocalTypeOK, Phases
<1>8. cursor' <= Closed' /\ latest' <= Closed' /\ synced' <= Closed' /\ 0 <= Closed'
  BY <1>1, <1>4, <1>5 DEF LoopInv
<1>9. LoopInv'
  BY <1>4, <1>6, <1>8 DEF LoopInv
<1> QED
  BY <1>3, <1>7, <1>9

\* process_events keeps the types: a row is a loan's, under the loan's id.
LEMMA ProcessLoop ==
  ASSUME BotTypeOK, EventsInv, LoopInv, UNCHANGED chainVars, ProcessEvent
  PROVE  LocalTypeOK' /\ TablesTypeOK' /\ LoopInv'
<1>1. /\ LocalTypeOK /\ TablesTypeOK
      /\ Closed' = Closed /\ Closed \in Int /\ DOMAIN events' = DOMAIN events
  BY BotTypeParts DEF ChainTypeOK, chainVars, Closed
<1>2. PICK i \in batch :
        /\ db' = IF events[i].kind = "deleted" THEN DeleteLoanFromDb(ParseLoanId(events[i].id))
                 ELSE SaveLoan(ParseLoanId(events[i].id), ParseLoan(events[i].loan))
        /\ batch' = batch \ {i}
        /\ synced' = Smaller(synced, events[i].ledger - 1)
  BY DEF ProcessEvent
<1>3. /\ i \in DOMAIN events /\ ParseLoanId(events[i].id) = events[i].id
      /\ events[i].id \in Book!LoanId /\ events[i].ledger \in Nat
      /\ events[i].kind # "deleted" => events[i].loan \in Loans
  BY <1>1, ParsedId, EventType DEF LocalTypeOK, EventsInv, EventsHaveTerms, Book!LoanId
<1>4. DOMAIN db' \subseteq Book!LoanId /\ db' \in [DOMAIN db' -> {ParseLoan(l) : l \in Loans}]
  BY <1>1, <1>2, <1>3 DEF TablesTypeOK, SaveLoan, DeleteLoanFromDb
<1>5. /\ phase = "process" /\ todo = {}
      /\ UNCHANGED <<phase, cursor, latest, toPrice, todo, current, prices, missed>>
  BY DEF ProcessEvent, LoopInv, attemptVars
<1>6. synced' \in Int /\ synced' <= synced
  BY <1>1, <1>2, <1>3 DEF TablesTypeOK, Smaller
<1>7. LocalTypeOK' /\ TablesTypeOK'
  BY <1>1, <1>2, <1>4, <1>5, <1>6 DEF LocalTypeOK, TablesTypeOK
<1>8. LoopInv'
  BY <1>1, <1>5, <1>6 DEF LoopInv, LocalTypeOK, TablesTypeOK
<1> QED
  BY <1>7, <1>8

\* fetch_prices keeps the types.
LEMMA PricesLoop ==
  ASSUME BotTypeOK, LoopInv, UNCHANGED chainVars,
         FinishEvents \/ (\E p \in toPrice : FetchPrice(p)) \/ FinishPrices
  PROVE  LocalTypeOK' /\ TablesTypeOK' /\ LoopInv'
<1>1. /\ LocalTypeOK /\ TablesTypeOK /\ twap \in [Pools -> Nat \ {0}]
      /\ Closed' = Closed /\ Closed \in Int /\ DOMAIN events' = DOMAIN events
  BY BotTypeParts DEF ChainTypeOK, chainVars, Closed
<1>2. \A id \in DOMAIN db : db[id].from \in Pools /\ db[id].collateralFrom \in Pools
  BY <1>1, ParsedLoan DEF TablesTypeOK
<1>3. CASE FinishEvents
  <2>1. UniquePoolsInUse \subseteq Pools
    BY <1>2 DEF UniquePoolsInUse
  <2>2. LocalTypeOK' /\ TablesTypeOK'
    BY <1>1, <1>3, <2>1 DEF FinishEvents, LocalTypeOK, TablesTypeOK, attemptVars, tables, Phases
  <2>3. LoopInv'
    BY <1>1, <1>3 DEF FinishEvents, LoopInv, LocalTypeOK, attemptVars, tables
  <2> QED
    BY <2>2, <2>3
<1>4. ASSUME NEW p \in toPrice, FetchPrice(p)
      PROVE  LocalTypeOK' /\ TablesTypeOK' /\ LoopInv'
  <2>1. p \in Pools /\ AsI64(twap[p]) \in Int
    BY <1>1, AsI64Fits DEF LocalTypeOK
  <2>2. DOMAIN prices' \subseteq Pools /\ prices' \in [DOMAIN prices' -> Int]
    BY <1>1, <1>4, <2>1 DEF FetchPrice, SavePrice, TablesTypeOK
  <2>3. LocalTypeOK' /\ TablesTypeOK'
    BY <1>1, <1>4, <2>2 DEF FetchPrice, LocalTypeOK, TablesTypeOK, attemptVars, history
  <2>4. LoopInv'
    BY <1>1, <1>4 DEF FetchPrice, LoopInv, attemptVars, history
  <2> QED
    BY <2>3, <2>4
<1>5. CASE FinishPrices
  <2>1. LocalTypeOK' /\ TablesTypeOK'
    BY <1>1, <1>5 DEF FinishPrices, LocalTypeOK, TablesTypeOK, attemptVars, tables, history, Phases
  <2>2. LoopInv'
    BY <1>1, <1>5 DEF FinishPrices, LoopInv, attemptVars, tables, history
  <2> QED
    BY <2>1, <2>2
<1> QED
  BY <1>3, <1>4, <1>5

\* find_liquidateable and what it calls keep the types.
LEMMA FindLoop ==
  ASSUME BotTypeOK, LoopInv, UNCHANGED chainVars,
         \/ \E id \in todo : Skip(id) \/ Attempt(id)
         \/ FinishLoans \/ AttemptFails
         \/ \E isQueued \in BOOLEAN : Send(isQueued)
         \/ WaitSuccess
  PROVE  LocalTypeOK' /\ TablesTypeOK' /\ LoopInv'
<1>1. /\ LocalTypeOK /\ TablesTypeOK
      /\ Closed' = Closed /\ DOMAIN events' = DOMAIN events
  BY BotTypeParts DEF chainVars, Closed
<1>2. UNCHANGED <<cursor, latest, batch, toPrice, db, prices, synced, missed>>
  BY DEF Skip, Attempt, FinishLoans, AttemptFails, Send, WaitSuccess, loopVars, tables, history
<1>3. TablesTypeOK'
  BY <1>1, <1>2 DEF TablesTypeOK
<1>4. todo' \subseteq todo /\ current' \in {current, NoLoan} \cup todo /\ phase' \in Phases
  BY DEF Skip, Attempt, FinishLoans, AttemptFails, Send, WaitSuccess, loopVars, attemptVars, Phases
<1>5. LocalTypeOK'
  BY <1>1, <1>2, <1>4 DEF LocalTypeOK, TablesTypeOK
<1>6. /\ phase \notin {"updated", "deleted", "process"}
      /\ phase' \notin {"updated", "deleted", "process"}
      /\ phase' \notin {"find", "attempt", "wait"} => todo' = {}
  BY DEF Skip, Attempt, FinishLoans, AttemptFails, Send, WaitSuccess, loopVars
<1>7. phase' \in {"attempt", "wait"} => current' \in DOMAIN db
  BY <1>1 DEF Skip, Attempt, FinishLoans, AttemptFails, Send, WaitSuccess, LoopInv, LocalTypeOK
<1>8. LoopInv'
  BY <1>1, <1>2, <1>6, <1>7 DEF LoopInv
<1> QED
  BY <1>3, <1>5, <1>8

\* The bot's own steps keep the types, and its variables as they should be.
LEMMA BotMovesLoop ==
  ASSUME BotTypeOK, EventsInv, LoopInv, BotMoves
  PROVE  LocalTypeOK' /\ TablesTypeOK' /\ LoopInv'
<1>1. UNCHANGED chainVars /\ Closed' = Closed /\ DOMAIN events' = DOMAIN events
  BY DEF BotMoves, chainVars, Closed
<1>2. CASE Crash \/ \E id \in todo : Panic(id)
  BY <1>1, <1>2, DieLoop DEF Crash, Panic
<1>3. CASE FetchCreated \/ FetchUpdated \/ FetchDeleted \/ Restart
  BY <1>1, <1>3, FetchLoop
<1>4. CASE ProcessEvent
  BY <1>1, <1>4, ProcessLoop
<1>5. CASE FinishEvents \/ (\E p \in toPrice : FetchPrice(p)) \/ FinishPrices
  BY <1>1, <1>5, PricesLoop
<1>6. CASE \/ \E id \in todo : Skip(id) \/ Attempt(id)
           \/ FinishLoans \/ AttemptFails
           \/ \E isQueued \in BOOLEAN : Send(isQueued)
           \/ WaitSuccess
  BY <1>1, <1>6, FindLoop
<1> QED
  BY <1>2, <1>3, <1>4, <1>5, <1>6 DEF BotMoves, BotStep

\* Every step keeps the types, the events' order, and the loop's variables.
LEMMA BotTypeStep ==
  ASSUME BotTypeOK, EventsInv, LoopInv, [BotNext]_vars
  PROVE  BotTypeOK' /\ EventsInv' /\ LoopInv'
<1>1. ChainTypeOK' /\ LocalTypeOK' /\ TablesTypeOK' /\ LoopInv' /\ EventsInv'
  <2>1. CASE ChainMoves
    <3>1. ChainTypeOK' /\ DOMAIN events \subseteq DOMAIN events'
      BY <2>1, ChainKeepsTypes DEF EventsInv
    <3>2. BotStays /\ ledger' \in {ledger, ledger + 1}
      BY <2>1 DEF ChainMoves
    <3> QED
      BY <2>1, <3>1, <3>2, ChainKeepsEvents, ChainKeepsLoop
  <2>2. CASE ClockMoves
    <3>1. BotStays /\ ledger' \in {ledger, ledger + 1} /\ UNCHANGED <<bookVars, events>>
      BY <2>2 DEF ClockMoves
    <3>2. Prices \in [Pools -> SUBSET (Nat \ {0})] /\ twap \in [Pools -> Nat \ {0}]
          /\ ledger \in Nat
      BY PricesAssumption DEF BotTypeOK
    <3>3. twap' \in [Pools -> Nat \ {0}]
      BY <2>2, <3>2 DEF ClockMoves
    <3>4. ledger' \in Nat
      BY <3>1, <3>2
    <3>5. Book!BookTypeOK' /\ events' \in Seq(Event)
      BY <3>1 DEF BotTypeOK, Book!BookTypeOK, bookVars
    <3> QED
      BY <3>1, <3>3, <3>4, <3>5, QuietKeepsEvents, ChainKeepsLoop DEF ChainTypeOK
  <2>3. CASE BotMoves
    <3>1. UNCHANGED <<bookVars, events>> /\ ledger' \in {ledger, ledger + 1} /\ UNCHANGED chainVars
      BY <2>3 DEF BotMoves, chainVars
    <3>2. ChainTypeOK'
      BY <3>1, BotTypeParts DEF ChainTypeOK, chainVars, bookVars, Book!BookTypeOK
    <3> QED
      BY <2>3, <3>1, <3>2, QuietKeepsEvents, BotMovesLoop
  <2> QED
    BY <2>1, <2>2, <2>3, BotStepKinds
<1>2. QueuedTypeOK' /\ StatusTypeOK'
  BY QueuedStep
<1>3. ChainTypeOK' /\ QueuedTypeOK' /\ StatusTypeOK' /\ LocalTypeOK' /\ TablesTypeOK'
        => BotTypeOK'
  BY DEF BotTypeOK, ChainTypeOK, QueuedTypeOK, StatusTypeOK, LocalTypeOK, TablesTypeOK
<1> QED
  BY <1>1, <1>2, <1>3

\* The types hold at the start, when there is nothing.
LEMMA BotTypeInit ==
  ASSUME BotInit
  PROVE  BotTypeOK /\ EventsInv /\ LoopInv
<1>1. /\ loans = [id \in {} |-> 0] /\ nonce = [u \in Borrowers |-> 0]
      /\ ids = [u \in Borrowers |-> {}] /\ events = <<>>
  BY DEF BotInit, Book!BookInit
<1>2. DOMAIN loans = {} /\ DOMAIN events = {} /\ events \in Seq(Event)
  BY <1>1
<1>3. Book!BookTypeOK
  BY <1>1, <1>2 DEF Book!BookTypeOK, Book!LoanId
<1>4. ledger = 1 /\ Closed = 0
  BY DEF BotInit, Closed
<1>5. twap \in [Pools -> Nat \ {0}]
  BY PricesAssumption DEF BotInit
<1>6. ChainTypeOK
  BY <1>2, <1>3, <1>4, <1>5 DEF ChainTypeOK
<1>7. QueuedTypeOK /\ StatusTypeOK /\ LocalTypeOK /\ TablesTypeOK
  <2>1. QueuedTypeOK /\ StatusTypeOK /\ LocalTypeOK
    BY DEF BotInit, QueuedTypeOK, StatusTypeOK, LocalTypeOK, Phases
  <2>2. db = [id \in {} |-> 0] /\ prices = [p \in {} |-> 0]
    BY DEF BotInit
  <2>3. DOMAIN db = {} /\ DOMAIN prices = {}
    BY <2>2
  <2>4. db \in [{} -> {ParseLoan(l) : l \in Loans}] /\ prices \in [{} -> Int]
    BY <2>2
  <2>5. synced \in Int
    BY DEF BotInit
  <2>6. missed \in BOOLEAN
    BY DEF BotInit
  <2> QED
    BY <2>1, <2>3, <2>4, <2>5, <2>6 DEF TablesTypeOK
<1>8. EventsInv
  BY <1>1, <1>2, BoundsAssumption DEF EventsInv, Book!NoncesAreIssued, NoncesAreBounded, EventsAreOrdered,
     EventsAreIssued, LivesAreOrdered, EventsHaveTerms, DeletedAreGone, GoneAreDeleted, LastIsInBook
<1>9. LoopInv
  BY <1>4 DEF BotInit, LoopInv
<1> QED
  BY <1>6, <1>7, <1>8, <1>9, BotTypeParts

\* BotSpec without its fairness.
LEMMA BotSteps == BotSpec => BotInit /\ [][BotNext]_vars
BY PTL DEF BotSpec

\* The bot's tables, transactions and local variables, and the chain's events,
\* are what they should be, whatever the chain does between the bot's steps.
THEOREM BotTypeCorrect == BotSpec => []BotTypeOK
<1> DEFINE I == BotTypeOK /\ EventsInv /\ LoopInv
<1>1. BotInit => I
  BY BotTypeInit
<1>2. I /\ [BotNext]_vars => I'
  BY BotTypeStep
<1>3. I => BotTypeOK
  OBVIOUS
<1> QED
  BY <1>1, <1>2, <1>3, BotSteps, PTL

-----------------------------------------------------------------------------
(* What the chain does leaves the copy in agreement: it only publishes in   *)
(* the open ledger, which no answer has been from.                          *)

\* The events go on with new ones in the open ledger, and a loan comes to be
\* under a new id or goes with an event.
GoesOn ==
  /\ \A i \in DOMAIN events : i \in DOMAIN events' /\ events'[i] = events[i]
  /\ \A i \in DOMAIN events' \ DOMAIN events : events'[i].ledger = ledger
  /\ \A i \in DOMAIN events : events[i].id \in DOMAIN loans' => events[i].id \in DOMAIN loans
  /\ \A id \in DOMAIN loans \ DOMAIN loans' : \E i \in DOMAIN events' :
       events'[i].id = id /\ events'[i].kind = "deleted" /\ events'[i].ledger = ledger

\* Every step of the chain, and of the clock, goes on so.
LEMMA ChainGoesOn ==
  ASSUME BotTypeOK, EventsInv, ChainMoves \/ ClockMoves
  PROVE  GoesOn
<1>1. CASE ClockMoves
  BY <1>1 DEF ClockMoves, bookVars, GoesOn
<1> DEFINE n == Len(events) + 1
<1>2. ASSUME NEW kind, NEW id, NEW loan, Publish(kind, id, loan)
      PROVE  /\ \A i \in DOMAIN events : i \in DOMAIN events' /\ events'[i] = events[i]
             /\ \A i \in DOMAIN events' \ DOMAIN events : events'[i].ledger = ledger
             /\ n \in DOMAIN events' /\ events'[n].ledger = ledger
             /\ events'[n].id = id /\ events'[n].kind = kind
  <2>1. /\ n \in Nat /\ DOMAIN events = 1 .. (n - 1) /\ DOMAIN events' = 1 .. n
        /\ \A i \in DOMAIN events : events'[i] = events[i]
        /\ events'[n].ledger = ledger /\ events'[n].id = id /\ events'[n].kind = kind
    BY <1>2, PublishedEvent
  <2>2. Len(events) \in Nat /\ n \in DOMAIN events'
    BY <2>1, LenProperties DEF BotTypeOK
  <2> HIDE DEF n
  <2>3. \A i \in DOMAIN events : i \in DOMAIN events'
    BY <2>1
  <2>4. \A i \in DOMAIN events' : (i = n \/ i \in DOMAIN events)
    BY <2>1
  <2> QED
    BY <2>1, <2>2, <2>3, <2>4
<1> HIDE DEF n
<1>3. ASSUME NEW u \in Borrowers, NEW loan \in Loans, Creates(u, loan)
      PROVE  GoesOn
  <2>1. DOMAIN loans' = DOMAIN loans \cup {<<u, nonce[u] + 1>>} /\ nonce[u] \in Nat
    BY <1>3 DEF Creates, Book!CreateEntry, BotTypeOK, Book!BookTypeOK
  <2>2. \A i \in DOMAIN events : events[i].id # <<u, nonce[u] + 1>>
    BY <2>1, EventType DEF EventsInv, EventsAreIssued
  <2> QED
    BY <1>2, <1>3, <2>1, <2>2 DEF Creates, GoesOn
<1>4. ASSUME NEW id \in DOMAIN loans, NEW loan \in Loans, Writes(id, loan)
      PROVE  GoesOn
  <2>1. DOMAIN loans' = DOMAIN loans
    BY <1>4 DEF Writes, Book!WriteEntry
  <2> QED
    BY <1>2, <1>4, <2>1 DEF Writes, GoesOn
<1>5. ASSUME NEW id \in DOMAIN loans, Deletes(id)
      PROVE  GoesOn
  <2>1. DOMAIN loans' = DOMAIN loans \ {id}
    BY <1>5 DEF Deletes, Book!DeleteEntry
  <2> QED
    BY <1>2, <1>5, <2>1 DEF Deletes, GoesOn
<1> QED
  BY <1>1, <1>3, <1>4, <1>5 DEF ChainMoves, BookMoves

\* Agreement up to a closed ledger outlasts what the chain does.
LEMMA AgreementGoesOn ==
  ASSUME BotTypeOK, NEW c \in Int, c <= Closed, GoesOn, UNCHANGED db
  PROVE  /\ HasCreated(c) => HasCreated(c)'
         /\ HasNoDeleted(c) => HasNoDeleted(c)'
         /\ \A id : IsDeletedAfter(id, c) => IsDeletedAfter(id, c)'
         /\ \A id \in DOMAIN loans : id \in DOMAIN loans' \/ IsDeletedAfter(id, c)'
         /\ \A id : HasTermsOf(id, c) => HasTermsOf(id, c)'
         /\ \A i \in DOMAIN events : IsRecentAt(i, c) => IsRecentAt(i, c)'
<1>1. ledger > c /\ ~ (ledger <= c)
  BY DEF BotTypeOK, Closed
<1>2. \A i \in DOMAIN events' \ DOMAIN events : events'[i].ledger > c /\ ~ (events'[i].ledger <= c)
  BY <1>1 DEF GoesOn
<1>3. HasCreated(c) => HasCreated(c)'
  BY <1>2 DEF HasCreated, GoesOn
<1>4. \A id : IsDeletedAfter(id, c) => IsDeletedAfter(id, c)'
  BY DEF IsDeletedAfter, EventsOf, GoesOn
<1>5. \A id \in DOMAIN loans : id \in DOMAIN loans' \/ IsDeletedAfter(id, c)'
  BY <1>1 DEF IsDeletedAfter, EventsOf, GoesOn
<1>6. HasNoDeleted(c) => HasNoDeleted(c)'
  BY <1>4, <1>5 DEF HasNoDeleted
<1>7. ASSUME NEW i \in DOMAIN events, IsRecentAt(i, c)
      PROVE  IsRecentAt(i, c)'
  BY <1>2, <1>7 DEF IsRecentAt, EventsOf, GoesOn
<1>8. ASSUME NEW id, HasTermsOf(id, c)
      PROVE  HasTermsOf(id, c)'
  <2>1. PICK i \in EventsOf(id) :
          events[i].kind # "deleted" /\ IsRecentAt(i, c) /\ db[id] = ParseLoan(events[i].loan)
    BY <1>8 DEF HasTermsOf
  <2>2. i \in DOMAIN events /\ i \in EventsOf(id)' /\ events'[i] = events[i]
    BY <2>1 DEF EventsOf, GoesOn
  <2> QED
    BY <1>7, <2>1, <2>2 DEF HasTermsOf
<1> QED
  BY <1>3, <1>4, <1>5, <1>6, <1>7, <1>8

\* What is left of the batch outlasts it too.
LEMMA RemainderGoesOn ==
  ASSUME BotTypeOK, LoopInv, GoesOn, WillAgree, UNCHANGED <<db, batch, cursor>>
  PROVE  WillAgree'
<1>1. /\ cursor \in Int /\ cursor <= Closed /\ batch \subseteq DOMAIN events
      /\ ledger \in Nat /\ ~ (ledger <= cursor)
  BY DEF BotTypeOK, LoopInv, Closed
<1>2. /\ \A i \in DOMAIN events : i \in DOMAIN events' /\ events'[i] = events[i]
      /\ \A i \in DOMAIN events' \ DOMAIN events : ~ (events'[i].ledger <= cursor)
      /\ \A i \in DOMAIN events : events[i].id \in DOMAIN loans' => events[i].id \in DOMAIN loans
  BY <1>1 DEF GoesOn
<1>3. \A id : Remaining(id)' = Remaining(id)
  BY <1>1, <1>2 DEF Remaining, EventsOf
<1>4. /\ \A id : IsDeletedAfter(id, cursor) => IsDeletedAfter(id, cursor)'
      /\ \A id \in DOMAIN loans : id \in DOMAIN loans' \/ IsDeletedAfter(id, cursor)'
      /\ \A id : HasTermsOf(id, cursor) => HasTermsOf(id, cursor)'
      /\ \A i \in DOMAIN events : IsRecentAt(i, cursor) => IsRecentAt(i, cursor)'
  <2>1. PICK c \in Int : c = cursor /\ c <= Closed
    BY <1>1
  <2>2. /\ \A id : IsDeletedAfter(id, c) => IsDeletedAfter(id, c)'
        /\ \A id \in DOMAIN loans : id \in DOMAIN loans' \/ IsDeletedAfter(id, c)'
        /\ \A id : HasTermsOf(id, c) => HasTermsOf(id, c)'
        /\ \A i \in DOMAIN events : IsRecentAt(i, c) => IsRecentAt(i, c)'
    BY <2>1, AgreementGoesOn
  <2>3. cursor' = c
    BY <2>1
  <2> QED
    BY <2>1, <2>2, <2>3 DEF IsDeletedAfter, HasTermsOf, IsRecentAt
<1>5. WillHaveCreated'
  BY <1>2, <1>3 DEF WillAgree, WillHaveCreated
<1>6. \A id : WillBeDeleted(id)' <=> WillBeDeleted(id)
  BY <1>1, <1>2, <1>3 DEF WillBeDeleted, Remaining
<1>7. WillHaveNoDeleted'
  BY <1>1, <1>2, <1>4, <1>6 DEF WillAgree, WillHaveNoDeleted
<1>8. \A i \in batch : IsLastRemaining(i)' => IsLastRemaining(i)
  BY <1>1, <1>2, <1>3 DEF IsLastRemaining, Remaining, IsProcessedBefore, IsEarlierKind
<1>9. WillHaveRecentTerms'
  BY <1>1, <1>2, <1>3, <1>4, <1>8 DEF WillAgree, WillHaveRecentTerms
<1> QED
  BY <1>5, <1>7, <1>9 DEF WillAgree

\* Every step of the chain keeps the copy as it is.
LEMMA ChainKeepsCopy ==
  ASSUME BotTypeOK, LoopInv, GoesOn, BotStays, FetchedFromCursor, CopyInv, PricesInv
  PROVE  FetchedFromCursor' /\ CopyInv' /\ PricesInv'
<1>1. UNCHANGED <<phase, cursor, latest, batch, toPrice, todo, current, db, prices, synced, missed>>
  BY DEF BotStays, loopVars, tables, history
<1>2. /\ cursor \in Int /\ latest \in Int /\ synced \in Int /\ ledger \in Nat
      /\ synced <= Closed /\ ledger >= cursor /\ ~ (ledger <= latest)
      /\ batch \subseteq DOMAIN events
  BY DEF BotTypeOK, LoopInv, Closed
<1>3. /\ \A i \in DOMAIN events : i \in DOMAIN events' /\ events'[i] = events[i]
      /\ \A i \in DOMAIN events' \ DOMAIN events :
           events'[i].ledger >= cursor /\ ~ (events'[i].ledger <= latest)
  BY <1>2 DEF GoesOn
<1>4. FetchedFromCursor'
  BY <1>1, <1>2, <1>3 DEF FetchedFromCursor
<1>5. PricesInv'
  BY <1>1 DEF PricesInv, PoolsOf
<1>6. ASSUME ~missed, AgreesTo(synced) PROVE AgreesTo(synced)'
  <2>1. PICK c \in Int : c = synced /\ c <= Closed
    BY <1>2
  <2>2. /\ HasCreated(c) => HasCreated(c)'
        /\ HasNoDeleted(c) => HasNoDeleted(c)'
        /\ \A id : HasTermsOf(id, c) => HasTermsOf(id, c)'
    BY <1>1, <2>1, AgreementGoesOn
  <2>3. synced' = c
    BY <1>1, <2>1
  <2>4. HasCreated(c) /\ HasNoDeleted(c) /\ \A id \in DOMAIN db : HasTermsOf(id, c)
    BY <1>6, <2>1 DEF AgreesTo, HasRecentTerms
  <2>5. HasCreated(synced)'
    BY <2>2, <2>3, <2>4 DEF HasCreated
  <2>6. HasNoDeleted(synced)'
    BY <2>2, <2>3, <2>4 DEF HasNoDeleted, IsDeletedAfter
  <2>7. HasRecentTerms(synced)'
    BY <1>1, <2>2, <2>3, <2>4 DEF HasRecentTerms, HasTermsOf, IsRecentAt
  <2> QED
    BY <2>5, <2>6, <2>7 DEF AgreesTo
<1>7. NothingBetween => NothingBetween'
  BY <1>1, <1>3 DEF NothingBetween
<1>8. FetchedAll => FetchedAll'
  BY <1>1, <1>3 DEF FetchedAll, FetchedKinds
<1>9. WillAgree => WillAgree'
  BY <1>1, RemainderGoesOn
<1>10. CopyInv'
  BY <1>1, <1>6, <1>7, <1>8, <1>9 DEF CopyInv
<1> QED
  BY <1>4, <1>5, <1>10

-----------------------------------------------------------------------------
(* fetch_events. *)

\* The copy agrees as long as neither it nor the chain changes.
LEMMA AgreementStays ==
  ASSUME UNCHANGED <<loans, events, db, synced>>, AgreesTo(synced)
  PROVE  AgreesTo(synced)'
BY DEF AgreesTo, HasCreated, HasNoDeleted, HasRecentTerms, HasTermsOf, IsDeletedAfter, IsRecentAt,
   EventsOf

\* What an answer has is within the range that was asked for.
LEMMA AnswerRange ==
  ASSUME BotTypeOK, NEW kind
  PROVE  /\ \A i \in Answer(kind) : events[i].ledger >= cursor
         /\ \A i \in DOMAIN events :
              events[i].kind = kind /\ events[i].ledger >= cursor /\ events[i].ledger <= Closed
                => i \in Matching(kind)
<1>1. cursor \in Int /\ Closed \in Int /\ \A i \in DOMAIN events : events[i].ledger \in Nat
  BY EventType DEF BotTypeOK, Closed
<1> QED
  BY <1>1 DEF Answer, Matching

\* The query for created loans.
LEMMA FetchCreatedCopy ==
  ASSUME BotTypeOK, LoopInv, FetchedFromCursor, CopyInv, UNCHANGED chainVars, FetchCreated
  PROVE  FetchedFromCursor' /\ CopyInv'
<1>1. /\ UNCHANGED <<loans, events, cursor, db, synced>>
      /\ phase' = "updated" /\ phase = "created" /\ batch' = Answer("created") /\ latest' = Closed
      /\ ~missed' => ~missed /\ Answer("created") = Matching("created")
  BY DEF FetchCreated, MissedIfCut, chainVars, bookVars, tables
<1>2. FetchedFromCursor'
  BY <1>1, AnswerRange DEF FetchedFromCursor
<1>3. ASSUME ~missed' PROVE AgreesTo(synced)' /\ NothingBetween'
  BY <1>1, <1>3, AgreementStays DEF CopyInv, NothingBetween
<1>4. ASSUME ~missed' PROVE FetchedAll'
  BY <1>1, <1>4, AnswerRange DEF FetchedAll, FetchedKinds
<1> QED
  BY <1>1, <1>2, <1>3, <1>4 DEF CopyInv

\* The query for updated loans, from the same cursor, and later.
LEMMA FetchUpdatedCopy ==
  ASSUME BotTypeOK, LoopInv, FetchedFromCursor, CopyInv, UNCHANGED chainVars, FetchUpdated
  PROVE  FetchedFromCursor' /\ CopyInv'
<1>1. /\ UNCHANGED <<loans, events, cursor, latest, db, synced>>
      /\ phase = "updated" /\ phase' = "deleted" /\ batch' = batch \cup Answer("updated")
      /\ ~missed' => ~missed /\ Answer("updated") = Matching("updated")
  BY DEF FetchUpdated, MissedIfCut, chainVars, bookVars, tables
<1>2. FetchedFromCursor'
  BY <1>1, AnswerRange DEF FetchedFromCursor
<1>3. ASSUME ~missed' PROVE AgreesTo(synced)' /\ NothingBetween'
  BY <1>1, <1>3, AgreementStays DEF CopyInv, NothingBetween
<1>4. ASSUME ~missed' PROVE FetchedAll'
  <2>1. FetchedAll /\ latest \in Int /\ Closed \in Int /\ latest <= Closed
    BY <1>1, <1>4 DEF CopyInv, LoopInv, BotTypeOK, Closed
  <2>2. \A i \in DOMAIN events : events[i].ledger \in Nat
    BY EventType
  <2>3. \A i \in DOMAIN events : events[i].ledger <= latest => events[i].ledger <= Closed
    BY <2>1, <2>2
  <2>4. ASSUME NEW i \in DOMAIN events, events[i].kind \in {"created", "updated"},
               events[i].ledger >= cursor, events[i].ledger <= latest
        PROVE  i \in batch'
    <3>1. CASE events[i].kind = "created"
      BY <1>1, <2>1, <2>4, <3>1 DEF FetchedAll, FetchedKinds
    <3>2. CASE events[i].kind = "updated"
      BY <1>1, <1>4, <2>3, <2>4, <3>2, AnswerRange
    <3> QED
      BY <2>4, <3>1, <3>2
  <2> QED
    BY <1>1, <2>4 DEF FetchedAll, FetchedKinds
<1> QED
  BY <1>1, <1>2, <1>3, <1>4 DEF CopyInv

\* The three answers were given at three times: together they have all events
\* from the cursor up to where the first stood.
LEMMA FetchedIsEnough ==
  ASSUME BotTypeOK, EventsInv, LoopInv, AgreesTo(synced), NothingBetween, FetchedAll,
         FetchedFromCursor, phase = "deleted", NEW B, B = batch \cup Matching("deleted")
  PROVE  /\ B \subseteq DOMAIN events /\ \A i \in B : events[i].ledger >= cursor
         /\ \A i \in DOMAIN events : events[i].ledger >= cursor /\ i \notin B
              => events[i].ledger > latest
<1>1. /\ latest \in Int /\ Closed \in Int /\ cursor \in Int /\ latest <= Closed
      /\ \A i \in DOMAIN events : events[i].ledger \in Nat /\ events[i].kind \in Kinds
  BY EventType DEF LoopInv, BotTypeOK, Closed
<1>2. B \subseteq DOMAIN events /\ \A i \in B : events[i].ledger >= cursor
  BY <1>1 DEF BotTypeOK, FetchedFromCursor, Matching
<1>3. ASSUME NEW i \in DOMAIN events, events[i].ledger >= cursor, events[i].ledger <= latest
      PROVE  i \in B
  <2>1. CASE events[i].kind \in {"created", "updated"}
    BY <1>3, <2>1 DEF FetchedAll, FetchedKinds
  <2>2. CASE events[i].kind = "deleted"
    <3>1. events[i].ledger <= Closed
      BY <1>1, <1>3
    <3> QED
      BY <1>3, <2>2, <3>1, AnswerRange
  <2> QED
    BY <1>1, <2>1, <2>2 DEF Kinds
<1> QED
  BY <1>1, <1>2, <1>3

\* The query for deleted loans.  What was fetched makes the table agree up to
\* where the first answer stood, which the cursor is set to.
LEMMA FetchDeletedCopy ==
  ASSUME BotTypeOK, EventsInv, LoopInv, FetchedFromCursor, CopyInv, UNCHANGED chainVars,
         FetchDeleted
  PROVE  FetchedFromCursor' /\ CopyInv'
<1>1. /\ UNCHANGED <<loans, events, db, synced>>
      /\ phase = "deleted" /\ phase' = "process" /\ cursor' = latest
      /\ batch' = batch \cup Answer("deleted")
      /\ ~missed' => ~missed /\ Answer("deleted") = Matching("deleted")
  BY DEF FetchDeleted, MissedIfCut, chainVars, bookVars, tables
<1>2. ASSUME ~missed' PROVE AgreesTo(synced)' /\ WillAgree'
  <2>1. AgreesTo(synced) /\ NothingBetween /\ FetchedAll /\ batch' = batch \cup Matching("deleted")
    BY <1>1, <1>2 DEF CopyInv
  <2>2. /\ batch' \subseteq DOMAIN events /\ \A i \in batch' : events[i].ledger >= cursor
        /\ \A i \in DOMAIN events : events[i].ledger >= cursor /\ i \notin batch'
             => events[i].ledger > latest
    BY <1>1, <2>1, FetchedIsEnough
  <2>3. \A i \in DOMAIN events : events[i].ledger <= synced \/ events[i].ledger >= cursor
    BY <1>1, <2>1 DEF NothingBetween
  <2>4. /\ synced \in Int /\ cursor \in Int /\ latest \in Int
        /\ \A i \in DOMAIN events : i \in Nat /\ events[i].ledger \in Nat /\ events[i].kind \in Kinds
    BY EventType DEF BotTypeOK
  \* Of a loan with an event in the batch, all that follows is at the cursor or later.
  <2>5. ASSUME NEW i \in batch', NEW j \in EventsOf(events[i].id), i <= j
        PROVE  events[j].ledger >= cursor
    <3>1. i \in DOMAIN events /\ j \in DOMAIN events
      BY <2>2 DEF EventsOf
    <3>2. events[i].ledger <= events[j].ledger
      BY <2>4, <2>5, <3>1 DEF EventsInv, EventsAreOrdered
    <3> QED
      BY <2>2, <2>4, <3>1, <3>2
  <2>6. WillHaveCreated'
    <3> SUFFICES ASSUME NEW i \in DOMAIN events, events[i].kind = "created",
                        events[i].ledger <= latest, events[i].id \in DOMAIN loans,
                        events[i].id \notin DOMAIN db
                 PROVE  batch' \cap EventsOf(events[i].id) # {}
      BY <1>1 DEF WillHaveCreated, Remaining, EventsOf
    <3>1. ~ (events[i].ledger <= synced)
      BY <2>1 DEF AgreesTo, HasCreated
    <3>2. events[i].ledger >= cursor
      BY <2>3, <3>1
    <3>3. i \in batch'
      BY <2>2, <2>4, <3>2
    <3> QED
      BY <3>3 DEF EventsOf
  <2> DEFINE IsGone(id) == \E j \in batch' \cap EventsOf(id) : events[j].kind = "deleted"
             IsGoneLater(id) ==
               \E j \in EventsOf(id) : events[j].kind = "deleted" /\ events[j].ledger > latest
  <2>7. ASSUME NEW id, NEW j \in EventsOf(id), events[j].kind = "deleted",
               events[j].ledger >= cursor
        PROVE  IsGone(id) \/ IsGoneLater(id)
    BY <2>2, <2>7 DEF EventsOf
  <2>8. ASSUME NEW id \in DOMAIN db, id \notin DOMAIN loans
        PROVE  IsGone(id) \/ IsGoneLater(id)
    <3>1. PICK j \in EventsOf(id) : events[j].kind = "deleted" /\ events[j].ledger > synced
      BY <2>1, <2>8 DEF AgreesTo, HasNoDeleted, IsDeletedAfter
    <3>2. events[j].ledger >= cursor
      BY <2>3, <2>4, <3>1 DEF EventsOf
    <3> QED
      BY <2>7, <3>1, <3>2
  <2>9. ASSUME NEW i \in batch', events[i].id \notin DOMAIN loans
        PROVE  IsGone(events[i].id) \/ IsGoneLater(events[i].id)
    <3>1. i \in DOMAIN events
      BY <2>2
    <3>2. PICK j \in EventsOf(events[i].id) : events[j].kind = "deleted"
      BY <2>9, <3>1 DEF EventsInv, GoneAreDeleted
    <3>3. j \in DOMAIN events /\ events[j].id = events[i].id
      BY DEF EventsOf
    <3>4. ~ (j < i)
      BY <3>1, <3>2, <3>3 DEF EventsInv, LivesAreOrdered
    <3>5. events[j].ledger >= cursor
      BY <2>4, <2>5, <3>1, <3>3, <3>4
    <3> QED
      BY <2>7, <3>2, <3>5
  <2>10. /\ \A id : IsGone(id) <=> \E j \in batch' \cap EventsOf(id)' : events'[j].kind = "deleted"
         /\ \A id : IsGoneLater(id) <=>
              \E j \in EventsOf(id)' : events'[j].kind = "deleted" /\ events'[j].ledger > cursor'
    BY <1>1 DEF EventsOf
  <2> HIDE DEF IsGone, IsGoneLater
  <2>11. WillHaveNoDeleted'
    BY <1>1, <2>8, <2>9, <2>10 DEF WillHaveNoDeleted, WillBeDeleted, Remaining, IsDeletedAfter
  <2>12. ASSUME NEW id \in DOMAIN db, batch' \cap EventsOf(id) = {}
         PROVE  HasTermsOf(id, cursor)'
    <3>1. PICK i \in EventsOf(id) :
            events[i].kind # "deleted" /\ IsRecentAt(i, synced) /\ db[id] = ParseLoan(events[i].loan)
      BY <2>1, <2>12 DEF AgreesTo, HasRecentTerms, HasTermsOf
    <3>2. ASSUME NEW j \in EventsOf(id), j > i PROVE events[j].ledger > latest
      <4>1. j \in DOMAIN events /\ j \notin batch' /\ events[i].id = id
        BY <2>12, <3>1 DEF EventsOf
      <4>2. events[j].ledger > synced
        BY <3>1, <3>2, <4>1 DEF IsRecentAt
      <4>3. events[j].ledger >= cursor
        BY <2>3, <2>4, <4>1, <4>2
      <4> QED
        BY <2>2, <4>1, <4>3
    <3> QED
      BY <1>1, <3>1, <3>2 DEF HasTermsOf, IsRecentAt, EventsOf
  <2>13. ASSUME NEW i \in batch', events[i].kind # "deleted", IsLastRemaining(i)'
         PROVE  IsRecentAt(i, cursor)'
    <3> SUFFICES ASSUME NEW j \in EventsOf(events[i].id), j > i
                 PROVE  events[j].ledger > latest
      BY <1>1 DEF IsRecentAt, EventsOf
    <3>1. i \in DOMAIN events /\ j \in DOMAIN events /\ events[j].id = events[i].id
      BY <2>2 DEF EventsOf
    <3>2. events[j].ledger >= cursor
      BY <2>4, <2>5, <3>1
    <3>3. ~ IsProcessedBefore(j, i)
      <4>1. events[j].kind # "created" /\ i < j
        BY <2>4, <3>1 DEF EventsInv, LivesAreOrdered
      <4> QED
        BY <2>4, <2>13, <3>1, <4>1 DEF IsProcessedBefore, IsEarlierKind, Kinds
    <3>4. j # i
      BY <2>4, <3>1
    <3>5. j \notin batch'
      BY <1>1, <2>13, <3>1, <3>3, <3>4 DEF IsLastRemaining, Remaining, IsProcessedBefore, EventsOf
    <3> QED
      BY <2>2, <3>1, <3>2, <3>5
  <2>14. WillHaveRecentTerms'
    BY <1>1, <2>12, <2>13 DEF WillHaveRecentTerms, Remaining, EventsOf
  <2> QED
    BY <1>1, <2>1, <2>6, <2>11, <2>14, AgreementStays DEF WillAgree
<1> QED
  BY <1>1, <1>2 DEF CopyInv, FetchedFromCursor, NothingBetween, FetchedAll, FetchedKinds

-----------------------------------------------------------------------------
(* process_events. *)

\* What one statement does to the table: the row of the event's loan goes or is
\* written, and the others stay.
ProcessesOne(i) ==
  /\ i \in batch /\ batch' = batch \ {i}
  /\ \A j \in batch \ {i} : IsProcessedBefore(i, j)
  /\ synced' = Smaller(synced, events[i].ledger - 1)
  /\ UNCHANGED <<loans, events, cursor, phase, missed>>
  /\ \A id : id # events[i].id =>
       (id \in DOMAIN db' <=> id \in DOMAIN db) /\ (id \in DOMAIN db => db'[id] = db[id])
  /\ events[i].kind = "deleted" => events[i].id \notin DOMAIN db'
  /\ events[i].kind # "deleted" =>
       events[i].id \in DOMAIN db' /\ db'[events[i].id] = ParseLoan(events[i].loan)

\* Processing an event is one such statement.
LEMMA ProcessEventParts ==
  ASSUME BotTypeOK, EventsInv, UNCHANGED chainVars, ProcessEvent
  PROVE  \E i \in batch : ProcessesOne(i)
<1>1. PICK i \in batch :
        /\ \A j \in batch \ {i} : IsProcessedBefore(i, j)
        /\ db' = IF events[i].kind = "deleted" THEN DeleteLoanFromDb(ParseLoanId(events[i].id))
                 ELSE SaveLoan(ParseLoanId(events[i].id), ParseLoan(events[i].loan))
        /\ batch' = batch \ {i}
        /\ synced' = Smaller(synced, events[i].ledger - 1)
  BY DEF ProcessEvent
<1>2. ParseLoanId(events[i].id) = events[i].id
  BY ParsedId DEF BotTypeOK, EventsInv
<1>3. UNCHANGED <<loans, events, cursor, phase, missed>>
  BY DEF ProcessEvent, chainVars, bookVars
<1> DEFINE id == events[i].id
<1>4. CASE events[i].kind = "deleted"
  BY <1>1, <1>2, <1>3, <1>4 DEF ProcessesOne, DeleteLoanFromDb
<1>5. CASE events[i].kind # "deleted"
  BY <1>1, <1>2, <1>3, <1>5 DEF ProcessesOne, SaveLoan
<1> QED
  BY <1>4, <1>5

\* An event's loan has all later events in the same ledger or a later one, is
\* deleted by one of them if it is gone, and is gone if the event deleted it.
LEMMA EventsAfter ==
  ASSUME BotTypeOK, EventsInv, NEW i \in DOMAIN events, NEW c \in Int, c < events[i].ledger
  PROVE  /\ IsRecentAt(i, c)
         /\ events[i].id \in DOMAIN loans \/ IsDeletedAfter(events[i].id, c)
         /\ events[i].kind = "deleted" => events[i].id \notin DOMAIN loans
<1>1. \A j \in DOMAIN events : j \in Nat /\ events[j].ledger \in Nat
  BY EventType
<1>2. \A j \in DOMAIN events : j >= i => events[j].ledger > c
  <2> SUFFICES ASSUME NEW j \in DOMAIN events, j >= i PROVE events[j].ledger > c
    OBVIOUS
  <2>1. events[i].ledger <= events[j].ledger
    BY <1>1 DEF EventsInv, EventsAreOrdered
  <2> QED
    BY <1>1, <2>1
<1>3. IsRecentAt(i, c)
  BY <1>1, <1>2 DEF IsRecentAt, EventsOf
<1>4. ASSUME events[i].id \notin DOMAIN loans PROVE IsDeletedAfter(events[i].id, c)
  <2>1. PICK j \in EventsOf(events[i].id) : events[j].kind = "deleted"
    BY <1>4 DEF EventsInv, GoneAreDeleted
  <2>2. j \in DOMAIN events /\ events[j].id = events[i].id
    BY DEF EventsOf
  <2>3. ~ (j < i)
    BY <2>1, <2>2 DEF EventsInv, LivesAreOrdered
  <2>4. events[j].ledger > c
    BY <1>1, <1>2, <2>2, <2>3
  <2> QED
    BY <2>1, <2>4 DEF IsDeletedAfter
<1> QED
  BY <1>3, <1>4 DEF EventsInv, DeletedAreGone

\* While the batch is processed the table agrees up to the ledger before the
\* oldest of the events that were delivered again.
LEMMA ProcessAgrees ==
  ASSUME BotTypeOK, EventsInv, AgreesTo(synced), NEW i \in batch, ProcessesOne(i)
  PROVE  AgreesTo(synced)'
<1>1. /\ i \in DOMAIN events /\ synced \in Int
      /\ \A j \in DOMAIN events : events[j].ledger \in Nat
  BY EventType DEF BotTypeOK
<1>2. PICK c \in Int : c = synced'
  BY <1>1 DEF ProcessesOne, Smaller
<1>3. c <= synced /\ c < events[i].ledger
  BY <1>1, <1>2 DEF ProcessesOne, Smaller
<1>4. \A j \in DOMAIN events :
        /\ events[j].ledger <= c => events[j].ledger <= synced
        /\ events[j].ledger > synced => events[j].ledger > c
  BY <1>1, <1>3
<1>5. /\ IsRecentAt(i, c)
      /\ events[i].id \in DOMAIN loans \/ IsDeletedAfter(events[i].id, c)
      /\ events[i].kind = "deleted" => events[i].id \notin DOMAIN loans
  BY <1>1, <1>3, EventsAfter
<1>6. /\ \A id : IsDeletedAfter(id, synced) => IsDeletedAfter(id, c)
      /\ \A j \in DOMAIN events : IsRecentAt(j, synced) => IsRecentAt(j, c)
  BY <1>4 DEF IsDeletedAfter, IsRecentAt, EventsOf
<1>7. UNCHANGED <<loans, events>>
  BY DEF ProcessesOne
<1>8. HasCreated(synced)'
  BY <1>2, <1>4, <1>5, <1>7 DEF AgreesTo, HasCreated, ProcessesOne
<1>9. \A id \in DOMAIN db' : id \in DOMAIN loans \/ IsDeletedAfter(id, c)
  BY <1>5, <1>6 DEF AgreesTo, HasNoDeleted, ProcessesOne
<1>10. HasNoDeleted(synced)'
  BY <1>2, <1>7, <1>9 DEF HasNoDeleted, IsDeletedAfter, EventsOf
<1>11. ASSUME NEW id \in DOMAIN db'
       PROVE  \E j \in EventsOf(id) :
                events[j].kind # "deleted" /\ IsRecentAt(j, c) /\ db'[id] = ParseLoan(events[j].loan)
  <2>1. CASE id = events[i].id
    BY <1>1, <1>5, <2>1 DEF ProcessesOne, EventsOf
  <2>2. CASE id # events[i].id
    <3>1. id \in DOMAIN db /\ db'[id] = db[id]
      BY <2>2 DEF ProcessesOne
    <3>2. HasTermsOf(id, synced)
      BY <3>1 DEF AgreesTo, HasRecentTerms
    <3> QED
      BY <1>6, <3>1, <3>2 DEF HasTermsOf, EventsOf
  <2> QED
    BY <2>1, <2>2
<1>12. HasRecentTerms(synced)'
  BY <1>2, <1>7, <1>11 DEF HasRecentTerms, HasTermsOf, IsRecentAt, EventsOf
<1> QED
  BY <1>8, <1>10, <1>12 DEF AgreesTo

\* And what is left of the batch is as good with the row as it is now.
LEMMA ProcessLeaves ==
  ASSUME BotTypeOK, EventsInv, WillAgree, NEW i \in batch, ProcessesOne(i)
  PROVE  WillAgree'
<1>1. /\ batch \subseteq DOMAIN events /\ i \in DOMAIN events
      /\ \A j \in DOMAIN events : events[j].kind \in Kinds /\ j \in Nat
  BY EventType DEF BotTypeOK
<1>2. /\ batch' = batch \ {i} /\ \A j \in batch \ {i} : IsProcessedBefore(i, j)
      /\ UNCHANGED <<loans, events, cursor>>
  BY DEF ProcessesOne
<1>3. events[i].kind = "deleted" => events[i].id \notin DOMAIN loans
  BY <1>1 DEF EventsInv, DeletedAreGone
<1>4. \A j \in batch' : events[i].kind = "deleted" => events[j].kind = "deleted"
  BY <1>1, <1>2 DEF IsProcessedBefore, IsEarlierKind, Kinds
<1> DEFINE Rest(id)   == batch' \cap EventsOf(id)
           IsGone(id) == \E j \in Rest(id) : events[j].kind = "deleted"
<1>5. ASSUME NEW k \in DOMAIN events, events[k].kind = "created", events[k].ledger <= cursor,
             events[k].id \in DOMAIN loans
      PROVE  events[k].id \in DOMAIN db' \/ Rest(events[k].id) # {}
  <2>1. CASE events[k].id = events[i].id
    BY <1>3, <1>5, <2>1 DEF ProcessesOne
  <2>2. CASE events[k].id # events[i].id
    <3>1. Remaining(events[k].id) = Rest(events[k].id)
      BY <1>2, <2>2 DEF Remaining, EventsOf
    <3> QED
      BY <1>5, <2>2, <3>1 DEF WillAgree, WillHaveCreated, ProcessesOne
  <2> QED
    BY <2>1, <2>2
<1>6. ASSUME NEW k \in batch', ~ IsGone(events[k].id)
      PROVE  events[k].id \in DOMAIN loans \/ IsDeletedAfter(events[k].id, cursor)
  <2>1. k \in batch /\ k \in DOMAIN events /\ k \in Rest(events[k].id)
    BY <1>1, <1>2 DEF EventsOf
  <2>2. ~ WillBeDeleted(events[k].id)
    BY <1>2, <1>4, <1>6, <2>1 DEF WillBeDeleted, Remaining, EventsOf
  <2> QED
    BY <2>1, <2>2 DEF WillAgree, WillHaveNoDeleted
<1>7. ASSUME NEW id \in DOMAIN db', ~ IsGone(id)
      PROVE  id \in DOMAIN loans \/ IsDeletedAfter(id, cursor)
  <2>1. CASE id = events[i].id
    <3>1. events[i].kind # "deleted"
      BY <2>1 DEF ProcessesOne
    <3>2. ~ WillBeDeleted(id)
      BY <1>2, <1>7, <3>1 DEF WillBeDeleted, Remaining
    <3> QED
      BY <2>1, <3>2 DEF WillAgree, WillHaveNoDeleted
  <2>2. CASE id # events[i].id
    <3>1. id \in DOMAIN db /\ ~ WillBeDeleted(id)
      BY <1>2, <1>7, <2>2 DEF WillBeDeleted, Remaining, EventsOf, ProcessesOne
    <3> QED
      BY <3>1 DEF WillAgree, WillHaveNoDeleted
  <2> QED
    BY <2>1, <2>2
<1>8. ASSUME NEW k \in batch', events[k].kind # "deleted",
             \A j \in Rest(events[k].id) : j # k => IsProcessedBefore(j, k)
      PROVE  IsRecentAt(k, cursor)
  <2>1. IsLastRemaining(k) /\ k \in batch
    BY <1>2, <1>8 DEF IsLastRemaining, Remaining
  <2> QED
    BY <1>8, <2>1 DEF WillAgree, WillHaveRecentTerms
<1>9. ASSUME NEW id \in DOMAIN db', Rest(id) = {}
      PROVE  \E j \in EventsOf(id) :
               /\ events[j].kind # "deleted" /\ IsRecentAt(j, cursor)
               /\ db'[id] = ParseLoan(events[j].loan)
  <2>1. CASE id = events[i].id
    <3>1. /\ events[i].kind # "deleted" /\ db'[id] = ParseLoan(events[i].loan)
          /\ i \in EventsOf(id)
      BY <1>1, <2>1 DEF ProcessesOne, EventsOf
    <3>2. IsLastRemaining(i)
      BY <1>2, <1>9, <2>1 DEF IsLastRemaining, Remaining
    <3>3. IsRecentAt(i, cursor)
      BY <3>1, <3>2 DEF WillAgree, WillHaveRecentTerms
    <3> QED
      BY <3>1, <3>3
  <2>2. CASE id # events[i].id
    <3>1. id \in DOMAIN db /\ db'[id] = db[id] /\ Remaining(id) = {}
      BY <1>2, <1>9, <2>2 DEF Remaining, EventsOf, ProcessesOne
    <3> QED
      BY <3>1 DEF WillAgree, WillHaveRecentTerms, HasTermsOf
  <2> QED
    BY <2>1, <2>2
<1>10. WillHaveCreated'
  BY <1>2, <1>5 DEF WillHaveCreated, Remaining, EventsOf
<1>11. WillHaveNoDeleted'
  BY <1>2, <1>6, <1>7 DEF WillHaveNoDeleted, WillBeDeleted, Remaining, IsDeletedAfter, EventsOf
<1>12. WillHaveRecentTerms'
  BY <1>2, <1>8, <1>9 DEF WillHaveRecentTerms, Remaining, IsLastRemaining, HasTermsOf, IsRecentAt,
     EventsOf, IsProcessedBefore
<1> QED
  BY <1>10, <1>11, <1>12 DEF WillAgree

\* Processing an event keeps what is known of the copy.
LEMMA ProcessCopy ==
  ASSUME BotTypeOK, EventsInv, FetchedFromCursor, CopyInv, UNCHANGED chainVars, ProcessEvent
  PROVE  FetchedFromCursor' /\ CopyInv'
<1>1. PICK i \in batch : ProcessesOne(i)
  BY ProcessEventParts
<1>2. phase' = "process" /\ phase = "process" /\ missed' = missed
  BY DEF ProcessEvent
<1>3. ASSUME ~missed' PROVE AgreesTo(synced)' /\ WillAgree'
  BY <1>1, <1>2, <1>3, ProcessAgrees, ProcessLeaves DEF CopyInv
<1> QED
  BY <1>2, <1>3 DEF CopyInv, FetchedFromCursor, NothingBetween, FetchedAll, FetchedKinds

\* When the batch is through the table agrees up to the cursor.
LEMMA FinishEventsCopy ==
  ASSUME BotTypeOK, FetchedFromCursor, CopyInv, UNCHANGED chainVars, FinishEvents
  PROVE  FetchedFromCursor' /\ CopyInv'
<1>1. /\ phase = "process" /\ phase' = "prices" /\ batch = {} /\ synced' = cursor
      /\ UNCHANGED <<loans, events, db, cursor, missed>>
  BY DEF FinishEvents, chainVars, bookVars, tables
<1>2. ASSUME WillAgree PROVE AgreesTo(cursor)
  <2>1. \A id : Remaining(id) = {} /\ ~ WillBeDeleted(id)
    BY <1>1 DEF Remaining, WillBeDeleted
  <2> QED
    BY <1>2, <2>1 DEF WillAgree, WillHaveCreated, WillHaveNoDeleted, WillHaveRecentTerms,
       AgreesTo, HasCreated, HasNoDeleted, HasRecentTerms
<1>3. ASSUME ~missed' PROVE AgreesTo(synced)'
  BY <1>1, <1>2, <1>3 DEF CopyInv, AgreesTo, HasCreated, HasNoDeleted, HasRecentTerms, HasTermsOf,
     IsDeletedAfter, IsRecentAt, EventsOf
<1> QED
  BY <1>1, <1>3 DEF CopyInv, FetchedFromCursor, NothingBetween, FetchedAll, FetchedKinds

-----------------------------------------------------------------------------
(* The rest of the loop, and the process's start and end. *)

\* A started bot has missed events if there are some between what its table
\* agrees to and where it starts.
LEMMA RestartCopy ==
  ASSUME BotTypeOK, FetchedFromCursor, CopyInv, UNCHANGED chainVars, Restart
  PROVE  FetchedFromCursor' /\ CopyInv'
<1>1. /\ phase' = "created" /\ cursor' = Start /\ UNCHANGED <<loans, events, db, synced>>
      /\ ~missed' => /\ ~missed
                     /\ ~ \E i \in DOMAIN events : events[i].ledger \in (synced + 1) .. (Start - 1)
  BY DEF Restart, chainVars, bookVars, tables
<1>2. \A i \in DOMAIN events : events[i].ledger \in Nat
  BY EventType
<1>3. synced \in Int /\ Start \in Int
  BY BoundsAssumption DEF BotTypeOK, Start, Closed
<1>4. ASSUME ~missed' PROVE AgreesTo(synced)'
  BY <1>1, <1>4, AgreementStays DEF CopyInv
<1>5. ASSUME ~missed' PROVE NothingBetween'
  BY <1>1, <1>2, <1>3, <1>5 DEF NothingBetween
<1> QED
  BY <1>1, <1>4, <1>5 DEF CopyInv, FetchedFromCursor, FetchedAll, FetchedKinds

\* The end of the process leaves the table.
LEMMA DieCopy ==
  ASSUME CopyInv, UNCHANGED chainVars, Die
  PROVE  FetchedFromCursor' /\ CopyInv'
<1>1. phase' = "down" /\ UNCHANGED <<loans, events, db, synced, missed>>
  BY DEF Die, chainVars, bookVars, tables, history
<1>2. ASSUME ~missed' PROVE AgreesTo(synced)'
  BY <1>1, <1>2, AgreementStays DEF CopyInv
<1> QED
  BY <1>1, <1>2 DEF CopyInv, FetchedFromCursor, NothingBetween, FetchedAll, FetchedKinds

\* The rounds over prices and loans leave the table.
LEMMA RoundCopy ==
  ASSUME BotTypeOK, CopyInv, UNCHANGED chainVars,
         \/ \E p \in toPrice : FetchPrice(p)
         \/ FinishPrices
         \/ \E id \in todo : Skip(id) \/ Attempt(id)
         \/ FinishLoans \/ AttemptFails
         \/ \E isQueued \in BOOLEAN : Send(isQueued)
         \/ WaitSuccess
  PROVE  FetchedFromCursor' /\ CopyInv'
<1>1. /\ UNCHANGED <<loans, events, db, cursor, synced, missed>>
      /\ phase \in {"prices", "find", "attempt", "wait"}
      /\ phase' \in {"prices", "find", "attempt", "wait", "created"}
  BY DEF FetchPrice, FinishPrices, Skip, Attempt, FinishLoans, AttemptFails, Send, WaitSuccess,
     chainVars, bookVars, loopVars, tables, history
<1>2. /\ cursor \in Int /\ \A i \in DOMAIN events : events[i].ledger \in Nat
  BY EventType DEF BotTypeOK
<1>3. ASSUME ~missed' PROVE AgreesTo(synced)' /\ synced' = cursor'
  BY <1>1, <1>3, AgreementStays DEF CopyInv
<1>4. ASSUME ~missed' PROVE NothingBetween'
  BY <1>1, <1>2, <1>3, <1>4 DEF NothingBetween
<1> QED
  BY <1>1, <1>3, <1>4 DEF CopyInv, FetchedFromCursor, FetchedAll, FetchedKinds

\* The bot's own steps.
LEMMA BotMovesCopy ==
  ASSUME BotTypeOK, EventsInv, LoopInv, FetchedFromCursor, CopyInv, BotMoves
  PROVE  FetchedFromCursor' /\ CopyInv'
<1>1. UNCHANGED chainVars
  BY DEF BotMoves
<1>2. CASE Crash \/ \E id \in todo : Panic(id)
  BY <1>1, <1>2, DieCopy DEF Crash, Panic
<1>3. CASE FetchCreated \/ FetchUpdated \/ FetchDeleted
  BY <1>1, <1>3, FetchCreatedCopy, FetchUpdatedCopy, FetchDeletedCopy
<1>4. CASE ProcessEvent
  BY <1>1, <1>4, ProcessCopy
<1>5. CASE FinishEvents
  BY <1>1, <1>5, FinishEventsCopy
<1>6. CASE Restart
  BY <1>1, <1>6, RestartCopy
<1>7. CASE \/ \E p \in toPrice : FetchPrice(p)
           \/ FinishPrices
           \/ \E id \in todo : Skip(id) \/ Attempt(id)
           \/ FinishLoans \/ AttemptFails
           \/ \E isQueued \in BOOLEAN : Send(isQueued)
           \/ WaitSuccess
  BY <1>1, <1>7, RoundCopy
<1> QED
  BY <1>2, <1>3, <1>4, <1>5, <1>6, <1>7 DEF BotMoves, BotStep

\* The prices the next loans need have been fetched, or will be.
LEMMA BotMovesPrices ==
  ASSUME BotTypeOK, LoopInv, PricesInv, BotMoves
  PROVE  PricesInv'
<1>1. todo \subseteq DOMAIN db /\ phase \notin {"find", "attempt", "wait"} => todo = {}
  BY DEF BotTypeOK, LoopInv
<1>2. CASE Crash \/ \E id \in todo : Panic(id)
  BY <1>2 DEF Crash, Panic, Die, PricesInv
<1>3. CASE FetchCreated \/ FetchUpdated \/ FetchDeleted \/ ProcessEvent \/ Restart
  <2>1. phase \in {"created", "updated", "deleted", "process", "down"}
    BY <1>3 DEF FetchCreated, FetchUpdated, FetchDeleted, ProcessEvent, Restart
  <2>2. phase' # "prices" /\ todo' = todo
    BY <1>3 DEF FetchCreated, FetchUpdated, FetchDeleted, ProcessEvent, Restart
  <2> QED
    BY <1>1, <2>1, <2>2 DEF PricesInv, LoopInv
<1>4. CASE FinishEvents
  <2>1. /\ phase = "process" /\ UNCHANGED <<todo, db>>
        /\ toPrice' = {db[id].from : id \in DOMAIN db} \cup {db[id].collateralFrom : id \in DOMAIN db}
    BY <1>4 DEF FinishEvents, UniquePoolsInUse, tables
  <2>2. todo = {}
    BY <2>1 DEF LoopInv
  <2> QED
    BY <2>1, <2>2 DEF PricesInv, PoolsOf
<1>5. ASSUME NEW p \in toPrice, FetchPrice(p) PROVE PricesInv'
  <2>1. /\ phase = "prices" /\ UNCHANGED <<phase, todo, db>> /\ toPrice' = toPrice \ {p}
        /\ p \in KnownPools => DOMAIN prices' = DOMAIN prices \cup {p}
        /\ p \notin KnownPools => prices' = prices
    BY <1>5 DEF FetchPrice, SavePrice
  <2>2. todo = {}
    BY <2>1 DEF LoopInv
  <2> QED
    BY <2>1, <2>2 DEF PricesInv, PoolsOf
<1>6. CASE FinishPrices
  BY <1>6 DEF FinishPrices, PricesInv, PoolsOf, tables
<1>7. CASE \/ \E id \in todo : Skip(id) \/ Attempt(id)
           \/ FinishLoans \/ AttemptFails
           \/ \E isQueued \in BOOLEAN : Send(isQueued)
           \/ WaitSuccess
  <2>1. UNCHANGED <<db, prices>> /\ todo' \subseteq todo /\ phase' # "prices"
    BY <1>7 DEF Skip, Attempt, FinishLoans, AttemptFails, Send, WaitSuccess, loopVars, tables
  <2> QED
    BY <2>1 DEF PricesInv, PoolsOf
<1> QED
  BY <1>2, <1>3, <1>4, <1>5, <1>6, <1>7 DEF BotMoves, BotStep

\* The invariant, over every step.
LEMMA BotInvStep ==
  ASSUME BotInv, [BotNext]_vars
  PROVE  BotInv'
<1>1. BotTypeOK /\ EventsInv /\ LoopInv /\ FetchedFromCursor /\ CopyInv /\ PricesInv
  BY DEF BotInv
<1>2. BotTypeOK' /\ EventsInv' /\ LoopInv'
  BY <1>1, BotTypeStep
<1>3. CASE ChainMoves \/ ClockMoves
  <2>1. BotStays
    BY <1>3 DEF ChainMoves, ClockMoves
  <2> QED
    BY <1>1, <1>2, <1>3, <2>1, ChainGoesOn, ChainKeepsCopy DEF BotInv
<1>4. CASE BotMoves
  BY <1>1, <1>2, <1>4, BotMovesCopy, BotMovesPrices DEF BotInv
<1> QED
  BY <1>3, <1>4, BotStepKinds

\* At the start there is nothing to agree about.
LEMMA BotInvInit ==
  ASSUME BotInit
  PROVE  BotInv
<1>1. /\ DOMAIN events = {} /\ DOMAIN db = {} /\ batch = {} /\ todo = {} /\ phase = "down"
  BY DEF BotInit
<1>2. FetchedFromCursor /\ CopyInv /\ PricesInv
  BY <1>1 DEF FetchedFromCursor, CopyInv, PricesInv, AgreesTo, HasCreated, HasNoDeleted,
     HasRecentTerms, NothingBetween, FetchedAll
<1> QED
  BY <1>2, BotTypeInit DEF BotInv

\* The invariant, over every behaviour.
LEMMA BotInvHolds == BotSpec => []BotInv
BY BotInvInit, BotInvStep, BotSteps, PTL

-----------------------------------------------------------------------------
(* What the copy is for. *)

\* Whenever the bot looks for loans, its table is the book of loans as it was at
\* the cursor, or fresher, however the queries, the chain, the deliveries and
\* the process's deaths fell.
THEOREM DatabaseStaysBook == BotSpec => []DatabaseIsBook
<1>1. ASSUME BotInv PROVE DatabaseIsBook
  <2> SUFFICES ASSUME phase = "find", ~missed
               PROVE  NoLoanIsMissing /\ NoGhosts /\ TermsAreRecent
    BY DEF DatabaseIsBook
  <2>1. AgreesTo(cursor) /\ BotTypeOK /\ EventsHaveTerms
    BY <1>1 DEF BotInv, CopyInv, EventsInv
  <2>2. NoLoanIsMissing
    BY <2>1 DEF AgreesTo, HasCreated, NoLoanIsMissing, IsCreatedByCursor, EventsOf
  <2>3. NoGhosts
    BY <2>1 DEF AgreesTo, HasNoDeleted, IsDeletedAfter, NoGhosts, IsDeletedLater
  <2>4. ASSUME NEW id \in DOMAIN db
        PROVE  \E i \in EventsOf(id) :
                 /\ IsRecent(i)
                 /\ events[i].kind # "deleted"
                 /\ Fits(events[i].loan) => db[id] = events[i].loan
    <3>1. PICK i \in EventsOf(id) : /\ events[i].kind # "deleted" /\ IsRecentAt(i, cursor)
                                    /\ db[id] = ParseLoan(events[i].loan)
      BY <2>1, <2>4 DEF AgreesTo, HasRecentTerms, HasTermsOf
    <3>2. events[i].loan \in Loans
      BY <2>1, <3>1 DEF EventsHaveTerms, EventsOf
    <3>3. Fits(events[i].loan) => ParseLoan(events[i].loan) = events[i].loan
      BY <3>2, ParsedLoan
    <3>4. IsRecent(i)
      BY <3>1 DEF IsRecent, IsRecentAt
    <3> QED
      BY <3>1, <3>3, <3>4
  <2> QED
    BY <2>2, <2>3, <2>4 DEF TermsAreRecent
<1> QED
  BY <1>1, BotInvHolds, PTL

\* Whenever the bot judges a loan, it has the prices of those of the loan's pools
\* that it knows, whatever round and process wrote them.
THEOREM PricesStayFetched == BotSpec => []PricesAreFetched
<1>1. BotInv => PricesAreFetched
  BY DEF BotInv, PricesInv, PricesAreFetched, PoolsOf
<1> QED
  BY <1>1, BotInvHolds, PTL

\* A third of a debt of more than three units is within the manager's bounds,
\* until the debt has doubled.
LEMMA ThirdIsWithinBounds ==
  ASSUME NEW b \in Nat, b > 3, NEW debt \in b .. 2 * b
  PROVE  IsWithinBounds(TruncDiv(b, 3), debt)
<1>1. TruncDiv(b, 3) = b \div 3 /\ TruncDiv(debt, 2) = debt \div 2
      /\ TruncDiv(debt, 100) = debt \div 100
  BY DEF TruncDiv, Magnitude
<1>2. b \div 3 < debt \div 2 /\ b \div 3 > debt \div 100
  OBVIOUS
<1> QED
  BY <1>1, <1>2 DEF IsWithinBounds

\* What the bot offers for a loan that was not written since its events were
\* fetched is within the manager's bounds.
THEOREM OffersStayWithinBounds == BotSpec => []OffersAreWithinBounds
<1>1. ASSUME BotInv PROVE OffersAreWithinBounds
  <2> SUFFICES ASSUME phase = "attempt", ~missed, current \in DOMAIN loans,
                      ~ IsWrittenLater(current), Fits(loans[current]),
                      loans[current].borrowed > 3,
                      NEW debt \in loans[current].borrowed .. 2 * loans[current].borrowed
               PROVE  IsWithinBounds(Offer(db[current]), debt)
    BY DEF OffersAreWithinBounds
  <2>1. /\ AgreesTo(cursor) /\ BotTypeOK /\ EventsInv /\ current \in DOMAIN db
    BY <1>1 DEF BotInv, CopyInv, LoopInv
  <2>2. PICK i \in EventsOf(current) : /\ events[i].kind # "deleted" /\ IsRecentAt(i, cursor)
                                       /\ db[current] = ParseLoan(events[i].loan)
    BY <2>1 DEF AgreesTo, HasRecentTerms, HasTermsOf
  <2>3. i \in DOMAIN events /\ events[i].id = current /\ \A j \in DOMAIN events : j \in Nat
    BY <2>1, EventType DEF EventsOf
  <2>4. \A j \in EventsOf(current) : ~ (j > i)
    BY <2>2, <2>3 DEF IsRecentAt, IsWrittenLater
  <2>5. \A j \in EventsOf(current) : j <= i
    BY <2>3, <2>4 DEF EventsOf
  <2>6. loans[current] = events[i].loan
    BY <2>1, <2>3, <2>5 DEF EventsInv, LastIsInBook
  <2>7. events[i].loan \in Loans /\ loans[current].borrowed \in Nat
    BY <2>1, <2>2, <2>3, <2>6, LoansAssumption DEF EventsInv, EventsHaveTerms
  <2>8. db[current] = loans[current]
    BY <2>2, <2>6, <2>7, ParsedLoan
  <2> QED
    BY <2>7, <2>8, ThirdIsWithinBounds DEF Offer
<1> QED
  BY <1>1, BotInvHolds, PTL

=============================================================================
