----------------------------- MODULE BotSafety -----------------------------
(***************************************************************************)
(* What the liquidation bot's copy of the loans, and its loop, are for.    *)
(***************************************************************************)
EXTENDS LiquidationBot

Fits(loan) == loan.borrowed < HALF /\ loan.collateral < HALF

EventsOf(id) == {i \in DOMAIN events : events[i].id = id}

\* The last of a loan's events up to the cursor, or one after the cursor.
IsRecent(i) ==
  \A j \in EventsOf(events[i].id) : j > i => events[j].ledger > cursor

IsDeletedLater(id) ==
  \E i \in EventsOf(id) : events[i].kind = "deleted" /\ events[i].ledger > cursor

IsCreatedByCursor(id) ==
  \E i \in EventsOf(id) : events[i].kind = "created" /\ events[i].ledger <= cursor

\* Whenever the bot looks for loans to liquidate, and it has not missed events
\* by staying away too long or by an answer that was cut, its table is the
\* book of loans as it was at the cursor, or fresher: no loan is missing, none
\* is there that was closed by then, and none has terms that were replaced by
\* then or, when they fit in its columns, others than were published.  The three
\* queries are answered at different times, events are delivered again, and the
\* process may have died anywhere before.
NoLoanIsMissing ==
  \A id \in DOMAIN loans : IsCreatedByCursor(id) => id \in DOMAIN db

NoGhosts ==
  \A id \in DOMAIN db : id \in DOMAIN loans \/ IsDeletedLater(id)

TermsAreRecent ==
  \A id \in DOMAIN db : \E i \in EventsOf(id) :
    /\ IsRecent(i)
    /\ events[i].kind # "deleted"
    /\ Fits(events[i].loan) => db[id] = events[i].loan

DatabaseIsBook ==
  phase = "find" /\ ~missed => NoLoanIsMissing /\ NoGhosts /\ TermsAreRecent

\* What the bot offers for a loan is within the manager's bounds for its debt
\* when the transaction is sent, with interest up to twice of what was last
\* written of it: the attempt cannot fail for its amount, unless the loan was
\* written after the events were fetched, or events were missed, or its debt is
\* three units or less, of which a third is nothing or a half.
IsWrittenLater(id) == \E i \in EventsOf(id) : events[i].ledger > cursor

OffersAreWithinBounds ==
  phase = "attempt" /\ ~missed /\ current \in DOMAIN loans /\ ~IsWrittenLater(current)
      /\ Fits(loans[current]) /\ loans[current].borrowed > 3
    => \A debt \in loans[current].borrowed .. 2 * loans[current].borrowed :
         IsWithinBounds(Offer(db[current]), debt)

\* Whenever the bot is about to judge a loan, it has a price for each pool of
\* the loan that it knows, in whatever round and process the loan's row and the
\* price's were written: of such a loan it never panics.
PricesAreFetched ==
  phase = "find" =>
    \A id \in todo : {db[id].from, db[id].collateralFrom} \cap KnownPools \subseteq DOMAIN prices

\* A loan that is unhealthy by its published terms and the oracle's prices is
\* attempted, unless the process ends, has missed events, or waits for a
\* transaction the network did not queue: one loan's failure, an early answer
\* or a late event does not keep the bot from another loan for ever.
NeedsLiquidation(id) == id \in DOMAIN loans /\ IsUnhealthy(loans[id], twap)

IsAttempted(id) == phase \in {"attempt", "wait"} /\ current = id

WaitsInVain == phase = "wait" /\ status = "NotFound" /\ ~ \E tx \in queued : tx.awaited

UnhealthyIsAttempted ==
  \A id \in Borrowers \X (1 .. MaxLoans) :
    NeedsLiquidation(id) ~>
      \/ IsAttempted(id)
      \/ ~NeedsLiquidation(id)
      \/ phase = "down" \/ missed \/ WaitsInVain

-----------------------------------------------------------------------------
(* What the bot's comments and messages say, and the code does not do. *)

\* "Continue processing other loans instead of crashing the bot"
\* (liquidation-bot/src/bin/liquidation_bot.rs:421): the attempt at one loan
\* ends, whatever becomes of it.
AttemptsEnd == phase = "wait" ~> phase # "wait"

=============================================================================
