--------------------------- MODULE SessionSafety ---------------------------
(***************************************************************************)
(* What the dApp shows its user, and what becomes of a click.              *)
(***************************************************************************)
EXTENDS DappSession

\* Beside the connected account nothing of another is shown but what a change
\* of wallet left under way: disconnectWallet and loadWallet cancel no request,
\* and whatever else of a former session was shown, or is asked for later, is
\* gone (wallet-context.tsx:196-201, the effect in LoansProvider).
OnlyOwnDataIsShown ==
  /\ {balances, positions} \subseteq {wallet, NoUser} \cup strays
  /\ loans \in {wallet, "loading", "none"} \cup strays

\* A session whose last connect or disconnect met nothing else under way, and of
\* which no request failed, ends with all that is shown and the clients' key
\* the connected wallet's, and is stored to be connected again: whatever the
\* sessions before it left on the screen and in the clients, and in whatever
\* order its loading, its transactions and its refetches were answered.  It
\* says whose data is shown, not how old it is.
IsSettled == tasks = EmptyBag /\ clean

SettledIsConsistent ==
  IsSettled =>
    IF wallet = NoUser THEN {balances, positions} = {NoUser} /\ loans = "loading"
    ELSE {balances, positions, loans, publicKey} = {wallet} /\ stored

\* The outcome a form shows is that of its own last click: there is one
\* transaction at a time whose end the form will show, and it says so.
Awaited(f) == {t \in At("simulate") \cup At("send") : t.form = f /\ t.mounted}

OutcomesBelong ==
  \A f \in Forms :
    Awaited(f) # {} => /\ form[f] = "waiting"
                       /\ Cardinality(Awaited(f)) = 1
                       /\ \A t \in Awaited(f) : tasks[t] = 1

\* The list of loans does not load for ever, its request having failed or not.
LoansEndLoading == loans = "loading" ~> loans # "loading" \/ wallet = NoUser

\* A form that waits ends waiting, with an outcome or closed; the borrow form
\* also when its simulation fails.  The handlers of the other forms await the
\* simulation outside their try and leave the form waiting: IsForsaken.
IsForsaken(f) == form[f] = "waiting" /\ Awaited(f) = {} /\ f # "borrow"

FormsEndWaiting ==
  \A f \in Forms : form[f] = "waiting" ~> form[f] # "waiting" \/ IsForsaken(f)

\* The pools shown are those on chain in the end, although the polls overlap
\* and their answers come in any order; unless the page is reloaded for ever.
PoolsConverge == []<><<Reload>>_vars \/ <>[](pools = version)

-----------------------------------------------------------------------------

\* "use the user's wallet for all of our contract clients."
\* (src/contexts/wallet-context.tsx:160): a transaction is built by a client
\* that has the key of the user it is for.  The key is set at the end of
\* loadWallet, after the wallet and its balances are shown.
ClientsUseWallet ==
  \A t \in At("simulate") : t.key = t.user

=============================================================================
