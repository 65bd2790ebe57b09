---------------------------- MODULE DappSession ----------------------------
(***************************************************************************)
(* The dApp in one browser tab: the wallet, loan and pool contexts         *)
(* (src/contexts) and the forms that send transactions (src/pages,         *)
(* src/components).  A handler runs up to its next await and leaves the    *)
(* rest of itself behind as a task; the answers to tasks arrive in any     *)
(* order, or are errors, and meanwhile the user goes on.                   *)
(*                                                                         *)
(* What is shown is modelled by whose it is, and the state of the pools by *)
(* a version; the prices are fetched and shown as the pools are.           *)
(***************************************************************************)
EXTENDS Naturals, FiniteSets, Bags

CONSTANTS
  Users,      \* the accounts in the user's wallet
  NoUser,
  Forms,      \* the forms that are used, of AllForms
  MaxTasks,   \* bound on tasks: the user does nothing more with so many
  MaxPolls,   \* bound on requests for the pools at one time
  MaxVersion  \* bound on the changes of the pools

AllForms == {"deposit", "withdraw", "borrow", "repay"}

ASSUME SessionAssumption ==
  /\ NoUser \notin Users
  /\ Forms \subseteq AllForms
  /\ MaxTasks \in Nat
  /\ MaxPolls \in Nat
  /\ MaxVersion \in Nat \ {0}

VARIABLES
  page,
  wallet, balances, positions, \* WalletProvider: whose they are, or NoUser
  publicKey,  \* the account the contract clients name as the source
  stored,     \* whether the browser has a wallet-state to connect again from
  loans,      \* LoansProvider: whose they are, "loading" (null) or "none" ([])
  pools,      \* PoolProvider: the version shown, 0 for none
  version,    \* the version of the pools on chain
  feed,       \* bag of requests for the pools: 0, or the version that answers it
  form,       \* what each form shows
  tasks,      \* bag of the other tasks
  strays,     \* history: whose requests were left behind by a change of wallet
  clean       \* history: the last connect or disconnect met nothing else under
              \* way, and no request for what is the user's failed since

sessionVars == <<wallet, balances, positions, publicKey, stored>>
feedVars == <<pools, version, feed>>
history == <<strays, clean>>
vars == <<page, sessionVars, loans, feedVars, form, tasks, history>>

\* WalletCard, with its modals, is part of both pages.
FormsOn ==
  [landing |-> {}, lend |-> {"deposit", "withdraw", "repay"},
   borrow |-> {"borrow", "withdraw", "repay"}]

Pages == DOMAIN FormsOn

LoadTask == [at : {"balances", "positions"}, user : Users, load : BOOLEAN]
LoansTask == [at : {"loans"}, user : Users]
Transaction ==
  [at : {"simulate", "send"}, form : Forms, user : Users, key : Users \cup {NoUser},
   mounted : BOOLEAN]

Task == [at : {"address"}] \cup LoadTask \cup LoansTask \cup Transaction

SessionTypeOK ==
  /\ page \in Pages
  /\ {wallet, balances, positions, publicKey} \subseteq Users \cup {NoUser}
  /\ stored \in BOOLEAN
  /\ loans \in Users \cup {"loading", "none"}
  /\ pools \in 0 .. version
  /\ version \in 1 .. MaxVersion
  /\ IsABag(feed) /\ BagToSet(feed) \subseteq 0 .. version
  /\ form \in [Forms -> {"idle", "waiting", "success", "error"}]
  /\ IsABag(tasks) /\ BagToSet(tasks) \subseteq Task
  /\ strays \subseteq Users
  /\ clean \in BOOLEAN

\* The deposit form is never taken off its page: without a wallet, or a
\* currency, it shows nothing.
AlwaysMounted == {"deposit"}

-----------------------------------------------------------------------------
(* Tasks. *)

At(step) == {t \in BagToSet(tasks) : t.at = step}

\* A task goes on with new tasks, after which there are others.
Becomes(t, new) == (tasks (-) SetToBag({t})) (+) SetToBag(new)

UserActs == BagCardinality(tasks) < MaxTasks

BalancesOf(user, isLoad) == [at |-> "balances", user |-> user, load |-> isLoad]
LoansOf(user) == [at |-> "loans", user |-> user]

\* refetchBalances does nothing without a wallet.
RefetchBalances == IF wallet = NoUser THEN {} ELSE {BalancesOf(wallet, FALSE)}

RefetchPools(requests) ==
  IF BagCardinality(requests) < MaxPolls THEN requests (+) SetToBag({0}) ELSE requests

\* The forms fs are taken off the page: their state is lost, and what is left
\* of their handlers changes it no more.
Unmounted(fs) ==
  LET on == {t \in At("simulate") \cup At("send") : t.form \in fs /\ t.mounted}
  IN  [t \in BagToSet(tasks) \ on |-> tasks[t]] (+)
        [t \in {[u EXCEPT !.mounted = FALSE] : u \in on} |-> tasks[[t EXCEPT !.mounted = TRUE]]]

Cleared(fs) == [f \in Forms |-> IF f \in fs THEN "idle" ELSE form[f]]

-----------------------------------------------------------------------------
(* The providers when the tab is opened. *)

SessionInit ==
  /\ page \in Pages
  /\ wallet = NoUser
  /\ balances = NoUser
  /\ positions = NoUser
  /\ publicKey = NoUser
  /\ stored = FALSE
  /\ loans = "loading"
  /\ pools = 0
  /\ version = 1
  /\ feed = RefetchPools(EmptyBag)
  /\ form = [f \in Forms |-> "idle"]
  /\ tasks = EmptyBag
  /\ strays = {}
  /\ clean = TRUE

\* A stored wallet-state is loaded again, or has timed out.
Reload ==
  /\ wallet' = NoUser
  /\ balances' = NoUser
  /\ positions' = NoUser
  /\ publicKey' = NoUser
  /\ loans' = "loading"
  /\ pools' = 0
  /\ feed' = RefetchPools(EmptyBag)
  /\ form' = Cleared(Forms)
  /\ strays' = {}
  /\ clean' = TRUE
  /\ tasks' \in {EmptyBag} \cup (IF stored THEN {SetToBag({[at |-> "address"]})} ELSE {})
  /\ UNCHANGED <<page, stored, version>>

Navigate(p) ==
  /\ p # page
  /\ page' = p
  /\ form' = Cleared(Forms)
  /\ tasks' = Unmounted(Forms)
  /\ UNCHANGED <<sessionVars, loans, feedVars, history>>

-----------------------------------------------------------------------------
(* WalletProvider. *)

\* openConnectWalletModal, which is offered while there is no wallet: also
\* after the choice of one, until its address is there.
Connect ==
  /\ UserActs
  /\ wallet = NoUser
  /\ tasks' = tasks (+) SetToBag({[at |-> "address"]})
  /\ clean' = (tasks = EmptyBag)
  /\ UNCHANGED <<page, sessionVars, loans, feedVars, form, strays>>

\* loadWallet: the address is that of the account the extension has selected.
\* The effect of LoansProvider follows the new wallet.
AddressAnswered(user) ==
  \E t \in At("address") :
    /\ wallet' = user
    /\ loans' = "loading"
    /\ tasks' = Becomes(t, {BalancesOf(user, TRUE), LoansOf(user)})
    /\ strays' = strays \cup ({wallet} \ {user, NoUser})
    /\ UNCHANGED <<page, balances, positions, publicKey, stored, feedVars, form, clean>>

BalancesAnswered ==
  \E t \in At("balances") :
    /\ balances' = t.user
    /\ tasks' = Becomes(t, {[t EXCEPT !.at = "positions"]})
    /\ UNCHANGED <<page, wallet, positions, publicKey, stored, loans, feedVars, form, history>>

\* Mutant: the clients that have a key keep it.
PositionsAnsweredKeepingKey ==
  \E t \in At("positions") :
    /\ positions' = t.user
    /\ publicKey' = IF t.load /\ publicKey = NoUser THEN t.user ELSE publicKey
    /\ stored' = (stored \/ t.load)
    /\ tasks' = Becomes(t, {})
    /\ UNCHANGED <<page, wallet, balances, loans, feedVars, form, history>>

\* loadWallet ends with the clients' key and the stored state.
PositionsAnswered ==
  \E t \in At("positions") :
    /\ positions' = t.user
    /\ publicKey' = IF t.load THEN t.user ELSE publicKey
    /\ stored' = (stored \/ t.load)
    /\ tasks' = Becomes(t, {})
    /\ UNCHANGED <<page, wallet, balances, loans, feedVars, form, history>>

LoadFails ==
  \E t \in At("address") \cup At("balances") \cup At("positions") :
    /\ stored' = (stored /\ t.at # "address" /\ ~t.load)
    /\ clean' = FALSE
    /\ tasks' = Becomes(t, {})
    /\ UNCHANGED <<page, wallet, balances, positions, publicKey, loans, feedVars, form, strays>>

\* disconnectWallet resets what is shown and cancels nothing.
LeftBehind == {t.user : t \in BagToSet(tasks) \ At("address")}

\* Mutant: the loans do not follow the wallet.
DisconnectWalletButLoans ==
  /\ wallet # NoUser
  /\ wallet' = NoUser
  /\ balances' = NoUser
  /\ positions' = NoUser
  /\ stored' = FALSE
  /\ form' = Cleared(Forms \ AlwaysMounted)
  /\ tasks' = Unmounted(Forms \ AlwaysMounted)
  /\ strays' = LeftBehind
  /\ clean' = (tasks = EmptyBag)
  /\ UNCHANGED <<page, publicKey, loans, feedVars>>

\* What shows the wallet, and everything but the deposit form needs one, is
\* taken off the page.
DisconnectWallet ==
  /\ wallet # NoUser
  /\ wallet' = NoUser
  /\ balances' = NoUser
  /\ positions' = NoUser
  /\ stored' = FALSE
  /\ loans' = "loading"
  /\ form' = Cleared(Forms \ AlwaysMounted)
  /\ tasks' = Unmounted(Forms \ AlwaysMounted)
  /\ strays' = LeftBehind
  /\ clean' = (tasks = EmptyBag)
  /\ UNCHANGED <<page, publicKey, feedVars>>

-----------------------------------------------------------------------------
(* LoansProvider: what refetchLoans has asked for. *)

LoansAnswered ==
  \E t \in At("loans") :
    /\ loans' = t.user
    /\ tasks' = Becomes(t, {})
    /\ UNCHANGED <<page, sessionVars, feedVars, form, history>>

\* Mutant: the error is logged and nothing set.
LoansFailSilently ==
  \E t \in At("loans") :
    /\ clean' = FALSE
    /\ tasks' = Becomes(t, {})
    /\ UNCHANGED <<page, sessionVars, loans, feedVars, form, strays>>

LoansFail ==
  \E t \in At("loans") :
    /\ loans' = "none"
    /\ clean' = FALSE
    /\ tasks' = Becomes(t, {})
    /\ UNCHANGED <<page, sessionVars, feedVars, form, strays>>

-----------------------------------------------------------------------------
(* PoolProvider: refetchPools every six seconds, whatever is under way. *)

ChangePools ==
  /\ version < MaxVersion
  /\ version' = version + 1
  /\ UNCHANGED <<page, sessionVars, loans, pools, feed, form, tasks, history>>

\* Mutant: no interval is set once there are pools to show.
PollUntilShown ==
  /\ pools = 0
  /\ BagCardinality(feed) < MaxPolls
  /\ feed' = RefetchPools(feed)
  /\ UNCHANGED <<page, sessionVars, loans, pools, version, form, tasks, history>>

Poll ==
  /\ BagCardinality(feed) < MaxPolls
  /\ feed' = RefetchPools(feed)
  /\ UNCHANGED <<page, sessionVars, loans, pools, version, form, tasks, history>>

ServePools ==
  /\ BagIn(0, feed)
  /\ feed' = (feed (-) SetToBag({0})) (+) SetToBag({version})
  /\ UNCHANGED <<page, sessionVars, loans, pools, version, form, tasks, history>>

PoolsAnswered ==
  \E v \in BagToSet(feed) \ {0} :
    /\ pools' = v
    /\ feed' = feed (-) SetToBag({v})
    /\ UNCHANGED <<page, sessionVars, loans, version, form, tasks, history>>

PoolsFail ==
  \E v \in BagToSet(feed) :
    /\ feed' = feed (-) SetToBag({v})
    /\ UNCHANGED <<page, sessionVars, loans, pools, version, form, tasks, history>>

-----------------------------------------------------------------------------
(* The forms.  Each sends one transaction at a click: it is simulated, and  *)
(* then signed by the user and sent.                                        *)

\* Mutant: the wallet is not asked for.
IsOnPage(f) == f \in FormsOn[page]

IsMounted(f) ==
  /\ f \in FormsOn[page]
  /\ wallet # NoUser
  /\ f \in {"deposit", "borrow"} => balances # NoUser

Click(f) ==
  /\ UserActs
  /\ IsMounted(f)
  /\ form[f] = "idle"
  /\ f \in {"withdraw", "borrow"} => pools # 0
  /\ f = "withdraw" => positions # NoUser
  /\ f = "repay" => loans \in Users
  /\ form' = [form EXCEPT ![f] = "waiting"]
  /\ tasks' = tasks (+) SetToBag({[at |-> "simulate", form |-> f, user |-> wallet,
                                   key |-> publicKey, mounted |-> TRUE]})
  /\ UNCHANGED <<page, sessionVars, loans, feedVars, history>>

\* The forms whose handlers fetch again when they end.
RefetchingForms == {"borrow", "repay"}

Finish(t, outcome) ==
  LET refetches == t.form \in RefetchingForms
  IN  /\ form' = IF t.mounted THEN [form EXCEPT ![t.form] = outcome] ELSE form
      /\ loans' = IF refetches THEN "loading" ELSE loans
      /\ tasks' = Becomes(t, IF refetches THEN {LoansOf(t.user), BalancesOf(t.user, FALSE)} ELSE {})
      /\ UNCHANGED <<page, sessionVars, feedVars, history>>

SimulationAnswered(f) ==
  \E t \in At("simulate") :
    /\ t.form = f
    /\ tasks' = Becomes(t, {[t EXCEPT !.at = "send"]})
    /\ UNCHANGED <<page, sessionVars, loans, feedVars, form, history>>

\* Mutant: no form awaits its simulation inside the try.
GuardedNone == {}

\* The forms whose simulation is awaited inside the try.
Guarded == {"borrow"}

\* Without the try the handler just ends.
SimulationFails(f) ==
  \E t \in At("simulate") :
    /\ t.form = f
    /\ \/ f \in Guarded /\ Finish(t, "error")
       \/ /\ f \notin Guarded
          /\ tasks' = Becomes(t, {})
          /\ UNCHANGED <<page, sessionVars, loans, feedVars, form, history>>

SendEnds(f) ==
  \E t \in At("send"), outcome \in {"success", "error"} : t.form = f /\ Finish(t, outcome)

\* The forms that fetch again when they are closed: balances, or the pools.
ClosingRefetchesBalances == {"deposit", "withdraw", "borrow"}
ClosingRefetchesPools == {"deposit", "borrow"}

\* Closing takes a form off the page, if that may be, and forgets its state.
AfterClosing(f) ==
  /\ tasks' = Unmounted({f} \ AlwaysMounted) (+)
       SetToBag(IF f \in ClosingRefetchesBalances THEN RefetchBalances ELSE {})
  /\ feed' = IF f \in ClosingRefetchesPools THEN RefetchPools(feed) ELSE feed
  /\ form' = Cleared({f})
  /\ UNCHANGED <<page, sessionVars, loans, pools, version, history>>

\* Close or Back, which are disabled while the form waits.
Dismiss(f) ==
  /\ UserActs
  /\ IsMounted(f)
  /\ form[f] # "waiting"
  /\ AfterClosing(f)

\* Mutant: the deposit form may be closed while it waits.
LeaveableAll == {"deposit", "borrow", "repay"}

\* The forms that a click beside the dialog closes while they wait.
LeaveableForms == {"borrow", "repay"}

Leave(f) ==
  /\ UserActs
  /\ IsMounted(f)
  /\ form[f] = "waiting"
  /\ f \in LeaveableForms
  /\ AfterClosing(f)

-----------------------------------------------------------------------------

SessionNext ==
  \/ Reload
  \/ \E p \in Pages : Navigate(p)
  \/ Connect \/ DisconnectWallet
  \/ \E u \in Users : AddressAnswered(u)
  \/ BalancesAnswered \/ PositionsAnswered \/ LoadFails
  \/ LoansAnswered \/ LoansFail
  \/ ChangePools \/ Poll \/ ServePools \/ PoolsAnswered \/ PoolsFail
  \/ \E f \in Forms :
       Click(f) \/ SimulationAnswered(f) \/ SimulationFails(f) \/ SendEnds(f)
         \/ Dismiss(f) \/ Leave(f)

\* Requests are answered or fail, the user signs or refuses, and the pools'
\* requests do not all fail.  Nobody has to click.
SessionSpec ==
  /\ SessionInit
  /\ [][SessionNext]_vars
  /\ WF_vars(LoansAnswered \/ LoansFail)
  /\ \A f \in Forms :
       WF_vars(SimulationAnswered(f) \/ SimulationFails(f)) /\ WF_vars(SendEnds(f))
  /\ WF_vars(Poll)
  /\ SF_vars(ServePools)
  /\ SF_vars(PoolsAnswered)

=============================================================================
