------------------------ MODULE SessionSafety_proofs ------------------------
(***************************************************************************)
(* What the dApp shows, for any accounts, forms and bounds: proofs about   *)
(* SessionSafety.                                                          *)
(***************************************************************************)
EXTENDS SessionSafety, FiniteSetTheorems, TLAPS

-----------------------------------------------------------------------------
(* Bags of tasks. *)

\* C is B with one copy more of each element of S.
HasMore(C, B, S) ==
  /\ IsABag(C) /\ DOMAIN C = DOMAIN B \cup S
  /\ \A e \in DOMAIN B \ S : C[e] = B[e]
  /\ \A e \in S \ DOMAIN B : C[e] = 1

\* One copy more of each element of a set.
LEMMA AddedBag ==
  ASSUME NEW B, IsABag(B), NEW S
  PROVE  HasMore(B (+) SetToBag(S), B, S)
<1> DEFINE C == B (+) SetToBag(S)
<1>1. /\ DOMAIN SetToBag(S) = S /\ \A e \in S : SetToBag(S)[e] = 1
  BY DEF SetToBag
<1>2. DOMAIN C = DOMAIN B \cup S
  BY <1>1 DEF (+)
<1>3. \A e \in DOMAIN C : C[e] = (IF e \in DOMAIN B THEN B[e] ELSE 0) + (IF e \in S THEN 1 ELSE 0)
  BY <1>1 DEF (+)
<1>4. \A e \in DOMAIN B : B[e] \in Nat /\ B[e] > 0
  BY DEF IsABag
<1>5. C = [e \in DOMAIN C |-> C[e]]
  BY <1>1 DEF (+)
<1> HIDE DEF C
<1>6. \A e \in DOMAIN C : C[e] \in {n \in Nat : n > 0}
  BY <1>2, <1>3, <1>4
<1>7. IsABag(C) /\ \A e \in DOMAIN B \ S : C[e] = B[e]
  BY <1>2, <1>3, <1>4, <1>5, <1>6 DEF IsABag
<1>8. \A e \in S \ DOMAIN B : C[e] = 1
  BY <1>2, <1>3
<1> QED
  BY <1>2, <1>7, <1>8 DEF C, HasMore

\* One copy less of an element.
LEMMA TakenBag ==
  ASSUME NEW B, IsABag(B), NEW t \in DOMAIN B, NEW C, C = B (-) SetToBag({t})
  PROVE  /\ IsABag(C) /\ DOMAIN C \subseteq DOMAIN B
         /\ \A e \in DOMAIN B : e # t => e \in DOMAIN C /\ C[e] = B[e]
         /\ B[t] = 1 => t \notin DOMAIN C
<1> DEFINE D == [e \in DOMAIN B |-> IF e \in {t} THEN B[e] - 1 ELSE B[e]]
<1>1. DOMAIN SetToBag({t}) = {t} /\ SetToBag({t})[t] = 1
  BY DEF SetToBag
<1>2. D = [e \in DOMAIN B |-> IF e \in DOMAIN SetToBag({t}) THEN B[e] - SetToBag({t})[e] ELSE B[e]]
  BY <1>1
<1>3. C = [e \in {d \in DOMAIN D : D[d] > 0} |-> D[e]]
  BY <1>2 DEF (-)
<1>4. \A e \in DOMAIN B : B[e] \in Nat /\ B[e] > 0
  BY DEF IsABag
<1>5. /\ DOMAIN D = DOMAIN B /\ D[t] = B[t] - 1
      /\ \A e \in DOMAIN B : e # t => D[e] = B[e]
  OBVIOUS
<1> HIDE DEF D
<1>6. \A e \in DOMAIN D : D[e] \in Int
  BY <1>4, <1>5
<1>7. /\ DOMAIN C = {d \in DOMAIN D : D[d] > 0} /\ C = [e \in DOMAIN C |-> C[e]]
      /\ \A e \in DOMAIN C : C[e] = D[e]
  BY <1>3
<1>8. \A e \in DOMAIN C : C[e] \in {n \in Nat : n > 0}
  BY <1>6, <1>7
<1>9. IsABag(C) /\ DOMAIN C \subseteq DOMAIN B
  BY <1>5, <1>7, <1>8 DEF IsABag
<1>10. \A e \in DOMAIN B : e # t => e \in DOMAIN C /\ C[e] = B[e]
  BY <1>4, <1>5, <1>7
<1>11. B[t] = 1 => t \notin DOMAIN C
  BY <1>5, <1>7
<1> QED
  BY <1>9, <1>10, <1>11

-----------------------------------------------------------------------------
(* Tasks. *)

TasksTypeOK == IsABag(tasks) /\ DOMAIN tasks \subseteq Task

TheAddress == [at |-> "address"]

\* What a task is shows in where it is.
LEMMA TaskKinds ==
  ASSUME NEW t \in Task
  PROVE  \/ t.at = "address" /\ t = TheAddress
         \/ t.at \in {"balances", "positions"} /\ t \in LoadTask
         \/ t.at = "loans" /\ t \in LoansTask
         \/ t.at \in {"simulate", "send"} /\ t \in Transaction
BY DEF Task, LoadTask, LoansTask, Transaction, TheAddress

\* A task goes on with others.
LEMMA BecomesTasks ==
  ASSUME TasksTypeOK, NEW t \in DOMAIN tasks, NEW new \in SUBSET Task, tasks' = Becomes(t, new)
  PROVE  /\ TasksTypeOK' /\ DOMAIN tasks' \subseteq DOMAIN tasks \cup new
         /\ new \subseteq DOMAIN tasks'
         /\ \A u \in DOMAIN tasks : u # t => u \in DOMAIN tasks'
         /\ \A u \in DOMAIN tasks \ new : u # t => tasks'[u] = tasks[u]
         /\ \A u \in new \ DOMAIN tasks : tasks'[u] = 1
         /\ tasks[t] = 1 /\ t \notin new => t \notin DOMAIN tasks'
<1> DEFINE rest == tasks (-) SetToBag({t})
<1>1. IsABag(tasks)
  BY DEF TasksTypeOK
<1>2. /\ IsABag(rest) /\ DOMAIN rest \subseteq DOMAIN tasks
      /\ \A e \in DOMAIN tasks : e # t => e \in DOMAIN rest /\ rest[e] = tasks[e]
      /\ tasks[t] = 1 => t \notin DOMAIN rest
  BY <1>1, TakenBag
<1>3. tasks' = rest (+) SetToBag(new)
  BY DEF Becomes
<1> HIDE DEF rest
<1>4. /\ IsABag(tasks') /\ DOMAIN tasks' = DOMAIN rest \cup new
      /\ \A e \in DOMAIN rest \ new : tasks'[e] = rest[e]
      /\ \A e \in new \ DOMAIN rest : tasks'[e] = 1
  <2>1. HasMore(tasks', rest, new)
    BY <1>2, <1>3, AddedBag
  <2> QED
    BY <2>1 DEF HasMore
<1>5. TasksTypeOK'
  BY <1>2, <1>4 DEF TasksTypeOK
<1> QED
  BY <1>2, <1>4, <1>5

\* The user's click adds one.
LEMMA AddedTask ==
  ASSUME TasksTypeOK, NEW t \in Task, tasks' = tasks (+) SetToBag({t})
  PROVE  /\ TasksTypeOK' /\ DOMAIN tasks' = DOMAIN tasks \cup {t}
         /\ \A u \in DOMAIN tasks : u # t => tasks'[u] = tasks[u]
         /\ t \notin DOMAIN tasks => tasks'[t] = 1
<1>1. /\ IsABag(tasks') /\ DOMAIN tasks' = DOMAIN tasks \cup {t}
      /\ \A e \in DOMAIN tasks \ {t} : tasks'[e] = tasks[e]
      /\ \A e \in {t} \ DOMAIN tasks : tasks'[e] = 1
  BY AddedBag DEF TasksTypeOK, HasMore
<1> QED
  BY <1>1 DEF TasksTypeOK

\* The tasks of forms that are on the page, and will show their outcome.
MountedIn(fs) ==
  {t \in DOMAIN tasks : t.at \in {"simulate", "send"} /\ t.form \in fs /\ t.mounted}

\* What is left of the tasks when forms are taken off the page, and others are
\* added that are not the forms'.
IsUnmounting(fs, new) ==
  /\ TasksTypeOK'
  /\ new \subseteq DOMAIN tasks'
  /\ \A t \in DOMAIN tasks' :
       \/ t \in new
       \/ t \in DOMAIN tasks \ MountedIn(fs)
       \/ \E u \in MountedIn(fs) : t = [u EXCEPT !.mounted = FALSE]
  /\ \A t \in DOMAIN tasks \ MountedIn(fs) : t \in DOMAIN tasks'
  /\ \A t \in DOMAIN tasks \ (MountedIn(fs) \cup new) :
       (t.at \in {"simulate", "send"} => t.mounted) => tasks'[t] = tasks[t]

\* Taking forms off the page is that.
LEMMA UnmountedTasks ==
  ASSUME TasksTypeOK, NEW fs, NEW new \in SUBSET Task,
         \A t \in new : t.at \notin {"simulate", "send"},
         \/ tasks' = Unmounted(fs) (+) SetToBag(new)
         \/ new = {} /\ tasks' = Unmounted(fs)
  PROVE  IsUnmounting(fs, new)
<1> DEFINE on   == MountedIn(fs)
           offs == {[u EXCEPT !.mounted = FALSE] : u \in on}
           A    == [t \in DOMAIN tasks \ on |-> tasks[t]]
           B    == [t \in offs |-> tasks[[t EXCEPT !.mounted = TRUE]]]
           C    == A (+) B
<1>1. on = {t \in At("simulate") \cup At("send") : t.form \in fs /\ t.mounted}
  BY DEF At, BagToSet, MountedIn
<1>2. Unmounted(fs) = C
  BY <1>1 DEF Unmounted, BagToSet
<1>3. on \subseteq DOMAIN tasks /\ \A u \in on : u \in Transaction /\ u.mounted = TRUE
  BY TaskKinds DEF TasksTypeOK, MountedIn, LoadTask, LoansTask, TheAddress, Transaction
<1>4. \A u \in on : /\ [u EXCEPT !.mounted = FALSE] \in Transaction
                    /\ [u EXCEPT !.mounted = FALSE].mounted = FALSE
                    /\ [[u EXCEPT !.mounted = FALSE] EXCEPT !.mounted = TRUE] = u
  BY <1>3 DEF Transaction
<1>5. \A t \in DOMAIN tasks : tasks[t] \in Nat /\ tasks[t] > 0
  BY DEF TasksTypeOK, IsABag
<1>6. /\ DOMAIN A = DOMAIN tasks \ on /\ \A t \in DOMAIN A : A[t] = tasks[t]
      /\ DOMAIN B = offs /\ \A t \in DOMAIN B : B[t] = tasks[[t EXCEPT !.mounted = TRUE]]
      /\ offs \subseteq Transaction /\ \A t \in offs : t.mounted = FALSE
  BY <1>4
<1>7. \A t \in DOMAIN B : B[t] \in Nat /\ B[t] > 0
  <2>1. ASSUME NEW t \in offs PROVE [t EXCEPT !.mounted = TRUE] \in DOMAIN tasks
    <3>1. PICK u \in on : t = [u EXCEPT !.mounted = FALSE]
      OBVIOUS
    <3> HIDE DEF on
    <3> QED
      BY <1>3, <1>4, <3>1
  <2> QED
    BY <1>5, <1>6, <2>1
<1> HIDE DEF A, B, on
<1>8. /\ DOMAIN C = DOMAIN A \cup DOMAIN B
      /\ C = [t \in DOMAIN C |-> C[t]]
      /\ \A t \in DOMAIN C :
           C[t] = (IF t \in DOMAIN A THEN A[t] ELSE 0) + (IF t \in DOMAIN B THEN B[t] ELSE 0)
  BY DEF (+)
<1> HIDE DEF C
<1>9. \A t \in DOMAIN C : C[t] \in {n \in Nat : n > 0}
  BY <1>5, <1>6, <1>7, <1>8
<1>10. IsABag(C)
  BY <1>8, <1>9 DEF IsABag
<1>11. /\ IsABag(tasks') /\ DOMAIN tasks' = DOMAIN C \cup new
       /\ \A t \in DOMAIN C \ new : tasks'[t] = C[t]
  <2>1. ASSUME tasks' = C (+) SetToBag(new)
        PROVE  /\ IsABag(tasks') /\ DOMAIN tasks' = DOMAIN C \cup new
               /\ \A t \in DOMAIN C \ new : tasks'[t] = C[t]
    <3>1. HasMore(tasks', C, new)
      BY <1>10, <2>1, AddedBag
    <3> QED
      BY <3>1 DEF HasMore
  <2> QED
    BY <1>2, <1>10, <2>1
<1>12. Transaction \subseteq Task /\ DOMAIN tasks \subseteq Task
  BY DEF Task, TasksTypeOK
<1>13. TasksTypeOK' /\ new \subseteq DOMAIN tasks' /\ \A t \in DOMAIN tasks \ on : t \in DOMAIN tasks'
  BY <1>6, <1>8, <1>11, <1>12 DEF TasksTypeOK
<1>14. \A t \in DOMAIN tasks' : \/ t \in new
                                \/ t \in DOMAIN tasks \ on
                                \/ \E u \in on : t = [u EXCEPT !.mounted = FALSE]
  BY <1>6, <1>8, <1>11
<1>15. ASSUME NEW t \in DOMAIN tasks \ (on \cup new),
              t.at \in {"simulate", "send"} => t.mounted
       PROVE  tasks'[t] = tasks[t]
  <2>1. \A u \in offs : u.at \in {"simulate", "send"} /\ u.mounted = FALSE
    BY <1>6 DEF Transaction
  <2>2. t \in DOMAIN A /\ t \notin DOMAIN B
    BY <1>6, <1>15, <2>1
  <2>3. C[t] = A[t] + 0 /\ A[t] = tasks[t] /\ tasks[t] \in Nat
    BY <1>5, <1>6, <1>8, <2>2
  <2> QED
    BY <1>8, <1>11, <2>2, <2>3
<1> QED
  BY <1>13, <1>14, <1>15 DEF IsUnmounting, on

-----------------------------------------------------------------------------
(* The invariant. *)

ScreenTypeOK ==
  /\ page \in Pages
  /\ {wallet, balances, positions, publicKey} \subseteq Users \cup {NoUser}
  /\ stored \in BOOLEAN
  /\ loans \in Users \cup {"loading", "none"}
  /\ form \in [Forms -> {"idle", "waiting", "success", "error"}]
  /\ strays \subseteq Users
  /\ clean \in BOOLEAN

FeedTypeOK ==
  /\ version \in 1 .. MaxVersion
  /\ pools \in 0 .. version
  /\ IsABag(feed)
  /\ DOMAIN feed \subseteq 0 .. version

\* Requests are the connected account's, or of one that the wallet was changed
\* from amid its requests; and so is what is shown.
OwnInv ==
  /\ \A t \in DOMAIN tasks : t # TheAddress => t.user \in {wallet} \cup strays
  /\ {balances, positions} \subseteq {wallet, NoUser} \cup strays
  /\ loans \in {wallet, "loading", "none"} \cup strays

\* A clean session asks for its address once, before anything else; what was
\* shown before is gone, or is replaced when the address is there.
CleanInv ==
  clean =>
    /\ \A t \in DOMAIN tasks : t # TheAddress => t.user = wallet /\ wallet # NoUser
    /\ TheAddress \in DOMAIN tasks => wallet = NoUser /\ tasks[TheAddress] = 1
    /\ wallet = NoUser /\ TheAddress \notin DOMAIN tasks =>
         balances = NoUser /\ positions = NoUser /\ loans = "loading"

\* What is not there yet is on its way.
LoadsAt(steps) == \E t \in DOMAIN tasks : t.at \in steps /\ t.load

SettledInv ==
  clean /\ wallet # NoUser =>
    /\ balances = wallet \/ LoadsAt({"balances"})
    /\ (positions = wallet /\ publicKey = wallet /\ stored) \/ LoadsAt({"balances", "positions"})
    /\ loans = wallet \/ \E t \in DOMAIN tasks : t.at = "loans"

\* Each form awaits the end of one transaction at most, and waits.
IsAwaited(t) == t.at \in {"simulate", "send"} /\ t.mounted

OutcomesInv ==
  \A t \in DOMAIN tasks :
    IsAwaited(t) =>
      /\ form[t.form] = "waiting"
      /\ tasks[t] = 1
      /\ \A u \in DOMAIN tasks : IsAwaited(u) /\ u.form = t.form => u = t

TypesInv == TasksTypeOK /\ ScreenTypeOK /\ FeedTypeOK

SessionInv == TypesInv /\ OwnInv /\ CleanInv /\ SettledInv /\ OutcomesInv

-----------------------------------------------------------------------------
(* The requests for the pools. *)

\* One request more or one less.
LEMMA FeedBags ==
  ASSUME FeedTypeOK, NEW v \in DOMAIN feed
  PROVE  /\ IsABag(feed (-) SetToBag({v})) /\ DOMAIN (feed (-) SetToBag({v})) \subseteq 0 .. version
         /\ IsABag((feed (-) SetToBag({v})) (+) SetToBag({version}))
         /\ DOMAIN ((feed (-) SetToBag({v})) (+) SetToBag({version})) \subseteq 0 .. version
<1> DEFINE less == feed (-) SetToBag({v})
<1>1. IsABag(less) /\ DOMAIN less \subseteq DOMAIN feed
  BY TakenBag DEF FeedTypeOK
<1>2. HasMore(less (+) SetToBag({version}), less, {version})
  BY <1>1, AddedBag
<1>3. MaxVersion \in Nat \ {0} /\ version \in 0 .. version
  BY SessionAssumption DEF FeedTypeOK
<1> QED
  BY <1>1, <1>2, <1>3 DEF HasMore, FeedTypeOK

\* refetchPools asks for them once more, or not.
LEMMA RefetchedPools ==
  ASSUME NEW B, IsABag(B), NEW n \in Nat, DOMAIN B \subseteq 0 .. n
  PROVE  IsABag(RefetchPools(B)) /\ DOMAIN RefetchPools(B) \subseteq 0 .. n
<1>1. HasMore(B (+) SetToBag({0}), B, {0})
  BY AddedBag
<1> QED
  BY <1>1 DEF HasMore, RefetchPools

\* There are none in the beginning.
LEMMA NoBag == IsABag(EmptyBag) /\ DOMAIN EmptyBag = {}
BY DEF EmptyBag, SetToBag, IsABag

\* A step that keeps them, or asks for the pools, keeps their types.
LEMMA FeedKept ==
  ASSUME FeedTypeOK, UNCHANGED <<pools, version>>, feed' \in {feed, RefetchPools(feed)}
  PROVE  FeedTypeOK'
<1>1. version \in Nat
  BY SessionAssumption DEF FeedTypeOK
<1> QED
  BY <1>1, RefetchedPools DEF FeedTypeOK

\* A step of the pools changes nothing else.
LEMMA PoolSteps ==
  ASSUME SessionInv, ChangePools \/ Poll \/ ServePools \/ PoolsAnswered \/ PoolsFail
  PROVE  SessionInv'
<1> USE SessionAssumption
<1>1. FeedTypeOK
  BY DEF SessionInv, TypesInv
<1>2. version \in Nat /\ version > 0
  BY <1>1 DEF FeedTypeOK
<1>3. UNCHANGED <<page, sessionVars, loans, form, tasks, history>>
  BY DEF ChangePools, Poll, ServePools, PoolsAnswered, PoolsFail
<1>4. FeedTypeOK'
  <2>1. CASE ChangePools
    BY <1>1, <1>2, <2>1 DEF FeedTypeOK, ChangePools
  <2>2. CASE Poll
    BY <1>1, <2>2, FeedKept DEF Poll
  <2>3. CASE ServePools
    <3>1. 0 \in DOMAIN feed
      BY <2>3 DEF ServePools, BagIn, BagToSet
    <3> QED
      BY <1>1, <2>3, <3>1, FeedBags DEF FeedTypeOK, ServePools
  <2>4. CASE PoolsAnswered
    <3>1. PICK v \in DOMAIN feed \ {0} : pools' = v /\ feed' = feed (-) SetToBag({v})
      BY <2>4 DEF PoolsAnswered, BagToSet
    <3>2. version' = version
      BY <2>4 DEF PoolsAnswered
    <3> QED
      BY <1>1, <3>1, <3>2, FeedBags DEF FeedTypeOK
  <2>5. CASE PoolsFail
    <3>1. PICK v \in DOMAIN feed : feed' = feed (-) SetToBag({v})
      BY <2>5 DEF PoolsFail, BagToSet
    <3>2. UNCHANGED <<version, pools>>
      BY <2>5 DEF PoolsFail
    <3> QED
      BY <1>1, <3>1, <3>2, FeedBags DEF FeedTypeOK
  <2> QED
    BY <2>1, <2>2, <2>3, <2>4, <2>5
<1>5. TypesInv'
  BY <1>3, <1>4 DEF SessionInv, TypesInv, TasksTypeOK, ScreenTypeOK, sessionVars, history
<1>6. OwnInv' /\ CleanInv' /\ SettledInv'
  BY <1>3 DEF SessionInv, OwnInv, CleanInv, SettledInv, LoadsAt, sessionVars, history
<1>7. OutcomesInv'
  BY <1>3 DEF SessionInv, OutcomesInv, IsAwaited
<1> QED
  BY <1>5, <1>6, <1>7 DEF SessionInv

-----------------------------------------------------------------------------
(* The beginning, and opening the page again. *)

\* There is nothing of anybody's in the beginning.
LEMMA InitiallyInv == SessionInit => SessionInv
<1> SUFFICES ASSUME SessionInit
             PROVE  SessionInv
  OBVIOUS
<1> USE SessionAssumption DEF SessionInit
<1>1. TasksTypeOK /\ DOMAIN tasks = {}
  BY NoBag DEF TasksTypeOK
<1>2. FeedTypeOK
  <2>1. IsABag(feed) /\ DOMAIN feed \subseteq 0 .. 1
    BY NoBag, RefetchedPools
  <2> QED
    BY <2>1 DEF FeedTypeOK
<1>3. ScreenTypeOK
  BY DEF ScreenTypeOK
<1> QED
  BY <1>1, <1>2, <1>3 DEF SessionInv, TypesInv, OwnInv, CleanInv, SettledInv, OutcomesInv

\* Only the address is asked for when the page is opened again.
LEMMA ReloadStep ==
  ASSUME SessionInv, Reload
  PROVE  SessionInv'
<1> USE SessionAssumption DEF Reload
<1> DEFINE ask == SetToBag({TheAddress})
<1>1. IsABag(ask) /\ DOMAIN ask = {TheAddress} /\ ask[TheAddress] = 1
  BY DEF SetToBag, IsABag
<1>2. tasks' \in {EmptyBag, ask}
  BY DEF TheAddress
<1> HIDE DEF ask
<1>3. /\ IsABag(tasks') /\ DOMAIN tasks' \subseteq {TheAddress}
      /\ TheAddress \in DOMAIN tasks' => tasks'[TheAddress] = 1
  BY <1>1, <1>2, NoBag
<1>4. TheAddress \in Task /\ TheAddress.at = "address"
  BY DEF TheAddress, Task
<1>5. TasksTypeOK'
  BY <1>3, <1>4 DEF TasksTypeOK
<1>6. FeedTypeOK'
  <2>1. version \in 1 .. MaxVersion /\ version \in Nat
    BY DEF SessionInv, TypesInv, FeedTypeOK
  <2>2. IsABag(feed') /\ DOMAIN feed' \subseteq 0 .. version
    BY <2>1, NoBag, RefetchedPools
  <2> QED
    BY <2>1, <2>2 DEF FeedTypeOK
<1>7. ScreenTypeOK'
  BY DEF SessionInv, TypesInv, ScreenTypeOK, Cleared
<1>8. OwnInv' /\ CleanInv'
  BY <1>3 DEF OwnInv, CleanInv
<1>9. SettledInv' /\ OutcomesInv'
  BY <1>3, <1>4 DEF SettledInv, OutcomesInv, IsAwaited
<1> QED
  BY <1>5, <1>6, <1>7, <1>8, <1>9 DEF SessionInv, TypesInv

-----------------------------------------------------------------------------
(* Forms that are taken off the page. *)

\* A form that is forgotten is off the page, or does not wait: the others still
\* await what they did.
LEMMA UnmountedOutcomes ==
  ASSUME SessionInv, NEW fs, NEW gs, fs \subseteq gs,
         NEW new \in SUBSET Task, \A t \in new : t.at \notin {"simulate", "send"},
         IsUnmounting(fs, new),
         form' = Cleared(gs), \A f \in Forms \cap (gs \ fs) : form[f] # "waiting"
  PROVE  OutcomesInv'
<1>1. ASSUME NEW t \in DOMAIN tasks', IsAwaited(t)
      PROVE  t \in DOMAIN tasks /\ t.form \in Forms \ gs /\ tasks'[t] = tasks[t]
  <2>1. DOMAIN tasks \subseteq Task
    BY DEF SessionInv, TypesInv, TasksTypeOK
  <2>2. \A u \in MountedIn(fs) : [u EXCEPT !.mounted = FALSE].mounted = FALSE
    BY <2>1, TaskKinds DEF MountedIn, LoadTask, LoansTask, TheAddress, Transaction
  <2>3. t \notin new /\ t.mounted # FALSE
    BY <1>1 DEF IsAwaited
  <2>4. t \in DOMAIN tasks \ MountedIn(fs)
    BY <2>2, <2>3 DEF IsUnmounting
  <2>5. tasks'[t] = tasks[t]
    BY <1>1, <2>3, <2>4 DEF IsUnmounting, IsAwaited
  <2>6. t.form \in Forms /\ t.form \notin fs
    BY <1>1, <2>1, <2>4, TaskKinds DEF IsAwaited, MountedIn, LoadTask, LoansTask, TheAddress, Transaction
  <2>7. form[t.form] = "waiting"
    BY <1>1, <2>4 DEF SessionInv, OutcomesInv
  <2> QED
    BY <2>4, <2>5, <2>6, <2>7
<1>2. ASSUME NEW t \in DOMAIN tasks', IsAwaited(t)
      PROVE  /\ form'[t.form] = "waiting" /\ tasks'[t] = 1
             /\ \A u \in DOMAIN tasks' : IsAwaited(u) /\ u.form = t.form => u = t
  <2>1. t \in DOMAIN tasks /\ t.form \in Forms \ gs /\ tasks'[t] = tasks[t]
    BY <1>1, <1>2
  <2>2. form'[t.form] = form[t.form]
    BY <2>1 DEF Cleared
  <2>3. form[t.form] = "waiting" /\ tasks[t] = 1
    BY <1>2, <2>1 DEF SessionInv, OutcomesInv
  <2>4. ASSUME NEW u \in DOMAIN tasks', IsAwaited(u), u.form = t.form
        PROVE  u = t
    <3>1. u \in DOMAIN tasks
      BY <1>1, <2>4
    <3> QED
      BY <1>2, <2>1, <2>4, <3>1 DEF SessionInv, OutcomesInv
  <2> QED
    BY <2>1, <2>2, <2>3, <2>4
<1> QED
  BY <1>2 DEF OutcomesInv, IsAwaited

\* What is under way, and is not a form's, is under way still.
LEMMA UnmountedOwn ==
  ASSUME SessionInv, NEW fs, NEW new \in SUBSET LoadTask,
         IsUnmounting(fs, new),
         UNCHANGED <<sessionVars, loans, history>>,
         \A t \in new : t.user = wallet /\ wallet # NoUser
  PROVE  OwnInv' /\ CleanInv' /\ SettledInv'
<1> USE DEF sessionVars, history
<1>1. DOMAIN tasks \subseteq Task
  BY DEF SessionInv, TypesInv, TasksTypeOK
<1>2. \A u \in MountedIn(fs) :
        [u EXCEPT !.mounted = FALSE].user = u.user /\ u # TheAddress
        /\ [u EXCEPT !.mounted = FALSE] # TheAddress
  BY <1>1, TaskKinds DEF MountedIn, LoadTask, LoansTask, TheAddress, Transaction
<1>3. \A t \in new : t # TheAddress
  BY DEF LoadTask, TheAddress
<1>4. ASSUME NEW t \in DOMAIN tasks', t # TheAddress, t \notin new
      PROVE  \E u \in DOMAIN tasks : u # TheAddress /\ t.user = u.user
  <2>1. CASE t \in DOMAIN tasks
    BY <1>4, <2>1
  <2>2. CASE \E u \in MountedIn(fs) : t = [u EXCEPT !.mounted = FALSE]
    BY <1>2, <2>2 DEF MountedIn
  <2> QED
    BY <1>4, <2>1, <2>2 DEF IsUnmounting
<1>5. OwnInv'
  BY <1>4 DEF SessionInv, OwnInv
<1>6. CleanInv'
  <2>1. ASSUME clean, NEW t \in DOMAIN tasks', t # TheAddress
        PROVE  t.user = wallet /\ wallet # NoUser
    BY <1>4, <2>1 DEF SessionInv, CleanInv
  <2>2. /\ TheAddress \in DOMAIN tasks' => TheAddress \in DOMAIN tasks \ (MountedIn(fs) \cup new)
        /\ TheAddress \in DOMAIN tasks => TheAddress \in DOMAIN tasks'
    BY <1>2, <1>3 DEF IsUnmounting
  <2>3. TheAddress \in DOMAIN tasks' => tasks'[TheAddress] = tasks[TheAddress]
    BY <2>2 DEF IsUnmounting, TheAddress
  <2> QED
    BY <2>1, <2>2, <2>3 DEF SessionInv, CleanInv
<1>7. \A t \in DOMAIN tasks : t.at \notin {"simulate", "send"} => t \in DOMAIN tasks'
  BY DEF IsUnmounting, MountedIn
<1>8. SettledInv'
  BY <1>7 DEF SessionInv, SettledInv, LoadsAt
<1> QED
  BY <1>5, <1>6, <1>8

\* Another page: every form is off the page.
LEMMA NavigateStep ==
  ASSUME SessionInv, NEW p \in Pages, Navigate(p)
  PROVE  SessionInv'
<1> USE DEF Navigate
<1>1. TypesInv
  BY DEF SessionInv
<1>2. IsUnmounting(Forms, {})
  <2>1. TasksTypeOK /\ tasks' = Unmounted(Forms)
    BY <1>1 DEF TypesInv
  <2> QED
    BY <2>1, UnmountedTasks
<1>3. OutcomesInv'
  BY <1>2, UnmountedOutcomes
<1>4. OwnInv' /\ CleanInv' /\ SettledInv'
  BY <1>2, UnmountedOwn
<1>5. TypesInv'
  BY <1>1, <1>2 DEF TypesInv, IsUnmounting, ScreenTypeOK, FeedTypeOK, Cleared, sessionVars,
     feedVars, history
<1> QED
  BY <1>3, <1>4, <1>5 DEF SessionInv

\* The wallet is disconnected: what is under way is of strays, if there is any.
LEMMA DisconnectStep ==
  ASSUME SessionInv, DisconnectWallet
  PROVE  SessionInv'
<1> USE DEF DisconnectWallet
<1> DEFINE fs == Forms \ AlwaysMounted
<1>1. TypesInv
  BY DEF SessionInv
<1>2. IsUnmounting(fs, {})
  <2>1. TasksTypeOK /\ tasks' = Unmounted(fs)
    BY <1>1 DEF TypesInv
  <2> QED
    BY <2>1, UnmountedTasks
<1>3. OutcomesInv'
  <2>1. form' = Cleared(fs)
    OBVIOUS
  <2> HIDE DEF fs, DisconnectWallet
  <2> QED
    BY <1>2, <2>1, UnmountedOutcomes
<1>4. OwnInv' /\ CleanInv'
  <2>1. DOMAIN tasks \subseteq Task
    BY <1>1 DEF TypesInv, TasksTypeOK
  <2>2. \A u \in MountedIn(fs) : [u EXCEPT !.mounted = FALSE].user = u.user /\ u # TheAddress
    BY <2>1, TaskKinds DEF MountedIn, LoadTask, LoansTask, TheAddress, Transaction
  <2>3. \A t \in DOMAIN tasks : t # TheAddress => t.user \in strays'
    BY <2>1, TaskKinds DEF LeftBehind, At, BagToSet, LoadTask, LoansTask, Transaction
  <2>4. ASSUME NEW t \in DOMAIN tasks', t # TheAddress
        PROVE  t.user \in strays'
    <3>1. CASE t \in DOMAIN tasks
      BY <2>3, <2>4, <3>1
    <3>2. CASE \E u \in MountedIn(fs) : t = [u EXCEPT !.mounted = FALSE]
      BY <2>2, <2>3, <3>2 DEF MountedIn
    <3> QED
      BY <1>2, <3>1, <3>2 DEF IsUnmounting
  <2>5. ASSUME clean'
        PROVE  DOMAIN tasks' = {}
    <3>1. DOMAIN tasks = {}
      BY <2>5, NoBag
    <3>2. MountedIn(fs) = {}
      BY <3>1 DEF MountedIn
    <3> QED
      BY <1>2, <3>1, <3>2 DEF IsUnmounting
  <2> QED
    BY <2>4, <2>5 DEF OwnInv, CleanInv
<1>5. SettledInv'
  BY DEF SettledInv
<1>6. TypesInv'
  <2>1. FeedTypeOK'
    BY <1>1 DEF TypesInv, FeedTypeOK, feedVars
  <2>2. strays' \subseteq Users
    BY <1>1, TaskKinds DEF TypesInv, TasksTypeOK, LeftBehind, At, BagToSet, LoadTask, LoansTask,
       Transaction
  <2>3. ScreenTypeOK'
    BY <1>1, <2>2 DEF TypesInv, ScreenTypeOK, Cleared
  <2> QED
    BY <1>2, <2>1, <2>3 DEF TypesInv, IsUnmounting
<1> QED
  BY <1>3, <1>4, <1>5, <1>6 DEF SessionInv

\* A form is closed, if it may be while it waits.
LEMMA CloseStep ==
  ASSUME SessionInv, NEW f \in Forms, Dismiss(f) \/ Leave(f)
  PROVE  SessionInv'
<1> DEFINE fs  == {f} \ AlwaysMounted
           new == IF f \in ClosingRefetchesBalances THEN RefetchBalances ELSE {}
<1>1. TypesInv /\ AfterClosing(f)
  BY DEF SessionInv, Dismiss, Leave
<1>2. UNCHANGED <<page, sessionVars, loans, pools, version, history>> /\ form' = Cleared({f})
  BY <1>1 DEF AfterClosing
<1>3. /\ new \in SUBSET LoadTask /\ new \in SUBSET Task
      /\ \A t \in new : t.user = wallet /\ wallet # NoUser /\ t.at \notin {"simulate", "send"}
  BY <1>1 DEF TypesInv, ScreenTypeOK, RefetchBalances, BalancesOf, LoadTask, Task
<1>4. tasks' = Unmounted(fs) (+) SetToBag(new)
  BY <1>1 DEF AfterClosing
<1>5. \A g \in Forms \cap ({f} \ fs) : form[g] # "waiting"
  BY DEF Dismiss, Leave, LeaveableForms, AlwaysMounted
<1> HIDE DEF new, fs
<1>6. IsUnmounting(fs, new)
  BY <1>1, <1>3, <1>4, UnmountedTasks DEF TypesInv
<1>7. OutcomesInv'
  <2>1. fs \subseteq {f}
    BY DEF fs
  <2> QED
    BY <1>2, <1>3, <1>5, <1>6, <2>1, UnmountedOutcomes
<1>8. OwnInv' /\ CleanInv' /\ SettledInv'
  BY <1>2, <1>3, <1>6, UnmountedOwn
<1>9. FeedTypeOK'
  <2>1. feed' \in {feed, RefetchPools(feed)}
    BY <1>1 DEF AfterClosing
  <2> QED
    BY <1>1, <1>2, <2>1, FeedKept DEF TypesInv
<1>10. TypesInv'
  BY <1>1, <1>2, <1>6, <1>9 DEF TypesInv, IsUnmounting, ScreenTypeOK, Cleared, sessionVars, history
<1> QED
  BY <1>7, <1>8, <1>10 DEF SessionInv

-----------------------------------------------------------------------------
(* The user's clicks. *)

\* The wallet is chosen: a clean session asks for its address alone.
LEMMA ConnectStep ==
  ASSUME SessionInv, Connect
  PROVE  SessionInv'
<1> USE DEF Connect
<1>1. TheAddress \in Task /\ TheAddress.at = "address"
  BY DEF TheAddress, Task
<1>2. /\ TasksTypeOK' /\ DOMAIN tasks' = DOMAIN tasks \cup {TheAddress}
      /\ \A u \in DOMAIN tasks : u # TheAddress => tasks'[u] = tasks[u]
      /\ TheAddress \notin DOMAIN tasks => tasks'[TheAddress] = 1
  <2>1. tasks' = tasks (+) SetToBag({TheAddress}) /\ TasksTypeOK
    BY DEF TheAddress, SessionInv, TypesInv
  <2> QED
    BY <1>1, <2>1, AddedTask
<1>3. OwnInv' /\ CleanInv'
  <2>1. ASSUME clean'
        PROVE  DOMAIN tasks' = {TheAddress} /\ tasks'[TheAddress] = 1
    <3>1. DOMAIN tasks = {}
      BY <2>1, NoBag
    <3> QED
      BY <1>2, <3>1
  <2> QED
    BY <1>2, <2>1 DEF SessionInv, OwnInv, CleanInv, sessionVars
<1>4. SettledInv'
  BY DEF SettledInv, sessionVars
<1>5. OutcomesInv'
  BY <1>1, <1>2 DEF SessionInv, OutcomesInv, IsAwaited
<1>6. TypesInv'
  BY <1>2 DEF SessionInv, TypesInv, ScreenTypeOK, FeedTypeOK, sessionVars, feedVars
<1> QED
  BY <1>3, <1>4, <1>5, <1>6 DEF SessionInv

\* A form that is idle awaits nothing: it sends its one transaction.
LEMMA ClickStep ==
  ASSUME SessionInv, NEW f \in Forms, Click(f)
  PROVE  SessionInv'
<1> USE DEF Click
<1> DEFINE t == [at |-> "simulate", form |-> f, user |-> wallet, key |-> publicKey, mounted |-> TRUE]
<1>1. TypesInv /\ wallet # NoUser
  BY DEF SessionInv, IsMounted
<1>2. t \in Transaction /\ t \in Task
  BY <1>1 DEF TypesInv, ScreenTypeOK, Transaction, Task
<1>3. t # TheAddress /\ IsAwaited(t) /\ t.form = f /\ t.user = wallet
  <2>1. TheAddress.at = "address" /\ t.at = "simulate"
    BY DEF TheAddress
  <2>2. t # TheAddress
    BY <2>1
  <2> QED
    BY <2>1, <2>2 DEF IsAwaited
<1>4. tasks' = tasks (+) SetToBag({t})
  OBVIOUS
<1> HIDE DEF t
<1>5. /\ TasksTypeOK' /\ DOMAIN tasks' = DOMAIN tasks \cup {t}
      /\ \A u \in DOMAIN tasks : u # t => tasks'[u] = tasks[u]
      /\ t \notin DOMAIN tasks => tasks'[t] = 1
  BY <1>1, <1>2, <1>4, AddedTask DEF TypesInv
<1>6. UNCHANGED <<page, sessionVars, loans, feedVars, history>> /\ form[f] = "idle"
  OBVIOUS
<1>7. form' = [form EXCEPT ![f] = "waiting"]
  OBVIOUS
<1>8. form'[f] = "waiting" /\ \A g \in Forms : g # f => form'[g] = form[g]
  BY <1>1, <1>7 DEF TypesInv, ScreenTypeOK
<1> HIDE DEF Click
<1>9. OwnInv' /\ CleanInv'
  BY <1>1, <1>3, <1>5, <1>6 DEF SessionInv, OwnInv, CleanInv, sessionVars, history
<1>10. SettledInv'
  BY <1>5, <1>6 DEF SessionInv, SettledInv, LoadsAt, sessionVars, history
<1>11. OutcomesInv'
  <2>1. \A u \in DOMAIN tasks : IsAwaited(u) => u.form \in Forms /\ u.form # f /\ u # t
    <3>1. \A u \in DOMAIN tasks : IsAwaited(u) => u.form \in Forms
      BY <1>1, TaskKinds DEF IsAwaited, TypesInv, TasksTypeOK, LoadTask, LoansTask, TheAddress,
         Transaction
    <3> QED
      BY <1>3, <1>6, <3>1 DEF SessionInv, OutcomesInv
  <2>2. t \notin DOMAIN tasks
    BY <1>3, <2>1
  <2>3. ASSUME NEW u \in DOMAIN tasks', IsAwaited(u)
        PROVE  /\ form'[u.form] = "waiting" /\ tasks'[u] = 1
               /\ \A v \in DOMAIN tasks' : IsAwaited(v) /\ v.form = u.form => v = u
    <3>1. CASE u = t
      BY <1>3, <1>5, <1>8, <2>1, <2>2, <3>1
    <3>2. CASE u \in DOMAIN tasks
      BY <1>3, <1>5, <1>8, <2>1, <2>3, <3>2 DEF SessionInv, OutcomesInv
    <3> QED
      BY <1>5, <2>3, <3>1, <3>2
  <2> QED
    BY <2>3 DEF OutcomesInv, IsAwaited
<1>12. TypesInv'
  <2>1. ScreenTypeOK'
    BY <1>1, <1>6, <1>7 DEF TypesInv, ScreenTypeOK, sessionVars, history
  <2> QED
    BY <1>1, <1>5, <1>6, <2>1 DEF TypesInv, FeedTypeOK, feedVars
<1> QED
  BY <1>9, <1>10, <1>11, <1>12 DEF SessionInv

-----------------------------------------------------------------------------
(* Tasks that go on. *)

\* A task of a form goes on with one of the same form, or it is over: the others
\* are awaited as they were.
LEMMA BecomesOutcomes ==
  ASSUME SessionInv, NEW t \in DOMAIN tasks, NEW new \in SUBSET Task, tasks' = Becomes(t, new),
         \A u \in new : IsAwaited(u) => /\ IsAwaited(t) /\ u # t /\ u.form = t.form
                                        /\ new = {u} /\ form' = form,
         \/ form' = form
         \/ IsAwaited(t) /\ \A f \in Forms \ {t.form} : form'[f] = form[f]
  PROVE  OutcomesInv'
<1>1. /\ DOMAIN tasks' \subseteq DOMAIN tasks \cup new
      /\ \A u \in DOMAIN tasks \ new : u # t => tasks'[u] = tasks[u]
      /\ \A u \in new \ DOMAIN tasks : tasks'[u] = 1
      /\ tasks[t] = 1 /\ t \notin new => t \notin DOMAIN tasks'
  BY BecomesTasks DEF SessionInv, TypesInv
<1>2. ASSUME NEW v \in new, IsAwaited(v)
      PROVE  /\ v \notin DOMAIN tasks /\ tasks'[v] = 1 /\ form'[v.form] = "waiting"
             /\ IsAwaited(t) /\ v.form = t.form /\ new = {v}
  <2>1. IsAwaited(t) /\ v # t /\ v.form = t.form /\ new = {v} /\ form' = form
    BY <1>2
  <2>2. form[t.form] = "waiting" /\ v \notin DOMAIN tasks
    BY <1>2, <2>1 DEF SessionInv, OutcomesInv
  <2> QED
    BY <1>1, <2>1, <2>2
<1>3. ASSUME NEW v \in DOMAIN tasks' \ new, IsAwaited(v)
      PROVE  /\ v \in DOMAIN tasks /\ tasks'[v] = 1 /\ form'[v.form] = "waiting"
             /\ IsAwaited(t) => v.form # t.form
  <2>1. v \in DOMAIN tasks /\ v # t
    <3>1. IsAwaited(t) => t \notin new
      OBVIOUS
    <3>2. IsAwaited(t) => t \notin DOMAIN tasks'
      BY <1>1, <3>1 DEF SessionInv, OutcomesInv
    <3> QED
      BY <1>1, <1>3, <3>2
  <2>2. form[v.form] = "waiting" /\ tasks[v] = 1 /\ (IsAwaited(t) => v.form # t.form)
    BY <1>3, <2>1 DEF SessionInv, OutcomesInv
  <2>3. v.form \in Forms
    BY <1>3, <2>1, TaskKinds DEF SessionInv, TypesInv, TasksTypeOK, IsAwaited, LoadTask, LoansTask,
       TheAddress, Transaction
  <2> QED
    BY <1>1, <1>3, <2>1, <2>2, <2>3
<1>4. ASSUME NEW v \in DOMAIN tasks', IsAwaited(v),
             NEW u \in DOMAIN tasks', IsAwaited(u), u.form = v.form
      PROVE  u = v
  <2>1. CASE u \in new /\ v \in new
    BY <1>2, <1>4, <2>1
  <2>2. CASE u \notin new /\ v \notin new
    <3>1. u \in DOMAIN tasks /\ v \in DOMAIN tasks
      BY <1>3, <1>4, <2>2
    <3> QED
      BY <1>4, <3>1 DEF SessionInv, OutcomesInv
  <2>3. CASE (u \in new) # (v \in new)
    BY <1>2, <1>3, <1>4, <2>3
  <2> QED
    BY <2>1, <2>2, <2>3
<1>5. ASSUME NEW v \in DOMAIN tasks', IsAwaited(v)
      PROVE  form'[v.form] = "waiting" /\ tasks'[v] = 1
  BY <1>2, <1>3, <1>5
<1> QED
  BY <1>4, <1>5 DEF OutcomesInv, IsAwaited

\* A task goes on with tasks of the same account, and shows what is that
\* account's; an address that is not there ends the clean session.
LEMMA BecomesOwn ==
  ASSUME SessionInv, NEW t \in DOMAIN tasks, NEW new \in SUBSET Task, tasks' = Becomes(t, new),
         UNCHANGED <<wallet, strays>>, clean' => clean,
         \A u \in new : u # TheAddress /\ u.user = t.user,
         t = TheAddress => new = {} /\ ~clean' /\ UNCHANGED <<balances, positions, loans>>,
         t # TheAddress => /\ {balances', positions'} \subseteq {balances, positions, t.user}
                           /\ loans' \in {loans, t.user, "loading", "none"}
  PROVE  OwnInv' /\ CleanInv'
<1>1. DOMAIN tasks' \subseteq DOMAIN tasks \cup new
  BY BecomesTasks DEF SessionInv, TypesInv
<1>2. OwnInv'
  <2>1. t # TheAddress => t.user \in {wallet} \cup strays
    BY DEF SessionInv, OwnInv
  <2>2. \A u \in DOMAIN tasks' : u # TheAddress => u.user \in {wallet} \cup strays
    BY <1>1, <2>1 DEF SessionInv, OwnInv
  <2>3. /\ {balances', positions'} \subseteq {wallet, NoUser} \cup strays
        /\ loans' \in {wallet, "loading", "none"} \cup strays
    BY <2>1 DEF SessionInv, OwnInv
  <2> QED
    BY <2>2, <2>3 DEF OwnInv
<1>3. CleanInv'
  <2> SUFFICES ASSUME clean'
               PROVE  /\ \A u \in DOMAIN tasks' : u # TheAddress => u.user = wallet
                      /\ wallet # NoUser /\ TheAddress \notin DOMAIN tasks'
    BY DEF CleanInv
  <2>1. t # TheAddress /\ t.user = wallet /\ wallet # NoUser /\ TheAddress \notin DOMAIN tasks
    BY DEF SessionInv, CleanInv
  <2> QED
    BY <1>1, <2>1 DEF SessionInv, CleanInv
<1> QED
  BY <1>2, <1>3

\* The first address is that of the first requests.
LEMMA AddressStep ==
  ASSUME SessionInv, NEW user \in Users, AddressAnswered(user)
  PROVE  SessionInv'
<1>1. PICK t \in DOMAIN tasks :
        /\ t.at = "address" /\ wallet' = user /\ loans' = "loading"
        /\ tasks' = Becomes(t, {BalancesOf(user, TRUE), LoansOf(user)})
        /\ strays' = strays \cup ({wallet} \ {user, NoUser})
        /\ UNCHANGED <<page, balances, positions, publicKey, stored, feedVars, form, clean>>
  BY DEF AddressAnswered, At, BagToSet
<1> DEFINE new == {BalancesOf(user, TRUE), LoansOf(user)}
<1>2. TypesInv /\ t = TheAddress /\ user # NoUser
  BY <1>1, TaskKinds, SessionAssumption DEF SessionInv, TypesInv, TasksTypeOK, LoadTask, LoansTask,
     Transaction
<1>3. /\ BalancesOf(user, TRUE) \in LoadTask /\ BalancesOf(user, TRUE).at = "balances"
      /\ BalancesOf(user, TRUE).load /\ LoansOf(user) \in LoansTask /\ LoansOf(user).at = "loans"
      /\ BalancesOf(user, TRUE).user = user /\ LoansOf(user).user = user
      /\ TheAddress.at = "address"
  BY DEF BalancesOf, LoansOf, LoadTask, LoansTask, TheAddress
<1>4. new \in SUBSET Task /\ \A u \in new : ~IsAwaited(u) /\ u # TheAddress /\ u.user = user
  BY <1>3 DEF Task, IsAwaited
<1>5. tasks' = Becomes(t, new)
  BY <1>1
<1>6. /\ TasksTypeOK' /\ DOMAIN tasks' \subseteq DOMAIN tasks \cup new
      /\ new \subseteq DOMAIN tasks'
      /\ tasks[t] = 1 /\ t \notin new => t \notin DOMAIN tasks'
  <2> HIDE DEF new
  <2> QED
    BY <1>2, <1>4, <1>5, BecomesTasks DEF TypesInv
<1>7. OwnInv' /\ CleanInv'
  <2>1. ASSUME NEW u \in DOMAIN tasks, u # TheAddress
        PROVE  u.user \in {user} \cup strays'
    <3>1. u.user \in Users /\ u.user \in {wallet} \cup strays
      BY <1>2, <2>1, TaskKinds DEF SessionInv, OwnInv, TypesInv, TasksTypeOK, LoadTask, LoansTask,
         Transaction
    <3> QED
      BY <1>1, <3>1, SessionAssumption
  <2>2. {balances, positions} \subseteq {user, NoUser} \cup strays'
    BY <1>1 DEF SessionInv, OwnInv
  <2>3. OwnInv'
    BY <1>1, <1>4, <1>6, <2>1, <2>2 DEF OwnInv
  <2>4. ASSUME clean
        PROVE  DOMAIN tasks' \subseteq new
    <3>1. DOMAIN tasks = {t} /\ tasks[t] = 1
      BY <1>2, <2>4 DEF SessionInv, CleanInv
    <3> QED
      BY <1>2, <1>4, <1>6, <3>1
  <2>5. CleanInv'
    BY <1>1, <1>2, <1>4, <2>4 DEF CleanInv
  <2> QED
    BY <2>3, <2>5
<1>8. SettledInv'
  <2>1. LoadsAt({"balances"})' /\ LoadsAt({"balances", "positions"})'
    BY <1>3, <1>6 DEF LoadsAt
  <2>2. \E u \in DOMAIN tasks' : u.at = "loans"
    BY <1>3, <1>6
  <2> QED
    BY <2>1, <2>2 DEF SettledInv
<1>9. OutcomesInv'
  <2> HIDE DEF new
  <2> QED
    BY <1>1, <1>4, <1>5, BecomesOutcomes
<1>10. TypesInv'
  BY <1>1, <1>2, <1>6 DEF TypesInv, ScreenTypeOK, FeedTypeOK, feedVars
<1> QED
  BY <1>7, <1>8, <1>9, <1>10 DEF SessionInv

\* The balances are shown, and the positions asked for.
LEMMA BalancesStep ==
  ASSUME SessionInv, BalancesAnswered
  PROVE  SessionInv'
<1>1. PICK t \in DOMAIN tasks :
        /\ t.at = "balances" /\ balances' = t.user
        /\ tasks' = Becomes(t, {[t EXCEPT !.at = "positions"]})
        /\ UNCHANGED <<page, wallet, positions, publicKey, stored, loans, feedVars, form, history>>
  BY DEF BalancesAnswered, At, BagToSet
<1> DEFINE next == [t EXCEPT !.at = "positions"]
<1>2. TypesInv /\ t \in LoadTask /\ t # TheAddress
  <2>1. TheAddress.at = "address"
    BY DEF TheAddress
  <2> QED
    BY <1>1, <2>1, TaskKinds DEF SessionInv, TypesInv, TasksTypeOK, LoansTask, Transaction
<1>3. /\ next \in LoadTask /\ next.at = "positions" /\ next.user = t.user /\ next.load = t.load
      /\ next # TheAddress /\ t.user \in Users /\ t.load \in BOOLEAN
  BY <1>1, <1>2 DEF LoadTask, TheAddress
<1>4. tasks' = Becomes(t, {next})
  BY <1>1
<1> HIDE DEF next
<1>5. {next} \in SUBSET Task /\ ~IsAwaited(next)
  BY <1>3 DEF Task, IsAwaited
<1>6. /\ TasksTypeOK' /\ next \in DOMAIN tasks'
      /\ \A u \in DOMAIN tasks : u # t => u \in DOMAIN tasks'
  BY <1>2, <1>4, <1>5, BecomesTasks DEF TypesInv
<1>7. clean => t.user = wallet
  BY <1>2 DEF SessionInv, CleanInv
<1>8. OwnInv' /\ CleanInv'
  BY <1>1, <1>2, <1>3, <1>4, <1>5, <1>7, BecomesOwn DEF history
<1>9. SettledInv'
  <2>1. ASSUME clean, wallet # NoUser
        PROVE  /\ (positions = wallet /\ publicKey = wallet /\ stored)
                    \/ LoadsAt({"balances", "positions"})'
               /\ loans = wallet \/ \E u \in DOMAIN tasks' : u.at = "loans"
    <3>1. LoadsAt({"balances", "positions"}) => LoadsAt({"balances", "positions"})'
      BY <1>1, <1>3, <1>6 DEF LoadsAt
    <3>2. (\E u \in DOMAIN tasks : u.at = "loans") => \E u \in DOMAIN tasks' : u.at = "loans"
      BY <1>1, <1>6
    <3> QED
      BY <2>1, <3>1, <3>2 DEF SessionInv, SettledInv
  <2> QED
    BY <1>1, <1>7, <2>1 DEF SettledInv, history
<1>10. OutcomesInv'
  <2>1. form' = form /\ \A u \in {next} : ~IsAwaited(u)
    BY <1>1, <1>5
  <2> QED
    BY <1>4, <1>5, <2>1, BecomesOutcomes
<1>11. TypesInv'
  BY <1>1, <1>2, <1>3, <1>6 DEF TypesInv, ScreenTypeOK, FeedTypeOK, feedVars, history
<1> QED
  BY <1>8, <1>9, <1>10, <1>11 DEF SessionInv

\* The positions are shown; loading ends with the key and the stored state.
LEMMA PositionsStep ==
  ASSUME SessionInv, PositionsAnswered
  PROVE  SessionInv'
<1>1. PICK t \in DOMAIN tasks :
        /\ t.at = "positions" /\ positions' = t.user
        /\ publicKey' = (IF t.load THEN t.user ELSE publicKey)
        /\ stored' = (stored \/ t.load)
        /\ tasks' = Becomes(t, {})
        /\ UNCHANGED <<page, wallet, balances, loans, feedVars, form, history>>
  BY DEF PositionsAnswered, At, BagToSet
<1>2. TypesInv /\ t \in LoadTask /\ t # TheAddress
  <2>1. TheAddress.at = "address"
    BY DEF TheAddress
  <2> QED
    BY <1>1, <2>1, TaskKinds DEF SessionInv, TypesInv, TasksTypeOK, LoansTask, Transaction
<1>3. t.user \in Users /\ t.load \in BOOLEAN
  BY <1>2 DEF LoadTask
<1>4. TasksTypeOK' /\ \A u \in DOMAIN tasks : u # t => u \in DOMAIN tasks'
  BY <1>1, <1>2, BecomesTasks DEF TypesInv
<1>5. clean => t.user = wallet
  BY <1>2 DEF SessionInv, CleanInv
<1>6. OwnInv' /\ CleanInv'
  BY <1>1, <1>2, <1>5, BecomesOwn DEF history
<1>7. SettledInv'
  <2>1. ASSUME clean, wallet # NoUser
        PROVE  /\ balances = wallet \/ LoadsAt({"balances"})'
               /\ (positions' = wallet /\ publicKey' = wallet /\ stored')
                    \/ LoadsAt({"balances", "positions"})'
               /\ loans = wallet \/ \E u \in DOMAIN tasks' : u.at = "loans"
    <3>1. LoadsAt({"balances"}) => LoadsAt({"balances"})'
      BY <1>1, <1>4 DEF LoadsAt
    <3>2. t.load \/ (LoadsAt({"balances", "positions"}) => LoadsAt({"balances", "positions"})')
      BY <1>4 DEF LoadsAt
    <3>3. (\E u \in DOMAIN tasks : u.at = "loans") => \E u \in DOMAIN tasks' : u.at = "loans"
      BY <1>1, <1>4
    <3>4. t.load => positions' = wallet /\ publicKey' = wallet /\ stored'
      BY <1>1, <1>5, <2>1
    <3>5. ~t.load => publicKey' = publicKey /\ (stored => stored') /\ positions' = wallet
      BY <1>1, <1>3, <1>5, <2>1
    <3> QED
      BY <2>1, <3>1, <3>2, <3>3, <3>4, <3>5 DEF SessionInv, SettledInv
  <2> QED
    BY <1>1, <2>1 DEF SettledInv, history
<1>8. OutcomesInv'
  BY <1>1, BecomesOutcomes
<1>9. TypesInv'
  <2>1. stored' \in BOOLEAN /\ publicKey' \in Users \cup {NoUser}
    BY <1>1, <1>2, <1>3 DEF TypesInv, ScreenTypeOK
  <2> QED
    BY <1>1, <1>2, <1>3, <1>4, <2>1 DEF TypesInv, ScreenTypeOK, FeedTypeOK, feedVars, history
<1> QED
  BY <1>6, <1>7, <1>8, <1>9 DEF SessionInv

\* A request for what is the user's fails.
LEMMA FailStep ==
  ASSUME SessionInv, LoadFails \/ LoansFail
  PROVE  SessionInv'
<1>1. PICK t \in DOMAIN tasks :
        /\ t.at \in {"address", "balances", "positions", "loans"} /\ tasks' = Becomes(t, {})
        /\ stored' \in BOOLEAN /\ clean' = FALSE
        /\ \/ loans' = loans
           \/ t.at = "loans" /\ loans' = "none"
        /\ UNCHANGED <<page, wallet, balances, positions, publicKey, feedVars, form, strays>>
  <2>1. CASE LoadFails
    BY <2>1 DEF LoadFails, At, BagToSet
  <2>2. CASE LoansFail
    BY <2>2 DEF LoansFail, At, BagToSet, sessionVars, SessionInv, TypesInv, ScreenTypeOK
  <2> QED
    BY <2>1, <2>2
<1>2. TypesInv /\ (t.at = "loans" => t # TheAddress)
  <2>1. TheAddress.at = "address"
    BY DEF TheAddress
  <2> QED
    BY <2>1 DEF SessionInv
<1>3. TasksTypeOK'
  BY <1>1, <1>2, BecomesTasks DEF TypesInv
<1>4. OwnInv' /\ CleanInv'
  BY <1>1, <1>2, BecomesOwn
<1>5. SettledInv'
  BY <1>1 DEF SettledInv
<1>6. OutcomesInv'
  BY <1>1, BecomesOutcomes
<1>7. TypesInv'
  BY <1>1, <1>2, <1>3 DEF TypesInv, ScreenTypeOK, FeedTypeOK, feedVars
<1> QED
  BY <1>4, <1>5, <1>6, <1>7 DEF SessionInv

\* The loans are shown.
LEMMA LoansStep ==
  ASSUME SessionInv, LoansAnswered
  PROVE  SessionInv'
<1>1. PICK t \in DOMAIN tasks :
        /\ t.at = "loans" /\ loans' = t.user /\ tasks' = Becomes(t, {})
        /\ UNCHANGED <<page, sessionVars, feedVars, form, history>>
  BY DEF LoansAnswered, At, BagToSet
<1>2. TypesInv /\ t \in LoansTask /\ t # TheAddress
  <2>1. TheAddress.at = "address"
    BY DEF TheAddress
  <2> QED
    BY <1>1, <2>1, TaskKinds DEF SessionInv, TypesInv, TasksTypeOK, LoadTask, Transaction
<1>3. TasksTypeOK' /\ \A u \in DOMAIN tasks : u # t => u \in DOMAIN tasks'
  BY <1>1, <1>2, BecomesTasks DEF TypesInv
<1>4. clean => t.user = wallet
  BY <1>2 DEF SessionInv, CleanInv
<1>5. OwnInv' /\ CleanInv'
  BY <1>1, <1>2, <1>4, BecomesOwn DEF sessionVars, history
<1>6. SettledInv'
  <2>1. /\ LoadsAt({"balances"}) => LoadsAt({"balances"})'
        /\ LoadsAt({"balances", "positions"}) => LoadsAt({"balances", "positions"})'
    BY <1>1, <1>3 DEF LoadsAt
  <2> QED
    BY <1>1, <1>4, <2>1 DEF SessionInv, SettledInv, sessionVars, history
<1>7. OutcomesInv'
  BY <1>1, BecomesOutcomes
<1>8. TypesInv'
  <2>1. loans' \in Users
    BY <1>1, <1>2 DEF LoansTask
  <2> QED
    BY <1>1, <1>2, <1>3, <2>1 DEF TypesInv, ScreenTypeOK, FeedTypeOK, feedVars, sessionVars, history
<1> QED
  BY <1>5, <1>6, <1>7, <1>8 DEF SessionInv

\* A transaction that is simulated is sent, one that ends outside a try is over.
LEMMA SimulationStep ==
  ASSUME SessionInv, NEW t \in DOMAIN tasks, t.at = "simulate",
         NEW new \in {{}, {[t EXCEPT !.at = "send"]}}, tasks' = Becomes(t, new),
         UNCHANGED <<page, sessionVars, loans, feedVars, form, history>>
  PROVE  SessionInv'
<1> USE DEF sessionVars, history
<1>1. TypesInv /\ t \in Transaction /\ t # TheAddress
  <2>1. TheAddress.at = "address"
    BY DEF TheAddress
  <2> QED
    BY <2>1, TaskKinds DEF SessionInv, TypesInv, TasksTypeOK, LoansTask, LoadTask
<1>2. \A u \in new : /\ u \in Transaction /\ u.at = "send" /\ u.form = t.form /\ u.user = t.user
                     /\ u.mounted = t.mounted /\ u # t /\ new = {u}
  BY <1>1 DEF Transaction
<1>3. new \in SUBSET Task /\ \A u \in new : u # TheAddress
  BY <1>2 DEF Task, TheAddress
<1>4. TasksTypeOK' /\ \A u \in DOMAIN tasks : u # t => u \in DOMAIN tasks'
  BY <1>1, <1>3, BecomesTasks DEF TypesInv
<1>5. OwnInv' /\ CleanInv'
  BY <1>1, <1>2, <1>3, BecomesOwn
<1>6. SettledInv'
  <2>1. /\ LoadsAt({"balances"}) => LoadsAt({"balances"})'
        /\ LoadsAt({"balances", "positions"}) => LoadsAt({"balances", "positions"})'
    BY <1>4 DEF LoadsAt
  <2>2. (\E u \in DOMAIN tasks : u.at = "loans") => \E u \in DOMAIN tasks' : u.at = "loans"
    BY <1>4
  <2> QED
    BY <2>1, <2>2 DEF SessionInv, SettledInv
<1>7. OutcomesInv'
  <2>1. \A u \in new : IsAwaited(u) => IsAwaited(t)
    BY <1>2 DEF IsAwaited
  <2> QED
    BY <1>2, <1>3, <2>1, BecomesOutcomes
<1>8. TypesInv'
  BY <1>1, <1>4 DEF TypesInv, ScreenTypeOK, FeedTypeOK, feedVars
<1> QED
  BY <1>5, <1>6, <1>7, <1>8 DEF SessionInv

\* A handler ends with an outcome; what it asks for is its own account's.
LEMMA FinishStep ==
  ASSUME SessionInv, NEW t \in DOMAIN tasks, t.at \in {"simulate", "send"},
         NEW outcome \in {"success", "error"}, Finish(t, outcome)
  PROVE  SessionInv'
<1> DEFINE refetches == t.form \in RefetchingForms
           new == IF refetches THEN {LoansOf(t.user), BalancesOf(t.user, FALSE)} ELSE {}
<1>1. TypesInv /\ t \in Transaction /\ t # TheAddress
  <2>1. TheAddress.at = "address"
    BY DEF TheAddress
  <2> QED
    BY <2>1, TaskKinds DEF SessionInv, TypesInv, TasksTypeOK, LoansTask, LoadTask
<1>2. /\ form' = (IF t.mounted THEN [form EXCEPT ![t.form] = outcome] ELSE form)
      /\ loans' = (IF refetches THEN "loading" ELSE loans)
      /\ tasks' = Becomes(t, new)
      /\ UNCHANGED <<page, sessionVars, feedVars, history>>
  BY DEF Finish
<1>3. t.user \in Users /\ t.mounted \in BOOLEAN /\ t.form \in Forms
  BY <1>1 DEF Transaction
<1>4. /\ LoansOf(t.user) \in LoansTask /\ LoansOf(t.user).at = "loans"
      /\ LoansOf(t.user).user = t.user
      /\ BalancesOf(t.user, FALSE) \in LoadTask /\ BalancesOf(t.user, FALSE).at = "balances"
      /\ BalancesOf(t.user, FALSE).user = t.user
      /\ TheAddress.at = "address"
  BY <1>3 DEF LoansOf, BalancesOf, LoansTask, LoadTask, TheAddress
<1>5. /\ new \in SUBSET Task
      /\ \A u \in new : u # TheAddress /\ u.user = t.user /\ ~IsAwaited(u)
  BY <1>4 DEF Task, IsAwaited
<1>6. refetches => LoansOf(t.user) \in new
  OBVIOUS
<1> HIDE DEF new, refetches
<1>7. /\ TasksTypeOK' /\ new \subseteq DOMAIN tasks'
      /\ \A u \in DOMAIN tasks : u # t => u \in DOMAIN tasks'
  BY <1>1, <1>2, <1>5, BecomesTasks DEF TypesInv
<1>8. OwnInv' /\ CleanInv'
  BY <1>1, <1>2, <1>5, BecomesOwn DEF sessionVars, history
<1>9. SettledInv'
  <2>1. /\ LoadsAt({"balances"}) => LoadsAt({"balances"})'
        /\ LoadsAt({"balances", "positions"}) => LoadsAt({"balances", "positions"})'
    BY <1>7 DEF LoadsAt
  <2>2. (\E u \in DOMAIN tasks : u.at = "loans") => \E u \in DOMAIN tasks' : u.at = "loans"
    BY <1>7
  <2>3. refetches => \E u \in DOMAIN tasks' : u.at = "loans"
    BY <1>4, <1>6, <1>7
  <2> QED
    BY <1>2, <2>1, <2>2, <2>3 DEF SessionInv, SettledInv, sessionVars, history
<1>10. OutcomesInv'
  <2>1. \/ form' = form
        \/ IsAwaited(t) /\ \A f \in Forms \ {t.form} : form'[f] = form[f]
    BY <1>1, <1>2, <1>3 DEF IsAwaited, TypesInv, ScreenTypeOK
  <2> QED
    BY <1>2, <1>5, <2>1, BecomesOutcomes
<1>11. TypesInv'
  <2>1. form' \in [Forms -> {"idle", "waiting", "success", "error"}]
    BY <1>1, <1>2, <1>3 DEF TypesInv, ScreenTypeOK
  <2>2. loans' \in Users \cup {"loading", "none"}
    BY <1>1, <1>2 DEF TypesInv, ScreenTypeOK
  <2>3. ScreenTypeOK'
    BY <1>1, <1>2, <2>1, <2>2 DEF TypesInv, ScreenTypeOK, sessionVars, history
  <2> QED
    BY <1>1, <1>2, <1>7, <2>3 DEF TypesInv, FeedTypeOK, feedVars
<1> QED
  BY <1>8, <1>9, <1>10, <1>11 DEF SessionInv

\* The steps of a form's task.
LEMMA TransactionStep ==
  ASSUME SessionInv, NEW f \in Forms, SimulationAnswered(f) \/ SimulationFails(f) \/ SendEnds(f)
  PROVE  SessionInv'
<1>1. CASE SimulationAnswered(f)
  <2>1. PICK t \in DOMAIN tasks :
          /\ t.at = "simulate" /\ tasks' = Becomes(t, {[t EXCEPT !.at = "send"]})
          /\ UNCHANGED <<page, sessionVars, loans, feedVars, form, history>>
    BY <1>1 DEF SimulationAnswered, At, BagToSet
  <2> QED
    BY <2>1, SimulationStep
<1>2. CASE SimulationFails(f)
  <2>1. PICK t \in DOMAIN tasks :
          /\ t.at = "simulate"
          /\ \/ Finish(t, "error")
             \/ /\ tasks' = Becomes(t, {})
                /\ UNCHANGED <<page, sessionVars, loans, feedVars, form, history>>
    BY <1>2 DEF SimulationFails, At, BagToSet
  <2>2. CASE Finish(t, "error")
    BY <2>1, <2>2, FinishStep
  <2>3. CASE /\ tasks' = Becomes(t, {})
             /\ UNCHANGED <<page, sessionVars, loans, feedVars, form, history>>
    BY <2>1, <2>3, SimulationStep
  <2> QED
    BY <2>1, <2>2, <2>3
<1>3. CASE SendEnds(f)
  <2>1. PICK t \in DOMAIN tasks, outcome \in {"success", "error"} :
          t.at = "send" /\ Finish(t, outcome)
    BY <1>3 DEF SendEnds, At, BagToSet
  <2> QED
    BY <2>1, FinishStep
<1> QED
  BY <1>1, <1>2, <1>3

-----------------------------------------------------------------------------
(* The theorems. *)

\* Every step of the session keeps the invariant.
LEMMA SessionStep ==
  ASSUME SessionInv, [SessionNext]_vars
  PROVE  SessionInv'
<1>1. CASE Reload
  BY <1>1, ReloadStep
<1>2. CASE \E p \in Pages : Navigate(p)
  BY <1>2, NavigateStep
<1>3. CASE Connect
  BY <1>3, ConnectStep
<1>4. CASE DisconnectWallet
  BY <1>4, DisconnectStep
<1>5. CASE \E u \in Users : AddressAnswered(u)
  BY <1>5, AddressStep
<1>6. CASE BalancesAnswered
  BY <1>6, BalancesStep
<1>7. CASE PositionsAnswered
  BY <1>7, PositionsStep
<1>8. CASE LoadFails \/ LoansFail
  BY <1>8, FailStep
<1>9. CASE LoansAnswered
  BY <1>9, LoansStep
<1>10. CASE ChangePools \/ Poll \/ ServePools \/ PoolsAnswered \/ PoolsFail
  BY <1>10, PoolSteps
<1>11. ASSUME NEW f \in Forms,
              Click(f) \/ SimulationAnswered(f) \/ SimulationFails(f) \/ SendEnds(f)
                \/ Dismiss(f) \/ Leave(f)
       PROVE  SessionInv'
  <2>1. CASE Click(f)
    BY <2>1, ClickStep
  <2>2. CASE SimulationAnswered(f) \/ SimulationFails(f) \/ SendEnds(f)
    BY <2>2, TransactionStep
  <2>3. CASE Dismiss(f) \/ Leave(f)
    BY <2>3, CloseStep
  <2> QED
    BY <1>11, <2>1, <2>2, <2>3
<1>12. CASE UNCHANGED vars
  <2>1. UNCHANGED <<page, wallet, balances, positions, publicKey, stored, loans, pools, version,
                    feed, form, tasks, strays, clean>>
    BY <1>12 DEF vars, sessionVars, feedVars, history
  <2>2. TypesInv'
    BY <2>1 DEF SessionInv, TypesInv, TasksTypeOK, ScreenTypeOK, FeedTypeOK
  <2>3. OwnInv' /\ CleanInv' /\ SettledInv'
    BY <2>1 DEF SessionInv, OwnInv, CleanInv, SettledInv, LoadsAt
  <2>4. OutcomesInv'
    BY <2>1 DEF SessionInv, OutcomesInv, IsAwaited
  <2> QED
    BY <2>2, <2>3, <2>4 DEF SessionInv
<1> QED
  BY <1>1, <1>2, <1>3, <1>4, <1>5, <1>6, <1>7, <1>8, <1>9, <1>10, <1>11, <1>12 DEF SessionNext

\* The invariant holds whatever is fair.
LEMMA SessionHolds == SessionSpec => []SessionInv
<1>1. SessionSpec => SessionInit /\ [][SessionNext]_vars
  BY PTL DEF SessionSpec
<1>2. SessionInv /\ [SessionNext]_vars => SessionInv'
  BY SessionStep
<1> QED
  BY <1>1, <1>2, InitiallyInv, PTL

\* The variables of the tab have their types: whatever is under way is a request
\* of WalletProvider, LoansProvider, PoolProvider or a form.
THEOREM SessionTypeCorrect == SessionSpec => []SessionTypeOK
<1>1. SessionInv => SessionTypeOK
  BY DEF SessionInv, TypesInv, TasksTypeOK, ScreenTypeOK, FeedTypeOK, SessionTypeOK, BagToSet
<1> QED
  BY <1>1, SessionHolds, PTL

\* Beside the connected account no balances, positions or loans of another are
\* shown but those that were asked for when the wallet was changed from it.
THEOREM OnlyOwnDataStaysShown == SessionSpec => []OnlyOwnDataIsShown
<1>1. SessionInv => OnlyOwnDataIsShown
  BY DEF SessionInv, OwnInv, OnlyOwnDataIsShown
<1> QED
  BY <1>1, SessionHolds, PTL

\* A session that met nothing under way when it was connected, and none of whose
\* requests failed, shows its own account's data and no other's once everything
\* is answered, whatever the sessions before it had left behind.
THEOREM SettledStaysConsistent == SessionSpec => []SettledIsConsistent
<1>1. SessionInv => SettledIsConsistent
  <2> SUFFICES ASSUME SessionInv, IsSettled
               PROVE  SettledIsConsistent
    BY DEF SettledIsConsistent
  <2>1. DOMAIN tasks = {} /\ clean
    BY NoBag DEF IsSettled
  <2>2. CASE wallet = NoUser
    BY <2>1, <2>2 DEF SessionInv, CleanInv, SettledIsConsistent
  <2>3. CASE wallet # NoUser
    BY <2>1, <2>3 DEF SessionInv, SettledInv, LoadsAt, SettledIsConsistent
  <2> QED
    BY <2>2, <2>3
<1> QED
  BY <1>1, SessionHolds, PTL

\* A form that awaits the end of a transaction says that it waits, and awaits no
\* other: the outcome it shows is that of its own last click.
THEOREM OutcomesStayBelonging == SessionSpec => []OutcomesBelong
<1>1. SessionInv => OutcomesBelong
  <2> SUFFICES ASSUME SessionInv, NEW f \in Forms, Awaited(f) # {}
               PROVE  /\ form[f] = "waiting" /\ Cardinality(Awaited(f)) = 1
                      /\ \A t \in Awaited(f) : tasks[t] = 1
    BY DEF OutcomesBelong
  <2>1. Awaited(f) = {t \in DOMAIN tasks : IsAwaited(t) /\ t.form = f}
    BY DEF Awaited, At, BagToSet, IsAwaited
  <2>2. PICK t \in DOMAIN tasks : IsAwaited(t) /\ t.form = f
    BY <2>1
  <2>3. Awaited(f) = {t}
    BY <2>1, <2>2 DEF SessionInv, OutcomesInv
  <2> QED
    BY <2>2, <2>3, FS_Singleton DEF SessionInv, OutcomesInv
<1> QED
  BY <1>1, SessionHolds, PTL

=============================================================================
