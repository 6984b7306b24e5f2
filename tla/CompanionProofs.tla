--------------------------- MODULE CompanionProofs ---------------------------
(***************************************************************************)
(* Facts about Companion for every set of operations, every cap and every  *)
(* bound: the sign-out barrier is exact and keeps what it promises.        *)
(***************************************************************************)
EXTENDS Companion, FiniteSetTheorems, TLAPS

-----------------------------------------------------------------------------
(* The inductive invariants *)

\* The counter and what it counts.
CountTypes ==
    /\ activity \in Int
    /\ active \in SUBSET Op /\ IsFiniteSet(active)
    /\ relay \in RelayStep /\ pair \in PairStep

CountInv == CountTypes /\ ActivityIsHeld /\ SendersAwaited

\* A sign-out has disabled the transport, then cleared the pairings, then
\* revoked the phone; none of it is undone before the sign-out ends.
SignOutHolds ==
    /\ logout # "none" => ~enabled /\ signedIn
    /\ logout \notin {"none", "disabled"} => ~pairings
    /\ logout = "clearing" => device # "active"

\* Without an account no pairing command gets past its check.
SignedOutIsShut ==
    ~signedIn => device # "active" /\ ~pairings /\ pair \notin PairOpen

ShutTypes ==
    /\ enabled \in BOOLEAN /\ signedIn \in BOOLEAN /\ pairings \in BOOLEAN
    /\ logout \in LogoutStep

ShutInv ==
    /\ ShutTypes
    /\ SignOutHolds
    /\ SignOutIsQuiet
    /\ SignedOutIsShut
    /\ DisabledOnlyBySignOut

-----------------------------------------------------------------------------
(* Lemmas about the vocabulary *)

\* The steps of the relay task, of a pairing command and of a sign-out.
LEMMA Steps ==
    /\ RelayStep = {"off", "begin", "connect", "online", "lookup", "reserve", "dispatch",
                    "acted", "window", "answered", "send", "resting"}
    /\ Working = {"connect", "online", "lookup", "reserve", "dispatch", "acted", "window",
                  "answered", "send"}
    /\ PairStep = {"idle", "qr", "qr_open", "approve", "approve_open", "insert", "wait_new",
                   "wait_old"}
    /\ PairOpen = {"qr_open", "approve_open", "insert", "wait_new", "wait_old"}
    /\ LogoutStep = {"none", "disabled", "stopping", "draining", "revoking", "clearing"}
BY DEF RelayStep, Working, PairStep, PairOpen, LogoutStep

\* The number of operations in the window is a number, and 0 only of none.
LEMMA CountIsNat ==
    ASSUME CountTypes
    PROVE  Cardinality(active) \in Nat /\ (Cardinality(active) = 0 => active = {})
BY FS_CardinalityType, FS_EmptySet DEF CountTypes

\* How that number changes when an operation is added and when one is finished.
LEMMA CountAdds ==
    ASSUME CountTypes, NEW o
    PROVE  /\ IsFiniteSet(active \cup {o})
           /\ Cardinality(active \cup {o}) =
                  IF o \in active THEN Cardinality(active) ELSE Cardinality(active) + 1
BY FS_AddElement DEF CountTypes

\* Ending one activity takes exactly one from the count of a held one.
LEMMA CountDrops ==
    ASSUME CountTypes, NEW o
    PROVE  /\ IsFiniteSet(active \ {o})
           /\ Cardinality(active \ {o}) =
                  IF o \in active THEN Cardinality(active) - 1 ELSE Cardinality(active)
BY FS_RemoveElement DEF CountTypes

\* The operation a stopped relay task takes with it.
LEMMA CountMine ==
    ASSUME CountTypes, NEW o
    PROVE  /\ active \ (active \cap {o}) = active \ {o}
           /\ Cardinality(active \cap {o}) = IF o \in active THEN 1 ELSE 0
<1>1. CASE o \in active
  <2>1. active \cap {o} = {o} BY <1>1
  <2> QED BY <1>1, <2>1, FS_Singleton
<1>2. CASE o \notin active
  <2>1. active \cap {o} = {} BY <1>2
  <2> QED BY <1>2, <2>1, FS_EmptySet
<1> QED BY <1>1, <1>2

-----------------------------------------------------------------------------
(* The counter is exact *)

\* Finishing an operation ends its activity once, whoever comes second.
LEMMA FinishCounts ==
    ASSUME CountInv, NEW o, Finish(o), UNCHANGED pair, relay' \in RelayStep,
           relay \notin {"off", "resting"} <=> relay' \notin {"off", "resting"}
    PROVE  CountTypes' /\ ActivityIsHeld'
BY CountIsNat, CountDrops, Steps DEF CountInv, CountTypes, ActivityIsHeld, TaskHolds, Finish

\* Nothing is active when the app has started.
LEMMA CountInit == Init => CountInv
<1> SUFFICES ASSUME Init PROVE CountInv OBVIOUS
<1>1. CountTypes BY Steps, FS_EmptySet DEF Init, CountTypes
<1>2. ActivityIsHeld BY FS_EmptySet DEF Init, ActivityIsHeld, TaskHolds
<1>3. SendersAwaited BY DEF Init, SendersAwaited
<1> QED BY <1>1, <1>2, <1>3 DEF CountInv

\* The task's own loop.
LEMMA CountRelay == CountInv /\ RelayStays => CountInv'
<1> SUFFICES ASSUME CountInv, RelayStays PROVE CountInv' OBVIOUS
<1> USE CountIsNat, Steps DEF CountInv, CountTypes, ActivityIsHeld, SendersAwaited, TaskHolds,
        barrier, account, task
<1>1. CASE RelayChecks
  <2>1. CASE enabled /\ ((device = "active" /\ signedIn) \/ pairings)
    BY <1>1, <2>1 DEF RelayChecks
  <2>2. CASE ~(enabled /\ ((device = "active" /\ signedIn) \/ pairings))
    BY <1>1, <2>2 DEF RelayChecks
  <2> QED BY <2>1, <2>2
<1>2. CASE RelayConnects BY <1>2 DEF RelayConnects
<1>3. CASE RelayEnds BY <1>3 DEF RelayEnds, RelayLeaves
<1>4. CASE RelayRetries BY <1>4 DEF RelayRetries
<1>5. CASE RelayGivesUp BY <1>5 DEF RelayGivesUp
<1> QED BY <1>1, <1>2, <1>3, <1>4, <1>5 DEF RelayStays

\* A request being served.
LEMMA CountServe ==
    ASSUME CountInv, NEW o \in Op, Receive(o) \/ ServeStep(o) PROVE CountInv'
<1> USE CountIsNat, Steps DEF CountInv, CountTypes, ActivityIsHeld, SendersAwaited, TaskHolds,
        barrier, account, task, Answered
<1>1. CASE Receive(o) BY <1>1 DEF Receive
<1>2. CASE ServeStep(o)
  <2>1. serving = o BY <1>2 DEF ServeStep
  <2>2. CASE Lookup(o) BY <2>1, <2>2 DEF Lookup
  <2>3. CASE Reserve(o) BY <2>1, <2>3 DEF Reserve
  <2>4. CASE DispatchHere(o) \/ DispatchRead(o)
    BY <2>1, <2>4 DEF DispatchHere, DispatchRead
  <2>5. CASE DispatchRevoke(o) BY <2>1, <2>5 DEF DispatchRevoke
  <2>6. CASE DispatchToWindow(o)
    <3>1. CASE UNCHANGED <<pending, active, activity>> /\ relay' = "answered"
      BY <2>1, <2>6, <3>1 DEF DispatchToWindow
    <3>2. CASE /\ relay' = "window" /\ pending' = pending \cup {o}
               /\ active' = active \cup {o}
               /\ activity' = IF o \in active THEN activity ELSE activity + 1
      <4>1. UNCHANGED <<serving, pair>> /\ relay = "dispatch"
        BY <2>6 DEF DispatchToWindow
      <4>2. /\ IsFiniteSet(active')
            /\ Cardinality(active') =
                   IF o \in active THEN Cardinality(active) ELSE Cardinality(active) + 1
        BY <3>2, CountAdds
      <4>3. CountTypes' BY <3>2, <4>1, <4>2
      <4>4. ActivityIsHeld' BY <3>2, <4>1, <4>2
      <4>5. SendersAwaited' BY <2>1, <3>2, <4>1
      <4> QED BY <4>3, <4>4, <4>5
    <3> QED BY <2>6, <3>1, <3>2 DEF DispatchToWindow
  <2>7. CASE WindowTimeout(o) BY FinishCounts, <2>1, <2>7 DEF WindowTimeout
  <2>8. CASE SaveInDispatch(o) BY <2>1, <2>8 DEF SaveInDispatch
  <2>9. CASE SaveAnswer(o) BY <2>1, <2>9 DEF SaveAnswer, RelayLeaves
  <2>10. CASE SendAnswer(o) BY <2>1, <2>10 DEF SendAnswer, RelayLeaves
  <2> QED BY <1>2, <2>2, <2>3, <2>4, <2>5, <2>6, <2>7, <2>8, <2>9, <2>10 DEF ServeStep
<1> QED BY <1>1, <1>2

\* A registered sender means that the relay task waits for its answer.
LEMMA SenderWaits ==
    ASSUME CountInv, NEW o \in pending PROVE relay = "window" /\ serving = o
BY DEF CountInv, SendersAwaited

\* The window, in its own time.
LEMMA CountWindow ==
    ASSUME CountInv, NEW o \in Op, WindowMoves(o) PROVE CountInv'
<1>1. CASE WindowQueues(o) \/ WindowTakes(o) \/ WindowActs(o)
  BY <1>1 DEF WindowQueues, WindowTakes, WindowActs, CountInv, CountTypes, ActivityIsHeld,
     SendersAwaited, TaskHolds, barrier, account, task
<1>2. ASSUME NEW result \in {"ok", "refused", "busy"}, CompleteRequest(o, result)
      PROVE  CountInv'
  <2>1. CASE o \in pending
    <3>1. relay = "window" /\ serving = o BY <2>1, SenderWaits
    <3>2. CountTypes' /\ ActivityIsHeld'
      BY <1>2, <2>1, <3>1, FinishCounts, Steps DEF CompleteRequest, Answered, account
    <3>3. SendersAwaited'
      BY <1>2, <2>1, <3>1 DEF CompleteRequest, Answered, CountInv, SendersAwaited
    <3> QED BY <3>2, <3>3 DEF CountInv
  <2>2. CASE o \notin pending
    <3>1. CountTypes' /\ ActivityIsHeld'
      BY <1>2, <2>2, FinishCounts DEF CompleteRequest, account, CountInv, CountTypes
    <3>2. SendersAwaited'
      BY <1>2, <2>2 DEF CompleteRequest, CountInv, SendersAwaited
    <3> QED BY <3>1, <3>2 DEF CountInv
  <2> QED BY <2>1, <2>2
<1> QED BY <1>1, <1>2 DEF WindowMoves, WindowAnswers, QueueExpires

\* Pairing commands and the settings' revocation.
LEMMA CountPairing ==
    ASSUME CountInv,
           PairMoves \/ RevokeDevice \/ \E step \in {"qr", "approve"} : PairBegins(step)
    PROVE  CountInv'
<1> USE CountIsNat, Steps DEF CountInv, CountTypes, ActivityIsHeld, SendersAwaited, TaskHolds,
        barrier, account, task, PairEnds
<1>1. CASE \E step \in {"qr", "approve"} : PairBegins(step) BY <1>1 DEF PairBegins
<1>2. CASE PairChecks
  <2>1. CASE PairAllowed BY <1>2, <2>1 DEF PairChecks
  <2>2. CASE ~PairAllowed BY <1>2, <2>2 DEF PairChecks
  <2> QED BY <2>1, <2>2
<1>3. CASE RememberPairing BY <1>3 DEF RememberPairing
<1>4. CASE ReadPhone BY <1>4 DEF ReadPhone, Start, Starting
<1>5. CASE InsertPhone BY <1>5 DEF InsertPhone, Start, Starting
<1>6. CASE PairSettles BY <1>6 DEF PairSettles
<1>7. CASE RevokeDevice BY <1>7 DEF RevokeDevice
<1> QED BY <1>1, <1>2, <1>3, <1>4, <1>5, <1>6, <1>7 DEF PairMoves

\* Sign-out, sign-in and a new launch.
LEMMA CountSignOut ==
    ASSUME CountInv, LogoutBegins \/ LogoutMoves \/ SignIn \/ Crash PROVE CountInv'
<1> USE CountIsNat, Steps DEF CountInv, CountTypes, ActivityIsHeld, SendersAwaited, TaskHolds,
        barrier, account, task
<1>1. CASE LogoutBegins BY <1>1 DEF LogoutBegins
<1>2. CASE LogoutClearsPairings BY <1>2 DEF LogoutClearsPairings
<1>3. CASE LogoutStops
  <2>1. CASE relay = "window"
    <3>1. /\ relay' = "off" /\ pending' = pending \ {serving} /\ pair' = pair
          /\ active' = active \ {serving}
          /\ activity' = activity - 1 - (IF serving \in active THEN 1 ELSE 0)
      BY <1>3, <2>1, CountMine DEF LogoutStops
    <3>2. /\ IsFiniteSet(active')
          /\ Cardinality(active') =
                 IF serving \in active THEN Cardinality(active) - 1 ELSE Cardinality(active)
      BY <3>1, CountDrops
    <3>3. CountTypes' BY <3>1, <3>2
    <3>4. ActivityIsHeld' BY <2>1, <3>1, <3>2
    <3>5. SendersAwaited' BY <2>1, <3>1
    <3> QED BY <3>3, <3>4, <3>5
  <2>2. CASE relay # "window"
    <3>1. active' = active /\ pending' = pending /\ relay' = "off" /\ pair' = pair
      BY <1>3, <2>2 DEF LogoutStops
    <3>2. activity' = activity - TaskHolds
      BY <1>3, <2>2, FS_EmptySet DEF LogoutStops
    <3> QED BY <3>1, <3>2, <2>2
  <2> QED BY <2>1, <2>2
<1>4. CASE LogoutDrains BY <1>4 DEF LogoutDrains
<1>5. CASE LogoutGivesUp BY <1>5 DEF LogoutGivesUp, Start, Starting
<1>6. CASE LogoutRevokes BY <1>6 DEF LogoutRevokes
<1>7. CASE LogoutClearsTokens BY <1>7 DEF LogoutClearsTokens
<1>8. CASE SignIn BY <1>8 DEF SignIn, Start, Starting
<1>9. CASE Crash BY FS_EmptySet, <1>9 DEF Crash
<1> QED BY <1>1, <1>2, <1>3, <1>4, <1>5, <1>6, <1>7, <1>8, <1>9 DEF LogoutMoves

\* Every step of the relay, the window, pairing and sign-out keeps the count.
LEMMA CountNext == CountInv /\ [Next]_vars => CountInv'
<1> SUFFICES ASSUME CountInv, [Next]_vars PROVE CountInv' OBVIOUS
<1>1. CASE Next
  BY <1>1, CountRelay, CountServe, CountWindow, CountPairing, CountSignOut DEF Next
<1>2. CASE UNCHANGED vars
  BY <1>2 DEF vars, barrier, account, task, CountInv, CountTypes, ActivityIsHeld,
     SendersAwaited, TaskHolds
<1> QED BY <1>1, <1>2

\* The count holds throughout every behaviour.
LEMMA CountInvariant == Spec => []CountInv
BY CountInit, CountNext, PTL DEF Spec

-----------------------------------------------------------------------------
(* The barrier stays shut *)

\* No sign-out is under way when the app has started.
LEMMA ShutInit == Init => ShutInv
BY Steps DEF Init, ShutInv, ShutTypes, SignOutHolds, SignOutIsQuiet, SignedOutIsShut,
   DisabledOnlyBySignOut

\* The relay task can neither begin work nor go on with work it does not have
\* while the transport is disabled.
LEMMA ShutRelay ==
    ASSUME CountInv, ShutInv,
           RelayStays \/ \E o \in Op : Receive(o) \/ ServeStep(o) \/ WindowMoves(o)
    PROVE  ShutInv'
<1> USE Steps DEF ShutInv, ShutTypes, SignOutHolds, SignOutIsQuiet, SignedOutIsShut,
        DisabledOnlyBySignOut, db, barrier, account, task
<1>1. CASE RelayChecks BY <1>1 DEF RelayChecks
<1>2. CASE RelayConnects BY <1>2 DEF RelayConnects
<1>3. CASE RelayEnds BY <1>3 DEF RelayEnds, RelayLeaves
<1>4. CASE RelayRetries BY <1>4 DEF RelayRetries
<1>5. CASE RelayGivesUp BY <1>5 DEF RelayGivesUp
<1>6. ASSUME NEW o \in Op, Receive(o) PROVE ShutInv' BY <1>6 DEF Receive, Answered
<1>7. ASSUME NEW o \in Op, ServeStep(o) PROVE ShutInv'
  <2>1. /\ relay \in Working
        /\ UNCHANGED <<enabled, account>>
        /\ device' = device \/ device' # "active"
    BY <1>7 DEF ServeStep, Lookup, Reserve, DispatchHere, DispatchRead, DispatchRevoke,
       DispatchToWindow, WindowTimeout, SaveInDispatch, SaveAnswer, SendAnswer, Revoke
  <2> QED BY <2>1
<1>8. ASSUME NEW o \in Op, WindowMoves(o) PROVE ShutInv'
  <2>1. UNCHANGED <<enabled, account, device>> /\ (relay \in Working \/ UNCHANGED relay)
    BY <1>8, SenderWaits
    DEF WindowMoves, WindowQueues, WindowTakes, WindowActs, WindowAnswers, QueueExpires,
        CompleteRequest
  <2> QED BY <2>1
<1> QED BY <1>1, <1>2, <1>3, <1>4, <1>5, <1>6, <1>7, <1>8 DEF RelayStays

\* Pairing commands get past their check only while the transport is enabled.
LEMMA ShutPairing ==
    ASSUME ShutInv,
           PairMoves \/ RevokeDevice \/ \E step \in {"qr", "approve"} : PairBegins(step)
    PROVE  ShutInv'
<1> USE Steps DEF ShutInv, ShutTypes, SignOutHolds, SignOutIsQuiet, SignedOutIsShut,
        DisabledOnlyBySignOut, db, barrier, account, task, PairEnds
<1>1. CASE \E step \in {"qr", "approve"} : PairBegins(step) BY <1>1 DEF PairBegins
<1>2. CASE PairChecks
  <2>1. CASE PairAllowed BY <1>2, <2>1 DEF PairChecks, PairAllowed
  <2>2. CASE ~PairAllowed BY <1>2, <2>2 DEF PairChecks
  <2> QED BY <2>1, <2>2
<1>3. CASE RememberPairing BY <1>3 DEF RememberPairing
<1>4. CASE ReadPhone BY <1>4 DEF ReadPhone, Start
<1>5. CASE InsertPhone BY <1>5 DEF InsertPhone, Start
<1>6. CASE PairSettles BY <1>6 DEF PairSettles, Revoke
<1>7. CASE RevokeDevice BY <1>7 DEF RevokeDevice, Revoke
<1> QED BY <1>1, <1>2, <1>3, <1>4, <1>5, <1>6, <1>7 DEF PairMoves

\* A sign-out shuts the barrier step by step, and waits for the counter.
LEMMA ShutSignOut ==
    ASSUME CountInv, ShutInv, LogoutBegins \/ LogoutMoves \/ SignIn \/ Crash PROVE ShutInv'
<1> USE Steps DEF ShutInv, ShutTypes, SignOutHolds, SignOutIsQuiet, SignedOutIsShut,
        DisabledOnlyBySignOut, db, barrier, account, task
<1>1. CASE LogoutBegins BY <1>1 DEF LogoutBegins
<1>2. CASE LogoutClearsPairings BY <1>2 DEF LogoutClearsPairings
<1>3. CASE LogoutStops BY <1>3 DEF LogoutStops
<1>4. CASE LogoutDrains
  <2>1. activity = 0 BY <1>4 DEF LogoutDrains, Drained
  <2>2. relay \in {"off", "resting"} /\ pair = "idle"
    BY <2>1, CountIsNat DEF CountInv, ActivityIsHeld, TaskHolds
  <2> QED BY <1>4, <2>2 DEF LogoutDrains
<1>5. CASE LogoutGivesUp BY <1>5 DEF LogoutGivesUp
<1>6. CASE LogoutRevokes BY <1>6 DEF LogoutRevokes, Revoke
<1>7. CASE LogoutClearsTokens BY <1>7 DEF LogoutClearsTokens
<1>8. CASE SignIn BY <1>8 DEF SignIn
<1>9. CASE Crash BY <1>9 DEF Crash
<1> QED BY <1>1, <1>2, <1>3, <1>4, <1>5, <1>6, <1>7, <1>8, <1>9 DEF LogoutMoves

\* Every step keeps what a sign-out has shut; the count tells when it drained.
LEMMA ShutNext == CountInv /\ ShutInv /\ [Next]_vars => ShutInv'
<1> SUFFICES ASSUME CountInv, ShutInv, [Next]_vars PROVE ShutInv' OBVIOUS
<1>1. CASE Next BY <1>1, ShutRelay, ShutPairing, ShutSignOut DEF Next
<1>2. CASE UNCHANGED vars
  BY <1>2 DEF vars, db, barrier, account, task, ShutInv, ShutTypes, SignOutHolds,
     SignOutIsQuiet, SignedOutIsShut, DisabledOnlyBySignOut
<1> QED BY <1>1, <1>2

\* A barrier a sign-out has shut stays shut throughout every behaviour.
LEMMA ShutInvariant == Spec => []ShutInv
BY ShutInit, ShutNext, CountInvariant, PTL DEF Spec

-----------------------------------------------------------------------------
(* Theorems *)

\* The counter that wait_for_account_activity waits for is, at every moment,
\* the number of those that hold it.
THEOREM ActivityIsExact == Spec => []ActivityIsHeld
<1>1. CountInv => ActivityIsHeld BY DEF CountInv
<1> QED BY <1>1, CountInvariant, PTL

\* While prepare_account_logout revokes the account's phones and
\* os_accounts_logout clears its tokens, no relay work and no pairing command
\* is past the barrier.
THEOREM SignOutFindsQuiet == Spec => []SignOutIsQuiet
<1>1. ShutInv => SignOutIsQuiet BY DEF ShutInv
<1> QED BY <1>1, ShutInvariant, PTL

\* After a sign-out no phone is linked and no pairing is pending, whatever was
\* under way when it began.
THEOREM SignOutLeavesNothing == Spec => []SignedOutHoldsNothing
<1>1. ShutInv => SignedOutHoldsNothing
  BY DEF ShutInv, SignedOutIsShut, SignedOutHoldsNothing
<1> QED BY <1>1, ShutInvariant, PTL

\* A sign-out that gave up leaves the transport enabled.
THEOREM GivingUpReenables == Spec => []DisabledOnlyBySignOut
<1>1. ShutInv => DisabledOnlyBySignOut BY DEF ShutInv
<1> QED BY <1>1, ShutInvariant, PTL

\* No registered sender outlives the request it was registered for.
THEOREM SendersHaveWaiters == Spec => []SendersAwaited
<1>1. CountInv => SendersAwaited BY DEF CountInv
<1> QED BY <1>1, CountInvariant, PTL
=============================================================================
