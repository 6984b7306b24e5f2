------------------------ MODULE CompanionLedgerProofs ------------------------
(***************************************************************************)
(* The rows of Companion: their types, that reservations are spared, and   *)
(* that Companion implements OperationLedger: as long as the phone is      *)
(* linked no later than its first request and no row falls out of the cap, *)
(* an operation is executed at most once and has one true final answer.    *)
(***************************************************************************)
EXTENDS CompanionProofs

-----------------------------------------------------------------------------
(* Rows *)

Stored == {"pending", "completed"}

RowTypes ==
    /\ row \in [Op -> {"none", "pending", "completed"}]
    /\ saved \in [Op -> Answer]
    /\ history \subseteq Op \X Op

\* A write of row o by a request leaves the other rows alone, except that a
\* completed one may be pruned; o itself is pruned only as a completed one.
LEMMA WriteRows ==
    ASSUME RowTypes, NEW o \in Op, NEW state \in Stored, NEW response \in Answer,
           Write(o, state, response)
    PROVE  /\ RowTypes'
           /\ \A p \in Op \ {o} : \/ row'[p] = row[p] /\ saved'[p] = saved[p]
                                  \/ row[p] = "completed" /\ row'[p] = "none"
           /\ \/ row'[o] = state /\ saved'[o] = response
              \/ state = "completed" /\ row'[o] = "none"
<1> DEFINE older == IF row[o] = "none" THEN {p \in Op : row[p] # "none"} \X {o} ELSE {}
           order == history \cup older
           now   == [row EXCEPT ![o] = state]
           gone  == Pruned(order, now)
<1>1. gone \subseteq {p \in Op : now[p] = "completed"} BY DEF Pruned
<1>2. /\ history' = order \ ((gone \X Op) \cup (Op \X gone))
      /\ row' = [p \in Op |-> IF p \in gone THEN "none" ELSE now[p]]
      /\ saved' = [p \in Op |-> IF p \in gone THEN "none"
                                ELSE IF p = o THEN response ELSE saved[p]]
  BY DEF Write
<1>3. order \subseteq Op \X Op BY DEF RowTypes
<1>4. now \in [Op -> {"none", "pending", "completed"}] BY DEF RowTypes, Stored
<1> HIDE DEF older, order, gone
<1>5. "none" \in Answer BY DEF Answer
<1>6. RowTypes' BY <1>2, <1>3, <1>4, <1>5 DEF RowTypes
<1> QED BY <1>1, <1>2, <1>4, <1>6 DEF RowTypes, Stored

\* Saving an answer writes the row or leaves it.
LEMMA CompleteRows ==
    ASSUME RowTypes, NEW o \in Op, NEW response \in Answer,
           Complete(o, response) \/ Remember(o, response)
    PROVE  /\ RowTypes'
           /\ \A p \in Op \ {o} : \/ row'[p] = row[p] /\ saved'[p] = saved[p]
                                  \/ /\ row[p] = "completed" /\ row'[p] = "none"
                                     /\ device = "active"
<1>1. CASE Write(o, "completed", response) /\ device = "active"
  BY <1>1, WriteRows DEF Stored
<1>2. CASE UNCHANGED <<row, saved, history>> BY <1>2 DEF RowTypes
<1> QED BY <1>1, <1>2 DEF Complete, Remember

\* Revoking the phone removes every row.
LEMMA RevokeRows ==
    ASSUME NEW mark, Revoke(mark)
    PROVE  RowTypes' /\ \A p \in Op : row'[p] = "none" /\ saved'[p] = "none"
BY DEF Revoke, RowTypes, Answer

-----------------------------------------------------------------------------
(* Types *)

\* The types of what is not counted: activity is a number because it counts.
Uncounted ==
    /\ device \in {"none", "active", "revoked"} /\ RowTypes
    /\ enabled \in BOOLEAN /\ pending \subseteq Op /\ active \subseteq Op
    /\ relay \in RelayStep /\ serving \in Op \cup {NoOp} /\ answer \in Answer
    /\ window \in [Op -> WindowStep]
    /\ pair \in PairStep /\ logout \in LogoutStep /\ signedIn \in BOOLEAN
    /\ pairings \in BOOLEAN
    /\ effects \in [Op -> Nat] /\ told \in [Op -> SUBSET Answer]
    /\ sends \in [Op -> Nat] /\ crashes \in Nat /\ logouts \in Nat /\ pairs \in Nat

\* The rest of TypeOK follows from the count.
LEMMA TypesOfCount == ASSUME CountInv, Uncounted PROVE TypeOK
<1>1. activity \in Nat
  <2>1. activity = TaskHolds + Cardinality(active) + (IF pair = "idle" THEN 0 ELSE 1)
    BY DEF CountInv, ActivityIsHeld
  <2>2. Cardinality(active) \in Nat /\ TaskHolds \in {0, 1}
    BY CountIsNat DEF CountInv, TaskHolds
  <2> QED BY <2>1, <2>2
<1> QED BY <1>1 DEF TypeOK, Uncounted, RowTypes

\* What a step leaves alone keeps its type.
LEMMA SameRows == ASSUME RowTypes, UNCHANGED <<row, saved, history>> PROVE RowTypes'
BY DEF RowTypes

\* The answers there are.
LEMMA Answers ==
    /\ Answer = {"ok", "refused", "unknown", "denied", "none", "busy"}
    /\ Final = {"ok", "refused", "unknown", "denied"}
    /\ WindowStep = {"none", "emitted", "queued", "taken", "acted"}
BY DEF Answer, Final, WindowStep

\* No row, no answer and no bound used when the app starts for the first time.
LEMMA TypesInit == Init => Uncounted
<1> SUFFICES ASSUME Init PROVE Uncounted OBVIOUS
<1>1. RowTypes BY Answers DEF Init, RowTypes
<1> QED BY <1>1, Answers, Steps DEF Init, Uncounted

\* The relay task's own loop keeps the types.
LEMMA TypesRelay == ASSUME Uncounted, RelayStays PROVE Uncounted'
<1>1. UNCHANGED <<db, enabled, active, pending, window, account, observed, bounds>>
  BY DEF RelayStays, RelayChecks, RelayConnects, RelayEnds, RelayRetries, RelayGivesUp, barrier
<1>2. relay' \in RelayStep
  BY Steps DEF RelayStays, RelayChecks, RelayConnects, RelayEnds, RelayLeaves, RelayRetries,
     RelayGivesUp
<1>3. serving' \in {serving, NoOp} /\ answer' \in {answer, "none"}
  BY DEF RelayStays, RelayChecks, RelayConnects, RelayEnds, RelayLeaves, RelayRetries,
     RelayGivesUp
<1> QED BY <1>1, <1>2, <1>3, SameRows, Answers DEF Uncounted, db, account, observed, bounds

\* A request being served keeps the types.
LEMMA TypesServe == ASSUME Uncounted, NEW o \in Op, Receive(o) \/ ServeStep(o) PROVE Uncounted'
<1> USE Answers, Steps DEF Answered
<1>t. /\ answer \in Answer /\ RowTypes
      /\ saved[o] \in Answer /\ SavedFor(o) \in Answer
  BY DEF Uncounted, RowTypes, SavedFor
<1>1. CASE Receive(o)
  <2>1. UNCHANGED <<db, barrier, pending, window, account, observed, crashes, logouts, pairs>>
    BY <1>1 DEF Receive
  <2>2. relay' \in RelayStep /\ answer' \in {answer, "denied"} /\ serving' = o
        /\ sends' = [sends EXCEPT ![o] = @ + 1]
    BY <1>1 DEF Receive
  <2> QED BY <2>1, <2>2, SameRows DEF Uncounted, db, barrier, account, observed
<1>2. CASE Lookup(o) \/ Reserve(o)
  <2>1. UNCHANGED <<device, barrier, pending, serving, window, account, observed, bounds>>
    BY <1>2 DEF Lookup, Reserve, db
  <2>2. relay' \in RelayStep /\ answer' \in {answer, SavedFor(o), "busy"}
    BY <1>2 DEF Lookup, Reserve
  <2>3. UNCHANGED <<row, saved, history>> \/ Write(o, "pending", "unknown")
    BY <1>2 DEF Lookup, Reserve, Reservation, db
  <2>4. RowTypes' BY <1>t, <2>3, SameRows, WriteRows DEF Stored
  <2> QED BY <1>t, <2>1, <2>2, <2>4 DEF Uncounted, barrier, account, observed, bounds
<1>3. CASE DispatchHere(o) \/ DispatchRead(o)
  <2>1. UNCHANGED <<db, barrier, pending, serving, window, account, told, bounds>>
    BY <1>3 DEF DispatchHere, DispatchRead, observed
  <2>2. relay' \in RelayStep /\ answer' \in Answer
    BY <1>3 DEF DispatchHere, DispatchRead
  <2>3. effects' = effects \/ effects' = [effects EXCEPT ![o] = @ + 1]
    BY <1>3 DEF DispatchHere, DispatchRead, TakesEffect, observed
  <2> QED BY <2>1, <2>2, <2>3, SameRows DEF Uncounted, db, barrier, account, bounds
<1>4. CASE DispatchRevoke(o)
  <2>1. UNCHANGED <<barrier, pending, serving, window, account, told, bounds>>
    BY <1>4 DEF DispatchRevoke
  <2>2. relay' \in RelayStep /\ answer' \in Answer
    BY <1>4 DEF DispatchRevoke
  <2>3. effects' = effects \/ effects' = [effects EXCEPT ![o] = @ + 1]
    BY <1>4 DEF DispatchRevoke, TakesEffect
  <2>4. UNCHANGED db \/ \E mark \in {"none", "revoked"} : Revoke(mark)
    BY <1>4 DEF DispatchRevoke
  <2>5. RowTypes' /\ device' \in {"none", "active", "revoked"}
    BY <1>t, <2>4, SameRows, RevokeRows DEF Revoke, db, Uncounted
  <2> QED BY <2>1, <2>2, <2>3, <2>5 DEF Uncounted, barrier, account, bounds
<1>5. CASE DispatchToWindow(o) \/ WindowTimeout(o)
  <2>1. UNCHANGED <<db, enabled, serving, account, observed, bounds>>
    BY <1>5 DEF DispatchToWindow, WindowTimeout
  <2>2. relay' \in RelayStep /\ answer' \in {answer, "refused", "busy"}
    BY <1>5 DEF DispatchToWindow, WindowTimeout
  <2>3. /\ pending' \in {pending, pending \cup {o}, pending \ {o}}
        /\ active' \in {active, active \cup {o}, active \ {o}}
        /\ window' = window \/ window' = [window EXCEPT ![o] = "emitted"]
    BY <1>5 DEF DispatchToWindow, WindowTimeout, Finish
  <2> QED BY <2>1, <2>2, <2>3, SameRows DEF Uncounted, db, account, observed, bounds
<1>6. CASE SaveInDispatch(o) \/ SaveAnswer(o)
  <2>1. UNCHANGED <<device, enabled, active, pending, window, account, observed, bounds>>
    BY <1>6 DEF SaveInDispatch, SaveAnswer, barrier
  <2>2. relay' \in RelayStep /\ answer' \in {answer, "none", "busy"} /\ serving' \in {serving, NoOp}
    BY <1>6 DEF SaveInDispatch, SaveAnswer, RelayLeaves
  <2>3. UNCHANGED <<row, saved, history>> \/ Complete(o, answer) \/ Remember(o, answer)
    BY <1>6 DEF SaveInDispatch, SaveAnswer
  <2>4. RowTypes' BY <1>t, <2>3, SameRows, CompleteRows
  <2> QED BY <1>t, <2>1, <2>2, <2>4 DEF Uncounted, account, observed, bounds
<1>7. CASE SendAnswer(o)
  <2>1. UNCHANGED <<db, enabled, active, pending, window, account, effects, bounds>>
    BY <1>7 DEF SendAnswer
  <2>2. relay' \in RelayStep /\ answer' = "none" /\ serving' = NoOp
    BY <1>7 DEF SendAnswer, RelayLeaves
  <2>3. told' = told \/ told' = [told EXCEPT ![o] = @ \cup {answer}]
    BY <1>7 DEF SendAnswer
  <2> QED BY <1>t, <2>1, <2>2, <2>3, SameRows DEF Uncounted, db, account, bounds
<1> QED BY <1>1, <1>2, <1>3, <1>4, <1>5, <1>6, <1>7 DEF ServeStep

\* The window's steps keep the types.
LEMMA TypesWindow == ASSUME Uncounted, NEW o \in Op, WindowMoves(o) PROVE Uncounted'
<1>1. UNCHANGED <<db, enabled, serving, account, told, bounds>>
  BY DEF WindowMoves, WindowQueues, WindowTakes, WindowActs, WindowAnswers, QueueExpires,
     CompleteRequest, barrier, task, observed
<1>2. PICK step \in WindowStep : window' = [window EXCEPT ![o] = step]
  BY Answers DEF WindowMoves, WindowQueues, WindowTakes, WindowActs, WindowAnswers,
     QueueExpires, CompleteRequest
<1>3. effects' = effects \/ effects' = [effects EXCEPT ![o] = @ + 1]
  BY DEF WindowMoves, WindowQueues, WindowTakes, WindowActs, WindowAnswers, QueueExpires,
     CompleteRequest, TakesEffect, observed
<1>4. /\ pending' \in {pending, pending \ {o}} /\ active' \in {active, active \ {o}}
      /\ relay' \in {relay, "answered"} /\ answer' \in {answer, "ok", "refused", "busy"}
  BY DEF WindowMoves, WindowQueues, WindowTakes, WindowActs, WindowAnswers, QueueExpires,
     CompleteRequest, Finish, Answered, barrier, task
<1> QED BY <1>1, <1>2, <1>3, <1>4, SameRows, Answers, Steps
        DEF Uncounted, db, account, bounds

\* Pairing commands and the settings' revocation keep the types.
LEMMA TypesPairing ==
    ASSUME Uncounted,
           PairMoves \/ RevokeDevice \/ \E step \in {"qr", "approve"} : PairBegins(step)
    PROVE  Uncounted'
<1>1. /\ UNCHANGED <<enabled, active, pending, serving, answer, window, logout, signedIn>>
      /\ UNCHANGED <<observed, sends, crashes, logouts>>
      /\ pairs' \in {pairs, pairs + 1}
  BY DEF PairMoves, RevokeDevice, PairBegins, PairChecks, RememberPairing, ReadPhone,
     InsertPhone, PairSettles, task, bounds, account, barrier
<1>2. /\ pairings' \in {pairings, pairings \/ enabled} /\ pair' \in PairStep
      /\ relay' \in {relay, "begin"}
  BY Steps DEF PairMoves, RevokeDevice, PairBegins, PairChecks, RememberPairing, ReadPhone,
     InsertPhone, PairSettles, PairEnds, Start, task, account, Uncounted
<1>3. \/ UNCHANGED db
      \/ device' = "active" /\ UNCHANGED <<row, saved, history>>
      \/ \E mark \in {"none", "revoked"} : Revoke(mark)
  BY DEF PairMoves, RevokeDevice, PairBegins, PairChecks, RememberPairing, ReadPhone,
     InsertPhone, PairSettles
<1>4. RowTypes' /\ device' \in {"none", "active", "revoked"}
  BY <1>3, SameRows, RevokeRows DEF Revoke, db, Uncounted
<1> QED BY <1>1, <1>2, <1>4, Steps DEF Uncounted, observed

\* Sign-out, sign-in and a new launch keep the types.
LEMMA TypesSignOut ==
    ASSUME Uncounted, LogoutBegins \/ LogoutMoves \/ SignIn \/ Crash PROVE Uncounted'
<1>1. UNCHANGED <<observed, sends, pairs>> /\ crashes' \in {crashes, crashes + 1}
      /\ logouts' \in {logouts, logouts + 1}
  BY DEF LogoutBegins, LogoutMoves, LogoutClearsPairings, LogoutStops, LogoutDrains,
     LogoutGivesUp, LogoutRevokes, LogoutClearsTokens, SignIn, Crash, bounds
<1>2. /\ enabled' \in BOOLEAN /\ signedIn' \in BOOLEAN
      /\ pairings' \in BOOLEAN /\ pair' \in {pair, "idle"} /\ logout' \in LogoutStep
  BY Steps DEF LogoutBegins, LogoutMoves, LogoutClearsPairings, LogoutStops, LogoutDrains,
     LogoutGivesUp, LogoutRevokes, LogoutClearsTokens, SignIn, Crash, barrier, account, Uncounted
<1>3. /\ pending' \subseteq pending /\ active' \subseteq active
      /\ relay' \in {relay, "off", "begin"} /\ serving' \in {serving, NoOp}
      /\ answer' \in {answer, "none"}
  BY DEF LogoutBegins, LogoutMoves, LogoutClearsPairings, LogoutStops, LogoutDrains,
     LogoutGivesUp, LogoutRevokes, LogoutClearsTokens, SignIn, Crash, Start, task, barrier
<1>4. window' \in [Op -> WindowStep]
  <2>1. window' = window \/ window' = [p \in Op |-> "none"]
    BY DEF LogoutBegins, LogoutMoves, LogoutClearsPairings, LogoutStops, LogoutDrains,
       LogoutGivesUp, LogoutRevokes, LogoutClearsTokens, SignIn, Crash
  <2> QED BY <2>1, Answers DEF Uncounted
<1>5. UNCHANGED db \/ \E mark \in {"none", "revoked"} : Revoke(mark)
  BY DEF LogoutBegins, LogoutMoves, LogoutClearsPairings, LogoutStops, LogoutDrains,
     LogoutGivesUp, LogoutRevokes, LogoutClearsTokens, SignIn, Crash
<1>6. RowTypes' /\ device' \in {"none", "active", "revoked"}
  BY <1>5, SameRows, RevokeRows DEF Revoke, db, Uncounted
<1>7. relay' \in RelayStep /\ answer' \in Answer /\ pair' \in PairStep
      /\ pending' \subseteq Op /\ active' \subseteq Op /\ serving' \in Op \cup {NoOp}
  BY <1>2, <1>3, Steps, Answers DEF Uncounted
<1> QED BY <1>1, <1>2, <1>4, <1>6, <1>7 DEF Uncounted, observed

\* Every step keeps the types.
LEMMA TypesNext == Uncounted /\ [Next]_vars => Uncounted'
<1> SUFFICES ASSUME Uncounted, [Next]_vars PROVE Uncounted' OBVIOUS
<1>1. CASE Next
  BY <1>1, TypesRelay, TypesServe, TypesWindow, TypesPairing, TypesSignOut DEF Next
<1>2. CASE UNCHANGED vars
  BY <1>2, SameRows DEF Uncounted, vars, db, barrier, account, task, observed, bounds
<1> QED BY <1>1, <1>2

\* Every reachable state has the type the module states, the counter included:
\* it never falls below zero, whoever ends an activity first.
THEOREM TypeCorrect == Spec => []TypeOK
BY TypesInit, TypesNext, CountInvariant, TypesOfCount, PTL DEF Spec

-----------------------------------------------------------------------------
(* Whom a step leaves alone *)

\* The steps in which the relay task has decided nothing yet, or holds an answer.
Holding == {"dispatch", "acted", "window", "answered", "send"}

\* What is neither the service of a request nor the window.
Asides ==
    \/ RelayStays \/ PairMoves \/ RevokeDevice \/ \E step \in {"qr", "approve"} : PairBegins(step)
    \/ LogoutBegins \/ LogoutMoves \/ SignIn \/ Crash

\* None of these executes or answers anything; they link the phone, revoke it
\* with all its rows, empty the window or take the relay task off its request.
LEMMA AsideSteps ==
    ASSUME Asides
    PROVE  /\ UNCHANGED <<effects, told, sends>>
           /\ \/ UNCHANGED <<device, row, saved, history>>
              \/ device # "active" /\ device' = "active" /\ UNCHANGED <<row, saved, history>>
              \/ \E mark \in {"none", "revoked"} : Revoke(mark)
           /\ UNCHANGED window \/ window' = [o \in Op |-> "none"]
           /\ \/ UNCHANGED <<serving, answer>> /\ (relay' = relay \/ relay' \notin Holding)
              \/ serving' = NoOp
<1> USE DEF Holding, db, barrier, task, account, observed, bounds
<1>1. CASE RelayStays
  BY <1>1 DEF RelayStays, RelayChecks, RelayConnects, RelayEnds, RelayLeaves, RelayRetries,
     RelayGivesUp
<1>2. CASE PairMoves
  <2>1. CASE PairChecks \/ RememberPairing \/ ReadPhone
    BY <2>1 DEF PairChecks, RememberPairing, ReadPhone, Start
  <2>2. CASE InsertPhone \/ PairSettles
    BY <2>2 DEF InsertPhone, PairSettles, Start
  <2> QED BY <1>2, <2>1, <2>2 DEF PairMoves
<1>3. CASE RevokeDevice \/ \E step \in {"qr", "approve"} : PairBegins(step)
  BY <1>3 DEF RevokeDevice, PairBegins
<1>4. CASE LogoutBegins \/ LogoutMoves
  <2>1. CASE LogoutBegins \/ LogoutClearsPairings \/ LogoutDrains \/ LogoutClearsTokens
    BY <2>1 DEF LogoutBegins, LogoutClearsPairings, LogoutDrains, LogoutClearsTokens
  <2>2. CASE LogoutStops \/ LogoutGivesUp \/ LogoutRevokes
    BY <2>2 DEF LogoutStops, LogoutGivesUp, LogoutRevokes, Start
  <2> QED BY <1>4, <2>1, <2>2 DEF LogoutMoves
<1>5. CASE SignIn \/ Crash BY <1>5 DEF SignIn, Crash, Start
<1> QED BY <1>1, <1>2, <1>3, <1>4, <1>5 DEF Asides

\* The service of one request writes the row of its own operation; of the
\* others it can only prune completed ones.
LEMMA ServeSteps ==
    ASSUME Uncounted, NEW o \in Op, ServeStep(o) \/ Receive(o), NEW p \in Op \ {o}
    PROVE  /\ effects'[p] = effects[p] /\ told'[p] = told[p] /\ sends'[p] = sends[p]
           /\ window'[p] = window[p]
           /\ \/ row'[p] = row[p] /\ saved'[p] = saved[p] /\ device' = device
              \/ row[p] = "completed" /\ row'[p] = "none" /\ device = "active" /\ device' = device
              \/ device' # "active" /\ row'[p] = "none" /\ saved'[p] = "none"
           /\ serving' \in {o, NoOp}
<1> USE DEF db, barrier, observed, bounds
<1>t. answer \in Answer /\ RowTypes /\ "unknown" \in Answer /\ "pending" \in Stored
      /\ window \in [Op -> WindowStep] /\ effects \in [Op -> Nat]
      /\ told \in [Op -> SUBSET Answer] /\ sends \in [Op -> Nat]
  BY Answers DEF Uncounted, Stored
<1>1. CASE Receive(o) BY <1>1, <1>t DEF Receive
<1>2. CASE serving = o /\ (Lookup(o) \/ Reserve(o))
  <2>1. UNCHANGED <<device, serving, window, effects, told, sends>>
    BY <1>2 DEF Lookup, Reserve
  <2>2. UNCHANGED <<row, saved>> \/ (device = "active" /\ Write(o, "pending", "unknown"))
    BY <1>2 DEF Lookup, Reserve, Reservable, Reservation
  <2> QED BY <1>2, <1>t, <2>1, <2>2, WriteRows
<1>3. CASE serving = o /\ (DispatchHere(o) \/ DispatchRead(o))
  <2>1. UNCHANGED <<device, row, saved, serving, window, told, sends>>
    BY <1>3 DEF DispatchHere, DispatchRead
  <2>2. effects'[p] = effects[p]
    BY <1>3, <1>t DEF DispatchHere, DispatchRead, TakesEffect
  <2> QED BY <1>3, <2>1, <2>2
<1>4. CASE serving = o /\ DispatchRevoke(o)
  <2>1. UNCHANGED <<serving, window, told, sends>> BY <1>4 DEF DispatchRevoke
  <2>2. effects'[p] = effects[p] BY <1>4, <1>t DEF DispatchRevoke, TakesEffect
  <2>3. \/ UNCHANGED <<device, row, saved>>
        \/ device' # "active" /\ row'[p] = "none" /\ saved'[p] = "none"
    BY <1>4 DEF DispatchRevoke, Revoke
  <2> QED BY <1>4, <2>1, <2>2, <2>3
<1>5. CASE serving = o /\ (DispatchToWindow(o) \/ WindowTimeout(o))
  <2>1. UNCHANGED <<device, row, saved, serving, effects, told, sends>>
    BY <1>5 DEF DispatchToWindow, WindowTimeout
  <2>2. window'[p] = window[p]
    BY <1>5, <1>t DEF DispatchToWindow, WindowTimeout
  <2> QED BY <1>5, <2>1, <2>2
<1>6. CASE serving = o /\ (SaveInDispatch(o) \/ SaveAnswer(o))
  <2>1. UNCHANGED <<device, window, effects, told, sends>> /\ serving' \in {serving, NoOp}
    BY <1>6 DEF SaveInDispatch, SaveAnswer, RelayLeaves
  <2>2. UNCHANGED <<row, saved, history>> \/ Complete(o, answer) \/ Remember(o, answer)
    BY <1>6 DEF SaveInDispatch, SaveAnswer
  <2> QED BY <1>6, <1>t, <2>1, <2>2, CompleteRows
<1>7. CASE serving = o /\ SendAnswer(o)
  <2>1. UNCHANGED <<device, row, saved, window, effects, sends>> /\ serving' = NoOp
    BY <1>7 DEF SendAnswer, RelayLeaves
  <2>2. told'[p] = told[p] BY <1>7, <1>t DEF SendAnswer
  <2> QED BY <2>1, <2>2
<1> QED BY <1>1, <1>2, <1>3, <1>4, <1>5, <1>6, <1>7 DEF ServeStep

\* The window writes no row; it executes and answers one operation at a time.
LEMMA WindowSteps ==
    ASSUME Uncounted, NEW o \in Op, WindowMoves(o)
    PROVE  /\ UNCHANGED <<device, row, saved, history, told, sends, serving>>
           /\ \A p \in Op \ {o} : effects'[p] = effects[p] /\ window'[p] = window[p]
           /\ o \in pending \/ UNCHANGED <<relay, answer>>
<1> USE DEF WindowMoves, WindowQueues, WindowTakes, WindowActs, WindowAnswers, QueueExpires,
            CompleteRequest
<1>1. UNCHANGED <<device, row, saved, history, told, sends, serving>>
  BY DEF db, observed, bounds, task
<1>2. o \in pending \/ UNCHANGED <<relay, answer>> BY DEF task
<1>3. ASSUME NEW p \in Op \ {o} PROVE effects'[p] = effects[p] /\ window'[p] = window[p]
  BY DEF TakesEffect, observed, Uncounted
<1> QED BY <1>1, <1>2, <1>3

-----------------------------------------------------------------------------
(* Reservations *)

\* A row that is pending stays pending while the phone is linked, unless its own
\* request is being served.
LEMMA ReservationStays ==
    ASSUME Uncounted, Next, NEW o \in Op, row[o] = "pending", device' = "active", serving # o
    PROVE  row'[o] = "pending"
<1>1. CASE Asides
  <2>1. \A mark \in {"none", "revoked"} : ~Revoke(mark) BY DEF Revoke
  <2> QED BY <1>1, <2>1, AsideSteps
<1>2. ASSUME NEW p \in Op, Receive(p) PROVE row'[o] = "pending" BY <1>2 DEF Receive, db
<1>3. ASSUME NEW p \in Op, ServeStep(p) PROVE row'[o] = "pending"
  <2>1. p # o BY <1>3 DEF ServeStep
  <2> QED BY <1>3, <2>1, ServeSteps
<1>4. ASSUME NEW p \in Op, WindowMoves(p) PROVE row'[o] = "pending" BY <1>4, WindowSteps
<1> QED BY <1>1, <1>2, <1>3, <1>4 DEF Next, Asides

\* Neither other requests nor the pruning they cause take a reservation away:
\* only its own request, or a revocation of the phone, does.
THEOREM ReservationsAreSpared == Spec => OthersSpareReservations
<1> DEFINE Spared == \A o \in Op :
               row[o] = "pending" /\ device' = "active" /\ serving # o => row'[o] = "pending"
<1>1. Uncounted /\ [Next]_vars => [Spared]_vars BY ReservationStays
<1> QED BY <1>1, TypesInit, TypesNext, PTL DEF Spec, OthersSpareReservations

-----------------------------------------------------------------------------
(* The account of one operation *)

\* What the relay task, the window, the row and the phone know of an operation
\* never contradicts what was executed.
Outcome      == {"ok", "refused", "unknown"}
Untouched(o) == effects[o] = 0 /\ window[o] = "none" /\ FinalTold(o) = {}
Backed(o, a) ==
    /\ a \in Outcome => FinalTold(o) \subseteq {a}
    /\ a = "ok" => effects[o] = 1
    /\ a = "refused" => effects[o] = 0 /\ window[o] = "none"
At(o, steps) == serving = o /\ relay \in steps
Answering(o) == At(o, {"answered", "send"})
Undecided(o) == At(o, {"dispatch", "acted", "window"})

\* The row is a reservation, or an answer that is true; without a link there is none.
RowTrue(o) ==
    /\ row[o] = "none" => saved[o] = "none"
    /\ row[o] # "none" => saved[o] \in Outcome /\ device = "active"
    /\ Backed(o, saved[o])
\* A linked phone's operation without a row has not been touched.
RowMissing(o) ==
    device = "active" /\ row[o] = "none" =>
        /\ Untouched(o) /\ ~Undecided(o)
        /\ Answering(o) => answer \notin Outcome
\* What the relay task holds of the request it serves.
Served(o) ==
    /\ sends[o] = 0 => row[o] = "none" /\ Untouched(o) /\ serving # o
    /\ Undecided(o) => saved[o] \in {"none", "unknown"} /\ FinalTold(o) = {}
    /\ At(o, {"dispatch"}) => Untouched(o)
    /\ At(o, {"acted"}) => answer = "ok" /\ effects[o] = 1
    /\ Answering(o) => Backed(o, answer)
    /\ At(o, {"answered"}) /\ answer = "denied" => device # "active"
    /\ At(o, {"send"}) /\ answer \in Outcome /\ device = "active" => saved[o] = answer
\* What was executed, and what the window may still execute.
Executed(o) ==
    /\ effects[o] \in {0, 1}
    /\ window[o] \in {"emitted", "queued", "taken"} =>
           effects[o] = 0 /\ FinalTold(o) \subseteq {"unknown"}
    /\ window[o] = "acted" => effects[o] = 1
    /\ \A a \in FinalTold(o) : Backed(o, a)

Accounted(o) == RowTrue(o) /\ RowMissing(o) /\ Served(o) /\ Executed(o)
OutcomeInv   == \A o \in Mutation : Accounted(o)

\* Nobody knows anything of an operation before its first request.
LEMMA OutcomeInit == Init => OutcomeInv
<1> SUFFICES ASSUME Init, NEW o \in Mutation PROVE Accounted(o) BY DEF OutcomeInv
<1>1. /\ o \in Op /\ o # NoOp /\ serving = NoOp
      /\ row[o] = "none" /\ saved[o] = "none" /\ effects[o] = 0 /\ window[o] = "none"
      /\ told[o] = {} /\ FinalTold(o) = {}
  BY ConstAssumption DEF Init, Mutation, FinalTold
<1> QED BY <1>1 DEF Accounted, RowTrue, RowMissing, Served, Executed, Untouched, Backed, At,
        Answering, Undecided, Outcome

\* The account stays true when a step is about something else: the row is left
\* or goes with the link, the window keeps the operation or loses it, and the
\* relay task goes on with it without a decision, or drops it.
LEMMA Bystander ==
    ASSUME NEW o \in Mutation, Accounted(o),
           effects'[o] = effects[o], told'[o] = told[o], sends'[o] = sends[o],
           window'[o] \in {window[o], "none"},
           \/ row'[o] = row[o] /\ saved'[o] = saved[o] /\ device' = device
           \/ row'[o] = "none" /\ saved'[o] = "none" /\ device' # "active",
           \/ serving' # o
           \/ serving = o /\ relay' \notin Holding
           \/ serving = o /\ relay' = relay /\ answer' = answer
    PROVE  Accounted(o)'
<1>1. FinalTold(o)' = FinalTold(o) BY DEF FinalTold
<1>2. serving' = o => serving = o OBVIOUS
<1>3. Untouched(o) => Untouched(o)' BY <1>1 DEF Untouched
<1>4. \A a : Backed(o, a) => Backed(o, a)' BY <1>1 DEF Backed
<1>5. \A steps \in SUBSET Holding : At(o, steps)' => At(o, steps) /\ answer' = answer
  BY DEF At
<1>6. /\ Answering(o)' => Answering(o) /\ answer' = answer
      /\ Undecided(o)' => Undecided(o) /\ answer' = answer
      /\ \A s \in Holding : At(o, {s})' => At(o, {s}) /\ answer' = answer
  BY <1>5 DEF Answering, Undecided, Holding
<1>7. RowTrue(o)' BY <1>4 DEF Accounted, RowTrue, Backed, Outcome
<1>8. RowMissing(o)' BY <1>3, <1>6 DEF Accounted, RowMissing
<1>9. Served(o)'
  BY <1>1, <1>2, <1>3, <1>4, <1>6 DEF Accounted, Served, RowTrue, Holding
<1>10. Executed(o)' BY <1>1, <1>4 DEF Accounted, Executed
<1> QED BY <1>7, <1>8, <1>9, <1>10 DEF Accounted

\* Linking the phone before it ever sent a request changes nothing it could see.
LEMMA FirstLink ==
    ASSUME NEW o \in Mutation, Accounted(o), sends[o] = 0,
           effects'[o] = effects[o], told'[o] = told[o], sends'[o] = sends[o],
           window'[o] \in {window[o], "none"}, row'[o] = row[o], saved'[o] = saved[o],
           serving' # o
    PROVE  Accounted(o)'
<1>1. /\ FinalTold(o)' = {} /\ effects'[o] = 0 /\ window'[o] = "none"
      /\ row'[o] = "none" /\ saved'[o] = "none"
  BY DEF Accounted, Served, Untouched, RowTrue, FinalTold
<1> QED BY <1>1 DEF Accounted, RowTrue, RowMissing, Served, Executed, Untouched, Backed, At,
        Answering, Undecided, Outcome

-----------------------------------------------------------------------------
(* What the rows can keep *)

\* No row falls out of the cap, and the phone is linked before it asks.
KeepsRows == \A o \in Op : row[o] # "none" /\ device' = "active" => row'[o] # "none"
LinksFirst == device # "active" /\ device' = "active" => \A o \in Op : sends[o] = 0

RowsKept    == [][KeepsRows]_vars
LinkedFirst == [][LinksFirst]_vars

\* Relay, pairing, sign-out and a new launch do not falsify an account.
LEMMA OutcomeAside ==
    ASSUME Uncounted, OutcomeInv, LinksFirst, Asides PROVE OutcomeInv'
<1> SUFFICES ASSUME NEW o \in Mutation PROVE Accounted(o)' BY DEF OutcomeInv
<1>1. o \in Op /\ o # NoOp /\ Accounted(o) BY ConstAssumption DEF Mutation, OutcomeInv
<1>2. effects'[o] = effects[o] /\ told'[o] = told[o] /\ sends'[o] = sends[o]
  BY AsideSteps
<1>3. window'[o] \in {window[o], "none"} BY <1>1, AsideSteps
<1>4. \/ serving' # o
      \/ serving = o /\ relay' \notin Holding
      \/ serving = o /\ relay' = relay /\ answer' = answer
  BY <1>1, AsideSteps
<1>5. CASE UNCHANGED <<device, row, saved>> BY <1>1, <1>2, <1>3, <1>4, <1>5, Bystander
<1>6. CASE device # "active" /\ device' = "active" /\ UNCHANGED <<row, saved>>
  <2>1. sends[o] = 0 /\ serving # o
    BY <1>1, <1>6 DEF LinksFirst, Accounted, Served
  <2> QED BY <1>1, <1>2, <1>3, <1>4, <1>6, <2>1, FirstLink
<1>7. ASSUME NEW mark \in {"none", "revoked"}, Revoke(mark) PROVE Accounted(o)'
  <2>1. row'[o] = "none" /\ saved'[o] = "none" /\ device' # "active"
    BY <1>1, <1>7 DEF Revoke
  <2> QED BY <1>1, <1>2, <1>3, <1>4, <2>1, Bystander
<1> QED BY <1>5, <1>6, <1>7, AsideSteps

\* Nor does the service of another request.
LEMMA OutcomeOthers ==
    ASSUME Uncounted, OutcomeInv, KeepsRows, NEW p \in Op, Receive(p) \/ ServeStep(p),
           NEW o \in Mutation, o # p
    PROVE  Accounted(o)'
<1>1. o \in Op /\ o # NoOp /\ Accounted(o) BY ConstAssumption DEF Mutation, OutcomeInv
<1>2. /\ effects'[o] = effects[o] /\ told'[o] = told[o] /\ sends'[o] = sends[o]
      /\ window'[o] = window[o] /\ serving' # o
      /\ \/ row'[o] = row[o] /\ saved'[o] = saved[o] /\ device' = device
         \/ row'[o] = "none" /\ saved'[o] = "none" /\ device' # "active"
  BY <1>1, ServeSteps DEF KeepsRows
<1> QED BY <1>1, <1>2, Bystander

-----------------------------------------------------------------------------
(* The request of the operation itself *)

\* What is known of the operation that is being served.
LEMMA ServedKnown ==
    ASSUME Uncounted, OutcomeInv, NEW o \in Mutation, serving = o
    PROVE  /\ o \in Op /\ o # NoOp /\ Kind[o] # "read" /\ Accounted(o)
           /\ sends[o] # 0 /\ RowTypes
           /\ relay \in {"dispatch", "acted", "window"} =>
                  /\ saved[o] \in {"none", "unknown"} /\ FinalTold(o) = {}
                  /\ device = "active" => row[o] # "none"
           /\ relay = "dispatch" => Untouched(o)
           /\ relay \in {"answered", "send"} => Backed(o, answer)
BY ConstAssumption
   DEF Mutation, OutcomeInv, Accounted, Served, RowMissing, At, Answering, Undecided, Uncounted

\* A row that is not written, while the relay task takes an answer that is true.
LEMMA TrueAnswer ==
    ASSUME NEW o \in Mutation, Accounted(o), sends'[o] # 0,
           UNCHANGED <<device, row, saved, effects, window, told>>,
           serving' = o, relay' = "answered", Backed(o, answer'),
           device = "active" => answer' # "denied",
           device = "active" /\ row[o] = "none" => answer' \notin Outcome
    PROVE  Accounted(o)'
<1>1. FinalTold(o)' = FinalTold(o) BY DEF FinalTold
<1>2. /\ Untouched(o) => Untouched(o)'
      /\ \A a : Backed(o, a) => Backed(o, a)'
      /\ Backed(o, answer)'
  BY <1>1 DEF Untouched, Backed
<1>3. ~Undecided(o)' /\ Answering(o)' /\ \A s : At(o, {s})' => s = "answered"
  BY DEF Undecided, Answering, At
<1>4. RowTrue(o)' BY <1>2 DEF Accounted, RowTrue
<1>5. RowMissing(o)' BY <1>2, <1>3 DEF Accounted, RowMissing
<1>6. Served(o)' BY <1>2, <1>3 DEF Served
<1>7. Executed(o)' BY <1>1, <1>2 DEF Accounted, Executed
<1> QED BY <1>4, <1>5, <1>6, <1>7 DEF Accounted

\* A request arrives: a linked phone is looked up, another one is denied.
LEMMA OutcomeReceive ==
    ASSUME Uncounted, OutcomeInv, NEW o \in Mutation, Receive(o) PROVE Accounted(o)'
<1>1. o \in Op /\ Accounted(o) /\ sends'[o] # 0 /\ serving' = o
      /\ UNCHANGED <<device, row, saved, effects, window, told>>
  BY DEF Receive, Mutation, OutcomeInv, Uncounted, db, observed
<1>2. CASE device = "active"
  <2>1. relay' = "lookup" BY <1>2 DEF Receive
  <2>2. FinalTold(o)' = FinalTold(o) BY <1>1 DEF FinalTold
  <2>3. ~Undecided(o)' /\ ~Answering(o)' /\ \A s \in Holding : ~At(o, {s})'
    BY <2>1 DEF Undecided, Answering, At, Holding
  <2>4. /\ Untouched(o) => Untouched(o)'
        /\ \A a : Backed(o, a) => Backed(o, a)'
    BY <1>1, <2>2 DEF Untouched, Backed
  <2>5. RowTrue(o)' BY <1>1, <2>4 DEF Accounted, RowTrue
  <2>6. RowMissing(o)' BY <1>1, <2>3, <2>4 DEF Accounted, RowMissing
  <2>7. Served(o)' BY <1>1, <2>3 DEF Served, Holding
  <2>8. Executed(o)' BY <1>1, <2>2, <2>4 DEF Accounted, Executed
  <2> QED BY <2>5, <2>6, <2>7, <2>8 DEF Accounted
<1>3. CASE device # "active"
  <2>1. relay' = "answered" /\ answer' = "denied" BY <1>3 DEF Receive, Answered
  <2>2. Backed(o, answer') BY <2>1 DEF Backed, Outcome
  <2> QED BY <1>1, <1>3, <2>1, <2>2, TrueAnswer
<1> QED BY <1>2, <1>3

\* The lookup answers with the row, or goes on.
LEMMA OutcomeLookup ==
    ASSUME Uncounted, OutcomeInv, NEW o \in Mutation, serving = o, Lookup(o)
    PROVE  Accounted(o)'
<1>1. /\ o \in Op /\ o # NoOp /\ Accounted(o) /\ sends'[o] # 0 /\ serving' = o
      /\ UNCHANGED <<device, row, saved, effects, window, told, sends>>
  BY ServedKnown DEF Lookup, db, observed, bounds
<1>2. CASE SavedFor(o) # "none"
  <2>1. /\ device = "active" /\ row[o] # "none" /\ answer' = saved[o] /\ relay' = "answered"
    BY <1>2 DEF Lookup, SavedFor, Answered
  <2>2. saved[o] \in Outcome /\ Backed(o, saved[o])
    BY <1>1, <2>1 DEF Accounted, RowTrue
  <2> QED BY <1>1, <2>1, <2>2, TrueAnswer DEF Outcome
<1>3. CASE SavedFor(o) = "none"
  <2>1. relay' = "reserve" BY <1>3 DEF Lookup
  <2> QED BY <1>1, <2>1, Bystander DEF Holding
<1> QED BY <1>2, <1>3

\* A reservation is of an operation that has not been touched.
LEMMA OutcomeReserve ==
    ASSUME Uncounted, OutcomeInv, KeepsRows, NEW o \in Mutation, serving = o, Reserve(o)
    PROVE  Accounted(o)'
<1>1. /\ o \in Op /\ Accounted(o) /\ sends'[o] # 0 /\ serving' = o /\ RowTypes
      /\ UNCHANGED <<device, effects, window, told, sends>>
  BY ServedKnown DEF Reserve, observed, bounds
<1>2. CASE Reservable(o)
  <2>1. device = "active" /\ row[o] = "none" /\ Write(o, "pending", "unknown")
        /\ relay' = "dispatch"
    BY <1>2 DEF Reserve, Reservable, Reservation
  <2>2. row'[o] = "pending" /\ saved'[o] = "unknown"
    BY <1>1, <2>1, WriteRows, Answers DEF Stored
  <2>3. Untouched(o) /\ Untouched(o)' /\ FinalTold(o)' = {}
    BY <1>1, <2>1 DEF Accounted, RowMissing, Untouched, FinalTold
  <2>4. Backed(o, "unknown")' BY <2>3 DEF Backed
  <2> QED BY <1>1, <2>1, <2>2, <2>3, <2>4
          DEF Accounted, RowTrue, RowMissing, Served, Executed, At, Answering, Undecided,
              Outcome, Untouched
<1>3. CASE ~Reservable(o)
  <2>1. UNCHANGED <<row, saved>> /\ relay' = "answered"
    BY <1>3 DEF Reserve, Answered
  <2>2. CASE SavedFor(o) # "none"
    <3>1. device = "active" /\ row[o] # "none" /\ answer' = saved[o]
      BY <1>3, <2>2 DEF Reserve, SavedFor, Answered
    <3>2. saved[o] \in Outcome /\ Backed(o, saved[o])
      BY <1>1, <3>1 DEF Accounted, RowTrue
    <3> QED BY <1>1, <2>1, <3>1, <3>2, TrueAnswer DEF Outcome
  <2>3. CASE SavedFor(o) = "none"
    <3>1. answer' = "busy" BY <1>3, <2>3 DEF Reserve, Answered
    <3>2. Backed(o, answer') BY <3>1 DEF Backed, Outcome
    <3> QED BY <1>1, <2>1, <3>1, <3>2, TrueAnswer DEF Outcome
  <2> QED BY <2>2, <2>3
<1> QED BY <1>2, <1>3

\* What is executed inside dispatch was not executed before, and an error that
\* is final has executed nothing.
LEMMA OutcomeDispatch ==
    ASSUME Uncounted, OutcomeInv, NEW o \in Mutation, serving = o, DispatchHere(o)
    PROVE  Accounted(o)'
<1>1. /\ o \in Op /\ Accounted(o) /\ sends'[o] # 0 /\ serving' = o /\ relay = "dispatch"
      /\ Untouched(o) /\ saved[o] \in {"none", "unknown"} /\ FinalTold(o) = {}
      /\ device = "active" => row[o] # "none"
      /\ UNCHANGED <<device, row, saved, window, told, sends>>
  BY ServedKnown DEF DispatchHere, db, bounds
<1>2. CASE UNCHANGED effects
  <2>1. relay' = "answered" /\ answer' \in {"refused", "busy"}
    <3>1. effects'[o] # effects[o] + 1 BY <1>1, <1>2 DEF Untouched
    <3> QED BY <1>1, <3>1 DEF DispatchHere, Answered, TakesEffect, Uncounted
  <2>2. Backed(o, answer') BY <1>1, <2>1 DEF Backed, Untouched, Outcome
  <2> QED BY <1>1, <1>2, <2>1, <2>2, TrueAnswer
<1>3. CASE TakesEffect(o)
  <2>1. effects'[o] = 1 BY <1>1, <1>3 DEF TakesEffect, Untouched, Uncounted
  <2>2. \/ relay' = "acted" /\ answer' = "ok"
        \/ relay' = "answered" /\ answer' \in {"refused", "busy"}
    BY DEF DispatchHere, Answered
  <2>3. ~(relay' = "answered" /\ answer' = "refused")
    BY <2>1, <1>1 DEF DispatchHere, Answered, Untouched
  <2>4. FinalTold(o)' = {} BY <1>1 DEF FinalTold
  <2>5. window'[o] = "none" BY <1>1 DEF Untouched
  <2> QED BY <1>1, <2>1, <2>2, <2>3, <2>4, <2>5
          DEF Accounted, RowTrue, RowMissing, Served, Executed, Backed, At, Answering,
              Undecided, Outcome
<1> QED BY <1>2, <1>3 DEF DispatchHere

\* The phone that revokes itself leaves no row.
LEMMA OutcomeRevoke ==
    ASSUME Uncounted, OutcomeInv, NEW o \in Mutation, serving = o, DispatchRevoke(o)
    PROVE  Accounted(o)'
<1>1. /\ o \in Op /\ Accounted(o) /\ sends'[o] # 0 /\ serving' = o /\ relay = "dispatch"
      /\ Untouched(o) /\ FinalTold(o) = {}
      /\ device = "active" => row[o] # "none"
      /\ UNCHANGED <<window, told, sends>>
  BY ServedKnown DEF DispatchRevoke, bounds
<1>2. CASE Answered("busy") /\ UNCHANGED <<db, effects>>
  <2>1. relay' = "answered" /\ answer' = "busy" /\ UNCHANGED <<device, row, saved, effects>>
    BY <1>2 DEF Answered, db
  <2>2. Backed(o, answer') BY <2>1 DEF Backed, Outcome
  <2> QED BY <1>1, <2>1, <2>2, TrueAnswer DEF Outcome
<1>3. CASE /\ Revoke(IF device = "none" THEN "none" ELSE "revoked")
           /\ TakesEffect(o) /\ relay' = "acted" /\ answer' = "ok"
  <2>1. row'[o] = "none" /\ saved'[o] = "none" /\ device' # "active"
    BY <1>1, <1>3 DEF Revoke
  <2>2. effects'[o] = 1 /\ FinalTold(o)' = {} /\ window'[o] = "none"
    BY <1>1, <1>3 DEF TakesEffect, Untouched, FinalTold, Uncounted
  <2> QED BY <1>1, <1>3, <2>1, <2>2
          DEF Accounted, RowTrue, RowMissing, Served, Executed, Backed, At, Answering,
              Undecided, Outcome
<1> QED BY <1>2, <1>3 DEF DispatchRevoke

\* What the window is handed has not been executed.
LEMMA OutcomeHandOver ==
    ASSUME Uncounted, OutcomeInv, NEW o \in Mutation, serving = o, DispatchToWindow(o)
    PROVE  Accounted(o)'
<1>1. /\ o \in Op /\ Accounted(o) /\ sends'[o] # 0 /\ serving' = o /\ relay = "dispatch"
      /\ Untouched(o) /\ saved[o] \in {"none", "unknown"} /\ FinalTold(o) = {}
      /\ device = "active" => row[o] # "none"
      /\ UNCHANGED <<device, row, saved, effects, told, sends>>
  BY ServedKnown DEF DispatchToWindow, db, observed, bounds
<1>2. CASE UNCHANGED window /\ (Answered("refused") \/ Answered("busy"))
  <2>1. relay' = "answered" /\ answer' \in {"refused", "busy"} BY <1>2 DEF Answered
  <2>2. Backed(o, answer') BY <1>1, <2>1 DEF Backed, Untouched, Outcome
  <2> QED BY <1>1, <1>2, <2>1, <2>2, TrueAnswer
<1>3. CASE relay' = "window" /\ window' = [window EXCEPT ![o] = "emitted"]
  <2>1. window'[o] = "emitted" /\ FinalTold(o)' = {}
    BY <1>1, <1>3 DEF Uncounted, FinalTold
  <2> QED BY <1>1, <1>3, <2>1
          DEF Accounted, RowTrue, RowMissing, Served, Executed, Untouched, Backed, At,
              Answering, Undecided, Outcome
<1> QED BY <1>2, <1>3 DEF DispatchToWindow

\* A timeout decides nothing, whatever the window still does.
LEMMA OutcomeTimeout ==
    ASSUME Uncounted, OutcomeInv, NEW o \in Mutation, serving = o, WindowTimeout(o)
    PROVE  Accounted(o)'
<1>1. /\ o \in Op /\ Accounted(o) /\ sends'[o] # 0 /\ serving' = o
      /\ device = "active" => row[o] # "none"
      /\ UNCHANGED <<device, row, saved, effects, window, told>>
  BY ServedKnown DEF WindowTimeout, db, observed, bounds
<1>2. relay' = "answered" /\ answer' = "busy" BY DEF WindowTimeout, Answered
<1>3. Backed(o, answer') BY <1>2 DEF Backed, Outcome
<1> QED BY <1>1, <1>2, <1>3, TrueAnswer

\* What is saved inside dispatch has been executed.
LEMMA OutcomeSaveInDispatch ==
    ASSUME Uncounted, OutcomeInv, KeepsRows, NEW o \in Mutation, serving = o, SaveInDispatch(o)
    PROVE  Accounted(o)'
<1>1. /\ o \in Op /\ Accounted(o) /\ sends'[o] # 0 /\ serving' = o /\ relay = "acted"
      /\ answer = "ok" /\ effects[o] = 1 /\ FinalTold(o) = {} /\ RowTypes
      /\ device = "active" => row[o] # "none"
      /\ UNCHANGED <<device, effects, window, told>>
  BY ServedKnown DEF SaveInDispatch, Accounted, Served, At, observed, bounds
<1>2. relay' = "answered" /\ answer' \in {"ok", "busy"} /\ Backed(o, answer')
  BY <1>1 DEF SaveInDispatch, Answered, Backed
<1>3. CASE UNCHANGED <<row, saved>> BY <1>1, <1>2, <1>3, TrueAnswer
<1>4. CASE device = "active" /\ Write(o, "completed", answer)
  <2>1. row'[o] = "completed" /\ saved'[o] = "ok"
    BY <1>1, <1>4, WriteRows, Answers DEF Stored, KeepsRows
  <2>2. FinalTold(o)' = {} BY <1>1 DEF FinalTold
  <2> QED BY <1>1, <1>2, <1>4, <2>1, <2>2
          DEF Accounted, RowTrue, RowMissing, Served, Executed, Untouched, Backed, At,
              Answering, Undecided, Outcome
<1> QED BY <1>3, <1>4 DEF SaveInDispatch, Complete

\* A final answer is in the row before it is sent.
LEMMA OutcomeSave ==
    ASSUME Uncounted, OutcomeInv, KeepsRows, NEW o \in Mutation, serving = o, SaveAnswer(o)
    PROVE  Accounted(o)'
<1>1. /\ o \in Op /\ o # NoOp /\ Accounted(o) /\ sends'[o] # 0 /\ sends'[o] = sends[o]
      /\ RowTypes /\ relay = "answered" /\ Backed(o, answer) /\ answer \in Answer
      /\ UNCHANGED <<device, effects, window, told>>
  BY ServedKnown DEF SaveAnswer, observed, bounds, Uncounted
<1>2. CASE RelayLeaves /\ UNCHANGED <<row, saved, history>>
  <2>1. serving' # o BY <1>1, <1>2 DEF RelayLeaves
  <2> QED BY <1>1, <1>2, <2>1, Bystander
<1>3. CASE relay' = "send" /\ UNCHANGED <<serving, answer>>
  <2>1. FinalTold(o)' = FinalTold(o) BY <1>1 DEF FinalTold
  <2>2. /\ \A a : Backed(o, a) => Backed(o, a)'
        /\ Untouched(o) => Untouched(o)'
        /\ ~Undecided(o)' /\ Answering(o)' /\ \A s : At(o, {s})' => s = "send"
    BY <1>1, <1>3, <2>1 DEF Backed, Untouched, Undecided, Answering, At
  <2>3. Executed(o)' BY <1>1, <2>1, <2>2 DEF Accounted, Executed
  <2>4. CASE device = "active" /\ Write(o, "completed", answer) /\ answer \in Final
    <3>1. answer \in Outcome /\ row[o] # "none"
      BY <1>1, <2>4, Answers DEF Accounted, Served, RowMissing, At, Answering, Outcome
    <3>2. row'[o] = "completed" /\ saved'[o] = answer
      BY <1>1, <2>4, <3>1, WriteRows DEF Stored, KeepsRows
    <3>3. RowTrue(o)' BY <1>1, <2>2, <2>4, <3>1, <3>2 DEF RowTrue
    <3> QED BY <1>1, <1>3, <2>2, <2>3, <3>2, <3>3
            DEF Accounted, RowMissing, Served
  <2>5. CASE UNCHANGED <<row, saved, history>> /\ (device # "active" \/ answer \notin Final)
    <3>1. RowTrue(o)' BY <1>1, <2>2, <2>5 DEF Accounted, RowTrue
    <3>2. RowMissing(o)'
      BY <1>1, <1>3, <2>2, <2>5, Answers DEF Accounted, RowMissing, Outcome
    <3>3. Served(o)' BY <1>1, <1>3, <2>2, <2>5, Answers DEF Served, Outcome
    <3> QED BY <2>3, <3>1, <3>2, <3>3 DEF Accounted
  <2> QED BY <1>3, <2>4, <2>5 DEF SaveAnswer, Complete, RelayLeaves
<1> QED BY <1>2, <1>3 DEF SaveAnswer

\* The answer the phone gets agrees with those it got.
LEMMA OutcomeSend ==
    ASSUME Uncounted, OutcomeInv, NEW o \in Mutation, serving = o, SendAnswer(o)
    PROVE  /\ Accounted(o)'
           /\ answer \notin Outcome => FinalTold(o)' = FinalTold(o)
           /\ answer \in Outcome => FinalTold(o) \subseteq {answer}
           /\ FinalTold(o)' \in {FinalTold(o), FinalTold(o) \cup {answer}}
           /\ answer = "ok" => effects[o] = 1
           /\ answer = "refused" => effects[o] = 0
<1>1. /\ o \in Op /\ o # NoOp /\ Accounted(o) /\ sends'[o] # 0 /\ sends'[o] = sends[o]
      /\ relay = "send" /\ Backed(o, answer)
      /\ UNCHANGED <<device, row, saved, effects, window>>
  BY ServedKnown DEF SendAnswer, bounds, db
<1>2. serving' # o BY <1>1 DEF SendAnswer, RelayLeaves
<1>3. told'[o] \in {told[o], told[o] \cup {answer}}
  BY <1>1 DEF SendAnswer, Uncounted
<1>4. /\ answer \notin Outcome => FinalTold(o)' = FinalTold(o)
      /\ answer \in Outcome => FinalTold(o) \subseteq {answer}
      /\ FinalTold(o)' \in {FinalTold(o), FinalTold(o) \cup {answer}}
  BY <1>1, <1>3 DEF FinalTold, Outcome, Backed
<1>5. CASE FinalTold(o)' = FinalTold(o)
  <2>1. /\ \A a : Backed(o, a) => Backed(o, a)'
        /\ Untouched(o) => Untouched(o)'
    BY <1>1, <1>5 DEF Backed, Untouched
  <2>2. ~Undecided(o)' /\ ~Answering(o)' /\ \A s : ~At(o, s)'
    BY <1>2 DEF Undecided, Answering, At
  <2>3. Accounted(o)'
    BY <1>1, <1>2, <1>5, <2>1, <2>2
       DEF Accounted, RowTrue, RowMissing, Served, Executed
  <2> QED BY <1>1, <1>4, <2>3 DEF Backed
<1>6. CASE FinalTold(o)' # FinalTold(o)
  <2>1. /\ answer \in Outcome /\ FinalTold(o) = {} /\ FinalTold(o)' = {answer}
    BY <1>4, <1>6
  <2>2. \A a : a = answer => Backed(o, a)' BY <1>1, <2>1 DEF Backed
  <2>3. ~Undecided(o)' /\ ~Answering(o)' /\ \A s : ~At(o, s)'
    BY <1>2 DEF Undecided, Answering, At
  <2>4. device = "active" => saved[o] = answer /\ row[o] # "none"
    BY <1>1, <2>1 DEF Accounted, Served, RowTrue, At, Outcome
  <2>5. device # "active" => saved[o] = "none" /\ row[o] = "none"
    BY <1>1 DEF Accounted, RowTrue
  <2>6. RowTrue(o)'
    BY <1>1, <2>2, <2>4, <2>5 DEF Accounted, RowTrue, Backed, Outcome
  <2>7. RowMissing(o)' BY <1>1, <2>4 DEF RowMissing
  <2>8. Served(o)' BY <1>1, <1>2, <2>3 DEF Served
  <2>9. window[o] \in {"emitted", "queued", "taken"} => answer = "unknown"
    BY <1>1, <2>1 DEF Accounted, Executed, Backed, Outcome
  <2>10. Executed(o)' BY <1>1, <2>1, <2>2, <2>9 DEF Accounted, Executed
  <2> QED BY <1>1, <1>4, <2>6, <2>7, <2>8, <2>10 DEF Accounted, Backed
<1> QED BY <1>5, <1>6

-----------------------------------------------------------------------------
(* The window *)

\* Queueing, taking and executing: what was not executed before is now, and the
\* phone was told nothing that this falsifies.
LEMMA OutcomeInWindow ==
    ASSUME Uncounted, OutcomeInv, NEW o \in Mutation,
           WindowQueues(o) \/ WindowTakes(o) \/ WindowActs(o)
    PROVE  Accounted(o)'
<1>1. /\ o \in Op /\ Accounted(o) /\ window[o] \in {"emitted", "queued", "taken"}
      /\ UNCHANGED <<device, row, saved, told, sends, serving, relay, answer>>
      /\ window \in [Op -> WindowStep] /\ effects \in [Op -> Nat]
  BY DEF WindowQueues, WindowTakes, WindowActs, Mutation, OutcomeInv, Uncounted, db, task,
         observed, bounds
<1>2. /\ effects[o] = 0 /\ FinalTold(o) \subseteq {"unknown"} /\ ~Untouched(o)
      /\ saved[o] \notin {"ok", "refused"} /\ sends[o] # 0
      /\ Answering(o) => answer \notin {"ok", "refused"}
      /\ ~At(o, {"dispatch"}) /\ ~At(o, {"acted"})
  BY <1>1 DEF Accounted, Executed, Untouched, RowTrue, Served, Backed
<1>3. FinalTold(o)' = FinalTold(o) BY <1>1 DEF FinalTold
<1>4. /\ \A steps : At(o, steps)' <=> At(o, steps)
      /\ Undecided(o)' <=> Undecided(o)
      /\ Answering(o)' <=> Answering(o)
  BY <1>1 DEF At, Undecided, Answering
<1>5. \A a \in Answer \ {"ok", "refused"} : Backed(o, a) => Backed(o, a)'
  BY <1>3 DEF Backed
<1>6. saved[o] \in Answer /\ answer \in Answer BY <1>1 DEF Uncounted, RowTypes
<1>7. \/ window'[o] \in {"queued", "taken"} /\ effects'[o] = 0
      \/ window'[o] = "acted" /\ effects'[o] = 1
  BY <1>1, <1>2 DEF WindowQueues, WindowTakes, WindowActs, TakesEffect, observed
<1>8. RowTrue(o)' BY <1>1, <1>2, <1>5, <1>6 DEF Accounted, RowTrue
<1>9. RowMissing(o)' BY <1>1, <1>2 DEF Accounted, RowMissing
<1>10. Served(o)'
  BY <1>1, <1>2, <1>3, <1>4, <1>5, <1>6 DEF Accounted, Served
<1>11. Executed(o)'
  <2>1. \A a \in FinalTold(o) : a = "unknown" BY <1>2
  <2>2. \A a \in FinalTold(o)' : Backed(o, a)'
    BY <1>2, <1>3, <2>1 DEF Backed
  <2> QED BY <1>2, <1>3, <1>7, <2>2 DEF Executed
<1> QED BY <1>8, <1>9, <1>10, <1>11 DEF Accounted

\* The window's answer is about what it did, and reaches the relay task only
\* while that waits for it.
LEMMA OutcomeWindowAnswers ==
    ASSUME Uncounted, CountInv, OutcomeInv, NEW o \in Mutation,
           WindowAnswers(o) \/ QueueExpires(o)
    PROVE  Accounted(o)'
<1>1. PICK result \in {"ok", "refused", "busy"} :
          /\ CompleteRequest(o, result)
          /\ result = "ok" => window[o] = "acted"
          /\ result = "refused" => window[o] \in {"emitted", "taken"}
  BY DEF WindowAnswers, QueueExpires
<1>2. /\ o \in Op /\ Accounted(o) /\ window'[o] = "none"
      /\ UNCHANGED <<device, row, saved, effects, told, sends, serving>>
  BY <1>1 DEF CompleteRequest, Mutation, OutcomeInv, Uncounted, db, observed, bounds
<1>3. CASE o \notin pending
  <2>1. UNCHANGED <<relay, answer>> BY <1>1, <1>3 DEF CompleteRequest
  <2> QED BY <1>2, <2>1, Bystander
<1>4. CASE o \in pending
  <2>1. relay = "window" /\ serving = o BY <1>4, SenderWaits
  <2>2. relay' = "answered" /\ answer' = result
    BY <1>1, <1>4 DEF CompleteRequest, Answered
  <2>3. /\ saved[o] \in {"none", "unknown"} /\ FinalTold(o) = {}
        /\ device = "active" => row[o] # "none"
        /\ sends'[o] # 0
    BY <1>2, <2>1, ServedKnown
  <2>4. /\ result = "ok" => effects[o] = 1
        /\ result = "refused" => effects[o] = 0
    BY <1>1, <1>2 DEF Accounted, Executed
  <2>5. FinalTold(o)' = {} BY <1>2, <2>3 DEF FinalTold
  <2>6. \A a : a = result => Backed(o, a)' BY <1>2, <2>4, <2>5 DEF Backed
  <2>7. ~Undecided(o)' /\ Answering(o)' /\ \A s : At(o, {s})' => s = "answered"
    BY <1>2, <2>1, <2>2 DEF Undecided, Answering, At
  <2>8. RowTrue(o)' BY <1>2, <2>3, <2>5 DEF Accounted, RowTrue, Backed
  <2>9. RowMissing(o)' BY <1>2, <2>3 DEF RowMissing
  <2>10. Served(o)'
    <3>1. Backed(o, answer)' BY <1>2, <2>2, <2>4, <2>5 DEF Backed
    <3> QED BY <2>2, <2>3, <2>7, <3>1 DEF Served
  <2>11. Executed(o)' BY <1>2, <2>5 DEF Accounted, Executed
  <2> QED BY <2>8, <2>9, <2>10, <2>11 DEF Accounted
<1> QED BY <1>3, <1>4

\* What the window does with another operation changes nothing for this one.
LEMMA OutcomeOtherWindow ==
    ASSUME Uncounted, CountInv, OutcomeInv, NEW p \in Op, WindowMoves(p),
           NEW o \in Mutation, o # p
    PROVE  Accounted(o)'
<1>1. o \in Op /\ Accounted(o) BY DEF Mutation, OutcomeInv
<1>2. p \in pending => serving = p BY SenderWaits
<1> QED BY <1>1, <1>2, WindowSteps, Bystander

-----------------------------------------------------------------------------
(* The ledger *)

\* Every step keeps the account of every operation.
LEMMA OutcomeNext ==
    Uncounted /\ CountInv /\ OutcomeInv /\ [Next]_vars /\ [KeepsRows]_vars /\ [LinksFirst]_vars
        => OutcomeInv'
<1> SUFFICES ASSUME Uncounted, CountInv, OutcomeInv,
                    [Next]_vars, [KeepsRows]_vars, [LinksFirst]_vars,
                    NEW o \in Mutation
             PROVE  Accounted(o)'
  BY DEF OutcomeInv
<1>0. o \in Op /\ Accounted(o) BY DEF Mutation, OutcomeInv
<1>1. CASE UNCHANGED vars
  <2>1. UNCHANGED <<device, row, saved, effects, told, sends, window, serving, relay, answer>>
    BY <1>1 DEF vars, db, task, observed, bounds
  <2> QED BY <1>0, <2>1, Bystander
<1>2. CASE Next /\ ~UNCHANGED vars
  <2>0. KeepsRows /\ LinksFirst BY <1>2
  <2>1. CASE Asides BY <2>0, <2>1, OutcomeAside DEF OutcomeInv
  <2>2. ASSUME NEW p \in Op, Receive(p) \/ ServeStep(p) PROVE Accounted(o)'
    <3>1. CASE p # o BY <2>0, <2>2, <3>1, OutcomeOthers
    <3>2. CASE p = o
      <4>1. CASE Receive(o) BY <4>1, OutcomeReceive
      <4>2. CASE ServeStep(o)
        <5>1. serving = o /\ ~DispatchRead(o)
          BY <4>2 DEF ServeStep, DispatchRead, Mutation
        <5> QED BY <2>0, <4>2, <5>1, OutcomeLookup, OutcomeReserve, OutcomeDispatch,
                   OutcomeRevoke, OutcomeHandOver, OutcomeTimeout, OutcomeSaveInDispatch,
                   OutcomeSave, OutcomeSend DEF ServeStep
      <4> QED BY <2>2, <3>2, <4>1, <4>2
    <3> QED BY <3>1, <3>2
  <2>3. ASSUME NEW p \in Op, WindowMoves(p) PROVE Accounted(o)'
    <3>1. CASE p # o BY <2>3, <3>1, OutcomeOtherWindow
    <3>2. CASE p = o
      BY <2>3, <3>2, OutcomeInWindow, OutcomeWindowAnswers DEF WindowMoves
    <3> QED BY <3>1, <3>2
  <2> QED BY <1>2, <2>1, <2>2, <2>3 DEF Next, Asides
<1> QED BY <1>1, <1>2

\* The final answer of an operation that was told one.
LEMMA FinalIs ==
    ASSUME NEW o \in Mutation
    PROVE  /\ FinalTold(o) = {} => FinalOf(o) = "none"
           /\ \A a : FinalTold(o) = {a} => FinalOf(o) = a
           /\ FinalTold(o)' = {} => FinalOf(o)' = "none"
           /\ \A a : FinalTold(o)' = {a} => FinalOf(o)' = a
           /\ FinalTold(o)' = FinalTold(o) => FinalOf(o)' = FinalOf(o)
<1>1. \A a : (CHOOSE x \in {a} : TRUE) = a OBVIOUS
<1>2. FinalTold(o)' = FinalTold(o) => FinalOf(o)' = FinalOf(o)
  BY DEF FinalOf
<1>3. \A a : FinalTold(o) = {a} => FinalOf(o) = a BY <1>1, Zenon DEF FinalOf
<1>4. \A a : FinalTold(o)' = {a} => FinalOf(o)' = a BY <1>1, Zenon DEF FinalOf
<1> QED BY <1>2, <1>3, <1>4, Zenon DEF FinalOf

\* A step that executes nothing and tells nothing new is none of the ledger's.
LEMMA LedgerStutter ==
    ASSUME \A o \in Mutation : effects'[o] = effects[o] /\ FinalTold(o)' = FinalTold(o)
    PROVE  UNCHANGED Ledger!ledger
<1>1. \A o \in Mutation : FinalOf(o)' = FinalOf(o) BY FinalIs
<1> QED BY <1>1 DEF Ledger!ledger, Mutation

\* An operation that has not been executed, and was not refused, may be.
LEMMA LedgerExecutes ==
    ASSUME Uncounted, NEW o \in Mutation, TakesEffect(o), UNCHANGED told,
           effects[o] = 0, "refused" \notin FinalTold(o)
    PROVE  Ledger!Next
<1>1. o \in Op /\ effects \in [Op -> Nat] /\ Mutation \subseteq Op
  BY DEF Uncounted, Mutation
<1>2. \A p \in Mutation : FinalTold(p)' = FinalTold(p) BY DEF FinalTold
<1>3. \A p \in Mutation : FinalOf(p)' = FinalOf(p) BY <1>2, FinalIs
<1>4. FinalOf(o) # "refused"
  BY DEF FinalOf
<1>5. [p \in Mutation |-> effects[p]]' = [[p \in Mutation |-> effects[p]] EXCEPT ![o] = 1]
  <2>1. effects' = [effects EXCEPT ![o] = 1] BY <1>1 DEF TakesEffect
  <2>2. Mutation' = Mutation BY DEF Mutation
  <2> QED BY <1>1, <2>1, <2>2
<1>6. Ledger!Execute(o)
  BY <1>1, <1>3, <1>4, <1>5 DEF Ledger!Execute, Mutation
<1> QED BY <1>6 DEF Ledger!Next

\* The first final answer that reaches the phone is true, and stays the only one.
LEMMA LedgerTells ==
    ASSUME Uncounted, OutcomeInv, NEW o \in Mutation, serving = o, SendAnswer(o)
    PROVE  [Ledger!Next]_(Ledger!ledger)
<1>1. /\ o \in Op /\ UNCHANGED effects
      /\ \A p \in Op \ {o} : told'[p] = told[p]
  BY DEF SendAnswer, Mutation, Uncounted
<1>2. \A p \in Mutation \ {o} : FinalTold(p)' = FinalTold(p)
  BY <1>1 DEF FinalTold, Mutation
<1>3. CASE FinalTold(o)' = FinalTold(o) BY <1>1, <1>2, <1>3, LedgerStutter
<1>4. CASE FinalTold(o)' # FinalTold(o)
  <2>1. /\ FinalTold(o) = {} /\ FinalTold(o)' = {answer} /\ answer \in Outcome
        /\ answer = "ok" => effects[o] = 1
        /\ answer = "refused" => effects[o] = 0
    BY <1>4, OutcomeSend
  <2>2. FinalOf(o) = "none" /\ FinalOf(o)' = answer BY <2>1, FinalIs
  <2>3. \A p \in Mutation \ {o} : FinalOf(p)' = FinalOf(p) BY <1>2, FinalIs
  <2>4. [p \in Mutation |-> FinalOf(p)]'
            = [[p \in Mutation |-> FinalOf(p)] EXCEPT ![o] = answer]
    <3>1. Mutation' = Mutation BY DEF Mutation
    <3> QED BY <2>2, <2>3, <3>1
  <2>5. [p \in Mutation |-> effects[p]]' = [p \in Mutation |-> effects[p]]
    BY <1>1 DEF Mutation
  <2>6. Ledger!Tell(o, answer)
    BY <2>1, <2>2, <2>4, <2>5 DEF Ledger!Tell
  <2> QED BY <2>1, <2>6 DEF Ledger!Next, Outcome
<1> QED BY <1>3, <1>4

\* Every step of the companion is a step of the ledger, or none of it.
LEMMA LedgerNext ==
    Uncounted /\ OutcomeInv /\ [Next]_vars => [Ledger!Next]_(Ledger!ledger)
<1> SUFFICES ASSUME Uncounted, OutcomeInv, [Next]_vars PROVE [Ledger!Next]_(Ledger!ledger)
  OBVIOUS
<1>0. ASSUME UNCHANGED <<effects, told>> PROVE [Ledger!Next]_(Ledger!ledger)
  <2>1. \A o \in Mutation : effects'[o] = effects[o] /\ FinalTold(o)' = FinalTold(o)
    BY <1>0 DEF FinalTold
  <2> QED BY <2>1, LedgerStutter
<1>1. CASE UNCHANGED vars BY <1>0, <1>1 DEF vars, observed
<1>2. CASE Asides BY <1>0, <1>2, AsideSteps
<1>3. ASSUME NEW o \in Op, o \notin Mutation, Receive(o) \/ ServeStep(o) \/ WindowMoves(o)
      PROVE  [Ledger!Next]_(Ledger!ledger)
  <2>1. \A p \in Mutation : effects'[p] = effects[p] /\ told'[p] = told[p]
    BY <1>3, ServeSteps, WindowSteps DEF Mutation
  <2>2. \A p \in Mutation : FinalTold(p)' = FinalTold(p) BY <2>1 DEF FinalTold
  <2> QED BY <2>1, <2>2, LedgerStutter
<1>4. ASSUME NEW o \in Mutation, Receive(o) PROVE [Ledger!Next]_(Ledger!ledger)
  BY <1>0, <1>4 DEF Receive, observed
<1>5. ASSUME NEW o \in Mutation, ServeStep(o) PROVE [Ledger!Next]_(Ledger!ledger)
  <2>1. serving = o BY <1>5 DEF ServeStep
  <2>2. CASE SendAnswer(o) BY <2>1, <2>2, LedgerTells
  <2>3. CASE DispatchHere(o) \/ DispatchRevoke(o)
    <3>1. effects[o] = 0 /\ FinalTold(o) = {}
      BY <2>1, <2>3, ServedKnown DEF DispatchHere, DispatchRevoke, Untouched
    <3>2. (TakesEffect(o) \/ UNCHANGED effects) /\ UNCHANGED told
      BY <2>3 DEF DispatchHere, DispatchRevoke
    <3> QED BY <1>0, <3>1, <3>2, LedgerExecutes
  <2>4. CASE ~SendAnswer(o) /\ ~DispatchHere(o) /\ ~DispatchRevoke(o)
    <3>1. UNCHANGED <<effects, told>>
      BY <1>5, <2>4 DEF ServeStep, Lookup, Reserve, DispatchRead, DispatchToWindow,
         WindowTimeout, SaveInDispatch, SaveAnswer, observed
    <3> QED BY <1>0, <3>1
  <2> QED BY <2>2, <2>3, <2>4
<1>6. ASSUME NEW o \in Mutation, WindowMoves(o) PROVE [Ledger!Next]_(Ledger!ledger)
  <2>1. CASE WindowActs(o)
    <3>1. effects[o] = 0 /\ FinalTold(o) \subseteq {"unknown"}
      BY <2>1 DEF WindowActs, OutcomeInv, Accounted, Executed
    <3>2. "refused" \notin FinalTold(o) BY <3>1
    <3>3. TakesEffect(o) /\ UNCHANGED told BY <2>1 DEF WindowActs
    <3> QED BY <3>1, <3>2, <3>3, LedgerExecutes
  <2>2. CASE ~WindowActs(o)
    <3>1. UNCHANGED <<effects, told>>
      BY <1>6, <2>2 DEF WindowMoves, WindowQueues, WindowTakes, WindowAnswers, QueueExpires,
         CompleteRequest, observed
    <3> QED BY <1>0, <3>1
  <2> QED BY <2>1, <2>2
<1> QED BY <1>1, <1>2, <1>3, <1>4, <1>5, <1>6 DEF Next, Asides

\* The account holds as long as the rows do.
LEMMA OutcomeInvariant == Spec /\ RowsKept /\ LinkedFirst => [](Uncounted /\ OutcomeInv)
<1>1. Init => Uncounted /\ CountInv /\ OutcomeInv BY TypesInit, CountInit, OutcomeInit
<1>2. Uncounted /\ CountInv /\ OutcomeInv /\ [Next]_vars /\ [KeepsRows]_vars /\ [LinksFirst]_vars
          => (Uncounted /\ CountInv /\ OutcomeInv)'
  BY TypesNext, CountNext, OutcomeNext
<1> QED BY <1>1, <1>2, PTL DEF Spec, RowsKept, LinkedFirst

\* The operations of one phone implement OperationLedger: a mutation is executed
\* at most once and its final answer is true, whatever is lost, repeated, timed
\* out or restarted - as long as no row falls out of the cap and the phone is
\* linked before it first asks. Without the first, a retry of an operation whose
\* row was pruned is executed again; without the second, a phone that is revoked
\* and paired anew while an operation is served asks again with no row left.
THEOREM OperationsAreLedger == Spec /\ RowsKept /\ LinkedFirst => OneOutcome
<1>1. Init => Ledger!Init
  <2>1. Init => \A o \in Mutation : effects[o] = 0 /\ FinalTold(o) = {}
    BY DEF Init, Mutation, FinalTold
  <2>2. Init => \A o \in Mutation : FinalOf(o) = "none" BY <2>1, FinalIs
  <2> QED BY <2>1, <2>2 DEF Ledger!Init
<1> QED BY <1>1, LedgerNext, OutcomeInvariant, PTL DEF Spec, OneOutcome, Ledger!Spec

\* The phone is never told two final answers that differ.
THEOREM FinalAnswersNeverDiffer == Spec /\ RowsKept /\ LinkedFirst => []FinalAnswersAgree
<1>1. ASSUME OutcomeInv PROVE FinalAnswersAgree
  <2>1. SUFFICES ASSUME NEW o \in Mutation PROVE Cardinality(FinalTold(o)) <= 1
    BY DEF FinalAnswersAgree
  <2>2. \A a \in FinalTold(o) : a \in Outcome /\ FinalTold(o) \subseteq {a}
    BY <1>1 DEF OutcomeInv, Accounted, Executed, Backed, FinalTold, Outcome
  <2>3. CASE FinalTold(o) = {} BY <2>3, FS_EmptySet
  <2>4. ASSUME NEW a \in FinalTold(o) PROVE Cardinality(FinalTold(o)) <= 1
    <3>1. FinalTold(o) = {a} BY <2>2
    <3>2. Cardinality({a}) = 1 BY FS_Singleton
    <3> QED BY <3>1, <3>2
  <2> QED BY <2>3, <2>4
<1> QED BY <1>1, OutcomeInvariant, PTL

-----------------------------------------------------------------------------
(* One linked phone whose operations fit under the cap *)

\* No row is older than itself.
Irreflexive == \A o \in Op : <<o, o>> \notin history

\* No more operations than rows: none is pruned.
LEMMA NothingPruned ==
    ASSUME IsFiniteSet(Op), Cardinality(Op) <= MaxCompleted,
           NEW order, \A o \in Op : <<o, o>> \notin order, NEW state
    PROVE  Pruned(order, state) = {}
<1> SUFFICES ASSUME NEW o \in Pruned(order, state) PROVE FALSE OBVIOUS
<1> DEFINE newer == {p \in Op : state[p] = "completed" /\ <<o, p>> \in order}
<1>1. o \in Op /\ Cardinality(newer) >= MaxCompleted BY DEF Pruned
<1>2. newer \subseteq Op \ {o} BY <1>1
<1>3. IsFiniteSet(Op \ {o}) /\ Cardinality(Op \ {o}) = Cardinality(Op) - 1
  BY <1>1, FS_RemoveElement
<1>4. Cardinality(newer) <= Cardinality(Op \ {o}) /\ Cardinality(newer) \in Nat
  BY <1>2, <1>3, FS_Subset, FS_CardinalityType
<1>5. Cardinality(Op) \in Nat /\ MaxCompleted \in Nat BY FS_CardinalityType, ConstAssumption
<1> QED BY <1>1, <1>3, <1>4, <1>5

\* Every row stays where there is room for all.
LEMMA RowsFit ==
    ASSUME IsFiniteSet(Op), Cardinality(Op) <= MaxCompleted,
           Uncounted, Irreflexive, Next
    PROVE  KeepsRows /\ Irreflexive'
<1>0. ASSUME UNCHANGED <<row, history>> \/ \E mark \in {"none", "revoked"} : Revoke(mark)
      PROVE  KeepsRows /\ Irreflexive'
  BY <1>0 DEF KeepsRows, Irreflexive, Revoke
<1>1. ASSUME NEW o \in Op, NEW state \in Stored, NEW response, Write(o, state, response)
      PROVE  KeepsRows /\ Irreflexive'
  <2> DEFINE older == IF row[o] = "none" THEN {p \in Op : row[p] # "none"} \X {o} ELSE {}
             order == history \cup older
             now   == [row EXCEPT ![o] = state]
  <2>1. \A p \in Op : <<p, p>> \notin order BY DEF Irreflexive
  <2>2. Pruned(order, now) = {} BY <2>1, NothingPruned
  <2>3. /\ history' = order \ ((Pruned(order, now) \X Op) \cup (Op \X Pruned(order, now)))
        /\ row' = [p \in Op |-> IF p \in Pruned(order, now) THEN "none" ELSE now[p]]
    BY <1>1 DEF Write
  <2>4. \A p \in Op : now[p] = IF p = o THEN state ELSE row[p] BY DEF Uncounted, RowTypes
  <2> HIDE DEF order, now
  <2>5. history' \subseteq order /\ row' = [p \in Op |-> now[p]] BY <2>2, <2>3
  <2> QED BY <2>1, <2>4, <2>5 DEF KeepsRows, Irreflexive, Stored
<1>2. CASE Asides BY <1>0, <1>2, AsideSteps
<1>3. ASSUME NEW o \in Op, Receive(o) PROVE KeepsRows /\ Irreflexive'
  BY <1>0, <1>3 DEF Receive, db
<1>4. ASSUME NEW o \in Op, WindowMoves(o) PROVE KeepsRows /\ Irreflexive'
  BY <1>0, <1>4, WindowSteps
<1>5. ASSUME NEW o \in Op, ServeStep(o) PROVE KeepsRows /\ Irreflexive'
  <2>1. CASE DispatchRevoke(o)
    <3>1. UNCHANGED <<row, history>> \/ \E mark \in {"none", "revoked"} : Revoke(mark)
      BY <2>1 DEF DispatchRevoke, db
    <3> QED BY <1>0, <3>1
  <2>2. CASE ~DispatchRevoke(o)
    <3>1. \/ UNCHANGED <<row, history>>
          \/ \E state \in Stored : \E response : Write(o, state, response)
      BY <1>5, <2>2 DEF ServeStep, Lookup, Reserve, Reservation, DispatchHere, DispatchRead,
         DispatchToWindow, WindowTimeout, SaveInDispatch, SaveAnswer, SendAnswer, Complete,
         Remember, Stored, db
    <3> QED BY <1>0, <1>1, <3>1
  <2> QED BY <2>1, <2>2
<1> QED BY <1>2, <1>3, <1>4, <1>5 DEF Next, Asides

\* Without a pairing command no phone is linked.
LEMMA NoNewPhone ==
    ASSUME MaxPairings = 0, Uncounted, pair = "idle", Next
    PROVE  LinksFirst /\ pair' = "idle"
<1>1. CASE RelayStays
  BY <1>1 DEF RelayStays, RelayChecks, RelayConnects, RelayEnds, RelayRetries, RelayGivesUp,
     LinksFirst, db, account
<1>2. ASSUME NEW o \in Op, Receive(o) \/ WindowMoves(o) PROVE LinksFirst /\ pair' = "idle"
  BY <1>2 DEF Receive, WindowMoves, WindowQueues, WindowTakes, WindowActs, WindowAnswers,
     QueueExpires, CompleteRequest, LinksFirst, db, account
<1>3. ASSUME NEW o \in Op, ServeStep(o) PROVE LinksFirst /\ pair' = "idle"
  <2>1. UNCHANGED pair
    BY <1>3 DEF ServeStep, Lookup, Reserve, DispatchHere, DispatchRead, DispatchRevoke,
       DispatchToWindow, WindowTimeout, SaveInDispatch, SaveAnswer, SendAnswer, account
  <2>2. device' = device \/ device' # "active"
    BY <1>3 DEF ServeStep, Lookup, Reserve, DispatchHere, DispatchRead, DispatchRevoke,
       DispatchToWindow, WindowTimeout, SaveInDispatch, SaveAnswer, SendAnswer, Revoke, db
  <2> QED BY <2>1, <2>2 DEF LinksFirst
<1>4. ASSUME NEW step \in {"qr", "approve"} PROVE ~PairBegins(step)
  BY DEF PairBegins, Uncounted
<1>5. ~PairMoves
  BY DEF PairMoves, PairChecks, RememberPairing, ReadPhone, InsertPhone, PairSettles
<1>6. CASE RevokeDevice BY <1>6 DEF RevokeDevice, Revoke, LinksFirst, account
<1>7. CASE LogoutBegins \/ LogoutMoves \/ SignIn \/ Crash
  BY <1>7 DEF LogoutBegins, LogoutMoves, LogoutClearsPairings, LogoutStops, LogoutDrains,
     LogoutGivesUp, LogoutRevokes, LogoutClearsTokens, SignIn, Crash, Revoke, LinksFirst, db
<1> QED BY <1>1, <1>2, <1>3, <1>4, <1>5, <1>6, <1>7 DEF Next

\* The hypotheses hold by themselves where the operations fit under the cap and
\* no phone is paired anew: for the phone that is linked, whatever is lost,
\* repeated, timed out, revoked, signed out or restarted, each of its operations
\* is executed at most once and has one true final answer.
THEOREM LinkedPhoneHasLedger ==
    ASSUME IsFiniteSet(Op), Cardinality(Op) <= MaxCompleted, MaxPairings = 0
    PROVE  Spec => OneOutcome /\ []FinalAnswersAgree
<1>1. Init => Irreflexive /\ pair = "idle" BY DEF Init, Irreflexive
<1>2. Uncounted /\ Irreflexive /\ [Next]_vars => Irreflexive' /\ [KeepsRows]_vars
  <2>1. UNCHANGED vars => UNCHANGED history BY DEF vars, db
  <2> QED BY <2>1, RowsFit DEF Irreflexive
<1>3. Uncounted /\ pair = "idle" /\ [Next]_vars => (pair = "idle")' /\ [LinksFirst]_vars
  <2>1. UNCHANGED vars => UNCHANGED pair BY DEF vars, account
  <2> QED BY <2>1, NoNewPhone
<1>4. Spec => RowsKept /\ LinkedFirst
  BY <1>1, <1>2, <1>3, TypesInit, TypesNext, PTL DEF Spec, RowsKept, LinkedFirst
<1> QED BY <1>4, OperationsAreLedger, FinalAnswersNeverDiffer, PTL
=============================================================================
