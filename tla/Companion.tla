------------------------------ MODULE Companion ------------------------------
(***************************************************************************)
(* The desktop end of the companion (src-tauri/src/companion/):            *)
(*   - the relay task (transport.rs): one connection at a time, one        *)
(*     request of the phone at a time, dispatched by controller.rs;        *)
(*   - the rows of companion_operations (db/repositories.rs) that make a   *)
(*     mutation's operation id at most once;                               *)
(*   - the window, which executes some requests in its own time;           *)
(*   - pairing, revocation and the sign-out barrier (companion/mod.rs,     *)
(*     os_accounts.rs).                                                    *)
(*                                                                         *)
(* One account and one phone. The phone keeps an operation's id over its   *)
(* retries, so it may send an operation again at any time. The request     *)
(* bodies are told apart by who executes them:                             *)
(*   "desktop"  executed inside dispatch (a note edit, a setting)          *)
(*   "window"   handed to the window (agent_send, agent_cancel)            *)
(*   "revoke"   the phone revokes itself                                   *)
(*   "read"     no effect, not reserved, answered inside dispatch (the     *)
(*              reads the window answers are left out)                     *)
(* and the answers by what they make the phone and the desktop do:         *)
(*   "ok"       done                    "refused"  final, nothing done     *)
(*   "unknown"  final, outcome unknown  "busy"     retryable, not saved    *)
(*   "denied"   the device is not linked                                   *)
(***************************************************************************)
EXTENDS Integers, FiniteSets

CONSTANTS
    Op,              \* operation ids of the phone
    Kind,            \* the kind of body each carries
    NoOp,            \* no operation
    MaxCompleted,    \* MAX_COMPANION_OPERATIONS_PER_DEVICE
    MaxPending,      \* MAX_PENDING_COMPANION_OPERATIONS_PER_DEVICE
    MaxSends,        \* bound: frames the phone sends for one operation
    MaxCrashes,      \* bound: crashes of the app
    MaxLogouts,      \* bound: sign-outs
    MaxPairings      \* bound: pairing commands

ASSUME ConstAssumption ==
    /\ Kind \in [Op -> {"desktop", "window", "revoke", "read"}]
    /\ NoOp \notin Op
    /\ \A n \in {MaxCompleted, MaxPending, MaxSends, MaxCrashes, MaxLogouts, MaxPairings} :
           n \in Nat

VARIABLES
    \* the database
    device,      \* the phone's row in companion_devices
    row,         \* operation_state of each row of companion_operations
    saved,       \* its response
    history,     \* their order by created_at, rowid: pairs of an older and a newer row
    \* the runtime's memory
    enabled,     \* account_transport_enabled
    activity,    \* account_activity
    pending,     \* pending_frontend: operations whose sender is registered
    active,      \* active_frontend_operations
    pairings,    \* whether a pending pairing exists
    \* the relay task
    relay, serving, answer,
    \* the window
    window,      \* where each operation is in the window
    \* commands and the account
    pair,        \* where the pairing command is
    logout,      \* where os_accounts_logout is
    signedIn,
    \* history the properties speak about
    effects,     \* how often each operation took effect
    told,        \* the answers that reached the phone
    sends, crashes, logouts, pairs

db       == <<device, row, saved, history>>
barrier  == <<enabled, activity, active>>
task     == <<relay, serving, answer>>
observed == <<effects, told>>
bounds   == <<sends, crashes, logouts, pairs>>
account  == <<pair, logout, signedIn, pairings>>
vars     == <<db, barrier, pending, task, window, account, observed, bounds>>

-----------------------------------------------------------------------------
(* Vocabulary *)

Mutation == {o \in Op : Kind[o] # "read"}
Final    == {"ok", "refused", "unknown", "denied"}
Answer   == Final \cup {"none", "busy"}

RelayStep  == {"off", "begin", "connect", "online", "lookup", "reserve", "dispatch",
               "acted", "window", "answered", "send", "resting"}
\* The steps in which the task works with the relay or on a request.
Working    == RelayStep \ {"off", "begin", "resting"}
PairStep   == {"idle", "qr", "qr_open", "approve", "approve_open", "insert",
               "wait_new", "wait_old"}
\* The steps in which a pairing command passed the barrier.
PairOpen   == {"qr_open", "approve_open", "insert", "wait_new", "wait_old"}
LogoutStep == {"none", "disabled", "stopping", "draining", "revoking", "clearing"}
WindowStep == {"none", "emitted", "queued", "taken", "acted"}

TypeOK ==
    /\ device \in {"none", "active", "revoked"}
    /\ row \in [Op -> {"none", "pending", "completed"}]
    /\ saved \in [Op -> Answer]
    /\ history \subseteq Op \X Op
    /\ enabled \in BOOLEAN
    /\ activity \in Nat
    /\ pending \subseteq Op
    /\ active \subseteq Op
    /\ pairings \in BOOLEAN
    /\ relay \in RelayStep
    /\ serving \in Op \cup {NoOp}
    /\ answer \in Answer
    /\ window \in [Op -> WindowStep]
    /\ pair \in PairStep
    /\ logout \in LogoutStep
    /\ signedIn \in BOOLEAN
    /\ effects \in [Op -> Nat]
    /\ told \in [Op -> SUBSET Answer]
    /\ sends \in [Op -> Nat]
    /\ crashes \in Nat /\ logouts \in Nat /\ pairs \in Nat

Init ==
    /\ device \in {"none", "active"}
    /\ row = [o \in Op |-> "none"]
    /\ saved = [o \in Op |-> "none"]
    /\ history = {}
    /\ enabled = TRUE
    /\ activity = 1 /\ relay = "begin"
    /\ pending = {} /\ active = {}
    /\ pairings = FALSE
    /\ serving = NoOp /\ answer = "none"
    /\ window = [o \in Op |-> "none"]
    /\ pair = "idle" /\ logout = "none" /\ signedIn = TRUE
    /\ effects = [o \in Op |-> 0]
    /\ told = [o \in Op |-> {}]
    /\ sends = [o \in Op |-> 0]
    /\ crashes = 0 /\ logouts = 0 /\ pairs = 0

-----------------------------------------------------------------------------
(* companion_operations *)

\* What the lookup of a saved response finds: only a linked device has one.
SavedFor(o) == IF device = "active" /\ row[o] # "none" THEN saved[o] ELSE "none"

\* Faulty variant: unresolved reservations share the cap of completed rows.
PrunedTogether(order, state) ==
    {o \in Op : /\ state[o] # "none"
                /\ Cardinality({p \in Op : <<o, p>> \in order}) >= MaxCompleted}

\* prune_companion_operations: the completed rows beyond the newest ones the
\* cap allows.
Pruned(order, state) ==
    {o \in Op : /\ state[o] = "completed"
                /\ Cardinality({p \in Op : state[p] = "completed" /\ <<o, p>> \in order})
                       >= MaxCompleted}

\* A write of one row and the pruning in the same transaction. A row that
\* exists keeps its place: created_at is not updated.
Write(o, state, response) ==
    LET older == IF row[o] = "none" THEN {p \in Op : row[p] # "none"} \X {o} ELSE {}
        order == history \cup older
        now   == [row EXCEPT ![o] = state]
        gone  == Pruned(order, now)
    IN  /\ history' = order \ ((gone \X Op) \cup (Op \X gone))
        /\ row' = [p \in Op |-> IF p \in gone THEN "none" ELSE now[p]]
        /\ saved' = [p \in Op |-> IF p \in gone THEN "none"
                                  ELSE IF p = o THEN response ELSE saved[p]]

\* complete_companion_operation: the response replaces what is there.
Complete(o, response) ==
    IF device = "active" THEN Write(o, "completed", response)
    ELSE UNCHANGED <<row, saved, history>>

\* remember_companion_operation: INSERT OR IGNORE.
Remember(o, response) ==
    IF device = "active" /\ row[o] = "none" THEN Write(o, "completed", response)
    ELSE UNCHANGED <<row, saved, history>>

Unresolved == {o \in Op : row[o] = "pending"}

\* revoke_companion_device: the row of the device is marked, its operations go.
Revoke(mark) ==
    /\ device' = mark
    /\ row' = [o \in Op |-> "none"]
    /\ saved' = [o \in Op |-> "none"]
    /\ history' = {}

-----------------------------------------------------------------------------
(* The relay task: reconnect_loop and connect_once *)

Answered(a) == relay' = "answered" /\ answer' = a

\* transport::start: a task is spawned unless one is there. (A task spawned
\* while logout is stopping the old one finds the transport disabled and ends.)
Start == relay' = IF relay = "off" THEN "begin" ELSE relay
Starting == IF relay = "off" THEN 1 ELSE 0

\* TransportActivityGuard: it lives from the top of the loop until the task
\* waits or returns.
TaskHolds == IF relay \in {"off", "resting"} THEN 0 ELSE 1

\* The top of the loop, with the activity guard taken.
RelayChecks ==
    /\ relay = "begin"
    /\ IF enabled /\ ((device = "active" /\ signedIn) \/ pairings)
       THEN relay' = "connect" /\ UNCHANGED activity
       ELSE /\ relay' = IF enabled THEN "resting" ELSE "off"
            /\ activity' = activity - 1
    /\ UNCHANGED <<db, enabled, active, pending, serving, answer, window, account, observed,
                   bounds>>

\* The guard is dropped before the loop waits or returns.
RelayLeaves ==
    /\ activity' = activity - 1
    /\ relay' = (IF enabled THEN "resting" ELSE "off")
    /\ serving' = NoOp /\ answer' = "none"

RelayConnects ==
    /\ relay = "connect" /\ signedIn
    /\ relay' = "online"
    /\ UNCHANGED <<db, barrier, pending, serving, answer, window, account, observed,
                   bounds>>

\* The connection fails or ends: by the network, by delta_tick when the
\* transport is disabled, or because account_session_changed was notified.
RelayEnds ==
    /\ relay \in {"connect", "online"}
    /\ RelayLeaves
    /\ UNCHANGED <<db, enabled, active, pending, window, account, observed, bounds>>

\* wait_for_account_retry: a timer, or the end when the account is signed out.
RelayRetries ==
    /\ relay = "resting"
    /\ relay' = "begin" /\ activity' = activity + 1
    /\ UNCHANGED <<db, enabled, active, pending, serving, answer, window, account, observed,
                   bounds>>

RelayGivesUp ==
    /\ relay = "resting" /\ ~enabled
    /\ relay' = "off"
    /\ UNCHANGED <<db, barrier, pending, serving, answer, window, account, observed,
                   bounds>>

-----------------------------------------------------------------------------
(* One request: receive_envelope, Controller::dispatch, dispatch_request *)

\* A frame of the phone arrives; dispatch first asks for the linked device.
Receive(o) ==
    /\ relay = "online" /\ sends[o] < MaxSends
    /\ sends' = [sends EXCEPT ![o] = @ + 1]
    /\ serving' = o
    /\ IF device = "active" THEN relay' = "lookup" /\ UNCHANGED answer
       ELSE Answered("denied")
    /\ UNCHANGED <<db, barrier, pending, window, account, observed,
                   crashes, logouts, pairs>>

\* The saved response, if there is one. accept_sequence has nothing to refuse:
\* a session of the encrypted channel delivers each frame once and in order,
\* and the sequence starts anew with each session.
Lookup(o) ==
    /\ relay = "lookup"
    /\ IF SavedFor(o) # "none" THEN Answered(SavedFor(o))
       ELSE relay' = (IF o \in Mutation THEN "reserve" ELSE "dispatch") /\ UNCHANGED answer
    /\ UNCHANGED <<db, barrier, pending, serving, window, account, observed, bounds>>

\* Faulty variant: the operation is only remembered in inflight_operations.
ReservationInMemory(o) == UNCHANGED <<row, saved, history>>

Reservation(o) == Write(o, "pending", "unknown")

Reservable(o) ==
    device = "active" /\ row[o] = "none" /\ Cardinality(Unresolved) < MaxPending

\* reserve_companion_operation; what is not reserved is answered by the row
\* that is there, else there is no room for another unresolved operation.
Reserve(o) ==
    /\ relay = "reserve"
    /\ IF Reservable(o)
       THEN Reservation(o) /\ relay' = "dispatch" /\ UNCHANGED answer
       ELSE /\ Answered(IF SavedFor(o) # "none" THEN SavedFor(o) ELSE "busy")
            /\ UNCHANGED <<row, saved, history>>
    /\ UNCHANGED <<device, barrier, pending, serving, window, account, observed, bounds>>

TakesEffect(o) == effects' = [effects EXCEPT ![o] = @ + 1]

\* The body is executed here: it succeeds, or its error is final (the note
\* changed, the request is invalid) or not, perhaps after it took effect.
DispatchHere(o) ==
    /\ relay = "dispatch" /\ Kind[o] = "desktop"
    /\ \/ TakesEffect(o) /\ relay' = "acted" /\ answer' = "ok"
       \/ Answered("refused") /\ UNCHANGED effects
       \/ Answered("busy") /\ (TakesEffect(o) \/ UNCHANGED effects)
    /\ UNCHANGED <<db, barrier, pending, serving, window, account, told, bounds>>

DispatchRead(o) ==
    /\ relay = "dispatch" /\ Kind[o] = "read"
    /\ (relay' = "acted" /\ answer' = "ok") \/ Answered("busy")
    /\ UNCHANGED <<db, barrier, pending, serving, window, account, observed, bounds>>

\* device_revoke_self: the relay first, then the rows of the device.
DispatchRevoke(o) ==
    /\ relay = "dispatch" /\ Kind[o] = "revoke"
    /\ \/ /\ Revoke(IF device = "none" THEN "none" ELSE "revoked")
          /\ TakesEffect(o) /\ relay' = "acted" /\ answer' = "ok"
       \/ Answered("busy") /\ UNCHANGED <<db, effects>>
    /\ UNCHANGED <<barrier, pending, serving, window, account, told, bounds>>

\* Faulty variant: the activity ends once for the relay and once for the window.
FinishTwice(o) == active' = active \ {o} /\ activity' = activity - 1

\* FrontendActivityGuard: the operation counts until somebody finishes it.
Finish(o) ==
    /\ active' = active \ {o}
    /\ activity' = IF o \in active THEN activity - 1 ELSE activity

\* The body is handed to the window; its attachments or the window may be gone.
DispatchToWindow(o) ==
    /\ relay = "dispatch" /\ Kind[o] = "window"
    /\ \/ /\ relay' = "window" /\ UNCHANGED answer
          /\ pending' = pending \cup {o}
          /\ active' = active \cup {o}
          /\ activity' = IF o \in active THEN activity ELSE activity + 1
          /\ window' = [window EXCEPT ![o] = "emitted"]
       \/ /\ Answered("refused") \/ Answered("busy")
          /\ UNCHANGED <<pending, active, activity, window>>
    /\ UNCHANGED <<db, enabled, serving, account, observed, bounds>>

\* Faulty variant: the sender stays registered after the timeout.
WindowTimeoutKeeps(o) ==
    /\ relay = "window"
    /\ Finish(o)
    /\ Answered("busy")
    /\ UNCHANGED <<db, enabled, pending, serving, window, account, observed, bounds>>

\* Faulty variant: the timeout is the queue's, so a taken request has none.
WindowTimeoutInQueue(o) ==
    /\ relay = "window" /\ window[o] # "taken"
    /\ pending' = pending \ {o}
    /\ Finish(o)
    /\ Answered("busy")
    /\ UNCHANGED <<db, enabled, serving, window, account, observed, bounds>>

\* FRONTEND_TIMEOUT: the answer is retryable, and the guard's Drop ends the
\* activity although the window still has the request.
WindowTimeout(o) ==
    /\ relay = "window"
    /\ pending' = pending \ {o}
    /\ Finish(o)
    /\ Answered("busy")
    /\ UNCHANGED <<db, enabled, serving, window, account, observed, bounds>>

\* A finished body is saved by dispatch; if that fails the error is retryable.
SaveInDispatch(o) ==
    /\ relay = "acted"
    /\ \/ /\ IF o \in Mutation THEN Complete(o, answer) ELSE Remember(o, answer)
          /\ Answered(answer)
       \/ Answered("busy") /\ UNCHANGED <<row, saved, history>>
    /\ UNCHANGED <<device, barrier, pending, serving, window, account, observed, bounds>>

\* should_cache_response: what is not retryable is saved before it is sent. If
\* that fails the connection ends.
SaveAnswer(o) ==
    /\ relay = "answered"
    /\ \/ /\ IF answer \in Final THEN Complete(o, answer)
             ELSE UNCHANGED <<row, saved, history>>
          /\ relay' = "send"
          /\ UNCHANGED <<activity, serving, answer>>
       \/ answer \in Final /\ RelayLeaves /\ UNCHANGED <<row, saved, history>>
    /\ UNCHANGED <<device, enabled, active, pending, window, account, observed, bounds>>

\* The answer reaches the phone, is lost behind the socket, or cannot be sent.
SendAnswer(o) ==
    /\ relay = "send"
    /\ \/ /\ told' = [told EXCEPT ![o] = @ \cup {answer}] \/ UNCHANGED told
          /\ relay' = "online" /\ serving' = NoOp /\ answer' = "none"
          /\ UNCHANGED activity
       \/ RelayLeaves /\ UNCHANGED told
    /\ UNCHANGED <<db, enabled, active, pending, window, account, effects, bounds>>

ServeStep(o) ==
    /\ serving = o
    /\ \/ Lookup(o) \/ Reserve(o)
       \/ DispatchHere(o) \/ DispatchRead(o) \/ DispatchRevoke(o) \/ DispatchToWindow(o)
       \/ WindowTimeout(o)
       \/ SaveInDispatch(o) \/ SaveAnswer(o) \/ SendAnswer(o)

-----------------------------------------------------------------------------
(* The window: App.tsx, companion-frontend-router.ts, AgentWorkspace.tsx *)

\* The app shell's listener queues the request, unless it can answer itself.
WindowQueues(o) ==
    /\ window[o] = "emitted"
    /\ window' = [window EXCEPT ![o] = "queued"]
    /\ UNCHANGED <<db, barrier, pending, task, account, observed, bounds>>

\* The workspace takes what is queued.
WindowTakes(o) ==
    /\ window[o] = "queued"
    /\ window' = [window EXCEPT ![o] = "taken"]
    /\ UNCHANGED <<db, barrier, pending, task, account, observed, bounds>>

WindowActs(o) ==
    /\ window[o] = "taken"
    /\ window' = [window EXCEPT ![o] = "acted"]
    /\ TakesEffect(o)
    /\ UNCHANGED <<db, barrier, pending, task, account, told, bounds>>

\* companion_complete_frontend_request: the result reaches the waiting relay
\* task if the sender is still registered.
CompleteRequest(o, result) ==
    /\ pending' = pending \ {o}
    /\ Finish(o)
    /\ IF o \in pending THEN Answered(result) ELSE UNCHANGED <<relay, answer>>
    /\ window' = [window EXCEPT ![o] = "none"]
    /\ UNCHANGED <<db, enabled, serving, account, observed, bounds>>

\* After the effect: success, or an error that may be tried again. Before it:
\* the session is gone, or an error.
WindowAnswers(o) ==
    \/ window[o] = "acted" /\ \E result \in {"ok", "busy"} : CompleteRequest(o, result)
    \/ /\ window[o] \in {"emitted", "taken"}
       /\ \E result \in {"refused", "busy"} : CompleteRequest(o, result)

\* Thirty seconds in the queue: companion_cancel_frontend_request, which drops
\* the sender, so the relay task finds the window unavailable.
QueueExpires(o) ==
    /\ window[o] = "queued"
    /\ CompleteRequest(o, "busy")

WindowMoves(o) ==
    WindowQueues(o) \/ WindowTakes(o) \/ WindowActs(o) \/ WindowAnswers(o) \/ QueueExpires(o)

-----------------------------------------------------------------------------
(* Pairing and revocation: companion/mod.rs *)

\* CompanionAccountActivityGuard::begin counts first and tests then.
PairBegins(step) ==
    /\ pair = "idle" /\ pairs < MaxPairings
    /\ pair' = step
    /\ activity' = activity + 1
    /\ pairs' = pairs + 1
    /\ UNCHANGED <<db, enabled, active, pending, task, window, logout, signedIn, pairings,
                   observed, sends, crashes, logouts>>

PairEnds == pair' = "idle" /\ activity' = activity - 1

\* Faulty variant: the guard counts, but does not test the transport.
PairAllowedAlways == IF pair = "qr" THEN signedIn ELSE pairings

\* A pairing code needs the signed-in user, an approval the pairing it is for.
PairAllowed == enabled /\ IF pair = "qr" THEN signedIn ELSE pairings

PairChecks ==
    /\ pair \in {"qr", "approve"}
    /\ IF PairAllowed
       THEN pair' = (IF pair = "qr" THEN "qr_open" ELSE "approve_open") /\ UNCHANGED activity
       ELSE PairEnds
    /\ UNCHANGED <<db, enabled, active, pending, task, window, logout, signedIn, pairings,
                   observed, bounds>>

\* Faulty variant: the pairing is remembered whatever happened meanwhile.
RememberPairingAlways ==
    /\ pair = "qr_open"
    /\ pairings' = TRUE \/ UNCHANGED pairings
    /\ PairEnds
    /\ UNCHANGED <<db, enabled, active, pending, task, window, logout, signedIn, observed,
                   bounds>>

\* remember_pending_pairing tests the transport under the lock of the map; the
\* relay may also have refused the request.
RememberPairing ==
    /\ pair = "qr_open"
    /\ pairings' = (pairings \/ enabled) \/ UNCHANGED pairings
    /\ PairEnds
    /\ UNCHANGED <<db, enabled, active, pending, task, window, logout, signedIn, observed,
                   bounds>>

\* The proposal is fetched and the device read: a revoked one is turned away,
\* a linked one only waits for the relay.
ReadPhone ==
    /\ pair = "approve_open"
    /\ \/ ~(device # "revoked" /\ pairings /\ signedIn) /\ PairEnds /\ UNCHANGED relay
       \/ /\ device # "revoked" /\ pairings /\ signedIn
          /\ \/ device = "none" /\ pair' = "insert" /\ UNCHANGED <<relay, activity>>
             \/ /\ device = "active" /\ pair' = "wait_old"
                /\ Start /\ activity' = activity + Starting
             \/ PairEnds /\ UNCHANGED relay
    /\ UNCHANGED <<db, enabled, active, pending, serving, answer, window, logout, signedIn,
                   pairings, observed, bounds>>

InsertPhone ==
    /\ pair = "insert"
    /\ device' = "active"
    /\ pair' = "wait_new"
    /\ Start /\ activity' = activity + Starting
    /\ UNCHANGED <<row, saved, history, enabled, active, pending, serving, answer, window,
                   logout, signedIn, pairings, observed, bounds>>

\* The relay approved, refused or never came up (a phone inserted for this
\* approval is deleted again), or the outcome is unknown and the row stays. The
\* metadata of a phone that was linked is refreshed by the same upsert.
PairSettles ==
    /\ pair \in {"wait_new", "wait_old"}
    /\ PairEnds
    /\ \/ UNCHANGED db
       \/ pair = "wait_old" /\ device' = "active" /\ UNCHANGED <<row, saved, history>>
       \/ pair = "wait_new" /\ Revoke("none")
    /\ UNCHANGED <<enabled, active, pending, task, window, logout, signedIn, pairings,
                   observed, bounds>>

\* companion_revoke_device, from the settings.
RevokeDevice ==
    /\ device = "active" /\ signedIn
    /\ Revoke("revoked")
    /\ UNCHANGED <<barrier, pending, task, window, account, observed, bounds>>

-----------------------------------------------------------------------------
(* Sign-out and sign-in: os_accounts.rs, prepare_account_logout *)

\* The transport is disabled, then the pairings are cleared, then the task is
\* stopped, then the account's activity is waited for.
LogoutBegins ==
    /\ logout = "none" /\ signedIn /\ logouts < MaxLogouts
    /\ logout' = "disabled"
    /\ enabled' = FALSE
    /\ logouts' = logouts + 1
    /\ UNCHANGED <<db, activity, active, pending, task, window, pair, signedIn, pairings,
                   observed, sends, crashes, pairs>>

LogoutClearsPairings ==
    /\ logout = "disabled"
    /\ logout' = "stopping"
    /\ pairings' = FALSE
    /\ UNCHANGED <<db, barrier, pending, task, window, pair, signedIn, observed, bounds>>

\* transport::stop: the task has ended, or it is aborted at whatever it awaits
\* and its guards are dropped.
LogoutStops ==
    /\ logout = "stopping"
    /\ logout' = "draining"
    /\ relay' = "off" /\ serving' = NoOp /\ answer' = "none"
    /\ pending' = IF relay = "window" THEN pending \ {serving} ELSE pending
    /\ LET mine == IF relay = "window" THEN active \cap {serving} ELSE {}
       IN  /\ active' = active \ mine
           /\ activity' = activity - TaskHolds - Cardinality(mine)
    /\ UNCHANGED <<db, enabled, window, pair, signedIn, pairings, observed, bounds>>

\* wait_for_account_activity
Drained == activity = 0

LogoutDrains ==
    /\ logout = "draining" /\ Drained
    /\ logout' = "revoking"
    /\ UNCHANGED <<db, barrier, pending, task, window, pair, signedIn, pairings, observed,
                   bounds>>

\* Faulty variant: the account's activity is waited for without a bound.
LogoutWaits == logout = "draining" /\ FALSE /\ UNCHANGED vars

\* ACCOUNT_ACTIVITY_SHUTDOWN_TIMEOUT, or the rows cannot be read or written:
\* os_accounts_logout resumes the transport.
LogoutGivesUp ==
    /\ (logout = "draining" /\ activity > 0) \/ logout = "revoking"
    /\ logout' = "none"
    /\ enabled' = TRUE
    /\ Start /\ activity' = activity + Starting
    /\ UNCHANGED <<db, active, pending, serving, answer, window, pair, signedIn, pairings,
                   observed, bounds>>

\* revoke_companion_devices_for_account
LogoutRevokes ==
    /\ logout = "revoking"
    /\ logout' = "clearing"
    /\ Revoke(IF device = "none" THEN "none" ELSE "revoked")
    /\ UNCHANGED <<barrier, pending, task, window, pair, signedIn, pairings, observed, bounds>>

LogoutClearsTokens ==
    /\ logout = "clearing"
    /\ logout' = "none"
    /\ signedIn' = FALSE
    /\ UNCHANGED <<db, barrier, pending, task, window, pair, pairings, observed, bounds>>

\* os_accounts_login: resume_account_transport.
SignIn ==
    /\ ~signedIn /\ logout = "none"
    /\ signedIn' = TRUE
    /\ enabled' = TRUE
    /\ Start /\ activity' = activity + Starting
    /\ UNCHANGED <<db, active, pending, serving, answer, window, pair, logout, pairings,
                   observed, bounds>>

\* The app stops; at the next launch only the database and the tokens are left.
Crash ==
    /\ crashes < MaxCrashes
    /\ crashes' = crashes + 1
    /\ enabled' = TRUE
    /\ activity' = 1 /\ relay' = "begin"
    /\ pending' = {} /\ active' = {} /\ pairings' = FALSE
    /\ serving' = NoOp /\ answer' = "none"
    /\ window' = [o \in Op |-> "none"]
    /\ pair' = "idle" /\ logout' = "none"
    /\ UNCHANGED <<db, signedIn, observed, sends, logouts, pairs>>

-----------------------------------------------------------------------------
(* The system *)

RelayStays == RelayChecks \/ RelayConnects \/ RelayEnds \/ RelayRetries \/ RelayGivesUp

PairMoves == PairChecks \/ RememberPairing \/ ReadPhone \/ InsertPhone \/ PairSettles

LogoutMoves ==
    LogoutClearsPairings \/ LogoutStops \/ LogoutDrains \/ LogoutGivesUp
    \/ LogoutRevokes \/ LogoutClearsTokens

Next ==
    \/ RelayStays
    \/ \E o \in Op : Receive(o) \/ ServeStep(o) \/ WindowMoves(o)
    \/ \E step \in {"qr", "approve"} : PairBegins(step)
    \/ PairMoves
    \/ RevokeDevice
    \/ LogoutBegins \/ LogoutMoves \/ SignIn
    \/ Crash

Spec == Init /\ [][Next]_vars

\* The desktop's own tasks go on: a request being served is served, with the
\* window's timeout, and each step of a sign-out has its own bound.
Fairness ==
    /\ WF_vars(\E o \in Op : ServeStep(o))
    /\ WF_vars(LogoutMoves)

LiveSpec == Spec /\ Fairness

-----------------------------------------------------------------------------
(* Properties *)

\* The operations of one phone implement the ledger: at most one execution, at
\* most one final answer, and that answer is true (ADR-0048).
FinalTold(o) == told[o] \cap {"ok", "refused", "unknown"}
FinalOf(o) == IF FinalTold(o) = {} THEN "none" ELSE CHOOSE a \in FinalTold(o) : TRUE

Ledger == INSTANCE OperationLedger
              WITH Mutation <- Mutation,
                   done <- [o \in Mutation |-> effects[o]],
                   final <- [o \in Mutation |-> FinalOf(o)]

OneOutcome == Ledger!Spec

\* The phone never gets two final answers that differ. (FinalOf would hide it.)
FinalAnswersAgree == \A o \in Mutation : Cardinality(FinalTold(o)) <= 1

\* Only its own request or a revocation resolves a reservation: neither other
\* requests nor the pruning they cause take it away.
OthersSpareReservations ==
    [][\A o \in Op :
           row[o] = "pending" /\ device' = "active" /\ serving # o
               => row'[o] = "pending"]_vars

\* The counter the sign-out waits for is the number of those that hold it: the
\* relay task, the operations in the window and a pairing command.
ActivityIsHeld ==
    activity = TaskHolds + Cardinality(active) + (IF pair = "idle" THEN 0 ELSE 1)

\* A registered sender belongs to the request the relay task waits for.
SendersAwaited == pending \subseteq (IF relay = "window" THEN {serving} ELSE {})

\* While the account's grants are revoked and its tokens cleared, the relay
\* task serves nobody and no pairing command is past the barrier.
SignOutIsQuiet ==
    logout \in {"revoking", "clearing"} => relay \notin Working /\ pair \notin PairOpen

\* Signed out, no phone is linked and no pairing is pending.
SignedOutHoldsNothing == ~signedIn => device # "active" /\ ~pairings

\* A transport that is disabled is one of an account that signed out or is
\* signing out: a sign-out that gave up leaves a working companion.
DisabledOnlyBySignOut == ~enabled => ~signedIn \/ logout # "none"

\* A request is always answered or its connection ended.
RequestsEnd == \A o \in Op : serving = o ~> serving # o

\* A sign-out ends, done or given up.
SignOutEnds == logout # "none" ~> logout = "none"
=============================================================================
