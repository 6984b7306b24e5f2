------------------------------ MODULE AgentRuns ------------------------------
(***************************************************************************)
(* The life of an agent run across the three parties that share it:        *)
(*   - the SQLite rows of agent_sessions, agent_runs and agent_items       *)
(*     (src-tauri/src/agent_runtime/repository.rs);                        *)
(*   - the desktop host: the commands of agent_runtime/api.rs, each a task *)
(*     that awaits between its steps, and agent_runtime/host.rs, which     *)
(*     owns the sidecar process and one stdout reader per process;         *)
(*   - the Node sidecar (agent-runtime/src/service.ts, sdk-engine.ts).     *)
(*                                                                         *)
(* A "card" is one interruption (approval, clarification or secret): the   *)
(* pending item a user answers to let a paused run go on.                  *)
(*                                                                         *)
(* update_run_status is two statements without a transaction (the run,     *)
(* then its session), so every caller takes two steps here.                *)
(***************************************************************************)
EXTENDS Integers, Sequences, FiniteSets

CONSTANTS
    Session, Run, Card,      \* finite sets of identities
    SessionOf,               \* the session of each run
    RunOf,                   \* the run of each card
    NoCard,                  \* the card field of an event that has none
    MaxGen,                  \* bound: sidecar processes spawned
    MaxRestarts,             \* bound: restarts of the desktop app
    CardsPerPause            \* bound: new interruptions in one engine result

Gen == 1..MaxGen

ASSUME ConstAssumption ==
    /\ SessionOf \in [Run -> Session]
    /\ RunOf \in [Card -> Run]
    /\ NoCard \notin Card
    /\ MaxGen \in Nat
    /\ MaxRestarts \in Nat
    /\ CardsPerPause \in Nat

VARIABLES
    \* the database
    runStatus,    \* agent_runs.status; "none": no row yet
    sessStatus,   \* agent_sessions.status
    card,         \* the status inside the payload of an interruption item
    saved,        \* agent_runs.interrupted_state_json: the cards it leaves open
    lastSeq,      \* agent_runs.last_sequence
    \* the host
    inner,        \* the current RunningRuntime, 0 for None
    spawned,      \* processes spawned so far
    owned,        \* owned_runs of each process
    reader,       \* what the stdout reader of each process is doing
    task,         \* where each command is
    via,          \* the process a command's request went to
    seen,         \* what a resolving command read before it claims
    locking,      \* the cards a cancelling command is locking
    \* the sidecar processes
    alive, inbox, outbox,
    engine,       \* activeRuns and the engine state behind each
    seq,          \* nextSequence, counted in interruption events
    asked,        \* cards some engine has asked for (call ids are unique)
    applied,      \* how often the decision on a card reached an engine
    bundled,      \* runs some engine has stopped on several cards at once
    \* the desktop process
    restarts, booted

db      == <<runStatus, sessStatus, card, saved, lastSeq>>
host    == <<inner, spawned, owned>>
tasks   == <<task, via, seen, locking>>
sidecar == <<alive, inbox, outbox, engine, seq, asked, applied, bundled>>
life    == <<restarts, booted>>
vars    == <<db, host, reader, tasks, sidecar, life>>

-----------------------------------------------------------------------------
(* Vocabulary *)

Active   == {"queued", "running", "waiting_for_user"}
Terminal == {"completed", "cancelled", "failed", "interrupted"}

\* Faulty variant: the run's status is copied to the session as it is.
SessionForCopied(status) == status

\* The session status update_run_status derives from a run status.
SessionFor(status) ==
    IF status \in {"waiting_for_user", "failed", "interrupted"} THEN status
    ELSE IF status \in {"completed", "cancelled"} THEN "idle"
    ELSE "running"

Request == [op : {"start", "cancel"}, id : Run] \cup [op : {"resume"}, id : Card]
Start(r)  == [op |-> "start",  id |-> r]
Cancel(r) == [op |-> "cancel", id |-> r]
Resume(c) == [op |-> "resume", id |-> c]
RunFor(q) == IF q.op = "resume" THEN RunOf[q.id] ELSE q.id

CardsOf(r)   == {c \in Card : RunOf[c] = r}
Pending(r)   == {c \in CardsOf(r) : card[c] = "pending"}
RunsOf(s)    == {r \in Run : SessionOf[r] = s}

EventKind == {"run.started", "usage.updated", "interruption.requested",
              "run.completed", "run.cancelled", "run.failed"}
ReplyKind == {"accepted", "rejected"}
Event == [kind : EventKind, run : Run, card : Card \cup {NoCard},
          state : SUBSET Card, seq : Nat]
Reply == [kind : ReplyKind, req : Request]

EventOf(kind, r) ==
    [kind |-> kind, run |-> r, card |-> NoCard, state |-> {}, seq |-> 0]

AskFor(r, c, state, n) ==
    [kind |-> "interruption.requested", run |-> r, card |-> c, state |-> state,
     seq |-> n]

EngineOff == [phase |-> "off", abort |-> FALSE, state |-> {}, unsent |-> {}]
ReaderIdle == [step |-> "frame", status |-> "none", doomed |-> {}, now |-> {}]

\* Where a command is when it holds nothing and awaits nothing.
AtRest == {"idle", "done", "left"}

RunStatus     == Active \cup Terminal \cup {"none"}
SessionStatus == {"idle", "running", "waiting_for_user", "failed", "interrupted"}
CardStatus    == {"none", "pending", "resolved", "expired"}
CommandStep   == AtRest \cup {"checked", "created", "ensured", "claimed", "sent",
                              "accepted", "rejected", "refused", "session", "locking"}
ReaderStage   == {"frame", "status", "session", "card", "release", "settle",
                  "settle_session", "ended"}
Phase         == {"off", "accepted", "going", "unknown", "pausing"}

Reader  == [step : ReaderStage, status : RunStatus, doomed : SUBSET Run,
            now : SUBSET Run]
Claim   == [state : SUBSET Card, seq : Nat]
Message == [req : Request, state : SUBSET Card]
Frame   == Event \cup Reply
Engine  == [phase : Phase, abort : BOOLEAN, state : SUBSET Card, unsent : SUBSET Card]

DbTypeOK ==
    /\ runStatus \in [Run -> RunStatus]
    /\ sessStatus \in [Session -> SessionStatus]
    /\ card \in [Card -> CardStatus]
    /\ saved \in [Run -> SUBSET Card]
    /\ lastSeq \in [Run -> Nat]

HostTypeOK ==
    /\ inner \in 0..MaxGen
    /\ spawned \in 0..MaxGen
    /\ owned \in [Gen -> SUBSET Run]

ReaderTypeOK == reader \in [Gen -> Reader]

TasksTypeOK ==
    /\ task \in [Request -> CommandStep]
    /\ via \in [Request -> 0..MaxGen]
    /\ seen \in [Card -> Claim]
    /\ locking \in [Run -> SUBSET Card]

SidecarTypeOK ==
    /\ alive \in [Gen -> BOOLEAN]
    /\ inbox \in [Gen -> Seq(Message)]
    /\ outbox \in [Gen -> Seq(Frame)]
    /\ engine \in [Gen -> [Run -> Engine]]
    /\ seq \in [Gen -> [Run -> Nat]]
    /\ asked \in SUBSET Card
    /\ applied \in [Card -> Nat]
    /\ bundled \in SUBSET Run

LifeTypeOK == restarts \in 0..MaxRestarts /\ booted \in BOOLEAN

TypeOK == /\ DbTypeOK /\ HostTypeOK /\ ReaderTypeOK
          /\ TasksTypeOK /\ SidecarTypeOK /\ LifeTypeOK

Init ==
    /\ runStatus = [r \in Run |-> "none"]
    /\ sessStatus = [s \in Session |-> "idle"]
    /\ card = [c \in Card |-> "none"]
    /\ saved = [r \in Run |-> {}]
    /\ lastSeq = [r \in Run |-> 0]
    /\ inner = 0 /\ spawned = 0
    /\ owned = [g \in Gen |-> {}]
    /\ reader = [g \in Gen |-> ReaderIdle]
    /\ task = [q \in Request |-> "idle"]
    /\ via = [q \in Request |-> 0]
    /\ seen = [c \in Card |-> [state |-> {}, seq |-> 0]]
    /\ locking = [r \in Run |-> {}]
    /\ alive = [g \in Gen |-> FALSE]
    /\ inbox = [g \in Gen |-> <<>>]
    /\ outbox = [g \in Gen |-> <<>>]
    /\ engine = [g \in Gen |-> [r \in Run |-> EngineOff]]
    /\ seq = [g \in Gen |-> [r \in Run |-> 0]]
    /\ asked = {}
    /\ applied = [c \in Card |-> 0]
    /\ bundled = {}
    /\ restarts = 0 /\ booted = TRUE

-----------------------------------------------------------------------------
(* The database: the two statements of update_run_status, and the rest *)

\* Faulty variant: the WHERE clause without its status condition.
WritableAlways(r) == runStatus[r] # "none"

\* UPDATE agent_runs ... WHERE status NOT IN (the terminal ones)
Writable(r) == runStatus[r] \in Active
WriteRun(r, status) == runStatus' = [runStatus EXCEPT ![r] = status]

\* UPDATE agent_sessions, whatever else the session is doing by then
WriteSession(r, status) ==
    sessStatus' = [sessStatus EXCEPT ![SessionOf[r]] = SessionFor(status)]

Move(q, step) == task' = [task EXCEPT ![q] = step]

\* Faulty variant: a disconnect or a timeout counts as a refusal.
LostAsRefused(q) == IF q.op = "cancel" THEN "idle" ELSE "refused"

\* A command's request failed in a way api.rs calls ambiguous.
Lost(q) == IF q.op = "cancel" THEN "idle" ELSE "left"

-----------------------------------------------------------------------------
(* start_agent_run and retry_agent_run *)

\* The session row is read and tested; the row of the run comes much later.
StartCheck(r) ==
    /\ task[Start(r)] = "idle" /\ runStatus[r] = "none"
    /\ sessStatus[SessionOf[r]] \notin {"running", "waiting_for_user"}
    /\ Move(Start(r), "checked")
    /\ UNCHANGED <<db, host, reader, via, seen, locking, sidecar, life>>

\* A retry looks at the previous run of the session, not at its status.
RetryCheck(r) ==
    /\ task[Start(r)] = "idle" /\ runStatus[r] = "none"
    /\ \E p \in RunsOf(SessionOf[r]) : runStatus[p] # "none"
    /\ Move(Start(r), "checked")
    /\ UNCHANGED <<db, host, reader, via, seen, locking, sidecar, life>>

\* create_run: the run and its session in one transaction. The user message
\* then takes sequence 0.
CreateRun(r) ==
    /\ task[Start(r)] = "checked"
    /\ WriteRun(r, "running") /\ WriteSession(r, "running")
    /\ Move(Start(r), "created")
    /\ UNCHANGED <<card, saved, lastSeq, host, reader, via, seen, locking,
                   sidecar, life>>

PrepareFails(r) ==
    /\ task[Start(r)] = "created"
    /\ Move(Start(r), "refused")
    /\ UNCHANGED <<db, host, reader, via, seen, locking, sidecar, life>>

\* mark_dispatch_failed
StartRefused(r) ==
    /\ task[Start(r)] = "refused"
    /\ IF Writable(r)
         THEN WriteRun(r, "failed") /\ Move(Start(r), "session")
         ELSE UNCHANGED runStatus /\ Move(Start(r), "done")
    /\ UNCHANGED <<sessStatus, card, saved, lastSeq, host, reader, via, seen,
                   locking, sidecar, life>>

StartRefusedSession(r) ==
    /\ task[Start(r)] = "session"
    /\ WriteSession(r, "failed") /\ Move(Start(r), "done")
    /\ UNCHANGED <<runStatus, card, saved, lastSeq, host, reader, via, seen,
                   locking, sidecar, life>>

-----------------------------------------------------------------------------
(* resolve_agent_interruption. The per-card lock makes it one task a card. *)

\* The card only has to exist here: whether it is pending is for the claim.
ResumeCheck(c) ==
    /\ task[Resume(c)] = "idle"
    /\ card[c] # "none" /\ runStatus[RunOf[c]] = "waiting_for_user"
    /\ seen' = [seen EXCEPT ![c] = [state |-> saved[RunOf[c]],
                                    seq |-> lastSeq[RunOf[c]]]]
    /\ Move(Resume(c), "checked")
    /\ UNCHANGED <<db, host, reader, via, locking, sidecar, life>>

\* Faulty variant: the claim leaves the run waiting until it has resumed.
ClaimedStatusWaiting == "waiting_for_user"
ClaimedStatus == "queued"

\* claim_interruption_resume: run, card and session, all three or none.
ResumeClaim(c) ==
    LET r == RunOf[c] IN
    /\ task[Resume(c)] = "ensured"
    /\ \/ /\ runStatus[r] = "waiting_for_user" /\ card[c] = "pending"
          /\ sessStatus[SessionOf[r]] = "waiting_for_user"
          /\ WriteRun(r, ClaimedStatus)
          /\ sessStatus' = [sessStatus EXCEPT ![SessionOf[r]] = "running"]
          /\ card' = [card EXCEPT ![c] = "resolved"]
          /\ lastSeq' = [lastSeq EXCEPT ![r] = 0]
          /\ Move(Resume(c), "claimed")
       \/ /\ \/ runStatus[r] # "waiting_for_user" \/ card[c] # "pending"
             \/ sessStatus[SessionOf[r]] # "waiting_for_user"
          /\ Move(Resume(c), "idle")
          /\ UNCHANGED <<runStatus, sessStatus, card, lastSeq>>
    /\ UNCHANGED <<saved, host, reader, via, seen, locking, sidecar, life>>

\* Faulty variant: the run is put back, its card is not.
ReopenNothing(c) == UNCHANGED card
Reopen(c) == card' = [card EXCEPT ![c] = "pending"]

\* The dispatch was refused: put the claim back, unless the run moved on.
ResumeRestore(c) ==
    LET r == RunOf[c] IN
    /\ task[Resume(c)] = "refused"
    /\ IF /\ runStatus[r] = "queued" /\ card[c] = "resolved"
          /\ sessStatus[SessionOf[r]] = "running"
         THEN /\ WriteRun(r, "waiting_for_user")
              /\ sessStatus' = [sessStatus EXCEPT ![SessionOf[r]] = "waiting_for_user"]
              /\ Reopen(c)
              /\ lastSeq' = [lastSeq EXCEPT ![r] = seen[c].seq]
         ELSE UNCHANGED <<runStatus, sessStatus, card, lastSeq>>
    /\ Move(Resume(c), "idle")
    /\ UNCHANGED <<saved, host, reader, via, seen, locking, sidecar, life>>

\* The last call of the command: update_run_status(run, "running").
ResumeRunning(c) ==
    /\ task[Resume(c)] = "accepted"
    /\ IF Writable(RunOf[c])
         THEN WriteRun(RunOf[c], "running") /\ Move(Resume(c), "session")
         ELSE UNCHANGED runStatus /\ Move(Resume(c), "idle")
    /\ UNCHANGED <<sessStatus, card, saved, lastSeq, host, reader, via, seen,
                   locking, sidecar, life>>

ResumeRunningSession(c) ==
    /\ task[Resume(c)] = "session"
    /\ WriteSession(RunOf[c], "running") /\ Move(Resume(c), "idle")
    /\ UNCHANGED <<runStatus, card, saved, lastSeq, host, reader, via, seen,
                   locking, sidecar, life>>

-----------------------------------------------------------------------------
(* cancel_agent_run *)

\* A waiting run: list its pending cards, then lock each of them ...
CancelWaiting(r) ==
    /\ task[Cancel(r)] = "idle" /\ runStatus[r] = "waiting_for_user"
    /\ locking' = [locking EXCEPT ![r] = Pending(r)]
    /\ Move(Cancel(r), "locking")
    /\ UNCHANGED <<db, host, reader, via, seen, sidecar, life>>

\* ... and once every lock is held, cancel_waiting_run in one transaction.
\* Without a pending card it retires nothing and rolls back.
CancelCommit(r) ==
    /\ task[Cancel(r)] = "locking"
    /\ \A c \in locking[r] : task[Resume(c)] \in AtRest
    /\ IF runStatus[r] = "waiting_for_user" /\ Pending(r) # {}
         THEN /\ card' = [c \in Card |-> IF c \in Pending(r) THEN "expired" ELSE card[c]]
              /\ WriteRun(r, "cancelled")
              /\ IF \E o \in RunsOf(SessionOf[r]) \ {r} : runStatus[o] \in Active
                   THEN UNCHANGED sessStatus
                   ELSE WriteSession(r, "cancelled")
         ELSE UNCHANGED <<runStatus, sessStatus, card>>
    /\ locking' = [locking EXCEPT ![r] = {}]
    /\ Move(Cancel(r), "idle")
    /\ UNCHANGED <<saved, lastSeq, host, reader, via, seen, sidecar, life>>

-----------------------------------------------------------------------------
(* AgentRuntimeHost: ensure_started and request *)

RuntimeRuns == \E g \in Gen : g = inner /\ alive[g]

\* ensure_started, with the initialize handshake, for a command at step from.
EnsureStarted(q, from, refused) ==
    /\ task[q] = from
    /\ \/ /\ RuntimeRuns
          /\ Move(q, "ensured")
          /\ UNCHANGED <<inner, spawned, alive>>
       \/ /\ ~RuntimeRuns
          /\ spawned < MaxGen
          /\ inner' = spawned + 1 /\ spawned' = spawned + 1
          /\ alive' = [alive EXCEPT ![spawned + 1] = TRUE]
          /\ Move(q, "ensured")
       \/ /\ ~RuntimeRuns
          /\ inner' = 0
          /\ Move(q, refused)
          /\ UNCHANGED <<spawned, alive>>
    /\ UNCHANGED <<db, owned, reader, via, seen, locking, inbox, outbox, engine,
                   seq, asked, applied, bundled, life>>

StartEnsure(r)  == EnsureStarted(Start(r), "created", "refused")
ResumeEnsure(c) == EnsureStarted(Resume(c), "checked", "idle")

\* Faulty variant: only a resumed run is owned.
OwnsResumed(q) == q.op = "resume"
OwnsRun(q) == q.op \in {"start", "resume"}

\* request: ownership is taken before the frame is written, and kept when the
\* pipe turns out to be broken, which is reported as a disconnect.
Send(q, state) ==
    /\ \/ /\ inner = 0
          /\ Move(q, IF q.op = "cancel" THEN "idle" ELSE "refused")
          /\ UNCHANGED <<via, owned, inbox>>
       \/ /\ inner # 0
          /\ via' = [via EXCEPT ![q] = inner]
          /\ owned' = IF OwnsRun(q)
                      THEN [owned EXCEPT ![inner] = @ \cup {RunFor(q)}] ELSE owned
          /\ IF alive[inner]
               THEN /\ inbox' = [inbox EXCEPT ![inner] =
                                    Append(@, [req |-> q, state |-> state])]
                    /\ Move(q, "sent")
               ELSE UNCHANGED inbox /\ Move(q, Lost(q))
    /\ UNCHANGED <<db, inner, spawned, reader, seen, locking, alive, outbox,
                   engine, seq, asked, applied, bundled, life>>

SendStart(r)  == task[Start(r)] = "ensured" /\ Send(Start(r), {})
SendResume(c) == task[Resume(c)] = "claimed" /\ Send(Resume(c), seen[c].state)
SendCancel(r) ==
    /\ task[Cancel(r)] = "idle" /\ runStatus[r] \in {"queued", "running"}
    /\ Send(Cancel(r), {})

\* agent_runtime_request_failed: the requester gives the ownership back.
DropOwnership(q) ==
    /\ task[q] = "rejected"
    /\ owned' = [owned EXCEPT ![via[q]] = @ \ {RunFor(q)}]
    /\ Move(q, "refused")
    /\ UNCHANGED <<db, inner, spawned, reader, via, seen, locking, sidecar, life>>

\* Faulty variant: the host forgets the process without ending it.
KillForgets(g) == UNCHANGED <<alive, inbox, engine>>

\* The process goes: frames it has written stay in the pipe, frames it has not
\* read are lost.
Kill(g) ==
    /\ alive' = [alive EXCEPT ![g] = FALSE]
    /\ inbox' = [inbox EXCEPT ![g] = <<>>]
    /\ engine' = [engine EXCEPT ![g] = [r \in Run |-> EngineOff]]

\* Faulty variant: only the end of the process ends the wait for a reply.
OverdueIfDead(q) == task[q] = "sent" /\ ~alive[via[q]]
Overdue(q) == task[q] = "sent"

\* No reply in time: give up, and terminate the runtime if it is still current.
Timeout(q) ==
    /\ Overdue(q)
    /\ Move(q, Lost(q))
    /\ IF inner = via[q]
         THEN Kill(inner) /\ inner' = 0
         ELSE UNCHANGED <<inner, alive, inbox, engine>>
    /\ UNCHANGED <<db, spawned, owned, reader, via, seen, locking, outbox, seq,
                   asked, applied, bundled, life>>

-----------------------------------------------------------------------------
(* spawn_stdout_reader: one frame at a time, in order *)

HasFrame(g) == outbox[g] # <<>>
FrameAt(g)  == Head(outbox[g])
Step(g, step) == reader' = [reader EXCEPT ![g] = [@ EXCEPT !.step = step]]
NextFrame(g) ==
    /\ outbox' = [outbox EXCEPT ![g] = Tail(@)]
    /\ reader' = [reader EXCEPT ![g] = ReaderIdle]

ReadReply(g) ==
    /\ HasFrame(g) /\ FrameAt(g).kind \in ReplyKind
    /\ LET q == FrameAt(g).req IN
       IF task[q] = "sent" /\ via[q] = g
         THEN Move(q, IF q.op = "cancel" THEN "idle"
                      ELSE IF FrameAt(g).kind = "rejected" THEN "rejected"
                      ELSE IF q.op = "start" THEN "done" ELSE "accepted")
         ELSE UNCHANGED task
    /\ NextFrame(g)
    /\ UNCHANGED <<db, host, via, seen, locking, alive, inbox, engine, seq,
                   asked, applied, bundled, life>>

\* usage.updated: get_run, and later update_run_status with the status read.
ReadUsage(g) ==
    /\ HasFrame(g) /\ FrameAt(g).kind = "usage.updated" /\ reader[g].step = "frame"
    /\ reader' = [reader EXCEPT ![g] = [@ EXCEPT !.step = "status",
                                                 !.status = runStatus[FrameAt(g).run]]]
    /\ UNCHANGED <<db, host, tasks, sidecar, life>>

StatusOf(kind) ==
    CASE kind = "run.started"            -> "running"
      [] kind = "interruption.requested" -> "waiting_for_user"
      [] kind = "run.completed"          -> "completed"
      [] kind = "run.cancelled"          -> "cancelled"
      [] kind = "run.failed"             -> "failed"

\* The step after both statements of update_run_status.
AfterStatus(g, kind) ==
    CASE kind \in {"run.started", "usage.updated"} -> NextFrame(g)
      [] kind = "interruption.requested" -> Step(g, "card") /\ UNCHANGED outbox
      [] OTHER                           -> Step(g, "release") /\ UNCHANGED outbox

\* Faulty variant: COALESCE(interrupted_state_json, ?), the arguments swapped.
SavedByFirst(f) ==
    IF f.kind = "interruption.requested" /\ saved[f.run] = {}
    THEN [saved EXCEPT ![f.run] = f.state] ELSE saved
SavedBy(f) ==
    IF f.kind = "interruption.requested"
    THEN [saved EXCEPT ![f.run] = f.state] ELSE saved

ReadEvent(g) ==
    /\ HasFrame(g) /\ FrameAt(g).kind \in EventKind
    /\ \/ reader[g].step = "frame" /\ FrameAt(g).kind # "usage.updated"
       \/ reader[g].step = "status"
    /\ LET f == FrameAt(g)
           status == IF f.kind = "usage.updated" THEN reader[g].status
                     ELSE StatusOf(f.kind) IN
       IF Writable(f.run)
         THEN /\ WriteRun(f.run, status)
              /\ saved' = SavedBy(f)
              /\ reader' = [reader EXCEPT ![g] = [@ EXCEPT !.step = "session",
                                                           !.status = status]]
              /\ UNCHANGED outbox
         ELSE AfterStatus(g, f.kind) /\ UNCHANGED <<runStatus, saved>>
    /\ UNCHANGED <<sessStatus, card, lastSeq, host, tasks, alive, inbox, engine,
                   seq, asked, applied, bundled, life>>

ReadEventSession(g) ==
    /\ HasFrame(g) /\ reader[g].step = "session"
    /\ WriteSession(FrameAt(g).run, reader[g].status)
    /\ AfterStatus(g, FrameAt(g).kind)
    /\ UNCHANGED <<runStatus, card, saved, lastSeq, host, tasks, alive, inbox,
                   engine, seq, asked, applied, bundled, life>>

\* append_item, whose sequence must be new and whose external id must be too.
AppendCard(g) ==
    /\ HasFrame(g) /\ reader[g].step = "card"
    /\ LET f == FrameAt(g) IN
       IF lastSeq[f.run] < f.seq /\ card[f.card] = "none"
         THEN /\ card' = [card EXCEPT ![f.card] = "pending"]
              /\ lastSeq' = [lastSeq EXCEPT ![f.run] = f.seq]
         ELSE UNCHANGED <<card, lastSeq>>
    /\ Step(g, "release")
    /\ UNCHANGED <<runStatus, sessStatus, saved, host, tasks, sidecar, life>>

Release(g) ==
    /\ HasFrame(g) /\ reader[g].step = "release"
    /\ owned' = [owned EXCEPT ![g] = @ \ {FrameAt(g).run}]
    /\ NextFrame(g)
    /\ UNCHANGED <<db, inner, spawned, tasks, alive, inbox, engine, seq, asked,
                   applied, bundled, life>>

\* End of the pipe: fail the pending requests, take the owned runs ...
ReadEnd(g) ==
    /\ g <= spawned /\ ~alive[g] /\ ~HasFrame(g) /\ reader[g].step = "frame"
    /\ task' = [q \in Request |-> IF task[q] = "sent" /\ via[q] = g
                                  THEN Lost(q) ELSE task[q]]
    /\ reader' = [reader EXCEPT ![g] = [@ EXCEPT !.step = "settle", !.doomed = owned[g]]]
    /\ owned' = [owned EXCEPT ![g] = {}]
    /\ UNCHANGED <<db, inner, spawned, via, seen, locking, sidecar, life>>

\* Faulty variant: a run whose resume was in flight is overlooked.
UnsettledRunning(r) == runStatus[r] = "running"
Unsettled(r) == runStatus[r] \in Active

\* ... and persist run.failed (runtime_crashed) for each that is still active.
Settle(g, r) ==
    /\ reader[g].step = "settle" /\ r \in reader[g].doomed
    /\ LET rest == [reader[g] EXCEPT !.doomed = @ \ {r}] IN
       IF Unsettled(r) /\ Writable(r)
         THEN /\ WriteRun(r, "failed")
              /\ reader' = [reader EXCEPT ![g] = [rest EXCEPT !.step = "settle_session",
                                                              !.now = {r}]]
         ELSE reader' = [reader EXCEPT ![g] = rest] /\ UNCHANGED runStatus
    /\ UNCHANGED <<sessStatus, card, saved, lastSeq, host, tasks, sidecar, life>>

SettleSession(g, r) ==
    /\ reader[g].step = "settle_session" /\ r \in reader[g].now
    /\ WriteSession(r, "failed")
    /\ reader' = [reader EXCEPT ![g] = [@ EXCEPT !.step = "settle", !.now = {}]]
    /\ UNCHANGED <<runStatus, card, saved, lastSeq, host, tasks, sidecar, life>>

ReaderStops(g) ==
    /\ reader[g].step = "settle" /\ reader[g].doomed = {}
    /\ Step(g, "ended")
    /\ UNCHANGED <<db, host, tasks, sidecar, life>>

-----------------------------------------------------------------------------
(* RuntimeService in the sidecar. Its handlers run to completion: a result   *)
(* with several interruptions is emitted without serving a request between.  *)

Emit(g, frames) == outbox' = [outbox EXCEPT ![g] = @ \o frames]
SetEngine(g, r, e) == engine' = [engine EXCEPT ![g][r] = e]
ReplyTo(q, kind) == [kind |-> kind, req |-> q]
Pausing(g) == \E r \in Run : engine[g][r].phase = "pausing"

Handle(g) ==
    /\ alive[g] /\ inbox[g] # <<>> /\ ~Pausing(g)
    /\ LET m == Head(inbox[g])
           q == m.req
           r == RunFor(q)
           idle == engine[g][r].phase = "off" IN
       /\ inbox' = [inbox EXCEPT ![g] = Tail(@)]
       /\ \/ /\ q.op = "start" /\ idle
             /\ SetEngine(g, r, [EngineOff EXCEPT !.phase = "accepted"])
             /\ Emit(g, <<ReplyTo(q, "accepted")>>)
             /\ UNCHANGED applied
          \/ /\ q.op = "resume" /\ idle
             /\ SetEngine(g, r,
                    IF q.id \in m.state
                      THEN [EngineOff EXCEPT !.phase = "going",
                                             !.state = m.state \ {q.id}]
                      ELSE [EngineOff EXCEPT !.phase = "unknown"])
             /\ applied' = IF q.id \in m.state
                           THEN [applied EXCEPT ![q.id] = @ + 1] ELSE applied
             /\ Emit(g, <<EventOf("run.started", r), ReplyTo(q, "accepted")>>)
          \/ /\ q.op \in {"start", "resume"} /\ ~idle
             /\ Emit(g, <<ReplyTo(q, "rejected")>>)
             /\ UNCHANGED <<engine, applied>>
          \/ /\ q.op = "cancel"
             /\ SetEngine(g, r, [engine[g][r] EXCEPT !.abort = ~idle])
             /\ Emit(g, <<ReplyTo(q, "accepted")>>)
             /\ UNCHANGED applied
    /\ UNCHANGED <<db, host, reader, tasks, alive, seq, asked, bundled, life>>

EngineRuns(g, r, phases) ==
    /\ alive[g] /\ engine[g][r].phase \in phases /\ ~Pausing(g)

\* settle(): the run leaves activeRuns in the same turn as its last event.
EngineEnds(g, r, kind) ==
    /\ Emit(g, IF kind = "run.completed"
               THEN <<EventOf("usage.updated", r), EventOf(kind, r)>>
               ELSE <<EventOf(kind, r)>>)
    /\ SetEngine(g, r, EngineOff)
    /\ UNCHANGED <<db, host, reader, tasks, alive, inbox, seq, asked, applied, bundled, life>>

EngineBegins(g, r) ==
    /\ EngineRuns(g, r, {"accepted"}) /\ ~engine[g][r].abort
    /\ Emit(g, <<EventOf("run.started", r)>>)
    /\ SetEngine(g, r, [engine[g][r] EXCEPT !.phase = "going"])
    /\ UNCHANGED <<db, host, reader, tasks, alive, inbox, seq, asked, applied, bundled, life>>

EngineCompletes(g, r) ==
    /\ EngineRuns(g, r, {"going"}) /\ ~engine[g][r].abort
    /\ engine[g][r].state = {}
    /\ EngineEnds(g, r, "run.completed")

EngineFails(g, r) ==
    /\ EngineRuns(g, r, {"accepted", "going", "unknown"}) /\ ~engine[g][r].abort
    /\ EngineEnds(g, r, "run.failed")

\* An aborted controller, or an error whose text says so.
EngineCancelled(g, r) ==
    /\ EngineRuns(g, r, {"accepted", "going", "unknown"})
    /\ engine[g][r].phase = "unknown" => engine[g][r].abort
    /\ EngineEnds(g, r, "run.cancelled")

Several(cards) == \E c, d \in cards : c # d

\* The engine stops on the cards its state leaves open and on new ones.
EnginePauses(g, r) ==
    /\ EngineRuns(g, r, {"going"}) /\ ~engine[g][r].abort
    /\ \E new \in SUBSET (CardsOf(r) \ asked) :
          LET open == engine[g][r].state \cup new IN
          /\ Cardinality(new) <= CardsPerPause /\ open # {}
          /\ asked' = asked \cup new
          /\ bundled' = IF Several(open) THEN bundled \cup {r} ELSE bundled
          /\ SetEngine(g, r, [phase |-> "pausing", abort |-> FALSE,
                              state |-> open, unsent |-> open])
    /\ Emit(g, <<EventOf("usage.updated", r)>>)
    /\ UNCHANGED <<db, host, reader, tasks, alive, inbox, seq, applied, life>>

EngineAsks(g, r, c) ==
    /\ alive[g] /\ engine[g][r].phase = "pausing" /\ c \in engine[g][r].unsent
    /\ seq' = [seq EXCEPT ![g][r] = @ + 1]
    /\ Emit(g, <<AskFor(r, c, engine[g][r].state, seq[g][r] + 1)>>)
    /\ SetEngine(g, r, IF engine[g][r].unsent = {c} THEN EngineOff
                       ELSE [engine[g][r] EXCEPT !.unsent = @ \ {c}])
    /\ UNCHANGED <<db, host, reader, tasks, alive, inbox, asked, applied, bundled, life>>

\* The process exits on its own.
Crash(g) ==
    /\ alive[g] /\ Kill(g)
    /\ UNCHANGED <<db, host, reader, tasks, outbox, seq, asked, applied, bundled, life>>

-----------------------------------------------------------------------------
(* The desktop app stops at any point and is started again *)

Restart ==
    /\ restarts < MaxRestarts
    /\ restarts' = restarts + 1 /\ booted' = FALSE
    /\ inner' = 0
    /\ owned' = [g \in Gen |-> {}]
    /\ reader' = [g \in Gen |-> IF g <= spawned THEN [ReaderIdle EXCEPT !.step = "ended"]
                                ELSE ReaderIdle]
    /\ task' = [q \in Request |-> IF q.op = "start" /\ runStatus[q.id] # "none"
                                  THEN "done" ELSE "idle"]
    /\ via' = [q \in Request |-> 0]
    /\ seen' = [c \in Card |-> [state |-> {}, seq |-> 0]]
    /\ locking' = [r \in Run |-> {}]
    /\ alive' = [g \in Gen |-> FALSE]
    /\ inbox' = [g \in Gen |-> <<>>]
    /\ outbox' = [g \in Gen |-> <<>>]
    /\ engine' = [g \in Gen |-> [r \in Run |-> EngineOff]]
    /\ UNCHANGED <<db, spawned, seq, asked, applied, bundled>>

\* reconcile_non_routine_runs_after_restart, run by the scheduler's task while
\* commands are already being served. Waiting runs keep their state.
Reconcile ==
    LET stale == {r \in Run : runStatus[r] \in {"queued", "running"}} IN
    /\ ~booted /\ booted' = TRUE
    /\ runStatus' = [r \in Run |-> IF r \in stale THEN "interrupted" ELSE runStatus[r]]
    /\ sessStatus' = [s \in Session |->
          IF /\ RunsOf(s) \cap stale # {}
             /\ \A r \in RunsOf(s) : runStatus[r] # "waiting_for_user"
          THEN "interrupted" ELSE sessStatus[s]]
    /\ UNCHANGED <<card, saved, lastSeq, host, reader, tasks, sidecar, restarts>>

-----------------------------------------------------------------------------
StartStep(r) ==
    \/ CreateRun(r) \/ PrepareFails(r) \/ StartEnsure(r) \/ SendStart(r)
    \/ StartRefused(r) \/ StartRefusedSession(r)
    \/ DropOwnership(Start(r)) \/ Timeout(Start(r))

ResumeStep(c) ==
    \/ ResumeEnsure(c) \/ ResumeClaim(c) \/ SendResume(c) \/ ResumeRestore(c)
    \/ ResumeRunning(c) \/ ResumeRunningSession(c)
    \/ DropOwnership(Resume(c)) \/ Timeout(Resume(c))

CancelStep(r) == CancelCommit(r) \/ Timeout(Cancel(r))

ReaderStep(g) ==
    \/ ReadReply(g) \/ ReadUsage(g) \/ ReadEvent(g) \/ ReadEventSession(g)
    \/ AppendCard(g) \/ Release(g) \/ ReadEnd(g) \/ ReaderStops(g)
    \/ \E r \in Run : Settle(g, r) \/ SettleSession(g, r)

EngineStep(g) ==
    \E r \in Run :
        \/ EngineBegins(g, r) \/ EngineCompletes(g, r) \/ EngineFails(g, r)
        \/ EngineCancelled(g, r) \/ EnginePauses(g, r)
        \/ \E c \in Card : EngineAsks(g, r, c)

Next ==
    \/ \E r \in Run : \/ StartCheck(r) \/ RetryCheck(r) \/ StartStep(r)
                      \/ CancelWaiting(r) \/ SendCancel(r) \/ CancelStep(r)
    \/ \E c \in Card : ResumeCheck(c) \/ ResumeStep(c)
    \/ \E g \in Gen : ReaderStep(g) \/ Handle(g) \/ EngineStep(g) \/ Crash(g)
    \/ Restart \/ Reconcile

Spec == Init /\ [][Next]_vars

\* The host's own tasks go on: tokio polls every command and every reader, a
\* request waits no longer than its timeout, and tokio's mutexes are fair, so
\* a command in line for a card's lock gets it. Nothing is assumed of the
\* sidecar, of the user or of the moment the app stops.
Fairness ==
    /\ \A r \in Run : WF_vars(StartStep(r)) /\ WF_vars(Timeout(Cancel(r)))
                      /\ SF_vars(CancelCommit(r))
    /\ \A c \in Card : WF_vars(ResumeStep(c))
    /\ \A g \in Gen : WF_vars(ReaderStep(g))
    /\ WF_vars(Reconcile)

FairSpec == Spec /\ Fairness

-----------------------------------------------------------------------------
(* Properties *)

\* A run that completed, failed, was cancelled or interrupted stays so: late
\* events, restores, command endings and restarts never revive it.
TerminalIsFinal ==
    [][\A r \in Run : runStatus[r] \in Terminal => runStatus'[r] = runStatus[r]]_vars

\* The cards keep the promise of ApprovalLedger: in particular a decision
\* reaches an engine at most once and is never offered again afterwards,
\* however resumes are refused, lost, timed out or restored.
Ledger == INSTANCE ApprovalLedger
DecisionLedger == Ledger!Spec

\* The process that runs is the one the host talks to: a runtime the host gave
\* up on never works on beside its replacement.
LiveRuntimeIsCurrent == \A g \in Gen : alive[g] => inner = g

\* Until a run pauses for the first time, the process executing it owns it, so
\* the crash of that process settles it.
FirstLegIsOwned ==
    \A g \in Gen, r \in Run :
        engine[g][r].phase # "off" /\ CardsOf(r) \cap asked = {} => r \in owned[g]

\* A run the database calls waiting executes nowhere, as cancel_waiting_run
\* assumes when it settles the run without telling the sidecar: no write of a
\* command, reader or restore, however late, makes a run wait that works.
\* It holds of the runs that no engine has stopped on several cards at once. Of
\* the others it does not: a card of the pause that is read late makes a run
\* wait that was resumed with another card, and works.
PausedRunIsIdle ==
    \A g \in Gen, r \in Run \ bundled :
        runStatus[r] = "waiting_for_user" => engine[g][r].phase \in {"off", "pausing"}

\* A resume names a card its serialized state leaves open, so the engine does not
\* answer "Unknown interruption" and fail the run, also when the run was stopped
\* on several cards. There it takes that all its cards were read from one process:
\* a request of a lost process that is read after those of the next one puts back
\* an older state, without the cards asked for since.
ResumeNamesOpenCard ==
    \A g \in Gen, r \in Run :
        engine[g][r].phase = "unknown" => r \in bundled /\ spawned > 1

\* No waiting run has swallowed a decision: a card that reads resolved while
\* its run waits and its command is over did reach an engine. It holds of the
\* runs that no engine has stopped on several cards at once. Of the others it does
\* not: a second card that is answered while the engine works on the first is
\* refused, its claim is not put back (the run runs by then), and the engine's
\* next pause asks for a card that stays resolved.
NoSwallowedDecision ==
    \A c \in Card :
        /\ card[c] = "resolved" /\ runStatus[RunOf[c]] = "waiting_for_user"
        /\ task[Resume(c)] \in AtRest /\ RunOf[c] \notin bundled
        => applied[c] > 0

\* Every command ends, also when the sidecar never answers.
CommandsFinish == \A q \in Request : task[q] \notin AtRest ~> task[q] \in AtRest

\* The reader of a process has yet to settle the runs that process owns.
WillSettle(g, r) ==
    \/ r \in owned[g] /\ reader[g].step \notin {"settle", "settle_session", "ended"}
    \/ r \in reader[g].doomed

\* A run its process still owns once the pipe of the dead process is read to
\* the end does not stay queued or running.
DeadRuntimeSettles ==
    \A g \in Gen, r \in Run :
        (WillSettle(g, r) /\ ~alive[g] /\ ~HasFrame(g))
            ~> runStatus[r] \in Terminal \cup {"waiting_for_user"}

-----------------------------------------------------------------------------
(* What the source says of itself and does not keep *)

\* api.rs refuses a second run: "This session already has an active run."
OneActiveRun ==
    \A s \in Session : Cardinality({r \in RunsOf(s) : runStatus[r] \in Active}) <= 1

Settled == /\ \A q \in Request : task[q] \in AtRest
           /\ \A g \in Gen : reader[g].step \in {"frame", "ended"} /\ ~HasFrame(g)
Resumable(r) == /\ runStatus[r] = "waiting_for_user"
                /\ sessStatus[SessionOf[r]] = "waiting_for_user"

\* routines.rs keeps waiting runs "so the pending approval or clarification
\* remains resumable"; while a card is pending and nothing is in flight, its
\* run has to be one that claim_interruption_resume accepts.
PendingCardResumable ==
    Settled /\ restarts = 0 =>
        \A c \in Card : card[c] = "pending" =>
            Resumable(RunOf[c]) \/ runStatus[RunOf[c]] \in Terminal
=============================================================================
