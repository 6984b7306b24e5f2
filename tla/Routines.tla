------------------------------- MODULE Routines -------------------------------
(***************************************************************************)
(* One routine and its executions (src-tauri/src/routines.rs): the         *)
(* scheduler's task, the manual and connector triggers, start_claim, the   *)
(* projection of the agent run's status onto the routine run, and the      *)
(* reconciliation after a restart of the app.                              *)
(*                                                                         *)
(* A claim stands for its token, its routine_runs row and the agent run    *)
(* start_claim makes for it. The agent run is the one of AgentRuns, told   *)
(* by its row and by whether an engine works on it. Each action is one     *)
(* SQLite statement or transaction of the code, or one wait of its tasks;  *)
(* a single statement does not fail unless the code says it may. One-shot  *)
(* schedules, which have no next occurrence, are left out.                 *)
(***************************************************************************)
EXTENDS Integers, FiniteSets

CONSTANTS
    Claim,         \* claims ever made
    NoClaim,       \* claim_token IS NULL
    Repeat,        \* executions before the routine is completed, 0: forever
    MaxRestarts    \* bound: restarts of the app

ASSUME ConstAssumption ==
    /\ NoClaim \notin Claim
    /\ Repeat \in Nat
    /\ MaxRestarts \in Nat

VARIABLES
    \* the database
    routine,    \* the row of the routine
    run,        \* routine_runs.status of each claim; "none": no row
    mapped,     \* whether routine_runs.agent_run_id is set
    old,        \* claims whose row is older than the lease
    agent,      \* agent_runs.status
    \* the tasks
    start,      \* where start_claim is
    sched,      \* the scheduler: idle, about to claim, or starting a claim
    boot,       \* the next statement of reconcile_after_restart
    \* the runtime
    engine,     \* whether an engine works on the agent run
    mark,       \* the projection the event reader still has to write
    resuming,   \* agent runs whose resuming command is under way
    \* history and bounds
    early,      \* runs begun before the reconciliation was over, or resumed
                \* before it or their own start was
    restarts

rows    == <<run, mapped, old>>
tasks   == <<start, sched, boot>>
runtime == <<engine, mark, resuming>>
extra   == <<early, restarts>>
vars    == <<routine, rows, agent, tasks, runtime, extra>>

-----------------------------------------------------------------------------
(* Vocabulary *)

Active   == {"queued", "running", "waiting_for_user"}
\* "ended": completed, cancelled or failed, which nothing here tells apart.
Terminal == {"ended", "interrupted"}
Status   == Active \cup Terminal \cup {"none"}

\* The code asks for state = 'scheduled' and enabled always together: "open".
\* "closed" is a routine that is paused, disabled, completed or to be reviewed.
State    == {"open", "closed", "deleted"}
Time     == {"none", "later", "due"}
Step     == {"none", "claimed", "created", "attached", "sent", "failing",
             "failed_agent", "failed_run", "over"}
BootStep == {"foreign", "mirror", "agents", "runs", "release", "done"}

TypeOK ==
    /\ routine \in [state : State, next : Time, token : Claim \cup {NoClaim}, done : Nat]
    /\ run \in [Claim -> Status]
    /\ mapped \in [Claim -> BOOLEAN]
    /\ old \subseteq Claim
    /\ agent \in [Claim -> Status]
    /\ start \in [Claim -> Step]
    /\ sched \in {"idle", "listed"} \cup Claim
    /\ boot \in BootStep
    /\ engine \in [Claim -> {"off", "on", "dying"}]
    /\ mark \in [Claim -> {"none", "waiting", "resumed", "terminal"}]
    /\ resuming \subseteq Claim
    /\ early \subseteq Claim
    /\ restarts \in Nat

\* create: the first run time is derived before the row is inserted. The app
\* has been started, without anything to reconcile.
Init ==
    /\ routine = [state |-> "open", next |-> "later", token |-> NoClaim, done |-> 0]
    /\ run = [c \in Claim |-> "none"]
    /\ mapped = [c \in Claim |-> FALSE]
    /\ old = {}
    /\ agent = [c \in Claim |-> "none"]
    /\ start = [c \in Claim |-> "none"]
    /\ sched = "idle" /\ boot = "done"
    /\ engine = [c \in Claim |-> "off"]
    /\ mark = [c \in Claim |-> "none"]
    /\ resuming = {}
    /\ early = {} /\ restarts = 0

\* Time goes on: an occurrence comes, a queued row outlives the lease.
TimePasses ==
    /\ routine.next = "later"
    /\ routine' = [routine EXCEPT !.next = "due"]
    /\ UNCHANGED <<rows, agent, tasks, runtime, extra>>

Ages(c) ==
    /\ run[c] = "queued" /\ ~mapped[c] /\ c \notin old
    /\ old' = old \cup {c}
    /\ UNCHANGED <<routine, run, mapped, agent, tasks, runtime, extra>>

-----------------------------------------------------------------------------
(* release_terminal_claims, reconcile and the projection of a status *)

\* advance_repeat
Finished == Repeat # 0 /\ routine.done + 1 >= Repeat

\* Faulty variant: the claim stays with a routine that is not open.
ReleasedKeeping ==
    [routine EXCEPT !.done = @ + 1,
                    !.token = IF routine.state = "open" THEN NoClaim ELSE @,
                    !.next = IF routine.state = "open" THEN "later" ELSE "none"]

\* Faulty variant: the occurrence that ran is not advanced.
ReleasedStale ==
    [routine EXCEPT !.done = @ + 1, !.token = NoClaim]

\* The routine after the run of its claim ended: counted, free, rescheduled.
Released ==
    [routine EXCEPT !.done = @ + 1,
                    !.token = NoClaim,
                    !.state = IF Finished THEN "closed" ELSE @,
                    !.next = IF routine.state = "open" /\ ~Finished THEN "later" ELSE "none"]

\* now: the statuses the rest of the transaction has written.
ReleaseTerminal(now) ==
    IF routine.token # NoClaim /\ now[routine.token] \in Terminal
    THEN routine' = Released ELSE UNCHANGED routine

Ended(c) ==
    mapped[c] /\ run[c] \in {"running", "waiting_for_user"} /\ agent[c] \in Terminal

\* Faulty variant: only agent runs that ended are looked at, no lease.
ExpiredNever(c) == FALSE
Expired(c) == run[c] = "queued" /\ ~mapped[c] /\ c \in old

Reconcile ==
    /\ run' = [c \in Claim |-> IF Ended(c) THEN agent[c]
                               ELSE IF Expired(c) THEN "interrupted" ELSE run[c]]
    /\ old' = {c \in old : ~Expired(c)}
    /\ ReleaseTerminal(run')
    /\ UNCHANGED mapped

-----------------------------------------------------------------------------
(* claim_with_connector_guard *)

Claimable ==
    /\ routine.state = "open" /\ routine.token = NoClaim
    /\ \A c \in Claim : run[c] \notin Active

\* The ids of a claim are new; which they are makes no difference.
Fresh == CHOOSE c \in Claim : start[c] = "none"

Take(c) ==
    /\ routine' = [routine EXCEPT !.token = c]
    /\ run' = [run EXCEPT ![c] = "queued"]
    /\ start' = [start EXCEPT ![c] = "claimed"]
    /\ early' = IF boot = "done" THEN early ELSE early \cup {c}
    /\ UNCHANGED <<mapped, old, agent, boot, runtime, restarts>>

\* scheduler_tick: reconcile, then claim_due reads the routines that are due.
\* The claims of a tick are started before the next tick.
SchedulerTicks ==
    /\ boot = "done" /\ sched = "idle"
    /\ Reconcile
    /\ sched' = IF /\ routine'.state = "open" /\ routine'.token = NoClaim
                   /\ routine'.next = "due"
                THEN "listed" ELSE "idle"
    /\ UNCHANGED <<agent, start, boot, runtime, extra>>

\* require_due only turns away a routine whose next time is in the future.
SchedulerClaims ==
    /\ sched = "listed"
    /\ IF Claimable /\ routine.next # "later" /\ \E c \in Claim : start[c] = "none"
       THEN Take(Fresh) /\ sched' = Fresh
       ELSE sched' = "idle" /\ UNCHANGED <<routine, rows, agent, start, boot, runtime, extra>>

\* trigger_and_start, trigger_from_connector: reconcile, and then claim. A
\* connector's claim is also refused when its trigger row is gone.
Trigger ==
    /\ Reconcile
    /\ UNCHANGED <<agent, tasks, runtime, extra>>

TriggerClaims ==
    /\ Claimable /\ \E c \in Claim : start[c] = "none"
    /\ Take(Fresh)
    /\ UNCHANGED sched

-----------------------------------------------------------------------------
(* start_claim *)

Goes(c, step) == start' = [start EXCEPT ![c] = step]

\* start_claim returns; the scheduler goes on if it was its claim.
Returns(c) ==
    /\ Goes(c, "over")
    /\ sched' = IF sched = c THEN "idle" ELSE sched

\* The workspace cannot be made: the command returns and the claim stays.
NoWorkspace(c) ==
    /\ start[c] = "claimed" /\ Returns(c)
    /\ UNCHANGED <<routine, rows, agent, boot, runtime, extra>>

\* The session and create_run.
CreateAgentRun(c) ==
    /\ start[c] = "claimed"
    /\ \/ agent' = [agent EXCEPT ![c] = "running"] /\ Goes(c, "created")
       \/ UNCHANGED agent /\ Goes(c, "failing")
    /\ UNCHANGED <<routine, rows, sched, boot, runtime, extra>>

\* attach_run_mapping, unless the claim was lost meanwhile.
Attach(c) ==
    /\ start[c] = "created"
    /\ IF run[c] = "queued"
       THEN /\ run' = [run EXCEPT ![c] = "running"]
            /\ mapped' = [mapped EXCEPT ![c] = TRUE]
            /\ old' = old \ {c}
            /\ Goes(c, "attached")
       ELSE UNCHANGED <<run, mapped, old>> /\ Goes(c, "failing")
    /\ UNCHANGED <<routine, agent, sched, boot, runtime, extra>>

\* An error before the runtime took the request.
PrepareFails(c) ==
    /\ start[c] \in {"created", "attached"} /\ Goes(c, "failing")
    /\ UNCHANGED <<routine, rows, agent, sched, boot, runtime, extra>>

\* run.start reaches the runtime, which accepts it.
Dispatch(c) ==
    /\ start[c] = "attached" /\ Goes(c, "sent")
    /\ engine' = [engine EXCEPT ![c] = "on"]
    /\ UNCHANGED <<routine, rows, agent, sched, boot, mark, resuming, extra>>

Dispatched(c) ==
    /\ start[c] = "sent" /\ Returns(c)
    /\ UNCHANGED <<routine, rows, agent, boot, runtime, extra>>

\* Faulty variant: a request that timed out leaves its runtime alone.
DispatchLostAlive(c) ==
    /\ start[c] = "sent" /\ engine[c] = "on" /\ Goes(c, "failing")
    /\ UNCHANGED <<routine, rows, agent, sched, boot, runtime, extra>>

\* The request timed out, which kills the runtime, or the runtime is gone. What
\* it wrote before may still be read.
DispatchLost(c) ==
    /\ start[c] = "sent" /\ engine[c] = "on" /\ Goes(c, "failing")
    /\ engine' = [engine EXCEPT ![c] = "dying"]
    /\ UNCHANGED <<routine, rows, agent, sched, boot, mark, resuming, extra>>

\* Any error ends in three writes: the agent run, unless it ended, ...
FailAgentRun(c) ==
    /\ start[c] = "failing" /\ Goes(c, "failed_agent")
    /\ agent' = IF agent[c] \in Active THEN [agent EXCEPT ![c] = "ended"] ELSE agent
    /\ UNCHANGED <<routine, rows, sched, boot, runtime, extra>>

\* ... the routine run, whatever its status, ...
FailRun(c) ==
    /\ start[c] = "failed_agent" /\ Goes(c, "failed_run")
    /\ run' = IF run[c] # "none" THEN [run EXCEPT ![c] = "ended"] ELSE run
    /\ old' = old \ {c}
    /\ UNCHANGED <<routine, mapped, agent, sched, boot, runtime,
                   extra>>

\* ... and the claim, if it is still this one. A failed dispatch is no repeat.
GiveUp(c) ==
    /\ start[c] = "failed_run" /\ Returns(c)
    /\ routine' = IF routine.token = c
                  THEN [routine EXCEPT !.token = NoClaim,
                                       !.next = IF sched = c THEN "later"
                                                ELSE @]
                  ELSE routine
    /\ UNCHANGED <<rows, agent, boot, runtime, extra>>

StartStep(c) ==
    \/ NoWorkspace(c) \/ CreateAgentRun(c) \/ Attach(c) \/ PrepareFails(c)
    \/ Dispatch(c) \/ Dispatched(c) \/ DispatchLost(c)
    \/ FailAgentRun(c) \/ FailRun(c) \/ GiveUp(c)

-----------------------------------------------------------------------------
(* The agent run, as AgentRuns has it, and its projection *)

\* The reader persists an event: the agent run first, then the routine's row.
Reads(c, status, projection) ==
    /\ mark[c] = "none"
    /\ agent' = IF agent[c] \in Active THEN [agent EXCEPT ![c] = status] ELSE agent
    /\ mark' = [mark EXCEPT ![c] = projection]

\* run.started; the one of a run's first leg finds everything as it is.
AgentStarts(c) ==
    /\ engine[c] \in {"on", "dying"} /\ agent[c] = "queued"
    /\ Reads(c, "running", "resumed")
    /\ UNCHANGED <<routine, rows, tasks, engine, resuming, extra>>

AgentPauses(c) ==
    /\ engine[c] \in {"on", "dying"}
    /\ Reads(c, "waiting_for_user", "waiting")
    /\ engine' = [engine EXCEPT ![c] = "off"]
    /\ UNCHANGED <<routine, rows, tasks, resuming, extra>>

\* run.completed; run.cancelled, run.failed and the settling of the runs of a
\* dead process are handled alike.
AgentEnds(c) ==
    /\ engine[c] \in {"on", "dying"}
    /\ Reads(c, "ended", "terminal")
    /\ engine' = [engine EXCEPT ![c] = "off"]
    /\ UNCHANGED <<routine, rows, tasks, resuming, extra>>

\* project_agent_run_terminal for one run, and the release of its claim.
Project(c, status) ==
    /\ run' = IF /\ mapped[c] /\ run[c] \in {"running", "waiting_for_user"}
                 /\ status \in Terminal
              THEN [run EXCEPT ![c] = status] ELSE run
    /\ IF routine.token = c /\ run' # run THEN ReleaseTerminal(run') ELSE UNCHANGED routine

\* mark_agent_run_waiting, mark_agent_run_resumed, mark_agent_run_terminal
Marks(c) ==
    /\ mark[c] # "none" /\ mark' = [mark EXCEPT ![c] = "none"]
    /\ \/ /\ mark[c] = "waiting" /\ UNCHANGED routine
          /\ run' = IF mapped[c] /\ run[c] = "running"
                    THEN [run EXCEPT ![c] = "waiting_for_user"] ELSE run
       \/ /\ mark[c] = "resumed" /\ UNCHANGED routine
          /\ run' = IF mapped[c] /\ run[c] = "waiting_for_user"
                    THEN [run EXCEPT ![c] = "running"] ELSE run
       \/ mark[c] = "terminal" /\ Project(c, agent[c])
    /\ UNCHANGED <<mapped, old, agent, tasks, engine, resuming, extra>>

\* The terminal projection is best effort: an error is only logged.
MarkFails(c) ==
    /\ mark[c] = "terminal" /\ mark' = [mark EXCEPT ![c] = "none"]
    /\ UNCHANGED <<routine, rows, agent, tasks, engine, resuming, extra>>

\* A card is answered: the run is claimed for it and resumed. (The next card
\* is answered after the command of the last one returned.)
UserResumes(c) ==
    /\ agent[c] = "waiting_for_user" /\ c \notin resuming
    /\ engine[c] = "off" /\ mark[c] = "none"
    /\ agent' = [agent EXCEPT ![c] = "queued"]
    /\ engine' = [engine EXCEPT ![c] = "on"]
    /\ resuming' = resuming \cup {c}
    /\ early' = IF boot = "done" /\ start[c] = "over" THEN early ELSE early \cup {c}
    /\ UNCHANGED <<routine, rows, tasks, mark, restarts>>

\* The command ends: it calls the run running, whatever it does by then, ...
ResumeEnds(c) ==
    /\ c \in resuming /\ resuming' = resuming \ {c}
    /\ agent' = IF agent[c] \in Active THEN [agent EXCEPT ![c] = "running"] ELSE agent
    /\ UNCHANGED <<routine, rows, tasks, engine, mark, extra>>

\* ... or its request was lost, perhaps with a runtime nobody reads any more, ...
ResumeLost(c) ==
    /\ c \in resuming /\ resuming' = resuming \ {c}
    /\ \/ UNCHANGED engine
       \/ agent[c] = "queued" /\ engine' = [engine EXCEPT ![c] = "off"]
    /\ UNCHANGED <<routine, rows, agent, tasks, mark, extra>>

\* ... or the run is put back, because the runtime refused.
ResumeRefused(c) ==
    /\ c \in resuming /\ resuming' = resuming \ {c}
    /\ engine[c] = "on" /\ agent[c] = "queued"
    /\ engine' = [engine EXCEPT ![c] = "off"]
    /\ agent' = [agent EXCEPT ![c] = "waiting_for_user"]
    /\ UNCHANGED <<routine, rows, tasks, mark, extra>>

\* cancel_waiting_run projects in its own transaction.
UserCancels(c) ==
    /\ agent[c] = "waiting_for_user" /\ engine[c] = "off" /\ mark[c] = "none"
    /\ agent' = [agent EXCEPT ![c] = "ended"]
    /\ Project(c, "ended")
    /\ UNCHANGED <<mapped, old, tasks, runtime, extra>>

AgentStep(c) ==
    \/ AgentStarts(c) \/ AgentPauses(c) \/ AgentEnds(c) \/ Marks(c) \/ MarkFails(c)
    \/ UserResumes(c) \/ ResumeEnds(c) \/ ResumeLost(c) \/ ResumeRefused(c)
    \/ UserCancels(c)

-----------------------------------------------------------------------------
(* Edits of the routine *)

Edit(r) == routine' = r /\ UNCHANGED <<rows, agent, tasks, runtime, extra>>

\* Faulty variant: pausing also drops the claim of the run under way.
ClosedReleasing == [routine EXCEPT !.state = "closed", !.next = "none", !.token = NoClaim]

Closed == [routine EXCEPT !.state = "closed", !.next = "none"]

\* pause, or an update that closes the routine or leaves it closed
Pause == routine.state # "deleted" /\ Edit(Closed)

\* resume, or an update that opens the routine or leaves it open
Resume ==
    /\ routine.state # "deleted"
    /\ Edit([routine EXCEPT !.state = "open", !.next = "later"])

\* delete: the routine's runs go with it, their agent runs stay.
Delete ==
    /\ routine.state # "deleted"
    /\ routine' = [routine EXCEPT !.state = "deleted", !.next = "none",
                                  !.token = NoClaim]
    /\ run' = [c \in Claim |-> "none"]
    /\ mapped' = [c \in Claim |-> FALSE]
    /\ old' = {}
    /\ UNCHANGED <<agent, tasks, runtime, extra>>

-----------------------------------------------------------------------------
(* A restart of the app, and reconcile_after_restart: five separate writes  *)
(* by the scheduler's task, while commands are served already.              *)

Restart ==
    /\ restarts < MaxRestarts /\ restarts' = restarts + 1
    /\ start' = [c \in Claim |-> IF start[c] = "none" THEN "none" ELSE "over"]
    /\ sched' = "idle" /\ boot' = "foreign"
    /\ engine' = [c \in Claim |-> "off"]
    /\ mark' = [c \in Claim |-> "none"]
    /\ resuming' = {}
    /\ UNCHANGED <<routine, rows, agent, early>>

Interrupt(which) ==
    [c \in Claim |-> IF c \in which THEN "interrupted" ELSE agent[c]]

\* reconcile_non_routine_runs_after_restart: agent runs no routine run maps to.
BootForeign ==
    /\ boot = "foreign" /\ boot' = "mirror"
    /\ agent' = Interrupt({c \in Claim : agent[c] \in {"queued", "running"} /\ ~mapped[c]})
    /\ UNCHANGED <<routine, rows, start, sched, runtime, extra>>

\* Faulty variant: the routine's row is believed instead of the agent run's.
MirroredNever == run

\* Faulty variant: the row gets the word a session has for the status.
MirroredAsSession ==
    [c \in Claim |-> IF /\ mapped[c] /\ run[c] \in {"running", "waiting_for_user"}
                        /\ agent[c] \in Active
                     THEN IF agent[c] = "queued" THEN "idle" ELSE agent[c] ELSE run[c]]

\* The agent run is the source of truth: its active status is copied.
Mirrored ==
    [c \in Claim |-> IF /\ mapped[c] /\ run[c] \in {"running", "waiting_for_user"}
                        /\ agent[c] \in Active
                     THEN agent[c] ELSE run[c]]

BootMirror ==
    /\ boot = "mirror" /\ boot' = "agents"
    /\ run' = Mirrored
    /\ UNCHANGED <<routine, mapped, old, agent, start, sched, runtime, extra>>

\* The agent runs of routine runs that are queued or running, ended or not.
BootAgents ==
    /\ boot = "agents" /\ boot' = "runs"
    /\ agent' = Interrupt({c \in Claim : mapped[c] /\ run[c] \in {"queued", "running"}})
    /\ UNCHANGED <<routine, rows, start, sched, runtime, extra>>

BootRuns ==
    /\ boot = "runs" /\ boot' = "release"
    /\ run' = [c \in Claim |-> IF run[c] \in {"queued", "running"} THEN "interrupted"
                               ELSE run[c]]
    /\ old' = {}
    /\ UNCHANGED <<routine, mapped, agent, start, sched, runtime, extra>>

BootRelease ==
    /\ boot = "release" /\ boot' = "done"
    /\ Reconcile
    /\ UNCHANGED <<agent, start, sched, runtime, extra>>

Boots == BootForeign \/ BootMirror \/ BootAgents \/ BootRuns \/ BootRelease

-----------------------------------------------------------------------------
Schedules == SchedulerTicks \/ SchedulerClaims

Next ==
    \/ TimePasses \/ Boots \/ Schedules \/ Trigger \/ TriggerClaims
    \/ \E c \in Claim : Ages(c) \/ StartStep(c) \/ AgentStep(c)
    \/ Pause \/ Resume \/ Delete
    \/ Restart

Spec == Init /\ [][Next]_vars

\* The scheduler's task, the commands and the reader go on, and time passes.
\* Nothing is assumed of the engine or the user: a run may last or wait forever.
Fairness ==
    /\ WF_vars(Boots \/ Schedules)
    /\ \A c \in Claim : WF_vars(Ages(c)) /\ WF_vars(StartStep(c)) /\ WF_vars(Marks(c))

FairSpec == Spec /\ Fairness

-----------------------------------------------------------------------------
(* Properties *)

\* "A second scheduler tick, a manual trigger, or a restarted app cannot start
\* a duplicate": two engines never work for one routine, whatever is paused,
\* expires, fails to start or restarts. The exception are runs begun while the
\* restart reconciliation is under way, which takes them for old ones, and runs
\* whose card is answered while start_claim is still giving them up.
SingleFlight ==
    \A c, d \in Claim \ early : engine[c] = "on" /\ engine[d] = "on" => c = d

\* The row of an active run and the claim of its routine belong together: no
\* pause, edit, expiry or failure lets the claim go while its run is active.
ActiveHoldsClaim ==
    \A c \in Claim : run[c] \in Active => routine.token = c

\* Toward a finite repeat a run counts once, and only when it gave its claim
\* back, however often its end is projected and reconciled.
CountedOnce ==
    routine.state # "deleted" =>
        routine.done <= Cardinality({c \in Claim : run[c] \in Terminal /\ routine.token # c})

\* A claim is given back with its occurrence served: a due one "would otherwise
\* immediately re-run". Only a manual or connector start that failed leaves the
\* occurrence to the scheduler.
OccurrenceServed ==
    [][\A c \in Claim :
           /\ routine.token = c /\ routine'.token = NoClaim
           /\ sched = c \/ start[c] # "failed_run"
           => routine'.next # "due"]_vars

\* A run that waits for the user keeps waiting through any restart.
WaitingSurvives ==
    [][\A c \in Claim \ early :
           agent[c] = "waiting_for_user" => agent'[c] # "interrupted"]_vars

\* Nothing executes for the claim any more, or never did.
Over(c) == agent[c] \in Terminal \/ (start[c] = "over" /\ ~mapped[c])

\* A routine gets its claim back once the run is over: after an end nobody
\* projected, a start that gave up silently or a restart at any point.
ClaimsEnd == \A c \in Claim : routine.token = c /\ Over(c) ~> routine.token # c

\* reconcile_after_restart: "The agent run is the source of truth at a process
\* boundary"; then one that ended is not written again.
EndedAgentRunStays ==
    [][\A c \in Claim : agent[c] \in Terminal => agent'[c] = agent[c]]_vars
=============================================================================
