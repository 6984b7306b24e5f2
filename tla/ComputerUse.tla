----------------------------- MODULE ComputerUse -----------------------------
(***************************************************************************)
(* Computer use (src-tauri/src/computer_use.rs): the broker that lets an   *)
(* agent turn operate other apps through one private driver process.       *)
(*                                                                         *)
(* Actors:                                                                 *)
(*   - one operation at a time, under the async mutex `operation`: an      *)
(*     action of the agent, the target lookup of a remote approval, or the *)
(*     cleanup after the last attended run ended;                          *)
(*   - the prewarm task, which starts the driver ahead of the first call;  *)
(*   - the permission probe, one flight at a time, which starts processes  *)
(*     of its own beside the driver, asks them for the permissions of the  *)
(*     Mac and stops them;                                                 *)
(*   - workers: the commands stop, grant, permissions and status, and the  *)
(*     shutdown of the app. All of them but shutdown end in a status probe *)
(*     or a Stop;                                                          *)
(*   - the window: begin_run (on the main thread, so one at a time),       *)
(*     end_run, the user's answers.                                        *)
(* The epoch invalidates what began before a Stop, the generation what     *)
(* began before a newer attended run.                                      *)
(*                                                                         *)
(* A process counts from the end of its start. A start that fails halfway  *)
(* may leave the process it launched: nobody has its channel, and it ends  *)
(* by itself once nobody connected for fifteen seconds.                    *)
(*                                                                         *)
(* An operation carries the rest of its plan, a sequence of step names.    *)
(* What the driver sees and returns, window selection, validation of       *)
(* arguments and screenshots appear as "it may fail here".                 *)
(***************************************************************************)
EXTENDS Integers, Sequences, FiniteSets

CONSTANTS
    Session,      \* sessions of the window that may hold an attended run
    App,          \* apps of this Mac
    NoApp,        \* no app
    Kind,         \* the actions agents take, a subset of Kinds below
    Worker,       \* commands and probes in flight at once
    Job,          \* the commands they run, a subset of Jobs below
    MaxActions,   \* bound: operations of the agent
    MaxCommands,  \* bound: commands begun
    MaxGen,       \* bound: attended runs
    MaxStarts     \* bound: driver processes started

Kinds == {"capture", "focus", "open", "act", "list", "remote"}
Jobs == {"stop", "quit", "revoke", "permissions", "enable", "status"}

ASSUME ConstAssumption ==
    /\ NoApp \notin App /\ Kind \subseteq Kinds /\ Job \subseteq Jobs
    /\ \A n \in {MaxActions, MaxCommands, MaxGen, MaxStarts} : n \in Nat

VARIABLES
    grant,      \* the Computer use grant of the settings
    ready,      \* runtime_ready_state and the epoch it was published in
    epoch,      \* epoch
    gen,        \* attended_generation
    runs,       \* attended_runs
    auth,       \* authorized_apps: keys <<"name", a>> and <<"id", a>>
    target,     \* target: the app selected, whether captured, and the epoch
    approval,   \* the parked approval: its entry and its channel
    op,         \* the holder of `operation`
    lock,       \* the holder of the mutex around the driver
    driver,     \* the process in the driver slot, 0 if none
    pid,        \* driver_pid
    warm,       \* the prewarm task; "off" unless driver_prewarm_in_flight
    worker,     \* the commands in flight
    flight,     \* the permission probe in flight
    begin,      \* the begin_run in progress
    ending,     \* generations whose idle cleanup waits for `operation`
    \* history
    starts,     \* driver processes started so far; they are numbered
    live,       \* those that run
    stray,      \* those among them whose start failed halfway
    born,       \* the epoch each driver was started for
    task,       \* how many tasks began: attended runs of an idle broker
    givenIn,    \* the task in which each key of auth was allowed
    used,       \* actions of the agent so far
    asked,      \* commands so far
    left        \* whether a shutdown gave up waiting for the driver

session == <<runs, gen, auth, task, givenIn>>
apart == <<flight, stray>>
process == <<lock, driver, pid, starts, live, born, apart>>
past == <<left, asked>>
control == <<grant, ready, epoch, warm, worker, begin, ending, past>>
vars == <<session, process, control, target, approval, op, used>>

Key == {"name", "id"} \X App
NoKey == <<"none", NoApp>>

\* The steps of an operation, and where it is within its present one.
Tool == {"windows", "refresh", "raise", "observe", "launch", "tool"}
Steps == Tool \cup {"task", "eligible", "authorize", "alias", "aim", "join", "task_check",
                    "check", "store", "verify", "select", "confirm", "identify", "keep",
                    "again", "idle", "clean"}
At == {"start", "wait", "spawn", "send", "call", "parked", "recheck", "reeligible",
       "remember", "settle"}

NoPlan == [kind |-> "none", todo |-> <<>>, at |-> "start", epoch |-> 0, gen |-> 0,
           task |-> 0, app |-> NoApp, key |-> NoKey, named |-> FALSE, fresh |-> FALSE,
           permit |-> "none"]
Rest == [worker |-> [job |-> "none", step |-> "rest", epoch |-> 0, ok |-> FALSE, took |-> 0,
                    prompt |-> FALSE],
         flight |-> [step |-> "off", prompt |-> "no", proc |-> 0],
         warm |-> [step |-> "off", epoch |-> 0, proc |-> 0],
         begin |-> [step |-> "off", session |-> {}, first |-> FALSE],
         target |-> [app |-> NoApp, captured |-> FALSE, epoch |-> 0]]

\* The plans of the actions (capture, focus_app, open_app, mutate, list_apps).
Look == <<"windows", "authorize", "refresh", "join", "task_check", "observe", "store", "verify">>
Plan(kind) ==
    CASE kind = "capture" -> <<"task", "eligible">> \o Look
      [] kind = "focus"   -> <<"task", "eligible", "windows", "authorize", "refresh", "join",
                               "check", "select">>
      [] kind = "open"    -> <<"task", "eligible", "alias", "authorize", "task_check", "launch",
                               "task_check", "identify", "keep", "windows", "join", "select">>
      [] kind = "act"     -> <<"task", "eligible", "aim", "authorize", "confirm", "windows",
                               "observe", "confirm", "check", "tool", "again">>
      [] kind = "list"    -> <<"task", "eligible", "windows">>
      [] kind = "remote"  -> <<"windows">>

-----------------------------------------------------------------------------
(* What the operations are made of *)

Working == op.todo # <<>>
On(step, at) == Working /\ Head(op.todo) = step /\ op.at = at

\* Faulty variant: a Stop does not invalidate what runs.
CurrentAlways == TRUE
Current == op.epoch = epoch
Attended == runs # {}
InTask == op.gen = gen

Finish == op' = NoPlan
\* On to the next step of the plan; a window that was not just allowed needs
\* no refresh.
Go(o) == op' = [o EXCEPT !.at = "start",
                         !.todo = IF Len(@) > 1 /\ @[2] = "refresh" /\ ~o.fresh
                                  THEN Tail(Tail(@)) ELSE Tail(@)]
Advance == IF Len(op.todo) = 1 THEN Finish ELSE Go(op)
Within(at) == op' = [op EXCEPT !.at = at]
Instead(steps, o) == op' = [o EXCEPT !.at = "start", !.todo = steps \o Tail(@)]

Stopping == {"clear", "bump", "drain", "kill", "take", "stopping", "forget", "leave"}
\* cleanup_in_progress, as begin_run asks it
Cleaning == (\E w \in Worker : worker[w].step \in Stopping) \/ op.kind = "end"

ReadyNow == ready.is /\ ready.epoch = epoch
\* schedule_driver_prewarm
Schedule(isReady, at) ==
    warm' = IF isReady /\ warm.step = "off" THEN [step |-> "lock", epoch |-> at, proc |-> 0]
            ELSE warm

WarmCurrent == warm.epoch = epoch /\ ReadyNow

\* DriverClient::start succeeded: a process runs, for the epoch of its starter.
Launch(forEpoch) ==
    /\ starts < MaxStarts /\ starts' = starts + 1
    /\ live' = live \cup {starts + 1} /\ born' = [born EXCEPT ![starts + 1] = forEpoch]
\* It failed, perhaps halfway: the process it launched is up.
LaunchFails ==
    \/ Launch(0) /\ stray' = stray \cup {starts + 1}
    \/ UNCHANGED <<starts, live, born, stray>>

Init ==
    /\ grant = TRUE /\ ready = [is |-> FALSE, epoch |-> 0] /\ epoch = 0 /\ gen = 0
    /\ runs = {} /\ auth = {} /\ target = Rest.target /\ approval = "none" /\ op = NoPlan
    /\ lock = "free" /\ driver = 0 /\ pid = 0 /\ warm = Rest.warm
    /\ worker = [w \in Worker |-> Rest.worker] /\ begin = Rest.begin /\ ending = {}
    /\ flight = Rest.flight /\ stray = {}
    /\ starts = 0 /\ live = {} /\ born = [p \in 1..MaxStarts |-> 0]
    /\ task = 0 /\ givenIn = [k \in Key |-> 0] /\ used = 0 /\ asked = 0 /\ left = FALSE

-----------------------------------------------------------------------------
(* Attended runs: begin_run, end_run *)

BeginRun(s) ==
    /\ begin.step = "off" /\ gen < MaxGen /\ ~Cleaning
    /\ begin' = [step |-> "insert", session |-> {s}, first |-> FALSE]
    /\ UNCHANGED <<session, process, grant, ready, epoch, warm, worker, ending, past,
                   target, approval, op, used>>

\* Faulty variant: only the first look at the counter, before the lock.
BeginInsertBlind ==
    /\ begin.step = "insert"
    /\ runs' = runs \cup begin.session /\ task' = IF runs = {} THEN task + 1 ELSE task
    /\ begin' = [begin EXCEPT !.step = "bump", !.first = runs = {}]
    /\ UNCHANGED <<gen, auth, givenIn, process, grant, ready, epoch, warm, worker, ending,
                   past, target, approval, op, used>>

\* Under the lock of attended_runs the counter is read again.
BeginInsert ==
    /\ begin.step = "insert"
    /\ IF Cleaning \/ begin.session \subseteq runs
         THEN begin' = Rest.begin /\ UNCHANGED <<runs, task>>
         ELSE /\ runs' = runs \cup begin.session
              /\ begin' = [begin EXCEPT !.step = "bump", !.first = runs = {}]
              /\ task' = IF runs = {} THEN task + 1 ELSE task
    /\ UNCHANGED <<gen, auth, givenIn, process, grant, ready, epoch, warm, worker, ending,
                   past, target, approval, op, used>>

BeginBump ==
    /\ begin.step = "bump" /\ gen' = gen + 1
    /\ begin' = IF begin.first THEN [begin EXCEPT !.step = "reset"] ELSE Rest.begin
    /\ UNCHANGED <<runs, auth, task, givenIn, process, grant, ready, epoch, warm, worker,
                   ending, past, target, approval, op, used>>

BeginReset ==
    /\ begin.step = "reset" /\ auth' = {} /\ begin' = Rest.begin
    /\ UNCHANGED <<runs, gen, task, givenIn, process, grant, ready, epoch, warm, worker,
                   ending, past, target, approval, op, used>>

EndRun(s) ==
    /\ s \in runs /\ runs' = runs \ {s}
    /\ ending' = IF runs' = {} THEN ending \cup {gen} ELSE ending
    /\ UNCHANGED <<gen, auth, task, givenIn, process, grant, ready, epoch, warm, worker,
                   begin, past, target, approval, op, used>>

\* stop_if_idle: the cleanup begins once it holds `operation`, ...
EndIdle(g) ==
    /\ g \in ending /\ ~Working
    /\ op' = [NoPlan EXCEPT !.kind = "end", !.gen = g, !.todo = <<"idle", "clean">>]
    /\ ending' = ending \ {g}
    /\ UNCHANGED <<session, process, grant, ready, epoch, warm, worker, begin, past, target,
                   approval, used>>

\* ... asks whether a newer run began meanwhile, ...
CheckIdle ==
    /\ On("idle", "start")
    /\ IF runs = {} /\ InTask THEN Advance ELSE Finish
    /\ UNCHANGED <<session, process, control, target, approval, used>>

\* ... and clears what the task was allowed; the driver stays.
CleanIdle ==
    /\ On("clean", "start")
    /\ approval' = IF approval = "pending" THEN "denied" ELSE approval
    /\ target' = Rest.target /\ auth' = {} /\ Schedule(ReadyNow, epoch) /\ Finish
    /\ UNCHANGED <<runs, gen, task, givenIn, process, grant, ready, epoch, worker, begin,
                   ending, past, used>>

-----------------------------------------------------------------------------
(* An action of the agent: handle_action *)

Enter(kind, a, permit) ==
    /\ ~Working /\ used < MaxActions /\ used' = used + 1
    /\ kind # "remote" => Attended
    /\ permit # "none" => kind \in {"capture", "focus", "act"}
    /\ op' = [NoPlan EXCEPT !.kind = kind, !.todo = Plan(kind), !.epoch = epoch,
                            !.app = a, !.permit = permit,
                            !.key = <<IF kind = "open" THEN "name" ELSE "id", a>>]
    /\ UNCHANGED <<session, process, control, target, approval>>

ReadTask ==
    /\ On("task", "start") /\ Go([op EXCEPT !.gen = gen, !.task = task])
    /\ UNCHANGED <<session, process, control, target, approval, used>>

\* ensure_action_eligible
CheckEligible ==
    /\ On("eligible", "start")
    /\ IF grant THEN Advance ELSE Finish
    /\ UNCHANGED <<session, process, control, target, approval, used>>

\* Faulty variant: the target is taken to be there.
AimBlind ==
    /\ On("aim", "start") /\ Go([op EXCEPT !.app = target.app, !.key = <<"id", target.app>>])
    /\ UNCHANGED <<session, process, control, target, approval, used>>

\* mutate works on the target selected last, which it names by its identity.
Aim ==
    /\ On("aim", "start")
    /\ IF target.app = NoApp THEN Finish
       ELSE Go([op EXCEPT !.app = target.app, !.key = <<"id", target.app>>])
    /\ UNCHANGED <<session, process, control, target, approval, used>>

\* open_app lists the windows first unless the name is allowed; a running app
\* of that name whose identity is allowed needs no other authorization.
Alias ==
    /\ On("alias", "start")
    /\ IF op.key \in auth THEN Go([op EXCEPT !.named = TRUE])
       ELSE Instead(<<"windows">>, [op EXCEPT !.named = TRUE])
    /\ UNCHANGED <<session, process, control, target, approval, used>>
KnownAlias(b) ==
    /\ op.kind = "open" /\ On("authorize", "start") /\ op.key \notin auth /\ op.named
    /\ <<"id", b>> \in auth /\ op.key[1] = "name"
    /\ Go([op EXCEPT !.named = FALSE])
    /\ UNCHANGED <<session, process, control, target, approval, used>>

TaskCheck ==
    /\ On("task_check", "start")
    /\ IF InTask THEN Advance ELSE Finish
    /\ UNCHANGED <<session, process, control, target, approval, used>>
FullCheck ==
    /\ On("check", "start")
    /\ IF InTask /\ Current THEN Advance ELSE Finish
    /\ UNCHANGED <<session, process, control, target, approval, used>>

\* join_target_to_clovy_stage, when the window needs it
Join(needed) ==
    /\ On("join", "start")
    /\ IF needed
         THEN Instead(<<"task_check", "raise", "task_check", "refresh">>, [op EXCEPT !.fresh = TRUE])
         ELSE Advance
    /\ UNCHANGED <<session, process, control, target, approval, used>>

\* revalidate_target finds the target it was approved for, or a stale one.
Confirm(stale) ==
    /\ On("confirm", "start")
    /\ IF target.app = op.app /\ ~stale THEN Advance ELSE Finish
    /\ UNCHANGED <<session, process, control, target, approval, used>>

\* Faulty variant: the epoch is not compared under the lock of the target.
StoreBlind ==
    /\ On("store", "start") /\ Advance
    /\ target' = [app |-> op.app, captured |-> TRUE, epoch |-> op.epoch]
    /\ UNCHANGED <<session, process, control, approval, used>>

\* capture replaces the target under its lock, and looks once more after it.
Store ==
    /\ On("store", "start")
    /\ IF Current
         THEN target' = [app |-> op.app, captured |-> TRUE, epoch |-> op.epoch] /\ Advance
         ELSE Finish /\ UNCHANGED target
    /\ UNCHANGED <<session, process, control, approval, used>>
Verify ==
    /\ On("verify", "start")
    /\ target' = IF Current THEN target ELSE Rest.target
    /\ Finish
    /\ UNCHANGED <<session, process, control, approval, used>>
Select ==
    /\ On("select", "start")
    /\ target' = [app |-> op.app, captured |-> FALSE, epoch |-> op.epoch] /\ Finish
    /\ UNCHANGED <<session, process, control, approval, used>>

\* open_app learns which app the name opened. The name's approval extends to
\* it; an identity's approval does not.
Identify(b) ==
    /\ On("identify", "start")
    /\ LET o == [op EXCEPT !.app = b, !.key = <<"id", b>>] IN
       IF <<"id", b>> \in auth THEN Go(o) /\ UNCHANGED <<auth, givenIn>>
       ELSE IF op.named
              THEN /\ auth' = auth \cup {<<"id", b>>} /\ Go(o)
                   /\ givenIn' = [givenIn EXCEPT ![<<"id", b>>] = op.task]
              ELSE Instead(<<"authorize">>, o) /\ UNCHANGED <<auth, givenIn>>
    /\ UNCHANGED <<runs, gen, task, process, control, target, approval, used>>
Keep ==
    /\ On("keep", "start")
    /\ IF InTask THEN Advance /\ UNCHANGED auth ELSE Finish /\ auth' = auth \ {op.key}
    /\ UNCHANGED <<runs, gen, task, givenIn, process, control, target, approval, used>>

\* capture_after of mutate
Again(capture) ==
    /\ On("again", "start")
    /\ IF capture THEN Instead(Look, op) ELSE Finish
    /\ UNCHANGED <<session, process, control, target, approval, used>>

-----------------------------------------------------------------------------
(* ensure_app_authorized *)

Spent == [op EXCEPT !.permit = "none", !.fresh = FALSE]
\* The permit of a remote approval counts once per call, for the target it
\* was made for.
Permitted == op.permit = "match"
Mismatched == op.permit = "mismatch"

Authorize ==
    /\ On("authorize", "start")
    /\ IF ~InTask THEN Finish /\ UNCHANGED approval
       ELSE IF Permitted THEN op' = [Spent EXCEPT !.at = "recheck"] /\ UNCHANGED approval
       ELSE IF ~Mismatched /\ op.key \in auth THEN Go(Spent) /\ UNCHANGED approval
       ELSE op' = [Spent EXCEPT !.at = "parked", !.fresh = TRUE] /\ approval' = "pending"
    /\ UNCHANGED <<session, process, control, target, used>>

\* park_app_authorization gets its answer, or none within APPROVAL_TIMEOUT.
Answered ==
    /\ On("authorize", "parked") /\ approval \in {"allowed", "denied"}
    /\ approval' = "none" /\ IF approval = "allowed" THEN Within("recheck") ELSE Finish
    /\ UNCHANGED <<session, process, control, target, used>>
ApprovalTimeout ==
    /\ On("authorize", "parked") /\ approval = "pending" /\ approval' = "none" /\ Finish
    /\ UNCHANGED <<session, process, control, target, used>>

\* recheck_after_approval: the counters first, then the eligibility it awaits
Recheck ==
    /\ On("authorize", "recheck")
    /\ IF Current /\ Attended /\ InTask THEN Within("reeligible") ELSE Finish
    /\ UNCHANGED <<session, process, control, target, approval, used>>
Reeligible ==
    /\ On("authorize", "reeligible")
    /\ IF ~grant THEN Finish ELSE IF op.fresh THEN Within("remember") ELSE Go(op)
    /\ UNCHANGED <<session, process, control, target, approval, used>>
Remember ==
    /\ On("authorize", "remember") /\ auth' = auth \cup {op.key}
    /\ givenIn' = [givenIn EXCEPT ![op.key] = op.task] /\ Within("settle")
    /\ UNCHANGED <<runs, gen, task, process, control, target, approval, used>>

\* Faulty variant: the task is not compared once the key is remembered.
SettleBlind ==
    /\ On("authorize", "settle") /\ Go(op)
    /\ UNCHANGED <<session, process, control, target, approval, used>>

Settle ==
    /\ On("authorize", "settle")
    /\ IF InTask THEN Go(op) /\ UNCHANGED auth ELSE Finish /\ auth' = auth \ {op.key}
    /\ UNCHANGED <<runs, gen, task, givenIn, process, control, target, approval, used>>

\* computer_use_approval_respond takes the entry out and answers it.
Respond(allow) ==
    /\ approval = "pending" /\ approval' = IF allow THEN "allowed" ELSE "denied"
    /\ UNCHANGED <<session, process, control, target, op, used>>

-----------------------------------------------------------------------------
(* A call of the driver: driver_call *)

OnTool(at) == Working /\ Head(op.todo) \in Tool /\ op.at = at

CallCheck ==
    /\ OnTool("start")
    /\ IF Current /\ Attended THEN Within("wait") ELSE Finish
    /\ UNCHANGED <<session, process, control, target, approval, used>>

\* Faulty variant: only the look before the wait for the mutex.
CallLockBlind ==
    /\ OnTool("wait") /\ lock = "free"
    /\ lock' = "op" /\ Within(IF driver = 0 THEN "spawn" ELSE "send")
    /\ UNCHANGED <<session, driver, pid, starts, live, born, apart, control, target, approval,
                   used>>

CallLock ==
    /\ OnTool("wait") /\ lock = "free"
    /\ IF Current /\ Attended
         THEN lock' = "op" /\ Within(IF driver = 0 THEN "spawn" ELSE "send")
         ELSE Finish /\ UNCHANGED lock
    /\ UNCHANGED <<session, driver, pid, starts, live, born, apart, control, target, approval,
                   used>>

CallSpawn ==
    /\ OnTool("spawn") /\ Launch(op.epoch) /\ Within("send")
    /\ driver' = starts' /\ pid' = starts'
    /\ UNCHANGED <<session, lock, apart, control, target, approval, used>>
CallSpawnFails ==
    /\ OnTool("spawn") /\ LaunchFails /\ lock' = "free" /\ Finish
    /\ UNCHANGED <<session, driver, pid, flight, control, target, approval, used>>

CallSend ==
    /\ OnTool("send")
    /\ IF Current /\ Attended THEN Within("call") /\ UNCHANGED lock
       ELSE Finish /\ lock' = "free"
    /\ UNCHANGED <<session, driver, pid, starts, live, born, apart, control, target, approval,
                   used>>

\* A list of windows is dropped if a Stop came while it was made.
CallReturns ==
    /\ OnTool("call") /\ driver \in live /\ lock' = "free"
    /\ IF Head(op.todo) \in {"windows", "refresh"} /\ ~Current THEN Finish ELSE Advance
    /\ UNCHANGED <<session, driver, pid, starts, live, born, apart, control, target, approval,
                   used>>

\* Faulty variant: the driver of a failed call is dropped, not stopped.
CallFailsLeaving ==
    /\ OnTool("call") /\ lock' = "free" /\ Finish /\ pid' = 0 /\ driver' = 0
    /\ UNCHANGED <<session, starts, live, born, apart, control, target, approval, used>>

\* It timed out, the process is gone or refused: the driver is stopped.
CallFails ==
    /\ OnTool("call") /\ lock' = "free" /\ Finish
    /\ pid' = 0 /\ driver' = 0 /\ live' = live \ {driver}
    /\ UNCHANGED <<session, starts, born, apart, control, target, approval, used>>

DriverDies ==
    /\ driver \in live /\ live' = live \ {driver}
    /\ UNCHANGED <<session, lock, driver, pid, starts, born, apart, control, target, approval, op,
                   used>>

-----------------------------------------------------------------------------
(* prewarm_driver *)

WarmEnds == warm' = Rest.warm
WarmLock ==
    /\ warm.step = "lock" /\ lock = "free"
    /\ IF driver # 0 \/ ~WarmCurrent THEN WarmEnds /\ UNCHANGED lock
       ELSE warm' = [warm EXCEPT !.step = "verify"] /\ lock' = "warm"
    /\ UNCHANGED <<session, driver, pid, starts, live, born, apart, grant, ready, epoch, worker,
                   begin, ending, past, target, approval, op, used>>
\* After the signature and version checks, ...
WarmVerified ==
    /\ warm.step = "verify"
    /\ IF WarmCurrent THEN warm' = [warm EXCEPT !.step = "start"] /\ UNCHANGED lock
       ELSE WarmEnds /\ lock' = "free"
    /\ UNCHANGED <<session, driver, pid, starts, live, born, apart, grant, ready, epoch, worker,
                   begin, ending, past, target, approval, op, used>>
WarmFails ==
    /\ \/ warm.step = "verify" /\ UNCHANGED <<starts, live, born, stray>>
       \/ warm.step = "start" /\ LaunchFails
    /\ WarmEnds /\ lock' = "free"
    /\ UNCHANGED <<session, driver, pid, flight, grant, ready, epoch, worker, begin, ending,
                   past, target, approval, op, used>>
WarmStarted ==
    /\ warm.step = "start" /\ Launch(warm.epoch)
    /\ warm' = [warm EXCEPT !.step = "install", !.proc = starts']
    /\ UNCHANGED <<session, lock, driver, pid, apart, grant, ready, epoch, worker, begin, ending,
                   past, target, approval, op, used>>
\* ... and again after the start: a process that came too late is stopped.
WarmInstall ==
    /\ warm.step = "install" /\ WarmEnds /\ lock' = "free"
    /\ IF WarmCurrent THEN driver' = warm.proc /\ pid' = warm.proc /\ UNCHANGED live
       ELSE live' = live \ {warm.proc} /\ UNCHANGED <<driver, pid>>
    /\ UNCHANGED <<session, starts, born, apart, grant, ready, epoch, worker, begin, ending, past,
                   target, approval, op, used>>

-----------------------------------------------------------------------------
(* Workers: stop_inner and stop_for_shutdown, then what the command adds *)

At_(w, step) == worker[w].step = step
Move(w, step) == worker' = [worker EXCEPT ![w].step = step]
Done(w) == worker' = [worker EXCEPT ![w] = Rest.worker]

\* The command begins. A revocation stores the grant before it stops.
Command(w, job) ==
    /\ At_(w, "rest") /\ asked < MaxCommands /\ asked' = asked + 1
    /\ job = "permissions" => grant
    /\ grant' = IF job = "revoke" THEN FALSE ELSE IF job = "enable" THEN TRUE ELSE grant
    /\ worker' = [worker EXCEPT ![w].job = job,
                                ![w].step = CASE job \in {"enable", "status"} -> "probe"
                                              [] job = "revoke" -> "enter"
                                              [] OTHER -> "clear"]
    /\ UNCHANGED <<session, process, ready, epoch, warm, begin, ending, left, target,
                   approval, op, used>>

\* CleanupInProgress counts from here on, ...
StopEnter(w) ==
    /\ At_(w, "enter") /\ Move(w, "clear")
    /\ UNCHANGED <<session, process, grant, ready, epoch, warm, begin, ending, past, target,
                   approval, op, used>>
\* ... so that no lease is granted once the leases are gone.
StopClear(w) ==
    /\ At_(w, "clear") /\ runs' = {} /\ Move(w, "bump")
    /\ UNCHANGED <<gen, auth, task, givenIn, process, grant, ready, epoch, warm, begin,
                   ending, past, target, approval, op, used>>
StopBump(w) ==
    /\ At_(w, "bump") /\ epoch' = epoch + 1 /\ Move(w, "drain")
    /\ UNCHANGED <<session, process, grant, ready, warm, begin, ending, past, target,
                   approval, op, used>>
StopDrain(w) ==
    /\ At_(w, "drain") /\ Move(w, "kill")
    /\ approval' = IF approval = "pending" THEN "denied" ELSE approval
    /\ UNCHANGED <<session, process, grant, ready, epoch, warm, begin, ending, past, target,
                   op, used>>
StopKill(w) ==
    /\ At_(w, "kill") /\ live' = live \ {pid} /\ pid' = 0 /\ Move(w, "take")
    /\ UNCHANGED <<session, lock, driver, starts, born, apart, grant, ready, epoch, warm, begin,
                   ending, past, target, approval, op, used>>
\* The slot is emptied under the mutex, which is held while the process ends.
StopTake(w) ==
    /\ At_(w, "take") /\ lock = "free"
    /\ IF driver = 0 THEN Move(w, "forget") /\ UNCHANGED <<lock, driver>>
       ELSE /\ worker' = [worker EXCEPT ![w].step = "stopping", ![w].took = driver]
            /\ lock' = "worker" /\ driver' = 0
    /\ UNCHANGED <<session, pid, starts, live, born, apart, grant, ready, epoch, warm, begin,
                   ending, past, target, approval, op, used>>
\* stop_for_shutdown does not wait for the mutex longer than its bound.
QuitGivesUp(w) ==
    /\ At_(w, "take") /\ worker[w].job = "quit" /\ lock # "free"
    /\ left' = TRUE /\ Move(w, "forget")
    /\ UNCHANGED <<session, process, grant, ready, epoch, warm, begin, ending, asked,
                   target, approval, op, used>>
StopStopped(w) ==
    /\ At_(w, "stopping") /\ live' = live \ {worker[w].took} /\ lock' = "free"
    /\ Move(w, "forget")
    /\ UNCHANGED <<session, driver, pid, starts, born, apart, grant, ready, epoch, warm, begin,
                   ending, past, target, approval, op, used>>
StopForget(w) ==
    /\ At_(w, "forget") /\ target' = Rest.target /\ auth' = {} /\ Move(w, "leave")
    /\ UNCHANGED <<runs, gen, task, givenIn, process, grant, ready, epoch, warm, begin,
                   ending, past, approval, op, used>>
\* The counter drops; readiness is withdrawn unless the user merely stopped.
StopLeave(w) ==
    /\ At_(w, "leave")
    /\ CASE worker[w].job \in {"stop", "quit"} -> Done(w)
         [] OTHER -> Move(w, "replace")
    /\ UNCHANGED <<session, process, grant, ready, epoch, warm, begin, ending, past, target,
                   approval, op, used>>
ReplaceReady(w) ==
    /\ At_(w, "replace") /\ ready' = [is |-> FALSE, epoch |-> epoch]
    /\ CASE worker[w].job = "status" -> Done(w)
         [] worker[w].job = "permissions" -> Move(w, "prompt")
         [] OTHER -> Move(w, "probe")
    /\ UNCHANGED <<session, process, grant, epoch, warm, begin, ending, past, target,
                   approval, op, used>>

\* computer_use_request_permissions first wants a probe that asks the user.
ProbePrompt(w, open) ==
    /\ At_(w, "prompt")
    /\ IF open THEN worker' = [worker EXCEPT ![w].step = "ask", ![w].prompt = TRUE] ELSE Done(w)
    /\ UNCHANGED <<session, process, grant, ready, epoch, warm, begin, ending, past, target,
                   approval, op, used>>

\* The probe of status_with_published_readiness: it remembers the epoch, ...
ProbeStart(w) ==
    /\ At_(w, "probe") /\ worker' = [worker EXCEPT ![w].step = "read", ![w].epoch = epoch]
    /\ UNCHANGED <<session, process, grant, ready, epoch, warm, begin, ending, past, target,
                   approval, op, used>>
\* ... reads the grant and the other gates, ...
ProbeRead(w, open) ==
    /\ At_(w, "read")
    /\ worker' = [worker EXCEPT ![w].step = IF open /\ grant THEN "ask" ELSE "publish",
                                ![w].ok = open /\ grant]
    /\ UNCHANGED <<session, process, grant, ready, epoch, warm, begin, ending, past, target,
                   approval, op, used>>
\* ... joins the permission probe in flight or starts one ...
ProbeAsk(w) ==
    /\ At_(w, "ask") /\ Move(w, "await")
    /\ flight' = IF flight.step # "off" THEN flight
                 ELSE [Rest.flight EXCEPT !.step = "start",
                                          !.prompt = IF worker[w].prompt THEN "first" ELSE "no"]
    /\ UNCHANGED <<session, lock, driver, pid, starts, live, stray, born, grant, ready, epoch,
                   warm, begin, ending, past, target, approval, op, used>>
\* ... and publishes unless a Stop came between: the Mac is ready for a model
\* that sees. Readiness that a refresh finds lost stops what runs; a driver is
\* started ahead where there is readiness.
ProbePublish(w, sees) ==
    /\ At_(w, "publish")
    /\ LET ok == worker[w].ok /\ sees IN
       IF worker[w].epoch # epoch THEN Done(w) /\ UNCHANGED <<ready, warm>>
       ELSE /\ ready' = [is |-> ok, epoch |-> epoch] /\ Schedule(ok, epoch)
            /\ IF worker[w].job = "status" /\ ready.is /\ ~ok THEN Move(w, "enter") ELSE Done(w)
    /\ UNCHANGED <<session, process, grant, epoch, begin, ending, past, target, approval,
                   op, used>>

-----------------------------------------------------------------------------
(* The permission probe: PermissionProbeCoordinator::run with             *)
(* probe_permissions_uncoordinated. A Stop does not end it.                *)

\* What a command that waits makes of the result: who wanted the user asked
\* and joined a probe that asks nobody goes on to one of its own.
Told(e, result) ==
    IF ~e.prompt THEN [e EXCEPT !.step = "publish", !.ok = @ /\ result = "granted"]
    ELSE IF result = "error" THEN Rest.worker
    ELSE IF result = "missing" /\ flight.prompt = "no" THEN [e EXCEPT !.step = "ask"]
    ELSE [e EXCEPT !.step = "probe", !.prompt = FALSE]
Land(result) ==
    /\ flight' = Rest.flight
    /\ worker' = [w \in Worker |-> IF At_(w, "await") THEN Told(worker[w], result) ELSE worker[w]]

FlightStarts ==
    /\ flight.step = "start" /\ Launch(0)
    /\ flight' = [flight EXCEPT !.step = "check", !.proc = starts']
    /\ UNCHANGED <<session, lock, driver, pid, stray, control, target, approval, op, used>>
FlightFails ==
    /\ flight.step = "start" /\ LaunchFails /\ Land("error")
    /\ UNCHANGED <<session, lock, driver, pid, grant, ready, epoch, warm, begin, ending, past,
                   target, approval, op, used>>
\* The process is stopped, whatever it answered. With a permission missing a
\* probe that may ask the user starts a second one, which asks.
FlightReads(result) ==
    /\ flight.step = "check" /\ live' = live \ {flight.proc}
    /\ IF flight.prompt = "first" /\ result = "missing"
         THEN /\ flight' = [Rest.flight EXCEPT !.step = "start", !.prompt = "last"]
              /\ UNCHANGED worker
         ELSE Land(result)
    /\ UNCHANGED <<session, lock, driver, pid, starts, stray, born, grant, ready, epoch, warm,
                   begin, ending, past, target, approval, op, used>>

\* What a failed start left ends by itself.
StrayEnds(p) ==
    /\ live' = live \ {p} /\ stray' = stray \ {p}
    /\ UNCHANGED <<session, lock, driver, pid, starts, born, flight, control, target, approval,
                   op, used>>

-----------------------------------------------------------------------------
OpStep ==
    \/ CheckIdle \/ CleanIdle \/ ReadTask \/ CheckEligible \/ Aim \/ Alias
    \/ (\E b \in App : KnownAlias(b) \/ Identify(b))
    \/ TaskCheck \/ FullCheck \/ Store \/ Verify \/ Select \/ Keep
    \/ (\E b \in BOOLEAN : Join(b) \/ Confirm(b) \/ Again(b))
    \/ Authorize \/ Answered \/ ApprovalTimeout \/ Recheck \/ Reeligible \/ Remember \/ Settle
    \/ CallCheck \/ CallLock \/ CallSpawn \/ CallSpawnFails \/ CallSend
    \/ CallReturns \/ CallFails
WarmTask == WarmLock \/ WarmVerified \/ WarmStarted \/ WarmFails \/ WarmInstall
WorkerStep(w) ==
    \/ StopEnter(w) \/ StopClear(w) \/ StopBump(w) \/ StopDrain(w) \/ StopKill(w) \/ StopTake(w)
    \/ QuitGivesUp(w) \/ StopStopped(w) \/ StopForget(w) \/ StopLeave(w) \/ ReplaceReady(w)
    \/ ProbeStart(w) \/ (\E open \in BOOLEAN : ProbeRead(w, open) \/ ProbePrompt(w, open))
    \/ ProbeAsk(w) \/ (\E sees \in BOOLEAN : ProbePublish(w, sees))
FlightStep ==
    \/ FlightStarts \/ FlightFails
    \/ \E result \in {"granted", "missing", "error"} : FlightReads(result)
BeginStep == BeginInsert \/ BeginBump \/ BeginReset

Next ==
    \/ \E s \in Session : BeginRun(s) \/ EndRun(s)
    \/ BeginStep
    \/ \E g \in ending : EndIdle(g)
    \/ \E kind \in Kind, a \in App, permit \in {"none", "match", "mismatch"} :
           Enter(kind, a, permit)
    \/ OpStep
    \/ \E allow \in BOOLEAN : Respond(allow)
    \/ DriverDies
    \/ WarmTask
    \/ FlightStep
    \/ \E p \in stray : StrayEnds(p)
    \/ \E w \in Worker : WorkerStep(w) \/ \E job \in Job : Command(w, job)

Spec == Init /\ [][Next]_vars

-----------------------------------------------------------------------------
(* Properties *)

\* Every variable has its type.
TypeOK ==
    /\ grant \in BOOLEAN /\ ready \in [is : BOOLEAN, epoch : Nat]
    /\ epoch \in Nat /\ gen \in Nat /\ runs \subseteq Session /\ auth \subseteq Key
    /\ target \in [app : App \cup {NoApp}, captured : BOOLEAN, epoch : Nat]
    /\ approval \in {"none", "pending", "allowed", "denied"}
    /\ op.kind \in Kind \cup {"none", "end"} /\ op.todo \in Seq(Steps) /\ op.at \in At
    /\ op.key \in Key \cup {NoKey} /\ op.permit \in {"none", "match", "mismatch"}
    /\ lock \in {"free", "op", "warm", "worker"}
    /\ starts \in 0..MaxStarts /\ live \subseteq 1..starts
    /\ driver \in 0..starts /\ pid \in 0..starts
    /\ stray \subseteq 1..starts /\ flight.proc \in 0..starts
    /\ flight.step \in {"off", "start", "check"} /\ flight.prompt \in {"no", "first", "last"}
    /\ warm.step \in {"off", "lock", "verify", "start", "install"}
    /\ \A w \in Worker : worker[w].job \in Job \cup {"none"}
    /\ begin.step \in {"off", "insert", "bump", "reset"} /\ ending \subseteq Nat

\* The Stop has invalidated the epoch and has not emptied the slot yet.
BeforeTake(w) == worker[w].step \in {"drain", "kill", "take", "stopping"}

\* Processes that are nobody's driver: the permission probe's own, which is
\* asked for the permissions of the Mac alone, and those of failed starts,
\* which nobody can ask for anything.
Helpers == {flight.proc} \cup stray
Drivers == live \ Helpers

\* A Stop ends the driver (stop_inner). A process started beside it, by
\* driver_call or prewarm_driver past their last check, is found in the slot by
\* that Stop or the next: whatever driver runs was started for the present
\* epoch, or a Stop that ends it is under way. Only a shutdown that gave up
\* waiting may leave one. A Stop does not end the process of a permission probe
\* nor that of a failed start: those end by themselves.
StoppedDriverEnds ==
    left \/ \A p \in Drivers : born[p] = epoch \/ \E w \in Worker : BeforeTake(w)

\* Two drivers never operate the Mac at once (the mutex around the driver):
\* nobody starts one before the last has ended. Other processes of the same
\* helper may run beside it, the permission probe's (read_permission_probe
\* takes no part in the mutex) and those of starts that failed halfway; neither
\* is ever in the slot that actions go through, nor under the pid a Stop kills.
OneDriver ==
    /\ \A p, q \in Drivers : p = q
    /\ driver # 0 => driver \notin Helpers
    /\ pid # 0 => pid \notin Helpers

\* No task is attended while a cleanup is past its decision (begin_run_lease
\* reads the counter again under the lock of attended_runs): the cleanup would
\* take the lease, the target and the approvals of a task just begun.
NoRunWhileCleaning ==
    /\ \A w \in Worker : worker[w].step \in Stopping \ {"clear"} => runs = {}
    /\ On("clean", "start") => runs = {}

\* The authorization of an app ends with the task it was given in
\* (ensure_app_authorized adds a key after an await and takes it back when a
\* newer run began): while a task runs, every app allowed was allowed in it. A
\* task about to reset the set, and an answer about to be taken back, excepted.
AuthOfTask ==
    runs # {} => \A k \in auth :
        \/ givenIn[k] = task
        \/ begin.step \in {"bump", "reset"}
        \/ op.key = k /\ (On("authorize", "settle") \/ On("keep", "start"))

\* A screenshot taken before a Stop is not kept for actions after it (capture
\* compares epochs under the lock of the target): a captured target belongs to
\* the present epoch, or a Stop is about to forget it.
CaptureOfEpoch ==
    target.captured =>
        \/ target.epoch = epoch
        \/ \E w \in Worker : BeforeTake(w) \/ worker[w].step = "forget"

\* Once a revocation has ended (set_grant, then stop_inner), no action of the
\* agent that was under way reaches the driver: it was checked before the grant
\* went, so the epoch, the last thing driver_call looks at, is not its own. The
\* lookup of a remote approval does not ask for the grant.
ActsGranted ==
    [][OnTool("send") /\ op'.at = "call" /\ op.kind # "remote" =>
           grant \/ \E w \in Worker : worker[w].job = "revoke"
                                      /\ worker[w].step \in {"enter", "clear", "bump"}]_vars
==============================================================================
