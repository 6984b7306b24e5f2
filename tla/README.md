# Verification of the desktop app's core protocols

This directory models the parts of the program in which several actors share
state and a test reaches few of the orders in which they act: the agent runtime,
the companion (the phone's access to the desktop), the routines scheduler,
computer use (an agent operating other apps through a driver process) and the
transcription of saved recordings.
TLC checks the models on small instances, and TLAPS proves what matters most of
them for every value of the constants. Paths below are relative to `src/`;
`api.rs`, `host.rs` and `repository.rs` are those of
`src-tauri/src/agent_runtime/`.

1. [Inventory](#1-inventory)
2. [Modules and how they correspond to the code](#2-modules-and-how-they-correspond-to-the-code)
3. [Runs](#3-runs)
4. [Fairness](#4-fairness)
5. [Proofs](#5-proofs)
6. [What the runs found](#6-what-the-runs-found)
7. [What is not modelled](#7-what-is-not-modelled)
8. [Plan](#8-plan)

To check everything: `tlc -config <cfg> <module>` for each run of section 3 and
`tlapm <module>` for the eight modules named `...Proofs`.

## 1. Inventory

The program is a Tauri desktop app (Rust, `src-tauri/`) with a web frontend
(`src/`), a Node sidecar that runs the language-model agent (`agent-runtime/`),
and a cloud API (`clovy-api/`). The desktop keeps its state in one SQLite
database. Its concurrency is that of tokio: commands of the window, tasks spawned
at start, and callbacks interleave at every `await`.

### The core: what is modelled

**Agent runtime** (`api.rs`, `host.rs`, `repository.rs`, `agent-runtime/src/service.ts`,
`transport.ts`, `sdk-engine.ts`).
State: rows of `agent_sessions`, `agent_runs` and `agent_items`; the host's current
process, the runs it owns and the requests it awaits; the sidecar's `activeRuns` and
per-run event sequence. Operations: start, retry, cancel a run; answer a card (an
approval, a clarification or a secret); time out a request; read an event from
the sidecar; settle the runs of a process that died; reconcile after a restart.
Interaction: JSON lines over pipes in both directions, with one stdout reader per
process; every command awaits between its statements. Hard: `update_run_status`
is two statements without a transaction; events of one pause are persisted one
by one; a request may time out, and its process be killed, after it was executed;
the app may stop anywhere. Correct if: an ended run stays ended; the decision on a card
reaches an engine at most once; a waiting run is idle and a card that is pending can be
answered; two runs never share a session; whatever dies is settled.

**Companion** (`src-tauri/src/companion/`, parts of `db/repositories.rs`,
`os_accounts.rs`, and `src/lib/companion-frontend-router.ts`).
State: linked devices and rows of `companion_operations`; the account-activity
counter; registered senders and operations that are in the window; pairings; the relay
task. Operations: serve one request of the phone (look up, reserve, dispatch here or
to the window, save, answer), pair, revoke, sign out, sign in. Interaction: an
encrypted channel over a relay, events to and commands of the window, and a barrier
that sign-out waits for. Hard: answers are lost and requests repeated; the window
answers late; rows are pruned while others are unresolved; sign-out races pairing
and the relay. Correct if: a mutation is executed at most once and the phone is
told one true outcome; the counter is exact; at sign-out nobody is past the barrier.

**Routines** (`src-tauri/src/routines.rs`).
State: the routine's row with its claim and its next time; `routine_runs`; the agent
run each maps to. Operations: tick, manual and connector triggers, `start_claim` and its
failures, projection of the agent run's status, pause, resume, update, delete,
`reconcile_after_restart`. Interaction: one scheduler task, commands and the event
reader share the rows, and the agent runtime executes the run. Hard: a claim must
outlive a crash but not its run; the start may fail after the sidecar accepted it;
five separate writes reconcile a restart while commands are served. Correct if: a routine has one
run at a time, counts each once, serves each occurrence, gets its claim back, and a
waiting run survives a restart.

**Computer use** (`src-tauri/src/computer_use.rs`).
State: the driver process behind an async mutex, and its pid beside it; an epoch that every
Stop bumps; the attended runs with the generation every new one bumps; the grant; the
apps authorized for the present task; the approval waiting for the user; the selected
window with its screenshot; a count of cleanups under way; the permission probe in flight. Operations: the actions of an agent
(look, focus, open, act, list), the lookup of a remote approval, the cleanup after the last
attended run, the prewarm task, begin and end of an attended run, the commands stop, grant,
permissions and status, and the shutdown of the app. Interaction: one action at a time
under `operation`, but Stops, grants, status probes, the prewarm task and the window run
beside it, and each action awaits many times between what it checks and what it does. The probe starts processes of
the driver's program outside the mutex, and a start may fail after its process is up. Hard:
what was checked before an await is stale after it (the epoch, the generation, the grant); a
driver may be starting while a Stop finds no driver; a user may answer long after the task ended.
Correct if: a Stop ends the driver and whatever was seen before it, one driver operates the Mac at a time,
authorizations end with their task, nothing of the agent reaches the driver after a revocation.

**Saved-audio transcription** (`src-tauri/src/domain/processing.rs`,
`domain/processing_queue.rs`, parts of `commands.rs` and `db/repositories.rs`, ADR 0026).
State: the entry of a note in the process-wide map of queues, with its lock and pending count; the
rows of `note_transcription_jobs`, one per span of audio; the rows of `transcripts`, which are what
the user sees; the note's `processing_status`; the start-up repair. Operations: ask for a pass
(first processing, retry or recovery), take the lock, plan the spans, reconcile the ledger and the
text with the plan, claim a job, ask the provider, persist its answer or failure, fall back to
the whole source, generate the note, finish; edit what the fingerprint covers, also during a pass; restart and repair.
Interaction: the sources of a recording are transcribed in parallel, each writing to the ledger;
passes of one note queue; the repair runs once a process, before commands that need it. Hard: an
entry is pruned while its lock is held; a plan may change between two passes; rows of older plans
stay visible as last known good text; the write of a failure may itself fail; the language and the provider are
read once for the fingerprint and again for each request. Correct if: one pass at a time;
jobs that run have a request; the ledger tells the truth about the text; text is never lost
to a failure; a note does not stay at work.

### The rest of the system

| Component | State and operations | What is hard, what makes it correct |
|---|---|---|
| Agent transcript (`repository.rs`: `append_item`, deltas, compaction) | items ordered by sequence, `last_sequence` | resumes reset the sequence and a new process restarts it; compaction replaces items computed from a snapshot. No item lost or doubled |
| Dictation (`dictation.rs`, ADR 0049) | takes, a processing claim, a delivery claim | cancel races delivery; the result of an older take is not delivered |
| Audio capture (`audio/`) | buffers and turns | mostly signal processing; the drain of the capture buffer |
| Shutdown and note-save flush (`shutdown.rs`, `note_save_flush.rs`) | exit decision, bounded cleanup, flush acknowledgements | a cleanup outlives its bound; a late acknowledgement of an older flush |
| Connector triggers (`connectors/triggers.rs`) | cursors, wake-ups | wake-up before the cursor is written: an event twice or never |
| Connector approvals (`connectors/approvals.rs`) | parked approvals with a timeout | the timeout races the answer |
| Connectors (`connectors/`: OAuth, store, policy, providers) | tokens | two refreshes of one token |
| API metering (`clovy-api/crates/services/src/charge_flow.rs`, `video.rs`, `image.rs`, `share.rs`) | holds and charges | a release that fails, an asynchronous settlement that is lost |
| API companion relay (`clovy-api/crates/api/src/handlers/companion.rs`) | grants, connections per device | a reconnect replaces a connection whose cleanup is still to run |
| Accounts (`os_accounts.rs`, `credential_compat.rs`) | tokens | sign-out is part of the Companion module |
| Browser broker, extension host (`browser_broker.rs`, `extension_host.rs`) | request tables over platform services | answers to requests that timed out |
| Meeting detection | a timed state machine over platform signals | debouncing |
| Updates, MCP server, usage statistics, files and media of the companion, schema migrations, the frontend | little shared state of their own | |

`PROJECT.json` lists each with its status, and under `hazards` the lines where the
code is exposed, with the properties that watch them. Hazards the models reach and
that the code does not exclude are in section 6; those of parts no module covers are in the table above.

## 2. Modules and how they correspond to the code

| Module | What it is |
|---|---|
| `ApprovalLedger` | abstract: what the app promises about its cards |
| `AgentRuns` | runs, cards, host tasks, readers and sidecar processes; implements `ApprovalLedger` |
| `AgentRunsProofs` | theorems about `AgentRuns` |
| `AgentLedgerProofs` | that `AgentRuns` implements `ApprovalLedger`; that a run's first leg is owned by the process that executes it; whose turn a run is |
| `OperationLedger` | abstract: what the companion promises for an operation id |
| `Companion` | relay task, window, rows, pairing, sign-out; implements `OperationLedger` |
| `CompanionProofs` | theorems about `Companion`: the sign-out barrier |
| `CompanionLedgerProofs` | types, reservations, and that `Companion` implements `OperationLedger` |
| `Routines` | one routine, its executions, its scheduler and its restarts |
| `RoutinesProofs` | theorems about `Routines` |
| `ComputerUse` | the broker of computer use: operations, Stops, attended runs, the driver |
| `ComputerUseProofs` | theorems about `ComputerUse` |
| `Transcription` | the passes of one note: its queue, the job ledger, the text, restarts |
| `TranscriptionProofs` | theorems about `Transcription`: types, passes, requests |
| `TranscriptionTextProofs` | theorems about the text of `Transcription` |
| `MCAgentRuns`, `MCCompanion`, `MCRoutines`, `MCComputerUse`, `MCTranscription` | constants of the instances TLC checks |

An action is one step between two `await`s at which something else may run: one
SQLite statement or transaction, one message, one change under a lock. Each command
or task is a program counter (`task`, `relay`, `pair`, `logout`, `start`, `sched`,
`boot`), and its actions are named for the call they stand for. Definitions whose
comment begins with "Faulty variant" are not part of the models: each is a
plausible mistake that one of the checked properties must notice.

**AgentRuns.** `runStatus`, `sessStatus`, `card`, `saved` and `lastSeq` are the columns the protocol
reads. `inner`, `owned` and `reader` are the host; `inbox` and `outbox` are the
pipes of each process, read in order; `engine` is the sidecar's entry in
`activeRuns`. Statuses written by `update_run_status` take two steps, the run and then its
session, and only from a status that is not terminal. A card's identity is its call id; a
paused engine lists the cards its serialized state leaves open, and a resume names
one of them. `seq` counts interruption events only, which is all that
`append_item` compares for cards. The history variable `bundled` holds the runs an engine has stopped on several
cards at once, as the sidecar does when one step of the agent asks for several approvals (`service.ts:284`,
`sdk-engine.ts:415`); it only serves the properties. Ids of runs and cards are given in advance
(UUIDs in the code). Starting a process is one step: its handshake is not split.

**Companion.** One account and one phone, because one task serves one request at
a time. The relay task's steps follow `reconnect_loop`, `connect_once`,
`receive_envelope`, `dispatch` and `dispatch_request`. Bodies are told apart by who
executes them and answers by whether they are final. `accept_sequence` never
refuses in the model, since the encrypted session delivers each frame once and in order;
`inflight_operations` is never contended, since one task serves. `history`
is the order of `created_at, rowid` that pruning goes by. The window takes a request
through `emitted`, `queued`, `taken` and `acted` in its own time, also after the relay
task stopped waiting. "At most once" holds within the caps the documentation gives: a completed
row beyond the cap is pruned, so the instances keep `MaxCompleted` at the number
of operations where `OneOutcome` is checked.

**Routines.** One recurring routine; its `state` and `enabled`, always asked for together,
are `open` or `closed`. A claim stands for its token, its `routine_runs` row and the
agent run made for it. `agent` and `engine` are an abstraction of `AgentRuns` with its
pauses, ends, resumes, lost and refused requests, and the status write with which a resuming command ends.
`mark` is the projection the reader still has to write. Completed, cancelled and failed are
one value, `ended`; `interrupted` stays apart because reconciliation writes it. The lease of a
queued claim is the step `Ages`. `early` is the set of runs begun while
`reconcile_after_restart` is under way, or resumed while it is or before their own
`start_claim` returned; the properties that except them say so.

**ComputerUse.** `session` is the state of attended runs, `process` that of the driver, `lock` the
holder of the async mutex around it. The one operation in progress is a record `op` with the rest of
its plan in `todo`, a sequence of step names: `Plan` gives the sequence of checks and driver
calls each action makes, and each step name has its actions. A driver call is five of
them (`CallCheck`, `CallLock`, `CallSpawn`, `CallSend`, `CallReturns` or `CallFails`), since
`driver_call` awaits the lock, the start of the process and the reply, and checks the epoch and the attended
run in between. A check reads all it compares in one step; the locks it takes in the code are not
held over an await. Commands in flight are `worker` records; `stop_inner` is the steps `enter`, `clear`,
`bump`, `drain`, `kill`, `take`, `stopping`, `forget`, `leave`. `born` gives the epoch a process
was started in, `task` and `givenIn` the task under way and the one each authorization was given in: they
only serve the properties. Processes are numbered as they start; `flight` is the permission probe in flight
(`PermissionProbeCoordinator::run`) with its own process, `stray` the processes of starts that failed half way, which end by
themselves when nobody connects (`computer_use_driver.rs:160`). Commands that need a probe join the one in flight (`ProbeAsk`,
`Told`). What the driver returns, the choice of window and the validation of arguments
are "it may fail here". The action "wait" changes no state and is left out.

**Transcription.** One note with one recording. A span is a turn of a source or the whole source
(`Fallback`), and stands for its job id, which the code hashes from the recording and the span. The ledger keeps
for each its status, the configuration fingerprint and the turn index. Of what a fingerprint covers, `words` are the title
and the dictionary, which a pass reads once and sends as it read them, and `route` the language and the provider, which are read for the
plan (`Setup`, `Reconcile`), by each request (`Claim`) and by each attempt of it (`Answer`). A row carries what its text was really made from, and
whether the route was changed while its pass was asking (`crossed`): both only serve the properties. A row of `rows` is a
transcript: where the note shows it, and the jobs whose `transcript_id` names it. A pass runs `queued`, `setup`, `plan`, `stream`,
`fallback`, `judge`, `generate` or `failing`, `finish`, `unlock`; `lane` is the span each
source has under way, from claim to persistence. `Planned` and `Projected` are the two halves of
`reconcile_note_transcription_jobs` (the jobs, then the text), `Success` is the transaction of a provider's
answer. `Plans` is the set of plans that turn detection may return: it depends on the audio and settings, so a
later pass may find fewer turns or other places. A queue is named for the pass that made it; `pending` is
computed from the passes that joined it and have not finished. `stranded` remembers
the jobs whose last write failed, which the code leaves `running` until a restart.

## 3. Runs

Every instance bounds what grows: processes, restarts, crashes, sends, sign-outs,
pairing commands and claims. The guards name the bounds. `CHECK_DEADLOCK` is off
because a system whose bounds are used up or whose work is done may stop.

| Run | Instance | What it shows |
|---|---|---|
| `pause` | 1 run, 2 cards, 2 processes; a run that was stopped on both cards at once is followed through the first process, to any end it comes there (`OneProcessForMany`); a second run of the session, not cancelled, as long as there is one process and no card (`OneProcessForTwo`) | `TypeOK`; only the current process lives (`LiveRuntimeIsCurrent`); a waiting run executes nowhere (`PausedRunIsIdle`) and has not lost a decision (`NoSwallowedDecision`), unless it was stopped on several cards, where both fail (section 6); a resume names an open card, also of several (`ResumeNamesOpenCard`); the process that executes a run's first leg owns it (`FirstLegIsOwned`) although requests of two runs interleave; the cards implement `ApprovalLedger` (`DecisionLedger`): at most one application of a decision |
| `restart` | 1 run, 1 card, 2 processes, 1 restart of the app, fairness | `TerminalIsFinal` across restarts; every command ends (`CommandsFinish`); what a dead process owned is settled (`DeadRuntimeSettles`) |
| `second_run` | 2 runs of one session, 1 process | violated: `OneActiveRun` |
| `late_write` | 1 run, 2 cards, 1 process | violated: `PendingCardResumable` |
| `operations` | a window mutation, a desktop mutation and a read, 2 sends each, 2 crashes, 1 reservation | `OneOutcome` (`OperationLedger`) and `FinalAnswersAgree`: one execution, one true final answer, also when a late answer of the window meets the next request; `TypeOK` |
| `cap` | a window, a desktop and a revoking operation, 1 completed row, 2 reservations | pruning and refusals spare the reservations of others (`OthersSpareReservations`) |
| `sign_out` | 1 window operation, 2 sign-outs, 2 pairing commands, 1 crash, fairness | `ActivityIsHeld`: the barrier's counter is exact; `SignOutIsQuiet`, `SignedOutHoldsNothing`; requests and sign-outs end |
| `routines` | 2 claims, repeat 2, 2 restarts | `SingleFlight`, `ActiveHoldsClaim`, `CountedOnce`, `OccurrenceServed`, `WaitingSurvives`, `TypeOK` |
| `claims_end` | 1 claim, repeat 2, 2 restarts, fairness | a routine gets its claim back (`ClaimsEnd`) |
| `overwritten` | 2 claims, 1 restart | violated: `EndedAgentRunStays` |
| `computer_use` | every action and command, 1 app, 1 session, 2 operations, 2 commands one after the other, 2 tasks, 3 processes, bounded together by `Budget` | `StoppedDriverEnds`: a driver started beside a Stop is ended by it or the next; `OneDriver`: one driver at a time, never mixed up with the processes of permission probes and of failed starts beside it; `NoRunWhileCleaning`: no lease under a cleanup; `AuthOfTask`: an authorization ends with its task, also when the user answers late; `CaptureOfEpoch`: no screenshot outlives a Stop; `ActsGranted`: no action under way outlives a revocation; `TypeOK` |
| `transcription` | 2 sources, 3 turns, 1 fallback, 2 plans, 2 passes, 2 words and 2 routes, 1 change of the settings, 1 restart, 1 failed write, fairness | `OnePass`; `RequestsHoldJobs`: jobs that run and requests match; `CertifiedText`: a succeeded job has its text; `GeneratesFromPlan`: nothing planned is left when the note is generated, from text of its fingerprint (both as far as the code keeps to the fingerprint, section 6); `TextStays`: a source does not lose its text to a failure; the note settles (`NoteSettles`); `TypeOK` |

Why the bounds are enough for the cases meant: the races of `AgentRuns` need a second process (a
timeout kills the first while its output is still unread) and a second card (answered
while the first one's command is ending), and not a third of either. Those of
`Companion` need an operation sent again after its answer was lost, and a crash both before and
after the repetition; two operations suffice for one to prune or crowd out another,
and the third shows a revocation or a read in between. Those of `Routines` need a second claim to
overlap the first, and a second restart to interrupt the reconciliation of
the first. A stale check of `ComputerUse` needs one operation and one command or one new task in
between; a second operation meets what the first left, a second command the first one's driver; a second
process is one that a Stop, a failure, the prewarm task or a probe lets start, and a third runs beside these two or follows the first of a probe. All of these at once are beyond
TLC, so `Budget` (a constraint) lets a behaviour begin three operations, commands and tasks together, and
five of these and of processes, which every faulty variant needs at most; the theorems have no such bound, and they hold for any number of commands at once. Those of
`Transcription` need a second pass that waits, retries or finds other turns, two sources to interleave, and a setting that changes in the first pass, between the two or in the second;
a third pass is left to the theorem `OnePassAtATime`.

Symmetry is used once, for the cards of `pause`. Its second run is kept apart from cards, second
processes and cancels of its own (the constraint `OneProcessForTwo`), since all at once are beyond TLC and a first
leg is over at its first card. A run that was stopped on several cards at once is followed in the first process only
(`OneProcessForMany`), where its answers race, the second resume is refused, and it pauses again, ends or dies;
`PausedRunIsIdle` and `NoSwallowedDecision` do not speak of such a run (`bundled`), for the reason given in
section 6, and `ResumeNamesOpenCard` only while there was one process. The refinement and `FirstLegIsOwned` are
proved for any number of cards in a pause.

## 4. Fairness

- `AgentRuns!Fairness`: weak fairness of the steps of every command and of every
  reader, because tokio polls what is ready and a request waits no longer than
  its timeout (`await_runtime_response`); strong fairness of `CancelCommit`, which needs
  several card locks at once, because tokio's mutexes serve in order. Nothing is
  assumed of the sidecar, of the user, or of when the app stops.
- `Companion!Fairness`: weak fairness of the request being served, which
  `FRONTEND_TIMEOUT` and the I/O timeouts bound, and of the sign-out, whose steps are bounded by
  `ACCOUNT_ACTIVITY_SHUTDOWN_TIMEOUT` and the bound of `transport::stop`. Nothing is assumed of the
  window, the phone, the network or the user.
- `Routines!Fairness`: weak fairness of the scheduler's task (a loop with a sleep),
  of the lease running out, of `start_claim` (its requests have timeouts) and of the
  reader's projection. Nothing is assumed of the engine or the user.
- `Transcription!FairSpec`: weak fairness of the start-up repair (the window asks for it when it
  opens), of taking the lock (tokio's mutex serves in order) and of a pass's own steps (its requests
  have timeouts). Nothing is assumed of the user, the provider's verdict, or of when the app stops.
- `ComputerUse`: its run checks safety only, and the module states no fairness.

## 5. Proofs

All theorems hold for every value of the constants that satisfies `ConstAssumption`
of the module (identities are distinct from the null value, bounds are natural
numbers). `RunsCountOnce` and `LinkedPhoneHasLedger` also need a set to be finite and say so;
two theorems of `CompanionLedgerProofs` have hypotheses on the behaviour, explained below; those about the text of
a note use `PlanAssumption`: a plan numbers its turns one by one and has one
fallback for a source (`audio/turns.rs:209`, `308`, `processing.rs:2383`).

**AgentRunsProofs.** `TypeCorrect` proves `TypeOK`. It is not inductive alone:
the reader appends a card from the frame at the head of its pipe, so the proof
adds that a reader past its first stage holds an event (`ReaderHoldsEvent`).
`OneLiveRuntime` proves `LiveRuntimeIsCurrent` from the steps
that start, kill or forget a process: the host forgets a process only in a step that
kills it or after its death. `EndedRunsStayEnded` proves `TerminalIsFinal`. Most writes test the status
they replace; `CreateRun` does not, so the proof needs that the run
of a command that is about to create it has no row yet (`CheckedIsNew`). The theorem is about runs no
routine maps to: those of routines are the subject of `overwritten` below.

**CompanionProofs.** `CountInv` is the counting invariant behind `ActivityIsExact`:
types, finiteness of the operations in the window, and that the counter equals the
number of its holders; each step is shown to add or take exactly one holder.
`ShutInv` builds on it: a sign-out past its draining step found the counter at zero, hence no
relay work and no pairing past the barrier, and a disabled transport lets none begin.
From the two follow `SignOutFindsQuiet`, `SignOutLeavesNothing`, `GivingUpReenables` (a transport
is disabled only by a sign-out that goes on or succeeded) and `SendersHaveWaiters` (a registered sender
belongs to the request being served); no run repeats the last two.

**CompanionLedgerProofs.** `TypeCorrect` adds to `CountInv` the types of what is not counted (`Uncounted`).
`ReservationsAreSpared` follows the writes that touch rows of other operations, the pruning.
`OperationsAreLedger` proves the refinement `OneOutcome` from `OutcomeInv`, an account of each mutation: a row tells the truth
about what was executed (`RowTrue`); an operation whose row is missing was never executed nor answered, or its phone is gone
(`RowMissing`); what the relay task holds of the request it serves agrees with the row and the window (`Served`); and
a request the window may still execute was not executed before, nor told to have been (`Executed`).
Each step is one of the ledger or a stutter (`LedgerNext`). The refinement does not hold of every behaviour, and should
not: an operation whose row was pruned is executed again when it is retried, which the documentation allows beyond
the cap; and a phone that is revoked and paired anew while an operation is served asks again with no row
left. The theorem names both as hypotheses on the steps (`RowsKept`, `LinkedFirst`); without either one TLC
finds a counterexample. `LinkedPhoneHasLedger` shows that they hold by themselves where the operations
fit under the cap and no phone is paired anew, as in the run `operations`. `FinalAnswersNeverDiffer` follows from `Executed`.

**RoutinesProofs.** `TypeCorrect` proves `TypeOK`. `HeldInv` makes `ActiveHoldsClaim` inductive: a start that
wrote its failure left no active row, a claim not made yet has a blank row, and a deleted
routine has neither runs nor a claim (`ActiveRunHoldsClaim`). `RunsCountOnce`
shows that each increment of the count comes with one more run that ended and lost its
claim, by the cardinality of finite sets. `BootInv` follows the five writes
of a reconciliation that may itself be cut off by a restart: what the mirroring
write made true still holds when the next write reads it, and a row that an earlier
reconciliation left `queued` never belongs to a waiting run (`WaitingRunsSurvive`).
`OccurrencesAreServed` goes through the steps that give a claim back.
`OneRunAtATime` proves `SingleFlight` from `FlightInv`: a claim is hot when an engine works on its run, or may yet do
because a dispatch or a resume is on its way or the run waits for an answer; a hot claim has an active
row unless its routine was deleted (`Leg`), and one claim is hot at a time (`OneHot`). A claim gets hot only from a queued row, and an active
row holds the routine's claim, so there is no second one; a deleted routine makes nothing hot.

**AgentLedgerProofs.** `DecisionsReachOneEngine` proves the refinement `DecisionLedger`. The hard step is
`Apply`: the engine acts on a resume it reads from its pipe, which may be long after the host sent it. `DecisionInv(c)`
follows one decision from the claim to the engine: while a request for it is in a pipe, it is the only one, the card is answered,
nothing was applied yet, its command waits for the process of that pipe and no answer is on its way back; and a
refusal on its way back means that nothing was applied. A command takes a decision back only when it was refused or before it
sent anything, hence before it was applied. That a dead process reads nothing
(`DeadReadsNothing`) and that the process a command knows is the current one (`LiveRuntimeIsCurrent`)
close the cases of timeouts and crashes. Each operation then maps to a step of the ledger (`AppendCard` to `Ask`, `ResumeClaim` to
`Answer`, `ResumeRestore` to `TakeBack`, `CancelCommit` to `Expire`, `Handle` to `Apply`) or to a stutter.

The second part proves `FirstLegIsOwned` (`FirstLegHasOwner`). That a run has asked for no card matters only if nothing can name a card
too early: `KnownInv` says that rows, engines, messages and events name cards an engine has asked for, so no resume
reaches such a run and no event releases it for a pause. `Legs` then follows the one start of the run: it is
in one pipe or at work, never both, is never refused (so `DropOwnership` never takes the run away), and as long as it is one of the two
its process owns the run and has not written the last event. A process loses its engines when it ends (`DeadRunsNothing`), so
what `ReadEnd` takes is not at work.

The third part is about whose turn a run is, for the runs that no engine has stopped on several cards at once (`bundled`). A run is carried on by
one thing at a time (`Turn`): a start not sent yet, a start or resume in a pipe, an engine at work, a request no reader is
through with, a pending card, or a claim that may still send or take back. `TurnsOf(r)` says that there is never a second one (`OneTurn`),
and relates the turn to the rows: a waiting run's turn is a request or a card (`WaitingRun`), a usage report comes
before the requests of its pause (`ReportedRun`), an offered or answered card is open in the saved state, and in the state its command
and its message carry (`CardInv`), and a decision no engine has acted on is with its command or in a pipe (`OpenDecision`). Each step keeps the
turn or hands it on (`Leads`, `TurnNext`), so two turns in the next state would be two before, or one that leads to both. `bundled`
never shrinks, so the invariant (`Turns`) asks `TurnsOf(r)` of the runs outside it, run by run, beside others that may be in it: no
bound on the cards of a pause is assumed. From it follow `WaitingRunsAreIdle` (`PausedRunIsIdle`), `DecisionsAreNotSwallowed`
(`NoSwallowedDecision`) and `ResumesAreKnown`, the part of `ResumeNamesOpenCard` that does not depend on the bounds of `pause`.

**ComputerUseProofs.** `TypeCorrect` needs that an idle broker has no plan and that the steps of the cleanup and of the actions do not mix (`PlanOK`). `DriverInv` gives `OneDriverAtATime`
and `StopsEndTheDriver`: no process of a probe or of a failed start is under a name of a driver, be it the slot, `driver_pid` or what the
prewarm task holds (`ApartInv`), the mutex around the driver has the holder it names (`LockInv`),
what runs is the driver of the slot or what the holder has in its hands (`SlotInv`), and a process or a holder of
an older epoch has a Stop behind it that has not emptied the slot yet (`StopInv`). `WorkInv` says that an operation's epoch and
generation are not of the future and that some steps of a plan come in pairs: the task is read before eligibility is
tested, and an app is identified before its authorization is kept. With `GrantInv` (an operation of the present
epoch that passed its eligibility has a grant, or a revocation is on its way to bump the epoch) it gives
`RevocationStopsActions`. `GenInv` and `AuthInv` relate generation, task and the authorized apps while begin_run is
counting or resetting and while an answer is being taken back; they give `AuthorizationsEndWithTask`.
`CleanupHoldsNoRun` and `CaptureEndsWithEpoch` follow the counter of cleanups and the lock of the target.

**TranscriptionProofs.** `TypeCorrect` goes part by part, since most steps change the record of one pass and
at most one of its lanes (`StepIsOwn`, `StepKeepsOthers`). `OnePassAtATime` holds although entries are pruned: the
tickets that have not finished are all of the queue the entry names (`Ticketed`), so a new entry is made only when all others
finished, and a queue has one holder (`Exclusive`); a pass releases its lock only after it finished.
`OnePassAtATime` and `RequestsMatchJobs` use that a pass under way belongs to a process that was repaired, and its requests to its
stream or fallbacks (`StartInv`). The latter adds, span by span, that a lane which asked
holds a running job of its pass's fingerprint and that a running job has a lane, is stranded, or waits for the repair
(`WorkInv`); what one lane's step does to the ledger is summarised once (`LaneEffect`).

**TranscriptionTextProofs.** `CertInv` makes `CertifiedText` inductive: turns of a source that still count differ in their
place (`Apart`), a fallback that succeeded stands alone in its source (`StandsAlone`), only jobs that
succeeded name a row (`LinksDone`), and a row is shown at the source of its span (`AtSource`). So a text that arrives takes no row
of another job: such a job would be a live turn of the same index or a fallback that stands alone (`CertSuccess`); and a plan moves
each row it keeps to a place of its own (`CertReconcile`). From the same cases follows `SourcesKeepText`
(`TextStays`): a row is dropped only for one of its source. That a text is what the fingerprint
beside it says (`MadeUnder`) is not a matter of what the ledger copies: `RouteInv` follows the route from the plan through each
request and each of its attempts, and shows that one may only differ from the fingerprint where the settings were changed while the pass was asking
(`crossed`). `NoteFollowsPlan` proves `GeneratesFromPlan`: what counts in the ledger
past a plan is of the pass's fingerprint (`OfPlan`), and what is pending is in the pass's list or in the hands of
its lanes until the fallbacks are done (`LeftOver`); that nothing runs but what is stranded comes from `WorkInv`.

Only model-checked: the liveness properties (`CommandsFinish`, `DeadRuntimeSettles`, `RequestsEnd`, `SignOutEnds`, `ClaimsEnd`, `NoteSettles`), since the prover handles neither `ENABLED` nor liveness
under fairness; and, of a run that was stopped on several cards, `ResumeNamesOpenCard` within
the bounds of `pause`, beyond which it fails; `PausedRunIsIdle` and `NoSwallowedDecision` claim nothing of such a run. No module uses a recursive operator, and nothing is proved by
induction over data.

## 6. What the runs found, and what the code does not keep

- `second_run`: `start_agent_run` reads the session's status at `api.rs:666` and inserts
  the run several awaits later; `retry_agent_run` does not read it. A session gets two
  active runs although the command refuses with "This session already has an active run."
- `late_write`: a resume ends with an unconditional `update_run_status(run, "running")`
  (`api.rs:1588`). When the resumed run has paused again by then, run and session leave
  `waiting_for_user`, and no answer to the new card is accepted.
- `overwritten`: `reconcile_after_restart` interrupts the agent runs of all queued or running
  routine runs (`routines.rs:620`), those included that ended before the app stopped
  and were not projected yet, although "the agent run is the source of truth at a process boundary".

Weak spots seen in the models that have no run of their own; the behaviours are
reachable in the modules:

- A request that still holds a dead process inserts into `owned_runs` after the
  reader drained it; the error counts as ambiguous and the run waits for a reader
  that is gone, until the next restart (`host.rs:242-248`, `503`).
- `cancel_waiting_run` expires the cards that exist; a card of the same pause persisted
  later stays pending on a cancelled run (`repository.rs:944`).
- With two cards in a pause, the second card's event turns a run that was resumed with the
  first back to `waiting_for_user` while its engine works (`host.rs:965`), although `cancel_waiting_run` counts on that "Paused runs are
  no longer active in the sidecar" (`repository.rs:940`); if its process dies then,
  the decision stays resolved on a waiting run. This is why `PausedRunIsIdle` and `NoSwallowedDecision` speak of runs
  that no engine has stopped on several cards.
- No crash is needed to lose a decision. Both cards are offered; the first is answered and the engine works on it; the second
  is answered meanwhile, and the engine, which is not paused, refuses the resume. `ResumeRestore` puts nothing back because the run is running
  by then; the engine's next pause asks for the second card again, whose row stays resolved, and the run waits for a card
  nobody can answer (`NoSwallowedDecision` without the exception, one process, one run).
- The same goes on after such a pause. Both cards are answered before the first resume is handled, and the engine,
  resumed with the first, pauses again on the second, which its state still leaves open: the request read now makes the run
  `waiting_for_user` although the second resume is in the pipe, and the engine then resumes a waiting run
  (`PausedRunIsIdle` without the exception, one process, one run).
- The frames of a dead process are persisted whatever has happened since (`host.rs:443`). With three cards, two of
  them in one pause: the first is read and answered, the process dies, and a second process resumes the run and pauses on the third;
  the event of the second card, read only now, overwrites the saved state, and a resume of the third card sends a state
  that does not list it. This is why `ResumeNamesOpenCard` asks of a run stopped on several cards that there was one process.
- A pause is three writes; a stop of the app between them leaves a waiting run without a card,
  or with its session in another state (`host.rs:964`).
- Restart reconciliation runs in the scheduler's task while commands are served, and
  interrupts runs begun after the restart (`routines.rs:719`).
- An answer "outcome unknown" given from a reservation is saved as a completed
  row, and so can be pruned while the outcome is still unknown
  (`companion/transport.rs:591`), where ADR 0048 keeps unresolved reservations apart.
- A request the window has taken leaves the sign-out barrier at the relay's timeout
  (`companion/mod.rs:1016`), as a unit test pins; the window may execute it during the sign-out.
- An approval under way when its phone is revoked from the settings links
  the phone again (`companion/mod.rs:578`).
- Computer use: `ensure_app_authorized` parks its approval without looking at the epoch, so one that
  is parked after a Stop drained the approvals is shown and holds the operation up to `APPROVAL_TIMEOUT`
  (`computer_use.rs:4163`), while `docs/qa/computer-use-parity.md:32` expects a Stop to deny what is pending.
- `focus` and `open` store their target without comparing epochs under its lock, so a target (without a
  screenshot) may appear after a Stop forgot the last (`computer_use.rs:3689`); the next call refuses it.
- `driver_call` compares the epoch and asks for an attended run, but not for the task's generation
  (`computer_use.rs:2880`): an action of a task that was ended and replaced without a Stop may send one more call.
- The lookup of a remote approval may start the driver without asking for the grant; `ActsGranted` excepts it.
- A Stop clears `driver_pid` before the slot; a driver spawned in between is found in the slot, and
  killed, but `driver_pid` may keep its number (`computer_use.rs:2415`).
- Computer use: a Stop ends neither the process of a permission probe in flight nor that of a start that failed half way
  (`open -n` succeeded, the connection or the check of its owner did not; `computer_use.rs:523-559`). The first is stopped when it has answered, the second
  ends when nobody connects for 15 seconds (`computer_use_driver.rs:160`). Neither is given an action; `OneDriver` and `StoppedDriverEnds`
  are about the others.
- Transcription: text may stand under a fingerprint it was not made under. The language goes into the fingerprint when the plan is made
  (`domain/processing.rs:226`) and the provider when the pass begins (`1129`), but each request reads the language anew (`2513`) and each attempt the
  provider and the model (`clovy_api.rs:384`, `389`). If one is changed while a pass is asking, its later requests are made the new way under the old
  fingerprint; the note mixes languages, and a retry after the setting was changed back takes that text for its own, where ADR 0026 says "Cached text is
  invalidated deliberately when any output-affecting input changes". TLC finds it when `MadeUnder` drops `crossed`: set up, change the route,
  plan, ask, generate, with one pass and no fault. The properties therefore except text whose pass saw such a change, and only that.
  The model is in no fingerprint at all, so a change of it never invalidates a text; the specification leaves it out.
- Transcription: a turn that succeeds takes the place of the row at its source and turn index, also when
  that row is last known good text of another span (a fallback carries the index of the first turn);
  ADR 0026 keeps such a row visible until the whole source is transcribed (`db/repositories.rs:5084`).
- Passes of a note are served in the order they reach the lock, which is that of their validation and
  spawning and not of the recordings (`processing_queue.rs:9-11` says "in order").
- When the write that marks a job failed fails too, the job stays `running`, and each retry is told that it is
  already being transcribed, until a restart repairs it (`domain/processing.rs:3476`).
- A fallback that is stranded like this does not stop a later pass from succeeding; `GeneratesFromPlan` excepts stranded jobs.
- The title is part of the configuration fingerprint and generating the note may change the title, so
  a retry of a generated note may transcribe everything again (`domain/processing.rs:219`).

## 7. What is not modelled

In the modelled components: transcript items other than cards, compaction, skills, tools
and their results; the handshake of a new sidecar process; secrets and their storage. In the
companion: deltas and published events, reads the window answers, remote approvals of
computer use, the encrypted handshake, the fallback for oversized answers, the seven-day expiry of
rows, several phones or accounts. In routines: one-shot schedules, edits of the repeat
count, browser grants, and transient errors of single statements other than those
the code expects to fail. In computer use: the content of what the driver sees, matching of windows and names,
the update and signature of the driver, `wait`, the browser broker. In transcription: the model a provider runs, a second recording of the note in
the same queue, live preview, the text of the generated note, and database errors other than
those of persisting an answer or its failure: a read that fails after the note was shown at work leaves
it at work until a restart.

The components of section 1 that no module covers are listed in `PROJECT.json` with
the reason. Most are planned (section 8); the others are I/O, signal processing, or
single-threaded shaping of data.

## 8. Plan

The order so far put the agent runtime first, as everything else starts runs; then the companion,
the second writer to the same state; then routines, which build on the agent run's status; then computer use and
transcription, which are cores of their own.

Next modules, in order:

1. `Shutdown` with the note-save flush: exit decision, bounded cleanup, late
   acknowledgements; composed with the shutdown step of `ComputerUse`. Bounds: two attempts, two flushes.
2. `Dictation`: takes, the processing claim, the delivery claim against cancel. Bounds: two takes.
3. `Metering`: holds, release, asynchronous settlement. Bounds: two requests, one failure each.
4. `AgentTranscript`: sequence guard, coalesced deltas, compaction against a running run;
   abstract specification: the transcript is the sequence of emitted items.
5. The handshake of `ensure_started` split in `AgentRuns`, with `discard_failed_start`.
6. `ConnectorTriggers` (cursor against wake-up, composed with `Routines!Trigger`), `CompanionRelay`,
   a second recording in `Transcription`.

Theorems next: what holds of a run with several open cards once the weak spots of section 6 are settled in the code; the safety
invariants of the new modules.
