---------------------------- MODULE RoutinesProofs ----------------------------
(***************************************************************************)
(* Proofs about Routines, for any set of claims, any number of repeats and *)
(* any number of restarts.                                                 *)
(*                                                                         *)
(* Types come first. ActiveHoldsClaim is inductive once the failure path   *)
(* of start_claim is known to have closed the routine's row before it lets *)
(* the claim go (FailedRunIsOver). CountedOnce adds that a claim not yet   *)
(* made has no row and that a deleted routine has no claim. That a waiting *)
(* run survives a restart rests on what the restart reconciliation finds:  *)
(* nothing works for the runs it is about (BootIsQuiet), so what the first *)
(* write has mirrored still holds when the second one reads it.            *)
(* SingleFlight adds what start_claim, the runtime and the rows know of    *)
(* one claim (Leg): what is at work, or may yet be, has an active row.     *)
(***************************************************************************)
EXTENDS Routines, FiniteSetTheorems, TLAPS

-----------------------------------------------------------------------------
(* Types *)

\* The part of TypeOK the routine's own rows make up.
RowsOK ==
    /\ routine \in [state : State, next : Time, token : Claim \cup {NoClaim}, done : Nat]
    /\ run \in [Claim -> Status]
    /\ mapped \in [Claim -> BOOLEAN]
    /\ old \subseteq Claim

\* Giving a claim back keeps the routine's row a row.
LEMMA ReleaseTypes ==
    ASSUME TypeOK, NEW now, ReleaseTerminal(now)
    PROVE  routine' \in [state : State, next : Time, token : Claim \cup {NoClaim},
                         done : Nat]
<1> DEFINE st == IF Finished THEN "closed" ELSE routine.state
           nx == IF routine.state = "open" /\ ~Finished THEN "later" ELSE "none"
<1>1. st \in State /\ nx \in Time /\ routine.done + 1 \in Nat
  BY DEF TypeOK, State, Time, Finished
<1>2. Released = [routine EXCEPT !.done = routine.done + 1, !.token = NoClaim,
                                 !.state = st, !.next = nx]
  BY DEF Released
<1> HIDE DEF st, nx
<1>3. Released \in [state : State, next : Time, token : Claim \cup {NoClaim}, done : Nat]
  BY <1>1, <1>2 DEF TypeOK
<1> QED  BY <1>3 DEF ReleaseTerminal, TypeOK

\* What a reconciliation writes is typed.
LEMMA ReconcileTypes ==
    ASSUME TypeOK, Reconcile
    PROVE  RowsOK'
<1>1. run' \in [Claim -> Status]
  BY DEF TypeOK, Reconcile, Status, Active, Terminal
<1>2. old' \subseteq Claim /\ mapped' \in [Claim -> BOOLEAN]
  BY DEF TypeOK, Reconcile
<1>3. routine' \in [state : State, next : Time, token : Claim \cup {NoClaim}, done : Nat]
  BY ReleaseTypes DEF Reconcile
<1> QED  BY <1>1, <1>2, <1>3 DEF RowsOK

\* What a new claim writes is typed.
LEMMA TakeTypes ==
    ASSUME TypeOK, NEW c \in Claim, Take(c)
    PROVE  /\ RowsOK' /\ agent' = agent /\ boot' = boot /\ runtime' = runtime
           /\ restarts' = restarts
           /\ start' \in [Claim -> Step] /\ early' \subseteq Claim
  BY DEF TypeOK, Take, RowsOK, Status, Active, Step

\* Every step of start_claim keeps the types.
LEMMA StartTypes ==
    ASSUME TypeOK, NEW c \in Claim, StartStep(c)
    PROVE  TypeOK'
<1>1. \A step \in Step : [start EXCEPT ![c] = step] \in [Claim -> Step]
  BY DEF TypeOK
<1>2. "over" \in Step /\ "failing" \in Step /\ "created" \in Step /\ "attached" \in Step
      /\ "sent" \in Step /\ "failed_agent" \in Step /\ "failed_run" \in Step
  BY DEF Step
<1> USE DEF TypeOK, rows, runtime, extra, Goes, Status, Active, Terminal
<1>3. CASE NoWorkspace(c)    BY <1>1, <1>2, <1>3 DEF NoWorkspace, Returns
<1>4. CASE CreateAgentRun(c) BY <1>1, <1>2, <1>4 DEF CreateAgentRun
<1>5. CASE Attach(c)
  <2>1. CASE run[c] = "queued"
    <3>1. run' \in [Claim -> Status]  BY <1>5, <2>1 DEF Attach
    <3>2. mapped' \in [Claim -> BOOLEAN]  BY <1>5, <2>1 DEF Attach
    <3>3. old' \subseteq Claim  BY <1>5, <2>1 DEF Attach
    <3>4. start' \in [Claim -> Step]  BY <1>1, <1>2, <1>5, <2>1 DEF Attach
    <3> QED  BY <3>1, <3>2, <3>3, <3>4, <1>5 DEF Attach
  <2>2. CASE run[c] # "queued"  BY <1>1, <1>2, <1>5, <2>2 DEF Attach
  <2> QED  BY <2>1, <2>2
<1>6. CASE PrepareFails(c)   BY <1>1, <1>2, <1>6 DEF PrepareFails
<1>7. CASE Dispatch(c)       BY <1>1, <1>2, <1>7 DEF Dispatch
<1>8. CASE Dispatched(c)     BY <1>1, <1>2, <1>8 DEF Dispatched, Returns
<1>9. CASE DispatchLost(c)   BY <1>1, <1>2, <1>9 DEF DispatchLost
<1>10. CASE FailAgentRun(c)  BY <1>1, <1>2, <1>10 DEF FailAgentRun
<1>11. CASE FailRun(c)       BY <1>1, <1>2, <1>11 DEF FailRun
<1>12. CASE GiveUp(c)
  <2>1. routine' \in [state : State, next : Time, token : Claim \cup {NoClaim}, done : Nat]
    BY <1>12 DEF GiveUp, Time
  <2> QED  BY <1>1, <1>2, <1>12, <2>1 DEF GiveUp, Returns
<1> QED  BY <1>3, <1>4, <1>5, <1>6, <1>7, <1>8, <1>9, <1>10, <1>11, <1>12 DEF StartStep

\* The projection of one run keeps the types.
LEMMA ProjectTypes ==
    ASSUME TypeOK, NEW c \in Claim, NEW status \in Status, Project(c, status)
    PROVE  /\ run' \in [Claim -> Status]
           /\ routine' \in [state : State, next : Time, token : Claim \cup {NoClaim},
                            done : Nat]
<1>1. run' \in [Claim -> Status]
  BY DEF TypeOK, Project
<1>2. CASE UNCHANGED routine  BY <1>1, <1>2 DEF TypeOK
<1>3. CASE ReleaseTerminal(run')  BY <1>1, <1>3, ReleaseTypes
<1> QED  BY <1>2, <1>3 DEF Project

\* Every step of the agent run keeps the types.
LEMMA AgentTypes ==
    ASSUME TypeOK, NEW c \in Claim, AgentStep(c)
    PROVE  TypeOK'
<1> USE DEF rows, tasks, runtime, extra, Status, Active, Terminal
<1>1. CASE AgentStarts(c)   BY <1>1 DEF TypeOK, AgentStarts, Reads
<1>2. CASE AgentPauses(c)   BY <1>2 DEF TypeOK, AgentPauses, Reads
<1>3. CASE AgentEnds(c)     BY <1>3 DEF TypeOK, AgentEnds, Reads
<1>4. CASE Marks(c)
  <2>1. CASE mark[c] = "terminal"
    <3>1. Project(c, agent[c]) /\ agent[c] \in Status
      BY <1>4, <2>1 DEF Marks, TypeOK
    <3>2. /\ run' \in [Claim -> Status]
          /\ routine' \in [state : State, next : Time, token : Claim \cup {NoClaim},
                           done : Nat]
      BY <3>1, ProjectTypes
    <3> QED  BY <1>4, <3>2 DEF Marks, TypeOK
  <2>2. CASE mark[c] # "terminal"  BY <1>4, <2>2 DEF Marks, TypeOK
  <2> QED  BY <2>1, <2>2
<1>5. CASE MarkFails(c)     BY <1>5 DEF TypeOK, MarkFails
<1>6. CASE UserResumes(c)   BY <1>6 DEF TypeOK, UserResumes
<1>7. CASE ResumeEnds(c) \/ ResumeLost(c) \/ ResumeRefused(c)
  BY <1>7 DEF TypeOK, ResumeEnds, ResumeLost, ResumeRefused
<1>8. CASE UserCancels(c)
  <2>1. Project(c, "ended") /\ "ended" \in Status  BY <1>8 DEF UserCancels
  <2>2. /\ run' \in [Claim -> Status]
        /\ routine' \in [state : State, next : Time, token : Claim \cup {NoClaim},
                         done : Nat]
    BY <2>1, ProjectTypes
  <2> QED  BY <1>8, <2>2 DEF UserCancels, TypeOK
<1> QED  BY <1>1, <1>2, <1>3, <1>4, <1>5, <1>6, <1>7, <1>8 DEF AgentStep

\* Every step of the restart and its reconciliation keeps the types.
LEMMA BootTypes ==
    ASSUME TypeOK, Boots \/ Restart
    PROVE  TypeOK'
<1> USE DEF rows, tasks, runtime, extra, Status, Active, Terminal
<1>1. CASE BootForeign  BY <1>1 DEF TypeOK, BootForeign, Interrupt, BootStep
<1>2. CASE BootMirror   BY <1>2 DEF TypeOK, BootMirror, Mirrored, BootStep
<1>3. CASE BootAgents   BY <1>3 DEF TypeOK, BootAgents, Interrupt, BootStep
<1>4. CASE BootRuns     BY <1>4 DEF TypeOK, BootRuns, BootStep
<1>5. CASE BootRelease
  <2>1. RowsOK'  BY <1>5, ReconcileTypes DEF BootRelease
  <2> QED  BY <1>5, <2>1 DEF TypeOK, BootRelease, BootStep, RowsOK
<1>6. CASE Restart      BY <1>6 DEF TypeOK, Restart, BootStep, Step
<1> QED  BY <1>1, <1>2, <1>3, <1>4, <1>5, <1>6 DEF Boots

\* A claim that is about to be made is one of the claims.
LEMMA FreshIsClaim ==
    ASSUME \E c \in Claim : start[c] = "none"
    PROVE  Fresh \in Claim /\ start[Fresh] = "none"
  BY DEF Fresh

\* Every step of the scheduler and of a trigger keeps the types.
LEMMA ClaimTypes ==
    ASSUME TypeOK, SchedulerTicks \/ SchedulerClaims \/ Trigger \/ TriggerClaims
    PROVE  TypeOK'
<1>1. CASE SchedulerTicks
  <2>1. RowsOK'  BY <1>1, ReconcileTypes DEF SchedulerTicks
  <2> QED  BY <1>1, <2>1 DEF SchedulerTicks, TypeOK, RowsOK, runtime, extra
<1>2. CASE Trigger
  <2>1. RowsOK'  BY <1>2, ReconcileTypes DEF Trigger
  <2> QED  BY <1>2, <2>1 DEF Trigger, TypeOK, RowsOK, tasks, runtime, extra
<1>3. CASE SchedulerClaims
  <2>1. CASE UNCHANGED <<routine, rows, agent, start, boot, runtime, extra>> /\ sched' = "idle"
    BY <2>1 DEF TypeOK, rows, runtime, extra
  <2>2. CASE /\ \E c \in Claim : start[c] = "none"
             /\ Take(Fresh) /\ sched' = Fresh
    <3>1. Fresh \in Claim  BY <2>2, FreshIsClaim
    <3> QED  BY <2>2, <3>1, TakeTypes DEF TypeOK, RowsOK, runtime
  <2> QED  BY <1>3, <2>1, <2>2 DEF SchedulerClaims
<1>4. CASE TriggerClaims
  <2>1. Fresh \in Claim  BY <1>4, FreshIsClaim DEF TriggerClaims
  <2> QED  BY <1>4, <2>1, TakeTypes DEF TriggerClaims, TypeOK, RowsOK, runtime
<1> QED  BY <1>1, <1>2, <1>3, <1>4

\* Every edit of the routine, and time, keeps the types.
LEMMA EditTypes ==
    ASSUME TypeOK, Pause \/ Resume \/ Delete \/ TimePasses
    PROVE  TypeOK'
<1> USE DEF rows, tasks, runtime, extra, State, Time
<1>1. CASE Pause       BY <1>1 DEF TypeOK, Pause, Edit, Closed
<1>2. CASE Resume      BY <1>2 DEF TypeOK, Resume, Edit
<1>3. CASE Delete      BY <1>3 DEF TypeOK, Delete, Status
<1>4. CASE TimePasses  BY <1>4 DEF TypeOK, TimePasses
<1> QED  BY <1>1, <1>2, <1>3, <1>4

\* One step of the system keeps the types.
LEMMA TypeStep == TypeOK /\ [Next]_vars => TypeOK'
<1> SUFFICES ASSUME TypeOK, [Next]_vars PROVE TypeOK'
  OBVIOUS
<1>1. CASE Boots \/ Restart  BY <1>1, BootTypes
<1>2. CASE Schedules \/ Trigger \/ TriggerClaims  BY <1>2, ClaimTypes DEF Schedules
<1>3. CASE Pause \/ Resume \/ Delete \/ TimePasses  BY <1>3, EditTypes
<1>4. ASSUME NEW c \in Claim, Ages(c) PROVE TypeOK'
  BY <1>4 DEF TypeOK, Ages, tasks, runtime, extra
<1>5. ASSUME NEW c \in Claim, StartStep(c) PROVE TypeOK'  BY <1>5, StartTypes
<1>6. ASSUME NEW c \in Claim, AgentStep(c) PROVE TypeOK'  BY <1>6, AgentTypes
<1>7. CASE UNCHANGED vars
  BY <1>7 DEF TypeOK, vars, rows, tasks, runtime, extra
<1> QED  BY <1>1, <1>2, <1>3, <1>4, <1>5, <1>6, <1>7 DEF Next

\* The routine, its runs and their agent runs keep their types, whatever the
\* scheduler, the triggers, the reader, the user and restarts do.
THEOREM TypeCorrect == Spec => []TypeOK
<1>1. Init => TypeOK
  BY ConstAssumption
     DEF Init, TypeOK, State, Time, Status, Active, Terminal, Step, BootStep
<1> QED  BY <1>1, TypeStep, PTL DEF Spec

-----------------------------------------------------------------------------
(* An active run holds its routine's claim, and runs count once *)

\* The failure path of start_claim lets the claim go after the run's row ended.
FailedRunIsOver == \A c \in Claim : start[c] = "failed_run" => run[c] \notin Active

\* A claim not yet made has left nothing behind.
UnmadeIsBlank == \A c \in Claim : start[c] = "none" => run[c] = "none" /\ ~mapped[c]

\* A deleted routine is not claimed.
DeletedIsFree == routine.state = "deleted" => routine.token = NoClaim

HeldInv == ActiveHoldsClaim /\ FailedRunIsOver /\ UnmadeIsBlank /\ DeletedIsFree

\* What projections and reconciliations do: runs end, and the claim is given
\* back if its own run is one of those that ended.
LEMMA HeldWhenSettled ==
    ASSUME TypeOK, HeldInv, start' = start, mapped' = mapped,
           \A c \in Claim : run'[c] \in Active => run[c] \in Active,
           \A c \in Claim : run[c] = "none" => run'[c] = "none",
           UNCHANGED routine \/ ReleaseTerminal(run')
    PROVE  HeldInv'
<1>1. ActiveHoldsClaim'
  <2>1. SUFFICES ASSUME NEW c \in Claim, run'[c] \in Active PROVE routine'.token = c
    BY DEF ActiveHoldsClaim
  <2>2. routine.token = c  BY <2>1 DEF HeldInv, ActiveHoldsClaim
  <2>3. routine' = routine
    BY <2>1, <2>2 DEF ReleaseTerminal, Active, Terminal
  <2> QED  BY <2>2, <2>3
<1>2. FailedRunIsOver' /\ UnmadeIsBlank'
  BY DEF HeldInv, FailedRunIsOver, UnmadeIsBlank
<1>3. DeletedIsFree'
  <2>1. CASE UNCHANGED routine  BY <2>1 DEF HeldInv, DeletedIsFree
  <2>2. CASE routine' = Released  BY <2>2 DEF Released, TypeOK, DeletedIsFree
  <2> QED  BY <2>1, <2>2 DEF ReleaseTerminal
<1> QED  BY <1>1, <1>2, <1>3 DEF HeldInv

\* A reconciliation ends runs and revives none.
LEMMA ReconcileSettles ==
    ASSUME TypeOK, Reconcile
    PROVE  /\ \A c \in Claim : run'[c] \in Active => run[c] \in Active
           /\ ReleaseTerminal(run') /\ mapped' = mapped
           /\ \A c \in Claim : run[c] = "none" => run'[c] = "none"
           /\ \A c \in Claim : run'[c] = run[c] \/ run'[c] \in Terminal
           /\ \A c \in Claim : run[c] \in Terminal => run'[c] = run[c]
  BY DEF TypeOK, Reconcile, Ended, Expired, Active, Terminal

\* So does the projection of one run.
LEMMA ProjectSettles ==
    ASSUME TypeOK, NEW c \in Claim, NEW status \in Status, Project(c, status)
    PROVE  /\ \A d \in Claim : run'[d] \in Active => run[d] \in Active
           /\ UNCHANGED routine \/ ReleaseTerminal(run')
           /\ \A d \in Claim : run[d] = "none" => run'[d] = "none"
           /\ \A d \in Claim : run'[d] = run[d] \/ run'[d] \in Terminal
           /\ \A d \in Claim : run[d] \in Terminal => run'[d] = run[d]
  BY DEF TypeOK, Project, Active, Terminal

\* A new claim is made of an open routine that has no active run.
LEMMA HeldByTake ==
    ASSUME TypeOK, HeldInv, NEW c \in Claim, start[c] = "none", Claimable, Take(c)
    PROVE  HeldInv'
<1>1. routine'.token = c /\ routine'.state = "open"
  BY DEF Take, TypeOK, Claimable
<1>2. \A d \in Claim \ {c} : run'[d] = run[d] /\ start'[d] = start[d]
  BY DEF Take, TypeOK
<1>3. start'[c] = "claimed" /\ mapped' = mapped
  BY DEF Take, TypeOK
<1>4. ActiveHoldsClaim'
  BY <1>1, <1>2 DEF Claimable, ActiveHoldsClaim
<1>5. FailedRunIsOver' /\ UnmadeIsBlank'
  BY <1>2, <1>3 DEF HeldInv, FailedRunIsOver, UnmadeIsBlank
<1>6. DeletedIsFree'
  BY <1>1 DEF DeletedIsFree
<1> QED  BY <1>4, <1>5, <1>6 DEF HeldInv

\* Giving up closes the run before the claim; the other steps of start_claim
\* leave the claim alone.
LEMMA HeldByStart ==
    ASSUME TypeOK, HeldInv, NEW c \in Claim, StartStep(c)
    PROVE  HeldInv'
<1> USE DEF rows, Goes, Returns
<1>1. CASE UNCHANGED <<routine, run, mapped>> /\ start[c] # "none"
           /\ \E step \in Step \ {"none", "failed_run"} : start' = [start EXCEPT ![c] = step]
  BY <1>1 DEF TypeOK, HeldInv, ActiveHoldsClaim, FailedRunIsOver, UnmadeIsBlank, DeletedIsFree
<1>2. CASE NoWorkspace(c) \/ CreateAgentRun(c) \/ PrepareFails(c) \/ Dispatch(c)
           \/ Dispatched(c) \/ DispatchLost(c) \/ FailAgentRun(c)
  BY <1>1, <1>2 DEF NoWorkspace, CreateAgentRun, PrepareFails, Dispatch, Dispatched,
                    DispatchLost, FailAgentRun, Step
<1>3. CASE Attach(c)
  <2>1. CASE run[c] # "queued"
    BY <1>1, <1>3, <2>1 DEF Attach, Step
  <2>2. CASE run[c] = "queued"
    <3>1. routine' = routine /\ routine.token = c
      BY <1>3, <2>2 DEF Attach, HeldInv, ActiveHoldsClaim, Active
    <3>2. \A d \in Claim \ {c} : run'[d] = run[d] /\ start'[d] = start[d]
                                 /\ mapped'[d] = mapped[d]
      BY <1>3, <2>2 DEF Attach, TypeOK
    <3>3. start'[c] = "attached"  BY <1>3, <2>2 DEF Attach, TypeOK
    <3> QED  BY <3>1, <3>2, <3>3 DEF HeldInv, ActiveHoldsClaim, FailedRunIsOver,
                                     UnmadeIsBlank, DeletedIsFree
  <2> QED  BY <2>1, <2>2
<1>4. CASE FailRun(c)
  <2>1. /\ routine' = routine /\ mapped' = mapped
        /\ \A d \in Claim \ {c} : run'[d] = run[d] /\ start'[d] = start[d]
    BY <1>4 DEF FailRun, TypeOK
  <2>2. start'[c] = "failed_run" /\ run'[c] \notin Active
    BY <1>4 DEF FailRun, TypeOK, Active
  <2> QED  BY <2>1, <2>2 DEF HeldInv, ActiveHoldsClaim, FailedRunIsOver,
                             UnmadeIsBlank, DeletedIsFree
<1>5. CASE GiveUp(c)
  <2>1. /\ run' = run /\ mapped' = mapped /\ start'[c] = "over"
        /\ \A d \in Claim \ {c} : start'[d] = start[d]
    BY <1>5 DEF GiveUp, TypeOK
  <2>2. run[c] \notin Active
    BY <1>5 DEF GiveUp, HeldInv, FailedRunIsOver
  <2>3. /\ routine.token # c => routine' = routine
        /\ routine'.token \in {NoClaim, routine.token} /\ routine'.state = routine.state
    BY <1>5 DEF GiveUp, TypeOK
  <2> QED  BY <2>1, <2>2, <2>3 DEF HeldInv, ActiveHoldsClaim, FailedRunIsOver,
                                   UnmadeIsBlank, DeletedIsFree
<1> QED  BY <1>2, <1>3, <1>4, <1>5 DEF StartStep

\* A pause and a resumption exchange active statuses, the end of a run is a
\* projection.
LEMMA HeldByAgent ==
    ASSUME TypeOK, HeldInv, NEW c \in Claim, AgentStep(c)
    PROVE  HeldInv'
<1> USE DEF rows, tasks
<1>1. CASE UNCHANGED <<routine, run, mapped, start>>
  BY <1>1 DEF HeldInv, ActiveHoldsClaim, FailedRunIsOver, UnmadeIsBlank, DeletedIsFree
<1>2. CASE AgentStarts(c) \/ AgentPauses(c) \/ AgentEnds(c) \/ MarkFails(c)
           \/ UserResumes(c) \/ ResumeEnds(c) \/ ResumeLost(c) \/ ResumeRefused(c)
  BY <1>1, <1>2 DEF AgentStarts, AgentPauses, AgentEnds, MarkFails, UserResumes,
                    ResumeEnds, ResumeLost, ResumeRefused
<1>3. CASE Marks(c)
  <2>1. start' = start /\ mapped' = mapped  BY <1>3 DEF Marks
  <2>2. CASE mark[c] = "terminal" /\ Project(c, agent[c])
    <3>1. agent[c] \in Status  BY DEF TypeOK
    <3> QED  BY <2>1, <2>2, <3>1, ProjectSettles, HeldWhenSettled
  <2>3. CASE mark[c] # "terminal"
    <3>1. UNCHANGED routine /\ \A d \in Claim : run'[d] \in Active => run[d] \in Active
      BY <1>3, <2>3 DEF Marks, TypeOK, Active
    <3>2. \A d \in Claim : run[d] = "none" => run'[d] = "none"
      BY <1>3, <2>3 DEF Marks, TypeOK
    <3> QED  BY <2>1, <3>1, <3>2, HeldWhenSettled
  <2> QED  BY <1>3, <2>2, <2>3 DEF Marks
<1>4. CASE UserCancels(c)
  <2>1. start' = start /\ mapped' = mapped /\ "ended" \in Status
    BY <1>4 DEF UserCancels, Terminal, Status
  <2> QED  BY <1>4, <2>1, ProjectSettles, HeldWhenSettled DEF UserCancels
<1> QED  BY <1>2, <1>3, <1>4 DEF AgentStep

\* The restart's writes end runs or exchange active statuses.
LEMMA HeldByBoot ==
    ASSUME TypeOK, HeldInv, Boots \/ Restart
    PROVE  HeldInv'
<1> USE DEF rows
<1>1. CASE UNCHANGED <<routine, run, mapped, start>>
  BY <1>1 DEF HeldInv, ActiveHoldsClaim, FailedRunIsOver, UnmadeIsBlank, DeletedIsFree
<1>2. CASE BootForeign \/ BootAgents
  BY <1>1, <1>2 DEF BootForeign, BootAgents
<1>3. CASE BootMirror
  <2>1. /\ UNCHANGED <<routine, mapped, start>>
        /\ \A c \in Claim : run'[c] \in Active => run[c] \in Active
        /\ \A c \in Claim : run[c] = "none" => run'[c] = "none"
    BY <1>3 DEF BootMirror, Mirrored, TypeOK, Active
  <2> QED  BY <2>1, HeldWhenSettled
<1>4. CASE BootRuns
  <2>1. /\ UNCHANGED <<routine, mapped, start>>
        /\ \A c \in Claim : run'[c] \in Active => run[c] \in Active
        /\ \A c \in Claim : run[c] = "none" => run'[c] = "none"
    BY <1>4 DEF BootRuns, TypeOK, Active
  <2> QED  BY <2>1, HeldWhenSettled
<1>5. CASE BootRelease
  BY <1>5, ReconcileSettles, HeldWhenSettled DEF BootRelease
<1>6. CASE Restart
  <2>1. UNCHANGED <<routine, run, mapped>>
        /\ \A c \in Claim : start'[c] = IF start[c] = "none" THEN "none" ELSE "over"
    BY <1>6 DEF Restart
  <2> QED  BY <2>1 DEF HeldInv, ActiveHoldsClaim, FailedRunIsOver, UnmadeIsBlank,
                       DeletedIsFree
<1> QED  BY <1>2, <1>3, <1>4, <1>5, <1>6 DEF Boots

\* Edits leave the claim alone; a deletion takes the runs with it.
LEMMA HeldByEdit ==
    ASSUME TypeOK, HeldInv, Pause \/ Resume \/ Delete \/ TimePasses
    PROVE  HeldInv'
<1> USE DEF rows, tasks
<1>1. CASE /\ UNCHANGED <<run, mapped, start>> /\ routine'.token = routine.token
           /\ routine'.state # "deleted" \/ routine'.state = routine.state
  BY <1>1 DEF HeldInv, ActiveHoldsClaim, FailedRunIsOver, UnmadeIsBlank, DeletedIsFree
<1>2. CASE Pause       BY <1>1, <1>2 DEF Pause, Edit, Closed, TypeOK
<1>3. CASE Resume      BY <1>1, <1>3 DEF Resume, Edit, TypeOK
<1>4. CASE TimePasses  BY <1>1, <1>4 DEF TimePasses, TypeOK
<1>5. CASE Delete
  BY <1>5 DEF Delete, TypeOK, Active, HeldInv, ActiveHoldsClaim, FailedRunIsOver,
              UnmadeIsBlank, DeletedIsFree
<1> QED  BY <1>2, <1>3, <1>4, <1>5

\* One step of the system keeps the claim with the active run.
LEMMA HeldStep == TypeOK /\ HeldInv /\ [Next]_vars => HeldInv'
<1> SUFFICES ASSUME TypeOK, HeldInv, [Next]_vars PROVE HeldInv'
  OBVIOUS
<1>1. CASE Boots \/ Restart  BY <1>1, HeldByBoot
<1>2. CASE UNCHANGED <<routine, run, mapped, start>>
  BY <1>2 DEF HeldInv, ActiveHoldsClaim, FailedRunIsOver, UnmadeIsBlank, DeletedIsFree
<1>3. CASE SchedulerTicks
  BY <1>3, ReconcileSettles, HeldWhenSettled DEF SchedulerTicks
<1>4. CASE Trigger
  BY <1>4, ReconcileSettles, HeldWhenSettled DEF Trigger, tasks
<1>5. CASE SchedulerClaims
  <2>1. CASE UNCHANGED <<routine, rows, start>>  BY <1>2, <2>1 DEF rows
  <2>2. CASE Claimable /\ Take(Fresh) /\ \E c \in Claim : start[c] = "none"
    BY <2>2, FreshIsClaim, HeldByTake
  <2> QED  BY <1>5, <2>1, <2>2 DEF SchedulerClaims
<1>6. CASE TriggerClaims
  BY <1>6, FreshIsClaim, HeldByTake DEF TriggerClaims
<1>7. CASE Pause \/ Resume \/ Delete \/ TimePasses  BY <1>7, HeldByEdit
<1>8. ASSUME NEW c \in Claim, Ages(c) PROVE HeldInv'
  BY <1>2, <1>8 DEF Ages, tasks
<1>9. ASSUME NEW c \in Claim, StartStep(c) PROVE HeldInv'  BY <1>9, HeldByStart
<1>10. ASSUME NEW c \in Claim, AgentStep(c) PROVE HeldInv'  BY <1>10, HeldByAgent
<1>11. CASE UNCHANGED vars  BY <1>2, <1>11 DEF vars, rows, tasks
<1> QED  BY <1>1, <1>3, <1>4, <1>5, <1>6, <1>7, <1>8, <1>9, <1>10, <1>11
         DEF Next, Schedules

\* Initially nothing is claimed.
LEMMA HeldInit == Init => HeldInv
  BY DEF Init, HeldInv, ActiveHoldsClaim, FailedRunIsOver, UnmadeIsBlank, DeletedIsFree,
         Active

\* HeldInv holds throughout.
LEMMA HeldInvariant == Spec => []HeldInv
  BY HeldInit, HeldStep, TypeCorrect, PTL DEF Spec

\* The run whose row is active is the one the routine's claim is for: pausing,
\* editing, expiry, a failed start, cancelling and restarts never free a routine
\* that still has an active run.
THEOREM ActiveRunHoldsClaim == Spec => []ActiveHoldsClaim
<1>1. HeldInv => ActiveHoldsClaim  BY DEF HeldInv
<1> QED  BY <1>1, HeldInvariant, PTL

-----------------------------------------------------------------------------
(* A run counts once *)

\* Runs that ended stay ended and the claim stays: the count still holds.
LEMMA CountKept ==
    ASSUME TypeOK, IsFiniteSet(Claim), CountedOnce, routine'.done = routine.done,
           routine'.state # "deleted" => routine.state # "deleted",
           \A c \in Claim : run[c] \in Terminal /\ routine.token # c
                            => run'[c] \in Terminal /\ routine'.token # c
    PROVE  CountedOnce'
<1> DEFINE before == {c \in Claim : run[c] \in Terminal /\ routine.token # c}
           after  == {c \in Claim : run'[c] \in Terminal /\ routine'.token # c}
<1>1. IsFiniteSet(after)  BY FS_Subset
<1>2. before \in SUBSET after  OBVIOUS
<1>3. IsFiniteSet(before) /\ Cardinality(before) <= Cardinality(after)
  BY <1>1, <1>2, FS_Subset
<1>4. Cardinality(before) \in Nat /\ Cardinality(after) \in Nat
  BY <1>1, <1>3, FS_CardinalityType
<1>5. routine.done \in Nat  BY DEF TypeOK
<1>6. routine'.state # "deleted" => routine'.done <= Cardinality(before)
  BY DEF CountedOnce
<1>7. routine'.state # "deleted" => routine'.done <= Cardinality(after)
  BY <1>3, <1>4, <1>5, <1>6
<1> QED  BY <1>7 DEF CountedOnce

\* The run whose claim is given back was not counted before and is now.
LEMMA CountReleased ==
    ASSUME TypeOK, IsFiniteSet(Claim), HeldInv, CountedOnce,
           \A c \in Claim : run[c] \in Terminal => run'[c] \in Terminal,
           routine.token \in Claim, run'[routine.token] \in Terminal, routine' = Released
    PROVE  CountedOnce'
<1> DEFINE before == {c \in Claim : run[c] \in Terminal /\ routine.token # c}
           after  == {c \in Claim : run'[c] \in Terminal /\ routine'.token # c}
<1>1. routine'.token = NoClaim /\ routine'.done = routine.done + 1 /\ routine.done \in Nat
  BY DEF Released, TypeOK
<1>2. routine.state # "deleted"
  BY ConstAssumption DEF HeldInv, DeletedIsFree
<1>3. IsFiniteSet(before) /\ IsFiniteSet(after)  BY FS_Subset
<1>4. before \cup {routine.token} \in SUBSET after
  BY <1>1, ConstAssumption
<1>5. routine.token \notin before  OBVIOUS
<1>6. /\ IsFiniteSet(before \cup {routine.token})
      /\ Cardinality(before \cup {routine.token}) = Cardinality(before) + 1
  BY <1>3, <1>5, FS_AddElement
<1>7. Cardinality(before \cup {routine.token}) <= Cardinality(after)
  BY <1>3, <1>4, FS_Subset
<1>8. Cardinality(before) \in Nat /\ Cardinality(after) \in Nat
  BY <1>3, FS_CardinalityType
<1>9. routine.done <= Cardinality(before)  BY <1>2 DEF CountedOnce
<1>10. routine'.done <= Cardinality(after)  BY <1>1, <1>6, <1>7, <1>8, <1>9
<1> QED  BY <1>10 DEF CountedOnce

\* Projections and reconciliations count the run whose claim they give back.
LEMMA CountWhenSettled ==
    ASSUME TypeOK, IsFiniteSet(Claim), HeldInv, CountedOnce,
           \A c \in Claim : run[c] \in Terminal => run'[c] \in Terminal,
           UNCHANGED routine \/ ReleaseTerminal(run')
    PROVE  CountedOnce'
<1>1. CASE UNCHANGED routine  BY <1>1, CountKept
<1>2. CASE /\ routine.token # NoClaim /\ run'[routine.token] \in Terminal
           /\ routine' = Released
  BY <1>2, CountReleased DEF TypeOK
<1> QED  BY <1>1, <1>2 DEF ReleaseTerminal

\* A new claim has no row yet, so it takes none out of the count.
LEMMA CountByTake ==
    ASSUME TypeOK, IsFiniteSet(Claim), HeldInv, CountedOnce,
           NEW c \in Claim, start[c] = "none", Take(c)
    PROVE  CountedOnce'
<1>1. routine'.done = routine.done /\ routine'.state = routine.state /\ routine'.token = c
  BY DEF Take, TypeOK
<1>2. run[c] \notin Terminal
  BY DEF HeldInv, UnmadeIsBlank, Terminal
<1>3. \A d \in Claim \ {c} : run'[d] = run[d]
  BY DEF Take, TypeOK
<1> QED  BY <1>1, <1>2, <1>3, CountKept

\* A start that fails ends its run; the claim it gives back is not counted.
LEMMA CountByStart ==
    ASSUME TypeOK, IsFiniteSet(Claim), CountedOnce, NEW c \in Claim, StartStep(c)
    PROVE  CountedOnce'
<1> USE DEF rows
<1>1. CASE UNCHANGED <<routine, run>>  BY <1>1, CountKept
<1>2. CASE NoWorkspace(c) \/ CreateAgentRun(c) \/ PrepareFails(c) \/ Dispatch(c)
           \/ Dispatched(c) \/ DispatchLost(c) \/ FailAgentRun(c)
  BY <1>1, <1>2 DEF NoWorkspace, CreateAgentRun, PrepareFails, Dispatch, Dispatched,
                    DispatchLost, FailAgentRun
<1>3. CASE Attach(c)
  <2>1. routine' = routine /\ \A d \in Claim : run[d] \in Terminal => run'[d] = run[d]
    BY <1>3 DEF Attach, TypeOK, Terminal
  <2> QED  BY <2>1, CountKept
<1>4. CASE FailRun(c)
  <2>1. routine' = routine /\ \A d \in Claim : run[d] \in Terminal => run'[d] \in Terminal
    BY <1>4 DEF FailRun, TypeOK, Terminal
  <2> QED  BY <2>1, CountKept
<1>5. CASE GiveUp(c)
  <2>1. run' = run  BY <1>5 DEF GiveUp
  <2>2. /\ routine'.done = routine.done /\ routine'.state = routine.state
        /\ routine'.token = routine.token \/ routine'.token = NoClaim
    BY <1>5 DEF GiveUp, TypeOK
  <2> QED  BY <2>1, <2>2, CountKept, ConstAssumption
<1> QED  BY <1>2, <1>3, <1>4, <1>5 DEF StartStep

\* A pause and a resumption touch no ended run, an end is a projection.
LEMMA CountByAgent ==
    ASSUME TypeOK, IsFiniteSet(Claim), HeldInv, CountedOnce, NEW c \in Claim, AgentStep(c)
    PROVE  CountedOnce'
<1> USE DEF rows
<1>1. CASE UNCHANGED <<routine, run>>  BY <1>1, CountKept
<1>2. CASE AgentStarts(c) \/ AgentPauses(c) \/ AgentEnds(c) \/ MarkFails(c)
           \/ UserResumes(c) \/ ResumeEnds(c) \/ ResumeLost(c) \/ ResumeRefused(c)
  BY <1>1, <1>2 DEF AgentStarts, AgentPauses, AgentEnds, MarkFails, UserResumes,
                    ResumeEnds, ResumeLost, ResumeRefused
<1>3. ASSUME NEW status \in Status, Project(c, status) PROVE CountedOnce'
  BY <1>3, ProjectSettles, CountWhenSettled
<1>4. CASE Marks(c)
  <2>1. CASE mark[c] = "terminal"
    <3>1. agent[c] \in Status /\ Project(c, agent[c])  BY <1>4, <2>1 DEF Marks, TypeOK
    <3> QED  BY <1>3, <3>1
  <2>2. CASE mark[c] # "terminal"
    <3>1. routine' = routine /\ \A d \in Claim : run[d] \in Terminal => run'[d] = run[d]
      BY <1>4, <2>2 DEF Marks, TypeOK, Terminal
    <3> QED  BY <3>1, CountKept
  <2> QED  BY <2>1, <2>2
<1>5. CASE UserCancels(c)
  <2>1. "ended" \in Status /\ Project(c, "ended")
    BY <1>5 DEF UserCancels, Status, Terminal
  <2> QED  BY <1>3, <2>1
<1> QED  BY <1>2, <1>4, <1>5 DEF AgentStep

\* The restart's writes bring no ended run back.
LEMMA CountByBoot ==
    ASSUME TypeOK, IsFiniteSet(Claim), HeldInv, CountedOnce, Boots \/ Restart
    PROVE  CountedOnce'
<1> USE DEF rows
<1>1. CASE UNCHANGED <<routine, run>>  BY <1>1, CountKept
<1>2. CASE BootForeign \/ BootAgents \/ Restart
  BY <1>1, <1>2 DEF BootForeign, BootAgents, Restart
<1>3. CASE BootMirror \/ BootRuns
  <2>1. routine' = routine /\ \A d \in Claim : run[d] \in Terminal => run'[d] = run[d]
    BY <1>3 DEF BootMirror, Mirrored, BootRuns, TypeOK, Terminal
  <2> QED  BY <2>1, CountKept
<1>4. CASE BootRelease
  BY <1>4, ReconcileSettles, CountWhenSettled DEF BootRelease
<1> QED  BY <1>2, <1>3, <1>4 DEF Boots

\* Edits do not touch the count; a deleted routine stays deleted.
LEMMA CountByEdit ==
    ASSUME TypeOK, IsFiniteSet(Claim), CountedOnce, Pause \/ Resume \/ Delete \/ TimePasses
    PROVE  CountedOnce'
<1> USE DEF rows
<1>1. CASE Pause \/ Resume \/ TimePasses
  <2>1. /\ run' = run /\ routine'.token = routine.token /\ routine'.done = routine.done
        /\ routine'.state # "deleted" => routine.state # "deleted"
    BY <1>1 DEF Pause, Resume, TimePasses, Edit, Closed, TypeOK
  <2> QED  BY <2>1, CountKept
<1>2. CASE Delete
  <2>1. routine'.state = "deleted"  BY <1>2 DEF Delete, TypeOK
  <2> QED  BY <2>1 DEF CountedOnce
<1> QED  BY <1>1, <1>2

\* One step of the system counts a run at most once.
LEMMA CountStep ==
    ASSUME IsFiniteSet(Claim)
    PROVE  TypeOK /\ HeldInv /\ CountedOnce /\ [Next]_vars => CountedOnce'
<1> SUFFICES ASSUME TypeOK, HeldInv, CountedOnce, [Next]_vars PROVE CountedOnce'
  OBVIOUS
<1>1. CASE Boots \/ Restart  BY <1>1, CountByBoot
<1>2. CASE UNCHANGED <<routine, run>>  BY <1>2, CountKept
<1>3. CASE SchedulerTicks
  BY <1>3, ReconcileSettles, CountWhenSettled DEF SchedulerTicks
<1>4. CASE Trigger
  BY <1>4, ReconcileSettles, CountWhenSettled DEF Trigger
<1>5. CASE SchedulerClaims
  <2>1. CASE UNCHANGED <<routine, rows>>  BY <1>2, <2>1 DEF rows
  <2>2. CASE Take(Fresh) /\ \E c \in Claim : start[c] = "none"
    BY <2>2, FreshIsClaim, CountByTake
  <2> QED  BY <1>5, <2>1, <2>2 DEF SchedulerClaims
<1>6. CASE TriggerClaims
  BY <1>6, FreshIsClaim, CountByTake DEF TriggerClaims
<1>7. CASE Pause \/ Resume \/ Delete \/ TimePasses  BY <1>7, CountByEdit
<1>8. ASSUME NEW c \in Claim, Ages(c) PROVE CountedOnce'
  BY <1>2, <1>8 DEF Ages
<1>9. ASSUME NEW c \in Claim, StartStep(c) PROVE CountedOnce'  BY <1>9, CountByStart
<1>10. ASSUME NEW c \in Claim, AgentStep(c) PROVE CountedOnce'  BY <1>10, CountByAgent
<1>11. CASE UNCHANGED vars  BY <1>2, <1>11 DEF vars, rows
<1> QED  BY <1>1, <1>3, <1>4, <1>5, <1>6, <1>7, <1>8, <1>9, <1>10, <1>11
         DEF Next, Schedules

\* However often the end of a run is projected and reconciled, and whatever is
\* interrupted in between, the run counts at most once toward a finite repeat,
\* and only when it gave its claim back.
THEOREM RunsCountOnce ==
    ASSUME IsFiniteSet(Claim)
    PROVE  Spec => []CountedOnce
<1>1. Init => CountedOnce
  <2>1. SUFFICES ASSUME Init PROVE CountedOnce
    OBVIOUS
  <2>2. IsFiniteSet({c \in Claim : run[c] \in Terminal /\ routine.token # c})
    BY FS_Subset
  <2>3. Cardinality({c \in Claim : run[c] \in Terminal /\ routine.token # c}) \in Nat
    BY <2>2, FS_CardinalityType
  <2> QED  BY <2>1, <2>3 DEF Init, CountedOnce
<1> QED  BY <1>1, CountStep, TypeCorrect, HeldInvariant, PTL DEF Spec

-----------------------------------------------------------------------------
(* A waiting run survives a restart *)

\* A row that knows its agent run and reads queued is one the reconciliation of
\* an earlier restart mirrored and did not get to interrupt.
MirroredIsStuck ==
    \A c \in Claim \ early :
        mapped[c] /\ run[c] = "queued"
        => agent[c] # "waiting_for_user" /\ engine[c] = "off" /\ start[c] = "over"

\* While the reconciliation is under way, nothing works for the runs it is about.
BootIsQuiet ==
    boot # "done" =>
        \A c \in Claim \ early :
            engine[c] = "off" /\ mark[c] = "none" /\ start[c] \in {"none", "over"}

\* What the mirroring write made true is still true when the next writes read it.
MirrorHolds ==
    boot \in {"agents", "runs"} =>
        \A c \in Claim \ early :
            agent[c] = "waiting_for_user" /\ mapped[c] => run[c] # "running"

BootInv == MirroredIsStuck /\ BootIsQuiet /\ MirrorHolds

\* What a step leaves alone when it concerns neither an old run nor the stage of
\* the reconciliation.
LEMMA BootKept ==
    ASSUME TypeOK, BootInv, boot' = boot, early \subseteq early',
           \A c \in Claim \ early' :
               /\ mapped'[c] => mapped[c]
               /\ agent'[c] = "waiting_for_user" => agent[c] = "waiting_for_user"
               /\ engine'[c] = engine[c] /\ start'[c] = start[c]
               /\ mark'[c] = mark[c] \/ mark'[c] = "none"
               /\ run'[c] \in {"queued", "running"} => run'[c] = run[c]
    PROVE  BootInv'
  BY DEF BootInv, MirroredIsStuck, BootIsQuiet, MirrorHolds

\* A reconciliation leaves runs as they are or ends them.
LEMMA ReconcileSpares ==
    ASSUME TypeOK, Reconcile
    PROVE  \A c \in Claim : run'[c] \in {"queued", "running"} => run'[c] = run[c]
  BY DEF TypeOK, Reconcile, Ended, Expired, Terminal

\* A new claim does not know an agent run; begun early, it is no old run.
LEMMA BootByTake ==
    ASSUME TypeOK, HeldInv, BootInv, NEW c \in Claim, start[c] = "none", Take(c)
    PROVE  BootInv'
<1>1. /\ boot' = boot /\ mapped' = mapped /\ agent' = agent /\ ~mapped[c]
      /\ engine' = engine /\ mark' = mark
      /\ early \subseteq early'
      /\ boot # "done" => c \in early'
      /\ \A d \in Claim \ {c} : run'[d] = run[d] /\ start'[d] = start[d]
  BY DEF Take, TypeOK, runtime, HeldInv, UnmadeIsBlank
<1>2. MirroredIsStuck'
  BY <1>1 DEF BootInv, MirroredIsStuck
<1>3. BootIsQuiet' /\ MirrorHolds'
  BY <1>1 DEF BootInv, BootIsQuiet, MirrorHolds
<1> QED  BY <1>2, <1>3 DEF BootInv

\* start_claim is at work only on runs the reconciliation is not about.
LEMMA BootByStart ==
    ASSUME TypeOK, BootInv, NEW c \in Claim, StartStep(c)
    PROVE  BootInv'
<1> USE DEF rows, runtime, extra, Goes, Returns
<1>1. start[c] \notin {"none", "over"}
  BY DEF StartStep, NoWorkspace, CreateAgentRun, Attach, PrepareFails, Dispatch, Dispatched,
         DispatchLost, FailAgentRun, FailRun, GiveUp
<1>2. boot' = boot /\ early' = early /\ mark' = mark
  BY DEF StartStep, NoWorkspace, CreateAgentRun, Attach, PrepareFails, Dispatch, Dispatched,
         DispatchLost, FailAgentRun, FailRun, GiveUp
<1>3. \A d \in Claim \ {c} : /\ run'[d] = run[d] /\ mapped'[d] = mapped[d]
                             /\ agent'[d] = agent[d] /\ engine'[d] = engine[d]
                             /\ start'[d] = start[d]
  <2> USE DEF TypeOK
  <2>1. CASE NoWorkspace(c)     BY <2>1 DEF NoWorkspace
  <2>2. CASE CreateAgentRun(c)  BY <2>2 DEF CreateAgentRun
  <2>3. CASE Attach(c)          BY <2>3 DEF Attach
  <2>4. CASE PrepareFails(c)    BY <2>4 DEF PrepareFails
  <2>5. CASE Dispatch(c)        BY <2>5 DEF Dispatch
  <2>6. CASE Dispatched(c)      BY <2>6 DEF Dispatched
  <2>7. CASE DispatchLost(c)    BY <2>7 DEF DispatchLost
  <2>8. CASE FailAgentRun(c)    BY <2>8 DEF FailAgentRun
  <2>9. CASE FailRun(c)         BY <2>9 DEF FailRun
  <2>10. CASE GiveUp(c)         BY <2>10 DEF GiveUp
  <2> QED  BY <2>1, <2>2, <2>3, <2>4, <2>5, <2>6, <2>7, <2>8, <2>9, <2>10 DEF StartStep
<1>4. mapped'[c] /\ run'[c] = "queued" => mapped[c] /\ run[c] = "queued"
  <2>1. CASE Attach(c)   BY <2>1 DEF Attach, TypeOK
  <2>2. CASE FailRun(c)  BY <2>2 DEF FailRun, TypeOK
  <2>3. CASE UNCHANGED <<run, mapped>>  BY <2>3
  <2> QED  BY <2>1, <2>2, <2>3
           DEF StartStep, NoWorkspace, CreateAgentRun, PrepareFails, Dispatch, Dispatched,
               DispatchLost, FailAgentRun, GiveUp
<1>5. boot # "done" => c \in early
  BY <1>1 DEF BootInv, BootIsQuiet
<1>6. MirroredIsStuck'
  BY <1>1, <1>2, <1>3, <1>4 DEF BootInv, MirroredIsStuck
<1>7. BootIsQuiet' /\ MirrorHolds'
  BY <1>2, <1>3, <1>5 DEF BootInv, BootIsQuiet, MirrorHolds
<1> QED  BY <1>6, <1>7 DEF BootInv

\* What happens to one run only is no matter to the others.
LEMMA BootLocal ==
    ASSUME TypeOK, BootInv, NEW c \in Claim, boot' = boot, early \subseteq early',
           mapped' = mapped, start' = start,
           \A d \in Claim \ {c} : /\ run'[d] = run[d] /\ agent'[d] = agent[d]
                                  /\ engine'[d] = engine[d] /\ mark'[d] = mark[d],
           c \in early' \/ (boot = "done" /\ run'[c] # "queued")
    PROVE  BootInv'
  BY DEF BootInv, MirroredIsStuck, BootIsQuiet, MirrorHolds

\* Nor does the agent run of an old run move, except that it is cancelled.
LEMMA BootByAgent ==
    ASSUME TypeOK, BootInv, NEW c \in Claim, AgentStep(c)
    PROVE  BootInv'
<1> USE DEF rows, tasks, extra, Reads
<1>1. CASE AgentStarts(c) \/ AgentPauses(c) \/ AgentEnds(c) \/ ResumeRefused(c)
  <2>1. /\ boot' = boot /\ early' = early /\ run' = run /\ mapped' = mapped
        /\ start' = start /\ engine[c] # "off"
    BY <1>1 DEF AgentStarts, AgentPauses, AgentEnds, ResumeRefused
  <2>2. \A d \in Claim \ {c} : /\ agent'[d] = agent[d] /\ engine'[d] = engine[d]
                               /\ mark'[d] = mark[d]
    BY <1>1 DEF AgentStarts, AgentPauses, AgentEnds, ResumeRefused, TypeOK
  <2>3. CASE c \in early  BY <2>1, <2>2, <2>3, BootLocal
  <2>4. CASE c \notin early
    <3>1. boot = "done"  BY <2>1, <2>4 DEF BootInv, BootIsQuiet
    <3>2. ~(mapped[c] /\ run[c] = "queued")  BY <2>1, <2>4 DEF BootInv, MirroredIsStuck
    <3> QED  BY <2>1, <2>2, <3>1, <3>2
             DEF BootInv, MirroredIsStuck, BootIsQuiet, MirrorHolds
  <2> QED  BY <2>3, <2>4
<1>2. CASE Marks(c) \/ MarkFails(c)
  <2>1. /\ boot' = boot /\ early' = early /\ mapped' = mapped /\ start' = start
        /\ mark[c] # "none" /\ agent' = agent /\ engine' = engine
    BY <1>2 DEF Marks, MarkFails, runtime
  <2>2. \A d \in Claim \ {c} : mark'[d] = mark[d] /\ run'[d] = run[d]
    BY <1>2 DEF Marks, MarkFails, Project, TypeOK
  <2>3. run'[c] = "queued" => run[c] = "queued"
    <3>1. CASE MarkFails(c)  BY <3>1 DEF MarkFails
    <3>2. CASE Marks(c) /\ mark[c] # "terminal"  BY <3>2 DEF Marks, TypeOK
    <3>3. CASE Marks(c) /\ mark[c] = "terminal"
      BY <3>3 DEF Marks, Project, TypeOK, Terminal
    <3> QED  BY <1>2, <3>1, <3>2, <3>3
  <2>4. CASE c \in early  BY <2>1, <2>2, <2>4, BootLocal
  <2>5. CASE c \notin early
    <3>1. boot = "done"  BY <2>1, <2>5 DEF BootInv, BootIsQuiet
    <3> QED  BY <2>1, <2>2, <2>3, <3>1
             DEF BootInv, MirroredIsStuck, BootIsQuiet, MirrorHolds
  <2> QED  BY <2>4, <2>5
<1>3. CASE UserResumes(c)
  <2>1. /\ boot' = boot /\ early \subseteq early' /\ run' = run /\ mapped' = mapped
        /\ start' = start /\ agent[c] = "waiting_for_user" /\ mark' = mark
        /\ c \in early' \/ boot = "done"
    BY <1>3 DEF UserResumes
  <2>2. \A d \in Claim \ {c} : agent'[d] = agent[d] /\ engine'[d] = engine[d]
    BY <1>3 DEF UserResumes, TypeOK
  <2>3. c \in early \/ ~(mapped[c] /\ run[c] = "queued")
    BY <2>1 DEF BootInv, MirroredIsStuck
  <2> QED  BY <2>1, <2>2, <2>3
           DEF BootInv, MirroredIsStuck, BootIsQuiet, MirrorHolds
<1>4. CASE UserCancels(c)
  <2>1. /\ boot' = boot /\ early' = early /\ mapped' = mapped /\ start' = start
        /\ engine' = engine /\ mark' = mark /\ agent'[c] = "ended"
    BY <1>4 DEF UserCancels, runtime, TypeOK
  <2>2. \A d \in Claim : agent'[d] = "waiting_for_user" => agent[d] = "waiting_for_user"
    BY <1>4 DEF UserCancels, TypeOK
  <2>3. \A d \in Claim : run'[d] \in {"queued", "running"} => run'[d] = run[d]
    BY <1>4 DEF UserCancels, Project, TypeOK, Terminal
  <2> QED  BY <2>1, <2>2, <2>3, BootKept
<1>5. CASE ResumeEnds(c)
  <2>1. /\ boot' = boot /\ early' = early /\ run' = run /\ mapped' = mapped
        /\ start' = start /\ engine' = engine /\ mark' = mark
    BY <1>5 DEF ResumeEnds
  <2>2. \A d \in Claim : agent'[d] = "waiting_for_user" => agent[d] = "waiting_for_user"
    BY <1>5 DEF ResumeEnds, TypeOK
  <2> QED  BY <2>1, <2>2, BootKept
<1>6. CASE ResumeLost(c)
  <2>1. /\ boot' = boot /\ early' = early /\ run' = run /\ mapped' = mapped
        /\ start' = start /\ mark' = mark /\ agent' = agent
    BY <1>6 DEF ResumeLost
  <2>2. \A d \in Claim : engine'[d] = engine[d] \/ engine'[d] = "off"
    BY <1>6 DEF ResumeLost, TypeOK
  <2> QED  BY <2>1, <2>2 DEF BootInv, MirroredIsStuck, BootIsQuiet, MirrorHolds
<1> QED  BY <1>1, <1>2, <1>3, <1>4, <1>5, <1>6 DEF AgentStep

\* The writes of the reconciliation, one after the other.
LEMMA BootByBoot ==
    ASSUME TypeOK, HeldInv, BootInv, Boots \/ Restart
    PROVE  BootInv'
<1> USE DEF rows, runtime, extra
<1>1. CASE BootForeign \/ BootAgents
  <2>1. /\ UNCHANGED <<run, mapped, start, engine, mark, early>>
        /\ boot' = "mirror" \/ (boot = "agents" /\ boot' = "runs")
        /\ boot # "done"
        /\ \A c \in Claim : agent'[c] = agent[c] \/ agent'[c] = "interrupted"
    BY <1>1 DEF BootForeign, BootAgents, Interrupt
  <2> QED  BY <2>1 DEF BootInv, MirroredIsStuck, BootIsQuiet, MirrorHolds
<1>2. CASE BootMirror
  <2>1. /\ UNCHANGED <<agent, mapped, start, engine, mark, early>>
        /\ boot' = "agents" /\ boot = "mirror"
    BY <1>2 DEF BootMirror
  <2>2. \A c \in Claim : run'[c] = IF /\ mapped[c] /\ run[c] \in {"running", "waiting_for_user"}
                                      /\ agent[c] \in Active
                                   THEN agent[c] ELSE run[c]
    BY <1>2 DEF BootMirror, Mirrored
  <2>3. \A c \in Claim \ early : engine[c] = "off" /\ mark[c] = "none"
                                 /\ start[c] \in {"none", "over"}
    BY <2>1 DEF BootInv, BootIsQuiet
  <2>4. \A c \in Claim : mapped[c] => start[c] # "none"
    BY DEF HeldInv, UnmadeIsBlank
  <2>5. MirroredIsStuck'
    BY <2>1, <2>2, <2>3, <2>4 DEF BootInv, MirroredIsStuck
  <2>6. BootIsQuiet'  BY <2>1, <2>3 DEF BootIsQuiet
  <2>7. MirrorHolds'
    BY <2>1, <2>2 DEF MirrorHolds, Active
  <2> QED  BY <2>5, <2>6, <2>7 DEF BootInv
<1>3. CASE BootRuns
  <2>1. /\ UNCHANGED <<agent, mapped, start, engine, mark, early>>
        /\ boot' = "release" /\ boot = "runs"
        /\ \A c \in Claim : run'[c] # "queued"
    BY <1>3 DEF BootRuns
  <2> QED  BY <2>1 DEF BootInv, MirroredIsStuck, BootIsQuiet, MirrorHolds
<1>4. CASE BootRelease
  <2>1. /\ UNCHANGED <<agent, mapped, start, engine, mark, early>> /\ boot' = "done"
    BY <1>4 DEF BootRelease, Reconcile
  <2>2. \A c \in Claim : run'[c] \in {"queued", "running"} => run'[c] = run[c]
    BY <1>4, ReconcileSpares DEF BootRelease
  <2> QED  BY <2>1, <2>2 DEF BootInv, MirroredIsStuck, BootIsQuiet, MirrorHolds
<1>5. CASE Restart
  <2>1. /\ UNCHANGED <<agent, run, mapped, early>> /\ boot' = "foreign"
        /\ \A c \in Claim : /\ engine'[c] = "off" /\ mark'[c] = "none"
                            /\ start'[c] = IF start[c] = "none" THEN "none" ELSE "over"
    BY <1>5 DEF Restart
  <2> QED  BY <2>1 DEF BootInv, MirroredIsStuck, BootIsQuiet, MirrorHolds
<1> QED  BY <1>1, <1>2, <1>3, <1>4, <1>5 DEF Boots

\* One step of the system keeps what the reconciliation relies on.
LEMMA BootStepKeeps == TypeOK /\ HeldInv /\ BootInv /\ [Next]_vars => BootInv'
<1> SUFFICES ASSUME TypeOK, HeldInv, BootInv, [Next]_vars PROVE BootInv'
  OBVIOUS
<1> USE DEF rows, tasks, runtime, extra
<1>1. CASE Boots \/ Restart  BY <1>1, BootByBoot
<1>2. CASE UNCHANGED <<run, mapped, agent, start, boot, engine, mark, early>>
  BY <1>2, BootKept
<1>3. CASE SchedulerTicks \/ Trigger
  <2>1. Reconcile /\ UNCHANGED <<mapped, agent, start, boot, engine, mark, early>>
    BY <1>3 DEF SchedulerTicks, Trigger, Reconcile
  <2> QED  BY <2>1, ReconcileSpares, BootKept
<1>4. CASE SchedulerClaims
  <2>1. CASE Take(Fresh) /\ \E c \in Claim : start[c] = "none"
    BY <2>1, FreshIsClaim, BootByTake
  <2> QED  BY <1>2, <1>4, <2>1 DEF SchedulerClaims
<1>5. CASE TriggerClaims
  BY <1>5, FreshIsClaim, BootByTake DEF TriggerClaims
<1>6. CASE Pause \/ Resume \/ TimePasses
  BY <1>2, <1>6 DEF Pause, Resume, TimePasses, Edit
<1>7. CASE Delete
  <2>1. /\ UNCHANGED <<agent, start, boot, engine, mark, early>>
        /\ \A c \in Claim : ~mapped'[c] /\ run'[c] = "none"
    BY <1>7 DEF Delete
  <2> QED  BY <2>1, BootKept
<1>8. ASSUME NEW c \in Claim, Ages(c) PROVE BootInv'  BY <1>2, <1>8 DEF Ages
<1>9. ASSUME NEW c \in Claim, StartStep(c) PROVE BootInv'  BY <1>9, BootByStart
<1>10. ASSUME NEW c \in Claim, AgentStep(c) PROVE BootInv'  BY <1>10, BootByAgent
<1>11. CASE UNCHANGED vars  BY <1>2, <1>11 DEF vars
<1> QED  BY <1>1, <1>3, <1>4, <1>5, <1>6, <1>7, <1>8, <1>9, <1>10, <1>11
         DEF Next, Schedules

\* BootInv holds throughout.
LEMMA BootInvariant == Spec => []BootInv
<1>1. Init => BootInv
  BY DEF Init, BootInv, MirroredIsStuck, BootIsQuiet, MirrorHolds
<1> QED  BY <1>1, BootStepKeeps, HeldInvariant, TypeCorrect, PTL DEF Spec

\* A run that waits for its user is not interrupted by a restart, wherever the
\* app stopped between the two writes of a pause or of an earlier reconciliation.
THEOREM WaitingRunsSurvive == Spec => WaitingSurvives
<1>1. TypeOK /\ BootInv /\ [Next]_vars
      => [\A c \in Claim \ early :
              agent[c] = "waiting_for_user" => agent'[c] # "interrupted"]_vars
  <2>1. SUFFICES ASSUME TypeOK, BootInv, [Next]_vars, NEW c \in Claim \ early,
                        agent[c] = "waiting_for_user"
                 PROVE  agent'[c] # "interrupted"
    OBVIOUS
  <2> USE DEF rows, tasks, runtime, extra, TypeOK
  <2>2. CASE UNCHANGED agent  BY <2>1, <2>2
  <2>3. CASE BootForeign  BY <2>1, <2>3 DEF BootForeign, Interrupt
  <2>4. CASE BootAgents
    <3>1. boot = "agents"  BY <2>4 DEF BootAgents
    <3>2. mapped[c] => run[c] \notin {"queued", "running"}
      BY <2>1, <3>1 DEF BootInv, MirroredIsStuck, MirrorHolds
    <3> QED  BY <2>1, <2>4, <3>2 DEF BootAgents, Interrupt
  <2>5. CASE BootMirror \/ BootRuns \/ BootRelease \/ Restart
    BY <2>2, <2>5 DEF BootMirror, BootRuns, BootRelease, Restart
  <2>6. CASE SchedulerTicks \/ SchedulerClaims \/ Trigger \/ TriggerClaims
    BY <2>2, <2>6 DEF SchedulerTicks, SchedulerClaims, Trigger, TriggerClaims, Take
  <2>7. CASE Pause \/ Resume \/ Delete \/ TimePasses
    BY <2>2, <2>7 DEF Pause, Resume, Delete, TimePasses, Edit
  <2>8. ASSUME NEW d \in Claim, Ages(d) \/ StartStep(d) PROVE agent'[c] # "interrupted"
    <3>1. CASE CreateAgentRun(d)  BY <2>1, <3>1 DEF CreateAgentRun
    <3>2. CASE FailAgentRun(d)  BY <2>1, <3>2 DEF FailAgentRun
    <3>3. CASE UNCHANGED agent  BY <2>2, <3>3
    <3> QED  BY <2>8, <3>1, <3>2, <3>3
             DEF Ages, StartStep, NoWorkspace, Attach, PrepareFails, Dispatch, Dispatched,
                 DispatchLost, FailRun, GiveUp
  <2>9. ASSUME NEW d \in Claim, AgentStep(d) PROVE agent'[c] # "interrupted"
    <3>1. CASE Marks(d) \/ MarkFails(d)  BY <2>2, <3>1 DEF Marks, MarkFails
    <3>2. CASE AgentStarts(d)  BY <2>1, <3>2 DEF AgentStarts, Reads
    <3>3. CASE AgentPauses(d)  BY <2>1, <3>3 DEF AgentPauses, Reads
    <3>4. CASE AgentEnds(d)  BY <2>1, <3>4 DEF AgentEnds, Reads
    <3>5. CASE UserResumes(d) \/ ResumeRefused(d) \/ UserCancels(d)
      BY <2>1, <3>5 DEF UserResumes, ResumeRefused, UserCancels
    <3>6. CASE ResumeEnds(d)  BY <2>1, <3>6 DEF ResumeEnds
    <3>7. CASE ResumeLost(d)  BY <2>2, <3>7 DEF ResumeLost
    <3> QED  BY <2>9, <3>1, <3>2, <3>3, <3>4, <3>5, <3>6, <3>7 DEF AgentStep
  <2>10. CASE UNCHANGED vars  BY <2>2, <2>10 DEF vars
  <2> QED  BY <2>1, <2>3, <2>4, <2>5, <2>6, <2>7, <2>8, <2>9, <2>10
           DEF Next, Boots, Schedules
<1> QED  BY <1>1, BootInvariant, TypeCorrect, PTL DEF Spec, WaitingSurvives

-----------------------------------------------------------------------------
(* A claim is given back with its occurrence served *)

\* The routine's row after its claim was given back by a run that ended.
LEMMA ReleasedServes ==
    ASSUME TypeOK, NEW now, ReleaseTerminal(now)
    PROVE  routine' = routine \/ routine'.next # "due"
<1>1. Released.next # "due"  BY DEF Released, TypeOK
<1> QED  BY <1>1 DEF ReleaseTerminal

\* Whoever gives a claim back, the scheduler does not find the occurrence it
\* was made for due again, unless it was a manual or connector start that failed.
THEOREM OccurrencesAreServed == Spec => OccurrenceServed
<1>1. TypeOK /\ [Next]_vars
      => [\A c \in Claim :
             /\ routine.token = c /\ routine'.token = NoClaim
             /\ sched = c \/ start[c] # "failed_run"
             => routine'.next # "due"]_vars
  <2>1. SUFFICES ASSUME TypeOK, [Next]_vars, NEW c \in Claim, routine.token = c,
                        routine'.token = NoClaim, sched = c \/ start[c] # "failed_run"
                 PROVE  routine'.next # "due"
    OBVIOUS
  <2> USE DEF rows, tasks, runtime, extra
  <2>2. routine'.token # routine.token  BY <2>1, ConstAssumption
  <2>3. CASE UNCHANGED routine  BY <2>2, <2>3
  <2>4. ASSUME NEW now, ReleaseTerminal(now) PROVE routine'.next # "due"
    BY <2>1, <2>2, <2>4, ReleasedServes
  <2>5. CASE Boots \/ Restart
    BY <2>3, <2>4, <2>5 DEF Boots, BootForeign, BootMirror, BootAgents, BootRuns,
                            BootRelease, Restart, Reconcile
  <2>6. CASE SchedulerTicks \/ Trigger
    BY <2>4, <2>6 DEF SchedulerTicks, Trigger, Reconcile
  <2>7. CASE SchedulerClaims \/ TriggerClaims
    <3>1. ASSUME Take(Fresh), \E d \in Claim : start[d] = "none" PROVE FALSE
      <4>1. Fresh \in Claim  BY <3>1, FreshIsClaim
      <4>2. routine'.token = Fresh  BY <2>1, <3>1 DEF Take, TypeOK
      <4> QED  BY <2>1, <4>1, <4>2, ConstAssumption
    <3> QED  BY <2>3, <2>7, <3>1 DEF SchedulerClaims, TriggerClaims
  <2>8. CASE Pause \/ Resume \/ TimePasses
    <3>1. routine'.token = routine.token
      BY <2>1, <2>8 DEF Pause, Resume, TimePasses, Edit, Closed, TypeOK
    <3> QED  BY <2>2, <3>1
  <2>9. CASE Delete  BY <2>1, <2>9 DEF Delete, TypeOK
  <2>10. ASSUME NEW d \in Claim, StartStep(d) PROVE routine'.next # "due"
    <3>1. CASE GiveUp(d)
      <4>1. d = c  BY <2>1, <2>2, <3>1 DEF GiveUp
      <4>2. sched = c  BY <2>1, <3>1, <4>1 DEF GiveUp
      <4> QED  BY <2>1, <3>1, <4>1, <4>2 DEF GiveUp, TypeOK
    <3> QED  BY <2>3, <2>10, <3>1
             DEF StartStep, NoWorkspace, CreateAgentRun, Attach, PrepareFails, Dispatch,
                 Dispatched, DispatchLost, FailAgentRun, FailRun
  <2>11. ASSUME NEW d \in Claim, AgentStep(d) PROVE routine'.next # "due"
    BY <2>3, <2>4, <2>11 DEF AgentStep, AgentStarts, AgentPauses, AgentEnds, Marks,
                             MarkFails, UserResumes, ResumeEnds, ResumeLost,
                             ResumeRefused, UserCancels, Project
  <2>12. ASSUME NEW d \in Claim, Ages(d) PROVE routine'.next # "due"
    BY <2>3, <2>12 DEF Ages
  <2>13. CASE UNCHANGED vars  BY <2>3, <2>13 DEF vars
  <2> QED  BY <2>1, <2>5, <2>6, <2>7, <2>8, <2>9, <2>10, <2>11, <2>12, <2>13
           DEF Next, Schedules
<1> QED  BY <1>1, TypeCorrect, PTL DEF Spec, OccurrenceServed

-----------------------------------------------------------------------------
(* One execution at a time *)

\* Steps of start_claim before the runtime is asked, and after it gave up.
Unsent  == {"none", "claimed", "created", "attached"}
GivenUp == {"failing", "failed_agent", "failed_run"}

\* An engine works on the claim's agent run, or may yet do.
Hot(c) ==
    \/ start[c] = "attached"
    \/ agent[c] \in Active /\ (engine[c] # "off" \/ agent[c] = "waiting_for_user")

\* What start_claim, the runtime and the rows know of one claim agrees: before
\* the runtime is asked nothing works; an agent run that a start gave up, or that
\* ended, has no engine; and what is hot has an active row, unless the routine
\* was deleted with its rows.
Leg(c) ==
    /\ start[c] \in Unsent => engine[c] = "off" /\ agent[c] # "waiting_for_user"
    /\ c \notin early =>
           /\ start[c] \in {"created", "attached"} => agent[c] = "running"
           /\ start[c] \in GivenUp => engine[c] # "on"
           /\ start[c] \in GivenUp \ {"failing"} => agent[c] \notin Active
           /\ engine[c] = "on" => agent[c] \in Active
           /\ Hot(c) /\ routine.state # "deleted" => mapped[c] /\ run[c] \in Active

OneHot == \A c, d \in Claim \ early : Hot(c) /\ Hot(d) => c = d

FlightInv == (\A c \in Claim : Leg(c)) /\ OneHot

\* A claim's account is kept, and it gets hot only with a row in the queue.
Carried(c) ==
    /\ Leg(c)'
    /\ c \in early => c \in early'
    /\ c \notin early' /\ Hot(c)' => Hot(c) \/ run[c] = "queued"

\* A routine that was deleted stays deleted.
StaysDeleted == routine.state = "deleted" => routine'.state = "deleted"

\* A claim that a step leaves alone, but for its row, keeps its account.
LEMMA CarriedAlone ==
    ASSUME NEW c \in Claim, Leg(c), StaysDeleted, c \in early => c \in early',
           UNCHANGED <<start[c], agent[c], engine[c], mapped[c]>>,
           Hot(c) /\ mapped[c] /\ run[c] \in Active => run'[c] \in Active
    PROVE  Carried(c)
  BY DEF Leg, Carried, Hot, StaysDeleted

\* Giving a claim back does not undelete a routine.
LEMMA ReleaseKeepsDeleted ==
    ASSUME TypeOK, HeldInv, NEW now, UNCHANGED routine \/ ReleaseTerminal(now)
    PROVE  StaysDeleted
  BY DEF ReleaseTerminal, StaysDeleted, HeldInv, DeletedIsFree

\* start_claim: the row is active before the runtime is asked, and a start that
\* gives up has killed its runtime before it closes the row.
LEMMA CarriedByStart ==
    ASSUME TypeOK, HeldInv, FlightInv, NEW d \in Claim, StartStep(d), NEW c \in Claim
    PROVE  Carried(c)
<1>0. Leg(c)  BY DEF FlightInv
<1>1. early' = early
  BY DEF StartStep, NoWorkspace, CreateAgentRun, Attach, PrepareFails, Dispatch, Dispatched,
         DispatchLost, FailAgentRun, FailRun, GiveUp, extra
<1>2. routine'.state = routine.state
  <2>1. CASE GiveUp(d)  BY <2>1 DEF GiveUp, TypeOK
  <2>2. CASE ~GiveUp(d)
    BY <2>2 DEF StartStep, NoWorkspace, CreateAgentRun, Attach, PrepareFails, Dispatch,
                Dispatched, DispatchLost, FailAgentRun, FailRun
  <2> QED  BY <2>1, <2>2
<1>3. CASE c # d
  <2>1. UNCHANGED <<run[c], start[c], agent[c], engine[c], mapped[c]>>
    <3> USE <1>3 DEF TypeOK, rows, runtime, Goes, Returns
    <3>1. CASE NoWorkspace(d)     BY <3>1 DEF NoWorkspace
    <3>2. CASE CreateAgentRun(d)  BY <3>2 DEF CreateAgentRun
    <3>3. CASE Attach(d)          BY <3>3 DEF Attach
    <3>4. CASE PrepareFails(d)    BY <3>4 DEF PrepareFails
    <3>5. CASE Dispatch(d)        BY <3>5 DEF Dispatch
    <3>6. CASE Dispatched(d)      BY <3>6 DEF Dispatched
    <3>7. CASE DispatchLost(d)    BY <3>7 DEF DispatchLost
    <3>8. CASE FailAgentRun(d)    BY <3>8 DEF FailAgentRun
    <3>9. CASE FailRun(d)         BY <3>9 DEF FailRun
    <3>10. CASE GiveUp(d)         BY <3>10 DEF GiveUp
    <3> QED  BY <3>1, <3>2, <3>3, <3>4, <3>5, <3>6, <3>7, <3>8, <3>9, <3>10 DEF StartStep
  <2> QED  BY <1>0, <1>1, <1>2, <2>1, CarriedAlone DEF StaysDeleted
<1>4. CASE c = d
  <2> USE <1>0, <1>1, <1>2, <1>4 DEF TypeOK, Leg, Carried, Hot, Unsent, GivenUp, rows,
                                     runtime, Goes, Returns
  <2>1. CASE NoWorkspace(d)     BY <2>1 DEF NoWorkspace
  <2>2. CASE CreateAgentRun(d)  BY <2>2 DEF CreateAgentRun
  <2>3. CASE Attach(d)          BY <2>3 DEF Attach, Active
  <2>4. CASE PrepareFails(d)    BY <2>4 DEF PrepareFails
  <2>5. CASE Dispatch(d)        BY <2>5 DEF Dispatch, Active
  <2>6. CASE Dispatched(d)      BY <2>6 DEF Dispatched
  <2>7. CASE DispatchLost(d)    BY <2>7 DEF DispatchLost
  <2>8. CASE FailAgentRun(d)    BY <2>8 DEF FailAgentRun, Active
  <2>9. CASE FailRun(d)         BY <2>9 DEF FailRun, Active
  <2>10. CASE GiveUp(d)         BY <2>10 DEF GiveUp
  <2> QED  BY <2>1, <2>2, <2>3, <2>4, <2>5, <2>6, <2>7, <2>8, <2>9, <2>10 DEF StartStep
<1> QED  BY <1>3, <1>4

\* The projection of one run ends no row of a run that is hot.
LEMMA CarriedByAgent ==
    ASSUME TypeOK, HeldInv, FlightInv, NEW d \in Claim, AgentStep(d), NEW c \in Claim
    PROVE  Carried(c)
<1>0. Leg(c)  BY DEF FlightInv
<1>1. StaysDeleted
  <2>1. CASE UNCHANGED routine  BY <2>1 DEF StaysDeleted
  <2>2. UNCHANGED routine \/ ReleaseTerminal(run')
    BY DEF AgentStep, AgentStarts, AgentPauses, AgentEnds, Marks, MarkFails, UserResumes,
           ResumeEnds, ResumeLost, ResumeRefused, UserCancels, Project
  <2> QED  BY <2>1, <2>2, ReleaseKeepsDeleted
<1>2. UNCHANGED <<start, mapped>> /\ early \subseteq early'
  BY DEF AgentStep, AgentStarts, AgentPauses, AgentEnds, Marks, MarkFails, UserResumes,
         ResumeEnds, ResumeLost, ResumeRefused, UserCancels, rows, tasks, extra
<1>3. \A e \in Claim \ {d} : UNCHANGED <<run[e], agent[e], engine[e]>>
  <2> USE DEF TypeOK, rows, Reads
  <2>1. CASE AgentStarts(d)    BY <2>1 DEF AgentStarts
  <2>2. CASE AgentPauses(d)    BY <2>2 DEF AgentPauses
  <2>3. CASE AgentEnds(d)      BY <2>3 DEF AgentEnds
  <2>4. CASE Marks(d)          BY <2>4 DEF Marks, Project
  <2>5. CASE MarkFails(d)      BY <2>5 DEF MarkFails
  <2>6. CASE UserResumes(d)    BY <2>6 DEF UserResumes
  <2>7. CASE ResumeEnds(d)     BY <2>7 DEF ResumeEnds
  <2>8. CASE ResumeLost(d)     BY <2>8 DEF ResumeLost
  <2>9. CASE ResumeRefused(d)  BY <2>9 DEF ResumeRefused
  <2>10. CASE UserCancels(d)   BY <2>10 DEF UserCancels, Project, runtime
  <2> QED  BY <2>1, <2>2, <2>3, <2>4, <2>5, <2>6, <2>7, <2>8, <2>9, <2>10 DEF AgentStep
<1>4. CASE c # d  BY <1>0, <1>1, <1>2, <1>3, <1>4, CarriedAlone
<1>5. CASE c = d
  <2> USE <1>0, <1>1, <1>2, <1>5 DEF TypeOK, StaysDeleted, Leg, Carried, Hot, Unsent, GivenUp,
                                     Active, Reads, rows
  <2>1. CASE AgentStarts(d)    BY <2>1 DEF AgentStarts
  <2>2. CASE AgentPauses(d)    BY <2>2 DEF AgentPauses
  <2>3. CASE AgentEnds(d)      BY <2>3 DEF AgentEnds
  <2>4. CASE Marks(d)
    <3>1. UNCHANGED <<agent, engine>>  BY <2>4 DEF Marks
    <3>2. agent[c] \in Active /\ run[c] \in Active => run'[c] \in Active
      BY <2>4 DEF Marks, Project, Terminal
    <3> QED  BY <3>1, <3>2, CarriedAlone
  <2>5. CASE MarkFails(d)      BY <2>5 DEF MarkFails
  <2>6. CASE UserResumes(d)    BY <2>6 DEF UserResumes
  <2>7. CASE ResumeEnds(d)     BY <2>7 DEF ResumeEnds
  <2>8. CASE ResumeLost(d)     BY <2>8 DEF ResumeLost
  <2>9. CASE ResumeRefused(d)  BY <2>9 DEF ResumeRefused
  <2>10. CASE UserCancels(d)   BY <2>10 DEF UserCancels, runtime
  <2> QED  BY <2>1, <2>2, <2>3, <2>4, <2>5, <2>6, <2>7, <2>8, <2>9, <2>10 DEF AgentStep
<1> QED  BY <1>4, <1>5

\* A reconciliation ends only rows whose agent run ended or was never made.
LEMMA CarriedByReconcile ==
    ASSUME TypeOK, HeldInv, FlightInv, Reconcile, UNCHANGED <<start, agent, engine, early>>,
           NEW c \in Claim
    PROVE  Carried(c)
<1>1. StaysDeleted  BY ReleaseKeepsDeleted DEF Reconcile
<1>2. Leg(c) /\ mapped' = mapped  BY DEF FlightInv, Reconcile
<1>3. CASE c \in early
  BY <1>1, <1>2, <1>3 DEF Carried, Leg
<1>4. CASE c \notin early
  <2>1. Hot(c) => agent[c] \in Active  BY <1>2, <1>4 DEF Leg, Hot, Active
  <2>2. agent[c] \in Active /\ mapped[c] => run'[c] = run[c]
    BY DEF Reconcile, Ended, Expired, Active, Terminal
  <2> QED  BY <1>1, <1>2, <2>1, <2>2, CarriedAlone
<1> QED  BY <1>3, <1>4

\* A new claim has neither an agent run that waits nor an engine.
LEMMA CarriedByTake ==
    ASSUME TypeOK, HeldInv, FlightInv, NEW d \in Claim, start[d] = "none", Take(d),
           NEW c \in Claim
    PROVE  Carried(c)
<1>1. Leg(c)  BY DEF FlightInv
<1>2. /\ UNCHANGED <<mapped, agent, engine>> /\ early \subseteq early'
      /\ routine'.state = routine.state
      /\ \A e \in Claim \ {d} : UNCHANGED <<start[e], run[e]>>
      /\ start'[d] = "claimed"
  BY DEF Take, TypeOK, runtime
<1>3. CASE c # d  BY <1>1, <1>2, <1>3, CarriedAlone DEF StaysDeleted
<1>4. CASE c = d  BY <1>1, <1>2, <1>4 DEF Leg, Carried, Hot, Unsent, GivenUp
<1> QED  BY <1>3, <1>4

\* A restart stops every engine; the runs that wait keep their rows through the
\* reconciliation.
LEMMA CarriedByBoot ==
    ASSUME TypeOK, HeldInv, BootInv, FlightInv, Boots \/ Restart, NEW c \in Claim
    PROVE  Carried(c)
<1> USE DEF rows, runtime, extra
<1>0. Leg(c)  BY DEF FlightInv
<1>1. CASE Restart
  <2>1. /\ UNCHANGED <<routine, run, mapped, agent, early>>
        /\ engine'[c] = "off" /\ start'[c] \in {"none", "over"}
        /\ start'[c] = "none" => start[c] = "none"
    BY <1>1 DEF Restart
  <2> QED  BY <1>0, <2>1 DEF Leg, Carried, Hot, Unsent, GivenUp
<1>2. CASE BootRelease  BY <1>2, CarriedByReconcile DEF BootRelease
<1>3. CASE BootForeign \/ BootMirror \/ BootAgents \/ BootRuns
  <2>1. UNCHANGED <<routine, mapped, start, engine, early>> /\ boot # "done"
    BY <1>3 DEF BootForeign, BootMirror, BootAgents, BootRuns
  <2>2. agent'[c] = agent[c] \/ agent'[c] = "interrupted"
    BY <1>3 DEF BootForeign, BootMirror, BootAgents, BootRuns, Interrupt
  <2>3. CASE c \in early  BY <1>0, <2>1, <2>2, <2>3 DEF Leg, Carried
  <2>4. CASE c \notin early
    <3>1. engine[c] = "off" /\ start[c] \in {"none", "over"}
      BY <2>1, <2>4 DEF BootInv, BootIsQuiet
    <3>2. agent[c] = "waiting_for_user" /\ mapped[c] /\ run[c] \in Active => run'[c] \in Active
      <4>1. CASE BootForeign \/ BootAgents  BY <4>1 DEF BootForeign, BootAgents
      <4>2. CASE BootMirror  BY <4>2 DEF BootMirror, Mirrored, Active
      <4>3. CASE BootRuns
        <5>1. boot = "runs"  BY <4>3 DEF BootRuns
        <5>2. agent[c] = "waiting_for_user" /\ mapped[c] => run[c] \notin {"queued", "running"}
          BY <2>4, <5>1 DEF BootInv, MirrorHolds, MirroredIsStuck
        <5> QED  BY <4>3, <5>2 DEF BootRuns
      <4> QED  BY <1>3, <4>1, <4>2, <4>3
    <3> QED  BY <1>0, <2>1, <2>2, <2>4, <3>1, <3>2 DEF Leg, Carried, Hot, Unsent, GivenUp
  <2> QED  BY <2>3, <2>4
<1> QED  BY <1>1, <1>2, <1>3 DEF Boots

\* Edits touch no claim's account; a deletion takes the rows of all.
LEMMA CarriedByEdit ==
    ASSUME TypeOK, FlightInv, Pause \/ Resume \/ Delete \/ TimePasses, NEW c \in Claim
    PROVE  Carried(c)
<1>0. Leg(c)  BY DEF FlightInv
<1>1. CASE Pause \/ Resume \/ TimePasses
  <2>1. UNCHANGED <<run, mapped, start, agent, engine, early>> /\ StaysDeleted
    BY <1>1 DEF Pause, Resume, TimePasses, Edit, Closed, TypeOK, StaysDeleted, rows, tasks,
               runtime, extra
  <2> QED  BY <1>0, <2>1, CarriedAlone
<1>2. CASE Delete
  <2>1. UNCHANGED <<start, agent, engine, early>> /\ routine'.state = "deleted"
    BY <1>2 DEF Delete, TypeOK, tasks, runtime, extra
  <2> QED  BY <1>0, <2>1 DEF Leg, Carried, Hot
<1> QED  BY <1>1, <1>2

\* Every step keeps every claim's account.
LEMMA CarriedByAll ==
    ASSUME TypeOK, HeldInv, BootInv, FlightInv, [Next]_vars, NEW c \in Claim
    PROVE  Carried(c)
<1> USE DEF rows, tasks, runtime, extra
<1>1. CASE UNCHANGED <<routine, run, mapped, start, agent, engine, early>>
  BY <1>1, CarriedAlone DEF FlightInv, StaysDeleted
<1>2. CASE Boots \/ Restart  BY <1>2, CarriedByBoot
<1>3. CASE SchedulerTicks \/ Trigger
  BY <1>3, CarriedByReconcile DEF SchedulerTicks, Trigger
<1>4. CASE SchedulerClaims \/ TriggerClaims
  <2>1. CASE Take(Fresh) /\ \E d \in Claim : start[d] = "none"
    BY <2>1, FreshIsClaim, CarriedByTake
  <2> QED  BY <1>1, <1>4, <2>1 DEF SchedulerClaims, TriggerClaims
<1>5. CASE Pause \/ Resume \/ Delete \/ TimePasses  BY <1>5, CarriedByEdit
<1>6. ASSUME NEW d \in Claim, Ages(d) PROVE Carried(c)  BY <1>1, <1>6 DEF Ages
<1>7. ASSUME NEW d \in Claim, StartStep(d) PROVE Carried(c)  BY <1>7, CarriedByStart
<1>8. ASSUME NEW d \in Claim, AgentStep(d) PROVE Carried(c)  BY <1>8, CarriedByAgent
<1>9. CASE UNCHANGED vars  BY <1>1, <1>9 DEF vars
<1> QED  BY <1>2, <1>3, <1>4, <1>5, <1>6, <1>7, <1>8, <1>9 DEF Next, Schedules

\* One step makes no second claim hot: what has an active row holds the claim,
\* and a deleted routine makes nothing hot.
LEMMA FlightStep == TypeOK /\ HeldInv /\ BootInv /\ FlightInv /\ [Next]_vars => FlightInv'
<1> SUFFICES ASSUME TypeOK, HeldInv, BootInv, FlightInv, [Next]_vars PROVE FlightInv'
  OBVIOUS
<1>1. \A c \in Claim : Carried(c)  BY CarriedByAll
<1>2. OneHot'
  <2>1. SUFFICES ASSUME NEW c \in Claim, NEW d \in Claim, c \notin early', d \notin early',
                        Hot(c)', Hot(d)'
                 PROVE  c = d
    BY DEF OneHot
  <2>2. \A e \in {c, d} : e \notin early /\ (Hot(e) \/ run[e] = "queued")
    BY <1>1, <2>1 DEF Carried
  <2>3. CASE routine.state = "deleted"
    <3>1. \A e \in Claim : run[e] # "queued"
      BY <2>3, ConstAssumption DEF HeldInv, DeletedIsFree, ActiveHoldsClaim, Active
    <3> QED  BY <2>1, <2>2, <3>1 DEF FlightInv, OneHot
  <2>4. CASE routine.state # "deleted"
    <3>1. \A e \in {c, d} : run[e] \in Active  BY <2>1, <2>2, <2>4 DEF FlightInv, Leg, Active
    <3> QED  BY <2>1, <3>1 DEF HeldInv, ActiveHoldsClaim
  <2> QED  BY <2>3, <2>4
<1> QED  BY <1>1, <1>2 DEF FlightInv, Carried

\* Two engines never work for one routine, whatever is paused, deleted, expires,
\* fails to start or restarts, the runs excepted that SingleFlight names.
THEOREM OneRunAtATime == Spec => []SingleFlight
<1>1. Init => FlightInv
  BY DEF Init, FlightInv, OneHot, Leg, Hot, Unsent, GivenUp, Active
<1>2. FlightInv => SingleFlight
  <2>1. ASSUME FlightInv, NEW c \in Claim \ early, engine[c] = "on" PROVE Hot(c)
    BY <2>1 DEF FlightInv, Leg, Hot
  <2> QED  BY <2>1 DEF SingleFlight, FlightInv, OneHot
<1> QED  BY <1>1, <1>2, FlightStep, BootInvariant, HeldInvariant, TypeCorrect, PTL DEF Spec
=============================================================================
