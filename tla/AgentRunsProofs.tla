-------------------------- MODULE AgentRunsProofs --------------------------
(***************************************************************************)
(* Facts about AgentRuns for every set of sessions, runs and cards and     *)
(* every bound.                                                            *)
(***************************************************************************)
EXTENDS AgentRuns, SequenceTheorems, TLAPS

-----------------------------------------------------------------------------
(* Vocabulary *)

\* The commands are requests, and each is about a run.
LEMMA Requests ==
    /\ \A r \in Run : Start(r) \in Request /\ Cancel(r) \in Request
    /\ \A c \in Card : Resume(c) \in Request
    /\ \A q \in Request : RunFor(q) \in Run
BY ConstAssumption DEF Request, Start, Cancel, Resume, RunFor

\* The three kinds of request are apart.
LEMMA RequestsApart ==
    /\ \A r1, r2 : Start(r1) = Start(r2) => r1 = r2
    /\ \A r1, r2 : Start(r1) # Cancel(r2)
    /\ \A r1, c1 : Start(r1) # Resume(c1)
BY DEF Start, Cancel, Resume

\* Every step the commands take is one of the steps.
LEMMA CommandSteps ==
    /\ {"idle", "done", "left", "checked", "created", "ensured", "claimed", "sent",
        "accepted", "rejected", "refused", "session", "locking"} = CommandStep
    /\ \A q : Lost(q) \in {"idle", "left"}
BY DEF CommandStep, AtRest, Lost

\* Every status written is a run status.
LEMMA RunStatuses ==
    /\ RunStatus = {"none", "queued", "running", "waiting_for_user", "completed",
                    "cancelled", "failed", "interrupted"}
    /\ Active = {"queued", "running", "waiting_for_user"}
    /\ Terminal = {"completed", "cancelled", "failed", "interrupted"}
BY DEF RunStatus, Active, Terminal

\* Every run status yields a session status.
LEMMA SessionStatuses == \A s : SessionFor(s) \in SessionStatus
BY DEF SessionFor, SessionStatus

\* An event that names no card is an event.
LEMMA Events == \A kind \in EventKind, r \in Run : EventOf(kind, r) \in Event
BY DEF Event, EventOf, EventKind

-----------------------------------------------------------------------------
(* Type correctness *)

\* While the reader is within an event, that event is at the head of the pipe.
ReaderHoldsEvent ==
    \A g \in Gen :
        reader[g].step \in {"status", "session", "card", "release"}
        => HasFrame(g) /\ FrameAt(g) \in Event

TypeInv == TypeOK /\ ReaderHoldsEvent

\* The first state has every type.
LEMMA TypeInit == Init => TypeInv
BY ConstAssumption
   DEF Init, TypeInv, ReaderHoldsEvent, TypeOK, DbTypeOK, HostTypeOK, ReaderTypeOK,
       TasksTypeOK, SidecarTypeOK, LifeTypeOK, ReaderIdle, EngineOff, RunStatus,
       SessionStatus, CardStatus, CommandStep, AtRest, Reader, ReaderStage, Claim,
       Engine, Phase

\* What a step leaves alone keeps its type.
LEMMA TypeUnchanged ==
    ASSUME TypeOK
    PROVE  /\ UNCHANGED db => DbTypeOK'
           /\ UNCHANGED host => HostTypeOK'
           /\ UNCHANGED reader => ReaderTypeOK'
           /\ UNCHANGED tasks => TasksTypeOK'
           /\ UNCHANGED sidecar => SidecarTypeOK'
           /\ UNCHANGED life => LifeTypeOK'
BY DEF TypeOK, DbTypeOK, HostTypeOK, ReaderTypeOK, TasksTypeOK, SidecarTypeOK,
       LifeTypeOK, db, host, tasks, sidecar, life

\* The steps of the commands that touch nothing but the database and the
\* commands themselves.
LEMMA TypeCommand ==
    ASSUME TypeOK, UNCHANGED <<host, reader, sidecar, life>>, DbTypeOK', TasksTypeOK'
    PROVE  TypeOK'
BY TypeUnchanged DEF TypeOK

\* The database keeps its types when a run and its session are written.
LEMMA TypeWrites ==
    ASSUME DbTypeOK, NEW r \in Run, NEW status \in RunStatus
    PROVE  /\ WriteRun(r, status) => runStatus' \in [Run -> RunStatus]
           /\ WriteSession(r, status) => sessStatus' \in [Session -> SessionStatus]
BY SessionStatuses, ConstAssumption DEF DbTypeOK, WriteRun, WriteSession

\* A command that moves on and changes nothing else of the commands.
LEMMA TypeMove ==
    ASSUME TasksTypeOK, NEW q \in Request, NEW step \in CommandStep, Move(q, step),
           UNCHANGED <<via, seen, locking>>
    PROVE  TasksTypeOK'
BY DEF TasksTypeOK, Move

\* The commands keep the types: start_agent_run and retry_agent_run.
LEMMA TypeStart ==
    ASSUME TypeOK, NEW r \in Run,
           StartCheck(r) \/ RetryCheck(r) \/ CreateRun(r) \/ PrepareFails(r)
           \/ StartRefused(r) \/ StartRefusedSession(r)
    PROVE  TypeOK'
<1>1. UNCHANGED <<host, reader, sidecar, life>>
  BY DEF StartCheck, RetryCheck, CreateRun, PrepareFails, StartRefused,
         StartRefusedSession, host
<1>2. TasksTypeOK'
  BY Requests, CommandSteps, TypeMove
     DEF TypeOK, StartCheck, RetryCheck, CreateRun, PrepareFails, StartRefused,
         StartRefusedSession
<1>3. DbTypeOK'
  <2>1. CASE UNCHANGED db BY <2>1, TypeUnchanged
  <2>2. CASE CreateRun(r)
    BY <2>2, TypeWrites, RunStatuses DEF TypeOK, DbTypeOK, CreateRun
  <2>3. CASE StartRefused(r)
    BY <2>3, TypeWrites, RunStatuses DEF TypeOK, DbTypeOK, StartRefused
  <2>4. CASE StartRefusedSession(r)
    BY <2>4, TypeWrites, RunStatuses DEF TypeOK, DbTypeOK, StartRefusedSession
  <2> QED BY <2>1, <2>2, <2>3, <2>4 DEF StartCheck, RetryCheck, PrepareFails
<1> QED BY <1>1, <1>2, <1>3, TypeCommand

\* The commands keep the types: resolve_agent_interruption.
LEMMA TypeResume ==
    ASSUME TypeOK, NEW c \in Card,
           ResumeCheck(c) \/ ResumeClaim(c) \/ ResumeRestore(c)
           \/ ResumeRunning(c) \/ ResumeRunningSession(c)
    PROVE  TypeOK'
<1> RunOf[c] \in Run /\ SessionOf[RunOf[c]] \in Session BY ConstAssumption
<1>1. UNCHANGED <<host, reader, sidecar, life>>
  BY DEF ResumeCheck, ResumeClaim, ResumeRestore, ResumeRunning,
         ResumeRunningSession, host
<1>2. TasksTypeOK'
  <2>1. CASE ResumeCheck(c)
    BY <2>1, Requests, CommandSteps
       DEF TypeOK, DbTypeOK, TasksTypeOK, ResumeCheck, Move, Claim
  <2>2. CASE ResumeClaim(c) \/ ResumeRestore(c) \/ ResumeRunning(c)
             \/ ResumeRunningSession(c)
    BY <2>2, Requests, CommandSteps, TypeMove
       DEF TypeOK, ResumeClaim, ResumeRestore, ResumeRunning, ResumeRunningSession
  <2> QED BY <2>1, <2>2
<1>3. DbTypeOK'
  <2>1. CASE ResumeCheck(c) BY <2>1, TypeUnchanged DEF ResumeCheck
  <2>2. CASE ResumeClaim(c)
    <3>1. runStatus' \in [Run -> RunStatus]
      BY <2>2, RunStatuses DEF TypeOK, DbTypeOK, ResumeClaim, WriteRun, ClaimedStatus
    <3>2. sessStatus' \in [Session -> SessionStatus]
      BY <2>2 DEF TypeOK, DbTypeOK, ResumeClaim, SessionStatus
    <3>3. card' \in [Card -> CardStatus]
      BY <2>2 DEF TypeOK, DbTypeOK, ResumeClaim, CardStatus
    <3>4. saved' \in [Run -> SUBSET Card] /\ lastSeq' \in [Run -> Nat]
      BY <2>2 DEF TypeOK, DbTypeOK, ResumeClaim
    <3> QED BY <3>1, <3>2, <3>3, <3>4 DEF DbTypeOK
  <2>3. CASE ResumeRestore(c)
    <3>1. runStatus' \in [Run -> RunStatus]
      BY <2>3, RunStatuses DEF TypeOK, DbTypeOK, ResumeRestore, WriteRun
    <3>2. sessStatus' \in [Session -> SessionStatus]
      BY <2>3 DEF TypeOK, DbTypeOK, ResumeRestore, SessionStatus
    <3>3. card' \in [Card -> CardStatus]
      BY <2>3 DEF TypeOK, DbTypeOK, ResumeRestore, Reopen, CardStatus
    <3>4. saved' \in [Run -> SUBSET Card] /\ lastSeq' \in [Run -> Nat]
      BY <2>3 DEF TypeOK, DbTypeOK, TasksTypeOK, Claim, ResumeRestore
    <3> QED BY <3>1, <3>2, <3>3, <3>4 DEF DbTypeOK
  <2>4. CASE ResumeRunning(c)
    BY <2>4, TypeWrites, RunStatuses DEF TypeOK, DbTypeOK, ResumeRunning
  <2>5. CASE ResumeRunningSession(c)
    BY <2>5, TypeWrites, RunStatuses DEF TypeOK, DbTypeOK, ResumeRunningSession
  <2> QED BY <2>1, <2>2, <2>3, <2>4, <2>5
<1> QED BY <1>1, <1>2, <1>3, TypeCommand

\* The commands keep the types: cancel_agent_run of a waiting run.
LEMMA TypeCancel ==
    ASSUME TypeOK, NEW r \in Run, CancelWaiting(r) \/ CancelCommit(r)
    PROVE  TypeOK'
<1>1. UNCHANGED <<host, reader, sidecar, life>>
  BY DEF CancelWaiting, CancelCommit, host
<1>2. TasksTypeOK'
  BY Requests, CommandSteps
     DEF TypeOK, TasksTypeOK, CancelWaiting, CancelCommit, Move, Pending, CardsOf
<1>3. DbTypeOK'
  <2>1. CASE CancelWaiting(r) BY <2>1, TypeUnchanged DEF CancelWaiting
  <2>2. CASE CancelCommit(r)
    <3>1. runStatus' \in [Run -> RunStatus]
      BY <2>2, TypeWrites, RunStatuses DEF TypeOK, DbTypeOK, CancelCommit
    <3>2. sessStatus' \in [Session -> SessionStatus]
      BY <2>2, TypeWrites, RunStatuses DEF TypeOK, DbTypeOK, CancelCommit
    <3>3. card' \in [Card -> CardStatus]
      BY <2>2 DEF TypeOK, DbTypeOK, CancelCommit, CardStatus
    <3> QED BY <2>2, <3>1, <3>2, <3>3 DEF TypeOK, DbTypeOK, CancelCommit
  <2> QED BY <2>1, <2>2
<1> QED BY <1>1, <1>2, <1>3, TypeCommand

\* Starting a runtime keeps the types, whichever command asks for it.
LEMMA TypeEnsure ==
    ASSUME TypeOK, NEW q \in Request, NEW from, NEW refused \in {"refused", "idle"},
           EnsureStarted(q, from, refused)
    PROVE  TypeOK'
<1>1. TasksTypeOK' BY CommandSteps, TypeMove DEF TypeOK, EnsureStarted
<1>2. HostTypeOK' BY ConstAssumption DEF TypeOK, HostTypeOK, EnsureStarted
<1>3. SidecarTypeOK' BY DEF TypeOK, SidecarTypeOK, EnsureStarted
<1> QED BY <1>1, <1>2, <1>3, TypeUnchanged DEF TypeOK, EnsureStarted

\* So does sending a request with a state made of cards.
LEMMA TypeSend ==
    ASSUME TypeOK, NEW q \in Request, NEW state \in SUBSET Card, Send(q, state)
    PROVE  TypeOK'
<1>1. [req |-> q, state |-> state] \in Message BY DEF Message
<1>2. TasksTypeOK'
  <2>1. task' \in [Request -> CommandStep]
    BY CommandSteps DEF TypeOK, TasksTypeOK, Send, Move
  <2>2. via' \in [Request -> 0..MaxGen]
    <3>1. inner \in 0..MaxGen BY DEF TypeOK, HostTypeOK
    <3> QED BY <3>1 DEF TypeOK, TasksTypeOK, Send
  <2> QED BY <2>1, <2>2 DEF TypeOK, TasksTypeOK, Send
<1>3. HostTypeOK'
  <2>1. RunFor(q) \in Run BY Requests
  <2> QED BY <2>1 DEF TypeOK, HostTypeOK, Send
<1>4. SidecarTypeOK'
  <2> DEFINE m == [req |-> q, state |-> state]
  <2>1. \/ UNCHANGED inbox
        \/ inbox' = [inbox EXCEPT ![inner] = Append(@, m)]
    BY DEF Send
  <2> HIDE DEF m
  <2>2. \A s \in Seq(Message) : Append(s, m) \in Seq(Message)
    BY <1>1 DEF m
  <2>3. inbox' \in [Gen -> Seq(Message)]
    <3>1. inbox \in [Gen -> Seq(Message)] BY DEF TypeOK, SidecarTypeOK
    <3>2. ASSUME NEW g \in Gen PROVE [inbox EXCEPT ![inner] = Append(@, m)][g] \in Seq(Message)
      BY <3>1, <2>2
    <3> QED BY <2>1, <3>1, <3>2
  <2> QED BY <2>3 DEF TypeOK, SidecarTypeOK, Send
<1> QED BY <1>2, <1>3, <1>4, TypeUnchanged DEF TypeOK, Send

\* The end of a process keeps the types.
LEMMA TypeKill ==
    ASSUME SidecarTypeOK, NEW g, Kill(g)
    PROVE  /\ alive' \in [Gen -> BOOLEAN]
           /\ inbox' \in [Gen -> Seq(Message)]
           /\ engine' \in [Gen -> [Run -> Engine]]
<1>1. [r \in Run |-> EngineOff] \in [Run -> Engine] BY DEF EngineOff, Engine, Phase
<1>2. <<>> \in Seq(Message) OBVIOUS
<1>3. alive' \in [Gen -> BOOLEAN] BY DEF SidecarTypeOK, Kill
<1>4. inbox' \in [Gen -> Seq(Message)] BY <1>2 DEF SidecarTypeOK, Kill
<1>5. engine' \in [Gen -> [Run -> Engine]] BY <1>1 DEF SidecarTypeOK, Kill
<1> QED BY <1>3, <1>4, <1>5

\* So do a refusal by the sidecar and a timeout.
LEMMA TypeAwait ==
    ASSUME TypeOK, NEW q \in Request, DropOwnership(q) \/ Timeout(q)
    PROVE  TypeOK'
<1>1. CASE DropOwnership(q)
  <2>1. TasksTypeOK' BY <1>1, CommandSteps, TypeMove DEF TypeOK, DropOwnership
  <2>2. HostTypeOK' BY <1>1 DEF TypeOK, HostTypeOK, DropOwnership
  <2> QED BY <1>1, <2>1, <2>2, TypeUnchanged DEF TypeOK, DropOwnership
<1>2. CASE Timeout(q)
  <2>1. TasksTypeOK' BY <1>2, CommandSteps, TypeMove DEF TypeOK, Timeout
  <2>2. HostTypeOK' BY <1>2, ConstAssumption DEF TypeOK, HostTypeOK, Timeout
  <2>3. SidecarTypeOK' BY <1>2, TypeKill DEF TypeOK, SidecarTypeOK, Timeout
  <2> QED BY <1>2, <2>1, <2>2, <2>3, TypeUnchanged DEF TypeOK, Timeout
<1> QED BY <1>1, <1>2

\* The head of the pipe and what is left of it keep their types.
LEMMA TypeNextFrame ==
    ASSUME TypeOK, NEW g \in Gen, HasFrame(g)
    PROVE  /\ FrameAt(g) \in Frame
           /\ NextFrame(g) => /\ outbox' \in [Gen -> Seq(Frame)]
                              /\ reader' \in [Gen -> Reader]
<1>1. outbox[g] \in Seq(Frame) /\ outbox[g] # <<>>
  BY DEF TypeOK, SidecarTypeOK, HasFrame
<1>2. Head(outbox[g]) \in Frame /\ Tail(outbox[g]) \in Seq(Frame) BY <1>1
<1>3. ReaderIdle \in Reader
  BY RunStatuses DEF ReaderIdle, Reader, ReaderStage
<1> QED BY <1>2, <1>3 DEF TypeOK, SidecarTypeOK, ReaderTypeOK, FrameAt, NextFrame

\* An event frame is an event, a reply frame is a reply.
LEMMA Frames ==
    /\ \A f \in Frame : f.kind \in EventKind => f \in Event
    /\ \A f \in Frame : f.kind \in ReplyKind => f \in Reply
    /\ \A f \in Event : /\ f.run \in Run /\ f.seq \in Nat /\ f.state \in SUBSET Card
                        /\ f.kind \in EventKind
    /\ \A f \in Reply : f.req \in Request
BY DEF Frame, Event, Reply, EventKind, ReplyKind

\* A stage of the reader is a stage.
LEMMA TypeStep ==
    ASSUME ReaderTypeOK, NEW g \in Gen, NEW step \in ReaderStage, Step(g, step)
    PROVE  ReaderTypeOK'
BY DEF ReaderTypeOK, Step, Reader

\* A stage of the reader that leaves the pipe alone or takes its head off.
LEMMA TypeAfterStatus ==
    ASSUME TypeOK, NEW g \in Gen, HasFrame(g), NEW kind, AfterStatus(g, kind)
    PROVE  ReaderTypeOK' /\ outbox' \in [Gen -> Seq(Frame)]
<1>1. CASE NextFrame(g) BY <1>1, TypeNextFrame DEF ReaderTypeOK
<1>2. CASE (Step(g, "card") \/ Step(g, "release")) /\ UNCHANGED outbox
  <2>1. {"card", "release"} \subseteq ReaderStage BY DEF ReaderStage
  <2> QED BY <1>2, <2>1, TypeStep DEF TypeOK, SidecarTypeOK
<1> QED BY <1>1, <1>2 DEF AfterStatus

\* The stdout reader keeps the types while it handles a frame.
LEMMA TypeReader ==
    ASSUME TypeInv, NEW g \in Gen,
           ReadReply(g) \/ ReadUsage(g) \/ ReadEvent(g) \/ ReadEventSession(g)
           \/ AppendCard(g) \/ Release(g)
    PROVE  TypeOK'
<1> TypeOK /\ HasFrame(g) /\ FrameAt(g) \in Frame
  BY TypeNextFrame DEF TypeInv, ReadReply, ReadUsage, ReadEvent, ReadEventSession,
     AppendCard, Release
<1> DEFINE f == FrameAt(g)
<1> HIDE DEF f
<1>1. CASE ReadReply(g)
  <2>1. f \in Reply BY <1>1, Frames DEF ReadReply, f
  <2>2. TasksTypeOK'
    BY <1>1, <2>1, Frames, CommandSteps DEF ReadReply, TypeOK, TasksTypeOK, Move, f
  <2>3. ReaderTypeOK' /\ SidecarTypeOK'
    BY <1>1, TypeNextFrame DEF ReadReply, TypeOK, ReaderTypeOK, SidecarTypeOK
  <2> QED BY <1>1, <2>2, <2>3, TypeUnchanged DEF ReadReply, TypeOK
<1>2. CASE ReadUsage(g)
  <2>1. f \in Event BY <1>2, Frames DEF ReadUsage, EventKind, f
  <2>2. runStatus[f.run] \in RunStatus BY <2>1, Frames DEF TypeOK, DbTypeOK
  <2>3. ReaderTypeOK'
    BY <1>2, <2>2 DEF ReadUsage, TypeOK, ReaderTypeOK, Reader, ReaderStage, f
  <2> QED BY <1>2, <2>3, TypeUnchanged DEF ReadUsage, TypeOK
<1>3. CASE ReadEvent(g)
  <2>1. f \in Event BY <1>3, Frames DEF ReadEvent, f
  <2> DEFINE status == IF f.kind = "usage.updated" THEN reader[g].status
                       ELSE StatusOf(f.kind)
  <2>2. status \in RunStatus
    <3>1. f.kind \in EventKind BY <2>1, Frames
    <3>2. CASE f.kind = "usage.updated" BY <3>2 DEF TypeOK, ReaderTypeOK, Reader
    <3>3. CASE f.kind # "usage.updated"
      BY <3>1, <3>3, RunStatuses DEF EventKind, StatusOf
    <3> QED BY <3>2, <3>3
  <2> HIDE DEF status
  <2>3. CASE Writable(f.run)
    <3>1. /\ WriteRun(f.run, status)
          /\ saved' = SavedBy(f)
          /\ reader' = [reader EXCEPT ![g] = [@ EXCEPT !.step = "session",
                                                       !.status = status]]
          /\ UNCHANGED outbox
      BY <1>3, <2>3 DEF ReadEvent, f, status
    <3>2. runStatus' \in [Run -> RunStatus]
      BY <2>1, <2>2, <3>1, Frames, TypeWrites DEF TypeOK
    <3>3. saved' \in [Run -> SUBSET Card]
      BY <2>1, <3>1, Frames DEF TypeOK, DbTypeOK, SavedBy
    <3>4. ReaderTypeOK'
      BY <2>2, <3>1 DEF TypeOK, ReaderTypeOK, Reader, ReaderStage
    <3>5. DbTypeOK' BY <1>3, <3>2, <3>3 DEF ReadEvent, TypeOK, DbTypeOK
    <3>6. SidecarTypeOK' BY <1>3, <3>1 DEF ReadEvent, TypeOK, SidecarTypeOK
    <3> QED BY <1>3, <3>4, <3>5, <3>6, TypeUnchanged DEF ReadEvent, TypeOK
  <2>4. CASE ~Writable(f.run)
    <3>1. AfterStatus(g, f.kind) /\ UNCHANGED <<runStatus, saved>>
      BY <1>3, <2>4 DEF ReadEvent, f
    <3>2. ReaderTypeOK' /\ outbox' \in [Gen -> Seq(Frame)]
      BY <3>1, TypeAfterStatus
    <3>3. DbTypeOK' BY <1>3, <3>1 DEF ReadEvent, TypeOK, DbTypeOK
    <3>4. SidecarTypeOK' BY <1>3, <3>2 DEF ReadEvent, TypeOK, SidecarTypeOK
    <3> QED BY <1>3, <3>2, <3>3, <3>4, TypeUnchanged DEF ReadEvent, TypeOK
  <2> QED BY <2>3, <2>4
<1>4. CASE ReadEventSession(g)
  <2>1. f \in Event BY <1>4 DEF ReadEventSession, TypeInv, ReaderHoldsEvent, f
  <2>2. reader[g].status \in RunStatus BY DEF TypeOK, ReaderTypeOK, Reader
  <2>3. sessStatus' \in [Session -> SessionStatus]
    BY <1>4, <2>1, <2>2, Frames, TypeWrites DEF ReadEventSession, TypeOK, f
  <2>4. ReaderTypeOK' /\ outbox' \in [Gen -> Seq(Frame)]
    BY <1>4, TypeAfterStatus DEF ReadEventSession
  <2>5. DbTypeOK' BY <1>4, <2>3 DEF ReadEventSession, TypeOK, DbTypeOK
  <2>6. SidecarTypeOK' BY <1>4, <2>4 DEF ReadEventSession, TypeOK, SidecarTypeOK
  <2> QED BY <1>4, <2>4, <2>5, <2>6, TypeUnchanged DEF ReadEventSession, TypeOK
<1>5. CASE AppendCard(g)
  <2>1. f \in Event BY <1>5 DEF AppendCard, TypeInv, ReaderHoldsEvent, f
  <2>2. card' \in [Card -> CardStatus]
    BY <1>5 DEF AppendCard, TypeOK, DbTypeOK, CardStatus
  <2>3. lastSeq' \in [Run -> Nat]
    BY <1>5, <2>1, Frames DEF AppendCard, TypeOK, DbTypeOK, f
  <2>4. DbTypeOK' BY <1>5, <2>2, <2>3 DEF AppendCard, TypeOK, DbTypeOK
  <2>5. ReaderTypeOK' BY <1>5, TypeStep DEF AppendCard, TypeOK, ReaderStage
  <2> QED BY <1>5, <2>4, <2>5, TypeUnchanged DEF AppendCard, TypeOK
<1>6. CASE Release(g)
  <2>1. HostTypeOK' BY <1>6 DEF Release, TypeOK, HostTypeOK
  <2>2. ReaderTypeOK' /\ SidecarTypeOK'
    BY <1>6, TypeNextFrame DEF Release, TypeOK, ReaderTypeOK, SidecarTypeOK
  <2>3. DbTypeOK' /\ TasksTypeOK' /\ LifeTypeOK'
    BY <1>6, TypeUnchanged DEF Release
  <2> QED BY <2>1, <2>2, <2>3 DEF TypeOK
<1> QED BY <1>1, <1>2, <1>3, <1>4, <1>5, <1>6

\* The stdout reader keeps the types at the end of the pipe.
LEMMA TypeReaderEnd ==
    ASSUME TypeOK, NEW g \in Gen,
           ReadEnd(g) \/ ReaderStops(g)
           \/ \E r \in Run : Settle(g, r) \/ SettleSession(g, r)
    PROVE  TypeOK'
<1> {"settle", "settle_session", "ended"} \subseteq ReaderStage BY DEF ReaderStage
<1>1. CASE ReadEnd(g)
  <2>1. TasksTypeOK' BY <1>1, CommandSteps DEF ReadEnd, TypeOK, TasksTypeOK
  <2>2. HostTypeOK' BY <1>1 DEF ReadEnd, TypeOK, HostTypeOK
  <2>3. ReaderTypeOK' BY <1>1 DEF ReadEnd, TypeOK, HostTypeOK, ReaderTypeOK, Reader
  <2> QED BY <1>1, <2>1, <2>2, <2>3, TypeUnchanged DEF ReadEnd, TypeOK
<1>2. ASSUME NEW r \in Run, Settle(g, r) PROVE TypeOK'
  <2>1. DbTypeOK' BY <1>2, TypeWrites, RunStatuses DEF Settle, TypeOK, DbTypeOK
  <2>2. ReaderTypeOK'
    <3> DEFINE rest == [reader[g] EXCEPT !.doomed = @ \ {r}]
    <3>1. rest \in Reader /\ rest.step = "settle"
      BY <1>2 DEF Settle, TypeOK, ReaderTypeOK, Reader
    <3>2. [rest EXCEPT !.step = "settle_session", !.now = {r}] \in Reader
      BY <3>1 DEF Reader
    <3> HIDE DEF rest
    <3>3. \/ reader' = [reader EXCEPT ![g] = rest]
          \/ reader' = [reader EXCEPT ![g] =
                           [rest EXCEPT !.step = "settle_session", !.now = {r}]]
      BY <1>2 DEF Settle, rest
    <3> QED BY <3>1, <3>2, <3>3 DEF TypeOK, ReaderTypeOK
  <2> QED BY <1>2, <2>1, <2>2, TypeUnchanged DEF Settle, TypeOK
<1>3. ASSUME NEW r \in Run, SettleSession(g, r) PROVE TypeOK'
  <2>1. DbTypeOK' BY <1>3, TypeWrites, RunStatuses DEF SettleSession, TypeOK, DbTypeOK
  <2>2. ReaderTypeOK' BY <1>3 DEF SettleSession, TypeOK, ReaderTypeOK, Reader
  <2> QED BY <1>3, <2>1, <2>2, TypeUnchanged DEF SettleSession, TypeOK
<1>4. CASE ReaderStops(g)
  BY <1>4, TypeStep, TypeUnchanged DEF ReaderStops, TypeOK
<1> QED BY <1>1, <1>2, <1>3, <1>4

\* Emitting frames and writing an engine keep the types.
LEMMA TypeEmit ==
    ASSUME SidecarTypeOK, NEW g \in Gen
    PROVE  /\ \A frames \in Seq(Frame) :
                  Emit(g, frames) => outbox' \in [Gen -> Seq(Frame)]
           /\ \A r \in Run, e \in Engine :
                  SetEngine(g, r, e) => engine' \in [Gen -> [Run -> Engine]]
<1>1. ASSUME NEW frames \in Seq(Frame), Emit(g, frames)
      PROVE  outbox' \in [Gen -> Seq(Frame)]
  <2>1. outbox[g] \o frames \in Seq(Frame)
    BY ConcatProperties DEF SidecarTypeOK
  <2> QED BY <1>1, <2>1 DEF SidecarTypeOK, Emit
<1>2. ASSUME NEW r \in Run, NEW e \in Engine, SetEngine(g, r, e)
      PROVE  engine' \in [Gen -> [Run -> Engine]]
  BY <1>2 DEF SidecarTypeOK, SetEngine
<1> QED BY <1>1, <1>2

\* What the sidecar emits is made of frames.
LEMMA Emitted ==
    /\ \A k \in EventKind, r \in Run : <<EventOf(k, r)>> \in Seq(Frame)
    /\ \A k1, k2 \in EventKind, r \in Run : <<EventOf(k1, r), EventOf(k2, r)>> \in Seq(Frame)
    /\ \A q \in Request, k \in ReplyKind : <<ReplyTo(q, k)>> \in Seq(Frame)
    /\ \A q \in Request, k \in ReplyKind, kind \in EventKind, r \in Run :
           <<EventOf(kind, r), ReplyTo(q, k)>> \in Seq(Frame)
<1>1. \A k \in EventKind, r \in Run : EventOf(k, r) \in Frame
  BY Events DEF Frame
<1>2. \A q \in Request, k \in ReplyKind : ReplyTo(q, k) \in Frame
  BY DEF Frame, Reply, ReplyTo
<1> QED BY <1>1, <1>2

\* The engine of a run is an engine, and so are the ones the steps build.
LEMMA Engines ==
    /\ EngineOff \in Engine
    /\ \A p \in Phase, state \in SUBSET Card, unsent \in SUBSET Card :
           [phase |-> p, abort |-> FALSE, state |-> state, unsent |-> unsent] \in Engine
    /\ \A e \in Engine, p \in Phase : [e EXCEPT !.phase = p] \in Engine
    /\ \A e \in Engine, b \in BOOLEAN : [e EXCEPT !.abort = b] \in Engine
    /\ \A e \in Engine, C \in SUBSET Card : [e EXCEPT !.unsent = @ \ C] \in Engine
    /\ \A p \in Phase, C \in SUBSET Card :
           [EngineOff EXCEPT !.phase = p, !.state = C] \in Engine
    /\ Phase = {"off", "accepted", "going", "unknown", "pausing"}
BY DEF Engine, EngineOff, Phase

\* What a handled request reads and leaves alone.
LEMMA HandleFrame ==
    ASSUME NEW g, Handle(g)
    PROVE  /\ alive[g] /\ inbox[g] # <<>>
           /\ inbox' = [inbox EXCEPT ![g] = Tail(@)]
           /\ UNCHANGED <<db, host, reader, tasks, alive, seq, asked, bundled, life>>
BY Zenon DEF Handle

\* A handled request keeps the types.
LEMMA TypeHandle ==
    ASSUME TypeOK, NEW g \in Gen, Handle(g)
    PROVE  TypeOK'
<1> DEFINE m == Head(inbox[g])
           r == RunFor(m.req)
<1>1. m \in Message /\ Tail(inbox[g]) \in Seq(Message)
  <2>1. inbox[g] \in Seq(Message) /\ inbox[g] # <<>>
    BY HandleFrame DEF TypeOK, SidecarTypeOK
  <2> QED BY <2>1
<1>2. m.req \in Request /\ m.state \in SUBSET Card /\ r \in Run
  BY <1>1, Requests DEF Message
<1> HIDE DEF m, r
<1>3. inbox' \in [Gen -> Seq(Message)]
  BY <1>1, HandleFrame DEF TypeOK, SidecarTypeOK, m
<1>4. {"accepted", "rejected"} = ReplyKind /\ "run.started" \in EventKind
  BY DEF ReplyKind, EventKind
<1>5. engine[g][r] \in Engine
  <2>1. engine \in [Gen -> [Run -> Engine]] BY DEF TypeOK, SidecarTypeOK
  <2> QED BY <1>2, <2>1
<1> DEFINE idle == engine[g][r].phase = "off"
<1>6. /\ outbox' \in [Gen -> Seq(Frame)]
      /\ engine' \in [Gen -> [Run -> Engine]]
      /\ applied' \in [Card -> Nat]
  <2>1. CASE /\ SetEngine(g, r, [EngineOff EXCEPT !.phase = "accepted"])
             /\ Emit(g, <<ReplyTo(m.req, "accepted")>>)
             /\ UNCHANGED applied
    BY <2>1, <1>2, <1>4, TypeEmit, Emitted, Engines DEF TypeOK, SidecarTypeOK
  <2>2. CASE /\ m.req.op = "resume"
             /\ SetEngine(g, r,
                    IF m.req.id \in m.state
                      THEN [EngineOff EXCEPT !.phase = "going",
                                             !.state = m.state \ {m.req.id}]
                      ELSE [EngineOff EXCEPT !.phase = "unknown"])
             /\ applied' = IF m.req.id \in m.state
                           THEN [applied EXCEPT ![m.req.id] = @ + 1] ELSE applied
             /\ Emit(g, <<EventOf("run.started", r), ReplyTo(m.req, "accepted")>>)
    <3>1. outbox' \in [Gen -> Seq(Frame)]
      BY <2>2, <1>2, <1>4, TypeEmit, Emitted DEF TypeOK
    <3>2. applied' \in [Card -> Nat]
      BY <2>2, <1>2 DEF TypeOK, SidecarTypeOK
    <3>3. engine' \in [Gen -> [Run -> Engine]]
      <4>1. /\ [EngineOff EXCEPT !.phase = "going", !.state = m.state \ {m.req.id}] \in Engine
            /\ [EngineOff EXCEPT !.phase = "unknown"] \in Engine
        BY <1>2, Engines
      <4> QED BY <2>2, <1>2, <4>1, TypeEmit DEF TypeOK
    <3> QED BY <3>1, <3>2, <3>3
  <2>3. CASE Emit(g, <<ReplyTo(m.req, "rejected")>>) /\ UNCHANGED <<engine, applied>>
    BY <2>3, <1>2, <1>4, TypeEmit, Emitted DEF TypeOK, SidecarTypeOK
  <2>4. CASE /\ SetEngine(g, r, [engine[g][r] EXCEPT !.abort = ~idle])
             /\ Emit(g, <<ReplyTo(m.req, "accepted")>>)
             /\ UNCHANGED applied
    <3>1. [engine[g][r] EXCEPT !.abort = ~idle] \in Engine BY <1>5 DEF Engine
    <3> QED BY <2>4, <3>1, <1>2, <1>4, TypeEmit, Emitted DEF TypeOK, SidecarTypeOK
  <2> QED BY <2>1, <2>2, <2>3, <2>4, Zenon DEF Handle, m, r
<1>7. SidecarTypeOK' BY <1>3, <1>6, HandleFrame DEF TypeOK, SidecarTypeOK
<1> QED BY <1>7, TypeUnchanged, HandleFrame DEF TypeOK

\* The steps of an engine keep the types.
LEMMA TypeEngine ==
    ASSUME TypeOK, NEW g \in Gen, NEW r \in Run,
           EngineBegins(g, r) \/ EngineCompletes(g, r) \/ EngineFails(g, r)
           \/ EngineCancelled(g, r) \/ EnginePauses(g, r)
           \/ \E c \in Card : EngineAsks(g, r, c)
    PROVE  TypeOK'
<1>1. engine[g][r] \in Engine BY DEF TypeOK, SidecarTypeOK
<1>2. EventKind = {"run.started", "usage.updated", "interruption.requested",
                   "run.completed", "run.cancelled", "run.failed"}
  BY DEF EventKind
<1>3. CASE EngineBegins(g, r)
  BY <1>1, <1>2, <1>3, TypeEmit, Emitted, Engines, TypeUnchanged
     DEF EngineBegins, TypeOK, SidecarTypeOK
<1>4. CASE EngineCompletes(g, r) \/ EngineFails(g, r) \/ EngineCancelled(g, r)
  <2>1. PICK kind \in {"run.completed", "run.failed", "run.cancelled"} :
            EngineEnds(g, r, kind)
    BY <1>4 DEF EngineCompletes, EngineFails, EngineCancelled
  <2>2. outbox' \in [Gen -> Seq(Frame)]
    BY <1>2, <2>1, TypeEmit, Emitted DEF EngineEnds, TypeOK
  <2>3. engine' \in [Gen -> [Run -> Engine]]
    BY <2>1, TypeEmit, Engines DEF EngineEnds, TypeOK
  <2> QED BY <2>1, <2>2, <2>3, TypeUnchanged DEF EngineEnds, TypeOK, SidecarTypeOK
<1>5. CASE EnginePauses(g, r)
  <2>1. PICK new \in SUBSET (CardsOf(r) \ asked) :
            LET open == engine[g][r].state \cup new IN
            /\ asked' = asked \cup new
            /\ SetEngine(g, r, [phase |-> "pausing", abort |-> FALSE,
                                state |-> open, unsent |-> open])
    BY <1>5 DEF EnginePauses
  <2>2. new \subseteq Card BY DEF CardsOf
  <2>3. engine[g][r].state \cup new \subseteq Card BY <1>1, <2>2 DEF Engine
  <2>4. engine' \in [Gen -> [Run -> Engine]]
    BY <2>1, <2>3, TypeEmit, Engines DEF TypeOK
  <2>5. outbox' \in [Gen -> Seq(Frame)]
    BY <1>2, <1>5, TypeEmit, Emitted DEF EnginePauses, TypeOK
  <2>6. asked' \subseteq Card BY <2>1, <2>2 DEF TypeOK, SidecarTypeOK
  <2> QED BY <1>5, <2>4, <2>5, <2>6, TypeUnchanged DEF EnginePauses, TypeOK, SidecarTypeOK
<1>6. ASSUME NEW c \in Card, EngineAsks(g, r, c) PROVE TypeOK'
  <2> DEFINE e == AskFor(r, c, engine[g][r].state, seq[g][r] + 1)
  <2>1. seq[g][r] \in Nat /\ engine[g][r].state \in SUBSET Card
    BY <1>1 DEF TypeOK, SidecarTypeOK, Engine
  <2>2. e \in Frame BY <1>2, <2>1 DEF Frame, Event, AskFor
  <2> HIDE DEF e
  <2>3. outbox' \in [Gen -> Seq(Frame)]
    <3>1. <<e>> \in Seq(Frame) BY <2>2
    <3> QED BY <1>6, <3>1, TypeEmit DEF EngineAsks, TypeOK, e
  <2>4. engine' \in [Gen -> [Run -> Engine]]
    <3>1. [engine[g][r] EXCEPT !.unsent = @ \ {c}] \in Engine BY <1>1 DEF Engine
    <3> QED BY <1>6, <3>1, TypeEmit, Engines DEF EngineAsks, TypeOK
  <2>5. seq' \in [Gen -> [Run -> Nat]]
    BY <1>6, <2>1 DEF EngineAsks, TypeOK, SidecarTypeOK
  <2>6. SidecarTypeOK'
    BY <1>6, <2>3, <2>4, <2>5 DEF EngineAsks, TypeOK, SidecarTypeOK
  <2> QED BY <1>6, <2>6, TypeUnchanged DEF EngineAsks, TypeOK
<1> QED BY <1>3, <1>4, <1>5, <1>6

\* A crash of the sidecar, a restart of the app and what follows it.
LEMMA TypeLife ==
    ASSUME TypeOK, (\E g \in Gen : Crash(g)) \/ Restart \/ Reconcile
    PROVE  TypeOK'
<1>1. ASSUME NEW g \in Gen, Crash(g) PROVE TypeOK'
  BY <1>1, TypeKill, TypeUnchanged DEF Crash, TypeOK, SidecarTypeOK
<1>2. CASE Restart
  <2>1. DbTypeOK' BY <1>2, TypeUnchanged DEF Restart
  <2>2. HostTypeOK' BY <1>2, ConstAssumption DEF Restart, TypeOK, HostTypeOK
  <2>3. ReaderTypeOK'
    BY <1>2, RunStatuses DEF Restart, ReaderTypeOK, Reader, ReaderIdle, ReaderStage
  <2>4. TasksTypeOK'
    <3>1. [state |-> {}, seq |-> 0] \in Claim BY DEF Claim
    <3> QED BY <1>2, <3>1, CommandSteps, ConstAssumption DEF Restart, TasksTypeOK
  <2>5. SidecarTypeOK'
    <3>1. <<>> \in Seq(Message) /\ <<>> \in Seq(Frame) OBVIOUS
    <3> QED BY <1>2, <3>1, Engines DEF Restart, TypeOK, SidecarTypeOK
  <2>6. restarts' \in 0..MaxRestarts
    BY <1>2, ConstAssumption DEF Restart, TypeOK, LifeTypeOK
  <2>7. booted' \in BOOLEAN BY <1>2 DEF Restart
  <2> QED BY <2>1, <2>2, <2>3, <2>4, <2>5, <2>6, <2>7 DEF TypeOK, LifeTypeOK
<1>3. CASE Reconcile
  <2>1. DbTypeOK'
    BY <1>3, RunStatuses DEF Reconcile, TypeOK, DbTypeOK, SessionStatus
  <2>2. LifeTypeOK' BY <1>3 DEF Reconcile, TypeOK, LifeTypeOK
  <2> QED BY <1>3, <2>1, <2>2, TypeUnchanged DEF Reconcile, TypeOK
<1> QED BY <1>1, <1>2, <1>3

-----------------------------------------------------------------------------
(* The reader keeps hold of its event *)

\* The pipes only grow at their ends while no reader moves.
LEMMA HoldsWhileSending ==
    ASSUME TypeInv, UNCHANGED reader,
           UNCHANGED outbox
           \/ \E g \in Gen : \E frames \in Seq(Frame) : Emit(g, frames)
    PROVE  ReaderHoldsEvent'
<1> SUFFICES ASSUME NEW h \in Gen, HasFrame(h), FrameAt(h) \in Event
             PROVE  HasFrame(h)' /\ FrameAt(h)' = FrameAt(h)
  BY DEF TypeInv, ReaderHoldsEvent
<1>1. CASE UNCHANGED outbox BY <1>1 DEF HasFrame, FrameAt
<1>2. ASSUME NEW g \in Gen, NEW frames \in Seq(Frame), Emit(g, frames)
      PROVE  HasFrame(h)' /\ FrameAt(h)' = FrameAt(h)
  <2>1. outbox[h] \in Seq(Frame) /\ outbox[h] # <<>>
    BY DEF TypeInv, TypeOK, SidecarTypeOK, HasFrame
  <2>2. outbox'[h] = outbox[h] \/ outbox'[h] = outbox[h] \o frames
    BY <1>2 DEF Emit, TypeInv, TypeOK, SidecarTypeOK
  <2>3. outbox[h] \o frames # <<>> /\ Head(outbox[h] \o frames) = Head(outbox[h])
    BY <2>1, ConcatProperties
  <2> QED BY <2>1, <2>2, <2>3 DEF HasFrame, FrameAt
<1> QED BY <1>1, <1>2

\* Within an event the reader does not move on before it is through with it.
LEMMA HoldsWhileReading ==
    ASSUME TypeInv, NEW g \in Gen, NEW r,
           ReadReply(g) \/ ReadUsage(g) \/ ReadEvent(g) \/ ReadEventSession(g)
           \/ AppendCard(g) \/ Release(g)
           \/ ReadEnd(g) \/ Settle(g, r) \/ SettleSession(g, r) \/ ReaderStops(g)
    PROVE  ReaderHoldsEvent'
<1> DEFINE Within(h) == reader[h].step \in {"status", "session", "card", "release"}
<1>1. reader[g] \in Reader BY DEF TypeInv, TypeOK, ReaderTypeOK
<1>2. \A h \in Gen \ {g} : reader'[h] = reader[h] /\ outbox'[h] = outbox[h]
  BY DEF ReadReply, ReadUsage, ReadEvent, ReadEventSession, AppendCard, Release,
         ReadEnd, Settle, SettleSession, ReaderStops, NextFrame, Step, AfterStatus,
         TypeInv, TypeOK, ReaderTypeOK, SidecarTypeOK, sidecar
<1>3. \/ ~Within(g)'
      \/ outbox'[g] = outbox[g] /\ HasFrame(g) /\ FrameAt(g) \in Event
  <2>1. CASE NextFrame(g)
    BY <2>1 DEF NextFrame, ReaderIdle, TypeInv, TypeOK, ReaderTypeOK
  <2>2. CASE ReadUsage(g)
    BY <2>2, TypeNextFrame, Frames DEF ReadUsage, sidecar, EventKind, TypeInv
  <2>3. CASE ReadEvent(g) /\ UNCHANGED outbox
    BY <2>3, TypeNextFrame, Frames DEF ReadEvent, TypeInv
  <2>4. CASE ReadEventSession(g) /\ UNCHANGED outbox
    BY <2>4 DEF ReadEventSession, TypeInv, ReaderHoldsEvent
  <2>5. CASE AppendCard(g)
    BY <2>5 DEF AppendCard, TypeInv, ReaderHoldsEvent, sidecar
  <2>6. CASE ReadEnd(g) \/ Settle(g, r) \/ SettleSession(g, r) \/ ReaderStops(g)
    <3>1. reader'[g].step \in {"settle", "settle_session", "ended"}
      <4>1. reader \in [Gen -> Reader] BY DEF TypeInv, TypeOK, ReaderTypeOK
      <4>2. CASE ReadEnd(g) \/ ReaderStops(g)
        <5>1. reader[g] \in Reader BY <4>1, <1>1
        <5>2. CASE ReadEnd(g)
          <6>1. reader' = [reader EXCEPT ![g] = [@ EXCEPT !.step = "settle",
                                                          !.doomed = owned[g]]]
            BY <5>2, Zenon DEF ReadEnd
          <6> QED BY <4>1, <5>1, <6>1, <1>1 DEF Reader
        <5>3. CASE ReaderStops(g)
          <6>1. reader' = [reader EXCEPT ![g] = [@ EXCEPT !.step = "ended"]]
            BY <5>3, Zenon DEF ReaderStops, Step
          <6> QED BY <4>1, <5>1, <6>1, <1>1 DEF Reader
        <5> QED BY <4>2, <5>2, <5>3
      <4>3. CASE Settle(g, r)
        <5> DEFINE rest == [reader[g] EXCEPT !.doomed = @ \ {r}]
                   next == [rest EXCEPT !.step = "settle_session", !.now = {r}]
        <5>1. rest.step = "settle" /\ next.step = "settle_session"
          <6>1. reader[g].step = "settle" BY <4>3 DEF Settle
          <6> QED BY <6>1, <1>1 DEF Reader
        <5>2. reader' = [reader EXCEPT ![g] = next] \/ reader' = [reader EXCEPT ![g] = rest]
          BY <4>3, Zenon DEF Settle
        <5> HIDE DEF rest, next
        <5>3. reader'[g] = next \/ reader'[g] = rest BY <4>1, <5>2
        <5> QED BY <5>1, <5>3
      <4>4. CASE SettleSession(g, r)
        <5> DEFINE next == [reader[g] EXCEPT !.step = "settle", !.now = {}]
        <5>1. next.step = "settle" BY <1>1 DEF Reader
        <5>2. reader' = [reader EXCEPT ![g] = next] BY <4>4, Zenon DEF SettleSession
        <5> HIDE DEF next
        <5>3. reader'[g] = next BY <4>1, <5>2
        <5> QED BY <5>1, <5>3
      <4> QED BY <2>6, <4>2, <4>3, <4>4
    <3> QED BY <3>1
  <2>7. CASE ReadReply(g) \/ Release(g) BY <2>7, <2>1 DEF ReadReply, Release
  <2>8. CASE ReadEvent(g) BY <2>8, <2>1, <2>3 DEF ReadEvent, AfterStatus
  <2>9. CASE ReadEventSession(g)
    BY <2>9, <2>1, <2>4 DEF ReadEventSession, AfterStatus
  <2> QED BY <2>2, <2>5, <2>6, <2>7, <2>8, <2>9
<1> QED BY <1>2, <1>3 DEF TypeInv, ReaderHoldsEvent, HasFrame, FrameAt

\* Every message of the host is answered, a resume with an event before.
LEMMA HandleEmits ==
    ASSUME NEW g, Handle(g)
    PROVE  LET q == Head(inbox[g]).req IN
           \/ Emit(g, <<ReplyTo(q, "accepted")>>)
           \/ Emit(g, <<EventOf("run.started", RunFor(q)), ReplyTo(q, "accepted")>>)
           \/ Emit(g, <<ReplyTo(q, "rejected")>>)
BY Zenon DEF Handle


\* Every other step leaves the readers alone and at most sends.
LEMMA HoldsElsewhere ==
    ASSUME TypeInv, NEW r, NEW c, NEW g,
           \/ StartCheck(r) \/ RetryCheck(r) \/ StartStep(r)
           \/ CancelWaiting(r) \/ SendCancel(r) \/ CancelStep(r)
           \/ ResumeCheck(c) \/ ResumeStep(c)
           \/ g \in Gen /\ (Handle(g) \/ EngineStep(g))
           \/ Crash(g) \/ Reconcile
    PROVE  ReaderHoldsEvent'
<1>1. ASSUME UNCHANGED <<reader, outbox>> PROVE ReaderHoldsEvent'
  BY <1>1, HoldsWhileSending
<1>2. CASE StartCheck(r) \/ RetryCheck(r) \/ StartStep(r)
  BY <1>1, <1>2 DEF StartCheck, RetryCheck, StartStep, CreateRun, PrepareFails,
     StartEnsure, EnsureStarted, SendStart, Send, StartRefused, StartRefusedSession,
     DropOwnership, Timeout, sidecar
<1>3. CASE CancelWaiting(r) \/ SendCancel(r) \/ CancelStep(r)
  BY <1>1, <1>3 DEF CancelWaiting, SendCancel, Send, CancelStep, CancelCommit, Timeout,
     sidecar
<1>4. CASE ResumeCheck(c) \/ ResumeStep(c)
  BY <1>1, <1>4 DEF ResumeCheck, ResumeStep, ResumeEnsure, EnsureStarted, ResumeClaim,
     SendResume, Send, ResumeRestore, ResumeRunning, ResumeRunningSession,
     DropOwnership, Timeout, sidecar
<1>5. CASE Crash(g) \/ Reconcile
  BY <1>1, <1>5 DEF Crash, Reconcile, sidecar
<1>6. g \in Gen /\ UNCHANGED reader =>
         \A frames \in Seq(Frame) : Emit(g, frames) => ReaderHoldsEvent'
  BY HoldsWhileSending
<1>7. EventKind = {"run.started", "usage.updated", "interruption.requested",
                   "run.completed", "run.cancelled", "run.failed"}
      /\ ReplyKind = {"accepted", "rejected"}
  BY DEF EventKind, ReplyKind
<1>8. CASE g \in Gen /\ Handle(g)
  <2> DEFINE m == Head(inbox[g])
             o == RunFor(m.req)
  <2>1. m.req \in Request /\ o \in Run
    <3>1. inbox[g] \in Seq(Message) /\ inbox[g] # <<>>
      BY <1>8, HandleFrame DEF TypeInv, TypeOK, SidecarTypeOK
    <3>2. m \in Message BY <3>1, HeadTailProperties
    <3> QED BY <3>2, Requests DEF Message
  <2>2. \/ Emit(g, <<ReplyTo(m.req, "accepted")>>)
        \/ Emit(g, <<EventOf("run.started", o), ReplyTo(m.req, "accepted")>>)
        \/ Emit(g, <<ReplyTo(m.req, "rejected")>>)
    BY <1>8, HandleEmits, Zenon
  <2> HIDE DEF m, o
  <2>3. UNCHANGED reader BY <1>8, HandleFrame
  <2> QED BY <1>6, <1>7, <1>8, <2>1, <2>2, <2>3, Emitted
<1>9. CASE g \in Gen /\ EngineStep(g)
  <2>1. PICK o \in Run :
            \/ EngineBegins(g, o) \/ EngineCompletes(g, o) \/ EngineFails(g, o)
            \/ EngineCancelled(g, o) \/ EnginePauses(g, o)
            \/ \E d \in Card : EngineAsks(g, o, d)
    BY <1>9 DEF EngineStep
  <2>2. CASE EngineBegins(g, o) \/ EnginePauses(g, o)
    BY <1>6, <1>7, <1>9, <2>2, Emitted DEF EngineBegins, EnginePauses
  <2>3. CASE EngineCompletes(g, o) \/ EngineFails(g, o) \/ EngineCancelled(g, o)
    <3>1. PICK kind \in {"run.completed", "run.failed", "run.cancelled"} :
              EngineEnds(g, o, kind)
      BY <2>3 DEF EngineCompletes, EngineFails, EngineCancelled
    <3> QED BY <1>6, <1>7, <1>9, <3>1, Emitted DEF EngineEnds
  <2>4. ASSUME NEW d \in Card, EngineAsks(g, o, d) PROVE ReaderHoldsEvent'
    <3> DEFINE e == AskFor(o, d, engine[g][o].state, seq[g][o] + 1)
    <3>1. seq[g][o] \in Nat /\ engine[g][o] \in Engine
      BY <1>9 DEF TypeInv, TypeOK, SidecarTypeOK
    <3>2. e \in Frame BY <1>7, <3>1 DEF Engine, Frame, Event, AskFor
    <3> HIDE DEF e
    <3>3. <<e>> \in Seq(Frame) BY <3>2
    <3> QED BY <1>6, <1>9, <2>4, <3>3 DEF EngineAsks, e
  <2> QED BY <2>1, <2>2, <2>3, <2>4
<1> QED BY <1>2, <1>3, <1>4, <1>5, <1>8, <1>9

\* The inductive step: one step per operation of the next-state relation.
LEMMA TypeNext == TypeInv /\ [Next]_vars => TypeInv'
<1> SUFFICES ASSUME TypeInv, [Next]_vars PROVE TypeInv' OBVIOUS
<1> TypeOK BY DEF TypeInv
<1>1. ASSUME NEW r \in Run,
             \/ StartCheck(r) \/ RetryCheck(r) \/ StartStep(r)
             \/ CancelWaiting(r) \/ SendCancel(r) \/ CancelStep(r)
      PROVE  TypeOK'
  <2>1. Start(r) \in Request /\ Cancel(r) \in Request BY Requests
  <2>2. CASE StartCheck(r) \/ RetryCheck(r) BY <2>2, TypeStart
  <2>3. CASE StartStep(r)
    BY <2>1, <2>3, TypeStart, TypeEnsure, TypeSend, TypeAwait
       DEF StartStep, StartEnsure, SendStart
  <2>4. CASE CancelWaiting(r) \/ CancelStep(r)
    BY <2>1, <2>4, TypeCancel, TypeAwait DEF CancelStep
  <2>5. CASE SendCancel(r) BY <2>1, <2>5, TypeSend DEF SendCancel
  <2> QED BY <1>1, <2>2, <2>3, <2>4, <2>5
<1>2. ASSUME NEW c \in Card, ResumeCheck(c) \/ ResumeStep(c) PROVE TypeOK'
  <2>1. Resume(c) \in Request BY Requests
  <2>2. seen[c].state \in SUBSET Card BY DEF TypeOK, TasksTypeOK, Claim
  <2> QED BY <1>2, <2>1, <2>2, TypeResume, TypeEnsure, TypeSend, TypeAwait
          DEF ResumeStep, ResumeEnsure, SendResume
<1>3. ASSUME NEW g \in Gen, ReaderStep(g) PROVE TypeInv'
  <2>1. PICK r : \/ ReadReply(g) \/ ReadUsage(g) \/ ReadEvent(g)
                 \/ ReadEventSession(g) \/ AppendCard(g) \/ Release(g)
                 \/ ReadEnd(g) \/ ReaderStops(g)
                 \/ r \in Run /\ (Settle(g, r) \/ SettleSession(g, r))
    BY <1>3 DEF ReaderStep
  <2>2. TypeOK' BY <2>1, TypeReader, TypeReaderEnd
  <2>3. ReaderHoldsEvent' BY <2>1, HoldsWhileReading
  <2> QED BY <2>2, <2>3 DEF TypeInv
<1>4. ASSUME NEW g \in Gen, Handle(g) \/ EngineStep(g) PROVE TypeInv'
  <2>1. TypeOK' BY <1>4, TypeHandle, TypeEngine DEF EngineStep
  <2>2. ReaderHoldsEvent' BY <1>4, HoldsElsewhere
  <2> QED BY <2>1, <2>2 DEF TypeInv
<1>5. ASSUME NEW g \in Gen, Crash(g) PROVE TypeInv'
  BY <1>5, TypeLife, HoldsElsewhere DEF TypeInv
<1>6. CASE Reconcile BY <1>6, TypeLife, HoldsElsewhere DEF TypeInv
<1>7. CASE Restart
  <2>1. ReaderHoldsEvent' BY <1>7 DEF Restart, ReaderHoldsEvent, ReaderIdle
  <2> QED BY <1>7, <2>1, TypeLife DEF TypeInv
<1>8. CASE UNCHANGED vars
  <2>1. TypeOK' BY <1>8, TypeUnchanged DEF vars, TypeOK
  <2>2. ReaderHoldsEvent'
    BY <1>8 DEF vars, sidecar, TypeInv, ReaderHoldsEvent, HasFrame, FrameAt
  <2> QED BY <2>1, <2>2 DEF TypeInv
<1>9. ASSUME NEW r \in Run,
             \/ StartCheck(r) \/ RetryCheck(r) \/ StartStep(r)
             \/ CancelWaiting(r) \/ SendCancel(r) \/ CancelStep(r)
      PROVE  TypeInv'
  BY <1>1, <1>9, HoldsElsewhere DEF TypeInv
<1>10. ASSUME NEW c \in Card, ResumeCheck(c) \/ ResumeStep(c) PROVE TypeInv'
  BY <1>2, <1>10, HoldsElsewhere DEF TypeInv
<1> QED BY <1>3, <1>4, <1>5, <1>6, <1>7, <1>8, <1>9, <1>10 DEF Next

\* The typing, strengthened by what the readers hold, is inductive.
LEMMA TypeInvariant == Spec => []TypeInv
BY TypeInit, TypeNext, PTL DEF Spec

\* Every variable keeps its type in every behaviour.
THEOREM TypeCorrect == Spec => []TypeOK
<1>1. TypeInv => TypeOK BY DEF TypeInv
<1> QED BY <1>1, TypeInvariant, PTL

-----------------------------------------------------------------------------
(* One runtime at a time *)

\* Which steps start or end a process, or change the one the host talks to.
LEMMA RuntimeSteps ==
    ASSUME Next
    PROVE  \/ UNCHANGED <<alive, inner>>
           \/ \E q, from, refused : EnsureStarted(q, from, refused)
           \/ \E q : Timeout(q)
           \/ \E g \in Gen : Crash(g)
           \/ Restart
<1>1. ASSUME NEW r \in Run,
             \/ StartCheck(r) \/ RetryCheck(r) \/ StartStep(r)
             \/ CancelWaiting(r) \/ SendCancel(r) \/ CancelStep(r)
      PROVE  \/ UNCHANGED <<alive, inner>>
             \/ EnsureStarted(Start(r), "created", "refused")
             \/ Timeout(Start(r)) \/ Timeout(Cancel(r))
  BY <1>1 DEF StartCheck, RetryCheck, StartStep, CreateRun, PrepareFails, StartEnsure,
     SendStart, Send, StartRefused, StartRefusedSession, DropOwnership, CancelWaiting,
     SendCancel, CancelStep, CancelCommit, host, sidecar
<1>2. ASSUME NEW c \in Card, ResumeCheck(c) \/ ResumeStep(c)
      PROVE  \/ UNCHANGED <<alive, inner>>
             \/ EnsureStarted(Resume(c), "checked", "idle")
             \/ Timeout(Resume(c))
  BY <1>2 DEF ResumeCheck, ResumeStep, ResumeEnsure, ResumeClaim, SendResume, Send,
     ResumeRestore, ResumeRunning, ResumeRunningSession, DropOwnership, host, sidecar
<1>3. ASSUME NEW g \in Gen, ReaderStep(g) \/ Handle(g) \/ EngineStep(g)
      PROVE  UNCHANGED <<alive, inner>>
  <2>1. CASE ReaderStep(g)
    <3>1. CASE ReadReply(g) \/ ReadEnd(g) \/ ReaderStops(g)
      BY <3>1, Zenon DEF ReadReply, ReadEnd, ReaderStops, host, sidecar
    <3>2. CASE ReadUsage(g) \/ ReadEvent(g) \/ ReadEventSession(g)
      BY <3>2, Zenon DEF ReadUsage, ReadEvent, ReadEventSession, host, sidecar
    <3>3. CASE AppendCard(g) \/ Release(g) \/ \E o \in Run : Settle(g, o) \/ SettleSession(g, o)
      BY <3>3, Zenon DEF AppendCard, Release, Settle, SettleSession, host, sidecar
    <3> QED BY <2>1, <3>1, <3>2, <3>3 DEF ReaderStep
  <2>2. CASE Handle(g) BY <2>2, HandleFrame DEF host
  <2>3. CASE EngineStep(g)
    BY <2>3 DEF EngineStep, EngineBegins, EngineCompletes, EngineFails,
       EngineCancelled, EngineEnds, EnginePauses, EngineAsks, host
  <2> QED BY <1>3, <2>1, <2>2, <2>3
<1>4. CASE Reconcile BY <1>4 DEF Reconcile, host, sidecar
<1> QED BY <1>1, <1>2, <1>3, <1>4 DEF Next

\* A process the host replaces or gives up on is dead by then.
LEMMA LiveNext ==
    TypeInv /\ LiveRuntimeIsCurrent /\ [Next]_vars => LiveRuntimeIsCurrent'
<1> SUFFICES ASSUME TypeInv, LiveRuntimeIsCurrent, [Next]_vars
             PROVE  LiveRuntimeIsCurrent'
  OBVIOUS
<1> alive \in [Gen -> BOOLEAN] BY DEF TypeInv, TypeOK, SidecarTypeOK
<1>1. CASE UNCHANGED <<alive, inner>> BY <1>1 DEF LiveRuntimeIsCurrent
<1>2. ASSUME NEW q, NEW from, NEW refused, EnsureStarted(q, from, refused)
      PROVE  LiveRuntimeIsCurrent'
  <2>1. CASE ~RuntimeRuns
    <3>1. \A g \in Gen : ~alive[g]
      BY <2>1 DEF RuntimeRuns, LiveRuntimeIsCurrent
    <3> QED BY <1>2, <2>1, <3>1 DEF EnsureStarted, LiveRuntimeIsCurrent
  <2>2. CASE RuntimeRuns
    BY <1>1, <1>2, <2>2 DEF EnsureStarted
  <2> QED BY <2>1, <2>2
<1>3. ASSUME NEW q, Timeout(q) PROVE LiveRuntimeIsCurrent'
  BY <1>3 DEF Timeout, Kill, LiveRuntimeIsCurrent
<1>4. ASSUME NEW g \in Gen, Crash(g) PROVE LiveRuntimeIsCurrent'
  BY <1>4 DEF Crash, Kill, LiveRuntimeIsCurrent, host
<1>5. CASE Restart BY <1>5 DEF Restart, LiveRuntimeIsCurrent
<1>6. CASE UNCHANGED vars BY <1>1, <1>6 DEF vars, host, sidecar
<1> QED BY <1>1, <1>2, <1>3, <1>4, <1>5, <1>6, RuntimeSteps

\* Only the process the host currently talks to is alive: a runtime it gave
\* up on after a timeout never works on beside the one that replaces it.
THEOREM OneLiveRuntime == Spec => []LiveRuntimeIsCurrent
<1>1. Init => LiveRuntimeIsCurrent BY DEF Init, LiveRuntimeIsCurrent
<1> QED BY <1>1, LiveNext, TypeInvariant, PTL DEF Spec

-----------------------------------------------------------------------------
(* Terminal statuses are final *)

\* A start command that is past its check and before its insert has no row.
CheckedIsNew == \A r \in Run : task[Start(r)] = "checked" => runStatus[r] = "none"

\* What a step may do to a run r, and to the command that starts it.
Careful(r) ==
    /\ \/ runStatus'[r] = runStatus[r]
       \/ runStatus[r] \in Active
       \/ runStatus[r] = "none" /\ task'[Start(r)] = "created"
    /\ task'[Start(r)] = "checked" =>
           \/ task[Start(r)] = "checked"
           \/ runStatus[r] = "none" /\ UNCHANGED runStatus

\* Writing the status of a run that is active, or of a new one, is careful.
LEMMA CarefulWrite ==
    ASSUME TypeInv, NEW o \in Run, NEW status, WriteRun(o, status),
           NEW q \in Request, NEW step, Move(q, step) \/ UNCHANGED task,
           step # "checked",
           runStatus[o] \in Active \/ (runStatus[o] = "none" /\ q = Start(o)
                                       /\ step = "created" /\ Move(q, step)),
           NEW r \in Run
    PROVE  Careful(r)
<1> /\ Start(r) \in Request
    /\ task \in [Request -> CommandStep]
    /\ runStatus \in [Run -> RunStatus]
  BY Requests DEF TypeInv, TypeOK, TasksTypeOK, DbTypeOK
<1>1. task'[Start(r)] = "checked" => task[Start(r)] = "checked" BY DEF Move
<1>2. CASE r = o BY <1>1, <1>2 DEF Careful, WriteRun, Move
<1>3. CASE r # o BY <1>1, <1>3 DEF Careful, WriteRun
<1> QED BY <1>2, <1>3

\* So is leaving the statuses alone, unless a start is let through its check.
LEMMA CarefulIdle ==
    ASSUME TypeInv, UNCHANGED runStatus, NEW q, NEW step,
           Move(q, step) \/ UNCHANGED task, step # "checked", NEW r \in Run
    PROVE  Careful(r)
BY Requests DEF TypeInv, TypeOK, TasksTypeOK, Careful, Move

\* Every step is careful with every run.
LEMMA CarefulNext ==
    ASSUME TypeInv, CheckedIsNew, Next, NEW r \in Run
    PROVE  Careful(r)
<1>1. ASSUME NEW o \in Run, StartCheck(o) \/ RetryCheck(o) PROVE Careful(r)
  <2>1. CASE o = r
    BY <1>1, <2>1 DEF StartCheck, RetryCheck, Careful, db
  <2>2. CASE o # r
    BY <1>1, <2>2, Requests, RequestsApart
       DEF StartCheck, RetryCheck, Careful, Move, TypeInv, TypeOK, TasksTypeOK, db
  <2> QED BY <2>1, <2>2
<1>2. ASSUME NEW o \in Run, StartStep(o) PROVE Careful(r)
  <2>1. CASE CreateRun(o)
    BY <2>1, CarefulWrite, Requests DEF CreateRun, CheckedIsNew
  <2>2. CASE StartRefused(o)
    BY <2>2, CarefulWrite, CarefulIdle, Requests DEF StartRefused, Writable
  <2>3. CASE SendStart(o)
    BY <2>3, CarefulIdle DEF SendStart, Send, Lost, db
  <2>4. CASE Timeout(Start(o)) BY <2>4, CarefulIdle DEF Timeout, Lost, db
  <2>5. CASE \/ PrepareFails(o) \/ StartEnsure(o) \/ StartRefusedSession(o)
             \/ DropOwnership(Start(o))
    BY <2>5, CarefulIdle DEF PrepareFails, StartEnsure, EnsureStarted,
       StartRefusedSession, DropOwnership, db
  <2> QED BY <1>2, <2>1, <2>2, <2>3, <2>4, <2>5 DEF StartStep
<1>3. ASSUME NEW o \in Run, CancelWaiting(o) \/ SendCancel(o) \/ CancelStep(o)
      PROVE  Careful(r)
  <2>1. CASE CancelWaiting(o) BY <2>1, CarefulIdle DEF CancelWaiting, db
  <2>2. CASE SendCancel(o)
    BY <2>2, CarefulIdle DEF SendCancel, Send, Lost, db
  <2>3. CASE CancelCommit(o)
    BY <2>3, CarefulIdle, CarefulWrite, Requests, RunStatuses DEF CancelCommit
  <2>4. CASE Timeout(Cancel(o)) BY <2>4, CarefulIdle DEF Timeout, Lost, db
  <2> QED BY <1>3, <2>1, <2>2, <2>3, <2>4 DEF CancelStep
<1>4. ASSUME NEW c \in Card, ResumeCheck(c) \/ ResumeStep(c) PROVE Careful(r)
  <2>0. Resume(c) \in Request /\ RunOf[c] \in Run BY Requests, ConstAssumption
  <2>1. CASE ResumeCheck(c)
    BY <2>1, Requests, RequestsApart
       DEF ResumeCheck, Move, Careful, TypeInv, TypeOK, TasksTypeOK, db
  <2>2. CASE ResumeClaim(c)
    BY <2>0, <2>2, CarefulWrite, CarefulIdle, RunStatuses DEF ResumeClaim
  <2>3. CASE ResumeRestore(c)
    BY <2>0, <2>3, CarefulWrite, CarefulIdle, RunStatuses DEF ResumeRestore
  <2>4. CASE ResumeRunning(c)
    BY <2>0, <2>4, CarefulWrite, CarefulIdle DEF ResumeRunning, Writable
  <2>5. CASE SendResume(c) BY <2>5, CarefulIdle DEF SendResume, Send, Lost, db
  <2>6. CASE Timeout(Resume(c)) BY <2>6, CarefulIdle DEF Timeout, Lost, db
  <2>7. CASE ResumeEnsure(c) \/ ResumeRunningSession(c) \/ DropOwnership(Resume(c))
    BY <2>7, CarefulIdle DEF ResumeEnsure, EnsureStarted, ResumeRunningSession,
       DropOwnership, db
  <2> QED BY <1>4, <2>1, <2>2, <2>3, <2>4, <2>5, <2>6, <2>7 DEF ResumeStep
<1>5. ASSUME UNCHANGED <<runStatus, task>> PROVE Careful(r)
  BY <1>5 DEF Careful
<1>6. ASSUME UNCHANGED task, NEW o \in Run, NEW status, WriteRun(o, status), Writable(o)
      PROVE  Careful(r)
  BY <1>6 DEF Writable, WriteRun, Careful, TypeInv, TypeOK, DbTypeOK
<1>7. ASSUME NEW g \in Gen, ReaderStep(g) PROVE Careful(r)
  <2>1. CASE ReadReply(g)
    BY <2>1, CarefulIdle DEF ReadReply, db
  <2>2. CASE ReadEvent(g)
    <3>1. FrameAt(g) \in Event
      BY <2>2, TypeNextFrame, Frames DEF ReadEvent, TypeInv
    <3> QED BY <1>5, <1>6, <2>2, <3>1, Frames DEF ReadEvent, tasks
  <2>3. CASE ReadEnd(g)
    BY <2>3, Requests DEF ReadEnd, Careful, Lost, db
  <2>4. CASE \E o \in Run : Settle(g, o) \/ SettleSession(g, o)
    BY <1>5, <1>6, <2>4 DEF Settle, SettleSession, tasks
  <2>5. CASE ReadUsage(g) \/ ReadEventSession(g) \/ AppendCard(g) \/ Release(g)
             \/ ReaderStops(g)
    BY <1>5, <2>5, SMTT(60) DEF ReadUsage, ReadEventSession, AppendCard, Release, ReaderStops,
       db, tasks
  <2> QED BY <1>7, <2>1, <2>2, <2>3, <2>4, <2>5 DEF ReaderStep
<1>8. ASSUME NEW g \in Gen, Handle(g) \/ EngineStep(g) \/ Crash(g) PROVE Careful(r)
  <2>1. CASE Handle(g) BY <1>5, <2>1, HandleFrame DEF db, tasks
  <2>2. CASE EngineStep(g)
    BY <1>5, <2>2, Zenon DEF EngineStep, EngineBegins, EngineCompletes, EngineFails,
       EngineCancelled, EngineEnds, EnginePauses, EngineAsks, db, tasks
  <2>3. CASE Crash(g) BY <1>5, <2>3 DEF Crash, db, tasks
  <2> QED BY <1>8, <2>1, <2>2, <2>3
<1>9. CASE Restart BY <1>9, Requests DEF Restart, Careful, db
<1>10. CASE Reconcile
  BY <1>10, RunStatuses DEF Reconcile, Careful, tasks, TypeInv, TypeOK, DbTypeOK
<1> QED BY <1>1, <1>2, <1>3, <1>4, <1>7, <1>8, <1>9, <1>10 DEF Next

\* A start that passed its check still has no row when it inserts it.
LEMMA CheckedNext ==
    TypeInv /\ CheckedIsNew /\ [Next]_vars => CheckedIsNew'
<1> SUFFICES ASSUME TypeInv, CheckedIsNew, [Next]_vars, NEW r \in Run,
                    task'[Start(r)] = "checked"
             PROVE  runStatus'[r] = "none"
  BY DEF CheckedIsNew
<1>1. CASE Next
  <2>1. Careful(r) BY <1>1, CarefulNext
  <2> QED BY <2>1, RunStatuses DEF Careful, CheckedIsNew
<1>2. CASE UNCHANGED vars BY <1>2 DEF vars, db, tasks, CheckedIsNew
<1> QED BY <1>1, <1>2

\* No step of a command, of a reader, of a restart or of its reconciliation
\* ever changes the status of a run that has ended.
THEOREM EndedRunsStayEnded == Spec => TerminalIsFinal
<1>1. Init => CheckedIsNew BY Requests DEF Init, CheckedIsNew
<1>2. Spec => []CheckedIsNew
  BY <1>1, CheckedNext, TypeInvariant, PTL DEF Spec
<1>3. TypeInv /\ CheckedIsNew /\ [Next]_vars =>
          [\A r \in Run : runStatus[r] \in Terminal => runStatus'[r] = runStatus[r]]_vars
  BY CarefulNext, RunStatuses DEF Careful
<1> QED BY <1>2, <1>3, TypeInvariant, PTL DEF Spec, TerminalIsFinal
=============================================================================
