------------------------- MODULE AgentLedgerProofs -------------------------
(***************************************************************************)
(* AgentRuns implements ApprovalLedger, for every set of sessions, runs    *)
(* and cards and every bound: however a resume is refused, lost, timed out *)
(* or put back, its decision reaches an engine at most once and is never   *)
(* offered again afterwards.                                               *)
(*                                                                         *)
(* The invariant (DecisionInv) follows one decision from its claim to the  *)
(* engine: as long as its command may still put the claim back, the engine *)
(* has not acted on it, because the message that would make it act and the *)
(* reply that would make the command put it back never exist together.     *)
(*                                                                         *)
(* The second part proves that the first leg of a run is owned by the      *)
(* process that executes it. It rests on two invariants: no message, event *)
(* or row names a card before an engine has asked for it (KnownInv), and   *)
(* until then a run has one start, with one process, which is never        *)
(* refused and whose ownership only the last event of the run, or the end  *)
(* of the process, takes away (Legs).                                      *)
(*                                                                         *)
(* The third part is about whose turn a run is. A run that no engine has   *)
(* stopped on several cards at once is carried on by one thing at a time:  *)
(* its start, a message to an engine, an engine at work, the event or the  *)
(* row of its open card, or the command that answers it (TurnInv). Hence   *)
(* such a run is idle while it waits, an engine that is resumed knows the  *)
(* card, and a decision is lost to a dead process only with its run. Of    *)
(* the runs stopped on several cards (bundled) nothing of this is claimed. *)
(***************************************************************************)
EXTENDS AgentRunsProofs, FiniteSetTheorems

-----------------------------------------------------------------------------
(* Sequences with at most one element of a kind *)

Has(s, P) == \E i \in 1..Len(s) : s[i] \in P
AtMostOne(s, P) == \A i, j \in 1..Len(s) : s[i] \in P /\ s[j] \in P => i = j

\* The empty sequence has none.
LEMMA HasNothing == \A P : ~Has(<<>>, P) /\ AtMostOne(<<>>, P)
  BY DEF Has, AtMostOne

\* A sequence without elements of a kind has none of a narrower kind.
LEMMA HasFewer ==
    ASSUME NEW s, NEW P, NEW Q, Q \subseteq P, ~Has(s, P)
    PROVE  ~Has(s, Q)
  BY DEF Has

\* A sequence whose head is of the kind has one.
LEMMA HasHead ==
    ASSUME NEW S, NEW s \in Seq(S), s # <<>>, NEW P, Head(s) \in P
    PROVE  Has(s, P)
<1>1. Len(s) \in Nat /\ Len(s) >= 1 /\ Head(s) = s[1]  OBVIOUS
<1> QED  BY <1>1 DEF Has

\* Taking the head off adds none, and takes the only one when the head is it.
LEMMA HasTail ==
    ASSUME NEW S, NEW s \in Seq(S), s # <<>>, NEW P
    PROVE  /\ Has(Tail(s), P) => Has(s, P)
           /\ AtMostOne(s, P) => AtMostOne(Tail(s), P)
           /\ AtMostOne(s, P) /\ Head(s) \in P => ~Has(Tail(s), P)
<1> DEFINE t == Tail(s)
<1>1. /\ Len(s) \in Nat /\ Len(s) >= 1 /\ Head(s) = s[1]
      /\ Len(t) = Len(s) - 1 /\ \A i \in 1..Len(t) : t[i] = s[i + 1]
  BY HeadTailProperties
<1> HIDE DEF t
<1>2. \A i \in 1..Len(t) : i + 1 \in 1..Len(s) /\ i + 1 # 1 /\ t[i] = s[i + 1]
  BY <1>1
<1>3. 1 \in 1..Len(s)  BY <1>1
<1>4. Has(t, P) => Has(s, P)  BY <1>2 DEF Has
<1>5. AtMostOne(s, P) => AtMostOne(t, P)
  <2> SUFFICES ASSUME AtMostOne(s, P), NEW i \in 1..Len(t), NEW j \in 1..Len(t),
                      t[i] \in P, t[j] \in P
               PROVE  i = j
    BY DEF AtMostOne
  <2>1. i + 1 = j + 1  BY <1>2 DEF AtMostOne
  <2> QED  BY <2>1
<1>6. AtMostOne(s, P) /\ Head(s) \in P => ~Has(t, P)
  BY <1>1, <1>2, <1>3 DEF AtMostOne, Has
<1> QED  BY <1>4, <1>5, <1>6 DEF t

\* What a concatenation has, one of its parts has.
LEMMA HasConcat ==
    ASSUME NEW S, NEW s \in Seq(S), NEW t \in Seq(S), NEW P
    PROVE  /\ Has(s \o t, P) => Has(s, P) \/ Has(t, P)
           /\ AtMostOne(s, P) /\ ~Has(t, P) => AtMostOne(s \o t, P)
           /\ ~Has(s, P) /\ AtMostOne(t, P) => AtMostOne(s \o t, P)
<1> DEFINE c == s \o t
<1>1. /\ Len(s) \in Nat /\ Len(t) \in Nat /\ Len(c) = Len(s) + Len(t)
      /\ \A i \in 1..Len(s) + Len(t) : c[i] = IF i <= Len(s) THEN s[i] ELSE t[i - Len(s)]
  BY ConcatProperties, LenProperties
<1> HIDE DEF c
<1>2. ASSUME NEW i \in 1..Len(c)
      PROVE  \/ i \in 1..Len(s) /\ c[i] = s[i]
             \/ i - Len(s) \in 1..Len(t) /\ c[i] = t[i - Len(s)]
  BY <1>1
<1>3. Has(c, P) => Has(s, P) \/ Has(t, P)  BY <1>2 DEF Has
<1>4. ASSUME AtMostOne(s, P), ~Has(t, P) PROVE AtMostOne(c, P)
  <2>1. \A i \in 1..Len(c) : c[i] \in P => i \in 1..Len(s) /\ s[i] \in P
    BY <1>2, <1>4 DEF Has
  <2> QED  BY <1>4, <2>1 DEF AtMostOne
<1>5. ASSUME ~Has(s, P), AtMostOne(t, P) PROVE AtMostOne(c, P)
  <2>1. \A i \in 1..Len(c) : c[i] \in P => i - Len(s) \in 1..Len(t) /\ t[i - Len(s)] \in P
    BY <1>2, <1>5 DEF Has
  <2> SUFFICES ASSUME NEW i \in 1..Len(c), NEW j \in 1..Len(c), c[i] \in P, c[j] \in P
               PROVE  i = j
    BY DEF AtMostOne
  <2>2. i - Len(s) = j - Len(s)  BY <1>5, <2>1 DEF AtMostOne
  <2> QED  BY <1>1, <2>2
<1> QED  BY <1>3, <1>4, <1>5 DEF c

\* What an extended sequence has, is the new element or was there.
LEMMA HasAppend ==
    ASSUME NEW S, NEW s \in Seq(S), NEW x \in S, NEW P
    PROVE  /\ Has(Append(s, x), P) => Has(s, P) \/ x \in P
           /\ x \notin P /\ AtMostOne(s, P) => AtMostOne(Append(s, x), P)
           /\ ~Has(s, P) => AtMostOne(Append(s, x), P)
<1> DEFINE c == Append(s, x)
<1>1. /\ Len(s) \in Nat /\ Len(c) = Len(s) + 1
      /\ \A i \in 1..Len(s) : c[i] = s[i]
      /\ c[Len(s) + 1] = x
  BY AppendProperties, LenProperties
<1> HIDE DEF c
<1>2. \A i \in 1..Len(c) : i \in 1..Len(s) \/ i = Len(s) + 1  BY <1>1
<1> QED  BY <1>1, <1>2 DEF Has, AtMostOne, c

\* The short sequences the sidecar emits.
LEMMA HasShort ==
    ASSUME NEW x, NEW y, NEW P, x \notin P
    PROVE  /\ ~Has(<<x>>, P) /\ AtMostOne(<<y>>, P) /\ AtMostOne(<<x, y>>, P)
           /\ y \notin P => ~Has(<<x, y>>, P)
<1>1. Len(<<x>>) = 1 /\ <<x>>[1] = x /\ Len(<<y>>) = 1  OBVIOUS
<1>2. Len(<<x, y>>) = 2 /\ <<x, y>>[1] = x /\ <<x, y>>[2] = y  OBVIOUS
<1>3. ~Has(<<x>>, P) /\ AtMostOne(<<y>>, P)  BY <1>1 DEF Has, AtMostOne
<1>4. AtMostOne(<<x, y>>, P) /\ (y \notin P => ~Has(<<x, y>>, P))
  <2> DEFINE s == <<x, y>>
  <2>1. Len(s) = 2 /\ s[1] \notin P /\ s[2] = y  BY <1>2
  <2> HIDE DEF s
  <2>2. \A i \in 1..Len(s) : i = 1 \/ i = 2  BY <2>1
  <2>3. AtMostOne(s, P) /\ (y \notin P => ~Has(s, P))  BY <2>1, <2>2 DEF Has, AtMostOne
  <2> QED  BY <2>3 DEF s
<1> QED  BY <1>3, <1>4

-----------------------------------------------------------------------------
(* The invariant *)

Asks(q) == {m \in Message : m.req = q}
Answers(q) == {f \in Reply : f.req = q}
Refusals(q) == {f \in Reply : f.req = q /\ f.kind = "rejected"}

\* The card is answered and no engine has acted on the answer.
Undecided(c) == card[c] = "resolved" /\ applied[c] = 0
DecisionInv(c) ==
    LET q == Resume(c) IN
    /\ applied[c] # 0 => card[c] = "resolved"
    /\ task[q] \in {"claimed", "rejected", "refused"} => Undecided(c)
    /\ \A g \in Gen :
          /\ AtMostOne(inbox[g], Asks(q)) /\ AtMostOne(outbox[g], Answers(q))
          /\ Has(inbox[g], Asks(q)) =>
                 /\ Undecided(c) /\ task[q] = "sent" /\ via[q] = g
                 /\ ~Has(outbox[g], Answers(q))
          /\ Has(outbox[g], Answers(q)) => task[q] = "left" \/ (task[q] = "sent" /\ via[q] = g)
          /\ Has(outbox[g], Refusals(q)) => Undecided(c)

\* What a dead process has not read is gone.
DeadReadsNothing == \A g \in Gen : inbox[g] # <<>> => alive[g]

\* A resume is about one card, and no start or cancel is a resume.
LEMMA Kinds ==
    /\ \A c, d : Resume(c) = Resume(d) => c = d
    /\ \A r, c : Start(r) # Resume(c) /\ Cancel(r) # Resume(c)
    /\ \A q \in Request : q.op = "resume" => q.id \in Card /\ q = Resume(q.id)
  BY DEF Resume, Start, Cancel, Request

\* Only a reply answers.
LEMMA EventsAnswerNothing ==
    /\ \A q : \A f \in Event : f \notin Answers(q)
    /\ \A q : Refusals(q) \subseteq Answers(q)
    /\ \A q \in Request, p \in Request, kind \in ReplyKind :
           /\ ReplyTo(q, kind) \in Answers(p) <=> p = q
           /\ ReplyTo(q, kind) \in Refusals(p) <=> p = q /\ kind = "rejected"
  BY DEF Event, EventKind, Reply, ReplyKind, Answers, Refusals, ReplyTo

\* The sequences have no more of a kind than before.
Shrinks(s, t, P) == (Has(t, P) => Has(s, P)) /\ (AtMostOne(s, P) => AtMostOne(t, P))
\* Leaving a sequence, emptying it or taking its head off adds nothing.
LEMMA Shrinking ==
    /\ \A s, P : Shrinks(s, s, P) /\ Shrinks(s, <<>>, P)
    /\ \A S, s, P : s \in Seq(S) /\ s # <<>> => Shrinks(s, Tail(s), P)
  BY HasNothing, HasTail DEF Shrinks

\* A step that does not concern the decision on c.
Calm(c) ==
    LET q == Resume(c) IN
    /\ task'[q] = task[q] /\ via'[q] = via[q] /\ applied'[c] = applied[c]
    /\ card[c] = "resolved" => card'[c] = "resolved"
    /\ \A g \in Gen : /\ Shrinks(inbox[g], inbox'[g], Asks(q))
                      /\ Shrinks(outbox[g], outbox'[g], Answers(q))
                      /\ Shrinks(outbox[g], outbox'[g], Refusals(q))

\* A step that does not concern the decision keeps its account.
LEMMA CalmKeeps ==
    ASSUME NEW c \in Card, DecisionInv(c), Calm(c)
    PROVE  DecisionInv(c)'
<1> DEFINE q == Resume(c)
<1>1. Undecided(c) => Undecided(c)'  BY DEF Calm, Undecided
<1>2. applied'[c] # 0 => card'[c] = "resolved"  BY DEF Calm, DecisionInv
<1>3. task'[q] \in {"claimed", "rejected", "refused"} => Undecided(c)'
  BY <1>1 DEF Calm, DecisionInv
<1>4. ASSUME NEW g \in Gen
      PROVE  /\ AtMostOne(inbox'[g], Asks(q)) /\ AtMostOne(outbox'[g], Answers(q))
             /\ Has(inbox'[g], Asks(q)) =>
                    /\ Undecided(c)' /\ task'[q] = "sent" /\ via'[q] = g
                    /\ ~Has(outbox'[g], Answers(q))
             /\ Has(outbox'[g], Answers(q)) =>
                    task'[q] = "left" \/ (task'[q] = "sent" /\ via'[q] = g)
             /\ Has(outbox'[g], Refusals(q)) => Undecided(c)'
  BY <1>1 DEF Calm, DecisionInv, Shrinks
<1> QED  BY <1>2, <1>3, <1>4 DEF DecisionInv, Has, AtMostOne, Asks, Answers, Refusals, Resume

\* The pipes of the processes hold messages and frames.
LEMMA Pipes ==
    ASSUME TypeInv, NEW g \in Gen
    PROVE  /\ inbox[g] \in Seq(Message) /\ outbox[g] \in Seq(Frame)
           /\ inbox[g] # <<>> => Head(inbox[g]) \in Message
           /\ outbox[g] # <<>> => Head(outbox[g]) \in Frame
<1>1. inbox[g] \in Seq(Message) /\ outbox[g] \in Seq(Frame)
  BY DEF TypeInv, TypeOK, SidecarTypeOK
<1> QED  BY <1>1

\* No message and no reply of a decision is under way.
NoMail(c) ==
    \A g \in Gen : /\ ~Has(inbox[g], Asks(Resume(c)))
                   /\ ~Has(outbox[g], Answers(Resume(c)))

\* Only a command that waits, or has given up, has mail under way.
LEMMA MailIsSent ==
    ASSUME NEW c \in Card, DecisionInv(c), task[Resume(c)] \notin {"sent", "left"}
    PROVE  NoMail(c)
  BY DEF DecisionInv, NoMail

\* Without mail under way the account is about the command and the card alone.
LEMMA NoMailKeeps ==
    ASSUME NEW c \in Card, NoMail(c)',
           applied'[c] # 0 => card'[c] = "resolved",
           task'[Resume(c)] \in {"claimed", "rejected", "refused"} => Undecided(c)'
    PROVE  DecisionInv(c)'
<1> DEFINE q == Resume(c)
<1>1. ASSUME NEW g \in Gen
      PROVE  /\ ~Has(inbox'[g], Asks(q)) /\ ~Has(outbox'[g], Answers(q))
             /\ AtMostOne(inbox'[g], Asks(q)) /\ AtMostOne(outbox'[g], Answers(q))
             /\ ~Has(outbox'[g], Refusals(q))
  <2>1. ~Has(inbox'[g], Asks(q)) /\ ~Has(outbox'[g], Answers(q))
    BY DEF NoMail, Has, Asks, Answers, Resume
  <2>2. ~Has(outbox'[g], Refusals(q))  BY <2>1, HasFewer, EventsAnswerNothing
  <2> QED  BY <2>1, <2>2 DEF Has, AtMostOne
<1> QED  BY <1>1 DEF DecisionInv, Has, AtMostOne, Asks, Answers, Refusals, Resume

-----------------------------------------------------------------------------
(* The steps that do not concern the decision *)

\* What another command asks of the host.
LEMMA OtherCommands ==
    ASSUME TypeInv, NEW c \in Card, NEW q \in Request, q # Resume(c),
           \/ \E from, refused : EnsureStarted(q, from, refused)
           \/ \E state \in SUBSET Card : Send(q, state)
           \/ DropOwnership(q) \/ Timeout(q)
    PROVE  Calm(c)
<1> DEFINE p == Resume(c)
<1>0. p \in Request /\ task \in [Request -> CommandStep] /\ via \in [Request -> 0..MaxGen]
      /\ inbox \in [Gen -> Seq(Message)]
  BY Requests DEF TypeInv, TypeOK, TasksTypeOK, SidecarTypeOK
<1>1. /\ task'[p] = task[p] /\ via'[p] = via[p]
      /\ UNCHANGED <<card, applied, outbox>>
  BY <1>0 DEF EnsureStarted, Send, DropOwnership, Timeout, Kill, Move, db, sidecar
<1>2. ASSUME NEW g \in Gen PROVE Shrinks(inbox[g], inbox'[g], Asks(p))
  <2>1. CASE inbox'[g] = inbox[g] \/ inbox'[g] = <<>>  BY <2>1, Shrinking
  <2>2. CASE \E state \in SUBSET Card :
                 inbox'[g] = Append(inbox[g], [req |-> q, state |-> state])
    <3>1. PICK state \in SUBSET Card :
              inbox'[g] = Append(inbox[g], [req |-> q, state |-> state])
      BY <2>2
    <3> DEFINE m == [req |-> q, state |-> state]
    <3>2. m \in Message /\ m \notin Asks(p)  BY DEF Message, Asks
    <3> HIDE DEF m
    <3>3. inbox[g] \in Seq(Message)  BY Pipes
    <3>4. /\ Has(Append(inbox[g], m), Asks(p)) => Has(inbox[g], Asks(p)) \/ m \in Asks(p)
          /\ m \notin Asks(p) /\ AtMostOne(inbox[g], Asks(p))
             => AtMostOne(Append(inbox[g], m), Asks(p))
      BY <3>2, <3>3, HasAppend
    <3> QED  BY <3>1, <3>2, <3>4 DEF Shrinks, m
  <2>3. \/ UNCHANGED inbox
        \/ \E h : inbox' = [inbox EXCEPT ![h] = <<>>]
        \/ \E h : \E state \in SUBSET Card :
               inbox' = [inbox EXCEPT ![h] = Append(@, [req |-> q, state |-> state])]
    BY DEF EnsureStarted, Send, DropOwnership, Timeout, Kill, sidecar
  <2> QED  BY <1>0, <2>1, <2>2, <2>3
<1> QED  BY <1>1, <1>2, Shrinking DEF Calm

\* Steps that leave the commands and the pipes alone.
LEMMA PipesAtRest ==
    ASSUME NEW c \in Card, UNCHANGED <<inbox, outbox, applied>>,
           task'[Resume(c)] = task[Resume(c)], via'[Resume(c)] = via[Resume(c)],
           card[c] = "resolved" => card'[c] = "resolved"
    PROVE  Calm(c)
  BY Shrinking DEF Calm

\* start_agent_run, retry_agent_run and cancel_agent_run.
LEMMA StartsAndCancels ==
    ASSUME TypeInv, NEW c \in Card, NEW r \in Run,
           \/ StartCheck(r) \/ RetryCheck(r) \/ StartStep(r)
           \/ CancelWaiting(r) \/ SendCancel(r) \/ CancelStep(r)
    PROVE  Calm(c)
<1>0. /\ Start(r) \in Request /\ Start(r) # Resume(c)
      /\ Cancel(r) \in Request /\ Cancel(r) # Resume(c) /\ Resume(c) \in Request
      /\ task \in [Request -> CommandStep] /\ card \in [Card -> CardStatus]
  BY Requests, Kinds DEF TypeInv, TypeOK, TasksTypeOK, DbTypeOK
<1>1. CASE \/ StartEnsure(r) \/ SendStart(r) \/ DropOwnership(Start(r)) \/ Timeout(Start(r))
           \/ SendCancel(r) \/ Timeout(Cancel(r))
  <2>1. CASE \/ StartEnsure(r) \/ SendStart(r)
             \/ DropOwnership(Start(r)) \/ Timeout(Start(r))
    BY <1>0, <2>1, OtherCommands DEF StartEnsure, SendStart
  <2>2. CASE SendCancel(r) \/ Timeout(Cancel(r))
    BY <1>0, <2>2, OtherCommands DEF SendCancel
  <2> QED  BY <1>1, <2>1, <2>2
<1>2. CASE \/ StartCheck(r) \/ RetryCheck(r) \/ CreateRun(r) \/ PrepareFails(r)
           \/ StartRefused(r) \/ StartRefusedSession(r) \/ CancelWaiting(r)
  <2>1. /\ UNCHANGED <<inbox, outbox, applied, card, via>>
        /\ task'[Resume(c)] = task[Resume(c)]
    BY <1>0, <1>2 DEF StartCheck, RetryCheck, CreateRun, PrepareFails, StartRefused,
       StartRefusedSession, CancelWaiting, Move, db, sidecar
  <2> QED  BY <2>1, PipesAtRest
<1>3. CASE CancelCommit(r)
  <2>1. /\ UNCHANGED <<inbox, outbox, applied, via>>
        /\ task'[Resume(c)] = task[Resume(c)]
    BY <1>0, <1>3 DEF CancelCommit, Move, sidecar
  <2>2. card[c] = "resolved" => card'[c] = "resolved"
    BY <1>0, <1>3 DEF CancelCommit, Pending
  <2> QED  BY <2>1, <2>2, PipesAtRest
<1> QED  BY <1>1, <1>2, <1>3 DEF StartStep, CancelStep

\* resolve_agent_interruption of another card.
LEMMA OtherResumes ==
    ASSUME TypeInv, NEW c \in Card, NEW d \in Card, d # c,
           ResumeCheck(d) \/ ResumeStep(d)
    PROVE  Calm(c)
<1>0. /\ Resume(d) \in Request /\ Resume(c) \in Request /\ Resume(d) # Resume(c)
      /\ seen[d].state \in SUBSET Card
      /\ task \in [Request -> CommandStep] /\ card \in [Card -> CardStatus]
  BY Requests, Kinds DEF TypeInv, TypeOK, TasksTypeOK, DbTypeOK, Claim
<1>1. CASE ResumeEnsure(d) \/ SendResume(d) \/ DropOwnership(Resume(d)) \/ Timeout(Resume(d))
  BY <1>0, <1>1, OtherCommands DEF ResumeEnsure, SendResume
<1>2. CASE \/ ResumeCheck(d) \/ ResumeClaim(d) \/ ResumeRestore(d)
           \/ ResumeRunning(d) \/ ResumeRunningSession(d)
  <2>1. /\ UNCHANGED <<inbox, outbox, applied, via>>
        /\ task'[Resume(c)] = task[Resume(c)]
    BY <1>0, <1>2 DEF ResumeCheck, ResumeClaim, ResumeRestore, ResumeRunning,
       ResumeRunningSession, Move, sidecar
  <2>2. card'[c] = card[c]
    BY <1>0, <1>2 DEF ResumeCheck, ResumeClaim, ResumeRestore, ResumeRunning,
       ResumeRunningSession, Reopen, db
  <2> QED  BY <2>1, <2>2, PipesAtRest
<1> QED  BY <1>1, <1>2 DEF ResumeStep

\* The reader of a process, but for the replies it reads and the end of its pipe.
LEMMA OtherReading ==
    ASSUME TypeInv, NEW c \in Card, NEW g \in Gen, ReaderStep(g),
           ~ReadReply(g), ~ReadEnd(g)
    PROVE  Calm(c)
<1>1. UNCHANGED <<inbox, applied, task, via>>
  BY DEF ReaderStep, ReadUsage, ReadEvent, ReadEventSession, AppendCard, Release,
     Settle, SettleSession, ReaderStops, sidecar, tasks
<1>2. card[c] = "resolved" => card'[c] = "resolved"
  <2>1. CASE AppendCard(g)
    BY <2>1 DEF AppendCard, TypeInv, TypeOK, DbTypeOK
  <2>2. CASE ~AppendCard(g)
    BY <2>2 DEF ReaderStep, ReadUsage, ReadEvent, ReadEventSession, Release,
       Settle, SettleSession, ReaderStops, db
  <2> QED  BY <2>1, <2>2
<1>3. UNCHANGED outbox \/ (HasFrame(g) /\ outbox' = [outbox EXCEPT ![g] = Tail(@)])
  BY DEF ReaderStep, ReadUsage, ReadEvent, ReadEventSession, AppendCard, Release,
     Settle, SettleSession, ReaderStops, AfterStatus, NextFrame, sidecar
<1>4. ASSUME NEW h \in Gen, NEW P PROVE Shrinks(outbox[h], outbox'[h], P)
  <2>1. outbox[h] \in Seq(Frame)  BY Pipes
  <2>2. outbox'[h] = outbox[h] \/ (outbox[h] # <<>> /\ outbox'[h] = Tail(outbox[h]))
    BY <1>3 DEF HasFrame, TypeInv, TypeOK, SidecarTypeOK
  <2> QED  BY <2>1, <2>2, Shrinking
<1> QED  BY <1>1, <1>2, <1>4, Shrinking DEF Calm

\* What a process writes that does not answer the command.
LEMMA Written ==
    ASSUME TypeInv, NEW g \in Gen, NEW frames \in Seq(Frame), Emit(g, frames),
           NEW P, ~Has(frames, P), NEW h \in Gen
    PROVE  Shrinks(outbox[h], outbox'[h], P)
<1>1. outbox[h] \in Seq(Frame)  BY Pipes
<1>2. CASE h # g
  <2>1. outbox'[h] = outbox[h]  BY <1>2 DEF Emit, TypeInv, TypeOK, SidecarTypeOK
  <2> QED  BY <2>1, Shrinking
<1>3. CASE h = g
  <2>1. outbox'[h] = outbox[h] \o frames  BY <1>3 DEF Emit, TypeInv, TypeOK, SidecarTypeOK
  <2>2. /\ Has(outbox[h] \o frames, P) => Has(outbox[h], P) \/ Has(frames, P)
        /\ AtMostOne(outbox[h], P) /\ ~Has(frames, P) => AtMostOne(outbox[h] \o frames, P)
    BY <1>1, HasConcat
  <2> QED  BY <2>1, <2>2, Zenon DEF Shrinks
<1> QED  BY <1>2, <1>3

\* The engines, a crash and the reconciliation after a restart.
LEMMA OtherWork ==
    ASSUME TypeInv, NEW c \in Card,
           Reconcile \/ \E g \in Gen : EngineStep(g) \/ Crash(g)
    PROVE  Calm(c)
<1> DEFINE q == Resume(c)
<1>1. CASE Reconcile
  BY <1>1, PipesAtRest DEF Reconcile, tasks, sidecar
<1>2. ASSUME NEW g \in Gen, Crash(g) PROVE Calm(c)
  <2>1. UNCHANGED <<task, via, applied, card, outbox>>
    BY <1>2 DEF Crash, tasks, db
  <2>2. \A h \in Gen : inbox'[h] = inbox[h] \/ inbox'[h] = <<>>
    BY <1>2 DEF Crash, Kill, TypeInv, TypeOK, SidecarTypeOK
  <2> QED  BY <2>1, <2>2, Shrinking DEF Calm
<1>3. ASSUME NEW g \in Gen, EngineStep(g) PROVE Calm(c)
  <2>1. UNCHANGED <<task, via, applied, card, inbox>>
    BY <1>3, Zenon DEF EngineStep, EngineBegins, EngineCompletes, EngineFails, EngineCancelled,
       EngineEnds, EnginePauses, EngineAsks, tasks, db
  <2>2. ASSUME NEW x \in Event, NEW y \in Event
        PROVE  /\ <<x>> \in Seq(Frame) /\ ~Has(<<x>>, Answers(q))
               /\ <<x, y>> \in Seq(Frame) /\ ~Has(<<x, y>>, Answers(q))
    <3>1. x \notin Answers(q) /\ y \notin Answers(q)  BY EventsAnswerNothing
    <3>2. /\ ~Has(<<x>>, Answers(q))
          /\ y \notin Answers(q) => ~Has(<<x, y>>, Answers(q))
      BY <3>1, HasShort
    <3>3. x \in Frame /\ y \in Frame  BY DEF Frame
    <3>4. <<x>> \in Seq(Frame) /\ <<x, y>> \in Seq(Frame)  BY <3>3
    <3> QED  BY <3>1, <3>2, <3>4
  <2>3. \E frames \in Seq(Frame) : Emit(g, frames) /\ ~Has(frames, Answers(q))
    <3>1. ASSUME NEW r \in Run, NEW k \in EventKind, Emit(g, <<EventOf(k, r)>>)
          PROVE  \E frames \in Seq(Frame) : Emit(g, frames) /\ ~Has(frames, Answers(q))
      <4>1. EventOf(k, r) \in Event  BY Events
      <4> QED  BY <3>1, <4>1, <2>2
    <3>2. ASSUME NEW r \in Run, NEW k \in EventKind, NEW k2 \in EventKind,
                 Emit(g, <<EventOf(k, r), EventOf(k2, r)>>)
          PROVE  \E frames \in Seq(Frame) : Emit(g, frames) /\ ~Has(frames, Answers(q))
      <4>1. EventOf(k, r) \in Event /\ EventOf(k2, r) \in Event  BY Events
      <4> QED  BY <3>2, <4>1, <2>2
    <3>3. ASSUME NEW r \in Run, NEW d \in Card, EngineAsks(g, r, d)
          PROVE  \E frames \in Seq(Frame) : Emit(g, frames) /\ ~Has(frames, Answers(q))
      <4> DEFINE f == AskFor(r, d, engine[g][r].state, seq[g][r] + 1)
      <4>1. engine[g][r].state \in SUBSET Card /\ seq[g][r] + 1 \in Nat
        <5>1. engine[g][r] \in Engine /\ seq[g][r] \in Nat
          BY DEF TypeInv, TypeOK, SidecarTypeOK
        <5> QED  BY <5>1 DEF Engine
      <4>2. f \in Event  BY <4>1 DEF Event, EventKind, AskFor
      <4>3. Emit(g, <<f>>)  BY <3>3 DEF EngineAsks
      <4> HIDE DEF f
      <4> QED  BY <4>2, <4>3, <2>2
    <3>4. PICK r \in Run :
              \/ EngineBegins(g, r) \/ EngineCompletes(g, r) \/ EngineFails(g, r)
              \/ EngineCancelled(g, r) \/ EnginePauses(g, r)
              \/ \E d \in Card : EngineAsks(g, r, d)
      BY <1>3 DEF EngineStep
    <3>5. {"run.started", "usage.updated", "run.completed", "run.failed",
           "run.cancelled"} \subseteq EventKind
      BY DEF EventKind
    <3>6. CASE EngineBegins(g, r) \/ EnginePauses(g, r)
      BY <3>1, <3>5, <3>6 DEF EngineBegins, EnginePauses
    <3>7. CASE EngineCompletes(g, r) \/ EngineFails(g, r) \/ EngineCancelled(g, r)
      <4>1. \/ Emit(g, <<EventOf("usage.updated", r), EventOf("run.completed", r)>>)
            \/ Emit(g, <<EventOf("run.failed", r)>>)
            \/ Emit(g, <<EventOf("run.cancelled", r)>>)
        BY <3>7 DEF EngineCompletes, EngineFails, EngineCancelled, EngineEnds
      <4> QED  BY <3>1, <3>2, <3>5, <4>1
    <3> QED  BY <3>3, <3>4, <3>6, <3>7
  <2>4. PICK frames \in Seq(Frame) : Emit(g, frames) /\ ~Has(frames, Answers(q))
    BY <2>3
  <2>5. ~Has(frames, Refusals(q))  BY <2>4, HasFewer, EventsAnswerNothing
  <2>6. \A h \in Gen : /\ Shrinks(outbox[h], outbox'[h], Answers(q))
                       /\ Shrinks(outbox[h], outbox'[h], Refusals(q))
    BY <2>4, <2>5, Written
  <2> QED  BY <2>1, <2>6, Shrinking DEF Calm
<1> QED  BY <1>1, <1>2, <1>3

-----------------------------------------------------------------------------
(* The steps of the decision itself *)

\* The command of the card while nothing is under way.
LEMMA OwnCommand ==
    ASSUME TypeInv, NEW c \in Card, DecisionInv(c),
           \/ ResumeCheck(c) \/ ResumeEnsure(c) \/ ResumeClaim(c) \/ ResumeRestore(c)
           \/ ResumeRunning(c) \/ ResumeRunningSession(c) \/ DropOwnership(Resume(c))
    PROVE  DecisionInv(c)'
<1> DEFINE q == Resume(c)
<1>0. /\ q \in Request /\ task \in [Request -> CommandStep] /\ card \in [Card -> CardStatus]
      /\ applied \in [Card -> Nat]
  BY Requests DEF TypeInv, TypeOK, TasksTypeOK, DbTypeOK, SidecarTypeOK
<1>1. UNCHANGED <<inbox, outbox, applied>>
  BY DEF ResumeCheck, ResumeEnsure, EnsureStarted, ResumeClaim, ResumeRestore,
     ResumeRunning, ResumeRunningSession, DropOwnership, sidecar
<1>2. task[q] \notin {"sent", "left"}
  BY DEF ResumeCheck, ResumeEnsure, EnsureStarted, ResumeClaim, ResumeRestore,
     ResumeRunning, ResumeRunningSession, DropOwnership
<1>3. NoMail(c)'
  <2>1. NoMail(c)  BY <1>2, MailIsSent
  <2> QED  BY <1>1, <2>1 DEF NoMail, Has, Asks, Answers, Resume
<1>4. \/ UNCHANGED card /\ task'[q] \notin {"claimed", "rejected", "refused"}
      \/ UNCHANGED card /\ task[q] = "rejected" /\ task'[q] = "refused"
      \/ card[c] = "pending" /\ card'[c] = "resolved" /\ task'[q] = "claimed"
      \/ task[q] = "refused" /\ task'[q] = "idle"
  <2>1. CASE \/ ResumeCheck(c) \/ ResumeEnsure(c) \/ ResumeRunning(c)
             \/ ResumeRunningSession(c)
    BY <1>0, <2>1 DEF ResumeCheck, ResumeEnsure, EnsureStarted,
       ResumeRunning, ResumeRunningSession, Move, db
  <2>2. CASE ResumeClaim(c)  BY <1>0, <2>2 DEF ResumeClaim, Move
  <2>3. CASE ResumeRestore(c)  BY <1>0, <2>3 DEF ResumeRestore, Move
  <2>4. CASE DropOwnership(q)  BY <1>0, <2>4 DEF DropOwnership, Move, db
  <2> QED  BY <2>1, <2>2, <2>3, <2>4
<1>5. /\ applied'[c] # 0 => card'[c] = "resolved"
      /\ task'[q] \in {"claimed", "rejected", "refused"} => Undecided(c)'
  BY <1>0, <1>1, <1>4 DEF DecisionInv, Undecided
<1> QED  BY <1>3, <1>5, NoMailKeeps

\* The message enters the inbox of the current process, and only that.
LEMMA SendsOnce ==
    ASSUME TypeInv, NEW c \in Card, DecisionInv(c), SendResume(c)
    PROVE  DecisionInv(c)'
<1> DEFINE q == Resume(c)
           m == [req |-> q, state |-> seen[c].state]
<1>0. /\ q \in Request /\ task \in [Request -> CommandStep]
      /\ via \in [Request -> 0..MaxGen] /\ inbox \in [Gen -> Seq(Message)]
      /\ m \in Message /\ q.op = "resume"
  <2>1. q \in Request /\ q.op = "resume"  BY Requests DEF Resume
  <2>2. seen[c].state \in SUBSET Card  BY DEF TypeInv, TypeOK, TasksTypeOK, Claim
  <2> QED  BY <2>1, <2>2 DEF TypeInv, TypeOK, TasksTypeOK, SidecarTypeOK, Message
<1> HIDE DEF m
<1>1. task[q] = "claimed" /\ UNCHANGED <<outbox, applied, card>>
  BY DEF SendResume, Send, db
<1>2. NoMail(c) /\ Undecided(c)  BY <1>1, MailIsSent DEF DecisionInv
<1>3. Undecided(c)'  BY <1>1, <1>2 DEF Undecided
<1>4. \A g \in Gen : /\ ~Has(outbox'[g], Answers(q)) /\ ~Has(outbox'[g], Refusals(q))
                     /\ AtMostOne(outbox'[g], Answers(q))
  <2>1. \A g \in Gen : ~Has(outbox'[g], Answers(q))  BY <1>1, <1>2 DEF NoMail
  <2>2. \A g \in Gen : ~Has(outbox'[g], Refusals(q))
    BY <2>1, HasFewer, EventsAnswerNothing
  <2> QED  BY <2>1, <2>2 DEF Has, AtMostOne
<1>5. CASE UNCHANGED inbox
  <2>1. NoMail(c)'  BY <1>4, <1>2, <1>5 DEF NoMail, Has, Asks, Answers, Resume
  <2> QED  BY <1>3, <2>1, NoMailKeeps DEF Undecided
<1>6. CASE inbox' # inbox
  <2>1. /\ via'[q] = inner /\ task'[q] = "sent"
        /\ inbox' = [inbox EXCEPT ![inner] = Append(@, m)]
    BY <1>0, <1>6 DEF SendResume, Send, Move, m
  <2>2. ASSUME NEW g \in Gen
        PROVE  AtMostOne(inbox'[g], Asks(q)) /\ (Has(inbox'[g], Asks(q)) => g = inner)
    <3>1. ~Has(inbox[g], Asks(q)) /\ inbox[g] \in Seq(Message)  BY <1>2, Pipes DEF NoMail
    <3>2. CASE g # inner
      <4>1. inbox'[g] = inbox[g]  BY <1>0, <2>1, <3>2
      <4> QED  BY <3>1, <4>1 DEF Has, AtMostOne
    <3>3. CASE g = inner
      <4>1. inbox'[g] = Append(inbox[g], m)  BY <1>0, <2>1, <3>3
      <4>2. ~Has(inbox[g], Asks(q)) => AtMostOne(Append(inbox[g], m), Asks(q))
        BY <1>0, <3>1, HasAppend
      <4> QED  BY <3>1, <3>3, <4>1, <4>2
    <3> QED  BY <3>2, <3>3
  <2>3. applied'[c] # 0 => card'[c] = "resolved"  BY <1>3 DEF Undecided
  <2>4. ASSUME NEW g \in Gen
        PROVE  /\ AtMostOne(inbox'[g], Asks(q)) /\ AtMostOne(outbox'[g], Answers(q))
               /\ Has(inbox'[g], Asks(q)) =>
                      /\ Undecided(c)' /\ task'[q] = "sent" /\ via'[q] = g
                      /\ ~Has(outbox'[g], Answers(q))
               /\ ~Has(outbox'[g], Answers(q)) /\ ~Has(outbox'[g], Refusals(q))
    BY <1>3, <1>4, <2>1, <2>2
  <2> QED  BY <1>3, <2>3, <2>4
           DEF DecisionInv, Has, AtMostOne, Asks, Answers, Refusals, Resume
<1> QED  BY <1>5, <1>6

\* A command that gives up leaves no message behind.
LEMMA Leaves ==
    ASSUME NEW c \in Card, DecisionInv(c), UNCHANGED <<card, applied, outbox>>,
           task'[Resume(c)] = "left",
           \A g \in Gen : ~Has(inbox'[g], Asks(Resume(c)))
    PROVE  DecisionInv(c)'
<1> DEFINE q == Resume(c)
<1>1. Undecided(c)' <=> Undecided(c)  BY DEF Undecided
<1>2. applied'[c] # 0 => card'[c] = "resolved"  BY DEF DecisionInv
<1>3. ASSUME NEW g \in Gen
      PROVE  /\ AtMostOne(inbox'[g], Asks(q)) /\ AtMostOne(outbox'[g], Answers(q))
             /\ ~Has(inbox'[g], Asks(q))
             /\ Has(outbox'[g], Refusals(q)) => Undecided(c)'
  <2>1. AtMostOne(inbox'[g], Asks(q))  BY DEF Has, AtMostOne
  <2>2. AtMostOne(outbox'[g], Answers(q))  BY DEF DecisionInv
  <2>3. Has(outbox'[g], Refusals(q)) => Undecided(c)'  BY <1>1 DEF DecisionInv
  <2> QED  BY <2>1, <2>2, <2>3
<1> QED  BY <1>2, <1>3 DEF DecisionInv, Has, AtMostOne, Asks, Answers, Refusals, Resume

\* A timeout ends the process that may still hold the message.
LEMMA GivesUp ==
    ASSUME TypeInv, LiveRuntimeIsCurrent, DeadReadsNothing, NEW c \in Card,
           DecisionInv(c), Timeout(Resume(c))
    PROVE  DecisionInv(c)'
<1> DEFINE q == Resume(c)
<1>0. /\ q \in Request /\ q.op = "resume" /\ task \in [Request -> CommandStep]
      /\ inbox \in [Gen -> Seq(Message)]
  <2>1. q \in Request /\ q.op = "resume"  BY Requests DEF Resume
  <2> QED  BY <2>1 DEF TypeInv, TypeOK, TasksTypeOK, SidecarTypeOK
<1>1. /\ UNCHANGED <<card, applied, outbox>>
      /\ task[q] = "sent" /\ task'[q] = "left"
  BY <1>0 DEF Timeout, Overdue, Move, Lost, db
<1>2. ASSUME NEW g \in Gen PROVE ~Has(inbox'[g], Asks(q))
  <2>1. Has(inbox[g], Asks(q)) => via[q] = g  BY DEF DecisionInv
  <2>2. CASE inner = via[q]
    <3>1. inbox' = [inbox EXCEPT ![inner] = <<>>]  BY <2>2 DEF Timeout, Kill
    <3>2. CASE g = inner  BY <1>0, <3>1, <3>2, HasNothing
    <3>3. CASE g # inner  BY <1>0, <2>1, <2>2, <3>1, <3>3
    <3> QED  BY <3>2, <3>3
  <2>3. CASE inner # via[q]
    <3>1. UNCHANGED inbox  BY <2>3 DEF Timeout
    <3>2. CASE g = via[q]
      <4>1. inbox[g] = <<>>
        BY <2>3, <3>2 DEF LiveRuntimeIsCurrent, DeadReadsNothing
      <4> QED  BY <3>1, <4>1, HasNothing
    <3>3. CASE g # via[q]  BY <2>1, <3>1, <3>3
    <3> QED  BY <3>2, <3>3
  <2> QED  BY <2>2, <2>3
<1> QED  BY <1>1, <1>2, Leaves

\* The pipe of a dead process ends.
LEMMA PipeEnds ==
    ASSUME TypeInv, DeadReadsNothing, NEW c \in Card, DecisionInv(c),
           NEW g \in Gen, ReadEnd(g)
    PROVE  DecisionInv(c)'
<1> DEFINE q == Resume(c)
<1>0. q \in Request /\ q.op = "resume"  BY Requests DEF Resume
<1>1. UNCHANGED <<card, applied, inbox, outbox, via>> /\ ~alive[g]
  BY DEF ReadEnd, db, sidecar
<1>2. CASE task[q] = "sent" /\ via[q] = g
  <2>1. task'[q] = "left"  BY <1>0, <1>2 DEF ReadEnd, Lost
  <2>2. ASSUME NEW h \in Gen PROVE ~Has(inbox'[h], Asks(q))
    <3>1. CASE h = g
      <4>1. inbox[h] = <<>>  BY <1>1, <3>1 DEF DeadReadsNothing
      <4> QED  BY <1>1, <4>1, HasNothing
    <3>2. CASE h # g  BY <1>1, <1>2, <3>2 DEF DecisionInv
    <3> QED  BY <3>1, <3>2
  <2> QED  BY <1>1, <2>1, <2>2, Leaves
<1>3. CASE ~(task[q] = "sent" /\ via[q] = g)
  <2>1. task'[q] = task[q]  BY <1>0, <1>3 DEF ReadEnd
  <2> QED  BY <1>1, <2>1, PipesAtRest, CalmKeeps
<1> QED  BY <1>2, <1>3

\* The reader takes a reply off the pipe.
LEMMA ReplyRead ==
    ASSUME TypeInv, NEW c \in Card, DecisionInv(c), NEW g \in Gen, ReadReply(g)
    PROVE  DecisionInv(c)'
<1> DEFINE q == Resume(c)
           f == Head(outbox[g])
           mine == f.req = q /\ task[q] = "sent" /\ via[q] = g
<1>0. /\ outbox[g] \in Seq(Frame) /\ outbox[g] # <<>> /\ f \in Frame
      /\ f.kind \in ReplyKind /\ outbox \in [Gen -> Seq(Frame)]
      /\ q \in Request /\ q.op = "resume" /\ task \in [Request -> CommandStep]
  <2>1. outbox[g] # <<>> /\ f.kind \in ReplyKind  BY DEF ReadReply, HasFrame, FrameAt
  <2>2. outbox[g] \in Seq(Frame) /\ f \in Frame  BY <2>1, Pipes
  <2>3. q \in Request /\ q.op = "resume"  BY Requests DEF Resume
  <2> QED  BY <2>1, <2>2, <2>3 DEF TypeInv, TypeOK, SidecarTypeOK, TasksTypeOK
<1>1. /\ UNCHANGED <<card, applied, inbox, via>>
      /\ outbox' = [outbox EXCEPT ![g] = Tail(@)]
  BY DEF ReadReply, NextFrame, db
<1>2. f \in Reply /\ f.req \in Request  BY <1>0, Frames
<1>3. CASE ~mine
  <2>1. task'[q] = task[q]
    BY <1>0, <1>2, <1>3 DEF ReadReply, FrameAt, Move
  <2>2. ASSUME NEW h \in Gen, NEW P PROVE Shrinks(outbox[h], outbox'[h], P)
    <3>1. outbox'[h] = outbox[h] \/ (h = g /\ outbox'[h] = Tail(outbox[h]))
      BY <1>0, <1>1
    <3> QED  BY <1>0, <3>1, Shrinking
  <2>3. Calm(c)  BY <1>1, <2>1, <2>2, Shrinking DEF Calm
  <2> QED  BY <2>3, CalmKeeps
<1>4. CASE mine
  <2>1. f \in Answers(q) /\ (f.kind = "rejected" => f \in Refusals(q))
    BY <1>2, <1>4 DEF Answers, Refusals
  <2>2. /\ Has(outbox[g], Answers(q)) /\ ~Has(Tail(outbox[g]), Answers(q))
        /\ f.kind = "rejected" => Undecided(c)
    <3>1. AtMostOne(outbox[g], Answers(q))  BY DEF DecisionInv
    <3>2. Has(outbox[g], Answers(q))  BY <1>0, <2>1, HasHead
    <3>3. f.kind = "rejected" => Has(outbox[g], Refusals(q))  BY <1>0, <2>1, HasHead
    <3>4. ~Has(Tail(outbox[g]), Answers(q))  BY <1>0, <2>1, <3>1, HasTail
    <3> QED  BY <3>2, <3>3, <3>4 DEF DecisionInv
  <2>3. ASSUME NEW h \in Gen
        PROVE  ~Has(inbox'[h], Asks(q)) /\ ~Has(outbox'[h], Answers(q))
    <3>1. CASE h = g
      <4>1. outbox'[h] = Tail(outbox[g])  BY <1>0, <1>1, <3>1
      <4> QED  BY <1>1, <2>2, <3>1, <4>1 DEF DecisionInv
    <3>2. CASE h # g
      <4>1. outbox'[h] = outbox[h]  BY <1>0, <1>1, <3>2
      <4> QED  BY <1>1, <1>4, <3>2, <4>1 DEF DecisionInv
    <3> QED  BY <3>1, <3>2
  <2>4. NoMail(c)'  BY <2>3 DEF NoMail, Has, Asks, Answers, Resume
  <2>5. task'[q] \in {"accepted", "rejected"} /\ (task'[q] = "rejected" => f.kind = "rejected")
    BY <1>0, <1>4 DEF ReadReply, FrameAt, Move
  <2>6. applied'[c] # 0 => card'[c] = "resolved"  BY <1>1 DEF DecisionInv
  <2>7. task'[q] \in {"claimed", "rejected", "refused"} => Undecided(c)'
    BY <1>1, <2>2, <2>5 DEF Undecided
  <2> QED  BY <2>4, <2>6, <2>7, NoMailKeeps
<1> QED  BY <1>3, <1>4

\* What the sidecar does with the message at the head of its inbox.
LEMMA Handled ==
    ASSUME TypeInv, NEW g \in Gen, Handle(g)
    PROVE  \E p \in Request, frames \in Seq(Frame), k \in ReplyKind :
               /\ p = Head(inbox[g]).req
               /\ Emit(g, frames)
               /\ \/ frames = <<ReplyTo(p, k)>>
                  \/ frames = <<EventOf("run.started", RunFor(p)), ReplyTo(p, k)>>
               /\ p.op = "resume" =>
                      \/ k = "rejected" /\ UNCHANGED applied
                      \/ /\ k = "accepted"
                         /\ \/ UNCHANGED applied
                            \/ applied' = [applied EXCEPT ![p.id] = @ + 1]
               /\ p.op # "resume" => UNCHANGED applied
<1> DEFINE m == Head(inbox[g])
           p == m.req
           r == RunFor(p)
<1>1. m \in Message  BY Pipes, HandleFrame
<1>2. p \in Request /\ r \in Run  BY <1>1, Requests DEF Message
<1>3. "accepted" \in ReplyKind /\ "rejected" \in ReplyKind /\ "run.started" \in EventKind
  BY SMTT(60) DEF ReplyKind, EventKind
<1>4. \/ /\ p.op \in {"start", "cancel"} /\ Emit(g, <<ReplyTo(p, "accepted")>>)
         /\ UNCHANGED applied
      \/ /\ p.op = "resume"
         /\ UNCHANGED applied \/ applied' = [applied EXCEPT ![p.id] = @ + 1]
         /\ Emit(g, <<EventOf("run.started", r), ReplyTo(p, "accepted")>>)
      \/ /\ Emit(g, <<ReplyTo(p, "rejected")>>) /\ UNCHANGED applied
  BY Zenon DEF Handle
<1> HIDE DEF m, p, r
<1>5. /\ <<ReplyTo(p, "accepted")>> \in Seq(Frame)
      /\ <<ReplyTo(p, "rejected")>> \in Seq(Frame)
      /\ <<EventOf("run.started", r), ReplyTo(p, "accepted")>> \in Seq(Frame)
  BY <1>2, <1>3, Emitted
<1>6. CASE /\ p.op \in {"start", "cancel"} /\ Emit(g, <<ReplyTo(p, "accepted")>>)
           /\ UNCHANGED applied
  BY <1>2, <1>3, <1>5, <1>6, Zenon DEF m, p
<1>7. CASE /\ p.op = "resume"
           /\ UNCHANGED applied \/ applied' = [applied EXCEPT ![p.id] = @ + 1]
           /\ Emit(g, <<EventOf("run.started", r), ReplyTo(p, "accepted")>>)
  BY <1>2, <1>3, <1>5, <1>7, Zenon DEF m, p, r
<1>8. CASE Emit(g, <<ReplyTo(p, "rejected")>>) /\ UNCHANGED applied
  BY <1>2, <1>3, <1>5, <1>8, Zenon DEF m, p
<1> QED  BY <1>4, <1>6, <1>7, <1>8, SMTT(60)

\* Other messages leave the decision alone.
LEMMA OtherHandled ==
    ASSUME TypeInv, NEW c \in Card, NEW g \in Gen, Handle(g),
           Head(inbox[g]).req # Resume(c)
    PROVE  Calm(c)
<1> DEFINE q == Resume(c)
<1>1. PICK p \in Request, frames \in Seq(Frame), k \in ReplyKind :
          /\ p = Head(inbox[g]).req
          /\ Emit(g, frames)
          /\ \/ frames = <<ReplyTo(p, k)>>
             \/ frames = <<EventOf("run.started", RunFor(p)), ReplyTo(p, k)>>
          /\ UNCHANGED applied
             \/ (p.op = "resume" /\ applied' = [applied EXCEPT ![p.id] = @ + 1])
  BY Handled, SMTT(60)
<1>2. /\ UNCHANGED <<task, via, card>>
      /\ inbox' = [inbox EXCEPT ![g] = Tail(@)] /\ inbox[g] # <<>>
  BY HandleFrame DEF db, tasks
<1>3. applied'[c] = applied[c]
  BY <1>1, Kinds DEF TypeInv, TypeOK, SidecarTypeOK
<1>4. ~Has(frames, Answers(q)) /\ ~Has(frames, Refusals(q))
  <2> DEFINE x == EventOf("run.started", RunFor(p))
             y == ReplyTo(p, k)
  <2>1. y \notin Answers(q)  BY <1>1, Requests, EventsAnswerNothing
  <2>2. x \notin Answers(q)
    <3>1. x \in Event  BY Events, Requests DEF EventKind
    <3> QED  BY <3>1, EventsAnswerNothing
  <2>3. frames = <<y>> \/ frames = <<x, y>>  BY <1>1
  <2> HIDE DEF x, y
  <2>4. ~Has(frames, Answers(q))  BY <2>1, <2>2, <2>3, HasShort
  <2> QED  BY <2>4, HasFewer, EventsAnswerNothing
<1>5. ASSUME NEW h \in Gen PROVE Shrinks(inbox[h], inbox'[h], Asks(q))
  <2>1. inbox[h] \in Seq(Message)  BY Pipes
  <2>2. inbox'[h] = inbox[h] \/ (h = g /\ inbox'[h] = Tail(inbox[h]))
    BY <1>2 DEF TypeInv, TypeOK, SidecarTypeOK
  <2> QED  BY <1>2, <2>1, <2>2, Shrinking
<1>6. \A h \in Gen : /\ Shrinks(outbox[h], outbox'[h], Answers(q))
                     /\ Shrinks(outbox[h], outbox'[h], Refusals(q))
  BY <1>1, <1>4, Written
<1> QED  BY <1>2, <1>3, <1>5, <1>6 DEF Calm

\* The message of the decision reaches the engine.
LEMMA OwnHandled ==
    ASSUME TypeInv, NEW c \in Card, DecisionInv(c), NEW g \in Gen, Handle(g),
           Head(inbox[g]).req = Resume(c)
    PROVE  /\ DecisionInv(c)' /\ Undecided(c)
           /\ UNCHANGED applied \/ applied' = [applied EXCEPT ![c] = 1]
<1> DEFINE q == Resume(c)
<1>1. PICK frames \in Seq(Frame), k \in ReplyKind :
          /\ Emit(g, frames)
          /\ \/ frames = <<ReplyTo(q, k)>>
             \/ frames = <<EventOf("run.started", RunFor(q)), ReplyTo(q, k)>>
          /\ \/ k = "rejected" /\ UNCHANGED applied
             \/ /\ k = "accepted"
                /\ UNCHANGED applied \/ applied' = [applied EXCEPT ![q.id] = @ + 1]
  <2>1. q.op = "resume"  BY SMTT(30) DEF Resume
  <2> QED  BY <2>1, Handled
<1>2. /\ UNCHANGED <<task, via, card>>
      /\ inbox' = [inbox EXCEPT ![g] = Tail(@)] /\ inbox[g] # <<>>
  BY HandleFrame DEF db, tasks
<1>3. /\ q \in Request /\ q.id = c
      /\ inbox \in [Gen -> Seq(Message)] /\ outbox \in [Gen -> Seq(Frame)]
      /\ applied \in [Card -> Nat]
  BY Requests DEF Resume, TypeInv, TypeOK, SidecarTypeOK
<1>4. Has(inbox[g], Asks(q)) /\ ~Has(Tail(inbox[g]), Asks(q)) /\ AtMostOne(Tail(inbox[g]), Asks(q))
  <2>1. inbox[g] \in Seq(Message) /\ Head(inbox[g]) \in Message  BY <1>2, Pipes
  <2>2. Head(inbox[g]) \in Asks(q)  BY <2>1 DEF Asks
  <2>3. AtMostOne(inbox[g], Asks(q))  BY DEF DecisionInv
  <2> QED  BY <1>2, <2>1, <2>2, <2>3, HasHead, HasTail
<1>5. /\ Undecided(c) /\ task[q] = "sent" /\ via[q] = g
      /\ ~Has(outbox[g], Answers(q)) /\ ~Has(outbox[g], Refusals(q))
  <2>1. Undecided(c) /\ task[q] = "sent" /\ via[q] = g /\ ~Has(outbox[g], Answers(q))
    BY <1>4 DEF DecisionInv
  <2> QED  BY <2>1, HasFewer, EventsAnswerNothing
<1>6. UNCHANGED applied \/ applied' = [applied EXCEPT ![c] = 1]
  BY <1>1, <1>3, <1>5 DEF Undecided
<1>7. k = "rejected" => Undecided(c)'
  BY <1>1, <1>2, <1>5 DEF Undecided
<1>8. AtMostOne(frames, Answers(q)) /\ (k = "accepted" => ~Has(frames, Refusals(q)))
  <2> DEFINE x == EventOf("run.started", RunFor(q))
             y == ReplyTo(q, k)
  <2>1. x \notin Answers(q) /\ x \notin Refusals(q)
    <3>1. x \in Event  BY <1>3, Events, Requests DEF EventKind
    <3> QED  BY <3>1, EventsAnswerNothing
  <2>2. k = "accepted" => y \notin Refusals(q)  BY <1>3, EventsAnswerNothing
  <2>3. frames = <<y>> \/ frames = <<x, y>>  BY <1>1
  <2> HIDE DEF x, y
  <2>4. AtMostOne(frames, Answers(q))  BY <2>1, <2>3, HasShort
  <2>5. y \notin Refusals(q) => ~Has(frames, Refusals(q))  BY <2>1, <2>3, HasShort
  <2> QED  BY <2>2, <2>4, <2>5
<1>9. ASSUME NEW h \in Gen
      PROVE  /\ AtMostOne(inbox'[h], Asks(q)) /\ AtMostOne(outbox'[h], Answers(q))
             /\ ~Has(inbox'[h], Asks(q))
             /\ Has(outbox'[h], Answers(q)) => task'[q] = "sent" /\ via'[q] = h
             /\ Has(outbox'[h], Refusals(q)) => Undecided(c)'
  <2>1. CASE h # g
    <3>1. inbox'[h] = inbox[h] /\ outbox'[h] = outbox[h]
      BY <1>1, <1>2, <1>3, <2>1 DEF Emit
    <3>2. ~Has(inbox[h], Asks(q)) /\ ~Has(outbox[h], Answers(q))
      BY <1>5, <2>1 DEF DecisionInv
    <3>3. ~Has(outbox[h], Refusals(q))  BY <3>2, HasFewer, EventsAnswerNothing
    <3> QED  BY <3>1, <3>2, <3>3 DEF Has, AtMostOne
  <2>2. CASE h = g
    <3>1. inbox'[h] = Tail(inbox[g]) /\ outbox'[h] = outbox[g] \o frames
      BY <1>1, <1>2, <1>3, <2>2 DEF Emit
    <3>2. outbox[g] \in Seq(Frame)  BY <1>3
    <3>3. /\ ~Has(outbox[g], Answers(q)) /\ AtMostOne(frames, Answers(q))
             => AtMostOne(outbox[g] \o frames, Answers(q))
          /\ Has(outbox[g] \o frames, Refusals(q))
             => Has(outbox[g], Refusals(q)) \/ Has(frames, Refusals(q))
      BY <3>2, HasConcat
    <3>4. AtMostOne(outbox'[h], Answers(q))  BY <1>5, <1>8, <3>1, <3>3, Zenon
    <3>5. Has(outbox'[h], Refusals(q)) => k # "accepted"
      BY <1>5, <1>8, <3>1, <3>3, Zenon
    <3>6. k = "accepted" \/ k = "rejected"  BY DEF ReplyKind
    <3>7. ~Has(inbox'[h], Asks(q)) /\ AtMostOne(inbox'[h], Asks(q))  BY <1>4, <3>1
    <3> QED  BY <1>2, <1>5, <1>7, <2>2, <3>4, <3>5, <3>6, <3>7
  <2> QED  BY <2>1, <2>2
<1>10. /\ card'[c] = "resolved"
       /\ task'[q] \notin {"claimed", "rejected", "refused"}
  BY <1>2, <1>5 DEF Undecided
<1>11. DecisionInv(c)'
  BY <1>9, <1>10 DEF DecisionInv, Has, AtMostOne, Asks, Answers, Refusals, Resume
<1> QED  BY <1>5, <1>6, <1>11, SMTT(60)

\* Nothing is under way after the app is started again.
LEMMA StartsAfresh ==
    ASSUME TypeInv, NEW c \in Card, DecisionInv(c), Restart
    PROVE  DecisionInv(c)'
<1>1. UNCHANGED <<card, applied>>  BY DEF Restart, db
<1>2. task'[Resume(c)] = "idle"  BY Requests DEF Restart, Resume
<1>3. NoMail(c)'
  <2>1. \A g \in Gen : inbox'[g] = <<>> /\ outbox'[g] = <<>>  BY DEF Restart
  <2> QED  BY <2>1, HasNothing DEF NoMail, Has, Asks, Answers, Resume
<1>4. applied'[c] # 0 => card'[c] = "resolved"  BY <1>1 DEF DecisionInv
<1> QED  BY <1>2, <1>3, <1>4, NoMailKeeps

-----------------------------------------------------------------------------
(* The invariant holds *)

\* Every operation keeps the account of every decision.
LEMMA DecisionNext ==
    ASSUME TypeInv, LiveRuntimeIsCurrent, DeadReadsNothing, Next,
           NEW c \in Card, DecisionInv(c)
    PROVE  DecisionInv(c)'
<1>1. ASSUME NEW r \in Run,
             \/ StartCheck(r) \/ RetryCheck(r) \/ StartStep(r)
             \/ CancelWaiting(r) \/ SendCancel(r) \/ CancelStep(r)
      PROVE  DecisionInv(c)'
  BY <1>1, StartsAndCancels, CalmKeeps
<1>2. ASSUME NEW d \in Card, ResumeCheck(d) \/ ResumeStep(d) PROVE DecisionInv(c)'
  <2>1. CASE d # c  BY <1>2, <2>1, OtherResumes, CalmKeeps
  <2>2. CASE d = c  BY <1>2, <2>2, OwnCommand, SendsOnce, GivesUp DEF ResumeStep
  <2> QED  BY <2>1, <2>2
<1>3. ASSUME NEW g \in Gen, ReaderStep(g) PROVE DecisionInv(c)'
  BY <1>3, ReplyRead, PipeEnds, OtherReading, CalmKeeps
<1>4. ASSUME NEW g \in Gen, Handle(g) PROVE DecisionInv(c)'
  BY <1>4, OwnHandled, OtherHandled, CalmKeeps
<1>5. ASSUME NEW g \in Gen, EngineStep(g) \/ Crash(g) PROVE DecisionInv(c)'
  BY <1>5, OtherWork, CalmKeeps
<1>6. CASE Reconcile  BY <1>6, OtherWork, CalmKeeps
<1>7. CASE Restart  BY <1>7, StartsAfresh
<1> QED  BY <1>1, <1>2, <1>3, <1>4, <1>5, <1>6, <1>7 DEF Next

\* Messages go only to a live process, and go with it.
LEMMA DeadNext ==
    TypeInv /\ DeadReadsNothing /\ [Next]_vars => DeadReadsNothing'
<1> SUFFICES ASSUME TypeInv, DeadReadsNothing, [Next]_vars PROVE DeadReadsNothing'
  OBVIOUS
<1>0. inbox \in [Gen -> Seq(Message)] /\ alive \in [Gen -> BOOLEAN]
  BY DEF TypeInv, TypeOK, SidecarTypeOK
<1>1. CASE UNCHANGED <<inbox, alive>>  BY <1>1 DEF DeadReadsNothing
<1>2. ASSUME NEW q, NEW from, NEW refused, EnsureStarted(q, from, refused)
      PROVE  DeadReadsNothing'
  <2>1. UNCHANGED inbox /\ \A g \in Gen : alive[g] => alive'[g]
    BY <1>0, <1>2 DEF EnsureStarted
  <2> QED  BY <2>1 DEF DeadReadsNothing
<1>3. ASSUME NEW q, NEW state, Send(q, state) PROVE DeadReadsNothing'
  <2>1. UNCHANGED alive  BY <1>3 DEF Send
  <2>2. UNCHANGED inbox \/ (alive[inner] /\ \A g \in Gen : g # inner => inbox'[g] = inbox[g])
    BY <1>0, <1>3 DEF Send
  <2> QED  BY <2>1, <2>2 DEF DeadReadsNothing
<1>4. ASSUME NEW g, Kill(g) PROVE DeadReadsNothing'
  <2>1. \A h \in Gen : \/ inbox'[h] = <<>>
                       \/ inbox'[h] = inbox[h] /\ alive'[h] = alive[h]
    BY <1>0, <1>4 DEF Kill
  <2> QED  BY <2>1 DEF DeadReadsNothing
<1>5. ASSUME NEW g \in Gen, Handle(g) PROVE DeadReadsNothing'
  <2>1. UNCHANGED alive /\ alive[g] /\ \A h \in Gen : h # g => inbox'[h] = inbox[h]
    BY <1>0, <1>5, HandleFrame
  <2> QED  BY <2>1 DEF DeadReadsNothing
<1>6. CASE Restart  BY <1>6 DEF Restart, DeadReadsNothing
<1>7. ASSUME NEW q, Timeout(q) PROVE DeadReadsNothing'
  BY <1>1, <1>4, <1>7 DEF Timeout
<1>8. ASSUME NEW r \in Run,
             \/ StartCheck(r) \/ RetryCheck(r) \/ StartStep(r)
             \/ CancelWaiting(r) \/ SendCancel(r) \/ CancelStep(r)
      PROVE  DeadReadsNothing'
  <2>1. CASE StartEnsure(r) \/ SendStart(r) \/ SendCancel(r)
    BY <1>2, <1>3, <2>1 DEF StartEnsure, SendStart, SendCancel
  <2>2. CASE Timeout(Start(r)) \/ Timeout(Cancel(r))  BY <1>7, <2>2
  <2>3. CASE \/ StartCheck(r) \/ RetryCheck(r) \/ CreateRun(r) \/ PrepareFails(r)
             \/ StartRefused(r) \/ StartRefusedSession(r) \/ DropOwnership(Start(r))
             \/ CancelWaiting(r) \/ CancelCommit(r)
    BY <1>1, <2>3 DEF StartCheck, RetryCheck, CreateRun, PrepareFails, StartRefused,
       StartRefusedSession, DropOwnership, CancelWaiting, CancelCommit, sidecar
  <2> QED  BY <1>8, <2>1, <2>2, <2>3 DEF StartStep, CancelStep
<1>9. ASSUME NEW c \in Card, ResumeCheck(c) \/ ResumeStep(c) PROVE DeadReadsNothing'
  <2>1. CASE ResumeEnsure(c) \/ SendResume(c)
    BY <1>2, <1>3, <2>1 DEF ResumeEnsure, SendResume
  <2>2. CASE Timeout(Resume(c))  BY <1>7, <2>2
  <2>3. CASE \/ ResumeCheck(c) \/ ResumeClaim(c) \/ ResumeRestore(c) \/ ResumeRunning(c)
             \/ ResumeRunningSession(c) \/ DropOwnership(Resume(c))
    BY <1>1, <2>3 DEF ResumeCheck, ResumeClaim, ResumeRestore, ResumeRunning,
       ResumeRunningSession, DropOwnership, sidecar
  <2> QED  BY <1>9, <2>1, <2>2, <2>3 DEF ResumeStep
<1>10. ASSUME NEW g \in Gen, ReaderStep(g) \/ EngineStep(g) PROVE DeadReadsNothing'
  <2>1. CASE ReaderStep(g)
    BY <1>1, <2>1, ZenonT(60) DEF ReaderStep, ReadReply, ReadUsage, ReadEvent, ReadEventSession,
       AppendCard, Release, ReadEnd, Settle, SettleSession, ReaderStops, sidecar
  <2>2. CASE EngineStep(g)
    BY <1>1, <2>2 DEF EngineStep, EngineBegins, EngineCompletes, EngineFails,
       EngineCancelled, EngineEnds, EnginePauses, EngineAsks
  <2> QED  BY <1>10, <2>1, <2>2
<1>11. ASSUME NEW g \in Gen, Crash(g) PROVE DeadReadsNothing'
  BY <1>4, <1>11 DEF Crash
<1>12. CASE Reconcile \/ UNCHANGED vars
  BY <1>1, <1>12 DEF Reconcile, vars, sidecar
<1> QED  BY <1>5, <1>6, <1>8, <1>9, <1>10, <1>11, <1>12 DEF Next

Decisions == \A c \in Card : DecisionInv(c)

\* At first nothing is decided and nothing is under way.
LEMMA DecisionsInit == Init => Decisions /\ DeadReadsNothing
<1> SUFFICES ASSUME Init PROVE Decisions /\ DeadReadsNothing  OBVIOUS
<1>1. DeadReadsNothing  BY DEF Init, DeadReadsNothing
<1>2. ASSUME NEW c \in Card PROVE DecisionInv(c)
  <2>1. \A g \in Gen : inbox[g] = <<>> /\ outbox[g] = <<>>  BY DEF Init
  <2>2. applied[c] = 0 /\ task[Resume(c)] = "idle"  BY Requests DEF Init
  <2> QED  BY <2>1, <2>2, HasNothing DEF DecisionInv
<1> QED  BY <1>1, <1>2 DEF Decisions

\* The accounts of all decisions are inductive.
LEMMA DecisionsKept ==
    TypeInv /\ LiveRuntimeIsCurrent /\ DeadReadsNothing /\ Decisions /\ [Next]_vars
    => Decisions'
<1> SUFFICES ASSUME TypeInv, LiveRuntimeIsCurrent, DeadReadsNothing, Decisions,
                    [Next]_vars, NEW c \in Card
             PROVE  DecisionInv(c)'
  BY DEF Decisions
<1>1. DecisionInv(c)  BY DEF Decisions
<1>2. CASE Next  BY <1>1, <1>2, DecisionNext
<1>3. CASE UNCHANGED vars
  BY <1>1, <1>3, PipesAtRest, CalmKeeps DEF vars, db, tasks, sidecar
<1> QED  BY <1>2, <1>3

\* They hold in every behaviour.
LEMMA DecisionInvariant == Spec => [](DeadReadsNothing /\ Decisions)
<1>1. Spec => []DeadReadsNothing
  BY DecisionsInit, DeadNext, TypeInvariant, PTL DEF Spec
<1>2. Spec => []Decisions
  BY <1>1, DecisionsInit, DecisionsKept, TypeInvariant, OneLiveRuntime, PTL DEF Spec
<1> QED  BY <1>1, <1>2, PTL

-----------------------------------------------------------------------------
(* The cards keep the promise of the ledger *)

\* The operations that change a card or act on one.
LEMMA LedgerSteps ==
    ASSUME Next
    PROVE  \/ UNCHANGED <<card, applied>>
           \/ \E c \in Card : ResumeClaim(c) \/ ResumeRestore(c)
           \/ \E r \in Run : CancelCommit(r)
           \/ \E g \in Gen : AppendCard(g) \/ Handle(g)
<1>1. ASSUME NEW r \in Run,
             \/ StartCheck(r) \/ RetryCheck(r) \/ StartStep(r)
             \/ CancelWaiting(r) \/ SendCancel(r) \/ CancelStep(r)
      PROVE  CancelCommit(r) \/ UNCHANGED <<card, applied>>
  BY <1>1 DEF StartCheck, RetryCheck, StartStep, CreateRun, PrepareFails, StartEnsure,
     EnsureStarted, SendStart, Send, StartRefused, StartRefusedSession, DropOwnership,
     Timeout, CancelWaiting, SendCancel, CancelStep, db, sidecar
<1>2. ASSUME NEW c \in Card, ResumeCheck(c) \/ ResumeStep(c)
      PROVE  ResumeClaim(c) \/ ResumeRestore(c) \/ UNCHANGED <<card, applied>>
  BY <1>2 DEF ResumeCheck, ResumeStep, ResumeEnsure, EnsureStarted, SendResume, Send,
     ResumeRunning, ResumeRunningSession, DropOwnership, Timeout, db, sidecar
<1>3. ASSUME NEW g \in Gen, ReaderStep(g)
      PROVE  AppendCard(g) \/ UNCHANGED <<card, applied>>
  <2>1. CASE ReadReply(g) \/ ReadEnd(g) \/ ReaderStops(g) \/ Release(g)
    BY <2>1, Zenon DEF ReadReply, ReadEnd, ReaderStops, Release, db, sidecar
  <2>2. CASE ReadUsage(g) \/ ReadEvent(g) \/ ReadEventSession(g)
    BY <2>2, Zenon DEF ReadUsage, ReadEvent, ReadEventSession, db, sidecar
  <2>3. CASE \E o \in Run : Settle(g, o) \/ SettleSession(g, o)
    BY <2>3, Zenon DEF Settle, SettleSession, db, sidecar
  <2> QED  BY <1>3, <2>1, <2>2, <2>3 DEF ReaderStep
<1>4. ASSUME NEW g \in Gen, EngineStep(g) \/ Crash(g)
      PROVE  UNCHANGED <<card, applied>>
  BY <1>4 DEF EngineStep, EngineBegins, EngineCompletes, EngineFails, EngineCancelled,
     EngineEnds, EnginePauses, EngineAsks, Crash, db
<1>5. CASE Restart \/ Reconcile  BY <1>5 DEF Restart, Reconcile, db, sidecar
<1> QED  BY <1>1, <1>2, <1>3, <1>4, <1>5 DEF Next

\* Each of them is a step of the ledger, or changes nothing in it.
LEMMA LedgerNext ==
    TypeInv /\ Decisions /\ [Next]_vars => [Ledger!Next]_(Ledger!vars)
<1> SUFFICES ASSUME TypeInv, Decisions, [Next]_vars PROVE [Ledger!Next]_(Ledger!vars)
  OBVIOUS
<1>0. card \in [Card -> CardStatus]  BY DEF TypeInv, TypeOK, DbTypeOK
<1>1. CASE UNCHANGED <<card, applied>>  BY <1>1 DEF Ledger!vars
<1>2. ASSUME NEW c \in Card, ResumeClaim(c) PROVE [Ledger!Next]_(Ledger!vars)
  BY <1>2 DEF ResumeClaim, sidecar, Ledger!Next, Ledger!Answer, Ledger!Set, Ledger!vars
<1>3. ASSUME NEW c \in Card, ResumeRestore(c) PROVE [Ledger!Next]_(Ledger!vars)
  <2>1. Undecided(c)  BY <1>3 DEF ResumeRestore, Decisions, DecisionInv
  <2> QED  BY <1>3, <2>1 DEF ResumeRestore, Reopen, Undecided, sidecar, Ledger!Next,
              Ledger!TakeBack, Ledger!Set, Ledger!vars
<1>4. ASSUME NEW r \in Run, CancelCommit(r) PROVE [Ledger!Next]_(Ledger!vars)
  <2>1. UNCHANGED applied  BY <1>4 DEF CancelCommit, sidecar
  <2>2. CASE UNCHANGED card  BY <1>1, <2>1, <2>2
  <2>3. CASE card' = [c \in Card |-> IF c \in Pending(r) THEN "expired" ELSE card[c]]
    <3>1. Pending(r) \in SUBSET {c \in Card : card[c] = "pending"}
      BY DEF Pending, CardsOf
    <3>2. Ledger!Expire  BY <2>1, <2>3, <3>1 DEF Ledger!Expire
    <3> QED  BY <3>2 DEF Ledger!Next
  <2> QED  BY <1>4, <2>2, <2>3 DEF CancelCommit
<1>5. ASSUME NEW g \in Gen, AppendCard(g) PROVE [Ledger!Next]_(Ledger!vars)
  <2> DEFINE c == FrameAt(g).card
  <2>1. UNCHANGED applied  BY <1>5 DEF AppendCard, sidecar
  <2>2. CASE c \in Card /\ card[c] = "none" /\ card' = [card EXCEPT ![c] = "pending"]
    <3>1. Ledger!Ask(c)  BY <2>1, <2>2 DEF Ledger!Ask, Ledger!Set
    <3> QED  BY <2>2, <3>1 DEF Ledger!Next
  <2>3. CASE c \notin Card /\ card' = [card EXCEPT ![c] = "pending"]
    <3>1. UNCHANGED card  BY <1>0, <2>3
    <3> QED  BY <1>1, <2>1, <3>1
  <2>4. CASE UNCHANGED card  BY <1>1, <2>1, <2>4
  <2> QED  BY <1>5, <2>2, <2>3, <2>4 DEF AppendCard
<1>6. ASSUME NEW g \in Gen, Handle(g) PROVE [Ledger!Next]_(Ledger!vars)
  <2>1. UNCHANGED card  BY <1>6, HandleFrame DEF db
  <2>2. CASE UNCHANGED applied  BY <1>1, <2>1, <2>2
  <2>3. CASE ~UNCHANGED applied
    <3> DEFINE p == Head(inbox[g]).req
    <3>1. p \in Request /\ p.op = "resume"
      BY <1>6, <2>3, Handled, SMTT(60)
    <3>2. p.id \in Card /\ p = Resume(p.id)  BY <3>1, Kinds
    <3>3. DecisionInv(p.id)  BY <3>2 DEF Decisions
    <3>4. Undecided(p.id) /\ applied' = [applied EXCEPT ![p.id] = 1]
      BY <1>6, <2>3, <3>2, <3>3, OwnHandled
    <3>5. Ledger!Apply(p.id)  BY <2>1, <3>4 DEF Undecided, Ledger!Apply
    <3> QED  BY <3>2, <3>5 DEF Ledger!Next
  <2> QED  BY <2>2, <2>3
<1> QED  BY <1>1, <1>2, <1>3, <1>4, <1>5, <1>6, LedgerSteps, SMTT(60) DEF vars, db, sidecar

\* The cards of the app and what the engines do with their answers implement
\* ApprovalLedger: an engine acts on a decision at most once, a decision is taken
\* back only while no engine has acted on it, and an answered or expired card is
\* not asked again, whatever resumes are refused, lost, timed out or restored,
\* whatever runs are cancelled meanwhile and whenever the app or a process stops.
THEOREM DecisionsReachOneEngine == Spec => DecisionLedger
<1>1. Init => Ledger!Init  BY DEF Init, Ledger!Init
<1> QED  BY <1>1, LedgerNext, TypeInvariant, DecisionInvariant, PTL
         DEF Spec, DecisionLedger, Ledger!Spec

-----------------------------------------------------------------------------
(* What a step may do, part by part *)

\* A message enters the inbox of the current process only, by one of the three
\* commands; it leaves when it is handled or when its process ends.
LEMMA InboxSteps ==
    ASSUME TypeInv, Next, NEW h \in Gen
    PROVE  \/ inbox'[h] = inbox[h] \/ inbox'[h] = <<>>
           \/ Handle(h) /\ inbox'[h] = Tail(inbox[h])
           \/ \E r \in Run :
                 \/ SendStart(r) /\ inbox'[h] = Append(inbox[h], [req |-> Start(r), state |-> {}])
                 \/ SendCancel(r) /\ inbox'[h] = Append(inbox[h], [req |-> Cancel(r), state |-> {}])
           \/ \E c \in Card : /\ SendResume(c)
                              /\ inbox'[h] = Append(inbox[h], [req |-> Resume(c),
                                                               state |-> seen[c].state])
<1> DEFINE Goal == \/ inbox'[h] = inbox[h] \/ inbox'[h] = <<>>
                   \/ Handle(h) /\ inbox'[h] = Tail(inbox[h])
                   \/ \E r \in Run :
                         \/ /\ SendStart(r)
                            /\ inbox'[h] = Append(inbox[h], [req |-> Start(r), state |-> {}])
                         \/ /\ SendCancel(r)
                            /\ inbox'[h] = Append(inbox[h], [req |-> Cancel(r), state |-> {}])
                   \/ \E c \in Card : /\ SendResume(c)
                                      /\ inbox'[h] = Append(inbox[h], [req |-> Resume(c),
                                                                       state |-> seen[c].state])
<1> SUFFICES Goal  OBVIOUS
<1>0. inbox \in [Gen -> Seq(Message)]  BY DEF TypeInv, TypeOK, SidecarTypeOK
<1>1. CASE UNCHANGED inbox  BY <1>1
<1>2. ASSUME NEW q, NEW state, Send(q, state)
      PROVE  \/ inbox'[h] = inbox[h]
             \/ inbox'[h] = Append(inbox[h], [req |-> q, state |-> state])
  <2>1. \/ UNCHANGED inbox
        \/ inbox' = [inbox EXCEPT ![inner] = Append(@, [req |-> q, state |-> state])]
    BY <1>2 DEF Send
  <2> QED  BY <1>0, <2>1
<1>3. ASSUME NEW q, Timeout(q) PROVE inbox'[h] = inbox[h] \/ inbox'[h] = <<>>
  BY <1>0, <1>3 DEF Timeout, Kill
<1>4. ASSUME NEW r \in Run,
             \/ StartCheck(r) \/ RetryCheck(r) \/ StartStep(r)
             \/ CancelWaiting(r) \/ SendCancel(r) \/ CancelStep(r)
      PROVE  Goal
  <2>1. CASE SendStart(r)
    <3>1. Send(Start(r), {})  BY <2>1 DEF SendStart
    <3> QED  BY <2>1, <3>1, <1>2, Zenon
  <2>2. CASE SendCancel(r)
    <3>1. Send(Cancel(r), {})  BY <2>2 DEF SendCancel
    <3> QED  BY <2>2, <3>1, <1>2, Zenon
  <2>3. CASE Timeout(Start(r)) \/ Timeout(Cancel(r))  BY <1>3, <2>3, Zenon
  <2>4. CASE \/ StartCheck(r) \/ RetryCheck(r) \/ CreateRun(r) \/ PrepareFails(r)
             \/ StartEnsure(r) \/ StartRefused(r) \/ StartRefusedSession(r)
             \/ DropOwnership(Start(r)) \/ CancelWaiting(r) \/ CancelCommit(r)
    BY <1>1, <2>4, Zenon DEF StartCheck, RetryCheck, CreateRun, PrepareFails, StartEnsure,
       EnsureStarted, StartRefused, StartRefusedSession, DropOwnership, CancelWaiting,
       CancelCommit, sidecar
  <2> QED  BY <1>4, <2>1, <2>2, <2>3, <2>4, Zenon DEF StartStep, CancelStep
<1>5. ASSUME NEW c \in Card, ResumeCheck(c) \/ ResumeStep(c) PROVE Goal
  <2>1. CASE SendResume(c)
    <3>1. Send(Resume(c), seen[c].state)  BY <2>1 DEF SendResume
    <3> QED  BY <2>1, <3>1, <1>2, Zenon
  <2>2. CASE Timeout(Resume(c))  BY <1>3, <2>2, Zenon
  <2>3. CASE \/ ResumeCheck(c) \/ ResumeEnsure(c) \/ ResumeClaim(c) \/ ResumeRestore(c)
             \/ ResumeRunning(c) \/ ResumeRunningSession(c) \/ DropOwnership(Resume(c))
    BY <1>1, <2>3, Zenon DEF ResumeCheck, ResumeEnsure, EnsureStarted, ResumeClaim,
       ResumeRestore, ResumeRunning, ResumeRunningSession, DropOwnership, sidecar
  <2> QED  BY <1>5, <2>1, <2>2, <2>3, Zenon DEF ResumeStep
<1>6. ASSUME NEW g \in Gen, ReaderStep(g) \/ EngineStep(g) PROVE Goal
  <2>1. UNCHANGED inbox
    <3>1. CASE ReaderStep(g)
      BY <3>1, ZenonT(60) DEF ReaderStep, ReadReply, ReadUsage, ReadEvent, ReadEventSession,
         AppendCard, Release, ReadEnd, Settle, SettleSession, ReaderStops, sidecar
    <3>2. CASE EngineStep(g)
      BY <3>2, Zenon DEF EngineStep, EngineBegins, EngineCompletes, EngineFails,
         EngineCancelled, EngineEnds, EnginePauses, EngineAsks
    <3> QED  BY <1>6, <3>1, <3>2
  <2> QED  BY <1>1, <2>1
<1>7. ASSUME NEW g \in Gen, Handle(g) PROVE Goal
  <2>1. inbox' = [inbox EXCEPT ![g] = Tail(@)]  BY <1>7, HandleFrame
  <2> QED  BY <1>0, <1>7, <2>1
<1>8. ASSUME NEW g \in Gen, Crash(g) PROVE Goal
  <2>1. inbox'[h] = inbox[h] \/ inbox'[h] = <<>>  BY <1>0, <1>8 DEF Crash, Kill
  <2> QED  BY <2>1
<1>9. CASE Restart
  <2>1. inbox'[h] = <<>>  BY <1>9 DEF Restart
  <2> QED  BY <2>1
<1>10. CASE Reconcile
  <2>1. UNCHANGED inbox  BY <1>10 DEF Reconcile, sidecar
  <2> QED  BY <1>1, <2>1
<1> HIDE DEF Goal
<1> QED  BY <1>4, <1>5, <1>6, <1>7, <1>8, <1>9, <1>10, Zenon DEF Next

\* A pipe grows when its process handles a message or works, is read frame by
\* frame, and goes with the app.
LEMMA OutboxSteps ==
    ASSUME TypeInv, Next, NEW h \in Gen
    PROVE  \/ outbox'[h] = outbox[h] \/ outbox'[h] = <<>>
           \/ HasFrame(h) /\ outbox'[h] = Tail(outbox[h])
           \/ Handle(h) \/ EngineStep(h)
<1>0. outbox \in [Gen -> Seq(Frame)]  BY DEF TypeInv, TypeOK, SidecarTypeOK
<1>1. ASSUME NEW r \in Run,
             \/ StartCheck(r) \/ RetryCheck(r) \/ StartStep(r)
             \/ CancelWaiting(r) \/ SendCancel(r) \/ CancelStep(r)
      PROVE  UNCHANGED outbox
  BY <1>1, ZenonT(60) DEF StartCheck, RetryCheck, StartStep, CreateRun, PrepareFails, StartEnsure,
     EnsureStarted, SendStart, Send, StartRefused, StartRefusedSession, DropOwnership,
     Timeout, CancelWaiting, SendCancel, CancelStep, CancelCommit, sidecar
<1>2. ASSUME NEW c \in Card, ResumeCheck(c) \/ ResumeStep(c) PROVE UNCHANGED outbox
  BY <1>2, ZenonT(60) DEF ResumeCheck, ResumeStep, ResumeEnsure, EnsureStarted, ResumeClaim,
     SendResume, Send, ResumeRestore, ResumeRunning, ResumeRunningSession, DropOwnership,
     Timeout, sidecar
<1>3. ASSUME NEW g \in Gen, ReaderStep(g)
      PROVE  UNCHANGED outbox \/ (HasFrame(g) /\ outbox' = [outbox EXCEPT ![g] = Tail(@)])
  BY <1>3, ZenonT(60) DEF ReaderStep, ReadReply, ReadUsage, ReadEvent, ReadEventSession, AppendCard,
     Release, ReadEnd, Settle, SettleSession, ReaderStops, AfterStatus, NextFrame, sidecar
<1>4. ASSUME NEW g \in Gen, g # h, Handle(g) \/ EngineStep(g) PROVE outbox'[h] = outbox[h]
  <2>1. \E frames : Emit(g, frames)
    <3>1. CASE Handle(g)  BY <3>1, Zenon DEF Handle
    <3>2. CASE EngineStep(g)
      BY <3>2, Zenon DEF EngineStep, EngineBegins, EngineCompletes, EngineFails,
         EngineCancelled, EngineEnds, EnginePauses, EngineAsks
    <3> QED  BY <1>4, <3>1, <3>2
  <2> QED  BY <1>0, <1>4, <2>1 DEF Emit
<1>5. ASSUME NEW g \in Gen, Crash(g) PROVE UNCHANGED outbox  BY <1>5 DEF Crash
<1>6. CASE Restart  BY <1>6 DEF Restart
<1>7. CASE Reconcile  BY <1>7 DEF Reconcile, sidecar
<1> QED  BY <1>0, <1>1, <1>2, <1>3, <1>4, <1>5, <1>6, <1>7 DEF Next

\* A card appears when its request is read; a resume begins when it is checked, with
\* the state the row of its run has then.
LEMMA RowSteps ==
    ASSUME TypeInv, Next, NEW c \in Card
    PROVE  /\ task'[Resume(c)] # "idle" => task[Resume(c)] # "idle" \/ ResumeCheck(c)
           /\ card'[c] # "none" =>
                  card[c] # "none" \/ \E g \in Gen : AppendCard(g) /\ FrameAt(g).card = c
           /\ \/ seen'[c] = seen[c] \/ seen'[c].state = {}
              \/ ResumeCheck(c) /\ seen'[c].state = saved[RunOf[c]]
<1>0. /\ Resume(c) \in Request /\ task \in [Request -> CommandStep]
      /\ card \in [Card -> CardStatus] /\ seen \in [Card -> Claim]
  BY Requests DEF TypeInv, TypeOK, TasksTypeOK, DbTypeOK
<1>1. task'[Resume(c)] # "idle" => task[Resume(c)] # "idle" \/ ResumeCheck(c)
  <2> SUFFICES ASSUME task[Resume(c)] = "idle", ~ResumeCheck(c)
               PROVE  task'[Resume(c)] = "idle"
    OBVIOUS
  <2>1. ASSUME NEW q \in Request, NEW step, Move(q, step), q # Resume(c)
        PROVE  task'[Resume(c)] = "idle"
    BY <1>0, <2>1 DEF Move
  <2>2. ASSUME UNCHANGED task PROVE task'[Resume(c)] = "idle"  BY <2>2
  <2>3. ASSUME NEW q \in Request, task[q] # "idle", NEW step, Move(q, step)
        PROVE  task'[Resume(c)] = "idle"
    BY <2>1, <2>3
  <2>4. ASSUME NEW o \in Run,
               \/ StartCheck(o) \/ RetryCheck(o) \/ StartStep(o)
               \/ CancelWaiting(o) \/ SendCancel(o) \/ CancelStep(o)
        PROVE  task'[Resume(c)] = "idle"
    <3>1. \E q \in {Start(o), Cancel(o)} : \E step : Move(q, step)
      BY <2>4 DEF StartCheck, RetryCheck, StartStep, CreateRun, PrepareFails, StartEnsure,
         EnsureStarted, SendStart, Send, StartRefused, StartRefusedSession, DropOwnership,
         Timeout, CancelWaiting, SendCancel, CancelStep, CancelCommit
    <3> QED  BY <2>1, <3>1, Requests, Kinds
  <2>5. ASSUME NEW d \in Card, ResumeCheck(d) \/ ResumeStep(d)
        PROVE  task'[Resume(c)] = "idle"
    <3>1. CASE d = c
      BY <2>5, <3>1, Zenon DEF ResumeStep, ResumeEnsure, EnsureStarted, ResumeClaim, SendResume,
         ResumeRestore, ResumeRunning, ResumeRunningSession, DropOwnership, Timeout, Overdue
    <3>2. CASE d # c
      <4>1. \E step : Move(Resume(d), step)
        BY <2>5 DEF ResumeCheck, ResumeStep, ResumeEnsure, EnsureStarted, ResumeClaim,
           SendResume, Send, ResumeRestore, ResumeRunning, ResumeRunningSession,
           DropOwnership, Timeout
      <4> QED  BY <2>1, <3>2, <4>1, Requests, Kinds
    <3> QED  BY <3>1, <3>2
  <2>6. ASSUME NEW g \in Gen, ReaderStep(g) PROVE task'[Resume(c)] = "idle"
    <3>1. CASE ReadReply(g)
      <4>1. FrameAt(g) \in Reply  BY <3>1, TypeNextFrame, Frames DEF ReadReply, TypeInv
      <4>2. CASE UNCHANGED task  BY <2>2, <4>2
      <4>3. CASE ~UNCHANGED task
        <5>1. task[FrameAt(g).req] = "sent"  BY <3>1, <4>3, Zenon DEF ReadReply
        <5>2. \E step : Move(FrameAt(g).req, step)  BY <3>1, <4>3, Zenon DEF ReadReply
        <5> QED  BY <2>3, <4>1, <5>1, <5>2, Frames
      <4> QED  BY <4>2, <4>3
    <3>2. CASE ReadEnd(g)  BY <1>0, <3>2 DEF ReadEnd
    <3>3. CASE ~ReadReply(g) /\ ~ReadEnd(g)
      <4>1. UNCHANGED task
        BY <2>6, <3>3, Zenon DEF ReaderStep, ReadUsage, ReadEvent, ReadEventSession, AppendCard,
           Release, Settle, SettleSession, ReaderStops, tasks
      <4> QED  BY <2>2, <4>1
    <3> QED  BY <3>1, <3>2, <3>3
  <2>7. ASSUME NEW g \in Gen, Handle(g) \/ EngineStep(g) \/ Crash(g)
        PROVE  task'[Resume(c)] = "idle"
    <3>1. CASE Handle(g)  BY <2>2, <3>1, HandleFrame DEF tasks
    <3>2. CASE EngineStep(g)
      BY <2>2, <3>2, Zenon DEF EngineStep, EngineBegins, EngineCompletes, EngineFails,
         EngineCancelled, EngineEnds, EnginePauses, EngineAsks, tasks
    <3>3. CASE Crash(g)  BY <2>2, <3>3 DEF Crash, tasks
    <3> QED  BY <2>7, <3>1, <3>2, <3>3
  <2>8. CASE Restart  BY <1>0, <2>8 DEF Restart, Resume
  <2>9. CASE Reconcile  BY <2>2, <2>9 DEF Reconcile, tasks
  <2> QED  BY <2>4, <2>5, <2>6, <2>7, <2>8, <2>9 DEF Next
<1>2. card'[c] # "none" =>
          card[c] # "none" \/ \E g \in Gen : AppendCard(g) /\ FrameAt(g).card = c
  <2>1. CASE UNCHANGED card  BY <2>1
  <2>2. ASSUME NEW d \in Card, ResumeClaim(d) \/ ResumeRestore(d)
        PROVE  card'[c] # "none" => card[c] # "none"
    BY <1>0, <2>2 DEF ResumeClaim, ResumeRestore, Reopen
  <2>3. ASSUME NEW o \in Run, CancelCommit(o) PROVE card'[c] # "none" => card[c] # "none"
    BY <1>0, <2>3 DEF CancelCommit, Pending
  <2>4. ASSUME NEW g \in Gen, AppendCard(g)
        PROVE  card'[c] # "none" => card[c] # "none" \/ FrameAt(g).card = c
    BY <1>0, <2>4 DEF AppendCard
  <2>5. ASSUME NEW g \in Gen, Handle(g) PROVE UNCHANGED card  BY <2>5, HandleFrame DEF db
  <2> QED  BY <2>1, <2>2, <2>3, <2>4, <2>5, LedgerSteps
<1>3. \/ seen'[c] = seen[c] \/ seen'[c].state = {}
      \/ ResumeCheck(c) /\ seen'[c].state = saved[RunOf[c]]
  <2>1. CASE UNCHANGED seen  BY <2>1
  <2>2. ASSUME NEW d \in Card, ResumeCheck(d)
        PROVE  \/ seen'[c] = seen[c]
               \/ ResumeCheck(c) /\ seen'[c].state = saved[RunOf[c]]
    BY <1>0, <2>2 DEF ResumeCheck
  <2>3. CASE Restart  BY <2>3 DEF Restart
  <2>4. ASSUME NEW o \in Run,
               \/ StartCheck(o) \/ RetryCheck(o) \/ StartStep(o)
               \/ CancelWaiting(o) \/ SendCancel(o) \/ CancelStep(o)
        PROVE  UNCHANGED seen
    BY <2>4, ZenonT(60) DEF StartCheck, RetryCheck, StartStep, CreateRun, PrepareFails,
       StartEnsure, EnsureStarted, SendStart, Send, StartRefused, StartRefusedSession,
       DropOwnership, Timeout, CancelWaiting, SendCancel, CancelStep, CancelCommit
  <2>5. ASSUME NEW d \in Card, ResumeStep(d) PROVE UNCHANGED seen
    BY <2>5, ZenonT(60) DEF ResumeStep, ResumeEnsure, EnsureStarted, ResumeClaim,
       SendResume, Send, ResumeRestore, ResumeRunning, ResumeRunningSession,
       DropOwnership, Timeout
  <2>6. ASSUME NEW g \in Gen, ReaderStep(g) \/ Handle(g) \/ EngineStep(g) \/ Crash(g)
        PROVE  UNCHANGED seen
    <3>1. CASE ReaderStep(g)
      BY <3>1, ZenonT(60) DEF ReaderStep, ReadReply, ReadUsage, ReadEvent, ReadEventSession,
         AppendCard, Release, ReadEnd, Settle, SettleSession, ReaderStops, tasks
    <3>2. CASE Handle(g)  BY <3>2, HandleFrame DEF tasks
    <3>3. CASE EngineStep(g)
      BY <3>3, Zenon DEF EngineStep, EngineBegins, EngineCompletes, EngineFails,
         EngineCancelled, EngineEnds, EnginePauses, EngineAsks, tasks
    <3>4. CASE Crash(g)  BY <3>4 DEF Crash, tasks
    <3> QED  BY <2>6, <3>1, <3>2, <3>3, <3>4
  <2>7. CASE Reconcile  BY <2>1, <2>7 DEF Reconcile, tasks
  <2> QED  BY <2>1, <2>2, <2>3, <2>4, <2>5, <2>6, <2>7 DEF Next
<1> QED  BY <1>1, <1>2, <1>3

\* The saved state of a run is the one of the last request that was read.
LEMMA SavedSteps ==
    ASSUME TypeInv, Next, NEW r \in Run
    PROVE  \/ saved'[r] = saved[r]
           \/ \E g \in Gen : /\ ReadEvent(g) /\ HasFrame(g) /\ FrameAt(g) \in Event
                             /\ reader[g].step \in {"frame", "status"}
                             /\ FrameAt(g).kind = "interruption.requested"
                             /\ FrameAt(g).run = r /\ saved'[r] = FrameAt(g).state
<1>0. saved \in [Run -> SUBSET Card]  BY DEF TypeInv, TypeOK, DbTypeOK
<1>1. CASE UNCHANGED saved  BY <1>1
<1>2. ASSUME NEW g \in Gen, ReadEvent(g)
      PROVE  \/ saved'[r] = saved[r]
             \/ /\ ReadEvent(g) /\ HasFrame(g) /\ FrameAt(g) \in Event
                /\ reader[g].step \in {"frame", "status"}
                /\ FrameAt(g).kind = "interruption.requested"
                /\ FrameAt(g).run = r /\ saved'[r] = FrameAt(g).state
  <2>1. HasFrame(g) /\ FrameAt(g) \in Event
    BY <1>2, TypeNextFrame, Frames DEF ReadEvent, TypeInv
  <2>2. \/ UNCHANGED saved
        \/ /\ FrameAt(g).kind = "interruption.requested"
           /\ saved' = [saved EXCEPT ![FrameAt(g).run] = FrameAt(g).state]
    BY <1>2 DEF ReadEvent, SavedBy
  <2>3. reader[g].step \in {"frame", "status"}  BY <1>2, Zenon DEF ReadEvent
  <2> QED  BY <1>0, <1>2, <2>1, <2>2, <2>3
<1>3. ASSUME NEW o \in Run,
             \/ StartCheck(o) \/ RetryCheck(o) \/ StartStep(o)
             \/ CancelWaiting(o) \/ SendCancel(o) \/ CancelStep(o)
      PROVE  UNCHANGED saved
  BY <1>3, ZenonT(60) DEF StartCheck, RetryCheck, StartStep, CreateRun, PrepareFails,
     StartEnsure, EnsureStarted, SendStart, Send, StartRefused, StartRefusedSession,
     DropOwnership, Timeout, CancelWaiting, SendCancel, CancelStep, CancelCommit, db
<1>4. ASSUME NEW d \in Card, ResumeCheck(d) \/ ResumeStep(d) PROVE UNCHANGED saved
  BY <1>4, ZenonT(60) DEF ResumeCheck, ResumeStep, ResumeEnsure, EnsureStarted, ResumeClaim,
     SendResume, Send, ResumeRestore, ResumeRunning, ResumeRunningSession,
     DropOwnership, Timeout, db
<1>5. ASSUME NEW g \in Gen, ReaderStep(g), ~ReadEvent(g) PROVE UNCHANGED saved
  BY <1>5, ZenonT(60) DEF ReaderStep, ReadReply, ReadUsage, ReadEventSession, AppendCard,
     Release, ReadEnd, Settle, SettleSession, ReaderStops, db
<1>6. ASSUME NEW g \in Gen, Handle(g) \/ EngineStep(g) \/ Crash(g) PROVE UNCHANGED saved
  <2>1. CASE Handle(g)  BY <2>1, HandleFrame DEF db
  <2>2. CASE EngineStep(g)
    BY <2>2, Zenon DEF EngineStep, EngineBegins, EngineCompletes, EngineFails,
       EngineCancelled, EngineEnds, EnginePauses, EngineAsks, db
  <2>3. CASE Crash(g)  BY <2>3 DEF Crash, db
  <2> QED  BY <1>6, <2>1, <2>2, <2>3
<1>7. CASE Restart \/ Reconcile  BY <1>7 DEF Restart, Reconcile, db
<1> QED  BY <1>1, <1>2, <1>3, <1>4, <1>5, <1>6, <1>7 DEF Next

\* An engine takes up cards from a resume, or asks for new ones; it begins by a
\* start or a resume and works on until it is off.
LEMMA EngineSteps ==
    ASSUME TypeInv, Next, NEW g \in Gen, NEW r \in Run
    PROVE  /\ \/ /\ engine'[g][r].state \subseteq engine[g][r].state
                 /\ engine'[g][r].unsent \subseteq engine[g][r].unsent
              \/ /\ Handle(g) /\ RunFor(Head(inbox[g]).req) = r
                 /\ engine'[g][r].state \subseteq Head(inbox[g]).state
                 /\ engine'[g][r].unsent = {}
              \/ \E new \in SUBSET (CardsOf(r) \ asked) :
                    /\ asked' = asked \cup new
                    /\ engine'[g][r].state = engine[g][r].state \cup new
                    /\ engine'[g][r].unsent = engine[g][r].state \cup new
           /\ engine'[g][r].phase # "off" /\ engine[g][r].phase = "off" =>
                  Handle(g) /\ Head(inbox[g]).req \in {Start(r)} \cup {Resume(c) : c \in CardsOf(r)}
<1> DEFINE e == engine[g][r]
           f == engine'[g][r]
           Same == f.state \subseteq e.state /\ f.unsent \subseteq e.unsent
           Works == f.phase # "off" => e.phase # "off"
<1>0. /\ engine \in [Gen -> [Run -> Engine]] /\ e \in Engine
      /\ EngineOff.phase = "off" /\ EngineOff.state = {} /\ EngineOff.unsent = {}
  BY DEF TypeInv, TypeOK, SidecarTypeOK, EngineOff
<1>1. CASE UNCHANGED engine  BY <1>1
<1>2. ASSUME f = EngineOff PROVE Same /\ Works  BY <1>0, <1>2
<1>3. ASSUME NEW h, Kill(h) PROVE Same /\ Works
  <2>1. f = e \/ f = EngineOff  BY <1>0, <1>3 DEF Kill
  <2> QED  BY <1>2, <2>1
<1>4. ASSUME NEW q, Timeout(q) PROVE Same /\ Works
  <2>1. CASE UNCHANGED engine  BY <2>1
  <2>2. CASE Kill(inner)  BY <1>3, <2>2
  <2> QED  BY <1>4, <2>1, <2>2 DEF Timeout
<1>5. ASSUME NEW o \in Run,
             \/ StartCheck(o) \/ RetryCheck(o) \/ StartStep(o)
             \/ CancelWaiting(o) \/ SendCancel(o) \/ CancelStep(o)
      PROVE  Same /\ Works
  <2>1. CASE Timeout(Start(o)) \/ Timeout(Cancel(o))  BY <1>4, <2>1
  <2>2. CASE ~Timeout(Start(o)) /\ ~Timeout(Cancel(o))
    <3>1. UNCHANGED engine
      BY <1>5, <2>2, ZenonT(60) DEF StartCheck, RetryCheck, StartStep, CreateRun, PrepareFails,
         StartEnsure, EnsureStarted, SendStart, Send, StartRefused, StartRefusedSession,
         DropOwnership, CancelWaiting, SendCancel, CancelStep, CancelCommit, sidecar
    <3> QED  BY <3>1
  <2> QED  BY <2>1, <2>2
<1>6. ASSUME NEW c \in Card, ResumeCheck(c) \/ ResumeStep(c) PROVE Same /\ Works
  <2>1. CASE Timeout(Resume(c))  BY <1>4, <2>1
  <2>2. CASE ~Timeout(Resume(c))
    <3>1. UNCHANGED engine
      BY <1>6, <2>2, ZenonT(60) DEF ResumeCheck, ResumeStep, ResumeEnsure, EnsureStarted,
         ResumeClaim, SendResume, Send, ResumeRestore, ResumeRunning, ResumeRunningSession,
         DropOwnership, sidecar
    <3> QED  BY <3>1
  <2> QED  BY <2>1, <2>2
<1>7. ASSUME NEW h \in Gen, ReaderStep(h) PROVE Same /\ Works
  <2>1. UNCHANGED engine
    BY <1>7, ZenonT(60) DEF ReaderStep, ReadReply, ReadUsage, ReadEvent, ReadEventSession,
       AppendCard, Release, ReadEnd, Settle, SettleSession, ReaderStops, sidecar
  <2> QED  BY <2>1
<1>8. ASSUME NEW h \in Gen, NEW o \in Run, NEW x, SetEngine(h, o, x)
      PROVE  IF h = g /\ o = r THEN f = x ELSE Same /\ Works
  <2>1. CASE h = g /\ o = r  BY <1>0, <1>8, <2>1 DEF SetEngine
  <2>2. CASE h # g \/ o # r
    <3>1. f = e  BY <1>0, <1>8, <2>2 DEF SetEngine
    <3> QED  BY <2>2, <3>1
  <2> QED  BY <2>1, <2>2
<1>9. ASSUME NEW h \in Gen, Handle(h)
      PROVE  \/ Same /\ Works
             \/ /\ h = g /\ RunFor(Head(inbox[g]).req) = r
                /\ f.state \subseteq Head(inbox[g]).state /\ f.unsent = {}
                /\ Head(inbox[g]).req \in {Start(r)} \cup {Resume(c) : c \in CardsOf(r)}
  <2> DEFINE m == Head(inbox[h])
             o == RunFor(m.req)
             idle == engine[h][o].phase = "off"
  <2>1. m \in Message  BY <1>9, Pipes, HandleFrame
  <2>2. m.req \in Request /\ o \in Run  BY <2>1, Requests DEF Message
  <2>3. \/ m.req.op = "start" /\ SetEngine(h, o, [EngineOff EXCEPT !.phase = "accepted"])
        \/ /\ m.req.op = "resume"
           /\ \/ SetEngine(h, o, [EngineOff EXCEPT !.phase = "going",
                                                   !.state = m.state \ {m.req.id}])
              \/ SetEngine(h, o, [EngineOff EXCEPT !.phase = "unknown"])
        \/ UNCHANGED engine
        \/ SetEngine(h, o, [engine[h][o] EXCEPT !.abort = ~idle])
    BY <1>9, Zenon DEF Handle
  <2> DEFINE x1 == [EngineOff EXCEPT !.phase = "accepted"]
             x2 == [EngineOff EXCEPT !.phase = "going", !.state = m.state \ {m.req.id}]
             x3 == [EngineOff EXCEPT !.phase = "unknown"]
             x4 == [engine[h][o] EXCEPT !.abort = ~idle]
  <2>4. /\ x1.state = {} /\ x1.unsent = {}
        /\ x2.state \subseteq m.state /\ x2.unsent = {}
        /\ x3.state = {} /\ x3.unsent = {}
    BY DEF EngineOff
  <2>5. /\ x4.state = engine[h][o].state /\ x4.unsent = engine[h][o].unsent
        /\ x4.phase = engine[h][o].phase
    <3>1. engine[h][o] \in Engine  BY <1>0, <2>2
    <3> QED  BY <3>1 DEF Engine
  <2>6. /\ m.req.op = "start" => m.req = Start(o)
        /\ m.req.op = "resume" => m.req \in {Resume(c) : c \in CardsOf(o)}
    BY <2>2 DEF Request, Start, Resume, RunFor, CardsOf
  <2>7. \/ m.req.op = "start" /\ SetEngine(h, o, x1)
        \/ m.req.op = "resume" /\ (SetEngine(h, o, x2) \/ SetEngine(h, o, x3))
        \/ UNCHANGED engine \/ SetEngine(h, o, x4)
    BY <2>3, Zenon
  <2> HIDE DEF x1, x2, x3, x4, m, o
  <2>8. CASE h = g /\ o = r
    <3>1. CASE UNCHANGED engine  BY <3>1
    <3>2. CASE SetEngine(h, o, x4)
      <4>1. f = x4  BY <1>8, <2>2, <2>8, <3>2
      <4> QED  BY <2>5, <2>8, <4>1
    <3>3. CASE m.req.op = "start" /\ SetEngine(h, o, x1)
      <4>1. f = x1  BY <1>8, <2>2, <2>8, <3>3
      <4> QED  BY <2>4, <2>6, <2>8, <3>3, <4>1 DEF m, o
    <3>4. CASE m.req.op = "resume" /\ (SetEngine(h, o, x2) \/ SetEngine(h, o, x3))
      <4>1. f = x2 \/ f = x3  BY <1>8, <2>2, <2>8, <3>4
      <4> QED  BY <2>4, <2>6, <2>8, <3>4, <4>1 DEF m, o
    <3> QED  BY <2>7, <3>1, <3>2, <3>3, <3>4
  <2>9. CASE h # g \/ o # r
    <3>1. CASE UNCHANGED engine  BY <3>1
    <3>2. ASSUME NEW x, SetEngine(h, o, x) PROVE Same /\ Works
      BY <1>8, <2>2, <2>9, <3>2
    <3> QED  BY <2>7, <3>1, <3>2
  <2> QED  BY <2>8, <2>9
<1>10. ASSUME NEW h \in Gen, EngineStep(h)
       PROVE  Works /\ (\/ Same
                        \/ \E new \in SUBSET (CardsOf(r) \ asked) :
                              /\ asked' = asked \cup new
                              /\ f.state = e.state \cup new /\ f.unsent = e.state \cup new)
  <2>1. PICK o \in Run :
            \/ EngineBegins(h, o) \/ EngineCompletes(h, o) \/ EngineFails(h, o)
            \/ EngineCancelled(h, o) \/ EnginePauses(h, o)
            \/ \E c \in Card : EngineAsks(h, o, c)
    BY <1>10 DEF EngineStep
  <2>2. CASE EnginePauses(h, o)
    <3>1. PICK new \in SUBSET (CardsOf(o) \ asked) :
              /\ asked' = asked \cup new
              /\ SetEngine(h, o, [phase |-> "pausing", abort |-> FALSE,
                                  state |-> engine[h][o].state \cup new,
                                  unsent |-> engine[h][o].state \cup new])
      BY <2>2 DEF EnginePauses
    <3>2. engine[h][o].phase # "off"  BY <2>2 DEF EnginePauses, EngineRuns
    <3>3. CASE h = g /\ o = r
      <4>1. f = [phase |-> "pausing", abort |-> FALSE, state |-> e.state \cup new,
                 unsent |-> e.state \cup new]
        BY <1>8, <3>1, <3>3
      <4> QED  BY <3>1, <3>2, <3>3, <4>1
    <3>4. CASE h # g \/ o # r  BY <1>8, <3>1, <3>4
    <3> QED  BY <3>3, <3>4
  <2>3. ASSUME NEW x, SetEngine(h, o, x), engine[h][o].phase # "off",
               x.state \subseteq engine[h][o].state, x.unsent \subseteq engine[h][o].unsent
        PROVE  Same /\ Works
    BY <1>8, <2>3
  <2>4. CASE EngineBegins(h, o)
    <3> DEFINE x == [engine[h][o] EXCEPT !.phase = "going"]
    <3>1. x.state = engine[h][o].state /\ x.unsent = engine[h][o].unsent
      BY <1>0 DEF Engine
    <3>2. SetEngine(h, o, x) /\ engine[h][o].phase # "off"
      BY <2>4 DEF EngineBegins, EngineRuns
    <3> HIDE DEF x
    <3> QED  BY <2>3, <3>1, <3>2
  <2>5. CASE EngineCompletes(h, o) \/ EngineFails(h, o) \/ EngineCancelled(h, o)
    <3>1. SetEngine(h, o, EngineOff)
      BY <2>5 DEF EngineCompletes, EngineFails, EngineCancelled, EngineEnds
    <3> QED  BY <1>0, <1>2, <1>8, <3>1
  <2>6. ASSUME NEW c \in Card, EngineAsks(h, o, c) PROVE Same /\ Works
    <3> DEFINE x == [engine[h][o] EXCEPT !.unsent = @ \ {c}]
    <3>1. x.state = engine[h][o].state /\ x.unsent \subseteq engine[h][o].unsent
      BY <1>0 DEF Engine
    <3>2. /\ SetEngine(h, o, EngineOff) \/ SetEngine(h, o, x)
          /\ engine[h][o].phase # "off"
      BY <2>6 DEF EngineAsks
    <3> HIDE DEF x
    <3> QED  BY <1>0, <1>2, <1>8, <2>3, <3>1, <3>2
  <2> QED  BY <2>1, <2>2, <2>4, <2>5, <2>6
<1>11. ASSUME NEW h \in Gen, Crash(h) PROVE Same /\ Works  BY <1>3, <1>11 DEF Crash
<1>12. ASSUME Restart PROVE Same /\ Works
  <2>1. f = EngineOff  BY <1>12 DEF Restart
  <2> QED  BY <1>2, <2>1
<1>13. ASSUME Reconcile PROVE Same /\ Works
  <2>1. UNCHANGED engine  BY <1>13 DEF Reconcile, sidecar
  <2> QED  BY <2>1
<1> HIDE DEF e, f
<1>14. \/ Same /\ Works
       \/ /\ Handle(g) /\ RunFor(Head(inbox[g]).req) = r
          /\ f.state \subseteq Head(inbox[g]).state /\ f.unsent = {}
          /\ Head(inbox[g]).req \in {Start(r)} \cup {Resume(c) : c \in CardsOf(r)}
       \/ /\ Works
          /\ \E new \in SUBSET (CardsOf(r) \ asked) :
                /\ asked' = asked \cup new
                /\ f.state = e.state \cup new /\ f.unsent = e.state \cup new
  <2> HIDE DEF Same, Works
  <2>1. ASSUME NEW o \in Run,
               \/ StartCheck(o) \/ RetryCheck(o) \/ StartStep(o)
               \/ CancelWaiting(o) \/ SendCancel(o) \/ CancelStep(o)
        PROVE  Same /\ Works
    BY <1>5, <2>1
  <2>2. ASSUME NEW c \in Card, ResumeCheck(c) \/ ResumeStep(c) PROVE Same /\ Works
    BY <1>6, <2>2
  <2> QED  BY <1>7, <1>9, <1>10, <1>11, <1>12, <1>13, <2>1, <2>2 DEF Next
<1>15. \/ Same
       \/ /\ Handle(g) /\ RunFor(Head(inbox[g]).req) = r
          /\ f.state \subseteq Head(inbox[g]).state /\ f.unsent = {}
       \/ \E new \in SUBSET (CardsOf(r) \ asked) :
             /\ asked' = asked \cup new
             /\ f.state = e.state \cup new /\ f.unsent = e.state \cup new
  BY <1>14, Zenon
<1>16. f.phase # "off" /\ e.phase = "off" =>
           Handle(g) /\ Head(inbox[g]).req \in {Start(r)} \cup {Resume(c) : c \in CardsOf(r)}
  BY <1>14, Zenon
<1> QED  BY <1>15, <1>16, Zenon DEF e, f

\* The events after which an engine has left the run.
LastKind == {"run.completed", "run.cancelled", "run.failed"}

\* The event f belongs to the run r, and asks for a card of the engine if for any.
OfEngine(g, r, f) ==
    /\ f.run = r
    /\ \/ f.kind # "interruption.requested" /\ f.state = {}
       \/ /\ f.kind = "interruption.requested"
          /\ f.state = engine[g][r].state /\ f.card \in engine[g][r].unsent
EngineWrite(g, r, x, y) ==
    /\ Emit(g, <<x>>) \/ Emit(g, <<x, y>>)
    /\ OfEngine(g, r, x) /\ OfEngine(g, r, y)
    /\ engine[g][r].phase # "off"
    /\ x.kind \in LastKind \/ y.kind \in LastKind => engine'[g][r].phase = "off"

\* An engine writes events of one run it works on; the last ones as it goes off.
LEMMA EngineWrites ==
    ASSUME TypeInv, NEW g \in Gen, EngineStep(g)
    PROVE  \E r \in Run, x \in Event, y \in Event : EngineWrite(g, r, x, y)
<1>1. PICK r \in Run :
          \/ EngineBegins(g, r) \/ EngineCompletes(g, r) \/ EngineFails(g, r)
          \/ EngineCancelled(g, r) \/ EnginePauses(g, r)
          \/ \E c \in Card : EngineAsks(g, r, c)
  BY DEF EngineStep
<1> DEFINE Fits(f) == f \in Event /\ OfEngine(g, r, f)
<1> SUFFICES \E x, y : /\ Emit(g, <<x>>) \/ Emit(g, <<x, y>>)
                       /\ engine[g][r].phase # "off"
                       /\ x.kind \in LastKind \/ y.kind \in LastKind
                          => engine'[g][r].phase = "off"
                       /\ Fits(x) /\ Fits(y)
  BY DEF EngineWrite
<1>2. \A k \in EventKind \ {"interruption.requested"} :
          Fits(EventOf(k, r)) /\ EventOf(k, r).kind = k
  BY Events DEF EventOf, OfEngine
<1>3. engine \in [Gen -> [Run -> Engine]]  BY DEF TypeInv, TypeOK, SidecarTypeOK
<1>4. /\ "run.started" \in EventKind /\ "usage.updated" \in EventKind
      /\ LastKind \subseteq EventKind \ {"interruption.requested"}
      /\ "run.started" \notin LastKind /\ "usage.updated" \notin LastKind
      /\ "interruption.requested" \notin LastKind
      /\ "run.completed" \in LastKind /\ "run.failed" \in LastKind /\ "run.cancelled" \in LastKind
  BY DEF EventKind, LastKind
<1> HIDE DEF Fits
<1>5. CASE EngineBegins(g, r)
  <2>1. Emit(g, <<EventOf("run.started", r)>>) /\ engine[g][r].phase # "off"
    BY <1>5 DEF EngineBegins, EngineRuns
  <2> QED  BY <1>2, <1>4, <2>1
<1>6. CASE EnginePauses(g, r)
  <2>1. Emit(g, <<EventOf("usage.updated", r)>>) /\ engine[g][r].phase # "off"
    BY <1>6 DEF EnginePauses, EngineRuns
  <2> QED  BY <1>2, <1>4, <2>1
<1>7. CASE EngineCompletes(g, r) \/ EngineFails(g, r) \/ EngineCancelled(g, r)
  <2>1. PICK kind \in LastKind : EngineEnds(g, r, kind)
    BY <1>4, <1>7 DEF EngineCompletes, EngineFails, EngineCancelled
  <2>2. engine[g][r].phase # "off"
    BY <1>7 DEF EngineCompletes, EngineFails, EngineCancelled, EngineRuns
  <2>3. engine'[g][r].phase = "off"
    BY <1>3, <2>1 DEF EngineEnds, SetEngine, EngineOff
  <2>4. \/ Emit(g, <<EventOf(kind, r)>>)
        \/ Emit(g, <<EventOf("usage.updated", r), EventOf(kind, r)>>)
    BY <2>1 DEF EngineEnds
  <2>5. Fits(EventOf(kind, r)) /\ Fits(EventOf("usage.updated", r))  BY <1>2, <1>4
  <2> QED  BY <2>2, <2>3, <2>4, <2>5
<1>8. ASSUME NEW c \in Card, EngineAsks(g, r, c)
      PROVE  \E x : /\ Emit(g, <<x>>) /\ engine[g][r].phase # "off"
                    /\ x.kind \notin LastKind /\ Fits(x)
  <2> DEFINE x == AskFor(r, c, engine[g][r].state, seq[g][r] + 1)
  <2>1. engine[g][r] \in Engine /\ seq[g][r] \in Nat
    BY DEF TypeInv, TypeOK, SidecarTypeOK
  <2>2. c \in engine[g][r].unsent /\ engine[g][r].phase # "off" /\ Emit(g, <<x>>)
    BY <1>8 DEF EngineAsks
  <2>3. x \in Event  BY <2>1 DEF Event, EventKind, AskFor, Engine
  <2>4. Fits(x)  BY <2>2, <2>3 DEF Fits, OfEngine, AskFor
  <2>5. x.kind \notin LastKind  BY <1>4 DEF AskFor
  <2> HIDE DEF x
  <2> QED  BY <2>2, <2>4, <2>5
<1> QED  BY <1>1, <1>5, <1>6, <1>7, <1>8

\* A handled message is answered, after run.started if it resumed the run; a
\* start is refused only while an engine works on its run.
LEMMA HandleWrites ==
    ASSUME TypeInv, NEW g \in Gen, Handle(g)
    PROVE  \E x \in Event, y \in Reply :
              /\ Emit(g, <<y>>) \/ Emit(g, <<x, y>>)
              /\ x.kind = "run.started" /\ x.state = {}
              /\ y.req = Head(inbox[g]).req
              /\ y.kind = "rejected" => engine[g][RunFor(y.req)].phase # "off"
<1> DEFINE p == Head(inbox[g]).req
           x == EventOf("run.started", RunFor(p))
<1>1. Head(inbox[g]) \in Message  BY Pipes, HandleFrame
<1>2. p \in Request /\ RunFor(p) \in Run  BY <1>1, Requests DEF Message
<1>3. x \in Event /\ x.kind = "run.started" /\ x.state = {}
  BY <1>2, Events DEF EventKind, EventOf
<1>4. \/ Emit(g, <<ReplyTo(p, "accepted")>>)
      \/ Emit(g, <<x, ReplyTo(p, "accepted")>>)
      \/ Emit(g, <<ReplyTo(p, "rejected")>>) /\ engine[g][RunFor(p)].phase # "off"
  BY Zenon DEF Handle
<1>5. \A k \in {"accepted", "rejected"} :
          ReplyTo(p, k) \in Reply /\ ReplyTo(p, k).req = p /\ ReplyTo(p, k).kind = k
  BY <1>2 DEF Reply, ReplyKind, ReplyTo
<1> HIDE DEF x
<1> QED  BY <1>3, <1>4, <1>5

-----------------------------------------------------------------------------
(* Cards are named only after they have been asked for *)

AskedOf(r) == CardsOf(r) \cap asked

\* The messages and the events that name other cards than those of their run
\* that are among A.
StrangeMessages(A) ==
    {m \in Message : \/ ~(m.state \subseteq CardsOf(RunFor(m.req)) \cap A)
                     \/ m.req.op = "resume" /\ m.req.id \notin A}
StrangeEvents(A) ==
    {f \in Event : \/ ~(f.state \subseteq CardsOf(f.run) \cap A)
                   \/ f.kind = "interruption.requested" /\ f.card \notin CardsOf(f.run) \cap A}

KnownRows ==
    /\ \A c \in Card : card[c] # "none" \/ task[Resume(c)] # "idle" => c \in asked
    /\ \A c \in Card : seen[c].state \subseteq AskedOf(RunOf[c])
    /\ \A r \in Run : saved[r] \subseteq AskedOf(r)
KnownEngines ==
    \A g \in Gen, r \in Run : /\ engine[g][r].state \subseteq AskedOf(r)
                              /\ engine[g][r].unsent \subseteq AskedOf(r)
KnownPipes ==
    \A g \in Gen : /\ ~Has(inbox[g], StrangeMessages(asked))
                   /\ ~Has(outbox[g], StrangeEvents(asked))

\* What the reader has in hand after the statements of update_run_status.
ReaderKnowsKind ==
    \A g \in Gen :
        /\ reader[g].step = "card" => FrameAt(g).kind = "interruption.requested"
        /\ reader[g].step = "release" =>
               FrameAt(g).kind \in LastKind \cup {"interruption.requested"}

KnownInv == KnownRows /\ KnownEngines /\ KnownPipes /\ ReaderKnowsKind

\* A card once asked for stays so.
LEMMA AskedGrows == Next => asked \subseteq asked'
<1> SUFFICES ASSUME Next PROVE asked \subseteq asked'  OBVIOUS
<1>1. ASSUME NEW r \in Run,
             \/ StartCheck(r) \/ RetryCheck(r) \/ StartStep(r)
             \/ CancelWaiting(r) \/ SendCancel(r) \/ CancelStep(r)
      PROVE  UNCHANGED asked
  BY <1>1, ZenonT(60) DEF StartCheck, RetryCheck, StartStep, CreateRun, PrepareFails, StartEnsure,
     EnsureStarted, SendStart, Send, StartRefused, StartRefusedSession, DropOwnership,
     Timeout, CancelWaiting, SendCancel, CancelStep, CancelCommit, sidecar
<1>2. ASSUME NEW c \in Card, ResumeCheck(c) \/ ResumeStep(c) PROVE UNCHANGED asked
  BY <1>2, ZenonT(60) DEF ResumeCheck, ResumeStep, ResumeEnsure, EnsureStarted, ResumeClaim,
     SendResume, Send, ResumeRestore, ResumeRunning, ResumeRunningSession, DropOwnership,
     Timeout, sidecar
<1>3. ASSUME NEW g \in Gen, ReaderStep(g) PROVE UNCHANGED asked
  BY <1>3, ZenonT(60) DEF ReaderStep, ReadReply, ReadUsage, ReadEvent, ReadEventSession,
     AppendCard, Release, ReadEnd, Settle, SettleSession, ReaderStops, sidecar
<1>4. ASSUME NEW g \in Gen, Handle(g) PROVE UNCHANGED asked  BY <1>4, HandleFrame
<1>5. ASSUME NEW g \in Gen, EngineStep(g) PROVE asked \subseteq asked'
  <2>1. UNCHANGED asked \/ \E new : asked' = asked \cup new
    BY <1>5, Zenon DEF EngineStep, EngineBegins, EngineCompletes, EngineFails,
       EngineCancelled, EngineEnds, EnginePauses, EngineAsks
  <2> QED  BY <2>1
<1>6. ASSUME NEW g \in Gen, Crash(g) PROVE UNCHANGED asked  BY <1>6 DEF Crash
<1>7. CASE Restart \/ Reconcile  BY <1>7 DEF Restart, Reconcile, sidecar
<1> QED  BY <1>1, <1>2, <1>3, <1>4, <1>5, <1>6, <1>7 DEF Next

\* What is not strange now is not strange later.
LEMMA StrangeShrinks ==
    ASSUME NEW A, NEW B, A \subseteq B
    PROVE  StrangeMessages(B) \subseteq StrangeMessages(A)
           /\ StrangeEvents(B) \subseteq StrangeEvents(A)
  BY DEF StrangeMessages, StrangeEvents

\* The messages the host sends name cards of their run that have been asked for.
LEMMA InboxKnown ==
    ASSUME TypeInv, KnownRows, KnownPipes, Next, NEW h \in Gen
    PROVE  ~Has(inbox'[h], StrangeMessages(asked'))
<1> DEFINE P == StrangeMessages(asked)
<1>0. inbox[h] \in Seq(Message) /\ ~Has(inbox[h], P)  BY Pipes DEF KnownPipes
<1>1. CASE inbox'[h] = inbox[h] \/ inbox'[h] = <<>>
  <2>1. ~Has(inbox'[h], P)  BY <1>0, <1>1, HasNothing
  <2> QED  BY <2>1, AskedGrows, StrangeShrinks, HasFewer
<1>2. CASE Handle(h) /\ inbox'[h] = Tail(inbox[h])
  <2>1. ~Has(inbox'[h], P)  BY <1>0, <1>2, HandleFrame, HasTail
  <2> QED  BY <2>1, AskedGrows, StrangeShrinks, HasFewer
<1>3. ASSUME NEW m \in Message, m \notin P, inbox'[h] = Append(inbox[h], m)
      PROVE  ~Has(inbox'[h], StrangeMessages(asked'))
  <2>1. ~Has(inbox'[h], P)  BY <1>0, <1>3, HasAppend
  <2> QED  BY <2>1, AskedGrows, StrangeShrinks, HasFewer
<1>4. ASSUME NEW r \in Run
      PROVE  /\ [req |-> Start(r), state |-> {}] \in Message \ P
             /\ [req |-> Cancel(r), state |-> {}] \in Message \ P
  BY Requests DEF Message, StrangeMessages, Start, Cancel
<1>5. ASSUME NEW c \in Card, SendResume(c)
      PROVE  [req |-> Resume(c), state |-> seen[c].state] \in Message \ P
  <2>1. seen[c].state \in SUBSET Card  BY DEF TypeInv, TypeOK, TasksTypeOK, Claim
  <2>2. c \in asked /\ seen[c].state \subseteq CardsOf(RunOf[c]) \cap asked
    BY <1>5 DEF SendResume, KnownRows, AskedOf
  <2>3. RunFor(Resume(c)) = RunOf[c] /\ Resume(c).id = c  BY DEF RunFor, Resume
  <2> QED  BY <2>1, <2>2, <2>3, Requests DEF Message, StrangeMessages
<1> QED  BY <1>1, <1>2, <1>3, <1>4, <1>5, InboxSteps

\* So do the events the sidecar writes.
LEMMA OutboxKnown ==
    ASSUME TypeInv, KnownEngines, KnownPipes, Next, NEW h \in Gen
    PROVE  ~Has(outbox'[h], StrangeEvents(asked'))
<1> DEFINE P == StrangeEvents(asked)
<1>0. outbox[h] \in Seq(Frame) /\ ~Has(outbox[h], P)  BY Pipes DEF KnownPipes
<1>1. CASE outbox'[h] = outbox[h] \/ outbox'[h] = <<>>
  <2>1. ~Has(outbox'[h], P)  BY <1>0, <1>1, HasNothing
  <2> QED  BY <2>1, AskedGrows, StrangeShrinks, HasFewer
<1>2. CASE HasFrame(h) /\ outbox'[h] = Tail(outbox[h])
  <2>1. ~Has(outbox'[h], P)  BY <1>0, <1>2, HasTail DEF HasFrame
  <2> QED  BY <2>1, AskedGrows, StrangeShrinks, HasFewer
<1>3. ASSUME NEW x \in Frame, NEW y \in Frame, x \notin P, y \notin P,
             \/ Emit(h, <<x>>) \/ Emit(h, <<y>>) \/ Emit(h, <<x, y>>)
      PROVE  ~Has(outbox'[h], StrangeEvents(asked'))
  <2>1. PICK frames \in {<<x>>, <<y>>, <<x, y>>} : Emit(h, frames)  BY <1>3
  <2>2. frames \in Seq(Frame)
    <3>1. <<x>> \in Seq(Frame) /\ <<y>> \in Seq(Frame) /\ <<x, y>> \in Seq(Frame)  BY <1>3
    <3> QED  BY <2>1, <3>1
  <2>3. ~Has(frames, P)
    <3>1. ~Has(<<x>>, P) /\ ~Has(<<y>>, P) /\ ~Has(<<x, y>>, P)  BY <1>3, HasShort
    <3> QED  BY <2>1, <3>1
  <2>4. Shrinks(outbox[h], outbox'[h], P)  BY <2>1, <2>2, <2>3, Written
  <2>5. ~Has(outbox'[h], P)  BY <1>0, <2>4 DEF Shrinks
  <2> QED  BY <2>5, AskedGrows, StrangeShrinks, HasFewer
<1>4. Event \subseteq Frame /\ Reply \subseteq Frame /\ Reply \cap Event = {}
  BY DEF Frame, Event, Reply, EventKind, ReplyKind
<1>5. CASE Handle(h)
  <2>1. PICK x \in Event, y \in Reply :
            /\ Emit(h, <<y>>) \/ Emit(h, <<x, y>>)
            /\ x.kind = "run.started" /\ x.state = {}
    BY <1>5, HandleWrites
  <2>2. x \notin P /\ y \notin P  BY <1>4, <2>1 DEF StrangeEvents
  <2> QED  BY <1>3, <1>4, <2>1, <2>2
<1>6. CASE EngineStep(h)
  <2>1. PICK r \in Run, x \in Event, y \in Event : EngineWrite(h, r, x, y)
    BY <1>6, EngineWrites
  <2>2. engine[h][r].state \subseteq CardsOf(r) \cap asked
        /\ engine[h][r].unsent \subseteq CardsOf(r) \cap asked
    BY DEF KnownEngines, AskedOf
  <2>3. x \notin P /\ y \notin P
    BY <2>1, <2>2 DEF StrangeEvents, EngineWrite, OfEngine
  <2> QED  BY <1>3, <1>4, <2>1, <2>3 DEF EngineWrite
<1> QED  BY <1>1, <1>2, <1>5, <1>6, OutboxSteps

\* The rows and the engines name such cards too.
LEMMA RowsKnown ==
    ASSUME TypeInv, KnownInv, Next
    PROVE  KnownRows' /\ KnownEngines'
<1>0. asked \subseteq asked'  BY AskedGrows
<1>1. ASSUME NEW g \in Gen, HasFrame(g), FrameAt(g) \in Event
      PROVE  /\ FrameAt(g).state \subseteq AskedOf(FrameAt(g).run)
             /\ FrameAt(g).kind = "interruption.requested" => FrameAt(g).card \in asked
  <2>1. ~Has(outbox[g], StrangeEvents(asked)) /\ outbox[g] \in Seq(Frame)
    BY Pipes DEF KnownInv, KnownPipes
  <2>2. FrameAt(g) \notin StrangeEvents(asked)
    BY <1>1, <2>1, HasHead DEF HasFrame, FrameAt
  <2> QED  BY <1>1, <2>2 DEF StrangeEvents, AskedOf
<1>2. ASSUME NEW c \in Card
      PROVE  card'[c] # "none" \/ task'[Resume(c)] # "idle" => c \in asked'
  <2>1. card[c] # "none" \/ task[Resume(c)] # "idle" => c \in asked'
    BY <1>0 DEF KnownInv, KnownRows
  <2>2. ResumeCheck(c) => c \in asked'  BY <2>1 DEF ResumeCheck
  <2>3. ASSUME NEW g \in Gen, AppendCard(g), FrameAt(g).card = c PROVE c \in asked'
    <3>1. /\ HasFrame(g) /\ FrameAt(g) \in Event
          /\ FrameAt(g).kind = "interruption.requested"
      BY <2>3 DEF AppendCard, TypeInv, ReaderHoldsEvent, KnownInv, ReaderKnowsKind
    <3> QED  BY <1>0, <1>1, <2>3, <3>1
  <2>4. /\ task'[Resume(c)] # "idle" => task[Resume(c)] # "idle" \/ ResumeCheck(c)
        /\ card'[c] # "none" =>
               card[c] # "none" \/ \E g \in Gen : AppendCard(g) /\ FrameAt(g).card = c
    BY RowSteps
  <2> QED  BY <2>1, <2>2, <2>3, <2>4
<1>3. \A r \in Run : AskedOf(r) \subseteq AskedOf(r)'  BY <1>0 DEF AskedOf, CardsOf
<1>4. ASSUME NEW r \in Run PROVE saved'[r] \subseteq AskedOf(r)'
  <2>1. saved[r] \subseteq AskedOf(r)  BY DEF KnownInv, KnownRows
  <2>2. CASE saved'[r] = saved[r]  BY <1>3, <2>1, <2>2
  <2>3. ASSUME NEW g \in Gen, HasFrame(g), FrameAt(g) \in Event,
               FrameAt(g).run = r, saved'[r] = FrameAt(g).state
        PROVE  saved'[r] \subseteq AskedOf(r)'
    BY <1>1, <1>3, <2>3
  <2>4. \/ saved'[r] = saved[r]
        \/ \E g \in Gen : /\ HasFrame(g) /\ FrameAt(g) \in Event
                          /\ FrameAt(g).run = r /\ saved'[r] = FrameAt(g).state
    BY SavedSteps
  <2> QED  BY <2>2, <2>3, <2>4
<1>5. ASSUME NEW c \in Card PROVE seen'[c].state \subseteq AskedOf(RunOf[c])'
  <2>1. RunOf[c] \in Run  BY ConstAssumption
  <2>2. saved[RunOf[c]] \subseteq AskedOf(RunOf[c]) /\ seen[c].state \subseteq AskedOf(RunOf[c])
    BY <2>1 DEF KnownInv, KnownRows
  <2>3. \/ seen'[c] = seen[c] \/ seen'[c].state = {}
        \/ seen'[c].state = saved[RunOf[c]]
    BY <2>1, RowSteps
  <2> QED  BY <1>3, <2>1, <2>2, <2>3
<1>6. ASSUME NEW g \in Gen, NEW r \in Run
      PROVE  /\ engine'[g][r].state \subseteq AskedOf(r)'
             /\ engine'[g][r].unsent \subseteq AskedOf(r)'
  <2>1. engine[g][r].state \subseteq AskedOf(r) /\ engine[g][r].unsent \subseteq AskedOf(r)
    BY DEF KnownInv, KnownEngines
  <2>2. CASE /\ engine'[g][r].state \subseteq engine[g][r].state
             /\ engine'[g][r].unsent \subseteq engine[g][r].unsent
    BY <1>3, <2>1, <2>2
  <2>3. CASE /\ Handle(g) /\ RunFor(Head(inbox[g]).req) = r
             /\ engine'[g][r].state \subseteq Head(inbox[g]).state
             /\ engine'[g][r].unsent = {}
    <3>1. ~Has(inbox[g], StrangeMessages(asked)) /\ inbox[g] \in Seq(Message)
      BY Pipes DEF KnownInv, KnownPipes
    <3>2. inbox[g] # <<>> /\ Head(inbox[g]) \in Message  BY <2>3, Pipes, HandleFrame
    <3>3. Head(inbox[g]) \notin StrangeMessages(asked)  BY <3>1, <3>2, HasHead
    <3>4. Head(inbox[g]).state \subseteq AskedOf(r)
      BY <2>3, <3>2, <3>3 DEF StrangeMessages, AskedOf
    <3> QED  BY <1>3, <2>3, <3>4
  <2>4. ASSUME NEW new \in SUBSET (CardsOf(r) \ asked), asked' = asked \cup new,
               engine'[g][r].state = engine[g][r].state \cup new,
               engine'[g][r].unsent = engine[g][r].state \cup new
        PROVE  /\ engine'[g][r].state \subseteq AskedOf(r)'
               /\ engine'[g][r].unsent \subseteq AskedOf(r)'
    <3>1. new \subseteq AskedOf(r)'  BY <2>4 DEF AskedOf, CardsOf
    <3> QED  BY <1>3, <2>1, <2>4, <3>1
  <2> QED  BY <2>2, <2>3, <2>4, EngineSteps
<1>7. KnownEngines'  BY <1>6 DEF KnownEngines
<1>8. KnownRows'  BY <1>2, <1>4, <1>5 DEF KnownRows, Resume
<1> QED  BY <1>7, <1>8

\* The reader goes through an event in the order of its kind.
LEMMA ReaderKnows ==
    ASSUME TypeInv, ReaderKnowsKind, Next
    PROVE  ReaderKnowsKind'
<1> DEFINE Late(s) == s \in {"card", "release"}
           Fits(s, k) == /\ s = "card" => k = "interruption.requested"
                         /\ s = "release" => k \in LastKind \cup {"interruption.requested"}
<1> SUFFICES ASSUME NEW h \in Gen, Late(reader'[h].step)
             PROVE  Fits(reader'[h].step, Head(outbox'[h]).kind)
  BY DEF ReaderKnowsKind, FrameAt
<1>0. /\ reader \in [Gen -> Reader] /\ reader[h] \in Reader
      /\ outbox \in [Gen -> Seq(Frame)] /\ outbox[h] \in Seq(Frame)
  BY DEF TypeInv, TypeOK, ReaderTypeOK, SidecarTypeOK
<1>1. Fits(reader[h].step, Head(outbox[h]).kind)  BY DEF ReaderKnowsKind, FrameAt
<1>2. Late(reader[h].step) => outbox[h] # <<>>
  BY DEF TypeInv, ReaderHoldsEvent, HasFrame
<1>3. CASE reader'[h] = reader[h] /\ outbox'[h] = outbox[h]  BY <1>1, <1>3
<1>4. ASSUME UNCHANGED reader, NEW g \in Gen, NEW frames \in Seq(Frame), Emit(g, frames)
      PROVE  Fits(reader'[h].step, Head(outbox'[h]).kind)
  <2>1. outbox[h] # <<>>  BY <1>2, <1>4
  <2>2. outbox'[h] = outbox[h] \/ outbox'[h] = outbox[h] \o frames
    BY <1>0, <1>4 DEF Emit
  <2>3. Head(outbox[h] \o frames) = Head(outbox[h])  BY <1>0, <2>1, ConcatProperties
  <2> QED  BY <1>1, <1>4, <2>2, <2>3
<1>5. ASSUME NEW g \in Gen, NextFrame(g), UNCHANGED inbox
      PROVE  Fits(reader'[h].step, Head(outbox'[h]).kind)
  <2>1. h # g  BY <1>0, <1>5 DEF NextFrame, ReaderIdle
  <2>2. reader'[h] = reader[h] /\ outbox'[h] = outbox[h]
    BY <1>0, <1>5, <2>1 DEF NextFrame
  <2> QED  BY <1>3, <2>2
<1>6. ASSUME NEW g \in Gen, NEW step, Step(g, step), UNCHANGED outbox,
             Late(step) => Fits(step, FrameAt(g).kind)
      PROVE  Fits(reader'[h].step, Head(outbox'[h]).kind)
  <2>1. CASE h = g
    <3>1. reader'[h].step = step  BY <1>0, <1>6, <2>1 DEF Step, Reader
    <3> QED  BY <1>6, <2>1, <3>1 DEF FrameAt
  <2>2. CASE h # g
    <3>1. reader'[h] = reader[h]  BY <1>0, <1>6, <2>2 DEF Step
    <3> QED  BY <1>3, <1>6, <3>1
  <2> QED  BY <2>1, <2>2
<1>8. ASSUME NEW g \in Gen, AfterStatus(g, FrameAt(g).kind), FrameAt(g) \in Event,
             UNCHANGED inbox
      PROVE  Fits(reader'[h].step, Head(outbox'[h]).kind)
  <2>1. FrameAt(g).kind \in EventKind  BY <1>8, Frames
  <2>2. \/ NextFrame(g)
        \/ /\ FrameAt(g).kind = "interruption.requested"
           /\ Step(g, "card") /\ UNCHANGED outbox
        \/ FrameAt(g).kind \in LastKind /\ Step(g, "release") /\ UNCHANGED outbox
    BY <1>8, <2>1 DEF AfterStatus, EventKind, LastKind
  <2> QED  BY <1>5, <1>6, <1>8, <2>2
<1>9. ASSUME NEW r \in Run,
             \/ StartCheck(r) \/ RetryCheck(r) \/ StartStep(r)
             \/ CancelWaiting(r) \/ SendCancel(r) \/ CancelStep(r)
      PROVE  UNCHANGED <<reader, outbox>>
  BY <1>9, ZenonT(60) DEF StartCheck, RetryCheck, StartStep, CreateRun, PrepareFails, StartEnsure,
     EnsureStarted, SendStart, Send, StartRefused, StartRefusedSession, DropOwnership,
     Timeout, CancelWaiting, SendCancel, CancelStep, CancelCommit, sidecar
<1>10. ASSUME NEW c \in Card, ResumeCheck(c) \/ ResumeStep(c)
       PROVE  UNCHANGED <<reader, outbox>>
  BY <1>10, ZenonT(60) DEF ResumeCheck, ResumeStep, ResumeEnsure, EnsureStarted, ResumeClaim,
     SendResume, Send, ResumeRestore, ResumeRunning, ResumeRunningSession, DropOwnership,
     Timeout, sidecar
<1>11. ASSUME NEW g \in Gen, ReaderStep(g)
       PROVE  Fits(reader'[h].step, Head(outbox'[h]).kind)
  <2>0. UNCHANGED inbox
    BY <1>11, ZenonT(60) DEF ReaderStep, ReadReply, ReadUsage, ReadEvent, ReadEventSession,
       AppendCard, Release, ReadEnd, Settle, SettleSession, ReaderStops, sidecar
  <2>1. CASE ReadReply(g) \/ Release(g)  BY <1>5, <2>0, <2>1 DEF ReadReply, Release
  <2>2. CASE ReadEvent(g) \/ ReadEventSession(g)
    <3>1. FrameAt(g) \in Event
      BY <2>2, TypeNextFrame, Frames DEF ReadEvent, ReadEventSession, TypeInv, ReaderHoldsEvent
    <3>2. CASE AfterStatus(g, FrameAt(g).kind)  BY <1>8, <2>0, <3>1, <3>2
    <3>3. CASE ReadEvent(g) /\ ~AfterStatus(g, FrameAt(g).kind)
      <4>1. PICK status : /\ reader' = [reader EXCEPT ![g] = [@ EXCEPT !.step = "session",
                                                                       !.status = status]]
                          /\ UNCHANGED outbox
        BY <3>3, Zenon DEF ReadEvent
      <4>2. CASE h = g
        <5>1. reader'[h].step = "session"  BY <1>0, <4>1, <4>2 DEF Reader
        <5> QED  BY <5>1
      <4>3. CASE h # g  BY <1>0, <1>3, <4>1, <4>3
      <4> QED  BY <4>2, <4>3
    <3> QED  BY <2>2, <3>2, <3>3 DEF ReadEventSession
  <2>3. CASE AppendCard(g)
    <3>1. FrameAt(g).kind = "interruption.requested" /\ Step(g, "release") /\ UNCHANGED outbox
      BY <2>3 DEF AppendCard, ReaderKnowsKind, sidecar
    <3> QED  BY <1>6, <3>1
  <2>4. CASE \/ ReadUsage(g) \/ ReadEnd(g) \/ ReaderStops(g)
             \/ \E r \in Run : Settle(g, r) \/ SettleSession(g, r)
    <3>1. UNCHANGED outbox /\ \A k \in Gen \ {g} : reader'[k] = reader[k]
      BY <1>0, <2>4, Zenon DEF ReadUsage, ReadEnd, ReaderStops, Step, Settle, SettleSession, sidecar
    <3>2. ~Late(reader'[g].step)
      <4>1. reader[g] \in Reader  BY <1>0
      <4>2. CASE ReadUsage(g) \/ ReadEnd(g) \/ ReaderStops(g)
        <5> DEFINE used == [reader[g] EXCEPT !.step = "status",
                                             !.status = runStatus[FrameAt(g).run]]
                   over == [reader[g] EXCEPT !.step = "settle", !.doomed = owned[g]]
                   last == [reader[g] EXCEPT !.step = "ended"]
        <5>1. used.step = "status" /\ over.step = "settle" /\ last.step = "ended"
          BY <4>1 DEF Reader
        <5>2. \/ reader' = [reader EXCEPT ![g] = used] \/ reader' = [reader EXCEPT ![g] = over]
              \/ reader' = [reader EXCEPT ![g] = last]
          BY <4>2, Zenon DEF ReadUsage, ReadEnd, ReaderStops, Step
        <5> HIDE DEF used, over, last
        <5>3. reader'[g] = used \/ reader'[g] = over \/ reader'[g] = last  BY <1>0, <5>2
        <5> QED  BY <5>1, <5>3
      <4>3. ASSUME NEW r \in Run, Settle(g, r) PROVE ~Late(reader'[g].step)
        <5> DEFINE rest == [reader[g] EXCEPT !.doomed = @ \ {r}]
                   next == [rest EXCEPT !.step = "settle_session", !.now = {r}]
        <5>1. rest.step = "settle" /\ next.step = "settle_session"
          <6>1. reader[g].step = "settle"  BY <4>3 DEF Settle
          <6> QED  BY <4>1, <6>1 DEF Reader
        <5>2. reader' = [reader EXCEPT ![g] = next] \/ reader' = [reader EXCEPT ![g] = rest]
          BY <4>3, Zenon DEF Settle
        <5> HIDE DEF rest, next
        <5>3. reader'[g] = next \/ reader'[g] = rest  BY <1>0, <5>2
        <5> QED  BY <5>1, <5>3
      <4>4. ASSUME NEW r \in Run, SettleSession(g, r) PROVE ~Late(reader'[g].step)
        <5> DEFINE next == [reader[g] EXCEPT !.step = "settle", !.now = {}]
        <5>1. next.step = "settle"  BY <4>1 DEF Reader
        <5>2. reader' = [reader EXCEPT ![g] = next]  BY <4>4, Zenon DEF SettleSession
        <5> HIDE DEF next
        <5>3. reader'[g] = next  BY <1>0, <5>2
        <5> QED  BY <5>1, <5>3
      <4> QED  BY <2>4, <4>2, <4>3, <4>4
    <3> QED  BY <1>3, <3>1, <3>2
  <2> QED  BY <1>11, <2>1, <2>2, <2>3, <2>4 DEF ReaderStep
<1>12. ASSUME NEW g \in Gen, Handle(g) \/ EngineStep(g)
       PROVE  Fits(reader'[h].step, Head(outbox'[h]).kind)
  <2>1. UNCHANGED reader
    <3>1. CASE Handle(g)  BY <3>1, HandleFrame
    <3>2. CASE EngineStep(g)
      BY <3>2, Zenon DEF EngineStep, EngineBegins, EngineCompletes, EngineFails,
         EngineCancelled, EngineEnds, EnginePauses, EngineAsks
    <3> QED  BY <1>12, <3>1, <3>2
  <2>2. \E frames \in Seq(Frame) : Emit(g, frames)
    <3>1. ASSUME NEW x \in Frame, NEW y \in Frame
          PROVE  <<x>> \in Seq(Frame) /\ <<x, y>> \in Seq(Frame)
      OBVIOUS
    <3>2. Event \subseteq Frame /\ Reply \subseteq Frame  BY DEF Frame
    <3>3. CASE Handle(g)
      <4>1. PICK x \in Event, y \in Reply : Emit(g, <<y>>) \/ Emit(g, <<x, y>>)
        BY <3>3, HandleWrites
      <4> QED  BY <3>1, <3>2, <4>1
    <3>4. CASE EngineStep(g)
      <4>1. PICK r \in Run, x \in Event, y \in Event : EngineWrite(g, r, x, y)
        BY <3>4, EngineWrites
      <4> QED  BY <3>1, <3>2, <4>1 DEF EngineWrite
    <3> QED  BY <1>12, <3>3, <3>4
  <2> QED  BY <1>4, <2>1, <2>2
<1>13. ASSUME NEW g \in Gen, Crash(g) PROVE UNCHANGED <<reader, outbox>>
  BY <1>13 DEF Crash
<1>14. CASE Restart
  <2>1. ~Late(reader'[h].step)  BY <1>14 DEF Restart, ReaderIdle
  <2> QED  BY <2>1
<1>15. CASE Reconcile  BY <1>3, <1>15 DEF Reconcile, sidecar
<1> HIDE DEF Late, Fits
<1>16. CASE UNCHANGED <<reader, outbox>>
  <2>1. reader'[h] = reader[h] /\ outbox'[h] = outbox[h]  BY <1>16
  <2> QED  BY <1>1, <2>1
<1> QED  BY <1>9, <1>10, <1>11, <1>12, <1>13, <1>14, <1>15, <1>16 DEF Next

\* No state, message, event or command names a card before an engine asked for it.
LEMMA KnownInvariant == Spec => []KnownInv
<1>1. Init => KnownInv
  <2> SUFFICES ASSUME Init PROVE KnownInv  OBVIOUS
  <2>1. KnownRows /\ KnownEngines
    BY Requests, ConstAssumption DEF Init, KnownRows, KnownEngines, EngineOff
  <2>2. KnownPipes  BY HasNothing DEF Init, KnownPipes
  <2>3. ReaderKnowsKind  BY DEF Init, ReaderKnowsKind, ReaderIdle
  <2> QED  BY <2>1, <2>2, <2>3 DEF KnownInv
<1>2. TypeInv /\ KnownInv /\ [Next]_vars => KnownInv'
  <2> SUFFICES ASSUME TypeInv, KnownInv, [Next]_vars PROVE KnownInv'  OBVIOUS
  <2>1. CASE Next
    <3>1. KnownPipes'
      <4>1. \A h \in Gen : /\ ~Has(inbox'[h], StrangeMessages(asked'))
                           /\ ~Has(outbox'[h], StrangeEvents(asked'))
        BY <2>1, InboxKnown, OutboxKnown DEF KnownInv
      <4> QED  BY <4>1 DEF KnownPipes, Has, StrangeMessages, StrangeEvents, CardsOf, RunFor
    <3> QED  BY <2>1, <3>1, RowsKnown, ReaderKnows DEF KnownInv
  <2>2. CASE UNCHANGED vars
    BY <2>2 DEF vars, db, host, tasks, sidecar, KnownInv, KnownRows, KnownEngines,
       KnownPipes, ReaderKnowsKind, AskedOf, Has, StrangeMessages, StrangeEvents, CardsOf,
       RunFor, Resume, FrameAt
  <2> QED  BY <2>1, <2>2
<1> QED  BY <1>1, <1>2, TypeInvariant, PTL DEF Spec

-----------------------------------------------------------------------------
(* The first leg of a run is owned by the process that executes it *)

\* A process that ends takes its engines with it.
LEMMA EndsWithEngines ==
    ASSUME TypeInv, Next, NEW g \in Gen, NEW r \in Run, alive[g], ~alive'[g]
    PROVE  engine'[g][r].phase = "off"
<1>0. alive \in [Gen -> BOOLEAN] /\ engine \in [Gen -> [Run -> Engine]]
  BY DEF TypeInv, TypeOK, SidecarTypeOK
<1>1. ASSUME NEW h, Kill(h) PROVE engine'[g][r].phase = "off"
  <2>1. h = g  BY <1>0, <1>1 DEF Kill
  <2> QED  BY <1>0, <1>1, <2>1 DEF Kill, EngineOff
<1>2. ASSUME NEW q, Timeout(q) PROVE engine'[g][r].phase = "off"
  BY <1>1, <1>2 DEF Timeout
<1>3. ~UNCHANGED alive  OBVIOUS
<1>4. ASSUME NEW q, NEW from, NEW refused, EnsureStarted(q, from, refused) PROVE FALSE
  BY <1>0, <1>4 DEF EnsureStarted
<1>5. ASSUME NEW o \in Run,
             \/ StartCheck(o) \/ RetryCheck(o) \/ StartStep(o)
             \/ CancelWaiting(o) \/ SendCancel(o) \/ CancelStep(o)
      PROVE  engine'[g][r].phase = "off"
  <2>1. CASE Timeout(Start(o)) \/ Timeout(Cancel(o))  BY <1>2, <2>1
  <2>2. CASE StartEnsure(o)  BY <1>4, <2>2 DEF StartEnsure
  <2>3. CASE \/ StartCheck(o) \/ RetryCheck(o) \/ CreateRun(o) \/ PrepareFails(o)
             \/ SendStart(o) \/ StartRefused(o) \/ StartRefusedSession(o)
             \/ DropOwnership(Start(o)) \/ CancelWaiting(o) \/ SendCancel(o) \/ CancelCommit(o)
    BY <1>3, <2>3, ZenonT(60) DEF StartCheck, RetryCheck, CreateRun, PrepareFails, SendStart, Send,
       StartRefused, StartRefusedSession, DropOwnership, CancelWaiting, SendCancel,
       CancelCommit, sidecar
  <2> QED  BY <1>5, <2>1, <2>2, <2>3 DEF StartStep, CancelStep
<1>6. ASSUME NEW c \in Card, ResumeCheck(c) \/ ResumeStep(c)
      PROVE  engine'[g][r].phase = "off"
  <2>1. CASE Timeout(Resume(c))  BY <1>2, <2>1
  <2>2. CASE ResumeEnsure(c)  BY <1>4, <2>2 DEF ResumeEnsure
  <2>3. CASE \/ ResumeCheck(c) \/ ResumeClaim(c) \/ SendResume(c) \/ ResumeRestore(c)
             \/ ResumeRunning(c) \/ ResumeRunningSession(c) \/ DropOwnership(Resume(c))
    BY <1>3, <2>3, ZenonT(60) DEF ResumeCheck, ResumeClaim, SendResume, Send, ResumeRestore,
       ResumeRunning, ResumeRunningSession, DropOwnership, sidecar
  <2> QED  BY <1>6, <2>1, <2>2, <2>3 DEF ResumeStep
<1>7. ASSUME NEW h \in Gen, ReaderStep(h) PROVE FALSE
  BY <1>3, <1>7, ZenonT(60) DEF ReaderStep, ReadReply, ReadUsage, ReadEvent, ReadEventSession,
     AppendCard, Release, ReadEnd, Settle, SettleSession, ReaderStops, sidecar
<1>8. ASSUME NEW h \in Gen, Handle(h) PROVE FALSE  BY <1>3, <1>8, HandleFrame
<1>9. ASSUME NEW h \in Gen, EngineStep(h) PROVE FALSE
  BY <1>3, <1>9, Zenon DEF EngineStep, EngineBegins, EngineCompletes, EngineFails,
     EngineCancelled, EngineEnds, EnginePauses, EngineAsks
<1>10. ASSUME NEW h \in Gen, Crash(h) PROVE engine'[g][r].phase = "off"
  BY <1>1, <1>10 DEF Crash
<1>11. CASE Restart  BY <1>11 DEF Restart, EngineOff
<1>12. CASE Reconcile  BY <1>3, <1>12 DEF Reconcile, sidecar
<1> QED  BY <1>5, <1>6, <1>7, <1>8, <1>9, <1>10, <1>11, <1>12 DEF Next

\* No engine works in a dead process.
DeadRunsNothing == \A g \in Gen, r \in Run : ~alive[g] => engine[g][r].phase = "off"
LEMMA DeadRunsInvariant == Spec => []DeadRunsNothing
<1>1. Init => DeadRunsNothing  BY DEF Init, DeadRunsNothing, EngineOff
<1>2. TypeInv /\ DeadRunsNothing /\ [Next]_vars => DeadRunsNothing'
  <2> SUFFICES ASSUME TypeInv, DeadRunsNothing, [Next]_vars, NEW g \in Gen, NEW r \in Run,
                      ~alive'[g]
               PROVE  engine'[g][r].phase = "off"
    BY DEF DeadRunsNothing
  <2>1. CASE Next
    <3>1. CASE alive[g]  BY <2>1, <3>1, EndsWithEngines
    <3>2. CASE ~alive[g]
      <4>1. engine[g][r].phase = "off"  BY <3>2 DEF DeadRunsNothing
      <4>2. ~Handle(g)  BY <3>2, HandleFrame
      <4> QED  BY <2>1, <4>1, <4>2, EngineSteps
    <3> QED  BY <3>1, <3>2
  <2>2. CASE UNCHANGED vars  BY <2>2 DEF vars, sidecar, DeadRunsNothing
  <2> QED  BY <2>1, <2>2
<1> QED  BY <1>1, <1>2, TypeInvariant, PTL DEF Spec

\* How a process comes to own a run no more.
LEMMA OwnedSteps ==
    ASSUME TypeInv, Next, NEW g \in Gen, NEW r \in Run, r \in owned[g], r \notin owned'[g]
    PROVE  \/ DropOwnership(Start(r))
           \/ \E c \in CardsOf(r) : DropOwnership(Resume(c))
           \/ (Release(g) /\ FrameAt(g).run = r)
           \/ ReadEnd(g) \/ Restart
<1>0. owned \in [Gen -> SUBSET Run] /\ owned'[g] # owned[g]
  BY DEF TypeInv, TypeOK, HostTypeOK
<1>1. ~UNCHANGED owned  BY <1>0
<1>2. ASSUME NEW q, NEW state, Send(q, state) PROVE FALSE
  BY <1>0, <1>2 DEF Send
<1>3. ASSUME NEW q, DropOwnership(q) PROVE RunFor(q) = r
  BY <1>0, <1>3 DEF DropOwnership
<1>4. ASSUME NEW o \in Run,
             \/ StartCheck(o) \/ RetryCheck(o) \/ StartStep(o)
             \/ CancelWaiting(o) \/ SendCancel(o) \/ CancelStep(o)
      PROVE  DropOwnership(Start(r))
  <2>1. CASE SendStart(o) \/ SendCancel(o)  BY <1>2, <2>1 DEF SendStart, SendCancel
  <2>2. CASE DropOwnership(Start(o))
    <3>1. RunFor(Start(o)) = o  BY DEF RunFor, Start
    <3> QED  BY <1>3, <2>2, <3>1
  <2>3. CASE \/ StartCheck(o) \/ RetryCheck(o) \/ CreateRun(o) \/ PrepareFails(o)
             \/ StartEnsure(o) \/ StartRefused(o) \/ StartRefusedSession(o)
             \/ Timeout(Start(o)) \/ CancelWaiting(o) \/ CancelCommit(o) \/ Timeout(Cancel(o))
    BY <1>1, <2>3, ZenonT(60) DEF StartCheck, RetryCheck, CreateRun, PrepareFails, StartEnsure,
       EnsureStarted, StartRefused, StartRefusedSession, Timeout, CancelWaiting,
       CancelCommit, host
  <2> QED  BY <1>4, <2>1, <2>2, <2>3 DEF StartStep, CancelStep
<1>5. ASSUME NEW c \in Card, ResumeCheck(c) \/ ResumeStep(c)
      PROVE  c \in CardsOf(r) /\ DropOwnership(Resume(c))
  <2>1. CASE SendResume(c)  BY <1>2, <2>1 DEF SendResume
  <2>2. CASE DropOwnership(Resume(c))
    <3>1. RunFor(Resume(c)) = RunOf[c]  BY DEF RunFor, Resume
    <3> QED  BY <1>3, <2>2, <3>1 DEF CardsOf
  <2>3. CASE \/ ResumeCheck(c) \/ ResumeEnsure(c) \/ ResumeClaim(c) \/ ResumeRestore(c)
             \/ ResumeRunning(c) \/ ResumeRunningSession(c) \/ Timeout(Resume(c))
    BY <1>1, <2>3, ZenonT(60) DEF ResumeCheck, ResumeEnsure, EnsureStarted, ResumeClaim,
       ResumeRestore, ResumeRunning, ResumeRunningSession, Timeout, host
  <2> QED  BY <1>5, <2>1, <2>2, <2>3 DEF ResumeStep
<1>6. ASSUME NEW h \in Gen, ReaderStep(h)
      PROVE  (Release(g) /\ FrameAt(g).run = r) \/ ReadEnd(g)
  <2>1. CASE Release(h)
    <3>1. owned' = [owned EXCEPT ![h] = @ \ {FrameAt(h).run}]  BY <2>1 DEF Release
    <3>2. h = g /\ FrameAt(h).run = r  BY <1>0, <3>1
    <3> QED  BY <2>1, <3>2
  <2>2. CASE ReadEnd(h)
    <3>1. owned' = [owned EXCEPT ![h] = {}]  BY <2>2 DEF ReadEnd
    <3>2. h = g  BY <1>0, <3>1
    <3> QED  BY <2>2, <3>2
  <2>3. CASE ~Release(h) /\ ~ReadEnd(h)
    BY <1>1, <1>6, <2>3, ZenonT(60) DEF ReaderStep, ReadReply, ReadUsage, ReadEvent,
       ReadEventSession, AppendCard, Settle, SettleSession, ReaderStops, host
  <2> QED  BY <2>1, <2>2, <2>3
<1>7. ASSUME NEW h \in Gen, Handle(h) PROVE FALSE  BY <1>1, <1>7, HandleFrame DEF host
<1>8. ASSUME NEW h \in Gen, EngineStep(h) PROVE FALSE
  BY <1>1, <1>8, Zenon DEF EngineStep, EngineBegins, EngineCompletes, EngineFails,
     EngineCancelled, EngineEnds, EnginePauses, EngineAsks, host
<1>9. ASSUME NEW h \in Gen, Crash(h) PROVE FALSE  BY <1>1, <1>9 DEF Crash, host
<1>10. CASE Reconcile  BY <1>1, <1>10 DEF Reconcile, host
<1>11. CardsOf(r) \subseteq Card  BY DEF CardsOf
<1> QED  BY <1>4, <1>5, <1>6, <1>7, <1>8, <1>9, <1>10, <1>11 DEF Next

\* The steps of a start command before its message is sent.
NotSent == {"idle", "checked", "created", "ensured"}
LEMMA StartTaskSteps ==
    ASSUME TypeInv, Next, ~Restart, NEW r \in Run
    PROVE  /\ task'[Start(r)] \in NotSent => task[Start(r)] \in NotSent
           /\ task'[Start(r)] = "rejected" =>
                  \/ task[Start(r)] = "rejected"
                  \/ \E g \in Gen : HasFrame(g) /\ FrameAt(g) \in Refusals(Start(r))
<1> DEFINE q == Start(r)
           Kept == /\ task'[q] \in NotSent => task[q] \in NotSent
                   /\ task'[q] = "rejected" => task[q] = "rejected"
<1>0. q \in Request /\ q.op = "start" /\ task \in [Request -> CommandStep]
  BY Requests DEF Start, TypeInv, TypeOK, TasksTypeOK
<1>1. ASSUME UNCHANGED task PROVE Kept  BY <1>1
<1>2. ASSUME NEW p, p # q, NEW step, Move(p, step) PROVE Kept
  BY <1>0, <1>2 DEF Move
<1>3. ASSUME NEW step, step # "rejected", step \notin NotSent \/ task[q] \in NotSent,
             Move(q, step)
      PROVE  Kept
  BY <1>0, <1>3 DEF Move
<1>4. /\ {"idle", "checked", "created", "ensured"} = NotSent /\ "rejected" \notin NotSent
      /\ {"refused", "session", "done", "sent", "left"} \cap NotSent = {}
  BY DEF NotSent
<1>5. ASSUME NEW o \in Run,
             \/ StartCheck(o) \/ RetryCheck(o) \/ StartStep(o)
             \/ CancelWaiting(o) \/ SendCancel(o) \/ CancelStep(o)
      PROVE  Kept
  <2>1. CASE o = r /\ (StartCheck(o) \/ RetryCheck(o) \/ StartStep(o))
    <3>1. CASE StartCheck(r) \/ RetryCheck(r) \/ CreateRun(r) \/ PrepareFails(r)
      BY <1>3, <1>4, <3>1 DEF StartCheck, RetryCheck, CreateRun, PrepareFails
    <3>2. CASE StartEnsure(r)
      BY <1>3, <1>4, <3>2 DEF StartEnsure, EnsureStarted
    <3>3. CASE SendStart(r)
      BY <1>0, <1>3, <1>4, <3>3 DEF SendStart, Send, Lost
    <3>4. CASE StartRefused(r) \/ StartRefusedSession(r)
      BY <1>3, <1>4, <3>4 DEF StartRefused, StartRefusedSession
    <3>5. CASE DropOwnership(q) \/ Timeout(q)
      BY <1>0, <1>3, <1>4, <3>5 DEF DropOwnership, Timeout, Lost
    <3> QED  BY <2>1, <3>1, <3>2, <3>3, <3>4, <3>5 DEF StartStep
  <2>2. CASE o # r /\ (StartCheck(o) \/ RetryCheck(o) \/ StartStep(o))
    <3>1. \E step : Move(Start(o), step)
      BY <2>2 DEF StartCheck, RetryCheck, StartStep, CreateRun, PrepareFails, StartEnsure,
         EnsureStarted, SendStart, Send, StartRefused, StartRefusedSession, DropOwnership,
         Timeout
    <3>2. Start(o) # q  BY <2>2, RequestsApart
    <3> QED  BY <1>2, <3>1, <3>2
  <2>3. CASE CancelWaiting(o) \/ SendCancel(o) \/ CancelStep(o)
    <3>1. \E step : Move(Cancel(o), step)
      BY <2>3 DEF CancelWaiting, SendCancel, Send, CancelStep, CancelCommit, Timeout
    <3>2. Cancel(o) # q  BY RequestsApart
    <3> QED  BY <1>2, <3>1, <3>2
  <2> QED  BY <1>5, <2>1, <2>2, <2>3
<1>6. ASSUME NEW c \in Card, ResumeCheck(c) \/ ResumeStep(c) PROVE Kept
  <2>1. \E step : Move(Resume(c), step)
    BY <1>6 DEF ResumeCheck, ResumeStep, ResumeEnsure, EnsureStarted, ResumeClaim,
       SendResume, Send, ResumeRestore, ResumeRunning, ResumeRunningSession,
       DropOwnership, Timeout
  <2>2. Resume(c) # q  BY RequestsApart
  <2> QED  BY <1>2, <2>1, <2>2
<1>7. ASSUME NEW g \in Gen, ReaderStep(g)
      PROVE  Kept \/ (HasFrame(g) /\ FrameAt(g) \in Refusals(q))
  <2>1. CASE ReadReply(g)
    <3>1. FrameAt(g) \in Reply /\ HasFrame(g)
      BY <2>1, TypeNextFrame, Frames DEF ReadReply, TypeInv
    <3>2. CASE FrameAt(g).req = q /\ FrameAt(g).kind = "rejected"
      BY <3>1, <3>2 DEF Refusals
    <3>3. CASE FrameAt(g).req = q /\ FrameAt(g).kind # "rejected"
      <4>1. UNCHANGED task \/ Move(q, "done")  BY <1>0, <2>1, <3>3 DEF ReadReply
      <4> QED  BY <1>1, <1>3, <1>4, <4>1
    <3>4. CASE FrameAt(g).req # q
      <4>1. UNCHANGED task \/ \E step : Move(FrameAt(g).req, step)
        BY <2>1 DEF ReadReply
      <4> QED  BY <1>1, <1>2, <3>4, <4>1
    <3> QED  BY <3>2, <3>3, <3>4
  <2>2. CASE ReadEnd(g)
    <3>1. task'[q] = task[q] \/ task'[q] = "left"  BY <1>0, <2>2 DEF ReadEnd, Lost
    <3> QED  BY <1>4, <3>1
  <2>3. CASE ~ReadReply(g) /\ ~ReadEnd(g)
    <3>1. UNCHANGED task
      BY <1>7, <2>3, ZenonT(60) DEF ReaderStep, ReadUsage, ReadEvent, ReadEventSession, AppendCard,
         Release, Settle, SettleSession, ReaderStops, tasks
    <3> QED  BY <1>1, <3>1
  <2> QED  BY <2>1, <2>2, <2>3
<1>8. ASSUME NEW g \in Gen, Handle(g) \/ EngineStep(g) \/ Crash(g) PROVE Kept
  <2>1. UNCHANGED task
    <3>1. CASE Handle(g)  BY <3>1, HandleFrame DEF tasks
    <3>2. CASE EngineStep(g)
      BY <3>2, Zenon DEF EngineStep, EngineBegins, EngineCompletes, EngineFails,
         EngineCancelled, EngineEnds, EnginePauses, EngineAsks, tasks
    <3>3. CASE Crash(g)  BY <3>3 DEF Crash, tasks
    <3> QED  BY <1>8, <3>1, <3>2, <3>3
  <2> QED  BY <1>1, <2>1
<1>9. ASSUME Reconcile PROVE Kept  BY <1>1, <1>9 DEF Reconcile, tasks
<1>10. Kept \/ \E g \in Gen : HasFrame(g) /\ FrameAt(g) \in Refusals(q)
  <2> HIDE DEF Kept
  <2> QED  BY <1>5, <1>6, <1>7, <1>8, <1>9 DEF Next
<1>11. task'[q] \in NotSent => task[q] \in NotSent
  <2>1. ASSUME NEW g \in Gen, ReaderStep(g) PROVE task'[q] \in NotSent => task[q] \in NotSent
    <3>1. CASE Kept  BY <3>1
    <3>2. CASE HasFrame(g) /\ FrameAt(g) \in Refusals(q) /\ ~Kept
      <4>1. ReadReply(g) \/ ReadEnd(g) \/ UNCHANGED task
        BY <2>1, ZenonT(60) DEF ReaderStep, ReadUsage, ReadEvent, ReadEventSession, AppendCard,
           Release, Settle, SettleSession, ReaderStops, tasks
      <4>2. CASE ReadReply(g)
        <5>1. UNCHANGED task \/ Move(q, "rejected")
          BY <1>0, <3>2, <4>2 DEF ReadReply, Refusals
        <5> QED  BY <1>0, <1>4, <5>1 DEF Move
      <4>3. CASE ReadEnd(g)
        <5>1. task'[q] = task[q] \/ task'[q] = "left"  BY <1>0, <4>3 DEF ReadEnd, Lost
        <5> QED  BY <1>4, <5>1
      <4> QED  BY <4>1, <4>2, <4>3
    <3> QED  BY <1>7, <2>1, <3>1, <3>2
  <2> QED  BY <1>5, <1>6, <1>8, <1>9, <2>1 DEF Next
<1> QED  BY <1>10, <1>11

Ends(r) == {f \in Event : f.run = r /\ f.kind \in LastKind}

\* The start of the run r is with the process g, or its work is.
Begun(g, r) == Has(inbox[g], Asks(Start(r))) \/ engine[g][r].phase # "off"

LegAt(g, r) ==
    /\ ~Has(outbox[g], Refusals(Start(r))) /\ AtMostOne(inbox[g], Asks(Start(r)))
    /\ ~(Has(inbox[g], Asks(Start(r))) /\ engine[g][r].phase # "off")
    /\ Begun(g, r) => r \in owned[g] /\ ~Has(outbox[g], Ends(r))
    /\ Begun(g, r) \/ Has(outbox[g], Ends(r)) => task[Start(r)] \notin NotSent

\* The first leg of a run: one start, never refused, owned until the last event.
FirstLeg(r) == task[Start(r)] # "rejected" /\ \A g \in Gen : LegAt(g, r)
Legs == \A r \in Run : AskedOf(r) = {} => FirstLeg(r)

\* An engine on its first leg began with the start.
LEMMA LegBegins ==
    ASSUME TypeInv, KnownInv, Next, NEW g \in Gen, NEW r \in Run, AskedOf(r) = {},
           engine'[g][r].phase # "off", engine[g][r].phase = "off"
    PROVE  /\ Handle(g) /\ Head(inbox[g]).req = Start(r)
           /\ Has(inbox[g], Asks(Start(r)))
<1>1. Handle(g) /\ Head(inbox[g]).req \in {Start(r)} \cup {Resume(c) : c \in CardsOf(r)}
  BY EngineSteps
<1>2. inbox[g] # <<>> /\ inbox[g] \in Seq(Message) /\ Head(inbox[g]) \in Message
  BY <1>1, Pipes, HandleFrame
<1>3. ASSUME NEW c \in CardsOf(r), Head(inbox[g]).req = Resume(c) PROVE FALSE
  <2>1. c \notin asked  BY DEF AskedOf
  <2>2. Head(inbox[g]) \in StrangeMessages(asked)
    BY <1>2, <1>3, <2>1 DEF StrangeMessages, Resume
  <2> QED  BY <1>2, <2>2, HasHead DEF KnownInv, KnownPipes
<1>4. Head(inbox[g]).req = Start(r)  BY <1>1, <1>3
<1>5. Head(inbox[g]) \in Asks(Start(r))  BY <1>2, <1>4 DEF Asks
<1> QED  BY <1>1, <1>2, <1>4, <1>5, HasHead

\* The start is sent once.
LEMMA LegInbox ==
    ASSUME TypeInv, Next, NEW g \in Gen, NEW r \in Run, ~SendStart(r),
           AtMostOne(inbox[g], Asks(Start(r)))
    PROVE  /\ AtMostOne(inbox'[g], Asks(Start(r)))
           /\ Has(inbox'[g], Asks(Start(r))) => Has(inbox[g], Asks(Start(r)))
           /\ Handle(g) /\ Head(inbox[g]).req = Start(r)
              => ~Has(inbox'[g], Asks(Start(r)))
<1> DEFINE P == Asks(Start(r))
<1>0. /\ inbox[g] \in Seq(Message) /\ inbox \in [Gen -> Seq(Message)]
      /\ inbox[g] # <<>> => Head(inbox[g]) \in Message
      /\ AtMostOne(inbox[g], P)
  BY Pipes DEF TypeInv, TypeOK, SidecarTypeOK
<1>1. Handle(g) => inbox[g] # <<>> /\ inbox'[g] = Tail(inbox[g])  BY <1>0, HandleFrame
<1>2. Handle(g) /\ Head(inbox[g]).req = Start(r) => ~Has(inbox'[g], P)
  <2> SUFFICES ASSUME Handle(g), Head(inbox[g]).req = Start(r) PROVE ~Has(inbox'[g], P)
    OBVIOUS
  <2>1. Head(inbox[g]) \in P  BY <1>0, <1>1 DEF Asks
  <2> HIDE DEF P
  <2> QED  BY <1>0, <1>1, <2>1, HasTail
<1>3. ASSUME NEW m \in Message, m.req # Start(r), inbox'[g] = Append(inbox[g], m)
      PROVE  AtMostOne(inbox'[g], P) /\ (Has(inbox'[g], P) => Has(inbox[g], P))
  <2>1. m \notin P  BY <1>3 DEF Asks
  <2> HIDE DEF P
  <2> QED  BY <1>0, <1>3, <2>1, HasAppend
<1>4. ASSUME NEW o \in Run, o # r
      PROVE  [req |-> Start(o), state |-> {}] \in Message /\ Start(o) # Start(r)
  BY <1>4, Requests, RequestsApart DEF Message
<1>5. ASSUME NEW o \in Run
      PROVE  [req |-> Cancel(o), state |-> {}] \in Message /\ Cancel(o) # Start(r)
  BY Requests, RequestsApart DEF Message
<1>6. ASSUME NEW c \in Card
      PROVE  [req |-> Resume(c), state |-> seen[c].state] \in Message /\ Resume(c) # Start(r)
  BY Requests, RequestsApart DEF Message, TypeInv, TypeOK, TasksTypeOK, Claim
<1>7. Shrinks(inbox[g], inbox[g], P) /\ Shrinks(inbox[g], <<>>, P)
      /\ (inbox[g] # <<>> => Shrinks(inbox[g], Tail(inbox[g]), P))
  BY <1>0, Shrinking
<1>8. ASSUME \/ inbox'[g] = inbox[g] \/ inbox'[g] = <<>>
             \/ Handle(g) /\ inbox'[g] = Tail(inbox[g])
      PROVE  AtMostOne(inbox'[g], P) /\ (Has(inbox'[g], P) => Has(inbox[g], P))
  BY <1>1, <1>2, <1>7, <1>8 DEF Shrinks
<1>9. ASSUME NEW o \in Run, o # r, inbox'[g] = Append(inbox[g], [req |-> Start(o), state |-> {}])
      PROVE  AtMostOne(inbox'[g], P) /\ (Has(inbox'[g], P) => Has(inbox[g], P))
  BY <1>3, <1>4, <1>9
<1>10. ASSUME NEW o \in Run, inbox'[g] = Append(inbox[g], [req |-> Cancel(o), state |-> {}])
       PROVE  AtMostOne(inbox'[g], P) /\ (Has(inbox'[g], P) => Has(inbox[g], P))
  BY <1>3, <1>5, <1>10
<1>11. ASSUME NEW c \in Card,
              inbox'[g] = Append(inbox[g], [req |-> Resume(c), state |-> seen[c].state])
       PROVE  AtMostOne(inbox'[g], P) /\ (Has(inbox'[g], P) => Has(inbox[g], P))
  BY <1>3, <1>6, <1>11
<1> HIDE DEF P
<1>12. AtMostOne(inbox'[g], P) /\ (Has(inbox'[g], P) => Has(inbox[g], P))
  <2>1. CASE \E o \in Run : /\ SendStart(o)
                            /\ inbox'[g] = Append(inbox[g], [req |-> Start(o), state |-> {}])
    BY <1>9, <2>1, Zenon
  <2>2. CASE \E o \in Run : inbox'[g] = Append(inbox[g], [req |-> Cancel(o), state |-> {}])
    BY <1>10, <2>2, Zenon
  <2>3. CASE \E c \in Card :
                 inbox'[g] = Append(inbox[g], [req |-> Resume(c), state |-> seen[c].state])
    BY <1>11, <2>3, Zenon
  <2>4. \/ inbox'[g] = inbox[g] \/ inbox'[g] = <<>>
        \/ Handle(g) /\ inbox'[g] = Tail(inbox[g])
        \/ \E o \in Run : /\ SendStart(o)
                          /\ inbox'[g] = Append(inbox[g], [req |-> Start(o), state |-> {}])
        \/ \E o \in Run : inbox'[g] = Append(inbox[g], [req |-> Cancel(o), state |-> {}])
        \/ \E c \in Card :
               inbox'[g] = Append(inbox[g], [req |-> Resume(c), state |-> seen[c].state])
    BY InboxSteps
  <2> QED  BY <1>8, <2>1, <2>2, <2>3, <2>4, Zenon
<1> QED  BY <1>2, <1>12 DEF P

\* The last event of a run is written as its engine goes off, and a start is
\* refused only while an engine works on the run.
LEMMA LegOutbox ==
    ASSUME TypeInv, Next, NEW g \in Gen, NEW r \in Run
    PROVE  /\ Has(outbox'[g], Ends(r)) =>
                  \/ Has(outbox[g], Ends(r))
                  \/ engine[g][r].phase # "off" /\ engine'[g][r].phase = "off"
           /\ Has(outbox'[g], Refusals(Start(r))) =>
                  \/ Has(outbox[g], Refusals(Start(r)))
                  \/ /\ engine[g][r].phase # "off"
                     /\ inbox[g] # <<>> /\ Head(inbox[g]).req = Start(r)
<1> DEFINE P == Ends(r)
           R == Refusals(Start(r))
<1>0. /\ \A x \in Event : x \notin R /\ x \in Frame
      /\ \A y \in Reply : y \notin P /\ y \in Frame
      /\ \A y \in R : y.req = Start(r) /\ y.kind = "rejected"
      /\ \A x \in P : x.run = r /\ x.kind \in LastKind
  <2>1. \A x \in Event : x \notin R  BY EventsAnswerNothing
  <2>2. \A y \in Reply : y \notin Event  BY DEF Reply, ReplyKind, Event, EventKind
  <2> QED  BY <2>1, <2>2 DEF Ends, Refusals, Frame
<1>1. ASSUME NEW Q, \/ outbox'[g] = outbox[g] \/ outbox'[g] = <<>>
                    \/ HasFrame(g) /\ outbox'[g] = Tail(outbox[g])
      PROVE  Has(outbox'[g], Q) => Has(outbox[g], Q)
  <2>1. outbox[g] \in Seq(Frame)  BY Pipes
  <2> QED  BY <1>1, <2>1, HasNothing, HasTail DEF HasFrame
<1>2. ASSUME NEW Q, NEW x \in Frame, NEW y \in Frame, x \notin Q, y \notin Q,
             Emit(g, <<x>>) \/ Emit(g, <<y>>) \/ Emit(g, <<x, y>>)
      PROVE  Has(outbox'[g], Q) => Has(outbox[g], Q)
  <2>1. ~Has(<<x>>, Q) /\ ~Has(<<y>>, Q) /\ ~Has(<<x, y>>, Q)  BY <1>2, HasShort
  <2>2. <<x>> \in Seq(Frame) /\ <<y>> \in Seq(Frame) /\ <<x, y>> \in Seq(Frame)  OBVIOUS
  <2> QED  BY <1>2, <2>1, <2>2, Written DEF Shrinks
<1> HIDE DEF P, R
<1>3. CASE EngineStep(g)
  <2>1. PICK o \in Run, x \in Event, y \in Event : EngineWrite(g, o, x, y)
    BY <1>3, EngineWrites
  <2>2. Emit(g, <<x>>) \/ Emit(g, <<x, y>>)  BY <2>1 DEF EngineWrite
  <2>3. x.run = o /\ y.run = o  BY <2>1 DEF EngineWrite, OfEngine
  <2>4. Has(outbox'[g], R) => Has(outbox[g], R)  BY <1>0, <1>2, <2>2
  <2>5. CASE x \notin P /\ y \notin P  BY <1>0, <1>2, <2>2, <2>4, <2>5 DEF P, R
  <2>6. CASE x \in P \/ y \in P
    <3>1. o = r /\ (x.kind \in LastKind \/ y.kind \in LastKind)  BY <1>0, <2>3, <2>6
    <3>2. engine[g][r].phase # "off" /\ engine'[g][r].phase = "off"
      BY <2>1, <3>1 DEF EngineWrite
    <3> QED  BY <2>4, <3>2 DEF R
  <2> QED  BY <2>5, <2>6
<1>4. CASE Handle(g)
  <2>1. PICK x \in Event, y \in Reply :
            /\ Emit(g, <<y>>) \/ Emit(g, <<x, y>>)
            /\ x.kind = "run.started"
            /\ y.req = Head(inbox[g]).req
            /\ y.kind = "rejected" => engine[g][RunFor(y.req)].phase # "off"
    BY <1>4, HandleWrites
  <2>2. x \notin P  BY <1>0, <2>1 DEF LastKind
  <2>3. Has(outbox'[g], P) => Has(outbox[g], P)  BY <1>0, <1>2, <2>1, <2>2
  <2>4. CASE y \notin R
    <3>1. Has(outbox'[g], R) => Has(outbox[g], R)  BY <1>0, <1>2, <2>1, <2>4
    <3> QED  BY <2>3, <3>1 DEF P, R
  <2>5. CASE y \in R
    <3>1. y.req = Start(r) /\ y.kind = "rejected" /\ RunFor(Start(r)) = r
      BY <1>0, <2>5 DEF RunFor, Start
    <3>2. inbox[g] # <<>>  BY <1>4, HandleFrame
    <3> QED  BY <2>1, <2>3, <3>1, <3>2 DEF P
  <2> QED  BY <2>4, <2>5
<1>5. CASE ~EngineStep(g) /\ ~Handle(g)  BY <1>1, <1>5, OutboxSteps DEF P, R
<1> QED  BY <1>3, <1>4, <1>5

\* While the first leg is with a process, that process does not lose the run.
LEMMA LegOwned ==
    ASSUME TypeInv, KnownInv, DeadRunsNothing, DeadReadsNothing, Next, ~Restart,
           NEW g \in Gen, NEW r \in Run, AskedOf(r) = {}, FirstLeg(r), Begun(g, r)
    PROVE  r \in owned'[g]
<1>0. r \in owned[g] /\ ~Has(outbox[g], Ends(r)) /\ task[Start(r)] # "rejected"
  BY DEF FirstLeg, LegAt
<1>1. ~DropOwnership(Start(r))  BY <1>0 DEF DropOwnership
<1>2. ASSUME NEW c \in CardsOf(r), DropOwnership(Resume(c)) PROVE FALSE
  <2>1. c \in Card /\ task[Resume(c)] # "idle"  BY <1>2 DEF DropOwnership, CardsOf
  <2>2. c \in asked  BY <2>1 DEF KnownInv, KnownRows
  <2> QED  BY <1>2, <2>2 DEF AskedOf
<1>3. ASSUME Release(g), FrameAt(g).run = r PROVE FALSE
  <2>1. /\ outbox[g] # <<>> /\ outbox[g] \in Seq(Frame) /\ FrameAt(g) \in Event
        /\ reader[g].step = "release"
    BY <1>3, Pipes DEF Release, HasFrame, TypeInv, ReaderHoldsEvent
  <2>2. FrameAt(g).kind \in LastKind \cup {"interruption.requested"}
    BY <2>1 DEF KnownInv, ReaderKnowsKind
  <2>3. CASE FrameAt(g).kind \in LastKind
    <3>1. FrameAt(g) \in Ends(r)  BY <1>3, <2>1, <2>3 DEF Ends
    <3> QED  BY <1>0, <2>1, <3>1, HasHead DEF FrameAt
  <2>4. CASE FrameAt(g).kind = "interruption.requested"
    <3>1. FrameAt(g).card \notin CardsOf(r) \cap asked  BY DEF AskedOf
    <3>2. FrameAt(g) \in StrangeEvents(asked)
      BY <1>3, <2>1, <2>4, <3>1 DEF StrangeEvents
    <3> QED  BY <2>1, <3>2, HasHead DEF FrameAt, KnownInv, KnownPipes
  <2> QED  BY <2>2, <2>3, <2>4
<1>4. ASSUME ReadEnd(g) PROVE FALSE
  <2>1. ~alive[g]  BY <1>4 DEF ReadEnd
  <2>2. inbox[g] = <<>> /\ engine[g][r].phase = "off"
    BY <2>1 DEF DeadReadsNothing, DeadRunsNothing
  <2> QED  BY <2>2, HasNothing DEF Begun
<1> QED  BY <1>0, <1>1, <1>2, <1>3, <1>4, OwnedSteps

\* The step that sends the start takes the ownership with it.
LEMMA LegSends ==
    ASSUME TypeInv, NEW r \in Run, FirstLeg(r), SendStart(r)
    PROVE  FirstLeg(r)'
<1> DEFINE q == Start(r)
           m == [req |-> q, state |-> {}]
<1>0. /\ q \in Request /\ q.op = "start" /\ RunFor(q) = r /\ m \in Message
      /\ task \in [Request -> CommandStep] /\ inbox \in [Gen -> Seq(Message)]
      /\ owned \in [Gen -> SUBSET Run]
  BY Requests DEF Start, RunFor, Message, TypeInv, TypeOK, TasksTypeOK, SidecarTypeOK,
     HostTypeOK
<1>1. task[q] = "ensured" /\ Send(q, {})  BY DEF SendStart
<1>2. task'[q] \in {"refused", "sent", "left"}  BY <1>0, <1>1 DEF Send, Move, Lost
<1>3. task[q] \in NotSent /\ task'[q] \notin NotSent  BY <1>1, <1>2 DEF NotSent
<1>4. UNCHANGED <<engine, outbox>>  BY <1>1 DEF Send
<1>5. ASSUME NEW g \in Gen PROVE LegAt(g, r)'
  <2>1. /\ ~Has(inbox[g], Asks(q)) /\ engine[g][r].phase = "off"
        /\ ~Has(outbox[g], Ends(r)) /\ ~Has(outbox[g], Refusals(q))
    BY <1>3 DEF FirstLeg, LegAt, Begun
  <2>2. /\ engine'[g][r].phase = "off" /\ ~Has(outbox'[g], Ends(r))
        /\ ~Has(outbox'[g], Refusals(q))
    BY <1>4, <2>1
  <2>3. inbox'[g] = inbox[g] \/ (inbox'[g] = Append(inbox[g], m) /\ r \in owned'[g])
    <3>1. OwnsRun(q)  BY <1>0 DEF OwnsRun
    <3> QED  BY <1>0, <1>1, <3>1 DEF Send
  <2>4. AtMostOne(inbox'[g], Asks(q)) /\ (Has(inbox'[g], Asks(q)) => r \in owned'[g])
    <3> HIDE DEF m
    <3>1. AtMostOne(inbox[g], Asks(q))  BY DEF FirstLeg, LegAt
    <3>2. inbox[g] \in Seq(Message) /\ m \in Message  BY <1>0
    <3>3. CASE inbox'[g] = inbox[g]  BY <2>1, <3>1, <3>3
    <3>4. CASE inbox'[g] = Append(inbox[g], m) /\ r \in owned'[g]
      <4>1. AtMostOne(Append(inbox[g], m), Asks(q))  BY <2>1, <3>2, HasAppend
      <4> QED  BY <3>4, <4>1
    <3> QED  BY <2>3, <3>3, <3>4
  <2> HIDE DEF q
  <2>5. /\ ~Has(outbox'[g], Refusals(q)) /\ AtMostOne(inbox'[g], Asks(q))
        /\ ~(Has(inbox'[g], Asks(q)) /\ engine'[g][r].phase # "off")
        /\ Has(inbox'[g], Asks(q)) \/ engine'[g][r].phase # "off"
           => r \in owned'[g] /\ ~Has(outbox'[g], Ends(r))
        /\ task'[q] \notin NotSent
    BY <1>3, <2>2, <2>4
  <2> QED  BY <2>5 DEF LegAt, Begun, Has, AtMostOne, Asks, Refusals, Ends, Start, q
<1>6. task'[q] # "rejected"  BY <1>2
<1> QED  BY <1>5, <1>6 DEF FirstLeg, Start

\* The other steps begin nothing twice and end nothing early.
LEMMA LegStays ==
    ASSUME TypeInv, KnownInv, DeadRunsNothing, DeadReadsNothing, Next, ~Restart,
           NEW r \in Run, AskedOf(r) = {}, FirstLeg(r), ~SendStart(r)
    PROVE  FirstLeg(r)'
<1> DEFINE q == Start(r)
<1>1. ASSUME NEW g \in Gen PROVE LegAt(g, r)'
  <2> DEFINE mail == Has(inbox[g], Asks(q))
             mail1 == Has(inbox'[g], Asks(q))
             on == engine[g][r].phase # "off"
             on1 == engine'[g][r].phase # "off"
             over == Has(outbox[g], Ends(r))
             over1 == Has(outbox'[g], Ends(r))
             reads == Handle(g) /\ Head(inbox[g]).req = q
  <2>1. /\ ~Has(outbox[g], Refusals(q)) /\ AtMostOne(inbox[g], Asks(q))
        /\ ~(mail /\ on)
        /\ mail \/ on => r \in owned[g] /\ ~over
        /\ mail \/ on \/ over => task[q] \notin NotSent
    BY DEF FirstLeg, LegAt, Begun
  <2>2. AtMostOne(inbox'[g], Asks(q)) /\ (mail1 => mail) /\ (reads => ~mail1)
    BY <2>1, LegInbox
  <2>3. on1 => on \/ (reads /\ mail)  BY LegBegins
  <2>4. over1 => over \/ (on /\ ~on1)  BY LegOutbox
  <2>5. ~Has(outbox'[g], Refusals(q))
    <3>1. inbox[g] # <<>> /\ Head(inbox[g]).req = q => mail
      <4>1. inbox[g] # <<>> => Head(inbox[g]) \in Message /\ inbox[g] \in Seq(Message)
        BY Pipes
      <4>2. inbox[g] # <<>> /\ Head(inbox[g]).req = q => Head(inbox[g]) \in Asks(q)
        BY <4>1 DEF Asks
      <4> QED  BY <4>1, <4>2, HasHead
    <3> QED  BY <2>1, <3>1, LegOutbox
  <2>6. mail \/ on => r \in owned'[g]  BY LegOwned DEF Begun
  <2>7. task'[q] \in NotSent => task[q] \in NotSent  BY StartTaskSteps
  <2> HIDE DEF mail, mail1, on, on1, over, over1, reads, q
  <2>8. /\ ~(mail1 /\ on1)
        /\ mail1 \/ on1 => r \in owned'[g] /\ ~over1
        /\ mail1 \/ on1 \/ over1 => task'[q] \notin NotSent
    BY <2>1, <2>2, <2>3, <2>4, <2>6, <2>7
  <2> QED
    BY <2>2, <2>5, <2>8
       DEF LegAt, Begun, Has, AtMostOne, Asks, Refusals, Ends, Start, q, mail1, on1, over1
<1>2. task'[q] # "rejected"
  <2> SUFFICES ASSUME task'[q] = "rejected" PROVE FALSE  OBVIOUS
  <2>1. task[q] # "rejected"  BY DEF FirstLeg
  <2>2. PICK g \in Gen : HasFrame(g) /\ FrameAt(g) \in Refusals(q)
    BY <2>1, StartTaskSteps
  <2>3. outbox[g] # <<>> /\ outbox[g] \in Seq(Frame)  BY <2>2, Pipes DEF HasFrame
  <2>4. Has(outbox[g], Refusals(q))  BY <2>2, <2>3, HasHead DEF FrameAt
  <2> QED  BY <2>4 DEF FirstLeg, LegAt
<1> QED  BY <1>1, <1>2 DEF FirstLeg, Start

\* After a restart nothing is under way.
LEMMA LegRestarts == ASSUME TypeInv, Restart, NEW r \in Run PROVE FirstLeg(r)'
<1>1. task'[Start(r)] \in {"done", "idle"}
  BY Requests DEF Restart
<1>2. ASSUME NEW g \in Gen PROVE LegAt(g, r)'
  <2>1. inbox'[g] = <<>> /\ outbox'[g] = <<>> /\ engine'[g][r].phase = "off"
    BY DEF Restart, EngineOff
  <2> QED  BY <2>1 DEF LegAt, Begun, Has, AtMostOne
<1> QED  BY <1>1, <1>2 DEF FirstLeg, Start

\* Every run that has asked for nothing is on its first leg.
LEMMA LegsInvariant == Spec => []Legs
<1>1. Init => Legs
  <2> SUFFICES ASSUME Init, NEW r \in Run PROVE FirstLeg(r)  BY DEF Legs
  <2>1. task[Start(r)] = "idle"  BY Requests DEF Init
  <2>2. ASSUME NEW g \in Gen PROVE LegAt(g, r)
    <3>1. inbox[g] = <<>> /\ outbox[g] = <<>> /\ engine[g][r].phase = "off"
      BY DEF Init, EngineOff
    <3> QED  BY <3>1, HasNothing DEF LegAt, Begun
  <2> QED  BY <2>1, <2>2 DEF FirstLeg
<1>2. TypeInv /\ KnownInv /\ DeadRunsNothing /\ DeadReadsNothing /\ Legs /\ [Next]_vars
      => Legs'
  <2> SUFFICES ASSUME TypeInv, KnownInv, DeadRunsNothing, DeadReadsNothing, Legs,
                      [Next]_vars, NEW r \in Run, AskedOf(r)' = {}
               PROVE  FirstLeg(r)'
    BY DEF Legs
  <2>1. CASE Next /\ ~Restart
    <3>1. AskedOf(r) = {}  BY <2>1, AskedGrows DEF AskedOf, CardsOf
    <3>2. FirstLeg(r)  BY <3>1 DEF Legs
    <3> QED  BY <2>1, <3>1, <3>2, LegSends, LegStays
  <2>2. CASE Restart  BY <2>2, LegRestarts
  <2>3. CASE UNCHANGED vars
    <3>1. AskedOf(r) = {} /\ UNCHANGED <<task, inbox, outbox, engine, owned>>
      BY <2>3 DEF vars, sidecar, host, tasks, AskedOf, CardsOf
    <3>2. FirstLeg(r)  BY <3>1 DEF Legs
    <3> QED
      BY <3>1, <3>2 DEF FirstLeg, LegAt, Begun, Has, AtMostOne, Asks, Refusals, Ends, Start
  <2> QED  BY <2>1, <2>2, <2>3
<1> QED
  BY <1>1, <1>2, TypeInvariant, KnownInvariant, DeadRunsInvariant, DecisionInvariant,
     PTL DEF Spec

\* Until a run pauses for the first time, the process executing it owns it, so
\* the crash of that process settles it (host.rs, request and the reader).
THEOREM FirstLegHasOwner == Spec => []FirstLegIsOwned
<1>1. Legs => FirstLegIsOwned
  BY DEF Legs, FirstLeg, LegAt, Begun, FirstLegIsOwned, AskedOf
<1> QED  BY <1>1, LegsInvariant, PTL

-----------------------------------------------------------------------------
(* Sequences that end in an element of a kind *)

\* Nothing in Q comes after an element in P.
EndsIn(s, P, Q) == \A i, j \in 1..Len(s) : i < j /\ s[i] \in P => s[j] \notin Q

\* Nothing comes after anything in the shortest sequences, nor after what is not there.
LEMMA EndsShort ==
    ASSUME NEW P, NEW Q
    PROVE  /\ EndsIn(<<>>, P, Q)
           /\ \A x : EndsIn(<<x>>, P, Q)
           /\ \A x, y : x \notin P => EndsIn(<<x, y>>, P, Q)
BY DEF EndsIn

\* What is left after the head ends as before; nothing in Q is left after a head in P.
LEMMA EndsTail ==
    ASSUME NEW S, NEW s \in Seq(S), s # <<>>, NEW P, NEW Q, EndsIn(s, P, Q)
    PROVE  /\ EndsIn(Tail(s), P, Q)
           /\ Head(s) \in P => ~Has(Tail(s), Q)
<1>1. /\ Len(Tail(s)) = Len(s) - 1 /\ Len(s) \in Nat /\ Len(s) > 0
      /\ \A i \in 1..Len(Tail(s)) : Tail(s)[i] = s[i + 1]
      /\ Head(s) = s[1]
  BY HeadTailProperties, LenProperties, EmptySeq
<1>2. \A i \in 1..Len(Tail(s)) : i + 1 \in 1..Len(s) /\ 1 < i + 1  BY <1>1
<1>3. 1 \in 1..Len(s)  BY <1>1
<1> QED  BY <1>1, <1>2, <1>3 DEF EndsIn, Has

\* A sequence is extended by what has nothing in Q, or after what has nothing in P.
LEMMA EndsConcat ==
    ASSUME NEW S, NEW s \in Seq(S), NEW t \in Seq(S), NEW P, NEW Q,
           EndsIn(s, P, Q), EndsIn(t, P, Q), ~Has(s, P) \/ ~Has(t, Q)
    PROVE  EndsIn(s \o t, P, Q)
<1>1. /\ Len(s \o t) = Len(s) + Len(t) /\ Len(s) \in Nat /\ Len(t) \in Nat
      /\ \A i \in 1..Len(s \o t) :
            (s \o t)[i] = IF i <= Len(s) THEN s[i] ELSE t[i - Len(s)]
  BY ConcatProperties, LenProperties
<1> SUFFICES ASSUME NEW i \in 1..Len(s \o t), NEW j \in 1..Len(s \o t),
                    i < j, (s \o t)[i] \in P, (s \o t)[j] \in Q
             PROVE  FALSE
  BY DEF EndsIn
<1>2. CASE j <= Len(s)
  BY <1>1, <1>2 DEF EndsIn
<1>3. CASE i > Len(s)
  <2>1. /\ i - Len(s) \in 1..Len(t) /\ j - Len(s) \in 1..Len(t)
        /\ i - Len(s) < j - Len(s)
    BY <1>1, <1>3
  <2> QED  BY <1>1, <1>3, <2>1 DEF EndsIn
<1>4. CASE i <= Len(s) /\ j > Len(s)
  <2>1. i \in 1..Len(s) /\ j - Len(s) \in 1..Len(t)  BY <1>1, <1>4
  <2> QED  BY <1>1, <1>4, <2>1 DEF Has
<1> QED  BY <1>1, <1>2, <1>3, <1>4

-----------------------------------------------------------------------------
(* Whose turn it is: where the one thing that can move a run on is kept *)

MailOf(r)    == {m \in Message : m.req = Start(r) \/ \E c \in CardsOf(r) : m.req = Resume(c)}
EventsOf(r)  == {f \in Event : f.run = r}
Requested(r) == {f \in EventsOf(r) : f.kind = "interruption.requested"}
Reported(r)  == {f \in EventsOf(r) : f.kind = "usage.updated"}

\* The frames of the pipe that can still have an effect: a reader that is
\* releasing is through with its event.
Unread(g) == IF reader[g].step = "release" THEN Tail(outbox[g]) ELSE outbox[g]

StartTurn(r)   == task[Start(r)] \in NotSent
MailTurn(r, g) == Has(inbox[g], MailOf(r))
WorkTurn(r, g) == engine[g][r].phase # "off"
AskTurn(r, g)  == Has(Unread(g), Requested(r))
CardTurn(c)    == card[c] = "pending"
ClaimTurn(c)   == task[Resume(c)] \in {"claimed", "refused"}

Turn(r, p, x) ==
    \/ p = "start" /\ x = r /\ StartTurn(r)
    \/ p = "mail" /\ x \in Gen /\ MailTurn(r, x)
    \/ p = "work" /\ x \in Gen /\ WorkTurn(r, x)
    \/ p = "ask" /\ x \in Gen /\ AskTurn(r, x)
    \/ p = "card" /\ x \in CardsOf(r) /\ CardTurn(x)
    \/ p = "claim" /\ x \in CardsOf(r) /\ ClaimTurn(x)

Place == {"start", "mail", "work", "ask", "card", "claim"}
Holder == Run \cup Gen \cup Card
OneTurn(r) ==
    \A p, q \in Place, x, y \in Holder :
        Turn(r, p, x) /\ Turn(r, q, y) => p = q /\ x = y

\* Of a run, one message is under way at a time and no event follows a request.
OneMail(r) == \A g \in Gen : AtMostOne(inbox[g], MailOf(r))
AskIsLast(r) == \A g \in Gen : EndsIn(Unread(g), Requested(r), EventsOf(r))

\* A waiting run is the user's turn, or about to be.
WaitingRun(r) ==
    runStatus[r] = "waiting_for_user" =>
        \A p \in Place, x \in Holder : Turn(r, p, x) => p \in {"ask", "card"}

\* The usage of a pause comes before its requests.
ReportedRun(r) ==
    \A g \in Gen :
        Has(outbox[g], Reported(r)) =>
            /\ runStatus[r] # "waiting_for_user"
            /\ \A p \in Place, x \in Holder : Turn(r, p, x) =>
                  x = g /\ (p = "ask" \/ (p = "work" /\ engine[g][r].phase = "pausing"))

NewRun(r) == runStatus[r] = "none" => task[Start(r)] \in {"idle", "checked"}

TurnInv(r) == /\ OneTurn(r) /\ OneMail(r) /\ AskIsLast(r)
              /\ WaitingRun(r) /\ ReportedRun(r) /\ NewRun(r)

\* The reader never writes back that the run waits.
ReaderInv(g, r) ==
    LET f == FrameAt(g) IN
    /\ reader[g].step = "status" /\ f.run = r =>
           reader[g].status \notin {"waiting_for_user", "none"}
    /\ reader[g].step \in {"session", "card"} /\ f.run = r
       /\ f.kind = "interruption.requested" =>
           runStatus[r] \in Terminal \/ f.card \in saved[r]

\* A card that is offered, or being answered, is one the saved state leaves open;
\* the command that answers it holds such a state.
OfferedCard(c) ==
    CardTurn(c) \/ ClaimTurn(c) =>
        runStatus[RunOf[c]] \in Terminal \/ c \in saved[RunOf[c]]
AnsweringCommand(c) ==
    LET q == Resume(c) IN
    /\ task[q] \in {"checked", "ensured"} =>
           /\ card[c] # "none"
           /\ CardTurn(c) => runStatus[RunOf[c]] \in Terminal \/ c \in seen[c].state
    /\ task[q] = "claimed" => c \in seen[c].state
    /\ task[q] # "rejected"
    /\ \A g \in Gen : /\ ~Has(inbox[g], {m \in Asks(q) : c \notin m.state})
                      /\ ~Has(outbox[g], Refusals(q))

\* A decision no engine has acted on is with its command or in the mail.
OpenDecision(c) ==
    LET r == RunOf[c] IN
    Undecided(c) =>
        /\ runStatus[r] # "waiting_for_user"
        /\ \A p \in Place, x \in Holder : Turn(r, p, x) =>
              \/ p = "claim" /\ x = c
              \/ p = "mail" /\ ~Has(inbox[x], MailOf(r) \ Asks(Resume(c)))

CardInv(c) == OfferedCard(c) /\ AnsweringCommand(c) /\ OpenDecision(c)

\* The requests that name a card their state does not leave open.
Baseless == {f \in Event : f.kind = "interruption.requested" /\ f.card \notin f.state}

\* An engine asks for cards its state leaves open.
Based == \A g \in Gen : /\ ~Has(outbox[g], Baseless)
                        /\ \A r \in Run : engine[g][r].unsent \subseteq engine[g][r].state

\* An engine knows the card it resumes the run with, and stops on one.
EngineInv(g, r) == /\ engine[g][r].phase # "unknown"
                   /\ engine[g][r].phase = "pausing" => ~Several(engine[g][r].state)

TurnsOf(r) == /\ TurnInv(r)
              /\ \A g \in Gen : ReaderInv(g, r) /\ EngineInv(g, r)
              /\ \A c \in CardsOf(r) : CardInv(c)

Turns == Based /\ \A r \in Run \ bundled : TurnsOf(r)

-----------------------------------------------------------------------------
(* What a step does to the pipe of a process and to its reader *)

\* What is left alone but for the reader of the process and what the process writes.
LEMMA PipeSteps ==
    ASSUME TypeInv, Next, NEW h \in Gen
    PROVE  \/ reader'[h] = reader[h] /\ outbox'[h] = outbox[h]
           \/ Restart
           \/ ReaderStep(h)
           \/ UNCHANGED reader /\ (Handle(h) \/ EngineStep(h))
<1>0. reader \in [Gen -> Reader] /\ outbox \in [Gen -> Seq(Frame)]
  BY DEF TypeInv, TypeOK, ReaderTypeOK, SidecarTypeOK
<1>1. ASSUME NEW r \in Run,
             \/ StartCheck(r) \/ RetryCheck(r) \/ StartStep(r)
             \/ CancelWaiting(r) \/ SendCancel(r) \/ CancelStep(r)
      PROVE  UNCHANGED <<reader, outbox>>
  BY <1>1, ZenonT(60) DEF StartCheck, RetryCheck, StartStep, CreateRun, PrepareFails, StartEnsure,
     EnsureStarted, SendStart, Send, StartRefused, StartRefusedSession, DropOwnership,
     Timeout, CancelWaiting, SendCancel, CancelStep, CancelCommit, sidecar
<1>2. ASSUME NEW c \in Card, ResumeCheck(c) \/ ResumeStep(c)
      PROVE  UNCHANGED <<reader, outbox>>
  BY <1>2, ZenonT(60) DEF ResumeCheck, ResumeStep, ResumeEnsure, EnsureStarted, ResumeClaim,
     SendResume, Send, ResumeRestore, ResumeRunning, ResumeRunningSession, DropOwnership,
     Timeout, sidecar
<1>3. ASSUME NEW g \in Gen, g # h, ReaderStep(g)
      PROVE  reader'[h] = reader[h] /\ outbox'[h] = outbox[h]
  <2>1. CASE ReadReply(g) \/ ReadUsage(g) \/ AppendCard(g) \/ Release(g)
    BY <1>0, <1>3, <2>1 DEF ReadReply, ReadUsage, AppendCard, Release, NextFrame, Step, sidecar
  <2>2. CASE ReadEvent(g) \/ ReadEventSession(g)
    <3>1. \/ NextFrame(g)
          \/ UNCHANGED outbox /\ \E x : reader' = [reader EXCEPT ![g] = x]
      BY <2>2 DEF ReadEvent, ReadEventSession, AfterStatus, Step
    <3> QED  BY <1>0, <1>3, <3>1 DEF NextFrame
  <2>3. CASE ReadEnd(g) \/ ReaderStops(g)
    BY <1>0, <1>3, <2>3 DEF ReadEnd, ReaderStops, Step, sidecar
  <2>4. CASE \E r \in Run : Settle(g, r) \/ SettleSession(g, r)
    <3>1. UNCHANGED outbox /\ \E x : reader' = [reader EXCEPT ![g] = x]
      BY <2>4 DEF Settle, SettleSession, sidecar
    <3> QED  BY <1>0, <1>3, <3>1
  <2> QED  BY <1>3, <2>1, <2>2, <2>3, <2>4 DEF ReaderStep
<1>4. ASSUME NEW g \in Gen, Handle(g) \/ EngineStep(g)
      PROVE  UNCHANGED reader /\ (g # h => outbox'[h] = outbox[h])
  <2>1. UNCHANGED reader /\ \E frames : Emit(g, frames)
    <3>1. CASE Handle(g)  BY <3>1, Zenon DEF Handle
    <3>2. CASE EngineStep(g)
      BY <3>2, Zenon DEF EngineStep, EngineBegins, EngineCompletes, EngineFails,
         EngineCancelled, EngineEnds, EnginePauses, EngineAsks
    <3> QED  BY <1>4, <3>1, <3>2
  <2> QED  BY <1>0, <2>1 DEF Emit
<1>5. ASSUME NEW g \in Gen, Crash(g) PROVE UNCHANGED <<reader, outbox>>  BY <1>5 DEF Crash
<1>6. CASE Reconcile  BY <1>6 DEF Reconcile, sidecar
<1> QED  BY <1>1, <1>2, <1>3, <1>4, <1>5, <1>6 DEF Next

\* What a process writes goes to the end of what is unread.
LEMMA UnreadGrows ==
    ASSUME TypeInv, NEW h \in Gen, UNCHANGED reader, NEW frames \in Seq(Frame), Emit(h, frames)
    PROVE  /\ outbox'[h] = outbox[h] \o frames /\ Unread(h)' = Unread(h) \o frames
           /\ Unread(h) \in Seq(Frame)
<1>1. outbox \in [Gen -> Seq(Frame)] /\ outbox[h] \in Seq(Frame)
  BY DEF TypeInv, TypeOK, SidecarTypeOK
<1>2. outbox'[h] = outbox[h] \o frames  BY <1>1 DEF Emit
<1>3. reader[h].step = "release" => outbox[h] # <<>>
  BY DEF TypeInv, ReaderHoldsEvent, HasFrame
<1>4. outbox[h] # <<>> => /\ Tail(outbox[h] \o frames) = Tail(outbox[h]) \o frames
                          /\ Tail(outbox[h]) \in Seq(Frame)
  BY <1>1, ConcatProperties, HeadTailProperties
<1> QED  BY <1>1, <1>2, <1>3, <1>4 DEF Unread

\* At the end of the pipe the reader settles what it took, and ends.
LEMMA ReaderEnds ==
    ASSUME TypeInv, NEW h \in Gen,
           ReadEnd(h) \/ ReaderStops(h) \/ \E r \in Run : Settle(h, r) \/ SettleSession(h, r)
    PROVE  reader'[h].step \in {"settle", "settle_session", "ended"}
<1>0. reader \in [Gen -> Reader] /\ reader[h] \in Reader  BY DEF TypeInv, TypeOK, ReaderTypeOK
<1>1. CASE ReadEnd(h)  BY <1>0, <1>1 DEF ReadEnd, Reader
<1>2. CASE ReaderStops(h)  BY <1>0, <1>2 DEF ReaderStops, Step, Reader
<1>3. ASSUME NEW r \in Run, SettleSession(h, r) PROVE reader'[h].step = "settle"
  BY <1>0, <1>3 DEF SettleSession, Reader
<1>4. ASSUME NEW r \in Run, Settle(h, r)
      PROVE  reader'[h].step \in {"settle", "settle_session"}
  <2> DEFINE rest == [reader[h] EXCEPT !.doomed = @ \ {r}]
  <2>1. rest.step = "settle" /\ [rest EXCEPT !.step = "settle_session", !.now = {r}].step = "settle_session"
    BY <1>0, <1>4 DEF Settle, Reader
  <2>2. \/ reader' = [reader EXCEPT ![h] = rest]
        \/ reader' = [reader EXCEPT ![h] = [rest EXCEPT !.step = "settle_session", !.now = {r}]]
    BY <1>4 DEF Settle
  <2> HIDE DEF rest
  <2> QED  BY <1>0, <2>1, <2>2
<1> QED  BY <1>1, <1>2, <1>3, <1>4

\* The reader takes the head off what is unread, when it is through with its event.
LEMMA UnreadShrinks ==
    ASSUME TypeInv, ReaderKnowsKind, NEW h \in Gen, ReaderStep(h)
    PROVE  /\ \/ Unread(h)' = Unread(h)
              \/ /\ Unread(h) = outbox[h] /\ HasFrame(h) /\ Unread(h)' = Tail(outbox[h])
           /\ AppendCard(h) => Unread(h) = outbox[h] /\ Unread(h)' = Tail(outbox[h])
<1>0. /\ reader \in [Gen -> Reader] /\ reader[h] \in Reader
      /\ outbox \in [Gen -> Seq(Frame)] /\ outbox[h] \in Seq(Frame)
  BY DEF TypeInv, TypeOK, ReaderTypeOK, SidecarTypeOK
<1>1. ASSUME NextFrame(h), reader[h].step # "release"
      PROVE  Unread(h) = outbox[h] /\ Unread(h)' = Tail(outbox[h])
  BY <1>0, <1>1 DEF NextFrame, Unread, ReaderIdle
<1>2. ASSUME NEW step, Step(h, step), UNCHANGED outbox, reader[h].step # "release"
      PROVE  /\ Unread(h) = outbox[h]
             /\ Unread(h)' = IF step = "release" THEN Tail(outbox[h]) ELSE outbox[h]
  <2>1. reader'[h].step = step  BY <1>0, <1>2 DEF Step, Reader
  <2> QED  BY <1>2, <2>1 DEF Unread
<1>3. CASE ReadReply(h)
  <2>1. reader[h].step # "release"
    <3>1. FrameAt(h).kind \notin EventKind  BY <1>3 DEF ReadReply, ReplyKind, EventKind
    <3> QED  BY <3>1, Frames DEF TypeInv, ReaderHoldsEvent
  <2>2. ~AppendCard(h)
    <3>1. FrameAt(h).kind \notin EventKind  BY <1>3 DEF ReadReply, ReplyKind, EventKind
    <3> QED  BY <3>1, Frames DEF TypeInv, ReaderHoldsEvent, AppendCard
  <2> QED  BY <1>1, <1>3, <2>1, <2>2 DEF ReadReply
<1>4. CASE ReadUsage(h)
  <2>1. reader'[h].step = "status" /\ outbox' = outbox /\ reader[h].step = "frame"
    BY <1>0, <1>4 DEF ReadUsage, Reader, sidecar
  <2> QED  BY <2>1 DEF Unread, AppendCard
<1>5. ASSUME AfterStatus(h, FrameAt(h).kind), reader[h].step \notin {"release", "card"}, HasFrame(h)
      PROVE  /\ \/ Unread(h)' = Unread(h)
                \/ Unread(h) = outbox[h] /\ Unread(h)' = Tail(outbox[h])
             /\ ~AppendCard(h)
  <2>1. \/ NextFrame(h)
        \/ UNCHANGED outbox /\ \E step \in {"card", "release"} : Step(h, step)
    BY <1>5 DEF AfterStatus
  <2> QED  BY <1>1, <1>2, <1>5, <2>1 DEF AppendCard
<1>6. CASE ReadEvent(h)
  <2>1. HasFrame(h) /\ reader[h].step \in {"frame", "status"}  BY <1>6, Zenon DEF ReadEvent
  <2>2. CASE AfterStatus(h, FrameAt(h).kind)  BY <1>5, <2>1, <2>2
  <2>3. CASE ~AfterStatus(h, FrameAt(h).kind)
    <3>1. reader'[h].step = "session" /\ outbox' = outbox
      BY <1>0, <1>6, <2>3, ZenonT(60) DEF ReadEvent, Reader
    <3> QED  BY <2>1, <3>1 DEF Unread, AppendCard
  <2> QED  BY <2>2, <2>3
<1>7. CASE ReadEventSession(h)
  <2>1. /\ HasFrame(h) /\ reader[h].step = "session"
        /\ AfterStatus(h, FrameAt(h).kind)
    BY <1>7 DEF ReadEventSession
  <2> QED  BY <1>5, <2>1
<1>8. CASE AppendCard(h)
  <2>1. /\ HasFrame(h) /\ reader[h].step = "card" /\ Step(h, "release") /\ UNCHANGED outbox
    BY <1>8 DEF AppendCard, sidecar
  <2> QED  BY <1>2, <2>1
<1>9. CASE Release(h)
  <2>1. reader[h].step = "release" /\ NextFrame(h)  BY <1>9 DEF Release
  <2>2. reader'[h].step = "frame" /\ outbox'[h] = Tail(outbox[h])
    BY <1>0, <2>1 DEF NextFrame, ReaderIdle
  <2> QED  BY <2>1, <2>2 DEF Unread, AppendCard
<1>10. CASE ReadEnd(h) \/ ReaderStops(h) \/ \E r \in Run : Settle(h, r) \/ SettleSession(h, r)
  <2>1. outbox' = outbox /\ reader[h].step \notin {"release", "card"}
    BY <1>10 DEF ReadEnd, ReaderStops, Settle, SettleSession, sidecar
  <2>2. reader'[h].step # "release"
    BY <1>0, <1>10, ReaderEnds DEF ReaderStage
  <2> QED  BY <2>1, <2>2 DEF Unread, AppendCard
<1> QED  BY <1>3, <1>4, <1>5, <1>6, <1>7, <1>8, <1>9, <1>10 DEF ReaderStep

\* How the reader goes through an event, which stays at the head of its pipe.
LEMMA ReaderMoves ==
    ASSUME TypeInv, NEW h \in Gen, ReaderStep(h),
           reader'[h].step \in {"status", "session", "card"}
    PROVE  /\ FrameAt(h)' = FrameAt(h)
           /\ reader'[h].step = "status" =>
                  ReadUsage(h) /\ reader'[h].status = runStatus[FrameAt(h).run]
           /\ reader'[h].step # "status" => ReadEvent(h) \/ reader[h].step = "session"
<1>0. reader \in [Gen -> Reader] /\ reader[h] \in Reader /\ outbox \in [Gen -> Seq(Frame)]
  BY DEF TypeInv, TypeOK, ReaderTypeOK, SidecarTypeOK
<1>1. ASSUME NextFrame(h) PROVE FALSE
  BY <1>0, <1>1 DEF NextFrame, ReaderIdle
<1>2. CASE ReadUsage(h)
  <2>1. /\ reader'[h].step = "status" /\ reader'[h].status = runStatus[FrameAt(h).run]
        /\ outbox' = outbox
    BY <1>0, <1>2 DEF ReadUsage, Reader, sidecar
  <2> QED  BY <1>2, <2>1 DEF FrameAt
<1>3. CASE ReadEvent(h)
  <2>1. CASE AfterStatus(h, FrameAt(h).kind)
    BY <1>0, <1>1, <1>3, <2>1 DEF AfterStatus, Step, Reader, FrameAt
  <2>2. CASE ~AfterStatus(h, FrameAt(h).kind)
    <3>1. outbox' = outbox /\ reader'[h].step # "status"
      BY <1>0, <1>3, <2>2, ZenonT(60) DEF ReadEvent, Reader
    <3> QED  BY <1>3, <3>1 DEF FrameAt
  <2> QED  BY <2>1, <2>2
<1>4. CASE ReadEventSession(h)
  <2>1. /\ outbox' = outbox /\ reader'[h].step # "status" /\ reader[h].step = "session"
    BY <1>0, <1>1, <1>4 DEF ReadEventSession, AfterStatus, Step, Reader
  <2> QED  BY <2>1 DEF FrameAt
<1>5. CASE ReadReply(h) \/ Release(h)  BY <1>1, <1>5, Zenon DEF ReadReply, Release
<1>6. CASE AppendCard(h)
  <2>1. Step(h, "release")  BY <1>6 DEF AppendCard
  <2> QED  BY <1>0, <2>1 DEF Step, Reader
<1>7. CASE ReadEnd(h) \/ ReaderStops(h) \/ \E r \in Run : Settle(h, r) \/ SettleSession(h, r)
  BY <1>7, ReaderEnds
<1> QED  BY <1>2, <1>3, <1>4, <1>5, <1>6, <1>7 DEF ReaderStep

-----------------------------------------------------------------------------
(* Where a turn comes from: the steps that give the next turn of a run *)

\* The kinds of messages and frames are the same in every state.
LEMMA KindsNext ==
    ASSUME NEW r, NEW c
    PROVE  /\ MailOf(r)' = MailOf(r) /\ EventsOf(r)' = EventsOf(r)
           /\ Requested(r)' = Requested(r) /\ Reported(r)' = Reported(r)
           /\ CardsOf(r)' = CardsOf(r) /\ Resume(c)' = Resume(c) /\ Start(r)' = Start(r)
           /\ Asks(Resume(c))' = Asks(Resume(c)) /\ Refusals(Resume(c))' = Refusals(Resume(c))
BY DEF MailOf, EventsOf, Requested, Reported, CardsOf, Resume, Start, Asks, Refusals

\* So are the places and what holds a turn.
LEMMA TurnNow ==
    ASSUME NEW r, NEW p, NEW x
    PROVE  Turn(r, p, x)' <=>
             \/ p = "start" /\ x = r /\ task'[Start(r)] \in NotSent
             \/ p = "mail" /\ x \in Gen /\ Has(inbox'[x], MailOf(r))
             \/ p = "work" /\ x \in Gen /\ engine'[x][r].phase # "off"
             \/ p = "ask" /\ x \in Gen /\ Has(Unread(x)', Requested(r))
             \/ p = "card" /\ x \in CardsOf(r) /\ card'[x] = "pending"
             \/ p = "claim" /\ x \in CardsOf(r) /\ task'[Resume(x)] \in {"claimed", "refused"}
<1>1. /\ \A g \in Gen : MailTurn(r, g)' <=> Has(inbox'[g], MailOf(r))
      /\ \A g \in Gen : AskTurn(r, g)' <=> Has(Unread(g)', Requested(r))
  BY KindsNext DEF MailTurn, AskTurn, Has
<1> QED  BY <1>1, KindsNext, Zenon DEF Turn, StartTurn, WorkTurn, CardTurn, ClaimTurn

\* A start that was sent is not made again: a restart only forgets starts without a row.
LEMMA StartTurns ==
    ASSUME TypeInv, Next, NEW r \in Run, NewRun(r), task'[Start(r)] \in NotSent
    PROVE  task[Start(r)] \in NotSent
<1>1. CASE ~Restart  BY <1>1, StartTaskSteps
<1>2. CASE Restart
  <2>1. Start(r) \in Request /\ Start(r).op = "start" /\ Start(r).id = r
    BY Requests DEF Start
  <2>2. task'[Start(r)] = IF runStatus[r] # "none" THEN "done" ELSE "idle"
    BY <1>2, <2>1 DEF Restart
  <2> QED  BY <2>2 DEF NotSent, NewRun
<1> QED  BY <1>1, <1>2

\* A message of the run enters an inbox, that of the current process, as its start is sent,
\* or as the resume of a claimed card is.
LEMMA MailTurns ==
    ASSUME TypeInv, Next, NEW r \in Run, NEW g \in Gen, NEW P, P \subseteq MailOf(r)
    PROVE  \/ Shrinks(inbox[g], inbox'[g], P)
           \/ \E m \in Message :
                 /\ g = inner /\ inbox'[g] = Append(inbox[g], m)
                 /\ \/ /\ SendStart(r) /\ m.req = Start(r)
                       /\ task[Start(r)] = "ensured" /\ task'[Start(r)] = "sent"
                    \/ \E c \in CardsOf(r) :
                          /\ SendResume(c) /\ m = [req |-> Resume(c), state |-> seen[c].state]
                          /\ task[Resume(c)] = "claimed" /\ task'[Resume(c)] = "sent"
<1> DEFINE Quiet == Shrinks(inbox[g], inbox'[g], P)
<1>0. /\ inbox[g] \in Seq(Message) /\ inbox \in [Gen -> Seq(Message)]
      /\ task \in [Request -> CommandStep]
  BY Pipes DEF TypeInv, TypeOK, SidecarTypeOK, TasksTypeOK
<1>1. Shrinks(inbox[g], inbox[g], P) /\ Shrinks(inbox[g], <<>>, P)
      /\ (inbox[g] # <<>> => Shrinks(inbox[g], Tail(inbox[g]), P))
  BY <1>0, Shrinking, Zenon
<1>2. ASSUME NEW m \in Message, m \notin P, inbox'[g] = Append(inbox[g], m)
      PROVE  Quiet
  BY <1>0, <1>2, HasAppend DEF Shrinks
<1>3. ASSUME NEW q \in Request, NEW state, Send(q, state),
             inbox'[g] = Append(inbox[g], [req |-> q, state |-> state])
      PROVE  g = inner /\ task'[q] = "sent"
  <2>1. inbox'[g] # inbox[g]
    <3>1. Len(Append(inbox[g], [req |-> q, state |-> state])) = Len(inbox[g]) + 1
      BY <1>0
    <3> QED  BY <1>0, <1>3, <3>1
  <2>2. /\ inbox' = [inbox EXCEPT ![inner] = Append(@, [req |-> q, state |-> state])]
        /\ Move(q, "sent")
    BY <1>3, <2>1 DEF Send
  <2> QED  BY <1>0, <2>1, <2>2 DEF Move
<1>4. ASSUME NEW o \in Run, SendStart(o),
             inbox'[g] = Append(inbox[g], [req |-> Start(o), state |-> {}])
      PROVE  \/ Quiet
             \/ /\ o = r /\ g = inner
                /\ task[Start(r)] = "ensured" /\ task'[Start(r)] = "sent"
  <2>1. CASE o = r
    <3>1. task[Start(r)] = "ensured" /\ Send(Start(r), {})  BY <1>4, <2>1 DEF SendStart
    <3> QED  BY <1>3, <1>4, <2>1, <3>1, Requests
  <2>2. CASE o # r
    <3>1. /\ [req |-> Start(o), state |-> {}] \in Message
          /\ [req |-> Start(o), state |-> {}] \notin P
      BY <2>2, Requests, RequestsApart DEF Message, MailOf, CardsOf
    <3> QED  BY <1>2, <1>4, <3>1
  <2> QED  BY <2>1, <2>2
<1>5. ASSUME NEW o \in Run, inbox'[g] = Append(inbox[g], [req |-> Cancel(o), state |-> {}])
      PROVE  Quiet
  <2>1. /\ [req |-> Cancel(o), state |-> {}] \in Message
        /\ [req |-> Cancel(o), state |-> {}] \notin P
    BY Requests, RequestsApart, Kinds DEF Message, MailOf, CardsOf
  <2> QED  BY <1>2, <1>5, <2>1
<1>6. ASSUME NEW c \in Card, SendResume(c),
             inbox'[g] = Append(inbox[g], [req |-> Resume(c), state |-> seen[c].state])
      PROVE  \/ Quiet
             \/ /\ c \in CardsOf(r) /\ g = inner
                /\ task[Resume(c)] = "claimed" /\ task'[Resume(c)] = "sent"
  <2>1. CASE c \in CardsOf(r)
    <3>1. task[Resume(c)] = "claimed" /\ Send(Resume(c), seen[c].state)  BY <1>6 DEF SendResume
    <3> QED  BY <1>3, <1>6, <2>1, <3>1, Requests
  <2>2. CASE c \notin CardsOf(r)
    <3>1. seen[c].state \in SUBSET Card  BY DEF TypeInv, TypeOK, TasksTypeOK, Claim
    <3>2. /\ [req |-> Resume(c), state |-> seen[c].state] \in Message
          /\ [req |-> Resume(c), state |-> seen[c].state] \notin P
      BY <2>2, <3>1, Requests, RequestsApart, Kinds DEF Message, MailOf
    <3> QED  BY <1>2, <1>6, <3>2
  <2> QED  BY <2>1, <2>2
<1>7. ASSUME NEW o \in Run PROVE [req |-> Start(o), state |-> {}] \in Message
  BY Requests DEF Message
<1>8. ASSUME NEW c \in Card PROVE [req |-> Resume(c), state |-> seen[c].state] \in Message
  BY Requests DEF Message, TypeInv, TypeOK, TasksTypeOK, Claim
<1>9. CASE inbox'[g] = inbox[g] \/ inbox'[g] = <<>>  BY <1>1, <1>9
<1>10. CASE Handle(g) /\ inbox'[g] = Tail(inbox[g])  BY <1>1, <1>10, HandleFrame
<1>11. ASSUME NEW o \in Run, SendStart(o), o = r, g = inner,
              inbox'[g] = Append(inbox[g], [req |-> Start(o), state |-> {}]),
              task[Start(r)] = "ensured", task'[Start(r)] = "sent"
       PROVE  \E m \in Message :
                 /\ g = inner /\ inbox'[g] = Append(inbox[g], m)
                 /\ SendStart(r) /\ m.req = Start(r)
                 /\ task[Start(r)] = "ensured" /\ task'[Start(r)] = "sent"
  <2>1. [req |-> Start(o), state |-> {}].req = Start(r)  BY <1>11
  <2> QED  BY <1>7, <1>11, <2>1
<1>12. CASE \E o \in Run :
              \/ /\ SendStart(o)
                 /\ inbox'[g] = Append(inbox[g], [req |-> Start(o), state |-> {}])
              \/ SendCancel(o) /\ inbox'[g] = Append(inbox[g], [req |-> Cancel(o), state |-> {}])
  <2>1. PICK o \in Run :
            \/ /\ SendStart(o)
               /\ inbox'[g] = Append(inbox[g], [req |-> Start(o), state |-> {}])
            \/ inbox'[g] = Append(inbox[g], [req |-> Cancel(o), state |-> {}])
    BY <1>12
  <2> QED  BY <1>4, <1>5, <1>11, <2>1
<1>13. CASE \E c \in Card : /\ SendResume(c)
                            /\ inbox'[g] = Append(inbox[g], [req |-> Resume(c),
                                                             state |-> seen[c].state])
  BY <1>6, <1>8, <1>13
<1> QED  BY <1>9, <1>10, <1>12, <1>13, InboxSteps

\* What a process writes about a run: an event that says it has resumed, while its
\* message is handled, or the events of the engine that works on it.
Speaks(g, r, frames) ==
    \/ ~Has(frames, EventsOf(r))
    \/ /\ Handle(g) /\ Head(inbox[g]) \in MailOf(r)
       /\ ~Has(frames, Requested(r)) /\ ~Has(frames, Reported(r))
    \/ /\ WorkTurn(r, g) /\ \E c \in Card : EngineAsks(g, r, c)
       /\ EndsIn(frames, Requested(r), EventsOf(r)) /\ ~Has(frames, Reported(r))
    \/ /\ WorkTurn(r, g) /\ ~Has(frames, Requested(r))
       /\ Has(frames, Reported(r)) => EnginePauses(g, r) \/ EngineCompletes(g, r)

\* While a message is handled, the process speaks of the run of the message.
LEMMA HandleSpeaks ==
    ASSUME TypeInv, NEW g \in Gen, Handle(g), NEW r \in Run
    PROVE  \E frames \in Seq(Frame) :
              /\ Emit(g, frames) /\ Speaks(g, r, frames) /\ ~Has(frames, Baseless)
              /\ \A c \in CardsOf(r) : Has(frames, Refusals(Resume(c))) =>
                     Head(inbox[g]) \in MailOf(r) /\ WorkTurn(r, g)
<1> DEFINE m == Head(inbox[g])
           x == EventOf("run.started", RunFor(m.req))
           y(k) == ReplyTo(m.req, k)
<1>1. m \in Message /\ m.req \in Request /\ RunFor(m.req) \in Run
  BY Pipes, HandleFrame, Requests DEF Message
<1>2. x \in Event /\ x.kind = "run.started" /\ x.run = RunFor(m.req)
  BY <1>1, Events DEF EventKind, EventOf
<1>3. \A k \in ReplyKind : /\ y(k) \in Reply /\ y(k) \notin Event
                           /\ \A q : y(k) \in Refusals(q) => q = m.req /\ k = "rejected"
  BY <1>1 DEF ReplyTo, Reply, Event, EventKind, ReplyKind, Refusals
<1>4. PICK k \in ReplyKind, frames \in Seq(Frame) :
          /\ Emit(g, frames)
          /\ \/ frames = <<y(k)>>
             \/ frames = <<x, y(k)>> /\ m.req.op = "resume"
          /\ k = "rejected" => m.req.op \in {"start", "resume"} /\ engine[g][RunFor(m.req)].phase # "off"
  <2>1. \/ /\ m.req.op = "start" /\ Emit(g, <<y("accepted")>>)
        \/ m.req.op = "resume" /\ Emit(g, <<x, y("accepted")>>)
        \/ /\ m.req.op \in {"start", "resume"} /\ engine[g][RunFor(m.req)].phase # "off"
           /\ Emit(g, <<y("rejected")>>)
        \/ m.req.op = "cancel" /\ Emit(g, <<y("accepted")>>)
    BY Zenon DEF Handle
  <2>2. "accepted" \in ReplyKind /\ "rejected" \in ReplyKind /\ "accepted" # "rejected"
    BY DEF ReplyKind
  <2>3. \A j \in ReplyKind : <<y(j)>> \in Seq(Frame) /\ <<x, y(j)>> \in Seq(Frame)
    BY <1>1, Emitted DEF EventKind
  <2> HIDE DEF x, y, m
  <2> QED  BY <2>1, <2>2, <2>3
<1>5. m.req.op = "resume" => m.req.id \in Card /\ m.req = Resume(m.req.id) /\ RunFor(m.req) = RunOf[m.req.id]
  BY <1>1, Kinds DEF RunFor
<1>6. ~Has(frames, Baseless)
  <2>1. x \notin Baseless /\ y(k) \notin Baseless  BY <1>2, <1>3 DEF Baseless
  <2> HIDE DEF x, y
  <2> QED  BY <1>4, <2>1, HasShort
<1>7. Speaks(g, r, frames)
  <2>1. y(k) \notin EventsOf(r) /\ y(k) \notin Requested(r) /\ y(k) \notin Reported(r)
    BY <1>3 DEF EventsOf, Requested, Reported
  <2>2. x \notin Requested(r) /\ x \notin Reported(r)  BY <1>2 DEF Requested, Reported
  <2>3. CASE x \notin EventsOf(r) \/ frames = <<y(k)>>
    <3> HIDE DEF x, y
    <3> QED  BY <1>4, <2>1, <2>3, HasShort DEF Speaks
  <2>4. CASE x \in EventsOf(r) /\ frames = <<x, y(k)>>
    <3>1. m.req.op = "resume"
      <4>1. <<x, y(k)>> # <<y(k)>>  OBVIOUS
      <4> HIDE DEF x, y, m
      <4> QED  BY <1>4, <2>4, <4>1
    <3>2. m \in MailOf(r)
      BY <1>1, <1>2, <1>5, <2>4, <3>1 DEF MailOf, CardsOf, EventsOf
    <3> HIDE DEF x, y
    <3> QED  BY <2>1, <2>2, <2>4, <3>2, HasShort DEF Speaks
  <2> HIDE DEF x, y
  <2> QED  BY <1>4, <2>3, <2>4
<1>8. ASSUME NEW c \in CardsOf(r), Has(frames, Refusals(Resume(c)))
      PROVE  m \in MailOf(r) /\ WorkTurn(r, g)
  <2>1. x \notin Refusals(Resume(c))  BY <1>2 DEF Event, EventOf, Refusals, Reply
  <2>2. y(k) \in Refusals(Resume(c))
    <3> HIDE DEF x, y
    <3> QED  BY <1>4, <1>8, <2>1, HasShort
  <2>3. m.req = Resume(c) /\ k = "rejected"  BY <1>3, <2>2
  <2>4. m \in MailOf(r) /\ RunFor(m.req) = r
    BY <1>1, <2>3 DEF MailOf, CardsOf, RunFor, Resume
  <2> HIDE DEF m
  <2> QED  BY <1>4, <2>3, <2>4 DEF WorkTurn
<1> HIDE DEF m
<1> QED  BY <1>4, <1>6, <1>7, <1>8 DEF m

\* An engine speaks of the run it works on.
LEMMA EngineSpeaks ==
    ASSUME TypeInv, NEW g \in Gen, EngineStep(g), NEW r \in Run,
           \A o \in Run : engine[g][o].unsent \subseteq engine[g][o].state
    PROVE  \E frames \in Seq(Frame) :
              /\ Emit(g, frames) /\ Speaks(g, r, frames) /\ ~Has(frames, Baseless)
              /\ \A q : ~Has(frames, Refusals(q))
<1>1. PICK o \in Run :
          \/ EngineBegins(g, o) \/ EngineCompletes(g, o) \/ EngineFails(g, o)
          \/ EngineCancelled(g, o) \/ EnginePauses(g, o)
          \/ \E c \in Card : EngineAsks(g, o, c)
  BY DEF EngineStep
<1>2. \A k \in EventKind :
          /\ EventOf(k, o) \in Event /\ EventOf(k, o).kind = k /\ EventOf(k, o).run = o
          /\ <<EventOf(k, o)>> \in Seq(Frame)
  BY Events, Emitted DEF EventOf
<1>3. \A f \in Event : \A q : f \notin Refusals(q)
  BY DEF Event, Refusals, Reply, EventKind, ReplyKind
<1>4. /\ {"run.started", "usage.updated", "run.completed", "run.cancelled", "run.failed"}
            \subseteq EventKind
      /\ \A k \in EventKind : k # "interruption.requested" =>
             /\ EventOf(k, o) \notin Requested(r) /\ EventOf(k, o) \notin Baseless
             /\ k # "usage.updated" => EventOf(k, o) \notin Reported(r)
             /\ \A q : EventOf(k, o) \notin Refusals(q)
             /\ o # r => EventOf(k, o) \notin EventsOf(r)
  BY <1>2, <1>3 DEF EventKind, Requested, Reported, EventsOf, Baseless
<1>5. ASSUME NEW k \in EventKind, NEW j \in EventKind, NEW frames \in Seq(Frame), Emit(g, frames),
             frames = <<EventOf(j, o)>> \/ frames = <<EventOf(k, o), EventOf(j, o)>>,
             k # "interruption.requested", j # "interruption.requested",
             engine[g][o].phase # "off",
             EnginePauses(g, o) \/ EngineCompletes(g, o)
             \/ (j # "usage.updated" /\ (k # "usage.updated" \/ frames = <<EventOf(j, o)>>))
      PROVE  Speaks(g, r, frames) /\ ~Has(frames, Baseless) /\ \A q : ~Has(frames, Refusals(q))
  <2>1. ~Has(frames, Baseless) /\ \A q : ~Has(frames, Refusals(q))  BY <1>4, <1>5, HasShort
  <2>2. CASE o # r
    <3>1. ~Has(frames, EventsOf(r))  BY <1>4, <1>5, <2>2, HasShort
    <3> QED  BY <2>1, <3>1 DEF Speaks
  <2>3. CASE o = r
    <3>1. ~Has(frames, Requested(r))  BY <1>4, <1>5, HasShort
    <3>2. Has(frames, Reported(r)) => EnginePauses(g, r) \/ EngineCompletes(g, r)
      BY <1>4, <1>5, <2>3, HasShort
    <3> QED  BY <1>5, <2>1, <2>3, <3>1, <3>2 DEF Speaks, WorkTurn
  <2> QED  BY <2>2, <2>3
<1>6. CASE EngineBegins(g, o)
  <2>1. Emit(g, <<EventOf("run.started", o)>>) /\ engine[g][o].phase # "off"
    BY <1>6 DEF EngineBegins, EngineRuns
  <2> QED  BY <1>2, <1>4, <1>5, <2>1
<1>7. CASE EnginePauses(g, o)
  <2>1. Emit(g, <<EventOf("usage.updated", o)>>) /\ engine[g][o].phase # "off"
    BY <1>7 DEF EnginePauses, EngineRuns
  <2> QED  BY <1>2, <1>4, <1>5, <1>7, <2>1
<1>8. CASE EngineCompletes(g, o)
  <2>1. /\ Emit(g, <<EventOf("usage.updated", o), EventOf("run.completed", o)>>)
        /\ engine[g][o].phase # "off"
    BY <1>8 DEF EngineCompletes, EngineRuns, EngineEnds
  <2>2. <<EventOf("usage.updated", o), EventOf("run.completed", o)>> \in Seq(Frame)
    BY <1>4, Emitted
  <2>3. "usage.updated" \in EventKind /\ "run.completed" \in EventKind  BY <1>4
  <2> QED  BY <1>5, <1>8, <2>1, <2>2, <2>3
<1>9. CASE EngineFails(g, o) \/ EngineCancelled(g, o)
  <2>1. PICK k \in {"run.failed", "run.cancelled"} : EngineEnds(g, o, k) /\ engine[g][o].phase # "off"
    BY <1>9 DEF EngineFails, EngineCancelled, EngineRuns
  <2>2. Emit(g, <<EventOf(k, o)>>)  BY <2>1 DEF EngineEnds
  <2>3. k \in EventKind /\ k # "interruption.requested" /\ k # "usage.updated"  BY <1>4
  <2> QED  BY <1>2, <1>5, <2>1, <2>2, <2>3
<1>10. ASSUME NEW c \in Card, EngineAsks(g, o, c)
       PROVE  \E frames \in Seq(Frame) :
                 /\ Emit(g, frames) /\ Speaks(g, r, frames) /\ ~Has(frames, Baseless)
                 /\ \A q : ~Has(frames, Refusals(q))
  <2> DEFINE x == AskFor(o, c, engine[g][o].state, seq[g][o] + 1)
  <2>1. engine[g][o] \in Engine /\ seq[g][o] \in Nat
    BY DEF TypeInv, TypeOK, SidecarTypeOK
  <2>2. c \in engine[g][o].unsent /\ engine[g][o].phase # "off" /\ Emit(g, <<x>>)
    BY <1>10 DEF EngineAsks
  <2>3. x \in Event  BY <2>1 DEF Event, EventKind, AskFor, Engine
  <2>4. x.run = o /\ x.kind = "interruption.requested" /\ x.card \in x.state
    BY <2>2 DEF AskFor
  <2>5. x \notin Baseless /\ x \notin Reported(r) /\ \A q : x \notin Refusals(q)
    BY <1>3, <2>3, <2>4 DEF Baseless, Reported
  <2>6. x \notin EventsOf(r) \/ o = r  BY <2>4 DEF EventsOf
  <2>7. <<x>> \in Seq(Frame)  BY <2>3 DEF Frame
  <2> HIDE DEF x
  <2>8. ~Has(<<x>>, Baseless) /\ ~Has(<<x>>, Reported(r)) /\ \A q : ~Has(<<x>>, Refusals(q))
    BY <2>5, HasShort
  <2>9. Speaks(g, r, <<x>>)
    <3>1. CASE x \notin EventsOf(r)  BY <3>1, HasShort DEF Speaks
    <3>2. CASE o = r
      BY <1>10, <2>2, <2>8, <3>2, EndsShort DEF Speaks, WorkTurn
    <3> QED  BY <2>6, <3>1, <3>2
  <2> QED  BY <2>2, <2>7, <2>8, <2>9
<1> QED  BY <1>1, <1>6, <1>7, <1>8, <1>9, <1>10

\* A step reads a request or lets an engine make one.
LEMMA AskTurns ==
    ASSUME TypeInv, ReaderKnowsKind, Next, NEW r \in Run, NEW g \in Gen,
           AskIsLast(r), OneTurn(r), \A o \in Run : engine[g][o].unsent \subseteq engine[g][o].state
    PROVE  /\ EndsIn(Unread(g)', Requested(r), EventsOf(r))
           /\ Has(Unread(g)', Requested(r)) =>
                 Has(Unread(g), Requested(r)) \/ \E c \in Card : EngineAsks(g, r, c)
<1> DEFINE P == Requested(r)
           Q == EventsOf(r)
           s == Unread(g)
           Goal == /\ EndsIn(Unread(g)', P, Q)
                   /\ Has(Unread(g)', P) => Has(s, P) \/ \E c \in Card : EngineAsks(g, r, c)
<1>0. /\ outbox[g] \in Seq(Frame) /\ EndsIn(s, P, Q) /\ P \subseteq Q
      /\ inbox[g] \in Seq(Message)
  BY Pipes DEF AskIsLast, Requested
<1>1. CASE Unread(g)' = s \/ Unread(g)' = <<>>
  BY <1>0, <1>1, EndsShort, HasNothing
<1>2. CASE reader'[g] = reader[g] /\ outbox'[g] = outbox[g]  BY <1>1, <1>2 DEF Unread
<1>3. CASE Restart
  <2>1. outbox'[g] = <<>> /\ reader'[g].step # "release"
    BY <1>3 DEF Restart, ReaderIdle
  <2> QED  BY <1>1, <2>1 DEF Unread
<1>4. CASE ReaderStep(g)
  <2>1. \/ Unread(g)' = s
        \/ s = outbox[g] /\ outbox[g] # <<>> /\ Unread(g)' = Tail(outbox[g])
    BY <1>4, UnreadShrinks DEF HasFrame
  <2>2. CASE s = outbox[g] /\ outbox[g] # <<>> /\ Unread(g)' = Tail(outbox[g])
    <3>1. EndsIn(Tail(outbox[g]), P, Q) /\ (Has(Tail(outbox[g]), P) => Has(outbox[g], P))
      <4> HIDE DEF P, Q, s
      <4> QED  BY <1>0, <2>2, EndsTail, HasTail
    <3> QED  BY <2>2, <3>1
  <2> QED  BY <1>1, <2>1, <2>2
<1>5. CASE UNCHANGED reader /\ (Handle(g) \/ EngineStep(g))
  <2>1. PICK frames \in Seq(Frame) : Emit(g, frames) /\ Speaks(g, r, frames)
    BY <1>5, HandleSpeaks, EngineSpeaks
  <2>2. s \in Seq(Frame) /\ Unread(g)' = s \o frames  BY <1>5, <2>1, UnreadGrows
  <2>3. /\ EndsIn(frames, P, Q)
        /\ ~Has(s, P) \/ ~Has(frames, Q)
        /\ ~Has(frames, P) \/ \E c \in Card : EngineAsks(g, r, c)
    <3>1. CASE ~Has(frames, Q)
      BY <1>0, <3>1, HasFewer DEF EndsIn, Has
    <3>2. ASSUME MailTurn(r, g) \/ WorkTurn(r, g), AskTurn(r, g) PROVE FALSE
      <4>1. Turn(r, "ask", g) /\ (Turn(r, "mail", g) \/ Turn(r, "work", g))
        BY <3>2 DEF Turn
      <4> QED  BY <4>1 DEF OneTurn, Place, Holder
    <3>3. Handle(g) /\ Head(inbox[g]) \in MailOf(r) => MailTurn(r, g)
      BY <1>0, HandleFrame, HasHead DEF MailTurn
    <3>4. ~Has(frames, P) => EndsIn(frames, P, Q)  BY DEF EndsIn, Has
    <3>5. CASE Handle(g) /\ Head(inbox[g]) \in MailOf(r) /\ ~Has(frames, P)
      BY <3>2, <3>3, <3>4, <3>5 DEF AskTurn
    <3>6. CASE /\ WorkTurn(r, g) /\ \E c \in Card : EngineAsks(g, r, c)
               /\ EndsIn(frames, P, Q)
      BY <3>2, <3>6 DEF AskTurn
    <3>7. CASE WorkTurn(r, g) /\ ~Has(frames, P)
      BY <3>2, <3>4, <3>7 DEF AskTurn
    <3> QED  BY <2>1, <3>1, <3>5, <3>6, <3>7 DEF Speaks
  <2>4. EndsIn(s \o frames, P, Q) /\ (Has(s \o frames, P) => Has(s, P) \/ Has(frames, P))
    <3> HIDE DEF P, Q, s
    <3> QED  BY <1>0, <2>2, <2>3, EndsConcat, HasConcat
  <2> QED  BY <2>2, <2>3, <2>4, Zenon
<1> QED  BY <1>2, <1>3, <1>4, <1>5, PipeSteps

\* Usage is reported by an engine that pauses or completes.
LEMMA Reports ==
    ASSUME TypeInv, Next, NEW r \in Run, NEW g \in Gen, Has(outbox'[g], Reported(r)),
           \A o \in Run : engine[g][o].unsent \subseteq engine[g][o].state
    PROVE  Has(outbox[g], Reported(r)) \/ EnginePauses(g, r) \/ EngineCompletes(g, r)
<1>0. outbox[g] \in Seq(Frame)  BY Pipes
<1>1. CASE outbox'[g] = outbox[g] \/ outbox'[g] = <<>>  BY <1>1, HasNothing
<1>2. CASE HasFrame(g) /\ outbox'[g] = Tail(outbox[g])  BY <1>0, <1>2, HasTail DEF HasFrame
<1>3. CASE Handle(g) \/ EngineStep(g)
  <2>1. PICK frames \in Seq(Frame) : Emit(g, frames) /\ Speaks(g, r, frames)
    BY <1>3, HandleSpeaks, EngineSpeaks
  <2>2. outbox'[g] = outbox[g] \o frames
    BY <2>1 DEF Emit, TypeInv, TypeOK, SidecarTypeOK
  <2>3. Has(frames, Reported(r)) => EnginePauses(g, r) \/ EngineCompletes(g, r)
    <3>1. ~Has(frames, EventsOf(r)) => ~Has(frames, Reported(r))
      BY HasFewer DEF Reported
    <3> QED  BY <2>1, <3>1, Zenon DEF Speaks
  <2> QED  BY <1>0, <2>2, <2>3, HasConcat
<1> QED  BY <1>1, <1>2, <1>3, OutboxSteps

\* An engine begins with the message at the head of its inbox.
LEMMA WorkTurns ==
    ASSUME TypeInv, Next, NEW r \in Run, NEW g \in Gen,
           engine'[g][r].phase # "off", engine[g][r].phase = "off", AtMostOne(inbox[g], MailOf(r))
    PROVE  /\ Handle(g) /\ inbox[g] # <<>> /\ Head(inbox[g]) \in MailOf(r)
           /\ MailTurn(r, g) /\ ~Has(inbox'[g], MailOf(r))
<1>1. Handle(g) /\ Head(inbox[g]).req \in {Start(r)} \cup {Resume(c) : c \in CardsOf(r)}
  BY EngineSteps
<1>2. /\ inbox[g] # <<>> /\ inbox'[g] = Tail(inbox[g]) /\ inbox[g] \in Seq(Message)
      /\ Head(inbox[g]) \in Message
  BY <1>1, HandleFrame, Pipes DEF TypeInv, TypeOK, SidecarTypeOK
<1>3. Head(inbox[g]) \in MailOf(r)  BY <1>1, <1>2 DEF MailOf
<1> QED  BY <1>1, <1>2, <1>3, HasHead, HasTail DEF MailTurn

\* A card is offered as its request is read, or as its claim is put back.
LEMMA CardTurns ==
    ASSUME TypeInv, KnownInv, Next, NEW c \in Card, card'[c] = "pending", card[c] # "pending"
    PROVE  \/ \E g \in Gen : /\ AppendCard(g) /\ HasFrame(g) /\ reader[g].step = "card"
                             /\ FrameAt(g) \in Requested(RunOf[c]) /\ FrameAt(g).card = c
                             /\ card[c] = "none"
           \/ /\ ResumeRestore(c) /\ task[Resume(c)] = "refused" /\ task'[Resume(c)] = "idle"
              /\ runStatus'[RunOf[c]] = "waiting_for_user"
<1>0. /\ card \in [Card -> CardStatus] /\ task \in [Request -> CommandStep]
      /\ runStatus \in [Run -> RunStatus] /\ Resume(c) \in Request /\ RunOf[c] \in Run
  BY Requests, ConstAssumption DEF TypeInv, TypeOK, DbTypeOK, TasksTypeOK
<1>1. CASE UNCHANGED <<card, applied>>  BY <1>1
<1>2. ASSUME NEW d \in Card, ResumeClaim(d) PROVE FALSE
  BY <1>0, <1>2 DEF ResumeClaim
<1>3. ASSUME NEW d \in Card, ResumeRestore(d)
      PROVE  /\ ResumeRestore(c) /\ task[Resume(c)] = "refused" /\ task'[Resume(c)] = "idle"
             /\ runStatus'[RunOf[c]] = "waiting_for_user"
  <2>1. d = c  BY <1>0, <1>3 DEF ResumeRestore, Reopen
  <2> QED  BY <1>0, <1>3, <2>1 DEF ResumeRestore, Move, WriteRun
<1>4. ASSUME NEW o \in Run, CancelCommit(o) PROVE FALSE
  BY <1>0, <1>4 DEF CancelCommit
<1>5. ASSUME NEW g \in Gen, AppendCard(g)
      PROVE  /\ AppendCard(g) /\ HasFrame(g) /\ reader[g].step = "card"
             /\ FrameAt(g) \in Requested(RunOf[c]) /\ FrameAt(g).card = c
             /\ card[c] = "none"
  <2>1. HasFrame(g) /\ reader[g].step = "card" /\ FrameAt(g) \in Event
    BY <1>5 DEF AppendCard, TypeInv, ReaderHoldsEvent
  <2>2. FrameAt(g).kind = "interruption.requested"  BY <2>1 DEF KnownInv, ReaderKnowsKind
  <2>3. card' = [card EXCEPT ![FrameAt(g).card] = "pending"] /\ card[FrameAt(g).card] = "none"
    BY <1>5 DEF AppendCard
  <2>4. FrameAt(g).card = c  BY <1>0, <2>3
  <2>5. FrameAt(g) \notin StrangeEvents(asked)
    <3>1. ~Has(outbox[g], StrangeEvents(asked))  BY DEF KnownInv, KnownPipes
    <3>2. outbox[g] \in Seq(Frame)  BY Pipes
    <3> QED  BY <2>1, <3>1, <3>2, HasHead DEF HasFrame, FrameAt
  <2>6. RunOf[c] = FrameAt(g).run
    BY <2>1, <2>2, <2>4, <2>5 DEF StrangeEvents, CardsOf
  <2> QED  BY <1>5, <2>1, <2>2, <2>3, <2>4, <2>6 DEF Requested, EventsOf
<1>6. ASSUME NEW g \in Gen, Handle(g) PROVE FALSE  BY <1>6, HandleFrame DEF db
<1> QED  BY <1>1, <1>2, <1>3, <1>4, <1>5, <1>6, LedgerSteps

\* The steps of a command that answers a card, and what it keeps of the run it read.
Answered(c) ==
    LET q == Resume(c) IN
    /\ task'[q] = "checked" => task[q] = "checked" \/ ResumeCheck(c)
    /\ task'[q] = "ensured" => task[q] \in {"checked", "ensured"}
    /\ task'[q] = "claimed" =>
           \/ task[q] = "claimed"
           \/ /\ task[q] = "ensured"
              /\ runStatus[RunOf[c]] = "waiting_for_user" /\ card[c] = "pending"
              /\ runStatus'[RunOf[c]] = "queued" /\ card'[c] = "resolved"
    /\ task'[q] = "refused" => task[q] \in {"claimed", "rejected", "refused"}
    /\ task'[q] = "rejected" =>
           task[q] = "rejected" \/ \E g \in Gen : HasFrame(g) /\ FrameAt(g) \in Refusals(q)
    /\ task'[q] \in {"checked", "ensured", "claimed"} => seen'[c] = seen[c] \/ ResumeCheck(c)

LEMMA AnswerSteps ==
    ASSUME TypeInv, Next, NEW c \in Card
    PROVE  Answered(c)
<1> DEFINE q == Resume(c)
<1>0. /\ q \in Request /\ q.op = "resume" /\ q.id = c
      /\ task \in [Request -> CommandStep] /\ seen \in [Card -> Claim]
      /\ runStatus \in [Run -> RunStatus] /\ card \in [Card -> CardStatus] /\ RunOf[c] \in Run
  BY Requests, ConstAssumption DEF Resume, TypeInv, TypeOK, TasksTypeOK, DbTypeOK
<1>1. ASSUME task'[q] = task[q], seen'[c] = seen[c] PROVE Answered(c)  BY <1>1 DEF Answered
<1>2. ASSUME NEW p, p # q, NEW step, Move(p, step), seen'[c] = seen[c] PROVE Answered(c)
  <2>1. task'[q] = task[q]  BY <1>0, <1>2 DEF Move
  <2> QED  BY <1>1, <1>2, <2>1
<1>3. ASSUME NEW step, step \in {"idle", "left", "session", "accepted", "sent", "done"}, Move(q, step)
      PROVE  Answered(c)
  <2>1. task'[q] = step  BY <1>0, <1>3 DEF Move
  <2> QED  BY <1>3, <2>1 DEF Answered
<1>4. ASSUME NEW o \in Run,
             \/ StartCheck(o) \/ RetryCheck(o) \/ StartStep(o)
             \/ CancelWaiting(o) \/ SendCancel(o) \/ CancelStep(o)
      PROVE  Answered(c)
  <2>1. UNCHANGED seen /\ \E p \in {Start(o), Cancel(o)} : \E step : Move(p, step)
    BY <1>4 DEF StartCheck, RetryCheck, StartStep, CreateRun, PrepareFails, StartEnsure,
       EnsureStarted, SendStart, Send, StartRefused, StartRefusedSession, DropOwnership,
       Timeout, CancelWaiting, SendCancel, CancelStep, CancelCommit
  <2>2. \A p \in {Start(o), Cancel(o)} : p # q  BY Kinds
  <2> QED  BY <1>2, <2>1, <2>2
<1>5. ASSUME NEW d \in Card, d # c, ResumeCheck(d) \/ ResumeStep(d) PROVE Answered(c)
  <2>1. \E step : Move(Resume(d), step)
    BY <1>5 DEF ResumeCheck, ResumeStep, ResumeEnsure, EnsureStarted, ResumeClaim,
       SendResume, Send, ResumeRestore, ResumeRunning, ResumeRunningSession,
       DropOwnership, Timeout
  <2>2. UNCHANGED seen \/ \E x : seen' = [seen EXCEPT ![d] = x]
    BY <1>5, ZenonT(60) DEF ResumeCheck, ResumeStep, ResumeEnsure, EnsureStarted, ResumeClaim,
       SendResume, Send, ResumeRestore, ResumeRunning, ResumeRunningSession,
       DropOwnership, Timeout
  <2>3. seen'[c] = seen[c] /\ Resume(d) # q  BY <1>0, <1>5, <2>2, Kinds
  <2> QED  BY <1>2, <2>1, <2>3
<1>6. ASSUME NEW step, Move(q, step) PROVE task'[q] = step  BY <1>0, <1>6 DEF Move
<1>7. CASE ResumeCheck(c)
  <2>1. task'[q] = "checked"  BY <1>6, <1>7 DEF ResumeCheck
  <2> QED  BY <1>7, <2>1 DEF Answered
<1>8. CASE ResumeEnsure(c)
  <2>1. /\ task[q] = "checked" /\ task'[q] \in {"ensured", "idle"} /\ UNCHANGED seen
    BY <1>6, <1>8 DEF ResumeEnsure, EnsureStarted
  <2> QED  BY <2>1 DEF Answered
<1>9. CASE ResumeClaim(c)
  <2>1. /\ task[q] = "ensured" /\ UNCHANGED seen
        /\ \/ task'[q] = "idle"
           \/ /\ task'[q] = "claimed" /\ card[c] = "pending"
              /\ runStatus[RunOf[c]] = "waiting_for_user"
              /\ runStatus'[RunOf[c]] = "queued" /\ card'[c] = "resolved"
    BY <1>0, <1>6, <1>9 DEF ResumeClaim, WriteRun, ClaimedStatus
  <2> QED  BY <2>1 DEF Answered
<1>10. CASE SendResume(c)
  <2>1. task[q] = "claimed" /\ task'[q] \in {"refused", "sent", "left"}
    BY <1>0, <1>6, <1>10 DEF SendResume, Send, Lost
  <2> QED  BY <2>1 DEF Answered
<1>11. CASE ResumeRestore(c)  BY <1>3, <1>11 DEF ResumeRestore
<1>12. CASE ResumeRunning(c) \/ ResumeRunningSession(c)
  BY <1>3, <1>12 DEF ResumeRunning, ResumeRunningSession
<1>13. CASE DropOwnership(q)
  <2>1. task[q] = "rejected" /\ task'[q] = "refused"  BY <1>6, <1>13 DEF DropOwnership
  <2> QED  BY <2>1 DEF Answered
<1>14. CASE Timeout(q)  BY <1>0, <1>3, <1>14 DEF Timeout, Lost
<1>15. ASSUME NEW g \in Gen, ReaderStep(g) PROVE Answered(c)
  <2>1. CASE ReadReply(g)
    <3>1. UNCHANGED seen /\ FrameAt(g) \in Reply /\ HasFrame(g)
      BY <2>1, TypeNextFrame, Frames DEF ReadReply, TypeInv
    <3>2. CASE UNCHANGED task  BY <1>1, <3>1, <3>2
    <3>3. CASE ~UNCHANGED task
      <4>1. \E step : Move(FrameAt(g).req, step)  BY <2>1, <3>3, Zenon DEF ReadReply
      <4>2. CASE FrameAt(g).req # q  BY <1>2, <3>1, <4>1, <4>2
      <4>3. CASE FrameAt(g).req = q
        <5>1. \/ FrameAt(g).kind = "rejected" /\ Move(q, "rejected")
              \/ Move(q, "accepted")
          BY <1>0, <2>1, <3>3, <4>3 DEF ReadReply
        <5>2. CASE Move(q, "accepted")  BY <1>3, <5>2
        <5>3. CASE FrameAt(g).kind = "rejected" /\ Move(q, "rejected")
          <6>1. FrameAt(g) \in Refusals(q)  BY <3>1, <4>3, <5>3 DEF Refusals
          <6>2. task'[q] = "rejected"  BY <1>6, <5>3
          <6> QED  BY <3>1, <6>1, <6>2 DEF Answered
        <5> QED  BY <5>1, <5>2, <5>3
      <4> QED  BY <4>2, <4>3
    <3> QED  BY <3>2, <3>3
  <2>2. CASE ReadEnd(g)
    <3>1. UNCHANGED seen /\ task'[q] \in {task[q], "left"}
      BY <1>0, <2>2 DEF ReadEnd, Lost
    <3>2. CASE task'[q] = "left"  BY <3>2 DEF Answered
    <3> QED  BY <1>1, <3>1, <3>2
  <2>3. CASE ~ReadReply(g) /\ ~ReadEnd(g)
    <3>1. UNCHANGED <<task, seen>>
      BY <1>15, <2>3, ZenonT(60) DEF ReaderStep, ReadUsage, ReadEvent, ReadEventSession, AppendCard,
         Release, Settle, SettleSession, ReaderStops, tasks
    <3> QED  BY <1>1, <3>1
  <2> QED  BY <2>1, <2>2, <2>3
<1>16. ASSUME NEW g \in Gen, Handle(g) \/ EngineStep(g) \/ Crash(g) PROVE Answered(c)
  <2>1. UNCHANGED <<task, seen>>
    <3>1. CASE Handle(g)  BY <3>1, HandleFrame DEF tasks
    <3>2. CASE EngineStep(g)
      BY <3>2, Zenon DEF EngineStep, EngineBegins, EngineCompletes, EngineFails,
         EngineCancelled, EngineEnds, EnginePauses, EngineAsks, tasks
    <3>3. CASE Crash(g)  BY <3>3 DEF Crash, tasks
    <3> QED  BY <1>16, <3>1, <3>2, <3>3
  <2> QED  BY <1>1, <2>1
<1>17. CASE Restart
  <2>1. task'[q] = "idle"  BY <1>0, <1>17 DEF Restart
  <2> QED  BY <2>1 DEF Answered
<1>18. CASE Reconcile
  <2>1. UNCHANGED <<task, seen>>  BY <1>18 DEF Reconcile, tasks
  <2> QED  BY <1>1, <2>1
<1> QED  BY <1>4, <1>5, <1>7, <1>8, <1>9, <1>10, <1>11, <1>12, <1>13, <1>14, <1>15, <1>16,
            <1>17, <1>18 DEF Next, ResumeStep

\* A run comes to wait when a request is read or a claim is put back, or when the
\* reader writes back a status it read before; only the latter could take its row away.
LEMMA StatusSteps ==
    ASSUME TypeInv, Next, NEW r \in Run
    PROVE  /\ runStatus'[r] = "waiting_for_user" =>
                 \/ runStatus[r] = "waiting_for_user"
                 \/ \E g \in Gen : /\ ReadEvent(g) /\ HasFrame(g) /\ FrameAt(g) \in Requested(r)
                                   /\ reader[g].step \in {"frame", "status"}
                 \/ \E g \in Gen : /\ reader[g].step = "status" /\ FrameAt(g).run = r
                                   /\ reader[g].status = "waiting_for_user"
                 \/ \E c \in CardsOf(r) : /\ ResumeRestore(c) /\ task[Resume(c)] = "refused"
                                          /\ card'[c] = "pending"
           /\ runStatus'[r] = "none" =>
                 \/ runStatus[r] = "none"
                 \/ \E g \in Gen : /\ reader[g].step = "status" /\ FrameAt(g).run = r
                                   /\ reader[g].status = "none"
<1> DEFINE w == "waiting_for_user"
           Same == runStatus'[r] \in {w, "none"} => runStatus'[r] = runStatus[r]
<1>0. /\ runStatus \in [Run -> RunStatus] /\ card \in [Card -> CardStatus]
      /\ RunOf \in [Card -> Run]
  BY ConstAssumption DEF TypeInv, TypeOK, DbTypeOK
<1>1. CASE UNCHANGED runStatus  BY <1>1
<1>2. ASSUME NEW o, NEW status, status \notin {w, "none"}, WriteRun(o, status) PROVE Same
  BY <1>0, <1>2 DEF WriteRun
<1>3. ASSUME NEW o \in Run,
             \/ StartCheck(o) \/ RetryCheck(o) \/ StartStep(o)
             \/ CancelWaiting(o) \/ SendCancel(o) \/ CancelStep(o)
      PROVE  Same
  <2>1. CASE CreateRun(o)  BY <1>2, <2>1 DEF CreateRun
  <2>2. CASE StartRefused(o)  BY <1>2, <2>2 DEF StartRefused
  <2>3. CASE CancelCommit(o)  BY <1>2, <2>3 DEF CancelCommit
  <2>4. CASE ~CreateRun(o) /\ ~StartRefused(o) /\ ~CancelCommit(o)
    <3>1. UNCHANGED runStatus
      BY <1>3, <2>4, ZenonT(60) DEF StartCheck, RetryCheck, StartStep, PrepareFails, StartEnsure,
         EnsureStarted, SendStart, Send, StartRefusedSession, DropOwnership,
         Timeout, CancelWaiting, SendCancel, CancelStep, db
    <3> QED  BY <3>1
  <2> QED  BY <2>1, <2>2, <2>3, <2>4
<1>4. ASSUME NEW c \in Card, ResumeCheck(c) \/ ResumeStep(c)
      PROVE  \/ Same
             \/ /\ c \in CardsOf(r) /\ ResumeRestore(c) /\ task[Resume(c)] = "refused"
                /\ card'[c] = "pending" /\ runStatus'[r] = w
  <2>1. CASE ResumeClaim(c)  BY <1>2, <2>1 DEF ResumeClaim, ClaimedStatus
  <2>2. CASE ResumeRunning(c)  BY <1>2, <2>2 DEF ResumeRunning
  <2>3. CASE ResumeRestore(c)
    <3>1. /\ task[Resume(c)] = "refused"
          /\ \/ UNCHANGED runStatus
             \/ WriteRun(RunOf[c], w) /\ Reopen(c)
      BY <2>3 DEF ResumeRestore
    <3>2. CASE WriteRun(RunOf[c], w) /\ Reopen(c)
      BY <1>0, <2>3, <3>1, <3>2 DEF WriteRun, Reopen, CardsOf
    <3> QED  BY <3>1, <3>2
  <2>4. CASE ~ResumeClaim(c) /\ ~ResumeRunning(c) /\ ~ResumeRestore(c)
    <3>1. UNCHANGED runStatus
      BY <1>4, <2>4, ZenonT(60) DEF ResumeCheck, ResumeStep, ResumeEnsure, EnsureStarted,
         SendResume, Send, ResumeRunningSession, DropOwnership, Timeout, db
    <3> QED  BY <3>1
  <2> QED  BY <2>1, <2>2, <2>3, <2>4
<1>5. ASSUME NEW g \in Gen, ReaderStep(g)
      PROVE  \/ Same
             \/ /\ ReadEvent(g) /\ HasFrame(g) /\ FrameAt(g) \in Requested(r)
                /\ reader[g].step \in {"frame", "status"} /\ runStatus'[r] = w
             \/ /\ reader[g].step = "status" /\ FrameAt(g).run = r
                /\ reader[g].status = runStatus'[r]
  <2>1. CASE ReadEvent(g)
    <3> DEFINE f == FrameAt(g)
    <3>1. HasFrame(g) /\ f \in Event /\ f.kind \in EventKind
      BY <2>1, TypeNextFrame, Frames DEF ReadEvent, TypeInv
    <3>2. /\ reader[g].step = "status" \/ (reader[g].step = "frame" /\ f.kind # "usage.updated")
          /\ \/ UNCHANGED runStatus
             \/ WriteRun(f.run, IF f.kind = "usage.updated" THEN reader[g].status
                                ELSE StatusOf(f.kind))
      BY <2>1, Zenon DEF ReadEvent
    <3>3. CASE UNCHANGED runStatus  BY <3>3
    <3>4. CASE f.kind = "usage.updated" /\ WriteRun(f.run, reader[g].status)
      <4>1. reader[g].step = "status"  BY <3>2, <3>4
      <4>2. \/ runStatus'[r] = runStatus[r]
            \/ f.run = r /\ runStatus'[r] = reader[g].status
        BY <1>0, <3>4 DEF WriteRun
      <4> QED  BY <4>1, <4>2
    <3>5. CASE f.kind = "interruption.requested" /\ WriteRun(f.run, w)
      <4>1. CASE f.run = r
        <5>1. runStatus'[r] = w  BY <1>0, <3>5, <4>1 DEF WriteRun
        <5>2. f \in Requested(r)  BY <3>1, <3>5, <4>1 DEF Requested, EventsOf
        <5> QED  BY <2>1, <3>1, <3>2, <5>1, <5>2
      <4>2. CASE f.run # r  BY <1>0, <3>5, <4>2 DEF WriteRun
      <4> QED  BY <4>1, <4>2
    <3>6. CASE /\ f.kind \in EventKind \ {"usage.updated", "interruption.requested"}
               /\ WriteRun(f.run, StatusOf(f.kind))
      <4>1. StatusOf(f.kind) \notin {w, "none"}  BY <3>6 DEF StatusOf, EventKind
      <4> QED  BY <1>2, <3>6, <4>1
    <3>7. StatusOf("interruption.requested") = w  BY DEF StatusOf
    <3> QED  BY <3>1, <3>2, <3>3, <3>4, <3>5, <3>6, <3>7
  <2>2. ASSUME NEW o \in Run, Settle(g, o) PROVE Same  BY <1>2, <2>2 DEF Settle
  <2>3. CASE ~ReadEvent(g) /\ \A o \in Run : ~Settle(g, o)
    <3>1. UNCHANGED runStatus
      BY <1>5, <2>3, ZenonT(60) DEF ReaderStep, ReadReply, ReadUsage, ReadEventSession, AppendCard,
         Release, ReadEnd, SettleSession, ReaderStops, db
    <3> QED  BY <3>1
  <2> QED  BY <2>1, <2>2, <2>3
<1>6. ASSUME NEW g \in Gen, Handle(g) \/ EngineStep(g) \/ Crash(g) PROVE Same
  <2>1. UNCHANGED runStatus
    <3>1. CASE Handle(g)  BY <3>1, HandleFrame DEF db
    <3>2. CASE EngineStep(g)
      BY <3>2, Zenon DEF EngineStep, EngineBegins, EngineCompletes, EngineFails,
         EngineCancelled, EngineEnds, EnginePauses, EngineAsks, db
    <3>3. CASE Crash(g)  BY <3>3 DEF Crash, db
    <3> QED  BY <1>6, <3>1, <3>2, <3>3
  <2> QED  BY <2>1
<1>7. CASE Restart  BY <1>1, <1>7 DEF Restart, db
<1>8. ASSUME Reconcile PROVE Same
  <2>1. runStatus'[r] = runStatus[r] \/ runStatus'[r] = "interrupted"
    BY <1>0, <1>8 DEF Reconcile
  <2> QED  BY <2>1
<1> QED  BY <1>3, <1>4, <1>5, <1>6, <1>7, <1>8 DEF Next

\* An engine asks for what its state leaves open, resumes without a card only when
\* the message names none, and a pause ends with the last request.
LEMMA EngineTurns ==
    ASSUME TypeInv, Next, NEW g \in Gen, NEW r \in Run,
           engine[g][r].unsent \subseteq engine[g][r].state
    PROVE  /\ engine'[g][r].unsent \subseteq engine'[g][r].state
           /\ engine'[g][r].phase = "unknown" =>
                 \/ engine[g][r].phase = "unknown"
                 \/ /\ Handle(g) /\ inbox[g] # <<>>
                    /\ \E c \in CardsOf(r) :
                          Head(inbox[g]).req = Resume(c) /\ c \notin Head(inbox[g]).state
           /\ engine[g][r].phase = "pausing" => engine'[g][r].phase \in {"pausing", "off"}
<1> DEFINE e == engine[g][r]
           f == engine'[g][r]
           Same == /\ f.unsent \subseteq f.state
                   /\ f.phase = "unknown" => e.phase = "unknown"
                   /\ e.phase = "pausing" => f.phase \in {"pausing", "off"}
           Unnamed == /\ Handle(g) /\ inbox[g] # <<>>
                      /\ \E c \in CardsOf(r) :
                            Head(inbox[g]).req = Resume(c) /\ c \notin Head(inbox[g]).state
           Kept == /\ f.unsent \subseteq f.state
                   /\ f.phase = "unknown" => e.phase = "unknown" \/ Unnamed
                   /\ e.phase = "pausing" => f.phase \in {"pausing", "off"}
<1>0. /\ engine \in [Gen -> [Run -> Engine]] /\ e \in Engine
      /\ EngineOff.phase = "off" /\ EngineOff.state = {} /\ EngineOff.unsent = {}
  BY DEF TypeInv, TypeOK, SidecarTypeOK, EngineOff
<1>1. CASE f = e  BY <1>1
<1>2. ASSUME f = EngineOff PROVE Same  BY <1>0, <1>2
<1>3. ASSUME NEW h, Kill(h) PROVE Same
  <2>1. f = e \/ f = EngineOff  BY <1>0, <1>3 DEF Kill
  <2> QED  BY <1>1, <1>2, <2>1
<1>4. ASSUME NEW q, Timeout(q) PROVE Same
  BY <1>1, <1>3, <1>4 DEF Timeout
<1>5. ASSUME NEW o \in Run,
             \/ StartCheck(o) \/ RetryCheck(o) \/ StartStep(o)
             \/ CancelWaiting(o) \/ SendCancel(o) \/ CancelStep(o)
      PROVE  Same
  <2>1. CASE Timeout(Start(o)) \/ Timeout(Cancel(o))  BY <1>4, <2>1
  <2>2. CASE ~Timeout(Start(o)) /\ ~Timeout(Cancel(o))
    <3>1. UNCHANGED engine
      BY <1>5, <2>2, ZenonT(60) DEF StartCheck, RetryCheck, StartStep, CreateRun, PrepareFails,
         StartEnsure, EnsureStarted, SendStart, Send, StartRefused, StartRefusedSession,
         DropOwnership, CancelWaiting, SendCancel, CancelStep, CancelCommit, sidecar
    <3> QED  BY <1>1, <3>1
  <2> QED  BY <2>1, <2>2
<1>6. ASSUME NEW c \in Card, ResumeCheck(c) \/ ResumeStep(c) PROVE Same
  <2>1. CASE Timeout(Resume(c))  BY <1>4, <2>1
  <2>2. CASE ~Timeout(Resume(c))
    <3>1. UNCHANGED engine
      BY <1>6, <2>2, ZenonT(60) DEF ResumeCheck, ResumeStep, ResumeEnsure, EnsureStarted,
         ResumeClaim, SendResume, Send, ResumeRestore, ResumeRunning, ResumeRunningSession,
         DropOwnership, sidecar
    <3> QED  BY <1>1, <3>1
  <2> QED  BY <2>1, <2>2
<1>7. ASSUME NEW h \in Gen, ReaderStep(h) PROVE Same
  <2>1. UNCHANGED engine
    BY <1>7, ZenonT(60) DEF ReaderStep, ReadReply, ReadUsage, ReadEvent, ReadEventSession,
       AppendCard, Release, ReadEnd, Settle, SettleSession, ReaderStops, sidecar
  <2> QED  BY <1>1, <2>1
<1>8. ASSUME NEW h \in Gen, NEW o \in Run, NEW x, SetEngine(h, o, x)
      PROVE  IF h = g /\ o = r THEN f = x ELSE Same
  <2>1. CASE h = g /\ o = r  BY <1>0, <1>8, <2>1 DEF SetEngine
  <2>2. CASE h # g \/ o # r
    <3>1. f = e  BY <1>0, <1>8, <2>2 DEF SetEngine
    <3> QED  BY <1>1, <2>2, <3>1
  <2> QED  BY <2>1, <2>2
<1>9. ASSUME NEW h \in Gen, Handle(h)
      PROVE  Kept
  <2> DEFINE m == Head(inbox[h])
             o == RunFor(m.req)
             idle == engine[h][o].phase = "off"
  <2>1. m \in Message /\ inbox[h] # <<>>  BY <1>9, Pipes, HandleFrame
  <2>2. m.req \in Request /\ o \in Run  BY <2>1, Requests DEF Message
  <2> DEFINE x1 == [EngineOff EXCEPT !.phase = "accepted"]
             x2 == [EngineOff EXCEPT !.phase = "going", !.state = m.state \ {m.req.id}]
             x3 == [EngineOff EXCEPT !.phase = "unknown"]
             x4 == [engine[h][o] EXCEPT !.abort = ~idle]
  <2>3. \/ SetEngine(h, o, x1) \/ SetEngine(h, o, x2)
        \/ m.req.op = "resume" /\ m.req.id \notin m.state /\ SetEngine(h, o, x3)
        \/ UNCHANGED engine
        \/ SetEngine(h, o, x4)
    BY <1>9, Zenon DEF Handle
  <2>4. /\ x1.unsent = {} /\ x1.phase = "accepted" /\ x2.unsent = {} /\ x2.phase = "going"
        /\ x3.unsent = {}
    BY DEF EngineOff
  <2>5. /\ x4.state = engine[h][o].state /\ x4.unsent = engine[h][o].unsent
        /\ x4.phase = engine[h][o].phase
    <3>1. engine[h][o] \in Engine  BY <1>0, <2>2
    <3> QED  BY <3>1 DEF Engine
  <2>6. m.req.op = "resume" => m.req = Resume(m.req.id) /\ m.req.id \in CardsOf(o)
    BY <2>2, Kinds DEF RunFor, CardsOf
  <2>7. engine[h][r].phase # "pausing"
    <3>1. ~Pausing(h)  BY <1>9, Zenon DEF Handle
    <3> QED  BY <3>1 DEF Pausing
  <2> HIDE DEF x1, x2, x3, x4, m, o
  <2>8. CASE h = g /\ o = r
    <3>1. CASE UNCHANGED engine  BY <1>1, <3>1
    <3>2. CASE SetEngine(h, o, x4)
      <4>1. f = x4  BY <1>8, <2>2, <2>8, <3>2
      <4> QED  BY <2>5, <2>8, <4>1
    <3>3. CASE SetEngine(h, o, x1)
      <4>1. f = x1  BY <1>8, <2>2, <2>8, <3>3
      <4> QED  BY <2>4, <2>7, <2>8, <4>1
    <3>4. CASE SetEngine(h, o, x2)
      <4>1. f = x2  BY <1>8, <2>2, <2>8, <3>4
      <4> QED  BY <2>4, <2>7, <2>8, <4>1
    <3>5. CASE m.req.op = "resume" /\ m.req.id \notin m.state /\ SetEngine(h, o, x3)
      <4>1. f = x3  BY <1>8, <2>2, <2>8, <3>5
      <4>2. Unnamed  BY <1>9, <2>1, <2>6, <2>8, <3>5 DEF m
      <4>3. f.unsent \subseteq f.state  BY <2>4, <4>1
      <4>4. e.phase # "pausing"  BY <2>7, <2>8
      <4> QED  BY <4>2, <4>3, <4>4
    <3> QED  BY <2>3, <3>1, <3>2, <3>3, <3>4, <3>5
  <2>9. CASE h # g \/ o # r
    <3>1. CASE UNCHANGED engine  BY <1>1, <3>1
    <3>2. ASSUME NEW x, SetEngine(h, o, x) PROVE Same
      BY <1>8, <2>2, <2>9, <3>2
    <3> QED  BY <2>3, <3>1, <3>2
  <2> QED  BY <2>8, <2>9
<1>10. ASSUME NEW h \in Gen, EngineStep(h) PROVE Same
  <2>1. PICK o \in Run :
            \/ EngineBegins(h, o) \/ EngineCompletes(h, o) \/ EngineFails(h, o)
            \/ EngineCancelled(h, o) \/ EnginePauses(h, o)
            \/ \E c \in Card : EngineAsks(h, o, c)
    BY <1>10 DEF EngineStep
  <2>2. engine[h][o] \in Engine  BY <1>0
  <2>3. PICK x : /\ SetEngine(h, o, x)
                 /\ h = g /\ o = r =>
                       /\ x.unsent \subseteq x.state /\ x.phase # "unknown"
                       /\ e.phase = "pausing" => x.phase \in {"pausing", "off"}
    <3>1. CASE EnginePauses(h, o)
      <4>1. PICK new : SetEngine(h, o, [phase |-> "pausing", abort |-> FALSE,
                                        state |-> engine[h][o].state \cup new,
                                        unsent |-> engine[h][o].state \cup new])
        BY <3>1 DEF EnginePauses
      <4> QED  BY <4>1
    <3>2. CASE EngineBegins(h, o)
      <4> DEFINE x == [engine[h][o] EXCEPT !.phase = "going"]
      <4>1. SetEngine(h, o, x) /\ engine[h][o].phase = "accepted"
        BY <3>2 DEF EngineBegins, EngineRuns
      <4>2. x.unsent = engine[h][o].unsent /\ x.state = engine[h][o].state /\ x.phase = "going"
        BY <2>2 DEF Engine
      <4> HIDE DEF x
      <4> QED  BY <4>1, <4>2
    <3>3. CASE EngineCompletes(h, o) \/ EngineFails(h, o) \/ EngineCancelled(h, o)
      <4>1. SetEngine(h, o, EngineOff)
        BY <3>3 DEF EngineCompletes, EngineFails, EngineCancelled, EngineEnds
      <4> QED  BY <1>0, <4>1
    <3>4. ASSUME NEW c \in Card, EngineAsks(h, o, c)
          PROVE  \E x : /\ SetEngine(h, o, x)
                        /\ h = g /\ o = r =>
                              /\ x.unsent \subseteq x.state /\ x.phase # "unknown"
                              /\ e.phase = "pausing" => x.phase \in {"pausing", "off"}
      <4> DEFINE x == [engine[h][o] EXCEPT !.unsent = @ \ {c}]
      <4>1. /\ SetEngine(h, o, EngineOff) \/ SetEngine(h, o, x)
            /\ engine[h][o].phase = "pausing"
        BY <3>4, Zenon DEF EngineAsks
      <4>2. /\ x.unsent \subseteq engine[h][o].unsent /\ x.state = engine[h][o].state
            /\ x.phase = engine[h][o].phase
        BY <2>2 DEF Engine
      <4> HIDE DEF x
      <4> QED  BY <1>0, <4>1, <4>2
    <3> QED  BY <2>1, <3>1, <3>2, <3>3, <3>4
  <2> QED  BY <1>8, <2>3
<1>11. ASSUME NEW h \in Gen, Crash(h) PROVE Same  BY <1>3, <1>11 DEF Crash
<1>12. ASSUME Restart PROVE Same
  <2>1. f = EngineOff  BY <1>12 DEF Restart
  <2> QED  BY <1>2, <2>1
<1>13. ASSUME Reconcile PROVE Same  BY <1>1, <1>13 DEF Reconcile, sidecar
<1>14. Same => Kept  OBVIOUS
<1>15. Kept
  <2> HIDE DEF Same, Kept
  <2> QED  BY <1>5, <1>6, <1>7, <1>9, <1>10, <1>11, <1>12, <1>13, <1>14 DEF Next
<1> QED  BY <1>15

\* A run that no engine has stopped on several cards is stopped on one at most.
LEMMA Pauses ==
    ASSUME TypeInv, Next, NEW g \in Gen, NEW r \in Run, r \notin bundled',
           engine[g][r].phase = "pausing" => ~Several(engine[g][r].state)
    PROVE  engine'[g][r].phase = "pausing" => ~Several(engine'[g][r].state)
<1> DEFINE Single(x) == x.phase = "pausing" => ~Several(x.state)
           e == engine[g][r]
           f == engine'[g][r]
           Good == Single(f)
<1>0. /\ engine \in [Gen -> [Run -> Engine]] /\ Single(e) /\ EngineOff.phase = "off"
  BY DEF TypeInv, TypeOK, SidecarTypeOK, EngineOff
<1>1. CASE f = e  BY <1>0, <1>1
<1>2. CASE f.phase # "pausing"  BY <1>2
<1>3. ASSUME NEW h, Kill(h) PROVE Good
  <2>1. f = e \/ f = EngineOff  BY <1>0, <1>3 DEF Kill
  <2> QED  BY <1>0, <1>1, <1>2, <2>1
<1>4. ASSUME NEW q, Timeout(q) PROVE Good
  BY <1>1, <1>3, <1>4 DEF Timeout
<1>5. ASSUME NEW o \in Run,
             \/ StartCheck(o) \/ RetryCheck(o) \/ StartStep(o)
             \/ CancelWaiting(o) \/ SendCancel(o) \/ CancelStep(o)
      PROVE  Good
  <2>1. CASE Timeout(Start(o)) \/ Timeout(Cancel(o))  BY <1>4, <2>1
  <2>2. CASE ~Timeout(Start(o)) /\ ~Timeout(Cancel(o))
    <3>1. UNCHANGED engine
      BY <1>5, <2>2, ZenonT(60) DEF StartCheck, RetryCheck, StartStep, CreateRun, PrepareFails,
         StartEnsure, EnsureStarted, SendStart, Send, StartRefused, StartRefusedSession,
         DropOwnership, CancelWaiting, SendCancel, CancelStep, CancelCommit, sidecar
    <3> QED  BY <1>1, <3>1
  <2> QED  BY <2>1, <2>2
<1>6. ASSUME NEW c \in Card, ResumeCheck(c) \/ ResumeStep(c) PROVE Good
  <2>1. CASE Timeout(Resume(c))  BY <1>4, <2>1
  <2>2. CASE ~Timeout(Resume(c))
    <3>1. UNCHANGED engine
      BY <1>6, <2>2, ZenonT(60) DEF ResumeCheck, ResumeStep, ResumeEnsure, EnsureStarted,
         ResumeClaim, SendResume, Send, ResumeRestore, ResumeRunning, ResumeRunningSession,
         DropOwnership, sidecar
    <3> QED  BY <1>1, <3>1
  <2> QED  BY <2>1, <2>2
<1>7. ASSUME NEW h \in Gen, ReaderStep(h) PROVE Good
  <2>1. UNCHANGED engine
    BY <1>7, ZenonT(60) DEF ReaderStep, ReadReply, ReadUsage, ReadEvent, ReadEventSession,
       AppendCard, Release, ReadEnd, Settle, SettleSession, ReaderStops, sidecar
  <2> QED  BY <1>1, <2>1
<1>8. ASSUME NEW h \in Gen, NEW o \in Run, NEW x, SetEngine(h, o, x),
             h = g /\ o = r => Single(x)
      PROVE  Good
  <2>1. CASE h = g /\ o = r  BY <1>0, <1>8, <2>1 DEF SetEngine
  <2>2. CASE h # g \/ o # r
    <3>1. f = e  BY <1>0, <1>8, <2>2 DEF SetEngine
    <3> QED  BY <1>1, <3>1
  <2> QED  BY <2>1, <2>2
<1>9. ASSUME NEW h \in Gen, Handle(h) PROVE Good
  <2> DEFINE m == Head(inbox[h])
             o == RunFor(m.req)
             idle == engine[h][o].phase = "off"
             x1 == [EngineOff EXCEPT !.phase = "accepted"]
             x2 == [EngineOff EXCEPT !.phase = "going", !.state = m.state \ {m.req.id}]
             x3 == [EngineOff EXCEPT !.phase = "unknown"]
             x4 == [engine[h][o] EXCEPT !.abort = ~idle]
  <2>1. o \in Run  BY <1>9, Pipes, HandleFrame, Requests DEF Message
  <2>2. \/ SetEngine(h, o, x1) \/ SetEngine(h, o, x2) \/ SetEngine(h, o, x3)
        \/ UNCHANGED engine \/ SetEngine(h, o, x4)
    BY <1>9, Zenon DEF Handle
  <2>3. /\ x1.phase = "accepted" /\ x2.phase = "going" /\ x3.phase = "unknown"
    BY DEF EngineOff
  <2>4. x4.phase # "pausing"
    <3>1. engine[h][o] \in Engine  BY <1>0, <2>1
    <3>2. x4.phase = engine[h][o].phase  BY <3>1 DEF Engine
    <3>3. ~Pausing(h)  BY <1>9, Zenon DEF Handle
    <3> QED  BY <2>1, <3>2, <3>3 DEF Pausing
  <2> HIDE DEF x1, x2, x3, x4, m, o
  <2>5. Single(x1) /\ Single(x2) /\ Single(x3) /\ Single(x4)  BY <2>3, <2>4
  <2>6. CASE UNCHANGED engine  BY <1>1, <2>6
  <2>7. ASSUME NEW x, SetEngine(h, o, x), Single(x) PROVE Good  BY <1>8, <2>1, <2>7
  <2> QED  BY <2>2, <2>5, <2>6, <2>7
<1>10. ASSUME NEW h \in Gen, EngineStep(h) PROVE Good
  <2>1. PICK o \in Run :
            \/ EngineBegins(h, o) \/ EngineCompletes(h, o) \/ EngineFails(h, o)
            \/ EngineCancelled(h, o) \/ EnginePauses(h, o)
            \/ \E c \in Card : EngineAsks(h, o, c)
    BY <1>10 DEF EngineStep
  <2>2. engine[h][o] \in Engine  BY <1>0
  <2>3. CASE EnginePauses(h, o)
    <3>1. PICK open :
              /\ bundled' = IF Several(open) THEN bundled \cup {o} ELSE bundled
              /\ SetEngine(h, o, [phase |-> "pausing", abort |-> FALSE,
                                  state |-> open, unsent |-> open])
      BY <2>3, Zenon DEF EnginePauses
    <3>2. o = r => ~Several(open)  BY <3>1
    <3> QED  BY <1>8, <3>1, <3>2
  <2>4. CASE EngineBegins(h, o)
    <3> DEFINE x == [engine[h][o] EXCEPT !.phase = "going"]
    <3>1. SetEngine(h, o, x)  BY <2>4 DEF EngineBegins
    <3>2. x.phase # "pausing"  BY <2>2 DEF Engine
    <3> HIDE DEF x
    <3> QED  BY <1>8, <3>1, <3>2
  <2>5. CASE EngineCompletes(h, o) \/ EngineFails(h, o) \/ EngineCancelled(h, o)
    <3>1. SetEngine(h, o, EngineOff)
      BY <2>5 DEF EngineCompletes, EngineFails, EngineCancelled, EngineEnds
    <3> QED  BY <1>0, <1>8, <3>1
  <2>6. ASSUME NEW c \in Card, EngineAsks(h, o, c) PROVE Good
    <3> DEFINE x == [engine[h][o] EXCEPT !.unsent = @ \ {c}]
    <3>1. /\ SetEngine(h, o, EngineOff) \/ SetEngine(h, o, x)
          /\ engine[h][o].phase = "pausing"
      BY <2>6, Zenon DEF EngineAsks
    <3>2. x.state = engine[h][o].state  BY <2>2 DEF Engine
    <3>3. h = g /\ o = r => Single(x)  BY <1>0, <3>1, <3>2
    <3> HIDE DEF x
    <3> QED  BY <1>0, <1>8, <3>1, <3>3
  <2> QED  BY <2>1, <2>3, <2>4, <2>5, <2>6
<1>11. ASSUME NEW h \in Gen, Crash(h) PROVE Good  BY <1>3, <1>11 DEF Crash
<1>12. ASSUME Restart PROVE Good
  <2>1. f = EngineOff  BY <1>12 DEF Restart
  <2> QED  BY <1>0, <1>2, <2>1
<1>13. ASSUME Reconcile PROVE Good  BY <1>1, <1>13 DEF Reconcile, sidecar
<1>14. Good
  <2> HIDE DEF Good
  <2> QED  BY <1>5, <1>6, <1>7, <1>9, <1>10, <1>11, <1>12, <1>13 DEF Next
<1> QED  BY <1>14

\* A run an engine has stopped on several cards stays known as one.
LEMMA BundledStays ==
    ASSUME TypeInv, Next
    PROVE  bundled \subseteq bundled'
<1>1. ASSUME NEW o \in Run,
             \/ StartCheck(o) \/ RetryCheck(o) \/ StartStep(o)
             \/ CancelWaiting(o) \/ SendCancel(o) \/ CancelStep(o)
      PROVE  UNCHANGED bundled
  BY <1>1, ZenonT(60) DEF StartCheck, RetryCheck, StartStep, CreateRun, PrepareFails,
     StartEnsure, EnsureStarted, SendStart, Send, StartRefused, StartRefusedSession,
     DropOwnership, Timeout, CancelWaiting, SendCancel, CancelStep, CancelCommit, sidecar
<1>2. ASSUME NEW c \in Card, ResumeCheck(c) \/ ResumeStep(c) PROVE UNCHANGED bundled
  BY <1>2, ZenonT(60) DEF ResumeCheck, ResumeStep, ResumeEnsure, EnsureStarted, ResumeClaim,
     SendResume, Send, ResumeRestore, ResumeRunning, ResumeRunningSession, DropOwnership,
     Timeout, sidecar
<1>3. ASSUME NEW h \in Gen, ReaderStep(h) PROVE UNCHANGED bundled
  BY <1>3, ZenonT(60) DEF ReaderStep, ReadReply, ReadUsage, ReadEvent, ReadEventSession,
     AppendCard, Release, NextFrame, AfterStatus, Step, ReadEnd, Settle, SettleSession,
     ReaderStops, sidecar
<1>4. ASSUME NEW h \in Gen, Handle(h) \/ Crash(h) PROVE UNCHANGED bundled
  <2>1. CASE Handle(h)  BY <2>1, Zenon DEF Handle
  <2>2. CASE Crash(h)  BY <2>2 DEF Crash
  <2> QED  BY <1>4, <2>1, <2>2
<1>5. ASSUME NEW h \in Gen, EngineStep(h) PROVE bundled \subseteq bundled'
  <2>1. ASSUME NEW o \in Run, EnginePauses(h, o) PROVE bundled \subseteq bundled'
    <3>1. bundled' = bundled \/ bundled' = bundled \cup {o}
      BY <2>1, Zenon DEF EnginePauses
    <3> QED  BY <3>1
  <2>2. CASE ~ \E o \in Run : EnginePauses(h, o)
    <3>1. UNCHANGED bundled
      BY <1>5, <2>2, Zenon DEF EngineStep, EngineBegins, EngineCompletes, EngineFails,
         EngineCancelled, EngineEnds, EngineAsks
    <3> QED  BY <3>1
  <2> QED  BY <2>1, <2>2
<1>6. CASE Restart  BY <1>6 DEF Restart
<1>7. CASE Reconcile  BY <1>7 DEF Reconcile, sidecar
<1> QED  BY <1>1, <1>2, <1>3, <1>4, <1>5, <1>6, <1>7 DEF Next

-----------------------------------------------------------------------------
(* The turn of a run is handed on *)

\* The turn q of y follows the turn p of x.
Leads(p, x, q, y) ==
    \/ p = "start" /\ q = "mail" /\ y = inner
    \/ p = "mail" /\ q = "work" /\ y = x
    \/ p = "work" /\ q = "ask" /\ y = x
    \/ p = "ask" /\ q = "card" /\ y = FrameAt(x).card
    \/ p = "card" /\ q = "claim" /\ y = x
    \/ p = "claim" /\ task[Resume(x)] = "claimed" /\ q = "mail" /\ y = inner
    \/ p = "claim" /\ task[Resume(x)] = "refused" /\ q = "card" /\ y = x

\* One turn follows another, and every turn has a place and a holder.
LEMMA LeadsOnce ==
    /\ \A p, x, q1, y1, q2, y2 : Leads(p, x, q1, y1) /\ Leads(p, x, q2, y2) => q1 = q2 /\ y1 = y2
    /\ \A r \in Run : \A p, x : Turn(r, p, x) => p \in Place /\ x \in Holder
<1>1. \A p, x, q1, y1, q2, y2 : Leads(p, x, q1, y1) /\ Leads(p, x, q2, y2) => q1 = q2 /\ y1 = y2
  BY DEF Leads
<1>2. \A r \in Run : \A p, x : Turn(r, p, x) => p \in Place /\ x \in Holder
  BY DEF Turn, Place, Holder, CardsOf
<1> QED  BY <1>1, <1>2

\* An engine that leaves one card open is off once it has asked for it.
LEMMA AsksOnce ==
    ASSUME TypeInv, Based, NEW g \in Gen, NEW r \in Run, NEW c \in Card,
           EngineInv(g, r), EngineAsks(g, r, c)
    PROVE  engine'[g][r].phase = "off" /\ WorkTurn(r, g)
<1>1. engine \in [Gen -> [Run -> Engine]]  BY DEF TypeInv, TypeOK, SidecarTypeOK
<1>2. c \in engine[g][r].unsent /\ engine[g][r].phase = "pausing"  BY DEF EngineAsks
<1>3. engine[g][r].unsent = {c}  BY <1>2 DEF Based, EngineInv, Several
<1>4. SetEngine(g, r, EngineOff)  BY <1>3 DEF EngineAsks
<1>5. engine'[g][r] = EngineOff  BY <1>1, <1>4 DEF SetEngine
<1> QED  BY <1>2, <1>5 DEF EngineOff, WorkTurn

\* The request whose card is offered was the last event of its run.
LEMMA AppendTurns ==
    ASSUME TypeInv, ReaderKnowsKind, NEW r \in Run, NEW g \in Gen, AskIsLast(r),
           AppendCard(g), HasFrame(g), FrameAt(g) \in Requested(r)
    PROVE  AskTurn(r, g) /\ ~Has(Unread(g)', EventsOf(r)) /\ ~Has(Unread(g)', Requested(r))
<1>1. Unread(g) = outbox[g] /\ Unread(g)' = Tail(outbox[g])
  <2>1. ReaderStep(g)  BY DEF ReaderStep
  <2> QED  BY <2>1, UnreadShrinks
<1>2. outbox[g] \in Seq(Frame) /\ outbox[g] # <<>> /\ Head(outbox[g]) \in Requested(r)
  BY Pipes DEF HasFrame, FrameAt
<1>3. EndsIn(outbox[g], Requested(r), EventsOf(r))  BY <1>1 DEF AskIsLast
<1>4. ~Has(Tail(outbox[g]), EventsOf(r))  BY <1>2, <1>3, EndsTail
<1>5. Has(outbox[g], Requested(r))  BY <1>2, HasHead
<1>6. Requested(r) \subseteq EventsOf(r)  BY DEF Requested
<1> QED  BY <1>1, <1>4, <1>5, <1>6, HasFewer DEF AskTurn

\* A turn that is new follows one that is over.
LEMMA TurnNext ==
    ASSUME TypeInv, KnownInv, Based, Next, NEW r \in Run, TurnsOf(r),
           NEW q, NEW y, Turn(r, q, y)', ~Turn(r, q, y)
    PROVE  \E p, x : Turn(r, p, x) /\ ~Turn(r, p, x)' /\ Leads(p, x, q, y)
<1>0. /\ TurnInv(r) /\ \A g \in Gen : EngineInv(g, r)
      /\ \A c \in CardsOf(r) : CardInv(c) /\ c \in Card /\ RunOf[c] = r
      /\ ReaderKnowsKind
  BY DEF TurnsOf, CardsOf, KnownInv
<1>1. CASE q = "start"
  <2>1. y = r /\ task'[Start(r)] \in NotSent  BY <1>1, TurnNow
  <2>2. task[Start(r)] \in NotSent  BY <1>0, <2>1, StartTurns DEF TurnInv
  <2> QED  BY <1>1, <2>1, <2>2 DEF Turn, StartTurn
<1>2. CASE q = "mail"
  <2>1. y \in Gen /\ Has(inbox'[y], MailOf(r))  BY <1>2, TurnNow
  <2>2. ~Has(inbox[y], MailOf(r))  BY <1>2, <2>1 DEF Turn, MailTurn
  <2>3. ~Shrinks(inbox[y], inbox'[y], MailOf(r))  BY <2>1, <2>2 DEF Shrinks
  <2>4. /\ y = inner
        /\ \/ task[Start(r)] = "ensured" /\ task'[Start(r)] = "sent"
           \/ \E c \in CardsOf(r) : task[Resume(c)] = "claimed" /\ task'[Resume(c)] = "sent"
    BY <2>1, <2>3, MailTurns
  <2>5. CASE task[Start(r)] = "ensured" /\ task'[Start(r)] = "sent"
    <3>1. Turn(r, "start", r)  BY <2>5 DEF Turn, StartTurn, NotSent
    <3>2. ~Turn(r, "start", r)'  BY <2>5, TurnNow DEF NotSent
    <3>3. Leads("start", r, q, y)  BY <1>2, <2>4 DEF Leads
    <3> QED  BY <3>1, <3>2, <3>3
  <2>6. ASSUME NEW c \in CardsOf(r), task[Resume(c)] = "claimed", task'[Resume(c)] = "sent"
        PROVE  \E p, x : Turn(r, p, x) /\ ~Turn(r, p, x)' /\ Leads(p, x, q, y)
    <3>1. Turn(r, "claim", c)  BY <2>6 DEF Turn, ClaimTurn
    <3>2. ~Turn(r, "claim", c)'  BY <2>6, TurnNow
    <3>3. Leads("claim", c, q, y)  BY <1>2, <2>4, <2>6 DEF Leads
    <3> QED  BY <3>1, <3>2, <3>3
  <2> QED  BY <2>4, <2>5, <2>6
<1>3. CASE q = "work"
  <2>1. y \in Gen /\ engine'[y][r].phase # "off"  BY <1>3, TurnNow
  <2>2. engine[y][r].phase = "off"  BY <1>3, <2>1 DEF Turn, WorkTurn
  <2>3. AtMostOne(inbox[y], MailOf(r))  BY <1>0, <2>1 DEF TurnInv, OneMail
  <2>4. MailTurn(r, y) /\ ~Has(inbox'[y], MailOf(r))  BY <2>1, <2>2, <2>3, WorkTurns
  <2>5. Turn(r, "mail", y) /\ ~Turn(r, "mail", y)'  BY <2>1, <2>4, TurnNow DEF Turn
  <2>6. Leads("mail", y, q, y)  BY <1>3 DEF Leads
  <2> QED  BY <2>5, <2>6
<1>4. CASE q = "ask"
  <2>1. y \in Gen /\ Has(Unread(y)', Requested(r))  BY <1>4, TurnNow
  <2>2. ~Has(Unread(y), Requested(r))  BY <1>4, <2>1 DEF Turn, AskTurn
  <2>3. \A o \in Run : engine[y][o].unsent \subseteq engine[y][o].state
    BY <2>1 DEF Based
  <2>4. \E c \in Card : EngineAsks(y, r, c)
    BY <1>0, <2>1, <2>2, <2>3, AskTurns DEF TurnInv
  <2>5. engine'[y][r].phase = "off" /\ WorkTurn(r, y)  BY <1>0, <2>1, <2>4, AsksOnce
  <2>6. Turn(r, "work", y)  BY <2>1, <2>5 DEF Turn
  <2>7. ~Turn(r, "work", y)'  BY <2>5, TurnNow
  <2>8. Leads("work", y, q, y)  BY <1>4 DEF Leads
  <2> QED  BY <2>6, <2>7, <2>8
<1>5. CASE q = "card"
  <2>1. y \in CardsOf(r) /\ card'[y] = "pending"  BY <1>5, TurnNow
  <2>2. card[y] # "pending"  BY <1>5, <2>1 DEF Turn, CardTurn
  <2>3. \/ \E g \in Gen : /\ AppendCard(g) /\ HasFrame(g)
                          /\ FrameAt(g) \in Requested(r) /\ FrameAt(g).card = y
        \/ task[Resume(y)] = "refused" /\ task'[Resume(y)] = "idle"
    BY <1>0, <2>1, <2>2, CardTurns
  <2>4. ASSUME NEW g \in Gen, AppendCard(g), HasFrame(g),
               FrameAt(g) \in Requested(r), FrameAt(g).card = y
        PROVE  \E p, x : Turn(r, p, x) /\ ~Turn(r, p, x)' /\ Leads(p, x, q, y)
    <3>1. AskTurn(r, g) /\ ~Has(Unread(g)', Requested(r))
      BY <1>0, <2>4, AppendTurns DEF TurnInv
    <3>2. Turn(r, "ask", g)  BY <3>1 DEF Turn
    <3>3. ~Turn(r, "ask", g)'  BY <3>1, TurnNow
    <3>4. Leads("ask", g, q, y)  BY <1>5, <2>4 DEF Leads
    <3> QED  BY <3>2, <3>3, <3>4
  <2>5. CASE task[Resume(y)] = "refused" /\ task'[Resume(y)] = "idle"
    <3>1. Turn(r, "claim", y) /\ ~Turn(r, "claim", y)'
      BY <2>1, <2>5, TurnNow DEF Turn, ClaimTurn
    <3>2. Leads("claim", y, q, y)  BY <1>5, <2>5 DEF Leads
    <3> QED  BY <3>1, <3>2
  <2> QED  BY <2>3, <2>4, <2>5
<1>6. CASE q = "claim"
  <2>1. y \in CardsOf(r) /\ task'[Resume(y)] \in {"claimed", "refused"}  BY <1>6, TurnNow
  <2>2. task[Resume(y)] \notin {"claimed", "refused"}  BY <1>6, <2>1 DEF Turn, ClaimTurn
  <2>3. task[Resume(y)] # "rejected"  BY <1>0, <2>1 DEF CardInv, AnsweringCommand
  <2>4. card[y] = "pending" /\ card'[y] = "resolved"
    BY <1>0, <2>1, <2>2, <2>3, AnswerSteps DEF Answered
  <2>5. Turn(r, "card", y) /\ ~Turn(r, "card", y)'
    BY <2>1, <2>4, TurnNow DEF Turn, CardTurn
  <2>6. Leads("card", y, q, y)  BY <1>6 DEF Leads
  <2> QED  BY <2>5, <2>6
<1> QED  BY <1>1, <1>2, <1>3, <1>4, <1>5, <1>6, TurnNow

\* So a run keeps one turn.
LEMMA OneTurnNext ==
    ASSUME TypeInv, KnownInv, Based, Next, NEW r \in Run, TurnsOf(r)
    PROVE  OneTurn(r)'
<1>1. OneTurn(r)  BY DEF TurnsOf, TurnInv
<1> SUFFICES ASSUME NEW p \in Place, NEW q \in Place, NEW x \in Holder, NEW y \in Holder,
                    Turn(r, p, x)', Turn(r, q, y)'
             PROVE  p = q /\ x = y
  BY DEF OneTurn, Place, Holder
<1>2. ASSUME NEW a, NEW b, NEW c, NEW d, Turn(r, a, b), Turn(r, c, d)
      PROVE  a = c /\ b = d
  BY <1>1, <1>2, LeadsOnce DEF OneTurn
<1>3. CASE Turn(r, p, x) /\ Turn(r, q, y)  BY <1>2, <1>3
<1>4. CASE Turn(r, p, x) /\ ~Turn(r, q, y)
  <2>1. PICK a, b : Turn(r, a, b) /\ ~Turn(r, a, b)'  BY <1>4, TurnNext
  <2>2. a = p /\ b = x  BY <1>2, <1>4, <2>1
  <2> QED  BY <2>1, <2>2
<1>5. CASE ~Turn(r, p, x) /\ Turn(r, q, y)
  <2>1. PICK a, b : Turn(r, a, b) /\ ~Turn(r, a, b)'  BY <1>5, TurnNext
  <2>2. a = q /\ b = y  BY <1>2, <1>5, <2>1
  <2> QED  BY <2>1, <2>2
<1>6. CASE ~Turn(r, p, x) /\ ~Turn(r, q, y)
  <2>1. PICK a, b : Turn(r, a, b) /\ Leads(a, b, p, x)  BY <1>6, TurnNext
  <2>2. PICK c, d : Turn(r, c, d) /\ Leads(c, d, q, y)  BY <1>6, TurnNext
  <2>3. a = c /\ b = d  BY <1>2, <2>1, <2>2
  <2> QED  BY <2>1, <2>2, <2>3, LeadsOnce
<1> QED  BY <1>3, <1>4, <1>5, <1>6

\* A start without a row stays before its insert.
LEMMA NewStays ==
    ASSUME TypeInv, Next, NEW r \in Run, task[Start(r)] \in {"idle", "checked"},
           runStatus[r] = "none", runStatus'[r] = "none"
    PROVE  task'[Start(r)] \in {"idle", "checked"}
<1> DEFINE q == Start(r)
           Kept == task'[q] \in {"idle", "checked"}
<1>0. /\ q \in Request /\ q.op = "start" /\ q.id = r /\ task \in [Request -> CommandStep]
      /\ runStatus \in [Run -> RunStatus]
  BY Requests DEF Start, TypeInv, TypeOK, TasksTypeOK, DbTypeOK
<1>1. CASE UNCHANGED task  BY <1>1
<1>2. ASSUME NEW p, p # q, NEW step, Move(p, step) PROVE Kept
  BY <1>0, <1>2 DEF Move
<1>3. ASSUME NEW o \in Run,
             \/ StartCheck(o) \/ RetryCheck(o) \/ StartStep(o)
             \/ CancelWaiting(o) \/ SendCancel(o) \/ CancelStep(o)
      PROVE  Kept
  <2>1. CASE o = r /\ (StartCheck(o) \/ RetryCheck(o))
    BY <1>0, <2>1 DEF StartCheck, RetryCheck, Move
  <2>2. CASE o = r /\ StartStep(o)
    <3>1. ~CreateRun(r)
      <4>1. CreateRun(r) => runStatus'[r] = "running"  BY <1>0 DEF CreateRun, WriteRun
      <4> QED  BY <4>1
    <3>2. task[q] \in {"created", "ensured", "refused", "session", "rejected", "sent"}
      BY <2>2, <3>1 DEF StartStep, PrepareFails, StartEnsure, EnsureStarted, SendStart,
         StartRefused, StartRefusedSession, DropOwnership, Timeout, Overdue
    <3> QED  BY <3>2
  <2>3. CASE \/ o # r /\ (StartCheck(o) \/ RetryCheck(o) \/ StartStep(o))
             \/ CancelWaiting(o) \/ SendCancel(o) \/ CancelStep(o)
    <3>1. \E p \in {Start(o), Cancel(o)} : \E step : p # q /\ Move(p, step)
      <4>1. Cancel(o) # q /\ (o # r => Start(o) # q)  BY RequestsApart
      <4> QED
        BY <2>3, <4>1 DEF StartCheck, RetryCheck, StartStep, CreateRun, PrepareFails,
           StartEnsure, EnsureStarted, SendStart, Send, StartRefused, StartRefusedSession,
           DropOwnership, Timeout, CancelWaiting, SendCancel, CancelStep, CancelCommit
    <3> QED  BY <1>2, <3>1
  <2> QED  BY <1>3, <2>1, <2>2, <2>3
<1>4. ASSUME NEW c \in Card, ResumeCheck(c) \/ ResumeStep(c) PROVE Kept
  <2>1. \E step : Move(Resume(c), step)
    BY <1>4 DEF ResumeCheck, ResumeStep, ResumeEnsure, EnsureStarted, ResumeClaim,
       SendResume, Send, ResumeRestore, ResumeRunning, ResumeRunningSession,
       DropOwnership, Timeout
  <2>2. Resume(c) # q  BY RequestsApart
  <2> QED  BY <1>2, <2>1, <2>2
<1>5. ASSUME NEW g \in Gen, ReaderStep(g) PROVE Kept
  <2>1. CASE ReadReply(g)
    <3>1. UNCHANGED task \/ (task[FrameAt(g).req] = "sent" /\ \E step : Move(FrameAt(g).req, step))
      BY <2>1, Zenon DEF ReadReply
    <3> QED  BY <1>1, <1>2, <3>1
  <2>2. CASE ReadEnd(g)  BY <1>0, <2>2 DEF ReadEnd
  <2>3. CASE ~ReadReply(g) /\ ~ReadEnd(g)
    <3>1. UNCHANGED task
      BY <1>5, <2>3, ZenonT(60) DEF ReaderStep, ReadUsage, ReadEvent, ReadEventSession, AppendCard,
         Release, Settle, SettleSession, ReaderStops, tasks
    <3> QED  BY <1>1, <3>1
  <2> QED  BY <2>1, <2>2, <2>3
<1>6. ASSUME NEW g \in Gen, Handle(g) \/ EngineStep(g) \/ Crash(g) PROVE Kept
  <2>1. UNCHANGED task
    <3>1. CASE Handle(g)  BY <3>1, HandleFrame DEF tasks
    <3>2. CASE EngineStep(g)
      BY <3>2, Zenon DEF EngineStep, EngineBegins, EngineCompletes, EngineFails,
         EngineCancelled, EngineEnds, EnginePauses, EngineAsks, tasks
    <3>3. CASE Crash(g)  BY <3>3 DEF Crash, tasks
    <3> QED  BY <1>6, <3>1, <3>2, <3>3
  <2> QED  BY <1>1, <2>1
<1>7. CASE Restart  BY <1>0, <1>7 DEF Restart
<1>8. CASE Reconcile  BY <1>1, <1>8 DEF Reconcile, tasks
<1> QED  BY <1>3, <1>4, <1>5, <1>6, <1>7, <1>8 DEF Next

\* A card once offered stays in the table, a decision once applied stays so, and a
\* card is answered by its claim alone.
LEMMA CardSteps ==
    ASSUME TypeInv, Next, NEW c \in Card
    PROVE  /\ card[c] # "none" => card'[c] # "none"
           /\ applied[c] # 0 => applied'[c] # 0
           /\ card'[c] = "resolved" /\ card[c] # "resolved" =>
                 /\ task'[Resume(c)] = "claimed" /\ runStatus'[RunOf[c]] = "queued"
<1> DEFINE Goal == /\ card[c] # "none" => card'[c] # "none"
                   /\ applied[c] # 0 => applied'[c] # 0
                   /\ card'[c] = "resolved" /\ card[c] # "resolved" =>
                         /\ task'[Resume(c)] = "claimed" /\ runStatus'[RunOf[c]] = "queued"
<1>0. /\ card \in [Card -> CardStatus] /\ applied \in [Card -> Nat] /\ Resume(c) \in Request
      /\ task \in [Request -> CommandStep] /\ runStatus \in [Run -> RunStatus]
      /\ RunOf[c] \in Run
  BY Requests, ConstAssumption DEF TypeInv, TypeOK, DbTypeOK, SidecarTypeOK, TasksTypeOK
<1>1. CASE UNCHANGED <<card, applied>>  BY <1>1
<1>2. ASSUME NEW d \in Card, ResumeClaim(d) PROVE Goal
  <2>1. UNCHANGED applied  BY <1>2 DEF ResumeClaim, sidecar
  <2>2. CASE d = c
    BY <1>0, <1>2, <2>1, <2>2 DEF ResumeClaim, Move, WriteRun, ClaimedStatus
  <2>3. CASE d # c
    <3>1. card'[c] = card[c]  BY <1>0, <1>2, <2>3 DEF ResumeClaim
    <3> QED  BY <2>1, <3>1
  <2> QED  BY <2>2, <2>3
<1>3. ASSUME NEW d \in Card, ResumeRestore(d) PROVE Goal
  <2>1. UNCHANGED applied  BY <1>3 DEF ResumeRestore, sidecar
  <2>2. card'[c] = card[c] \/ card'[c] = "pending"  BY <1>0, <1>3 DEF ResumeRestore, Reopen
  <2> QED  BY <2>1, <2>2
<1>4. ASSUME NEW o \in Run, CancelCommit(o) PROVE Goal
  <2>1. UNCHANGED applied  BY <1>4 DEF CancelCommit, sidecar
  <2>2. card'[c] = card[c] \/ card'[c] = "expired"  BY <1>0, <1>4 DEF CancelCommit
  <2> QED  BY <2>1, <2>2
<1>5. ASSUME NEW g \in Gen, AppendCard(g) PROVE Goal
  <2>1. UNCHANGED applied  BY <1>5 DEF AppendCard, sidecar
  <2>2. card'[c] = card[c] \/ card'[c] = "pending"  BY <1>0, <1>5 DEF AppendCard
  <2> QED  BY <2>1, <2>2
<1>6. ASSUME NEW g \in Gen, Handle(g) PROVE Goal
  <2>1. UNCHANGED card  BY <1>6, HandleFrame DEF db
  <2>2. UNCHANGED applied \/ \E d : applied' = [applied EXCEPT ![d] = @ + 1]
    BY <1>6, Zenon DEF Handle
  <2>3. applied'[c] = applied[c] \/ applied'[c] = applied[c] + 1  BY <1>0, <2>2
  <2>4. applied[c] \in Nat  BY <1>0
  <2> QED  BY <2>1, <2>3, <2>4
<1> QED  BY <1>1, <1>2, <1>3, <1>4, <1>5, <1>6, LedgerSteps

\* An engine that is off acts on the decision of a message that names an open card.
LEMMA Applies ==
    ASSUME TypeInv, NEW g \in Gen, NEW c \in Card, Handle(g),
           Head(inbox[g]).req = Resume(c), c \in Head(inbox[g]).state,
           engine[g][RunOf[c]].phase = "off"
    PROVE  applied'[c] # 0
<1>1. /\ applied \in [Card -> Nat] /\ Resume(c).op = "resume" /\ Resume(c).id = c
      /\ RunFor(Resume(c)) = RunOf[c]
  BY DEF TypeInv, TypeOK, SidecarTypeOK, Resume, RunFor
<1>2. applied' = [applied EXCEPT ![c] = @ + 1]  BY <1>1, ZenonT(60) DEF Handle
<1>3. applied[c] \in Nat /\ applied'[c] = applied[c] + 1  BY <1>1, <1>2
<1> QED  BY <1>3

\* A run that has ended stays so.
LEMMA TerminalStays ==
    ASSUME TypeInv, CheckedIsNew, Next, NEW r \in Run, runStatus[r] \in Terminal
    PROVE  runStatus'[r] \in Terminal
<1>1. Careful(r)  BY CarefulNext
<1> QED  BY <1>1, RunStatuses DEF Careful

\* A request that is read, or whose card is about to be offered, is the turn of its
\* run, and nothing else the run has said is under way any more.
LEMMA HeadLast ==
    ASSUME TypeInv, NEW r \in Run, NEW g \in Gen, AskIsLast(r), HasFrame(g),
           FrameAt(g) \in Requested(r), reader[g].step # "release"
    PROVE  Turn(r, "ask", g) /\ ~Has(outbox[g], Reported(r))
<1>1. /\ outbox[g] \in Seq(Frame) /\ outbox[g] # <<>> /\ Head(outbox[g]) \in Requested(r)
      /\ Unread(g) = outbox[g]
  BY Pipes DEF HasFrame, FrameAt, Unread
<1>2. ~Has(Tail(outbox[g]), EventsOf(r))  BY <1>1, EndsTail DEF AskIsLast
<1>3. Turn(r, "ask", g)
  <2>1. Has(outbox[g], Requested(r))  BY <1>1, HasHead
  <2> QED  BY <1>1, <2>1 DEF Turn, AskTurn
<1>4. ~Has(outbox[g], Reported(r))
  <2>1. Head(outbox[g]) \notin Reported(r)  BY <1>1 DEF Requested, Reported
  <2>2. /\ Len(Tail(outbox[g])) = Len(outbox[g]) - 1 /\ Len(outbox[g]) \in Nat
        /\ Len(outbox[g]) > 0
        /\ \A i \in 1..Len(Tail(outbox[g])) : Tail(outbox[g])[i] = outbox[g][i + 1]
        /\ Head(outbox[g]) = outbox[g][1]
    BY <1>1, HeadTailProperties, LenProperties, EmptySeq
  <2>3. SUFFICES ASSUME NEW i \in 1..Len(outbox[g]), outbox[g][i] \in Reported(r)
                 PROVE  FALSE
    BY DEF Has
  <2>4. i # 1  BY <2>1, <2>2, <2>3
  <2>5. i - 1 \in 1..Len(Tail(outbox[g])) /\ (i - 1) + 1 = i  BY <2>2, <2>4
  <2>6. Tail(outbox[g])[i - 1] \in EventsOf(r)  BY <2>2, <2>3, <2>5 DEF Reported
  <2> QED  BY <1>2, <2>5, <2>6 DEF Has
<1> QED  BY <1>3, <1>4

\* Only one thing can be done about a run.
LEMMA OneOf ==
    ASSUME NEW r \in Run, OneTurn(r), NEW p, NEW x, NEW q, NEW y, Turn(r, p, x), Turn(r, q, y)
    PROVE  p = q /\ x = y
BY LeadsOnce DEF OneTurn

\* The event in hand stays in hand while the reader or the process goes on.
LEMMA FrameStays ==
    ASSUME TypeInv, Next, NEW g \in Gen, reader'[g].step \in {"status", "session", "card"}
    PROVE  /\ FrameAt(g)' = FrameAt(g)
           /\ reader'[g] = reader[g] \/ ReaderStep(g)
<1>1. CASE reader'[g] = reader[g] /\ outbox'[g] = outbox[g]
  BY <1>1 DEF FrameAt
<1>2. CASE Restart
  <2>1. reader'[g].step \in {"ended", "frame"}  BY <1>2 DEF Restart, ReaderIdle
  <2> QED  BY <2>1
<1>3. CASE ReaderStep(g)  BY <1>3, ReaderMoves
<1>4. CASE UNCHANGED reader /\ (Handle(g) \/ EngineStep(g))
  <2>1. HasFrame(g) /\ outbox[g] \in Seq(Frame)
    BY <1>4, Pipes DEF TypeInv, ReaderHoldsEvent
  <2>2. PICK frames \in Seq(Frame) : Emit(g, frames)
    <3>1. CASE Handle(g)
      BY <3>1, Handled
    <3>2. CASE EngineStep(g)
      <4>1. PICK x \in Event, y \in Event : Emit(g, <<x>>) \/ Emit(g, <<x, y>>)
        BY <3>2, EngineWrites DEF EngineWrite
      <4>2. <<x>> \in Seq(Frame) /\ <<x, y>> \in Seq(Frame)
        <5>1. x \in Frame /\ y \in Frame  BY DEF Frame
        <5> QED  BY <5>1
      <4> QED  BY <4>1, <4>2
    <3> QED  BY <1>4, <3>1, <3>2
  <2>3. outbox'[g] = outbox[g] \o frames
    BY <2>2 DEF Emit, TypeInv, TypeOK, SidecarTypeOK
  <2>4. Head(outbox[g] \o frames) = Head(outbox[g])
    <3>1. Len(outbox[g]) \in Nat /\ Len(outbox[g]) > 0 /\ Len(frames) \in Nat
      BY <2>1, LenProperties, EmptySeq DEF HasFrame
    <3>2. outbox[g] \o frames \in Seq(Frame) /\ Len(outbox[g] \o frames) > 0
          /\ (outbox[g] \o frames)[1] = outbox[g][1]
      BY <2>1, <3>1, ConcatProperties
    <3> QED  BY <2>1, <3>1, <3>2, HeadTailProperties DEF HasFrame
  <2> QED  BY <1>4, <2>3, <2>4 DEF FrameAt
<1> QED  BY <1>1, <1>2, <1>3, <1>4, PipeSteps

-----------------------------------------------------------------------------
(* The parts of the invariant, one at a time *)

\* One message of a run is under way at a time.
LEMMA OneMailNext ==
    ASSUME TypeInv, Next, NEW r \in Run, TurnInv(r)
    PROVE  OneMail(r)'
<1>0. OneTurn(r) /\ OneMail(r)  BY DEF TurnInv
<1> SUFFICES ASSUME NEW g \in Gen PROVE AtMostOne(inbox'[g], MailOf(r))
  BY KindsNext DEF OneMail
<1>1. AtMostOne(inbox[g], MailOf(r)) /\ inbox[g] \in Seq(Message)
  BY <1>0, Pipes DEF OneMail
<1>2. CASE Shrinks(inbox[g], inbox'[g], MailOf(r))
  BY <1>1, <1>2 DEF Shrinks
<1>3. ASSUME NEW m \in Message, inbox'[g] = Append(inbox[g], m),
             Turn(r, "start", r) \/ \E c \in CardsOf(r) : Turn(r, "claim", c)
      PROVE  AtMostOne(inbox'[g], MailOf(r))
  <2>1. ~Turn(r, "mail", g)  BY <1>0, <1>3, OneOf
  <2>2. ~Has(inbox[g], MailOf(r))  BY <2>1 DEF Turn, MailTurn
  <2> QED  BY <1>1, <1>3, <2>2, HasAppend
<1>4. /\ task[Start(r)] = "ensured" => Turn(r, "start", r)
      /\ \A c \in CardsOf(r) : task[Resume(c)] = "claimed" => Turn(r, "claim", c)
  BY DEF Turn, StartTurn, ClaimTurn, NotSent
<1> QED  BY <1>2, <1>3, <1>4, MailTurns

\* Nothing a run says follows its request.
LEMMA AskIsLastNext ==
    ASSUME TypeInv, KnownInv, Based, Next, NEW r \in Run, TurnsOf(r)
    PROVE  AskIsLast(r)'
<1> SUFFICES ASSUME NEW g \in Gen PROVE EndsIn(Unread(g)', Requested(r), EventsOf(r))
  BY KindsNext DEF AskIsLast, EndsIn
<1>1. AskIsLast(r) /\ OneTurn(r) /\ ReaderKnowsKind  BY DEF TurnsOf, TurnInv, KnownInv
<1>2. \A o \in Run : engine[g][o].unsent \subseteq engine[g][o].state
  BY DEF Based
<1> QED  BY <1>1, <1>2, AskTurns

\* A start that has a row, and only such a start, was sent.
LEMMA NewRunNext ==
    ASSUME TypeInv, Next, NEW r \in Run, TurnsOf(r)
    PROVE  NewRun(r)'
<1> SUFFICES ASSUME runStatus'[r] = "none" PROVE task'[Start(r)] \in {"idle", "checked"}
  BY KindsNext DEF NewRun
<1>1. \A g \in Gen : reader[g].step = "status" /\ FrameAt(g).run = r =>
                       reader[g].status # "none"
  BY DEF TurnsOf, ReaderInv
<1>2. runStatus[r] = "none"  BY <1>1, StatusSteps
<1>3. task[Start(r)] \in {"idle", "checked"}  BY <1>2 DEF TurnsOf, TurnInv, NewRun
<1> QED  BY <1>2, <1>3, NewStays

\* A run waits while its turn is the user's.
LEMMA WaitingRunNext ==
    ASSUME TypeInv, KnownInv, Based, Next, NEW r \in Run, TurnsOf(r)
    PROVE  WaitingRun(r)'
<1>0. TurnInv(r) /\ \A c \in CardsOf(r) : CardInv(c) /\ c \in Card /\ RunOf[c] = r
  BY DEF TurnsOf, CardsOf
<1> SUFFICES ASSUME runStatus'[r] = "waiting_for_user", NEW p \in Place, NEW x \in Holder,
                    Turn(r, p, x)', p \notin {"ask", "card"}
             PROVE  FALSE
  BY DEF WaitingRun, Place, Holder
<1>1. ~ \E q \in {"ask", "card"} : \E y : Turn(r, q, y)'
  <2>1. OneTurn(r)'  BY OneTurnNext
  <2> SUFFICES ASSUME NEW q \in {"ask", "card"}, NEW y, Turn(r, q, y)' PROVE FALSE
    OBVIOUS
  <2>2. q \in Place /\ y \in Holder  BY TurnNow DEF Place, Holder, CardsOf
  <2> QED  BY <2>1, <2>2 DEF OneTurn, Place, Holder
<1>2. ~(runStatus'[r] = "queued")  OBVIOUS
<1>3. ASSUME NEW q \in {"ask", "card"}, NEW y, Turn(r, q, y) PROVE FALSE
  <2>1. ~Turn(r, p, x)  BY <1>0, <1>3, OneOf DEF TurnInv
  <2>2. PICK a, b : Turn(r, a, b) /\ Leads(a, b, p, x)  BY <2>1, TurnNext
  <2>3. a = q /\ b = y  BY <1>0, <1>3, <2>2, OneOf DEF TurnInv
  <2>4. q = "card" /\ p = "claim" /\ x = y  BY <2>2, <2>3 DEF Leads
  <2>5. y \in CardsOf(r) /\ task'[Resume(y)] \in {"claimed", "refused"}  BY <2>4, TurnNow
  <2>6. task[Resume(y)] \notin {"claimed", "refused", "rejected"}
    <3>1. task[Resume(y)] # "rejected"  BY <1>0, <2>5 DEF CardInv, AnsweringCommand
    <3>2. ~ClaimTurn(y)  BY <2>1, <2>4, <2>5 DEF Turn
    <3> QED  BY <3>1, <3>2 DEF ClaimTurn
  <2>7. runStatus'[r] = "queued"  BY <1>0, <2>5, <2>6, AnswerSteps DEF Answered
  <2> QED  BY <2>7
<1>4. CASE runStatus[r] = "waiting_for_user"
  <2>1. ~Turn(r, p, x)  BY <1>0, <1>4 DEF TurnInv, WaitingRun
  <2>2. PICK a, b : Turn(r, a, b)  BY <2>1, TurnNext
  <2>3. a \in {"ask", "card"}  BY <1>0, <1>4, <2>2, LeadsOnce DEF TurnInv, WaitingRun
  <2> QED  BY <1>3, <2>2, <2>3
<1>5. ASSUME NEW g \in Gen, HasFrame(g), FrameAt(g) \in Requested(r),
             reader[g].step \in {"frame", "status"}
      PROVE  FALSE
  <2>1. Turn(r, "ask", g)  BY <1>0, <1>5, HeadLast DEF TurnInv
  <2> QED  BY <1>3, <2>1
<1>6. ASSUME NEW c \in CardsOf(r), card'[c] = "pending" PROVE FALSE
  <2>1. Turn(r, "card", c)'  BY <1>6, TurnNow
  <2> QED  BY <1>1, <2>1
<1>7. \A g \in Gen : ~(/\ reader[g].step = "status" /\ FrameAt(g).run = r
                       /\ reader[g].status = "waiting_for_user")
  BY DEF TurnsOf, ReaderInv
<1> QED  BY <1>4, <1>5, <1>6, <1>7, StatusSteps

\* While usage is reported, the run does not wait and is with the process that reports.
LEMMA ReportedRunNext ==
    ASSUME TypeInv, KnownInv, Based, Next, NEW r \in Run, TurnsOf(r)
    PROVE  ReportedRun(r)'
<1>0. /\ TurnInv(r) /\ OneTurn(r) /\ WaitingRun(r) /\ ReportedRun(r) /\ AskIsLast(r)
      /\ \A g \in Gen : EngineInv(g, r) /\ ReaderInv(g, r)
      /\ ReaderKnowsKind
  BY DEF TurnsOf, TurnInv, KnownInv
<1> SUFFICES ASSUME NEW g \in Gen, Has(outbox'[g], Reported(r))
             PROVE  /\ runStatus'[r] # "waiting_for_user"
                    /\ \A p, x : Turn(r, p, x)' =>
                          x = g /\ (p = "ask" \/ (p = "work" /\ engine'[g][r].phase = "pausing"))
  BY KindsNext DEF ReportedRun, Has
<1>1. ASSUME Turn(r, "work", g), UNCHANGED db PROVE runStatus'[r] # "waiting_for_user"
  BY <1>0, <1>1, LeadsOnce DEF WaitingRun, db
<1>2. CASE EnginePauses(g, r)
  <2>1. engine[g][r].phase = "going" /\ UNCHANGED db
    BY <1>2 DEF EnginePauses, EngineRuns
  <2>2. Turn(r, "work", g)  BY <2>1 DEF Turn, WorkTurn
  <2>3. engine'[g][r].phase = "pausing"
    <3>1. PICK new : SetEngine(g, r, [phase |-> "pausing", abort |-> FALSE,
                                      state |-> engine[g][r].state \cup new,
                                      unsent |-> engine[g][r].state \cup new])
      BY <1>2 DEF EnginePauses
    <3> QED  BY <3>1 DEF SetEngine, TypeInv, TypeOK, SidecarTypeOK
  <2>4. Turn(r, "work", g)'  BY <2>3, TurnNow
  <2>5. \A p, x : Turn(r, p, x)' => p = "work" /\ x = g
    <3>1. OneTurn(r)'  BY OneTurnNext
    <3>2. \A p, x : Turn(r, p, x)' => p \in Place /\ x \in Holder
      BY TurnNow DEF Place, Holder, CardsOf
    <3> QED  BY <2>4, <3>1, <3>2 DEF OneTurn, Place, Holder
  <2> QED  BY <1>1, <2>1, <2>2, <2>3, <2>5
<1>3. CASE EngineCompletes(g, r)
  <2>1. engine[g][r].phase = "going" /\ SetEngine(g, r, EngineOff) /\ UNCHANGED db
    BY <1>3 DEF EngineCompletes, EngineRuns, EngineEnds
  <2>2. Turn(r, "work", g)  BY <2>1 DEF Turn, WorkTurn
  <2>3. engine'[g][r].phase = "off"
    BY <2>1 DEF SetEngine, TypeInv, TypeOK, SidecarTypeOK, EngineOff
  <2>4. ~Turn(r, "work", g)'  BY <2>3, TurnNow
  <2>5. ASSUME NEW p, NEW x, Turn(r, p, x)' PROVE p = "ask" /\ x = g
    <3>1. ~Turn(r, p, x)  BY <1>0, <2>2, <2>4, <2>5, OneOf
    <3>2. PICK a, b : Turn(r, a, b) /\ Leads(a, b, p, x)  BY <2>5, <3>1, TurnNext
    <3>3. a = "work" /\ b = g  BY <1>0, <2>2, <3>2, OneOf
    <3> QED  BY <3>2, <3>3 DEF Leads
  <2> QED  BY <1>1, <2>1, <2>2, <2>5
<1>4. CASE Has(outbox[g], Reported(r))
  <2>1. /\ runStatus[r] # "waiting_for_user"
        /\ \A p, x : Turn(r, p, x) =>
              x = g /\ (p = "ask" \/ (p = "work" /\ engine[g][r].phase = "pausing"))
    BY <1>0, <1>4, LeadsOnce DEF ReportedRun
  <2>2. ASSUME NEW h \in Gen, HasFrame(h), FrameAt(h) \in Requested(r),
               reader[h].step # "release"
        PROVE  FALSE
    <3>1. Turn(r, "ask", h) /\ ~Has(outbox[h], Reported(r))  BY <1>0, <2>2, HeadLast
    <3> QED  BY <1>4, <2>1, <3>1
  <2>3. runStatus'[r] # "waiting_for_user"
    <3>1. \A h \in Gen : ~(/\ reader[h].step = "status" /\ FrameAt(h).run = r
                           /\ reader[h].status = "waiting_for_user")
      BY <1>0 DEF ReaderInv
    <3>2. ASSUME NEW c \in CardsOf(r), task[Resume(c)] = "refused" PROVE FALSE
      <4>1. Turn(r, "claim", c)  BY <3>2 DEF Turn, ClaimTurn
      <4> QED  BY <2>1, <4>1
    <3> QED  BY <2>1, <2>2, <3>1, <3>2, StatusSteps
  <2>4. ASSUME NEW p, NEW x, Turn(r, p, x)'
        PROVE  x = g /\ (p = "ask" \/ (p = "work" /\ engine'[g][r].phase = "pausing"))
    <3>1. CASE Turn(r, p, x)
      <4>1. CASE p = "work" /\ x = g /\ engine[g][r].phase = "pausing"
        <5>1. engine'[g][r].phase # "off"  BY <2>4, <4>1, TurnNow
        <5>2. engine[g][r].unsent \subseteq engine[g][r].state  BY DEF Based
        <5>3. engine'[g][r].phase \in {"pausing", "off"}  BY <4>1, <5>2, EngineTurns
        <5> QED  BY <4>1, <5>1, <5>3
      <4> QED  BY <2>1, <3>1, <4>1
    <3>2. CASE ~Turn(r, p, x)
      <4>1. PICK a, b : Turn(r, a, b) /\ Leads(a, b, p, x)  BY <2>4, <3>2, TurnNext
      <4>2. b = g /\ a \in {"ask", "work"}  BY <2>1, <4>1
      <4>3. p = "card" \/ (p = "ask" /\ x = g)  BY <4>1, <4>2 DEF Leads
      <4>4. ASSUME p = "card" PROVE FALSE
        <5>1. x \in CardsOf(r) /\ x \in Card /\ RunOf[x] = r /\ card'[x] = "pending"
          BY <2>4, <4>4, TurnNow DEF CardsOf
        <5>2. card[x] # "pending"  BY <3>2, <4>4, <5>1 DEF Turn, CardTurn
        <5>3. task[Resume(x)] # "refused"
          <6>1. task[Resume(x)] = "refused" => Turn(r, "claim", x)
            BY <5>1 DEF Turn, ClaimTurn
          <6> QED  BY <2>1, <6>1
        <5>4. PICK h \in Gen : HasFrame(h) /\ reader[h].step = "card" /\ FrameAt(h) \in Requested(r)
          BY <5>1, <5>2, <5>3, CardTurns
        <5> QED  BY <2>2, <5>4
      <4> QED  BY <4>3, <4>4
    <3> QED  BY <3>1, <3>2
  <2> QED  BY <2>3, <2>4
<1>5. \A o \in Run : engine[g][o].unsent \subseteq engine[g][o].state
  BY DEF Based
<1> QED  BY <1>2, <1>3, <1>4, <1>5, Reports

\* The turns of a run are in order.
LEMMA TurnInvNext ==
    ASSUME TypeInv, KnownInv, Based, Next, NEW r \in Run, TurnsOf(r)
    PROVE  TurnInv(r)'
<1>1. TurnInv(r)  BY DEF TurnsOf
<1> QED  BY <1>1, OneTurnNext, OneMailNext, AskIsLastNext, WaitingRunNext, ReportedRunNext,
            NewRunNext DEF TurnInv

\* The saved state of a run changes only as a request is read that was its turn.
LEMMA SavedTurn ==
    ASSUME TypeInv, Next, NEW r \in Run, TurnsOf(r)
    PROVE  \/ saved'[r] = saved[r]
           \/ \E g \in Gen : Turn(r, "ask", g) /\ reader[g].step \in {"frame", "status"}
<1>1. AskIsLast(r)  BY DEF TurnsOf, TurnInv
<1> QED  BY <1>1, HeadLast, SavedSteps DEF Requested, EventsOf

\* The reader writes no stale status, and offers cards the saved state leaves open.
LEMMA ReaderInvNext ==
    ASSUME TypeInv, KnownInv, CheckedIsNew, Based, Next, NEW g \in Gen,
           NEW r \in Run, TurnsOf(r)
    PROVE  ReaderInv(g, r)'
<1> DEFINE f == FrameAt(g)
<1>0. ReaderInv(g, r) /\ TurnInv(r) /\ ~Has(outbox[g], Baseless)
  BY DEF TurnsOf, Based
<1>1. ASSUME reader[g].step \in {"status", "session", "card"} \/ ReadUsage(g) \/ ReadEvent(g)
      PROVE  HasFrame(g) /\ f \in Event
  <2>1. HasFrame(g) => f \in Frame  BY TypeNextFrame DEF TypeInv
  <2>2. CASE reader[g].step \in {"status", "session", "card"}
    BY <2>2 DEF TypeInv, ReaderHoldsEvent
  <2>3. CASE ReadUsage(g)
    BY <2>1, <2>3, Frames DEF ReadUsage, EventKind
  <2>4. CASE ReadEvent(g)
    BY <2>1, <2>4, Frames DEF ReadEvent
  <2> QED  BY <1>1, <2>2, <2>3, <2>4
<1>2. ASSUME reader'[g].step = "status", FrameAt(g)'.run = r
      PROVE  reader'[g].status \notin {"waiting_for_user", "none"}
  <2>1. FrameAt(g)' = f /\ (reader'[g] = reader[g] \/ ReaderStep(g))  BY <1>2, FrameStays
  <2>2. CASE reader'[g] = reader[g]
    BY <1>0, <1>2, <2>1, <2>2 DEF ReaderInv
  <2>3. CASE ReaderStep(g)
    <3>1. ReadUsage(g) /\ reader'[g].status = runStatus[r]
      BY <1>2, <2>1, <2>3, ReaderMoves
    <3>2. f.kind = "usage.updated" /\ HasFrame(g) /\ f \in Event /\ f.run = r
      BY <1>1, <1>2, <2>1, <3>1 DEF ReadUsage
    <3>3. Has(outbox[g], Reported(r))
      <4>1. f \in Reported(r)  BY <3>2 DEF Reported, EventsOf
      <4>2. outbox[g] \in Seq(Frame)  BY Pipes
      <4> QED  BY <3>2, <4>1, <4>2, HasHead DEF HasFrame, FrameAt
    <3>4. runStatus[r] # "waiting_for_user" /\ ~Turn(r, "start", r)
      BY <1>0, <3>2, <3>3, LeadsOnce DEF TurnInv, ReportedRun
    <3>5. runStatus[r] # "none"
      BY <1>0, <3>2, <3>4 DEF TurnInv, NewRun, Turn, StartTurn, NotSent
    <3> QED  BY <2>1, <3>1, <3>2, <3>4, <3>5
  <2> QED  BY <2>1, <2>2, <2>3
<1>3. ASSUME reader'[g].step \in {"session", "card"}, FrameAt(g)'.run = r,
             FrameAt(g)'.kind = "interruption.requested"
      PROVE  runStatus'[r] \in Terminal \/ FrameAt(g)'.card \in saved'[r]
  <2>1. FrameAt(g)' = f /\ (reader'[g] = reader[g] \/ ReaderStep(g))  BY <1>3, FrameStays
  <2>2. reader[g].step \in {"session", "card"} \/ ReadEvent(g)
    BY <1>3, <2>1, ReaderMoves
  <2>3. HasFrame(g) /\ f \in Event /\ f.run = r  BY <1>1, <1>3, <2>1, <2>2
  <2>4. f \in Requested(r)  BY <1>3, <2>1, <2>3 DEF Requested, EventsOf
  <2>5. CASE reader[g].step \in {"session", "card"}
    <3>1. Turn(r, "ask", g)  BY <1>0, <2>3, <2>4, <2>5, HeadLast DEF TurnInv
    <3>2. runStatus[r] \in Terminal \/ f.card \in saved[r]
      BY <1>0, <1>3, <2>1, <2>5 DEF ReaderInv
    <3>3. saved'[r] = saved[r]
      <4>1. ASSUME NEW h \in Gen, Turn(r, "ask", h), reader[h].step \in {"frame", "status"}
            PROVE  FALSE
        <5>1. h = g  BY <1>0, <2>3, <3>1, <4>1, OneOf DEF TurnInv
        <5> QED  BY <2>5, <4>1, <5>1
      <4> QED  BY <2>3, <4>1, SavedTurn
    <3> QED  BY <2>1, <2>3, <3>2, <3>3, TerminalStays
  <2>6. CASE ReadEvent(g) /\ reader[g].step \notin {"session", "card"}
    <3>1. reader[g].step # "release"  BY <2>6 DEF ReadEvent
    <3>2. Turn(r, "ask", g)  BY <1>0, <2>3, <2>4, <3>1, HeadLast DEF TurnInv
    <3>3. CASE Writable(r)
      <4>1. saved' = [saved EXCEPT ![r] = f.state]
        BY <1>3, <2>1, <2>3, <2>6, <3>3 DEF ReadEvent, SavedBy
      <4>2. saved'[r] = f.state  BY <2>3, <4>1 DEF TypeInv, TypeOK, DbTypeOK
      <4>3. f.card \in f.state
        <5>1. ~Has(outbox[g], Baseless)  BY <1>0
        <5>2. f \notin Baseless
          <6>1. outbox[g] \in Seq(Frame)  BY Pipes
          <6> QED  BY <2>3, <5>1, <6>1, HasHead DEF HasFrame, FrameAt
        <5> QED  BY <1>3, <2>1, <2>3, <5>2 DEF Baseless
      <4> QED  BY <2>1, <4>2, <4>3
    <3>4. CASE ~Writable(r)
      <4>1. runStatus' = runStatus  BY <2>3, <2>6, <3>4 DEF ReadEvent
      <4>2. runStatus[r] # "none"
        <5>1. ~Turn(r, "start", r)  BY <1>0, <2>3, <3>2, OneOf DEF TurnInv
        <5> QED  BY <1>0, <2>3, <5>1 DEF TurnInv, NewRun, Turn, StartTurn, NotSent
      <4>3. runStatus[r] \in Terminal
        <5>1. runStatus[r] \in RunStatus  BY <2>3 DEF TypeInv, TypeOK, DbTypeOK
        <5> QED  BY <3>4, <4>2, <5>1 DEF Writable, RunStatus
      <4> QED  BY <2>1, <4>1, <4>3
    <3> QED  BY <3>3, <3>4
  <2> QED  BY <2>2, <2>5, <2>6
<1> QED  BY <1>2, <1>3 DEF ReaderInv

\* A card that is offered is one the saved state leaves open.
LEMMA OfferedCardNext ==
    ASSUME TypeInv, KnownInv, CheckedIsNew, Based, Next, NEW c \in Card, TurnsOf(RunOf[c])
    PROVE  OfferedCard(c)'
<1> DEFINE r == RunOf[c]
           Good == runStatus[r] \in Terminal \/ c \in saved[r]
<1>0. /\ CardInv(c) /\ c \in CardsOf(r) /\ r \in Run /\ TurnInv(r)
      /\ TurnsOf(r) /\ \A g \in Gen : ReaderInv(g, r)
  BY ConstAssumption DEF TurnsOf, CardsOf
<1> SUFFICES ASSUME \E p \in {"card", "claim"} : Turn(r, p, c)'
             PROVE  runStatus'[r] \in Terminal \/ c \in saved'[r]
  BY <1>0, TurnNow, KindsNext DEF OfferedCard, CardTurn, ClaimTurn
<1>1. PICK p \in {"card", "claim"} : Turn(r, p, c)'  OBVIOUS
<1>2. ASSUME NEW q, NEW x, q # "ask" \/ reader[x].step = "card", Turn(r, q, x), Good
      PROVE  runStatus'[r] \in Terminal \/ c \in saved'[r]
  <2>1. saved'[r] = saved[r]
    <3>1. ASSUME NEW g \in Gen, Turn(r, "ask", g), reader[g].step \in {"frame", "status"}
          PROVE  FALSE
      BY <1>0, <1>2, <3>1, OneOf DEF TurnInv
    <3> QED  BY <1>0, <3>1, SavedTurn
  <2> QED  BY <1>0, <1>2, <2>1, TerminalStays
<1>3. ASSUME NEW q \in {"card", "claim"}, Turn(r, q, c)
      PROVE  runStatus'[r] \in Terminal \/ c \in saved'[r]
  <2>1. Good  BY <1>0, <1>3 DEF Turn, CardInv, OfferedCard
  <2> QED  BY <1>2, <1>3, <2>1
<1>4. CASE ~Turn(r, p, c)
  <2>1. PICK a, b : Turn(r, a, b) /\ Leads(a, b, p, c)  BY <1>0, <1>1, <1>4, TurnNext
  <2>2. CASE p = "claim"  BY <1>3, <2>1, <2>2 DEF Leads
  <2>3. CASE p = "card"
    <3>1. card'[c] = "pending" /\ card[c] # "pending"
      BY <1>0, <1>1, <1>4, <2>3, TurnNow DEF Turn, CardTurn
    <3>2. CASE task[Resume(c)] = "refused"
      <4>1. Turn(r, "claim", c)  BY <1>0, <3>2 DEF Turn, ClaimTurn
      <4> QED  BY <1>3, <4>1
    <3>3. CASE \E g \in Gen : /\ HasFrame(g) /\ reader[g].step = "card"
                              /\ FrameAt(g) \in Requested(r) /\ FrameAt(g).card = c
      <4>1. PICK g \in Gen : /\ HasFrame(g) /\ reader[g].step = "card"
                             /\ FrameAt(g) \in Requested(r) /\ FrameAt(g).card = c
        BY <3>3
      <4>2. Turn(r, "ask", g)  BY <1>0, <4>1, HeadLast DEF TurnInv
      <4>3. Good  BY <1>0, <4>1 DEF ReaderInv, Requested, EventsOf
      <4> QED  BY <1>2, <4>1, <4>2, <4>3
    <3> QED  BY <3>1, <3>2, <3>3, CardTurns
  <2> QED  BY <2>2, <2>3
<1> QED  BY <1>1, <1>3, <1>4

\* The command that answers a card holds a state that leaves it open.
LEMMA AnsweringCommandNext ==
    ASSUME TypeInv, KnownInv, CheckedIsNew, Based, Next, NEW c \in Card, TurnsOf(RunOf[c])
    PROVE  AnsweringCommand(c)'
<1> DEFINE q == Resume(c)
           r == RunOf[c]
           Bad == {m \in Asks(q) : c \notin m.state}
<1>0. /\ CardInv(c) /\ OfferedCard(c) /\ AnsweringCommand(c) /\ c \in CardsOf(r) /\ r \in Run
      /\ TurnInv(r) /\ q \in Request
  BY ConstAssumption, Requests DEF TurnsOf, CardsOf, CardInv
<1>1. /\ task[q] \in {"checked", "ensured"} =>
             /\ card[c] # "none"
             /\ CardTurn(c) => runStatus[r] \in Terminal \/ c \in seen[c].state
      /\ task[q] = "claimed" => c \in seen[c].state
      /\ task[q] # "rejected"
      /\ \A g \in Gen : ~Has(inbox[g], Bad) /\ ~Has(outbox[g], Refusals(q))
  BY <1>0 DEF AnsweringCommand
<1>2. Answered(c)  BY AnswerSteps
<1>3. ASSUME ResumeCheck(c)
      PROVE  /\ task[q] = "idle" /\ card[c] # "none" /\ UNCHANGED db
             /\ seen'[c].state = saved[r] /\ task'[q] = "checked"
  BY <1>0, <1>3 DEF ResumeCheck, Move, TypeInv, TypeOK, TasksTypeOK
<1>4. ASSUME task'[q] \in {"checked", "ensured"}
      PROVE  /\ card'[c] # "none"
             /\ card'[c] = "pending" => runStatus'[r] \in Terminal \/ c \in seen'[c].state
  <2>1. CASE ResumeCheck(c)
    <3>1. CardTurn(c) => runStatus[r] \in Terminal \/ c \in saved[r]
      BY <1>0 DEF OfferedCard
    <3> QED  BY <1>3, <2>1, <3>1 DEF CardTurn, db
  <2>2. CASE ~ResumeCheck(c)
    <3>1. task[q] \in {"checked", "ensured"} /\ seen'[c] = seen[c]
      BY <1>2, <1>4, <2>2 DEF Answered
    <3>2. card'[c] # "none"  BY <1>1, <3>1, CardSteps
    <3>3. card'[c] = "pending" => CardTurn(c)
      <4>1. card'[c] = "pending" /\ card[c] # "pending" =>
                card[c] = "none" \/ task[q] = "refused"
        BY CardTurns
      <4> QED  BY <1>1, <3>1, <4>1 DEF CardTurn
    <3> QED  BY <1>0, <1>1, <3>1, <3>2, <3>3, TerminalStays
  <2> QED  BY <2>1, <2>2
<1>5. ASSUME task'[q] = "claimed" PROVE c \in seen'[c].state
  <2>1. ~ResumeCheck(c)  BY <1>3, <1>5
  <2>2. seen'[c] = seen[c]  BY <1>2, <1>5, <2>1 DEF Answered
  <2>3. CASE task[q] = "claimed"  BY <1>1, <2>2, <2>3
  <2>4. CASE /\ task[q] = "ensured" /\ runStatus[r] = "waiting_for_user" /\ card[c] = "pending"
    BY <1>1, <2>2, <2>4 DEF CardTurn, Terminal
  <2> QED  BY <1>2, <1>5, <2>3, <2>4 DEF Answered
<1>6. task'[q] # "rejected"
  <2>1. ASSUME NEW g \in Gen, HasFrame(g), FrameAt(g) \in Refusals(q) PROVE FALSE
    <3>1. outbox[g] \in Seq(Frame)  BY Pipes
    <3> QED  BY <1>1, <2>1, <3>1, HasHead DEF HasFrame, FrameAt
  <2> QED  BY <1>1, <1>2, <2>1 DEF Answered
<1>7. ASSUME NEW g \in Gen PROVE ~Has(inbox'[g], Bad)
  <2>1. Bad \subseteq MailOf(r)  BY <1>0 DEF Asks, MailOf
  <2>2. CASE Shrinks(inbox[g], inbox'[g], Bad)  BY <1>1, <2>2 DEF Shrinks
  <2>3. ASSUME NEW m \in Message, inbox'[g] = Append(inbox[g], m), m \notin Bad
        PROVE  ~Has(inbox'[g], Bad)
    <3>1. inbox[g] \in Seq(Message)  BY Pipes
    <3> HIDE DEF Bad
    <3> QED  BY <1>1, <2>3, <3>1, HasAppend
  <2>4. ASSUME NEW m \in Message,
               \/ m.req = Start(r)
               \/ \E d \in CardsOf(r) : /\ m = [req |-> Resume(d), state |-> seen[d].state]
                                        /\ task[Resume(d)] = "claimed"
        PROVE  m \notin Bad
    <3>1. CASE m.req = Start(r)
      <4>1. m.req # q  BY <3>1, Kinds
      <4> QED  BY <4>1 DEF Asks
    <3>2. ASSUME NEW d \in CardsOf(r), m = [req |-> Resume(d), state |-> seen[d].state],
                 task[Resume(d)] = "claimed"
          PROVE  m \notin Bad
      <4>1. m.req = Resume(d) /\ m.state = seen[d].state  BY <3>2
      <4>2. CASE d = c  BY <1>1, <3>2, <4>1, <4>2
      <4>3. CASE d # c
        <5>1. m.req # q  BY <1>0, <4>1, <4>3, Kinds
        <5> QED  BY <5>1 DEF Asks
      <4> QED  BY <4>2, <4>3
    <3> QED  BY <2>4, <3>1, <3>2
  <2>5. \/ Shrinks(inbox[g], inbox'[g], Bad)
        \/ \E m \in Message :
              /\ inbox'[g] = Append(inbox[g], m)
              /\ \/ m.req = Start(r)
                 \/ \E d \in CardsOf(r) : /\ m = [req |-> Resume(d), state |-> seen[d].state]
                                          /\ task[Resume(d)] = "claimed"
    <3> DEFINE P == Bad
    <3>1. P \subseteq MailOf(r)  BY <2>1
    <3> HIDE DEF P
    <3>2. \/ Shrinks(inbox[g], inbox'[g], P)
          \/ \E m \in Message :
                /\ inbox'[g] = Append(inbox[g], m)
                /\ \/ m.req = Start(r)
                   \/ \E d \in CardsOf(r) : /\ m = [req |-> Resume(d), state |-> seen[d].state]
                                            /\ task[Resume(d)] = "claimed"
      <4>1. \/ Shrinks(inbox[g], inbox'[g], P)
            \/ \E m \in Message :
                  /\ g = inner /\ inbox'[g] = Append(inbox[g], m)
                  /\ \/ /\ SendStart(r) /\ m.req = Start(r)
                        /\ task[Start(r)] = "ensured" /\ task'[Start(r)] = "sent"
                     \/ \E d \in CardsOf(r) :
                           /\ SendResume(d) /\ m = [req |-> Resume(d), state |-> seen[d].state]
                           /\ task[Resume(d)] = "claimed" /\ task'[Resume(d)] = "sent"
        BY <1>0, <3>1, MailTurns
      <4> QED  BY <4>1
    <3> QED  BY <3>2 DEF P
  <2> QED  BY <2>2, <2>3, <2>4, <2>5, Zenon
<1>8. ASSUME NEW g \in Gen PROVE ~Has(outbox'[g], Refusals(q))
  <2>0. outbox[g] \in Seq(Frame) /\ inbox[g] \in Seq(Message)  BY Pipes
  <2>1. CASE outbox'[g] = outbox[g] \/ outbox'[g] = <<>>  BY <1>1, <2>1, HasNothing
  <2>2. CASE HasFrame(g) /\ outbox'[g] = Tail(outbox[g])
    BY <1>1, <2>0, <2>2, HasTail DEF HasFrame
  <2>3. CASE Handle(g) \/ EngineStep(g)
    <3>1. PICK frames \in Seq(Frame) : Emit(g, frames) /\ ~Has(frames, Refusals(q))
      <4>1. CASE Handle(g)
        <5>1. PICK frames \in Seq(Frame) :
                  /\ Emit(g, frames)
                  /\ Has(frames, Refusals(q)) => Head(inbox[g]) \in MailOf(r) /\ WorkTurn(r, g)
          BY <1>0, <4>1, HandleSpeaks
        <5>2. ASSUME Head(inbox[g]) \in MailOf(r), WorkTurn(r, g) PROVE FALSE
          <6>1. Has(inbox[g], MailOf(r))  BY <2>0, <4>1, <5>2, HandleFrame, HasHead
          <6>2. Turn(r, "mail", g) /\ Turn(r, "work", g)  BY <5>2, <6>1 DEF Turn, MailTurn
          <6> QED  BY <1>0, <6>2, OneOf DEF TurnInv
        <5> QED  BY <5>1, <5>2
      <4>2. CASE EngineStep(g)
        <5>1. \A o \in Run : engine[g][o].unsent \subseteq engine[g][o].state
          BY DEF Based
        <5> QED  BY <1>0, <4>2, <5>1, EngineSpeaks
      <4> QED  BY <2>3, <4>1, <4>2
    <3>2. outbox'[g] = outbox[g] \o frames
      BY <3>1 DEF Emit, TypeInv, TypeOK, SidecarTypeOK
    <3> QED  BY <1>1, <2>0, <3>1, <3>2, HasConcat
  <2> QED  BY <2>1, <2>2, <2>3, OutboxSteps
<1>9. /\ \A g \in Gen : ~Has(inbox[g], {m \in Asks(q) : c \notin m.state})'
      /\ \A g \in Gen : ~Has(outbox[g], Refusals(q))'
  BY <1>7, <1>8, KindsNext DEF Has
<1> QED  BY <1>4, <1>5, <1>6, <1>9, KindsNext DEF AnsweringCommand, CardTurn

\* A decision waits for an engine in one place, and its run does not wait for the user.
LEMMA OpenDecisionNext ==
    ASSUME TypeInv, KnownInv, Based, Next, NEW c \in Card, TurnsOf(RunOf[c])
    PROVE  OpenDecision(c)'
<1> DEFINE q == Resume(c)
           r == RunOf[c]
           Other == MailOf(r) \ Asks(q)
           Mine(p, x) == \/ p = "claim" /\ x = c
                         \/ p = "mail" /\ ~Has(inbox'[x], Other)
<1>0. /\ CardInv(c) /\ c \in CardsOf(r) /\ r \in Run /\ TurnInv(r) /\ q \in Request
      /\ TurnsOf(r) /\ \A g \in Gen : ReaderInv(g, r)
  BY ConstAssumption, Requests DEF TurnsOf, CardsOf
<1> SUFFICES ASSUME card'[c] = "resolved", applied'[c] = 0
             PROVE  /\ runStatus'[r] # "waiting_for_user"
                    /\ \A p, x : Turn(r, p, x)' => Mine(p, x)
  BY KindsNext DEF OpenDecision, Undecided, Has
<1>1. ASSUME NEW p, NEW x, Turn(r, p, x)' PROVE p \in Place /\ x \in Holder
  BY <1>0, <1>1, TurnNow DEF Place, Holder, CardsOf
<1>2. CASE card[c] # "resolved"
  <2>1. task'[q] = "claimed" /\ runStatus'[r] = "queued"  BY <1>2, CardSteps
  <2>2. Turn(r, "claim", c)'  BY <1>0, <2>1, TurnNow
  <2>3. OneTurn(r)'  BY <1>0, OneTurnNext
  <2>4. ASSUME NEW p, NEW x, Turn(r, p, x)' PROVE p = "claim" /\ x = c
    <3>1. p \in Place /\ x \in Holder /\ "claim" \in Place /\ c \in Holder
      BY <1>1, <2>4 DEF Place, Holder
    <3> QED  BY <2>2, <2>3, <2>4, <3>1 DEF OneTurn, Place, Holder
  <2> QED  BY <2>1, <2>4
<1>3. CASE card[c] = "resolved"
  <2>1. Undecided(c)  BY <1>3, CardSteps DEF Undecided
  <2>2. /\ runStatus[r] # "waiting_for_user"
        /\ \A p, x : Turn(r, p, x) =>
              \/ p = "claim" /\ x = c
              \/ p = "mail" /\ ~Has(inbox[x], Other)
    BY <1>0, <2>1, LeadsOnce DEF CardInv, OpenDecision
  <2>3. runStatus'[r] # "waiting_for_user"
    <3>1. ASSUME NEW g \in Gen, HasFrame(g), FrameAt(g) \in Requested(r),
                 reader[g].step \in {"frame", "status"}
          PROVE  FALSE
      <4>1. Turn(r, "ask", g)  BY <1>0, <3>1, HeadLast DEF TurnInv
      <4> QED  BY <2>2, <4>1
    <3>2. ASSUME NEW d \in CardsOf(r), task[Resume(d)] = "refused", card'[d] = "pending"
          PROVE  FALSE
      <4>1. Turn(r, "claim", d)  BY <3>2 DEF Turn, ClaimTurn
      <4>2. d = c  BY <2>2, <4>1
      <4> QED  BY <3>2, <4>2
    <3>3. \A g \in Gen : ~(/\ reader[g].step = "status" /\ FrameAt(g).run = r
                           /\ reader[g].status = "waiting_for_user")
      BY <1>0 DEF ReaderInv
    <3> QED  BY <1>0, <2>2, <3>1, <3>2, <3>3, StatusSteps
  <2>4. ASSUME NEW g \in Gen,
               ~Has(inbox[g], Other) \/ ~Has(inbox[g], MailOf(r))
        PROVE  ~Has(inbox'[g], Other)
    <3>1. ~Has(inbox[g], Other)  BY <2>4, HasFewer
    <3>2. CASE Shrinks(inbox[g], inbox'[g], Other)  BY <3>1, <3>2 DEF Shrinks
    <3>3. ASSUME NEW m \in Message, inbox'[g] = Append(inbox[g], m),
                 \/ task[Start(r)] = "ensured"
                 \/ \E d \in CardsOf(r) : m.req = Resume(d) /\ task[Resume(d)] = "claimed"
          PROVE  ~Has(inbox'[g], Other)
      <4>1. ~Turn(r, "start", r)  BY <2>2
      <4>2. task[Start(r)] # "ensured"  BY <4>1 DEF Turn, StartTurn, NotSent
      <4>3. PICK d \in CardsOf(r) : m.req = Resume(d) /\ task[Resume(d)] = "claimed"
        BY <3>3, <4>2
      <4>4. Turn(r, "claim", d)  BY <4>3 DEF Turn, ClaimTurn
      <4>5. d = c  BY <2>2, <4>4
      <4>6. m \notin Other  BY <4>3, <4>5 DEF Asks
      <4>7. inbox[g] \in Seq(Message)  BY Pipes
      <4> HIDE DEF Other
      <4> QED  BY <3>1, <3>3, <4>6, <4>7, HasAppend
    <3>4. \/ Shrinks(inbox[g], inbox'[g], Other)
          \/ \E m \in Message :
                /\ inbox'[g] = Append(inbox[g], m)
                /\ \/ task[Start(r)] = "ensured"
                   \/ \E d \in CardsOf(r) : m.req = Resume(d) /\ task[Resume(d)] = "claimed"
      <4> DEFINE P == Other
      <4>1. P \subseteq MailOf(r)  OBVIOUS
      <4> HIDE DEF P
      <4>2. \/ Shrinks(inbox[g], inbox'[g], P)
            \/ \E m \in Message :
                  /\ g = inner /\ inbox'[g] = Append(inbox[g], m)
                  /\ \/ /\ SendStart(r) /\ m.req = Start(r)
                        /\ task[Start(r)] = "ensured" /\ task'[Start(r)] = "sent"
                     \/ \E d \in CardsOf(r) :
                           /\ SendResume(d) /\ m = [req |-> Resume(d), state |-> seen[d].state]
                           /\ task[Resume(d)] = "claimed" /\ task'[Resume(d)] = "sent"
        BY <1>0, <4>1, MailTurns
      <4>3. \/ Shrinks(inbox[g], inbox'[g], P)
            \/ \E m \in Message :
                  /\ inbox'[g] = Append(inbox[g], m)
                  /\ \/ task[Start(r)] = "ensured"
                     \/ \E d \in CardsOf(r) : m.req = Resume(d) /\ task[Resume(d)] = "claimed"
        BY <4>2
      <4> QED  BY <4>3 DEF P
    <3> QED  BY <3>2, <3>3, <3>4
  <2>5. ASSUME NEW p, NEW x, Turn(r, p, x)' PROVE Mine(p, x)
    <3>1. CASE Turn(r, p, x)
      <4>1. CASE p = "mail"
        <5>1. x \in Gen /\ ~Has(inbox[x], Other)  BY <2>2, <3>1, <4>1 DEF Turn
        <5> QED  BY <2>4, <4>1, <5>1
      <4> QED  BY <2>2, <3>1, <4>1
    <3>2. CASE ~Turn(r, p, x)
      <4>1. PICK a, b : Turn(r, a, b) /\ Leads(a, b, p, x)  BY <1>0, <2>5, <3>2, TurnNext
      <4>2. CASE p = "mail"
        <5>1. x \in Gen /\ ~Has(inbox[x], MailOf(r))
          BY <2>5, <3>2, <4>2, TurnNow DEF Turn, MailTurn
        <5> QED  BY <2>4, <4>2, <5>1
      <4>3. CASE p = "work" /\ a = "mail" /\ b = x
        <5>1. x \in Gen /\ engine'[x][r].phase # "off" /\ engine[x][r].phase = "off"
          <6>1. x \in Gen /\ engine'[x][r].phase # "off"  BY <2>5, <4>3, TurnNow
          <6>2. ~WorkTurn(r, x)  BY <3>2, <4>3, <6>1 DEF Turn
          <6> QED  BY <6>1, <6>2 DEF WorkTurn
        <5>2. AtMostOne(inbox[x], MailOf(r))  BY <1>0, <5>1 DEF TurnInv, OneMail
        <5>3. Handle(x) /\ inbox[x] # <<>> /\ Head(inbox[x]) \in MailOf(r)
          BY <1>0, <5>1, <5>2, WorkTurns
        <5>4. inbox[x] \in Seq(Message) /\ Head(inbox[x]) \in Message  BY <5>1, <5>3, Pipes
        <5>5. Head(inbox[x]) \in Asks(q)
          <6>1. ~Has(inbox[x], Other)  BY <2>2, <4>1, <4>3
          <6>2. Head(inbox[x]) \notin Other
            <7> HIDE DEF Other
            <7> QED  BY <5>3, <5>4, <6>1, HasHead
          <6> QED  BY <5>3, <6>2
        <5>6. Head(inbox[x]).req = q  BY <5>5 DEF Asks
        <5>7. c \in Head(inbox[x]).state
          <6>1. ~Has(inbox[x], {m \in Asks(q) : c \notin m.state})
            BY <1>0, <5>1 DEF CardInv, AnsweringCommand
          <6>2. Head(inbox[x]) \notin {m \in Asks(q) : c \notin m.state}
            BY <5>3, <5>4, <6>1, HasHead
          <6> QED  BY <5>5, <6>2
        <5>8. applied'[c] # 0  BY <5>1, <5>3, <5>6, <5>7, Applies
        <5> QED  BY <5>8
      <4>4. CASE p = "card" /\ a = "claim" /\ b = x
        <5>1. x = c  BY <2>2, <4>1, <4>4
        <5>2. card'[x] = "pending"  BY <2>5, <4>4, TurnNow
        <5> QED  BY <5>1, <5>2
      <4>5. a \in {"claim", "mail"}  BY <2>2, <4>1
      <4> QED  BY <4>1, <4>2, <4>3, <4>4, <4>5 DEF Leads
    <3> QED  BY <3>1, <3>2
  <2> QED  BY <2>3, <2>5
<1> QED  BY <1>2, <1>3

\* An engine asks for what its state leaves open.
LEMMA BasedNext ==
    ASSUME TypeInv, Based, Next
    PROVE  Based'
<1>1. ASSUME NEW g \in Gen PROVE ~Has(outbox'[g], Baseless)
  <2>0. ~Has(outbox[g], Baseless) /\ outbox[g] \in Seq(Frame)  BY Pipes DEF Based
  <2>1. CASE outbox'[g] = outbox[g] \/ outbox'[g] = <<>>  BY <2>0, <2>1, HasNothing
  <2>2. CASE HasFrame(g) /\ outbox'[g] = Tail(outbox[g])
    BY <2>0, <2>2, HasTail DEF HasFrame
  <2>3. ASSUME NEW r \in Run, Handle(g) \/ EngineStep(g) PROVE ~Has(outbox'[g], Baseless)
    <3>1. \A o \in Run : engine[g][o].unsent \subseteq engine[g][o].state  BY DEF Based
    <3>2. PICK frames \in Seq(Frame) : Emit(g, frames) /\ ~Has(frames, Baseless)
      BY <2>3, <3>1, HandleSpeaks, EngineSpeaks
    <3>3. outbox'[g] = outbox[g] \o frames
      BY <3>2 DEF Emit, TypeInv, TypeOK, SidecarTypeOK
    <3> QED  BY <2>0, <3>2, <3>3, HasConcat
  <2>4. Handle(g) \/ EngineStep(g) => Run # {}
    <3>1. Handle(g) => Run # {}
      BY Pipes, HandleFrame, Requests DEF Message
    <3>2. EngineStep(g) => Run # {}  BY DEF EngineStep
    <3> QED  BY <3>1, <3>2
  <2> QED  BY <2>1, <2>2, <2>3, <2>4, OutboxSteps
<1>2. ASSUME NEW g \in Gen, NEW r \in Run
      PROVE  engine'[g][r].unsent \subseteq engine'[g][r].state
  BY EngineTurns DEF Based
<1>3. \A g \in Gen : (~Has(outbox[g], Baseless))'  BY <1>1 DEF Has, Baseless
<1> QED  BY <1>2, <1>3 DEF Based

\* An engine resumes the run with a card it knows, and stops on one card.
LEMMA EngineInvNext ==
    ASSUME TypeInv, Based, Next, NEW g \in Gen, NEW r \in Run, TurnsOf(r), r \notin bundled'
    PROVE  EngineInv(g, r)'
<1>0. /\ EngineInv(g, r) /\ inbox[g] \in Seq(Message)
      /\ engine[g][r].unsent \subseteq engine[g][r].state
  BY Pipes DEF TurnsOf, Based
<1>1. engine'[g][r].phase # "unknown"
  <2>1. ASSUME inbox[g] # <<>>, NEW c \in CardsOf(r), Head(inbox[g]).req = Resume(c),
               c \notin Head(inbox[g]).state
        PROVE  FALSE
    <3>1. ~Has(inbox[g], {m \in Asks(Resume(c)) : c \notin m.state})
      BY DEF TurnsOf, CardInv, AnsweringCommand
    <3>2. Head(inbox[g]) \in {m \in Asks(Resume(c)) : c \notin m.state}
      BY <2>1, Pipes DEF Asks
    <3> QED  BY <1>0, <2>1, <3>1, <3>2, HasHead
  <2> QED  BY <1>0, <2>1, EngineTurns DEF EngineInv
<1>2. engine'[g][r].phase = "pausing" => ~Several(engine'[g][r].state)
  BY <1>0, Pauses DEF EngineInv
<1> QED  BY <1>1, <1>2 DEF EngineInv, Several

\* At first a run can only be started.
LEMMA TurnsInit == Init => Turns
<1> SUFFICES ASSUME Init PROVE Turns  OBVIOUS
<1>1. /\ \A g \in Gen : inbox[g] = <<>> /\ outbox[g] = <<>> /\ reader[g].step = "frame"
      /\ \A g \in Gen, r \in Run : engine[g][r] = EngineOff
      /\ \A q \in Request : task[q] = "idle"
      /\ \A c \in Card : card[c] = "none"
      /\ \A r \in Run : runStatus[r] = "none"
  BY DEF Init, ReaderIdle
<1>2. \A g \in Gen : Unread(g) = <<>>  BY <1>1 DEF Unread
<1>3. /\ \A r \in Run : Start(r) \in Request /\ task[Start(r)] = "idle"
      /\ \A c \in Card : Resume(c) \in Request /\ task[Resume(c)] = "idle"
  BY <1>1, Requests
<1>4. /\ EngineOff.phase = "off" /\ EngineOff.state = {} /\ EngineOff.unsent = {}
  BY DEF EngineOff
<1>5. \A r \in Run : \A p, x : Turn(r, p, x) => p = "start" /\ x = r
  BY <1>1, <1>2, <1>3, <1>4, HasNothing DEF Turn, MailTurn, WorkTurn, AskTurn, CardTurn,
     ClaimTurn, CardsOf
<1>6. ASSUME NEW r \in Run PROVE TurnInv(r)
  <2>1. OneTurn(r)  BY <1>5 DEF OneTurn
  <2>2. OneMail(r) /\ AskIsLast(r)
    BY <1>1, <1>2, HasNothing, EndsShort DEF OneMail, AskIsLast
  <2>3. WaitingRun(r) /\ ReportedRun(r) /\ NewRun(r)
    BY <1>1, <1>3, HasNothing DEF WaitingRun, ReportedRun, NewRun
  <2> QED  BY <2>1, <2>2, <2>3 DEF TurnInv
<1>7. ASSUME NEW g \in Gen, NEW r \in Run PROVE ReaderInv(g, r) /\ EngineInv(g, r)
  BY <1>1, <1>4 DEF ReaderInv, EngineInv
<1>8. ASSUME NEW c \in Card PROVE CardInv(c)
  BY <1>1, <1>3, HasNothing DEF CardInv, OfferedCard, AnsweringCommand, OpenDecision,
     CardTurn, ClaimTurn, Undecided
<1>9. Based  BY <1>1, <1>4, HasNothing DEF Based
<1> QED  BY <1>6, <1>7, <1>8, <1>9 DEF Turns, TurnsOf, CardsOf

\* Whose turn it is depends on the pipes, the engines, the commands and the rows alone.
LEMMA TurnsStutter == Turns /\ UNCHANGED vars => Turns'
<1> SUFFICES ASSUME Turns, UNCHANGED vars PROVE Turns'  OBVIOUS
<1>1. UNCHANGED <<runStatus, card, saved, inner, reader, task, seen, inbox, outbox, engine,
                  applied, bundled>>
  BY DEF vars, db, host, tasks, sidecar
<1>2. \A g : Unread(g)' = Unread(g) /\ FrameAt(g)' = FrameAt(g)
  BY <1>1 DEF Unread, FrameAt
<1>3. \A r, p, x : Turn(r, p, x)' <=> Turn(r, p, x)
  BY <1>1, <1>2, TurnNow DEF Turn, StartTurn, MailTurn, WorkTurn, AskTurn, CardTurn, ClaimTurn
<1>4. ASSUME NEW r \in Run, TurnInv(r) PROVE TurnInv(r)'
  <2>1. TurnInv(r)  BY <1>4
  <2>2. OneTurn(r)'  BY <1>3, <2>1 DEF TurnInv, OneTurn, Place, Holder
  <2>3. OneMail(r)' /\ AskIsLast(r)'
    BY <1>1, <1>2, <2>1, KindsNext DEF TurnInv, OneMail, AskIsLast, AtMostOne, EndsIn
  <2>4. WaitingRun(r)'  BY <1>1, <1>3, <2>1 DEF TurnInv, WaitingRun, Place, Holder
  <2>5. ReportedRun(r)' /\ NewRun(r)'
    BY <1>1, <1>3, <2>1, KindsNext DEF TurnInv, ReportedRun, NewRun, Place, Holder, Has
  <2> QED  BY <2>2, <2>3, <2>4, <2>5 DEF TurnInv
<1>5. ASSUME NEW g \in Gen, NEW r \in Run, ReaderInv(g, r), EngineInv(g, r)
      PROVE  ReaderInv(g, r)' /\ EngineInv(g, r)'
  BY <1>1, <1>2, <1>5 DEF ReaderInv, EngineInv, Several
<1>6. ASSUME NEW c \in Card, CardInv(c) PROVE CardInv(c)'
  <2>1. OfferedCard(c)' /\ AnsweringCommand(c)'
    BY <1>1, <1>6, KindsNext DEF CardInv, OfferedCard, AnsweringCommand, CardTurn, ClaimTurn, Has
  <2>2. OpenDecision(c)'
    BY <1>1, <1>3, <1>6, KindsNext DEF CardInv, OpenDecision, Undecided, Place, Holder, Has
  <2> QED  BY <2>1, <2>2 DEF CardInv
<1>7. Based'  BY <1>1 DEF Turns, Based, Has, Baseless
<1>8. ASSUME NEW r \in Run, TurnsOf(r) PROVE TurnsOf(r)'
  <2>1. \A c \in CardsOf(r) : c \in Card  BY DEF CardsOf
  <2> QED  BY <1>4, <1>5, <1>6, <1>8, <2>1, KindsNext DEF TurnsOf
<1> QED  BY <1>1, <1>7, <1>8 DEF Turns

\* The turns of a run are in order as long as no engine stops it on several cards.
LEMMA TurnsNext ==
    ASSUME TypeInv, KnownInv, CheckedIsNew, Based, Next, NEW r \in Run, TurnsOf(r),
           r \notin bundled'
    PROVE  TurnsOf(r)'
<1>1. TurnInv(r)'  BY TurnInvNext
<1>2. \A g \in Gen : ReaderInv(g, r)' /\ EngineInv(g, r)'  BY ReaderInvNext, EngineInvNext
<1>3. ASSUME NEW c \in CardsOf(r) PROVE CardInv(c)'
  <2>1. c \in Card /\ TurnsOf(RunOf[c])  BY DEF CardsOf
  <2> QED  BY <2>1, OfferedCardNext, AnsweringCommandNext, OpenDecisionNext DEF CardInv
<1> QED  BY <1>1, <1>2, <1>3, KindsNext DEF TurnsOf

\* So they are in every behaviour.
LEMMA TurnsInvariant == Spec => []Turns
<1>1. TypeInv /\ KnownInv /\ CheckedIsNew /\ Turns /\ [Next]_vars => Turns'
  <2> SUFFICES ASSUME TypeInv, KnownInv, CheckedIsNew, Turns, [Next]_vars
               PROVE  Turns'
    OBVIOUS
  <2>1. CASE Next
    <3>1. Based'  BY <2>1, BasedNext DEF Turns
    <3>2. ASSUME NEW r \in Run \ bundled' PROVE TurnsOf(r)'
      <4>1. r \in Run \ bundled  BY <2>1, BundledStays
      <4> QED  BY <2>1, <4>1, TurnsNext DEF Turns
    <3> QED  BY <3>1, <3>2 DEF Turns
  <2> QED  BY <2>1, TurnsStutter
<1>2. Spec => []CheckedIsNew
  <2>1. Init => CheckedIsNew  BY Requests DEF Init, CheckedIsNew
  <2> QED  BY <2>1, CheckedNext, TypeInvariant, PTL DEF Spec
<1> QED  BY <1>1, <1>2, TurnsInit, TypeInvariant, KnownInvariant, PTL DEF Spec

-----------------------------------------------------------------------------
(* Paused runs, their cards and the decisions on them *)

\* A run the database calls waiting does not execute, so cancel_waiting_run may settle
\* it without telling the sidecar (repository.rs), unless a pause of the run was on
\* several cards.
THEOREM WaitingRunsAreIdle == Spec => []PausedRunIsIdle
<1>1. Turns => PausedRunIsIdle
  <2> SUFFICES ASSUME Turns, NEW g \in Gen, NEW r \in Run, r \notin bundled,
                      runStatus[r] = "waiting_for_user", engine[g][r].phase # "off"
               PROVE  FALSE
    BY DEF PausedRunIsIdle
  <2>1. Turn(r, "work", g)  BY DEF Turn, WorkTurn
  <2> QED  BY <2>1, LeadsOnce DEF Turns, TurnsOf, TurnInv, WaitingRun
<1> QED  BY <1>1, TurnsInvariant, PTL

\* Of a run no engine stops on several cards, a resume is always known: the state the
\* claim was made with leaves its card open (claim_interruption_resume, sdk-engine.ts).
THEOREM ResumesAreKnown ==
    Spec => [](\A g \in Gen, r \in Run \ bundled : engine[g][r].phase # "unknown")
<1> DEFINE Known == \A g \in Gen, r \in Run \ bundled : engine[g][r].phase # "unknown"
<1>1. Turns => Known  BY DEF Turns, TurnsOf, EngineInv
<1> QED  BY <1>1, TurnsInvariant, PTL

\* A decision whose command is over reached an engine, or its run does not wait: no
\* user is left with an answered card and a run that waits for it, unless a pause of
\* the run was on several cards.
THEOREM DecisionsAreNotSwallowed == Spec => []NoSwallowedDecision
<1>1. TypeInv /\ Turns => NoSwallowedDecision
  <2> SUFFICES ASSUME TypeInv, Turns, NEW c \in Card, card[c] = "resolved",
                      runStatus[RunOf[c]] = "waiting_for_user", RunOf[c] \notin bundled
               PROVE  applied[c] > 0
    BY DEF NoSwallowedDecision
  <2>1. applied[c] \in Nat  BY DEF TypeInv, TypeOK, SidecarTypeOK
  <2>2. CardInv(c)  BY ConstAssumption DEF Turns, TurnsOf, CardsOf
  <2>3. applied[c] # 0  BY <2>2 DEF CardInv, OpenDecision, Undecided
  <2> QED  BY <2>1, <2>3
<1> QED  BY <1>1, TurnsInvariant, TypeInvariant, PTL
=============================================================================
