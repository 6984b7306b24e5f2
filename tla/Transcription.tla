---------------------------- MODULE Transcription ----------------------------
(***************************************************************************)
(* The saved-audio pipeline of one note (docs/adr/0026):                   *)
(*   - the per-note queue of processing passes (domain/processing_queue.rs)*)
(*   - a pass: the first processing of a recording, its retry or its       *)
(*     recovery (commands.rs, domain/processing.rs);                       *)
(*   - the ledger note_transcription_jobs and the rows of transcripts,     *)
(*     which are what the note shows (db/repositories.rs).                 *)
(*                                                                         *)
(* One recording. A span of its audio is one turn of a source, or the      *)
(* whole source (the fallback when its turns gave too little text). A pass *)
(* takes the note's lock, plans the spans, reconciles the ledger with the  *)
(* plan, transcribes what is pending, one request per source at a time,    *)
(* and generates the note. The app may stop anywhere.                      *)
(*                                                                         *)
(* A transcription is told apart by its span and its configuration         *)
(* fingerprint. Of what that covers, a pass reads the title and the        *)
(* dictionary once and sends what it read (the words); the language and    *)
(* the provider (the route) it reads for the fingerprint, and each request *)
(* reads them anew (processing.rs, transcribe_prepared_audio; clovy_api.rs,*)
(* transcribe_saved_audio). A job may so get text of another route than    *)
(* its fingerprint says. Which model a provider runs is read with each     *)
(* request too; it is in no fingerprint, and not modelled.                 *)
(***************************************************************************)
EXTENDS Integers, FiniteSets

CONSTANTS
    Pass,         \* processing passes, numbered as they are asked for
    NoPass,       \* no pass
    Source,       \* sources of the recording, in the order of their fallbacks
    Span,         \* spans of its audio
    NoSpan,       \* no span
    SourceOf,     \* the source of each span
    Fallback,     \* the spans that are whole sources
    Plans,        \* what a pass may plan: the turn_index of each of some spans
    MaxConfig,    \* bound: words, and routes
    MaxEdits,     \* bound: changes of the settings
    MaxRestarts,  \* bound: restarts of the app
    MaxFaults     \* bound: writes that fail

ASSUME ConstAssumption ==
    /\ Pass \subseteq Nat /\ NoPass \notin Pass /\ NoSpan \notin Span
    /\ Source \subseteq Nat /\ SourceOf \in [Span -> Source] /\ Fallback \subseteq Span
    /\ \A plan \in Plans : /\ DOMAIN plan \subseteq Span
                           /\ \A x \in DOMAIN plan : plan[x] \in Nat
    /\ MaxConfig \in Nat \ {0} /\ MaxEdits \in Nat
    /\ MaxRestarts \in Nat /\ MaxFaults \in Nat

\* A plan numbers its turns one by one (audio/turns.rs:209, 308; processing.rs,
\* add_full_source_turns_for_missing_sources) and has one fallback for a source
\* (build_source_fallback_plans).
ASSUME PlanAssumption ==
    \A plan \in Plans : \A x, y \in DOMAIN plan :
       (SourceOf[x] = SourceOf[y] /\ (x \in Fallback <=> y \in Fallback)
        /\ (x \in Fallback \/ plan[x] = plan[y])) => x = y

VARIABLES
    \* the database
    job,        \* the job of each span
    rows,       \* the transcripts
    status,     \* processing_status of the note
    \* the process
    repaired,   \* TRANSCRIPTION_STARTUP_REPAIR
    entry,      \* the note's NoteQueue in QUEUES, named for the pass that made it
    pass,       \* each pass: where it is and what it read
    lane,       \* the span each pass has under way for each source, and how far
    \* the settings
    config,     \* the present words and route
    \* history
    stranded,   \* jobs whose last write failed
    edits, restarts, faults

ledger  == <<job, rows>>
queue   == <<entry, pass>>
settings == <<config, edits>>
bounds  == <<restarts, faults>>
vars    == <<ledger, status, repaired, queue, lane, settings, stranded, bounds>>

-----------------------------------------------------------------------------
(* Vocabulary *)

JobStatus  == {"none", "pending", "running", "succeeded", "failed", "superseded"}
PassStep   == {"none", "queued", "setup", "plan", "stream", "fallback", "judge", "generate",
               "failing", "finish", "unlock", "done"}
\* A pass that holds the lock of its queue.
Locked     == PassStep \ {"none", "queued", "done"}
\* Its pipeline is under way.
AtWork     == Locked \ {"finish", "unlock"}
\* It has read the provider and may still send requests.
Asking     == {"plan", "stream", "fallback"}
LaneStep   == {"idle", "claim", "request", "answered", "refused"}

Config     == [words : 0..MaxConfig, route : 0..MaxConfig]
NoConfig   == [words |-> 0, route |-> 0]
Idle       == [at |-> "idle", span |-> NoSpan, route |-> 0]
NotAsked   == [step |-> "none", queue |-> NoPass, first |-> FALSE, config |-> NoConfig,
               crossed |-> FALSE, todo |-> {}, spare |-> {}, error |-> FALSE, got |-> {}, lost |-> {}]
NoJob      == [status |-> "none", config |-> NoConfig, index |-> 0]

Turn       == Span \ Fallback
TurnsOf(s) == {x \in Turn : SourceOf[x] = s}
Of(s)      == {x \in Span : SourceOf[x] = s}

\* The row a job's transcript_id names, if any.
Named(x)   == {r \in rows : x \in r.jobs}
\* The transcripts the note is generated from, and the cache of a later pass.
Certified(r) == r.span \in r.jobs /\ job[r.span].status = "succeeded"

At(p, step)   == pass[p].step = step
Busy(p, s)    == lane[p][s].at # "idle"
Resting(p)    == \A s \in Source : ~Busy(p, s)
Goto(p, step) ==
    pass' = [pass EXCEPT ![p].step = step, ![p].crossed = @ /\ step \in Asking]
Move(p, s, at, x, route) ==
    lane' = [lane EXCEPT ![p][s] = [at |-> at, span |-> x, route |-> route]]
Free(p, s)    == lane' = [lane EXCEPT ![p][s] = Idle]

Init ==
    /\ job = [x \in Span |-> NoJob] /\ rows = {} /\ status = "settled"
    /\ repaired = FALSE /\ entry = NoPass
    /\ pass = [p \in Pass |-> NotAsked]
    /\ lane = [p \in Pass |-> [s \in Source |-> Idle]]
    /\ config = [words |-> 1, route |-> 1] /\ stranded = {}
    /\ edits = 0 /\ restarts = 0 /\ faults = 0

-----------------------------------------------------------------------------
(* The process: bootstrap_app, its end, and the settings *)

\* release_interrupted_note_transcription_jobs
Release ==
    /\ job' = [x \in Span |-> IF job[x].status = "running"
                              THEN [job[x] EXCEPT !.status = "pending"] ELSE job[x]]
    /\ status' = IF status = "working" THEN "settled" ELSE status
    /\ repaired' = TRUE /\ stranded' = {}
    /\ UNCHANGED <<rows, queue, lane, settings, bounds>>

\* Faulty variants: every load of the window repairs; the note stays at work.
BootstrapAlways == Release
BootstrapJobsOnly ==
    /\ ~repaired /\ repaired' = TRUE /\ stranded' = {}
    /\ job' = [x \in Span |-> IF job[x].status = "running"
                              THEN [job[x] EXCEPT !.status = "pending"] ELSE job[x]]
    /\ UNCHANGED <<rows, status, queue, lane, settings, bounds>>

\* The window calls bootstrap_app each time it loads; only the first call of a
\* process repairs. Until then the window offers nothing else.
Bootstrap == ~repaired /\ Release

\* The app stops; the database stays.
Restart ==
    /\ restarts < MaxRestarts /\ restarts' = restarts + 1
    /\ repaired' = FALSE /\ entry' = NoPass
    /\ pass' = [p \in Pass |-> IF At(p, "none") THEN NotAsked
                               ELSE [NotAsked EXCEPT !.step = "done"]]
    /\ lane' = [p \in Pass |-> [s \in Source |-> Idle]]
    /\ UNCHANGED <<ledger, status, settings, stranded, faults>>

\* The user edits the title or the dictionary, or chooses another language or
\* provider, also while a pass is under way.
EditWords ==
    /\ edits < MaxEdits /\ edits' = edits + 1
    /\ \E n \in 1..MaxConfig \ {config.words} : config' = [config EXCEPT !.words = n]
    /\ UNCHANGED <<ledger, status, repaired, queue, lane, stranded, bounds>>
EditRoute ==
    /\ edits < MaxEdits /\ edits' = edits + 1
    /\ \E n \in 1..MaxConfig \ {config.route} : config' = [config EXCEPT !.route = n]
    /\ pass' = [p \in Pass |-> [pass[p] EXCEPT !.crossed = @ \/ pass[p].step \in Asking]]
    /\ UNCHANGED <<ledger, status, repaired, entry, lane, stranded, bounds>>

-----------------------------------------------------------------------------
(* The queue: processing_queue::enqueue, the lock, ProcessingTicket::finish *)

\* The tickets of a queue that are not finished: its pending count.
Pending(q) == {p \in Pass : pass[p].queue = q /\ pass[p].step \notin {"none", "unlock", "done"}}

\* Faulty variant: each ticket brings a lock of its own.
EnqueueOwn(p) ==
    /\ repaired /\ At(p, "none") /\ \A o \in Pass : o < p => ~At(o, "none")
    /\ entry' = p
    /\ pass' = [pass EXCEPT ![p].step = "queued", ![p].queue = p]
    /\ UNCHANGED <<ledger, status, repaired, lane, settings, stranded, bounds>>

\* finish_recording, retry_processing or recover_recording takes a ticket. But
\* for a recovery, the first in line shows the note at work.
Enqueue(p) ==
    /\ repaired /\ At(p, "none") /\ \A o \in Pass : o < p => ~At(o, "none")
    /\ \E recovery \in BOOLEAN :
       LET q == IF entry = NoPass THEN p ELSE entry
       IN  /\ entry' = q
           /\ pass' = [pass EXCEPT ![p].step = "queued", ![p].queue = q,
                                   ![p].first = ~recovery /\ Pending(q) = {}]
    /\ UNCHANGED <<ledger, status, repaired, lane, settings, stranded, bounds>>
ShowFirst(p) ==
    /\ At(p, "queued") /\ pass[p].first
    /\ status' = "working" /\ pass' = [pass EXCEPT ![p].first = FALSE]
    /\ UNCHANGED <<ledger, repaired, entry, lane, settings, stranded, bounds>>

Acquire(p) ==
    /\ At(p, "queued") /\ ~pass[p].first
    /\ \A o \in Pass : pass[o].queue = pass[p].queue => pass[o].step \notin Locked
    /\ Goto(p, "setup")
    /\ UNCHANGED <<ledger, status, repaired, entry, lane, settings, stranded, bounds>>

\* The entry is pruned with its last ticket; then the guard drops.
Finish(p) ==
    /\ At(p, "finish") /\ Goto(p, "unlock")
    /\ entry' = IF entry = pass[p].queue /\ Pending(entry) = {p} THEN NoPass ELSE entry
    /\ UNCHANGED <<ledger, status, repaired, lane, settings, stranded, bounds>>
Unlock(p) ==
    /\ At(p, "unlock") /\ pass' = [pass EXCEPT ![p] = [NotAsked EXCEPT !.step = "done"]]
    /\ UNCHANGED <<ledger, status, repaired, entry, lane, settings, stranded, bounds>>

-----------------------------------------------------------------------------
(* The plan of a pass: the first half of process_saved_source_audio_pipeline *)

\* Another turn detection or an unreadable file may end the pass.
Trouble(p) ==
    /\ pass[p].step \in {"setup", "plan", "generate"} /\ Goto(p, "failing")
    /\ UNCHANGED <<ledger, status, repaired, entry, lane, settings, stranded, bounds>>

\* The note is at work; its title, the dictionary and the provider are read.
Setup(p) ==
    /\ At(p, "setup") /\ status' = "working"
    /\ pass' = [pass EXCEPT ![p].step = "plan", ![p].config = config]
    /\ UNCHANGED <<ledger, repaired, entry, lane, settings, stranded, bounds>>

\* The text of a succeeded job serves again under the same fingerprint.
ReusableAnyConfig(x, cfg) == job[x].status = "succeeded" /\ Named(x) # {}
Reusable(x, cfg) ==
    job[x].status = "succeeded" /\ job[x].config = cfg /\ Named(x) # {}

\* A row that is not certified stays as the last known good text while its
\* source is planned and not yet replaced as a whole.
KeepsNothing(r, current, replaced) == FALSE
KeepsLastGood(r, current, replaced) == r.source \in current \ replaced

\* The sources a certified fallback stands for.
ReplacedBy(reused) == {SourceOf[x] : x \in reused \cap Fallback}

\* The ledger after the plan: what is not planned, or stood for by a fallback,
\* is superseded; what runs goes on; the rest is to be done again.
Planned(plan, cfg, reused) ==
    LET after(x) == IF x \in Turn /\ SourceOf[x] \in ReplacedBy(reused) THEN "superseded"
                    ELSE IF x \in reused THEN "succeeded"
                    ELSE IF job[x].status = "running" THEN "running" ELSE "pending"
    IN  [x \in Span |->
           IF x \in DOMAIN plan THEN [status |-> after(x), config |-> cfg, index |-> plan[x]]
           ELSE IF job[x].status = "none" THEN job[x]
           ELSE [job[x] EXCEPT !.status = "superseded"]]

\* The sources whose turns have all succeeded.
Complete(ledgerOf) ==
    {s \in Source : LET live == {x \in TurnsOf(s) : ledgerOf[x].status \notin {"none", "superseded"}}
                    IN  live # {} /\ \A x \in live : ledgerOf[x].status = "succeeded"}

\* The rows after the plan: certified rows move to their new place; others stay
\* as last known good text where no certified row takes their place.
Projected(plan, reused, ledgerOf) ==
    LET kept    == {x \in reused : x \in Fallback \/ SourceOf[x] \notin ReplacedBy(reused)}
        certain == UNION {{[source |-> SourceOf[x], index |-> plan[x], span |-> x,
                            cfg |-> r.cfg, crossed |-> r.crossed,
                            jobs |-> {x}] : r \in Named(x)} : x \in kept}
        backup  == {r \in rows :
                      /\ r.jobs \cap kept = {}
                      /\ KeepsLastGood(r, {SourceOf[x] : x \in DOMAIN plan},
                                       ReplacedBy(reused) \cup Complete(ledgerOf))
                      /\ \A c \in certain : <<c.source, c.index>> # <<r.source, r.index>>}
    IN  certain \cup {[r EXCEPT !.jobs = {}] : r \in backup}

\* The fingerprint is made, with the language of now: when the route changed
\* since the provider was read, it was in the one or the other. Then
\* reconcile_note_transcription_jobs and what the pass takes from its answer: a
\* job that runs under another fingerprint refuses the plan; a turn that runs
\* already ends the pass.
Reconcile(p, plan, route) ==
    LET cfg    == [words |-> pass[p].config.words, route |-> route]
        reused == {x \in DOMAIN plan : Reusable(x, cfg)}
        planned == Planned(plan, cfg, reused)
        pending(kind) == {x \in kind \cap DOMAIN plan : planned[x].status = "pending"}
        kept   == {SourceOf[x] : x \in {y \in DOMAIN plan : planned[y].status = "succeeded"}}
        taken  == \E x \in Turn \cap DOMAIN plan : planned[x].status = "running"
    IN  /\ At(p, "plan") /\ route \in {pass[p].config.route, config.route}
        /\ IF \E x \in DOMAIN plan : job[x].status = "running" /\ job[x].config # cfg
           THEN Goto(p, "failing") /\ UNCHANGED ledger
           ELSE /\ job' = planned /\ rows' = Projected(plan, reused, planned)
                /\ IF taken THEN Goto(p, "failing")
                   ELSE pass' = [pass EXCEPT ![p].step = "stream", ![p].config = cfg,
                                             ![p].todo = pending(Turn),
                                             ![p].spare = pending(Fallback), ![p].got = kept]
        /\ UNCHANGED <<status, repaired, entry, lane, settings, stranded, bounds>>

-----------------------------------------------------------------------------
(* The requests: transcribe_prepared_turn_stream, transcribe_one_turn_job,  *)
(* persist_turn_transcription_event                                         *)

\* No new request after an error; those under way end.
Broken(p) == [pass EXCEPT ![p].error = TRUE, ![p].todo = {}]

\* Faulty variant: the lane of a source takes the next turn of any.
LaunchAny(p, s) ==
    /\ At(p, "stream") /\ ~pass[p].error /\ ~Busy(p, s)
    /\ \E x \in pass[p].todo :
          Move(p, s, "claim", x, 0) /\ pass' = [pass EXCEPT ![p].todo = @ \ {x}]
    /\ UNCHANGED <<ledger, status, repaired, entry, settings, stranded, bounds>>

\* The turns of a source go one at a time, in order.
Launch(p, s) ==
    /\ At(p, "stream") /\ ~pass[p].error /\ ~Busy(p, s)
    /\ \E x \in pass[p].todo \cap Of(s) :
          /\ \A y \in pass[p].todo \cap Of(s) : job[x].index <= job[y].index
          /\ Move(p, s, "claim", x, 0) /\ pass' = [pass EXCEPT ![p].todo = @ \ {x}]
    /\ UNCHANGED <<ledger, status, repaired, entry, settings, stranded, bounds>>

\* A turn's audio cannot be prepared.
PrepareFails(p) ==
    /\ At(p, "stream") /\ pass[p].todo # {} /\ pass' = Broken(p)
    /\ UNCHANGED <<ledger, status, repaired, entry, lane, settings, stranded, bounds>>

\* claim_note_transcription_job; then the request reads the language, ...
Claim(p, s) ==
    LET x == lane[p][s].span
    IN  /\ lane[p][s].at = "claim"
        /\ IF job[x].status = "pending"
           THEN /\ job' = [job EXCEPT ![x].status = "running"]
                /\ Move(p, s, "request", x, config.route) /\ UNCHANGED pass
           ELSE Free(p, s) /\ pass' = Broken(p) /\ UNCHANGED job
        /\ UNCHANGED <<rows, status, repaired, entry, settings, stranded, bounds>>

\* ... each attempt of it the provider, which answers with text or fails.
Answer(p, s) ==
    /\ lane[p][s].at = "request"
    /\ \/ \E route \in {lane[p][s].route, config.route} :
             Move(p, s, "answered", lane[p][s].span, route)
       \/ Move(p, s, "refused", lane[p][s].span, 0)
    /\ UNCHANGED <<ledger, status, repaired, queue, settings, stranded, bounds>>

\* complete_note_transcription_job_success: the new row, at the place the job
\* names; a fallback replaces its source; the last turn of a source retires the
\* fallback and every row that is not of a succeeded turn. The text is of the
\* words the pass sent and of the route the request took.
Success(p, s) ==
    LET x      == lane[p][s].span
        whole  == x \in Fallback
        left   == {r \in rows : r.span # x /\ ~(whole /\ r.source = s)}
        here(r) == r.source = s /\ r.index = job[x].index
        new    == [source |-> s, index |-> job[x].index, span |-> x, crossed |-> pass[p].crossed,
                   cfg |-> [words |-> pass[p].config.words, route |-> lane[p][s].route],
                   jobs |-> {x} \cup UNION {r.jobs : r \in {q \in left : here(q)}}]
        done   == [job EXCEPT ![x].status = "succeeded"]
        last   == ~whole /\ s \in Complete(done)
        fresh  == {r \in left : ~here(r)} \cup {new}
        retired(y) == /\ y # x /\ SourceOf[y] = s /\ job[y].status # "none"
                      /\ whole \/ (last /\ y \in Fallback /\ job[y].status = "pending")
    IN  /\ job' = [y \in Span |-> IF retired(y) THEN [done[y] EXCEPT !.status = "superseded"]
                                   ELSE done[y]]
        /\ rows' = {[r EXCEPT !.jobs = {y \in @ : ~retired(y)}] :
                      r \in {q \in fresh : ~last \/ q.source # s
                                          \/ (q.span \in Turn /\ done[q.span].status = "succeeded")}}

Mark(x, as) == job' = [job EXCEPT ![x].status = as] /\ UNCHANGED rows

\* A job that no longer runs takes no answer.
Persist(p, s) ==
    LET x == lane[p][s].span
    IN  /\ lane[p][s].at \in {"answered", "refused"} /\ Free(p, s)
        /\ IF job[x].status # "running" THEN pass' = Broken(p) /\ UNCHANGED ledger
           ELSE IF lane[p][s].at = "answered"
           THEN /\ Success(p, s)
                /\ pass' = [pass EXCEPT ![p].got = @ \cup {s},
                              ![p].lost = IF x \in Fallback THEN @ \ {s} ELSE @]
           ELSE Mark(x, "failed") /\ pass' = [pass EXCEPT ![p].lost = @ \cup {s}]
        /\ UNCHANGED <<status, repaired, entry, settings, stranded, bounds>>

\* A write of an answer fails. A text that cannot be written marks its job
\* failed, a failure whose warning cannot be shown has; or no write succeeds.
PersistFails(p, s) ==
    LET x == lane[p][s].span
    IN  /\ lane[p][s].at \in {"answered", "refused"} /\ Free(p, s)
        /\ faults < MaxFaults /\ faults' = faults + 1 /\ pass' = Broken(p)
        /\ \/ job[x].status = "running" /\ Mark(x, "failed") /\ UNCHANGED stranded
           \/ stranded' = stranded \cup {x} /\ UNCHANGED ledger
        /\ UNCHANGED <<status, repaired, entry, settings, restarts>>

StreamEnds(p) ==
    /\ At(p, "stream") /\ Resting(p) /\ pass[p].todo = {}
    /\ Goto(p, IF pass[p].error THEN "failing" ELSE "fallback")
    /\ UNCHANGED <<ledger, status, repaired, entry, lane, settings, stranded, bounds>>

-----------------------------------------------------------------------------
(* The fallbacks, one after the other: transcribe_source_fallbacks *)

\* The first fallback not yet considered.
NextFallback(p, x) ==
    /\ At(p, "fallback") /\ ~pass[p].error /\ Resting(p) /\ x \in pass[p].spare
    /\ \A y \in pass[p].spare : SourceOf[x] <= SourceOf[y]

\* source_lane_needs_full_source_fallback: without text it must be; with too
\* little, so not of all its turns, it may be.
MayNeed(p, x) == SourceOf[x] \notin pass[p].got \/ SourceOf[x] \notin Complete(job)

FallbackLaunch(p, x) ==
    /\ NextFallback(p, x) /\ MayNeed(p, x)
    /\ Move(p, SourceOf[x], "claim", x, 0) /\ pass' = [pass EXCEPT ![p].spare = @ \ {x}]
    /\ UNCHANGED <<ledger, status, repaired, entry, settings, stranded, bounds>>
FallbackSkip(p, x) ==
    /\ NextFallback(p, x) /\ SourceOf[x] \in pass[p].got
    /\ pass' = [pass EXCEPT ![p].spare = @ \ {x}]
    /\ UNCHANGED <<ledger, status, repaired, entry, lane, settings, stranded, bounds>>
\* An error before, or in the preparation of a fallback.
FallbackFails(p) ==
    /\ At(p, "fallback") /\ Resting(p)
    /\ pass[p].error \/ \E x \in Fallback : NextFallback(p, x) /\ MayNeed(p, x)
    /\ Goto(p, "failing")
    /\ UNCHANGED <<ledger, status, repaired, entry, lane, settings, stranded, bounds>>

\* Faulty variant: a fallback that was not needed stays pending.
FallbacksLeft(p) ==
    /\ At(p, "fallback") /\ ~pass[p].error /\ Resting(p) /\ pass[p].spare = {}
    /\ Goto(p, "judge")
    /\ UNCHANGED <<ledger, status, repaired, entry, lane, settings, stranded, bounds>>

\* supersede_pending_note_transcription_fallbacks
FallbacksDone(p) ==
    /\ At(p, "fallback") /\ ~pass[p].error /\ Resting(p) /\ pass[p].spare = {}
    /\ LET over == {x \in Fallback : job[x].status = "pending"}
       IN  /\ job' = [x \in Span |-> IF x \in over THEN [job[x] EXCEPT !.status = "superseded"]
                                      ELSE job[x]]
           /\ rows' = {[r EXCEPT !.jobs = @ \ over] : r \in rows}
    /\ Goto(p, "judge")
    /\ UNCHANGED <<status, repaired, entry, lane, settings, stranded, bounds>>

-----------------------------------------------------------------------------
(* The note: the end of process_saved_source_audio_pipeline *)

\* Without text the pass fails; with a source that failed it may, unless the
\* source was silent.
Judge(p) ==
    /\ At(p, "judge")
    /\ LET text == \E r \in rows : Certified(r)
       IN  \/ /\ ~text \/ pass[p].lost # {}
              /\ Goto(p, "failing") /\ UNCHANGED status
           \/ text /\ Goto(p, "generate") /\ status' = "working"
    /\ UNCHANGED <<ledger, repaired, entry, lane, settings, stranded, bounds>>

\* set_generated_note_for_session
Generate(p) ==
    /\ At(p, "generate") /\ status' = "settled" /\ Goto(p, "finish")
    /\ UNCHANGED <<ledger, repaired, entry, lane, settings, stranded, bounds>>

\* complete_note_processing_run with an error
Fails(p) ==
    /\ At(p, "failing") /\ status' = "settled" /\ Goto(p, "finish")
    /\ UNCHANGED <<ledger, repaired, entry, lane, settings, stranded, bounds>>

-----------------------------------------------------------------------------
LaneSteps(p, s) == Launch(p, s) \/ Claim(p, s) \/ Answer(p, s) \/ Persist(p, s)
                   \/ PersistFails(p, s)
Steps(p) ==
    \/ ShowFirst(p) \/ Finish(p) \/ Unlock(p)
    \/ Setup(p) \/ Trouble(p)
    \/ (\E plan \in Plans, route \in 0..MaxConfig : Reconcile(p, plan, route))
    \/ (\E s \in Source : LaneSteps(p, s)) \/ PrepareFails(p) \/ StreamEnds(p)
    \/ (\E x \in Fallback : FallbackLaunch(p, x) \/ FallbackSkip(p, x))
    \/ FallbackFails(p) \/ FallbacksDone(p)
    \/ Judge(p) \/ Generate(p) \/ Fails(p)
Next ==
    \/ Bootstrap \/ Restart \/ EditWords \/ EditRoute
    \/ \E p \in Pass : Enqueue(p) \/ Acquire(p) \/ Steps(p)

Spec == Init /\ [][Next]_vars

\* The started window repairs; the tasks of a pass go on; the tokio mutex hands
\* the lock to a waiting pass. Nothing is asked of the user.
FairSpec == /\ Spec /\ WF_vars(Bootstrap)
            /\ \A p \in Pass : WF_vars(Acquire(p)) /\ WF_vars(Steps(p))

-----------------------------------------------------------------------------
(* Properties *)

Asked == [step : PassStep, queue : Pass \cup {NoPass}, first : BOOLEAN, config : Config,
          crossed : BOOLEAN, todo : SUBSET Turn, spare : SUBSET Fallback, error : BOOLEAN,
          got : SUBSET Source, lost : SUBSET Source]
Job == [status : JobStatus, config : Config, index : Nat]
Row == [source : Source, index : Nat, span : Span, cfg : Config, crossed : BOOLEAN,
        jobs : SUBSET Span]

\* The types. A lane holds a span of its own source, exactly while it is busy.
TypeOK ==
    /\ job \in [Span -> Job] /\ rows \in SUBSET Row /\ status \in {"settled", "working"}
    /\ repaired \in BOOLEAN /\ entry \in Pass \cup {NoPass}
    /\ pass \in [Pass -> Asked]
    /\ lane \in [Pass -> [Source -> [at : LaneStep, span : Span \cup {NoSpan},
                                     route : 0..MaxConfig]]]
    /\ \A p \in Pass, s \in Source :
          IF Busy(p, s) THEN lane[p][s].span \in Of(s) ELSE lane[p][s].span = NoSpan
    /\ config \in Config /\ stranded \subseteq Span
    /\ edits \in 0..MaxEdits /\ restarts \in 0..MaxRestarts /\ faults \in 0..MaxFaults

\* Two passes are never both under way, although an entry of QUEUES goes while
\* a pass holds its lock and another one may take its place: each pass builds on
\* the text and the note the one before it left (processing_queue.rs:11).
OnePass ==
    \A p, o \in Pass : pass[p].step \in AtWork /\ pass[o].step \in AtWork => p = o

\* A request under way holds its job: it runs, and was planned under the
\* fingerprint of the request's pass. And a job runs only for a request, until
\* the start-up repair, or because the write of its end failed: no span is paid
\* for twice at a time and none is forgotten (commands.rs:71).
InFlight(x) == {p \in Pass : \E s \in Source : lane[p][s].span = x /\ lane[p][s].at # "claim"}
RequestsHoldJobs ==
    \A x \in Span :
      /\ \A p \in InFlight(x) : job[x].status = "running" /\ job[x].config = pass[p].config
      /\ Cardinality(InFlight(x)) <= 1
      /\ job[x].status = "running" => InFlight(x) # {} \/ ~repaired \/ x \in stranded

\* The text of a row was made from what a fingerprint says: the same words, and
\* the same route unless the language or the provider was changed while the pass
\* that made it was asking. After such a change the row holds text of another
\* language or provider than its job says, which a later pass takes for text of
\* its own fingerprint (README, section 6).
MadeUnder(r, cfg) ==
    r.cfg.words = cfg.words /\ (r.cfg.route = cfg.route \/ r.crossed)

\* The ledger tells the truth about the text: a succeeded job has one row, of
\* its span, at its place, made under its fingerprint as far as MadeUnder goes,
\* whatever plans, failed writes and restarts came since; and a source is not
\* told twice, by its fallback and by its turns (docs/adr/0026, "Decision").
CertifiedText ==
    /\ \A x \in Span : job[x].status = "succeeded" =>
          /\ \E r \in rows : /\ Named(x) = {r} /\ r.span = x /\ MadeUnder(r, job[x].config)
                             /\ r.source = SourceOf[x] /\ r.index = job[x].index
          /\ x \in Fallback => \A y \in TurnsOf(SourceOf[x]) : job[y].status # "succeeded"
    /\ \A r, q \in rows : r.source = q.source /\ r.index = q.index => r = q

\* When the note is generated, no planned work is left over, and all the text it
\* is generated from was made under the fingerprint of this pass as far as
\* MadeUnder goes: also what an earlier pass made (docs/adr/0026, addendum: a
\* successful note has no orphaned pending work).
GeneratesFromPlan ==
    \A p \in Pass : At(p, "generate") =>
      /\ \A x \in Span : /\ job[x].status # "pending"
                         /\ job[x].status = "running" => x \in stranded
      /\ \A r \in rows : Certified(r) => MadeUnder(r, pass[p].config)

\* A source that has text keeps some, whatever fails, until it leaves the plan:
\* a failed replacement cannot destroy usable text (docs/adr/0026).
SourceKeepsText(s) ==
    (\E r \in rows : r.source = s) =>
      \/ \E r \in rows' : r.source = s
      \/ \A x \in Of(s) : job'[x].status \in {"none", "superseded"}
TextStays == [][\A s \in Source : SourceKeepsText(s)]_vars

\* A note at work settles: its passes end and say so, after a restart too.
NoteSettles == (status = "working") ~> (status = "settled")
=============================================================================
