------------------------- MODULE TranscriptionProofs -------------------------
(***************************************************************************)
(* Theorems about Transcription, for every number of passes, sources and   *)
(* spans and every plan: the types, one pass of a note at a time, and the  *)
(* correspondence of running jobs and requests.                            *)
(***************************************************************************)
EXTENDS Transcription, FiniteSetTheorems, TLAPS

-----------------------------------------------------------------------------
(* The types *)

JobsTyped == job \in [Span -> Job]
RowsTyped == rows \in SUBSET Row
PassTyped == pass \in [Pass -> Asked]
LaneState == [at : LaneStep, span : Span \cup {NoSpan}, route : 0..MaxConfig]
LaneTyped ==
    /\ lane \in [Pass -> [Source -> LaneState]]
    /\ \A p \in Pass, s \in Source :
          IF Busy(p, s) THEN lane[p][s].span \in Of(s) ELSE lane[p][s].span = NoSpan
RestTyped ==
    /\ status \in {"settled", "working"} /\ repaired \in BOOLEAN /\ entry \in Pass \cup {NoPass}
    /\ config \in Config /\ stranded \subseteq Span
    /\ edits \in 0..MaxEdits /\ restarts \in 0..MaxRestarts /\ faults \in 0..MaxFaults

LEMMA TypeParts == TypeOK <=> JobsTyped /\ RowsTyped /\ PassTyped /\ LaneTyped /\ RestTyped
  BY DEF TypeOK, JobsTyped, RowsTyped, PassTyped, LaneTyped, LaneState, RestTyped

LEMMA TypePartsNext ==
    TypeOK' <=> JobsTyped' /\ RowsTyped' /\ PassTyped' /\ LaneTyped' /\ RestTyped'
  BY DEF TypeOK, JobsTyped, RowsTyped, PassTyped, LaneTyped, LaneState, RestTyped, Busy

LEMMA SpanFacts ==
    /\ Turn \subseteq Span /\ Fallback \subseteq Span
    /\ \A s : Of(s) \subseteq Span
    /\ \A x \in Span : SourceOf[x] \in Source /\ x \in Of(SourceOf[x])
    /\ \A s \in Source : \A x \in Of(s) : SourceOf[x] = s
  BY ConstAssumption DEF ConstAssumption, Turn, Of

LEMMA NoConfigTyped == NoConfig \in Config
  BY ConstAssumption DEF ConstAssumption, NoConfig, Config

LEMMA NotAskedTyped == NotAsked \in Asked /\ [NotAsked EXCEPT !.step = "done"] \in Asked
<1>1. NotAsked \in Asked
  <2> HIDE DEF Config, NoConfig
  <2> QED BY NoConfigTyped DEF NotAsked, Asked, PassStep
<1>2. \A r \in Asked : [r EXCEPT !.step = "done"] \in Asked
  BY DEF Asked, PassStep
<1> QED BY <1>1, <1>2

LEMMA IdleTyped == Idle \in LaneState
  BY ConstAssumption DEF ConstAssumption, Idle, LaneState, LaneStep

\* A pass whose record keeps its type.
LEMMA RecordTyped ==
    ASSUME PassTyped, NEW p \in Pass, NEW r \in Asked, pass' = [pass EXCEPT ![p] = r]
    PROVE  PassTyped'
  BY DEF PassTyped

LEMMA InitTypes == Init => TypeOK
<1> SUFFICES ASSUME Init PROVE JobsTyped /\ RowsTyped /\ PassTyped /\ LaneTyped /\ RestTyped
  BY TypeParts
<1>1. JobsTyped
  <2>1. NoJob \in Job
    BY NoConfigTyped DEF NoJob, Job, JobStatus
  <2> QED BY <2>1 DEF Init, JobsTyped
<1>2. PassTyped
  BY NotAskedTyped DEF Init, PassTyped
<1>3. LaneTyped
  BY IdleTyped DEF Init, LaneTyped, Busy, Idle
<1>4. /\ rows = {} /\ status = "settled" /\ repaired = FALSE /\ entry = NoPass
      /\ config = [words |-> 1, route |-> 1] /\ stranded = {}
      /\ edits = 0 /\ restarts = 0 /\ faults = 0
  BY DEF Init
<1>5. /\ MaxConfig \in Nat \ {0} /\ MaxEdits \in Nat
      /\ MaxRestarts \in Nat /\ MaxFaults \in Nat
  BY ConstAssumption DEF ConstAssumption
<1>6. RowsTyped
  BY <1>4 DEF RowsTyped
<1>7. RestTyped
  <2>1. /\ 0 \in 0..MaxEdits /\ 0 \in 0..MaxRestarts /\ 0 \in 0..MaxFaults
    BY <1>5
  <2>2. config \in Config
    BY <1>4, <1>5 DEF Config
  <2> QED BY <1>4, <2>1, <2>2 DEF RestTyped
<1> QED BY <1>1, <1>2, <1>3, <1>6, <1>7

LEMMA GotoTyped ==
    ASSUME PassTyped, NEW p \in Pass, NEW step \in PassStep, Goto(p, step)
    PROVE  PassTyped'
<1> DEFINE then == [pass[p] EXCEPT !.step = step, !.crossed = @ /\ step \in Asking]
<1>1. then \in Asked
  <2>1. pass[p] \in Asked
    BY DEF PassTyped
  <2> QED BY <2>1 DEF Asked
<1>2. pass' = [pass EXCEPT ![p] = then]
  BY DEF Goto
<1> HIDE DEF then
<1> QED BY <1>1, <1>2, RecordTyped

LEMMA BrokenTyped ==
    ASSUME PassTyped, NEW p \in Pass, pass' = Broken(p)
    PROVE  PassTyped'
<1>1. [pass[p] EXCEPT !.error = TRUE, !.todo = {}] \in Asked
  BY DEF PassTyped, Asked
<1>2. pass' = [pass EXCEPT ![p] = [pass[p] EXCEPT !.error = TRUE, !.todo = {}]]
  BY DEF Broken
<1> HIDE DEF Asked
<1> QED BY <1>1, <1>2 DEF PassTyped

LEMMA MoveTyped ==
    ASSUME LaneTyped, NEW p \in Pass, NEW s \in Source, NEW at \in LaneStep \ {"idle"},
           NEW x \in Of(s), NEW route \in 0..MaxConfig, Move(p, s, at, x, route)
    PROVE  LaneTyped'
<1> DEFINE moved == [at |-> at, span |-> x, route |-> route]
<1>1. x \in Span
  BY SpanFacts
<1>0. moved \in LaneState
  BY <1>1 DEF LaneState
<1>2. lane' \in [Pass -> [Source -> LaneState]]
  BY <1>0 DEF LaneTyped, Move
<1>3. ASSUME NEW q \in Pass, NEW t \in Source
      PROVE  lane'[q][t] = IF q = p /\ t = s THEN moved ELSE lane[q][t]
  BY DEF LaneTyped, Move
<1>4. \A q \in Pass, t \in Source :
        IF lane'[q][t].at # "idle" THEN lane'[q][t].span \in Of(t) ELSE lane'[q][t].span = NoSpan
  <2> SUFFICES ASSUME NEW q \in Pass, NEW t \in Source
               PROVE  IF lane'[q][t].at # "idle" THEN lane'[q][t].span \in Of(t)
                      ELSE lane'[q][t].span = NoSpan
    OBVIOUS
  <2>1. CASE q = p /\ t = s
    BY <2>1, <1>3
  <2>2. CASE ~(q = p /\ t = s)
    BY <2>2, <1>3 DEF LaneTyped, Busy
  <2> QED BY <2>1, <2>2
<1> QED BY <1>2, <1>4 DEF LaneTyped, Busy

LEMMA FreeTyped ==
    ASSUME LaneTyped, NEW p \in Pass, NEW s \in Source, Free(p, s)
    PROVE  LaneTyped'
<1>2. lane' \in [Pass -> [Source -> LaneState]]
  BY IdleTyped DEF LaneTyped, Free
<1>3. ASSUME NEW q \in Pass, NEW t \in Source
      PROVE  lane'[q][t] = IF q = p /\ t = s THEN Idle ELSE lane[q][t]
  BY DEF LaneTyped, Free
<1>4. \A q \in Pass, t \in Source :
        IF lane'[q][t].at # "idle" THEN lane'[q][t].span \in Of(t) ELSE lane'[q][t].span = NoSpan
  <2> SUFFICES ASSUME NEW q \in Pass, NEW t \in Source
               PROVE  IF lane'[q][t].at # "idle" THEN lane'[q][t].span \in Of(t)
                      ELSE lane'[q][t].span = NoSpan
    OBVIOUS
  <2>1. CASE q = p /\ t = s
    BY <2>1, <1>3 DEF Idle
  <2>2. CASE ~(q = p /\ t = s)
    BY <2>2, <1>3 DEF LaneTyped, Busy
  <2> QED BY <2>1, <2>2
<1> QED BY <1>2, <1>4 DEF LaneTyped, Busy

LEMMA MarkTyped ==
    ASSUME JobsTyped, RowsTyped, NEW x, NEW as \in JobStatus, Mark(x, as)
    PROVE  JobsTyped' /\ RowsTyped'
  BY DEF JobsTyped, RowsTyped, Mark, Job

LEMMA SuccessTyped ==
    ASSUME JobsTyped, RowsTyped, PassTyped, LaneTyped, NEW p \in Pass, NEW s \in Source,
           lane[p][s].span \in Span, Success(p, s)
    PROVE  JobsTyped' /\ RowsTyped'
<1> DEFINE x       == lane[p][s].span
           whole   == x \in Fallback
           left    == {r \in rows : r.span # x /\ ~(whole /\ r.source = s)}
           here(r) == r.source = s /\ r.index = job[x].index
           linked  == UNION {r.jobs : r \in {q \in left : here(q)}}
           new     == [source |-> s, index |-> job[x].index, span |-> x,
                       crossed |-> pass[p].crossed,
                       cfg |-> [words |-> pass[p].config.words, route |-> lane[p][s].route],
                       jobs |-> {x} \cup linked]
           done    == [job EXCEPT ![x].status = "succeeded"]
           last    == ~whole /\ s \in Complete(done)
           fresh   == {r \in left : ~here(r)} \cup {new}
           retired(y) == /\ y # x /\ SourceOf[y] = s /\ job[y].status # "none"
                         /\ whole \/ (last /\ y \in Fallback /\ job[y].status = "pending")
           live(q) == ~last \/ q.source # s
                      \/ (q.span \in Turn /\ done[q.span].status = "succeeded")
<1>1. job' = [y \in Span |-> IF retired(y) THEN [done[y] EXCEPT !.status = "superseded"]
                                         ELSE done[y]]
  BY DEF Success
<1>2. rows' = {[r EXCEPT !.jobs = {y \in @ : ~retired(y)}] : r \in {q \in fresh : live(q)}}
  BY DEF Success
<1>3. done \in [Span -> Job]
  BY DEF JobsTyped, Job, JobStatus
<1>4. JobsTyped'
  <2> HIDE DEF done, retired
  <2>1. \A y \in Span : [done[y] EXCEPT !.status = "superseded"] \in Job
    BY <1>3 DEF Job, JobStatus
  <2> QED BY <1>1, <1>3, <2>1 DEF JobsTyped
<1>5. left \subseteq Row
  BY DEF RowsTyped
<1>6. new \in Row
  <2>1. {x} \cup linked \subseteq Span
    <3>1. \A r \in left : r.jobs \subseteq Span
      BY <1>5 DEF Row
    <3>2. ASSUME NEW y \in linked PROVE y \in Span
      <4>1. PICK r \in left : y \in r.jobs
        OBVIOUS
      <4> QED BY <4>1, <3>1
    <3> HIDE DEF linked
    <3> QED BY <3>2
  <2>2. job[x].index \in Nat
    BY DEF JobsTyped, Job
  <2>3. pass[p].crossed \in BOOLEAN /\ pass[p].config \in Config
    BY DEF PassTyped, Asked
  <2>4. [words |-> pass[p].config.words, route |-> lane[p][s].route] \in Config
    BY <2>3 DEF LaneTyped, LaneState, Config
  <2> HIDE DEF linked, x
  <2> QED BY <2>1, <2>2, <2>3, <2>4 DEF Row
<1>7. fresh \subseteq Row
  <2> HIDE DEF new, left, here
  <2> QED BY <1>5, <1>6
<1>8. RowsTyped'
  <2> HIDE DEF fresh, live, retired
  <2>1. \A r \in Row : [r EXCEPT !.jobs = {y \in @ : ~retired(y)}] \in Row
    BY DEF Row
  <2> QED BY <1>2, <1>7, <2>1 DEF RowsTyped
<1> QED BY <1>4, <1>8

LEMMA PlanTyped ==
    ASSUME NEW plan \in Plans
    PROVE  DOMAIN plan \subseteq Span /\ \A x \in DOMAIN plan : plan[x] \in Nat
  BY ConstAssumption DEF ConstAssumption

LEMMA PlannedTyped ==
    ASSUME JobsTyped, NEW plan \in Plans, NEW cfg \in Config, NEW reused
    PROVE  /\ Planned(plan, cfg, reused) \in [Span -> Job]
           /\ \A x \in DOMAIN plan : Planned(plan, cfg, reused)[x].config = cfg
           /\ \A x \in Span : Planned(plan, cfg, reused)[x].status = "running" => job[x].status = "running"
<1> DEFINE after(x) == IF x \in Turn /\ SourceOf[x] \in ReplacedBy(reused) THEN "superseded"
                       ELSE IF x \in reused THEN "succeeded"
                       ELSE IF job[x].status = "running" THEN "running" ELSE "pending"
           here(x) == [status |-> after(x), config |-> cfg, index |-> plan[x]]
           gone(x) == [job[x] EXCEPT !.status = "superseded"]
<1>1. Planned(plan, cfg, reused)
        = [x \in Span |-> IF x \in DOMAIN plan THEN here(x)
                          ELSE IF job[x].status = "none" THEN job[x] ELSE gone(x)]
  BY DEF Planned
<1>2. \A x \in DOMAIN plan : /\ here(x) \in Job /\ here(x).config = cfg
                             /\ here(x).status = "running" => job[x].status = "running"
  <2>1. \A x : after(x) \in JobStatus /\ (after(x) = "running" => job[x].status = "running")
    BY DEF JobStatus
  <2> HIDE DEF after
  <2> QED BY <2>1, PlanTyped DEF Job
<1>3. \A x \in Span : job[x] \in Job /\ gone(x) \in Job /\ gone(x).status = "superseded"
  BY DEF JobsTyped, Job, JobStatus
<1> HIDE DEF here, gone
<1> QED BY <1>1, <1>2, <1>3, PlanTyped

LEMMA ProjectedTyped ==
    ASSUME RowsTyped, NEW plan \in Plans, NEW reused \in SUBSET DOMAIN plan, NEW ledgerOf
    PROVE  Projected(plan, reused, ledgerOf) \subseteq Row
<1> DEFINE kept == {x \in reused : x \in Fallback \/ SourceOf[x] \notin ReplacedBy(reused)}
           certain == UNION {{[source |-> SourceOf[x], index |-> plan[x], span |-> x,
                               cfg |-> r.cfg, crossed |-> r.crossed, jobs |-> {x}]
                                : r \in Named(x)} : x \in kept}
           backup  == {r \in rows :
                      /\ r.jobs \cap kept = {}
                      /\ KeepsLastGood(r, {SourceOf[x] : x \in DOMAIN plan},
                                       ReplacedBy(reused) \cup Complete(ledgerOf))
                      /\ \A c \in certain : <<c.source, c.index>> # <<r.source, r.index>>}
<1>1. Projected(plan, reused, ledgerOf) = certain \cup {[r EXCEPT !.jobs = {}] : r \in backup}
  BY DEF Projected
<1>2. ASSUME NEW x \in kept, NEW r \in Named(x)
      PROVE  [source |-> SourceOf[x], index |-> plan[x], span |-> x,
              cfg |-> r.cfg, crossed |-> r.crossed, jobs |-> {x}] \in Row
  <2>1. x \in Span /\ SourceOf[x] \in Source /\ plan[x] \in Nat
    BY PlanTyped, SpanFacts
  <2>2. r.cfg \in Config /\ r.crossed \in BOOLEAN
    BY DEF Named, RowsTyped, Row
  <2> QED BY <2>1, <2>2 DEF Row
<1>3. certain \subseteq Row
  <2> SUFFICES ASSUME NEW c \in certain PROVE c \in Row
    OBVIOUS
  <2>1. PICK x \in kept : c \in {[source |-> SourceOf[x], index |-> plan[x], span |-> x,
                                  cfg |-> r.cfg, crossed |-> r.crossed, jobs |-> {x}] : r \in Named(x)}
    OBVIOUS
  <2>2. PICK r \in Named(x) : c = [source |-> SourceOf[x], index |-> plan[x], span |-> x,
                                   cfg |-> r.cfg, crossed |-> r.crossed, jobs |-> {x}]
    BY <2>1
  <2> HIDE DEF kept, certain
  <2> QED BY <1>2, <2>2
<1>4. \A r \in rows : [r EXCEPT !.jobs = {}] \in Row
  BY DEF RowsTyped, Row
<1>5. backup \subseteq rows
  OBVIOUS
<1> HIDE DEF certain, backup
<1> QED BY <1>1, <1>3, <1>4, <1>5

LEMMA ReconcileTyped ==
    ASSUME TypeOK, NEW p \in Pass, NEW plan \in Plans, NEW route \in 0..MaxConfig,
           Reconcile(p, plan, route)
    PROVE  JobsTyped' /\ RowsTyped' /\ PassTyped'
<1> DEFINE cfg     == [words |-> pass[p].config.words, route |-> route]
           reused  == {x \in DOMAIN plan : Reusable(x, cfg)}
           planned == Planned(plan, cfg, reused)
           todo    == {x \in Turn \cap DOMAIN plan : planned[x].status = "pending"}
           spare   == {x \in Fallback \cap DOMAIN plan : planned[x].status = "pending"}
           kept    == {SourceOf[x] : x \in {y \in DOMAIN plan : planned[y].status = "succeeded"}}
           next    == [pass EXCEPT ![p].step = "stream", ![p].config = cfg, ![p].todo = todo,
                                   ![p].spare = spare, ![p].got = kept]
<1>0. JobsTyped /\ RowsTyped /\ PassTyped
  BY TypeParts
<1>1. cfg \in Config
  BY <1>0 DEF PassTyped, Asked, Config
<1>2. planned \in [Span -> Job]
  <2> HIDE DEF cfg, reused
  <2> QED BY <1>0, <1>1, PlannedTyped
<1>3. Projected(plan, reused, planned) \subseteq Row
  <2> HIDE DEF planned
  <2>1. reused \in SUBSET DOMAIN plan
    OBVIOUS
  <2> HIDE DEF reused
  <2> QED BY <1>0, <2>1, ProjectedTyped
<1>4. todo \subseteq Turn /\ spare \subseteq Fallback /\ kept \subseteq Source
  BY PlanTyped, SpanFacts
<1>5. next \in [Pass -> Asked]
  <2> DEFINE then == [pass[p] EXCEPT !.step = "stream", !.config = cfg, !.todo = todo,
                                     !.spare = spare, !.got = kept]
  <2>1. next = [pass EXCEPT ![p] = then]
    OBVIOUS
  <2>2. then \in Asked
    <3>1. pass[p] \in Asked
      BY <1>0, Zenon DEF PassTyped
    <3> HIDE DEF todo, spare, kept, cfg
    <3> QED BY <3>1, <1>1, <1>4 DEF Asked, PassStep
  <2> HIDE DEF then, next, Asked
  <2> QED BY <1>0, <2>1, <2>2 DEF PassTyped
<1>6. \/ Goto(p, "failing") /\ UNCHANGED ledger
      \/ /\ job' = planned /\ rows' = Projected(plan, reused, planned)
         /\ Goto(p, "failing") \/ pass' = next
  BY DEF Reconcile
<1>7. Goto(p, "failing") => PassTyped'
  <2>1. "failing" \in PassStep
    BY DEF PassStep
  <2> QED BY <1>0, <2>1, GotoTyped
<1> HIDE DEF next, planned, reused, cfg
<1> QED BY <1>0, <1>2, <1>3, <1>5, <1>6, <1>7 DEF JobsTyped, RowsTyped, PassTyped, ledger

\* What an operation of one pass changes beside its lane.
LEMMA LaneStepTyped ==
    ASSUME TypeOK, NEW p \in Pass, NEW s \in Source, LaneSteps(p, s)
    PROVE  TypeOK'
<1> DEFINE x == lane[p][s].span
<1>0. JobsTyped /\ RowsTyped /\ PassTyped /\ LaneTyped /\ RestTyped
  BY TypeParts
<1>1. lane[p][s].at # "idle" => x \in Of(s) /\ x \in Span
  BY <1>0, SpanFacts DEF LaneTyped, Busy
<1>8. 0 \in 0..MaxConfig /\ config.route \in 0..MaxConfig /\ lane[p][s].route \in 0..MaxConfig
  BY <1>0, ConstAssumption DEF ConstAssumption, RestTyped, Config, LaneTyped, LaneState
<1>2. CASE Launch(p, s)
  <2>1. PICK y \in Of(s) : Move(p, s, "claim", y, 0) /\ pass' = [pass EXCEPT ![p].todo = @ \ {y}]
    BY <1>2 DEF Launch
  <2>2. PassTyped'
    BY <1>0, <2>1 DEF PassTyped, Asked
  <2>3. "claim" \in LaneStep \ {"idle"}
    BY DEF LaneStep
  <2>4. LaneTyped'
    BY <1>0, <1>8, <2>1, <2>3, MoveTyped
  <2> QED BY <1>0, <1>2, <2>2, <2>4, TypePartsNext
          DEF Launch, JobsTyped, RowsTyped, RestTyped, ledger, settings, bounds
<1>3. CASE Claim(p, s)
  <2>1. x \in Of(s) /\ x \in Span
    BY <1>1, <1>3 DEF Claim
  <2>2. \/ /\ job' = [job EXCEPT ![x].status = "running"]
           /\ Move(p, s, "request", x, config.route) /\ UNCHANGED pass
        \/ Free(p, s) /\ pass' = Broken(p) /\ UNCHANGED job
    BY <1>3 DEF Claim
  <2>3. "request" \in LaneStep \ {"idle"}
    BY DEF LaneStep
  <2>4. JobsTyped'
    BY <1>0, <2>2 DEF JobsTyped, Job, JobStatus
  <2>5. LaneTyped'
    BY <1>0, <1>8, <2>1, <2>2, <2>3, MoveTyped, FreeTyped
  <2>6. PassTyped'
    BY <1>0, <2>2, BrokenTyped DEF PassTyped
  <2> QED BY <1>0, <1>3, <2>4, <2>5, <2>6, TypePartsNext DEF Claim, RowsTyped, RestTyped, settings, bounds
<1>4. CASE Answer(p, s)
  <2>1. x \in Of(s)
    BY <1>1, <1>4 DEF Answer
  <2>2. PICK how \in {"answered", "refused"}, route \in 0..MaxConfig : Move(p, s, how, x, route)
    BY <1>4, <1>8 DEF Answer
  <2>3. how \in LaneStep \ {"idle"}
    BY DEF LaneStep
  <2>4. LaneTyped'
    BY <1>0, <2>1, <2>2, <2>3, MoveTyped
  <2> QED BY <1>0, <1>4, <2>4, TypePartsNext
          DEF Answer, JobsTyped, RowsTyped, PassTyped, RestTyped, ledger, queue, settings, bounds
<1>5. CASE Persist(p, s)
  <2>1. x \in Of(s) /\ x \in Span /\ Free(p, s)
    BY <1>1, <1>5 DEF Persist
  <2>2. \/ pass' = Broken(p) /\ UNCHANGED ledger
        \/ /\ Success(p, s)
           /\ pass' = [pass EXCEPT ![p].got = @ \cup {s},
                                   ![p].lost = IF x \in Fallback THEN @ \ {s} ELSE @]
        \/ Mark(x, "failed") /\ pass' = [pass EXCEPT ![p].lost = @ \cup {s}]
    BY <1>5 DEF Persist
  <2>3. JobsTyped' /\ RowsTyped'
    <3>1. "failed" \in JobStatus
      BY DEF JobStatus
    <3>2. lane[p][s].span \in Span
      BY <2>1
    <3>3. CASE Success(p, s)
      BY <1>0, <3>2, <3>3, SuccessTyped
    <3> HIDE DEF x
    <3> QED BY <1>0, <2>1, <2>2, <3>1, <3>3, MarkTyped DEF JobsTyped, RowsTyped, ledger
  <2>4. PassTyped'
    <3>1. CASE pass' = Broken(p)
      BY <1>0, <3>1, BrokenTyped
    <3>2. CASE pass' = [pass EXCEPT ![p].got = @ \cup {s},
                                    ![p].lost = IF x \in Fallback THEN @ \ {s} ELSE @]
      <4> DEFINE lost == IF x \in Fallback THEN pass[p].lost \ {s} ELSE pass[p].lost
                 then == [pass[p] EXCEPT !.got = @ \cup {s}, !.lost = lost]
      <4>1. pass' = [pass EXCEPT ![p] = then]
        BY <3>2
      <4>2. then \in Asked
        <5>1. pass[p] \in Asked
          BY <1>0 DEF PassTyped
        <5>2. lost \subseteq Source
          BY <5>1 DEF Asked
        <5> HIDE DEF lost, x
        <5> QED BY <5>1, <5>2 DEF Asked
      <4> HIDE DEF then, Asked
      <4> QED BY <1>0, <4>1, <4>2 DEF PassTyped
    <3>3. CASE pass' = [pass EXCEPT ![p].lost = @ \cup {s}]
      BY <1>0, <3>3 DEF PassTyped, Asked
    <3> QED BY <2>2, <3>1, <3>2, <3>3
  <2>5. LaneTyped'
    BY <1>0, <2>1, FreeTyped
  <2> QED BY <1>0, <1>5, <2>3, <2>4, <2>5, TypePartsNext DEF Persist, RestTyped, settings, bounds
<1>6. CASE PersistFails(p, s)
  <2>1. x \in Of(s) /\ x \in Span /\ Free(p, s) /\ pass' = Broken(p)
    BY <1>1, <1>6 DEF PersistFails
  <2>2. \/ Mark(x, "failed") /\ UNCHANGED stranded
        \/ stranded' = stranded \cup {x} /\ UNCHANGED ledger
    BY <1>6 DEF PersistFails
  <2>3. JobsTyped' /\ RowsTyped'
    <3>1. "failed" \in JobStatus
      BY DEF JobStatus
    <3> HIDE DEF x
    <3> QED BY <1>0, <2>1, <2>2, <3>1, MarkTyped DEF JobsTyped, RowsTyped, ledger
  <2>4. PassTyped' /\ LaneTyped'
    BY <1>0, <2>1, BrokenTyped, FreeTyped
  <2>5. RestTyped'
    <3>1. /\ faults < MaxFaults /\ faults' = faults + 1
          /\ UNCHANGED <<status, repaired, entry, settings, restarts>>
      BY <1>6 DEF PersistFails
    <3>2. stranded' \subseteq Span
      BY <1>0, <2>1, <2>2 DEF RestTyped
    <3>3. faults' \in 0..MaxFaults
      BY <1>0, <3>1, ConstAssumption DEF RestTyped, ConstAssumption
    <3> QED BY <1>0, <3>1, <3>2, <3>3 DEF RestTyped, settings
  <2> QED BY <2>3, <2>4, <2>5, TypePartsNext
<1> QED BY <1>2, <1>3, <1>4, <1>5, <1>6 DEF LaneSteps

LEMMA ReleaseTyped ==
    ASSUME TypeOK, Release
    PROVE  TypeOK'
<1>0. JobsTyped /\ RowsTyped /\ PassTyped /\ LaneTyped /\ RestTyped
  BY TypeParts
<1>1. JobsTyped'
  <2>1. \A x \in Span : job[x] \in Job /\ [job[x] EXCEPT !.status = "pending"] \in Job
    BY <1>0 DEF JobsTyped, Job, JobStatus
  <2>2. job' = [x \in Span |-> IF job[x].status = "running"
                               THEN [job[x] EXCEPT !.status = "pending"] ELSE job[x]]
    BY DEF Release
  <2> HIDE DEF Job
  <2> QED BY <2>1, <2>2 DEF JobsTyped
<1> QED BY <1>0, <1>1, TypePartsNext
        DEF Release, RowsTyped, PassTyped, LaneTyped, RestTyped, Busy, queue, settings, bounds

LEMMA StepTyped ==
    ASSUME TypeOK, NEW p \in Pass, Steps(p)
    PROVE  TypeOK'
<1>0. JobsTyped /\ RowsTyped /\ PassTyped /\ LaneTyped /\ RestTyped
  BY TypeParts
<1>1. \A step \in PassStep : Goto(p, step) => PassTyped'
  BY <1>0, GotoTyped
<1> DEFINE Same == UNCHANGED <<ledger, repaired, lane, settings, stranded, bounds>>
<1>2. ASSUME Same, PassTyped', status' \in {"settled", "working"}, entry' \in Pass \cup {NoPass}
      PROVE  TypeOK'
  BY <1>0, <1>2, TypePartsNext
     DEF JobsTyped, RowsTyped, LaneTyped, RestTyped, Busy, ledger, settings, bounds
<1>3. status \in {"settled", "working"} /\ entry \in Pass \cup {NoPass}
  BY <1>0 DEF RestTyped
<1>a. CASE ShowFirst(p)
  <2>1. [pass[p] EXCEPT !.first = FALSE] \in Asked
    BY <1>0 DEF PassTyped, Asked
  <2>2. PassTyped'
    BY <1>0, <1>a, <2>1, RecordTyped DEF ShowFirst
  <2> QED BY <1>a, <1>2, <1>3, <2>2 DEF ShowFirst
<1>b. CASE Finish(p)
  BY <1>b, <1>1, <1>2, <1>3 DEF Finish, PassStep
<1>c. CASE Unlock(p)
  <2>1. PassTyped'
    BY <1>0, <1>c, NotAskedTyped, RecordTyped DEF Unlock
  <2> QED BY <1>c, <1>2, <1>3, <2>1 DEF Unlock
<1>d. CASE Setup(p)
  <2>1. PassTyped'
    <3>1. config \in Config
      BY <1>0 DEF RestTyped
    <3>2. [pass[p] EXCEPT !.step = "plan", !.config = config] \in Asked
      <4>1. "plan" \in PassStep
        BY DEF PassStep
      <4>2. pass[p] \in Asked
        BY <1>0 DEF PassTyped
      <4> HIDE DEF Config
      <4> QED BY <3>1, <4>1, <4>2 DEF Asked
    <3>3. pass' = [pass EXCEPT ![p] = [pass[p] EXCEPT !.step = "plan", !.config = config]]
      BY <1>d DEF Setup
    <3> QED BY <1>0, <3>2, <3>3, RecordTyped
  <2> QED BY <1>d, <1>2, <1>3, <2>1 DEF Setup
<1>e. CASE Trouble(p) \/ StreamEnds(p) \/ FallbackFails(p) \/ Judge(p) \/ Generate(p) \/ Fails(p)
  <2>1. \E step \in PassStep : Goto(p, step)
    BY <1>e DEF Trouble, StreamEnds, FallbackFails, Judge, Generate, Fails, PassStep
  <2> QED BY <1>e, <1>1, <1>2, <1>3, <2>1
          DEF Trouble, StreamEnds, FallbackFails, Judge, Generate, Fails
<1>f. CASE \E plan \in Plans, route \in 0..MaxConfig : Reconcile(p, plan, route)
  <2>1. JobsTyped' /\ RowsTyped' /\ PassTyped'
    BY <1>f, ReconcileTyped, Zenon
  <2>2. UNCHANGED <<status, repaired, entry, lane, settings, stranded, bounds>>
    BY <1>f DEF Reconcile
  <2> QED BY <1>0, <2>1, <2>2, TypePartsNext DEF LaneTyped, RestTyped, Busy, settings, bounds
<1>g. CASE \E s \in Source : LaneSteps(p, s)
  BY <1>g, LaneStepTyped
<1>h. CASE PrepareFails(p)
  BY <1>0, <1>h, <1>2, <1>3, BrokenTyped DEF PrepareFails
<1>i. CASE \E x \in Fallback : FallbackLaunch(p, x) \/ FallbackSkip(p, x)
  <2>1. PICK x \in Fallback : FallbackLaunch(p, x) \/ FallbackSkip(p, x)
    BY <1>i
  <2>2. pass' = [pass EXCEPT ![p].spare = @ \ {x}]
    BY <2>1 DEF FallbackLaunch, FallbackSkip
  <2>3. PassTyped'
    BY <1>0, <2>2 DEF PassTyped, Asked
  <2>4. CASE FallbackSkip(p, x)
    BY <2>4, <2>3, <1>2, <1>3 DEF FallbackSkip
  <2>5. CASE FallbackLaunch(p, x)
    <3>1. SourceOf[x] \in Source /\ x \in Of(SourceOf[x])
      BY SpanFacts
    <3>2. "claim" \in LaneStep \ {"idle"}
      BY DEF LaneStep
    <3>3. Move(p, SourceOf[x], "claim", x, 0) /\ 0 \in 0..MaxConfig
      BY <2>5, ConstAssumption DEF FallbackLaunch, ConstAssumption
    <3>4. LaneTyped'
      BY <1>0, <3>1, <3>2, <3>3, MoveTyped
    <3> QED BY <1>0, <2>5, <2>3, <3>4, TypePartsNext
            DEF FallbackLaunch, JobsTyped, RowsTyped, RestTyped, ledger, settings, bounds
  <2> QED BY <2>1, <2>4, <2>5
<1>j. CASE FallbacksDone(p)
  <2> DEFINE over == {x \in Fallback : job[x].status = "pending"}
  <2>1. /\ job' = [x \in Span |-> IF x \in over THEN [job[x] EXCEPT !.status = "superseded"]
                                  ELSE job[x]]
        /\ rows' = {[r EXCEPT !.jobs = @ \ over] : r \in rows}
    BY <1>j DEF FallbacksDone
  <2>2. \A x \in Span : job[x] \in Job /\ [job[x] EXCEPT !.status = "superseded"] \in Job
    BY <1>0 DEF JobsTyped, Job, JobStatus
  <2>3. \A r \in rows : [r EXCEPT !.jobs = @ \ over] \in Row
    <3> HIDE DEF over
    <3> QED BY <1>0 DEF RowsTyped, Row
  <2>4. JobsTyped' /\ RowsTyped'
    <3> HIDE DEF over
    <3> QED BY <2>1, <2>2, <2>3 DEF JobsTyped, RowsTyped
  <2>5. PassTyped'
    BY <1>j, <1>1 DEF FallbacksDone, PassStep
  <2> QED BY <1>0, <1>j, <2>4, <2>5, TypePartsNext
          DEF FallbacksDone, LaneTyped, RestTyped, Busy, settings, bounds
<1> QED BY <1>a, <1>b, <1>c, <1>d, <1>e, <1>f, <1>g, <1>h, <1>i, <1>j DEF Steps

\* A change of the route leaves every pass as it is, but for the fact.
LEMMA EditRouteTyped ==
    ASSUME PassTyped, EditRoute
    PROVE  /\ PassTyped'
           /\ \A p \in Pass : /\ pass'[p].step = pass[p].step /\ pass'[p].queue = pass[p].queue
                              /\ pass'[p].first = pass[p].first
                              /\ pass'[p].config = pass[p].config /\ pass'[p].todo = pass[p].todo
                              /\ pass'[p].spare = pass[p].spare /\ pass'[p].error = pass[p].error
                              /\ pass'[p].got = pass[p].got /\ pass'[p].lost = pass[p].lost
<1> DEFINE then(p) == [pass[p] EXCEPT !.crossed = @ \/ pass[p].step \in Asking]
<1>1. pass' = [p \in Pass |-> then(p)]
  BY DEF EditRoute
<1>2. ASSUME NEW p \in Pass
      PROVE  /\ then(p) \in Asked
             /\ then(p).step = pass[p].step /\ then(p).queue = pass[p].queue
             /\ then(p).first = pass[p].first
             /\ then(p).config = pass[p].config /\ then(p).todo = pass[p].todo
             /\ then(p).spare = pass[p].spare /\ then(p).error = pass[p].error
             /\ then(p).got = pass[p].got /\ then(p).lost = pass[p].lost
  BY DEF PassTyped, Asked
<1> HIDE DEF then
<1> QED BY <1>1, <1>2 DEF PassTyped

LEMMA NextTypes ==
    ASSUME TypeOK, [Next]_vars
    PROVE  TypeOK'
<1>0. JobsTyped /\ RowsTyped /\ PassTyped /\ LaneTyped /\ RestTyped
  BY TypeParts
<1>1. CASE Bootstrap
  BY <1>1, ReleaseTyped DEF Bootstrap
<1>2. CASE Restart
  <2>2. PassTyped'
    BY <1>2, NotAskedTyped DEF Restart, PassTyped
  <2>3. LaneTyped'
    BY <1>2, IdleTyped DEF Restart, LaneTyped, Busy, Idle
  <2>4. restarts' \in 0..MaxRestarts
    BY <1>0, <1>2, ConstAssumption DEF Restart, RestTyped, ConstAssumption
  <2> QED BY <1>0, <1>2, <2>2, <2>3, <2>4, TypePartsNext
          DEF Restart, JobsTyped, RowsTyped, RestTyped, ledger, settings
<1>3. CASE EditWords \/ EditRoute
  <2>1. PICK n \in 1..MaxConfig : \/ config' = [config EXCEPT !.words = n]
                                 \/ config' = [config EXCEPT !.route = n]
    BY <1>3 DEF EditWords, EditRoute
  <2>2. config' \in Config
    BY <1>0, <2>1, ConstAssumption DEF ConstAssumption, RestTyped, Config
  <2>3. edits' \in 0..MaxEdits
    BY <1>0, <1>3, ConstAssumption DEF EditWords, EditRoute, RestTyped, ConstAssumption
  <2>4. PassTyped'
    <3>1. CASE EditWords
      BY <1>0, <3>1 DEF EditWords, PassTyped, queue
    <3>2. CASE EditRoute
      BY <1>0, <3>2, EditRouteTyped
    <3> QED BY <1>3, <3>1, <3>2
  <2>5. UNCHANGED <<ledger, status, repaired, entry, lane, stranded, bounds>>
    BY <1>3 DEF EditWords, EditRoute, queue
  <2> QED BY <1>0, <2>2, <2>3, <2>4, <2>5, TypePartsNext
          DEF JobsTyped, RowsTyped, LaneTyped, RestTyped, Busy, ledger, bounds
<1>4. ASSUME NEW p \in Pass, Enqueue(p) PROVE TypeOK'
  <2>1. PICK q \in Pass, first \in BOOLEAN :
          /\ entry' = q
          /\ pass' = [pass EXCEPT ![p].step = "queued", ![p].queue = q, ![p].first = first]
    <3>1. entry \in Pass \cup {NoPass}
      BY <1>0 DEF RestTyped
    <3> QED BY <1>4, <3>1 DEF Enqueue
  <2>2. PassTyped'
    <3> DEFINE r == [pass[p] EXCEPT !.step = "queued", !.queue = q, !.first = first]
    <3>1. r \in Asked
      <4>1. "queued" \in PassStep
        BY DEF PassStep
      <4>2. pass[p] \in Asked
        BY <1>0 DEF PassTyped
      <4>3. \A a \in Asked : [a EXCEPT !.step = "queued", !.queue = q, !.first = first] \in Asked
        BY <4>1 DEF Asked
      <4> QED BY <4>2, <4>3
    <3>2. pass' = [pass EXCEPT ![p] = r]
      BY <2>1
    <3> HIDE DEF r
    <3> QED BY <1>0, <3>1, <3>2, RecordTyped
  <2> QED BY <1>0, <1>4, <2>1, <2>2, TypePartsNext
          DEF Enqueue, JobsTyped, RowsTyped, LaneTyped, RestTyped, Busy, ledger, settings, bounds
<1>5. ASSUME NEW p \in Pass, Acquire(p) PROVE TypeOK'
  <2>1. PassTyped'
    BY <1>0, <1>5, GotoTyped DEF Acquire, PassStep
  <2> QED BY <1>0, <1>5, <2>1, TypePartsNext
          DEF Acquire, JobsTyped, RowsTyped, LaneTyped, RestTyped, Busy, ledger, settings, bounds
<1>6. CASE UNCHANGED vars
  BY <1>0, <1>6, TypePartsNext
     DEF vars, JobsTyped, RowsTyped, PassTyped, LaneTyped, RestTyped, Busy, ledger, queue,
         settings, bounds
<1> QED BY <1>1, <1>2, <1>3, <1>4, <1>5, <1>6, StepTyped DEF Next

\* The note's jobs, rows, passes and requests keep their types; a lane holds a
\* span of its own source exactly while it is busy.
THEOREM TypeCorrect == Spec => []TypeOK
<1>1. TypeOK /\ [Next]_vars => TypeOK'
  BY NextTypes
<1> QED BY InitTypes, <1>1, PTL DEF Spec

-----------------------------------------------------------------------------
(* What a step of a pass leaves alone *)

LEMMA OtherRecords ==
    ASSUME PassTyped, NEW p \in Pass, NEW o \in Pass, o # p, NEW r, pass' = [pass EXCEPT ![p] = r]
    PROVE  pass'[o] = pass[o] /\ pass'[p] = r
  BY DEF PassTyped

\* The operations by which a pass at work goes on: it stays the pass of its
\* queue, under its configuration but for the first step, and ends at the
\* finish.
Onward(p) ==
    /\ pass[p].step \in AtWork /\ pass'[p].step \in AtWork \cup {"finish"}
    /\ pass'[p].queue = pass[p].queue /\ entry' = entry

LEMMA StepOnward ==
    ASSUME TypeOK, NEW p \in Pass, Steps(p), ~ShowFirst(p), ~Finish(p), ~Unlock(p),
           \A s \in Source : Busy(p, s) => pass[p].step \in AtWork
    PROVE  Onward(p)
<1>0. PassTyped /\ LaneTyped
  BY TypeParts
<1>1. \A step \in AtWork \cup {"finish"} :
         Goto(p, step) => pass'[p].step = step /\ pass'[p].queue = pass[p].queue
  BY <1>0 DEF PassTyped, Goto, Asked
<1>2. pass' = Broken(p) => pass'[p].step = pass[p].step /\ pass'[p].queue = pass[p].queue
  BY <1>0 DEF PassTyped, Broken, Asked
<1>3. ASSUME NEW todo, pass' = [pass EXCEPT ![p].todo = todo]
      PROVE  pass'[p].step = pass[p].step /\ pass'[p].queue = pass[p].queue
  BY <1>0, <1>3 DEF PassTyped, Asked
<1>4. ASSUME NEW spare, pass' = [pass EXCEPT ![p].spare = spare]
      PROVE  pass'[p].step = pass[p].step /\ pass'[p].queue = pass[p].queue
  BY <1>0, <1>4 DEF PassTyped, Asked
<1>5. ASSUME NEW got, NEW lost, pass' = [pass EXCEPT ![p].got = got, ![p].lost = lost]
      PROVE  pass'[p].step = pass[p].step /\ pass'[p].queue = pass[p].queue
  BY <1>0, <1>5 DEF PassTyped, Asked
<1>6. ASSUME NEW lost, pass' = [pass EXCEPT ![p].lost = lost]
      PROVE  pass'[p].step = pass[p].step /\ pass'[p].queue = pass[p].queue
  BY <1>0, <1>6 DEF PassTyped, Asked
<1>7. pass' = pass => pass'[p].step = pass[p].step /\ pass'[p].queue = pass[p].queue
  OBVIOUS
<1>a. CASE Setup(p)
  <2>1. pass[p].step = "setup" /\ pass'[p].step = "plan" /\ pass'[p].queue = pass[p].queue
        /\ entry' = entry
    BY <1>0, <1>a DEF Setup, PassTyped, Asked, At
  <2> QED BY <2>1 DEF Onward, AtWork, Locked, PassStep
<1>b. CASE Trouble(p) \/ StreamEnds(p) \/ FallbackFails(p) \/ Judge(p) \/ Generate(p) \/ Fails(p)
           \/ FallbacksDone(p)
  <2>1. \E step \in {"failing", "fallback", "generate", "finish", "judge"} : Goto(p, step)
    BY <1>b DEF Trouble, StreamEnds, FallbackFails, Judge, Generate, Fails, FallbacksDone
  <2>2. pass[p].step \in {"setup", "plan", "generate", "stream", "fallback", "judge", "failing"}
        /\ entry' = entry
    BY <1>b DEF Trouble, StreamEnds, FallbackFails, Judge, Generate, Fails, FallbacksDone, At
  <2>3. {"failing", "fallback", "generate", "judge"} \cup {"setup", "plan", "stream"} \subseteq AtWork
    BY DEF AtWork, Locked, PassStep
  <2> QED BY <1>1, <2>1, <2>2, <2>3 DEF Onward
<1>c. ASSUME NEW plan \in Plans, NEW route, Reconcile(p, plan, route) PROVE Onward(p)
  <2> DEFINE cfg     == [words |-> pass[p].config.words, route |-> route]
             planned == Planned(plan, cfg, {x \in DOMAIN plan : Reusable(x, cfg)})
             todo    == {x \in Turn \cap DOMAIN plan : planned[x].status = "pending"}
             spare   == {x \in Fallback \cap DOMAIN plan : planned[x].status = "pending"}
             kept    == {SourceOf[x] : x \in {y \in DOMAIN plan : planned[y].status = "succeeded"}}
  <2>1. \/ Goto(p, "failing")
        \/ pass' = [pass EXCEPT ![p].step = "stream", ![p].config = cfg, ![p].todo = todo,
                                ![p].spare = spare, ![p].got = kept]
    BY <1>c DEF Reconcile
  <2> HIDE DEF todo, spare, kept, cfg
  <2>2. pass'[p].step \in {"failing", "stream"} /\ pass'[p].queue = pass[p].queue
    <3>1. CASE Goto(p, "failing")
      BY <1>0, <3>1 DEF Goto, PassTyped, Asked
    <3>2. CASE pass' = [pass EXCEPT ![p].step = "stream", ![p].config = cfg, ![p].todo = todo,
                                    ![p].spare = spare, ![p].got = kept]
      <4> DEFINE then == [pass[p] EXCEPT !.step = "stream", !.config = cfg, !.todo = todo,
                                         !.spare = spare, !.got = kept]
      <4>1. then.step = "stream" /\ then.queue = pass[p].queue
        BY <1>0 DEF PassTyped, Asked
      <4>2. pass' = [pass EXCEPT ![p] = then]
        BY <3>2
      <4> HIDE DEF then
      <4> QED BY <1>0, <4>1, <4>2 DEF PassTyped
    <3> QED BY <2>1, <3>1, <3>2
  <2> QED BY <1>c, <2>2 DEF Reconcile, Onward, At, AtWork, Locked, PassStep
<1>d. ASSUME NEW s \in Source, LaneSteps(p, s) PROVE Onward(p)
  <2>1. pass[p].step \in AtWork
    BY <1>d DEF LaneSteps, Launch, Claim, Answer, Persist, PersistFails, Busy, At, AtWork, Locked,
                PassStep
  <2>2. entry' = entry
    BY <1>d DEF LaneSteps, Launch, Claim, Answer, Persist, PersistFails, queue
  <2>3. \/ \E todo : pass' = [pass EXCEPT ![p].todo = todo]
        \/ pass' = Broken(p)
        \/ pass' = pass
        \/ \E got, lost : pass' = [pass EXCEPT ![p].got = got, ![p].lost = lost]
        \/ \E lost : pass' = [pass EXCEPT ![p].lost = lost]
    BY <1>d DEF LaneSteps, Launch, Claim, Answer, Persist, PersistFails, queue
  <2>4. pass'[p].step = pass[p].step /\ pass'[p].queue = pass[p].queue
    BY <2>3, <1>2, <1>3, <1>5, <1>6, <1>7
  <2> QED BY <2>1, <2>2, <2>4 DEF Onward
<1>e. CASE PrepareFails(p)
  BY <1>e, <1>2 DEF PrepareFails, Onward, At, AtWork, Locked, PassStep
<1>f. ASSUME NEW x \in Fallback, FallbackLaunch(p, x) \/ FallbackSkip(p, x) PROVE Onward(p)
  BY <1>f, <1>4
     DEF FallbackLaunch, FallbackSkip, NextFallback, Onward, At, AtWork, Locked, PassStep
<1> QED BY <1>a, <1>b, <1>c, <1>d, <1>e, <1>f DEF Steps

\* A step of a pass writes its own record and at most one of its lanes.
OwnRecord(p) == \E r : pass' = [pass EXCEPT ![p] = r]
OwnLane(p)   == lane' = lane \/ \E s \in Source : \E v : lane' = [lane EXCEPT ![p][s] = v]
OwnStep(p)   == repaired' = repaired /\ OwnRecord(p) /\ OwnLane(p)

LEMMA StepIsOwn ==
    ASSUME TypeOK, NEW p \in Pass, Steps(p)
    PROVE  OwnStep(p)
<1>0. PassTyped /\ LaneTyped
  BY TypeParts
<1>1. pass' = pass => OwnRecord(p)
  BY <1>0 DEF PassTyped, OwnRecord
<1>2. \A step : Goto(p, step) => OwnRecord(p)
  BY DEF Goto, OwnRecord
<1>3. pass' = Broken(p) => OwnRecord(p)
  BY DEF Broken, OwnRecord
<1>4. \A s \in Source : \A at, x, route : Move(p, s, at, x, route) \/ Free(p, s) => OwnLane(p)
  BY DEF Move, Free, OwnLane
<1>a. CASE ShowFirst(p) \/ Unlock(p) \/ Setup(p)
  BY <1>a DEF ShowFirst, Unlock, Setup, OwnStep, OwnRecord, OwnLane
<1>b. CASE Finish(p) \/ Trouble(p) \/ StreamEnds(p) \/ FallbackFails(p) \/ FallbacksDone(p)
  BY <1>b, <1>2 DEF Finish, Trouble, StreamEnds, FallbackFails, FallbacksDone, OwnStep, OwnLane
<1>c. CASE Judge(p) \/ Generate(p) \/ Fails(p)
  BY <1>c, <1>2 DEF Judge, Generate, Fails, OwnStep, OwnLane
<1>d. CASE PrepareFails(p)
  BY <1>d, <1>3 DEF PrepareFails, OwnStep, OwnLane
<1>e. ASSUME NEW plan \in Plans, NEW route, Reconcile(p, plan, route) PROVE OwnStep(p)
  <2>1. OwnRecord(p)
    BY <1>e, <1>2 DEF Reconcile, OwnRecord
  <2> QED BY <1>e, <2>1 DEF Reconcile, OwnStep, OwnLane
<1>f. ASSUME NEW s \in Source, Launch(p, s) \/ Answer(p, s) PROVE OwnStep(p)
  BY <1>f, <1>1, <1>4 DEF Launch, Answer, queue, OwnStep, OwnRecord
<1>g. ASSUME NEW s \in Source, Claim(p, s) PROVE OwnStep(p)
  BY <1>g, <1>1, <1>3, <1>4 DEF Claim, OwnStep
<1>h. ASSUME NEW s \in Source, Persist(p, s) PROVE OwnStep(p)
  <2>1. OwnRecord(p)
    BY <1>h, <1>3 DEF Persist, OwnRecord
  <2> QED BY <1>h, <2>1, <1>4 DEF Persist, OwnStep
<1>i. ASSUME NEW s \in Source, PersistFails(p, s) PROVE OwnStep(p)
  BY <1>i, <1>3, <1>4 DEF PersistFails, OwnStep
<1>j. ASSUME NEW x \in Fallback, FallbackLaunch(p, x) \/ FallbackSkip(p, x) PROVE OwnStep(p)
  BY <1>j, <1>4, SpanFacts DEF FallbackLaunch, FallbackSkip, OwnStep, OwnRecord, OwnLane
<1> QED BY <1>a, <1>b, <1>c, <1>d, <1>e, <1>f, <1>g, <1>h, <1>i, <1>j DEF Steps, LaneSteps

LEMMA StepKeepsOthers ==
    ASSUME TypeOK, NEW p \in Pass, Steps(p), NEW o \in Pass, o # p
    PROVE  pass'[o] = pass[o] /\ lane'[o] = lane[o] /\ repaired' = repaired
<1>0. PassTyped /\ LaneTyped
  BY TypeParts
<1>1. OwnStep(p)
  BY StepIsOwn
<1>2. pass'[o] = pass[o]
  BY <1>0, <1>1, OtherRecords DEF OwnStep, OwnRecord
<1>3. lane'[o] = lane[o]
  BY <1>0, <1>1 DEF LaneTyped, OwnStep, OwnLane
<1> QED BY <1>1, <1>2, <1>3 DEF OwnStep

-----------------------------------------------------------------------------
(* One pass at a time *)

\* A ticket that is not finished.
Waiting(p) == pass[p].step \notin {"none", "unlock", "done"}

\* Every ticket that is not finished is of the queue QUEUES names, and of the
\* tickets of one queue one at most holds its lock.
Ticketed(p)     == Waiting(p) => pass[p].queue = entry /\ entry \in Pass
Exclusive(p, o) == \/ pass[p].step \notin Locked \/ pass[o].step \notin Locked
                   \/ pass[p].queue # pass[o].queue
                   \/ p = o
QueueInv ==
    /\ \A p \in Pass : Ticketed(p)
    /\ \A p, o \in Pass : Exclusive(p, o)
\* A pass belongs to a process that was repaired; its requests to its stream or
\* its fallbacks.
StartInv ==
    /\ \A p \in Pass : pass[p].step \notin {"none", "done"} => repaired
    /\ \A p \in Pass, s \in Source : Busy(p, s) => pass[p].step \in {"stream", "fallback"}

LEMMA LockedSteps ==
    /\ "none" \notin Locked /\ "queued" \notin Locked /\ "done" \notin Locked
    /\ "stream" \in AtWork /\ "fallback" \in AtWork /\ "finish" \in Locked
    /\ "setup" \in Locked /\ AtWork \subseteq Locked
    /\ "unlock" \notin AtWork /\ "none" \notin AtWork /\ "done" \notin AtWork
    /\ "queued" \notin AtWork /\ "finish" \notin AtWork
    /\ "unlock" \in Locked
  BY DEF Locked, AtWork, PassStep

LEMMA QueueGivesOnePass ==
    ASSUME QueueInv
    PROVE  OnePass
<1> SUFFICES ASSUME NEW p \in Pass, NEW o \in Pass,
                    pass[p].step \in AtWork, pass[o].step \in AtWork
             PROVE  p = o
  BY DEF OnePass
<1>1. Ticketed(p) /\ Ticketed(o) /\ Exclusive(p, o)
  BY DEF QueueInv
<1>2. pass[p].step \in Locked /\ pass[o].step \in Locked /\ Waiting(p) /\ Waiting(o)
  BY LockedSteps DEF Waiting
<1> QED BY <1>1, <1>2 DEF Ticketed, Exclusive

LEMMA QueueInit == Init => QueueInv /\ StartInv
<1> SUFFICES ASSUME Init PROVE QueueInv /\ StartInv
  OBVIOUS
<1>1. \A p \in Pass : pass[p].step = "none"
  BY DEF Init, NotAsked
<1>2. \A p \in Pass, s \in Source : lane[p][s].at = "idle"
  BY DEF Init, Idle
<1>3. QueueInv
  BY <1>1, LockedSteps DEF QueueInv, Ticketed, Exclusive, Waiting
<1>4. StartInv
  BY <1>1, <1>2 DEF StartInv, Busy
<1> QED BY <1>3, <1>4

\* Nothing is asked for and no lock is taken.
LEMMA QueueKept ==
    ASSUME QueueInv,
           \A o \in Pass : Waiting(o)' => Waiting(o) /\ entry' = entry,
           \A o \in Pass : pass'[o].step \in Locked => pass[o].step \in Locked,
           \A o \in Pass : pass'[o].step \notin {"none", "done"} =>
                              pass'[o].queue = pass[o].queue
    PROVE  QueueInv'
<1>1. ASSUME NEW o \in Pass PROVE Ticketed(o)'
  <2> SUFFICES ASSUME Waiting(o)' PROVE pass'[o].queue = entry' /\ entry' \in Pass
    BY DEF Ticketed
  <2>1. Waiting(o) /\ entry' = entry /\ Ticketed(o)
    BY DEF QueueInv
  <2>2. pass'[o].queue = pass[o].queue
    BY DEF Waiting
  <2> QED BY <2>1, <2>2 DEF Ticketed
<1>2. ASSUME NEW o \in Pass, NEW r \in Pass PROVE Exclusive(o, r)'
  <2> SUFFICES ASSUME pass'[o].step \in Locked, pass'[r].step \in Locked,
                      pass'[o].queue = pass'[r].queue
               PROVE  o = r
    BY DEF Exclusive
  <2>1. pass[o].step \in Locked /\ pass[r].step \in Locked
    OBVIOUS
  <2>2. pass'[o].queue = pass[o].queue /\ pass'[r].queue = pass[r].queue
    BY LockedSteps
  <2>3. Exclusive(o, r)
    BY DEF QueueInv
  <2> QED BY <2>1, <2>2, <2>3 DEF Exclusive
<1> QED BY <1>1, <1>2 DEF QueueInv

LEMMA QueueStep ==
    ASSUME TypeOK, QueueInv, NEW p \in Pass, Steps(p),
           \A s \in Source : Busy(p, s) => pass[p].step \in AtWork
    PROVE  QueueInv'
<1>0. PassTyped
  BY TypeParts
<1>1. \A o \in Pass : o # p => pass'[o] = pass[o]
  BY StepKeepsOthers
<1>2. CASE ShowFirst(p)
  <2>1. pass'[p].step = "queued" /\ pass'[p].queue = pass[p].queue /\ entry' = entry
        /\ pass[p].step = "queued"
    BY <1>0, <1>2 DEF ShowFirst, At, PassTyped, Asked
  <2>2. \A o \in Pass : pass'[o].step = pass[o].step /\ pass'[o].queue = pass[o].queue
    BY <1>1, <2>1
  <2> QED BY <2>1, <2>2, QueueKept DEF Waiting
<1>3. CASE Finish(p)
  <2>1. pass'[p].step = "unlock" /\ pass'[p].queue = pass[p].queue /\ pass[p].step = "finish"
    BY <1>0, <1>3 DEF Finish, Goto, At, PassTyped, Asked
  <2>2. ASSUME NEW o \in Pass, Waiting(o)' PROVE Waiting(o) /\ entry' = entry
    <3>1. o # p /\ pass'[o] = pass[o] /\ Waiting(o)
      BY <2>1, <2>2, <1>1 DEF Waiting
    <3>2. pass[o].queue = entry /\ entry \in Pass
      BY <3>1 DEF QueueInv, Ticketed
    <3>3. o \in Pending(entry)
      BY <3>1, <3>2 DEF Pending, Waiting
    <3>4. entry' = entry
      BY <3>1, <3>3, <1>3 DEF Finish
    <3> QED BY <3>1, <3>4
  <2>3. \A o \in Pass : pass'[o].step \in Locked => pass[o].step \in Locked
    BY <1>1, <2>1, LockedSteps
  <2>4. \A o \in Pass : pass'[o].queue = pass[o].queue
    BY <1>1, <2>1
  <2> QED BY <2>2, <2>3, <2>4, QueueKept
<1>4. CASE Unlock(p)
  <2>1. pass'[p].step = "done" /\ entry' = entry
    BY <1>0, <1>4 DEF Unlock, NotAsked, PassTyped
  <2>2. \A o \in Pass : pass'[o].step # "done" => pass'[o] = pass[o]
    BY <1>1, <2>1
  <2>3. \A o \in Pass : Waiting(o)' => Waiting(o)
    BY <2>2 DEF Waiting
  <2>4. \A o \in Pass : pass'[o].step \in Locked => pass[o].step \in Locked
    BY <2>2, LockedSteps
  <2> QED BY <2>1, <2>2, <2>3, <2>4, QueueKept
<1>5. CASE ~ShowFirst(p) /\ ~Finish(p) /\ ~Unlock(p)
  <2>1. Onward(p)
    BY <1>5, StepOnward
  <2>2. pass[p].step \in Locked /\ pass[p].step \in AtWork
    BY <2>1, LockedSteps DEF Onward
  <2>3. Waiting(p)
    BY <2>2, LockedSteps DEF Waiting
  <2>4. \A o \in Pass : pass'[o].queue = pass[o].queue
    BY <1>1, <2>1 DEF Onward
  <2>5. \A o \in Pass : pass'[o].step \in Locked => pass[o].step \in Locked
    BY <1>1, <2>2
  <2>6. \A o \in Pass : Waiting(o)' => Waiting(o)
    BY <1>1, <2>3 DEF Waiting
  <2>7. entry' = entry
    BY <2>1 DEF Onward
  <2> QED BY <2>4, <2>5, <2>6, <2>7, QueueKept
<1> QED BY <1>2, <1>3, <1>4, <1>5

LEMMA QueueNext ==
    ASSUME TypeOK, QueueInv, StartInv, [Next]_vars
    PROVE  QueueInv'
<1>0. PassTyped
  BY TypeParts
<1>1. CASE Bootstrap \/ EditWords \/ EditRoute \/ UNCHANGED vars
  <2>1. entry' = entry /\ (pass' = pass \/ EditRoute)
    BY <1>1 DEF Bootstrap, Release, EditWords, EditRoute, vars, queue
  <2>2. \A o \in Pass : pass'[o].step = pass[o].step /\ pass'[o].queue = pass[o].queue
    BY <1>0, <2>1, EditRouteTyped
  <2> QED BY <2>1, <2>2, QueueKept DEF Waiting
<1>2. CASE Restart
  <2>1. \A p \in Pass : pass'[p].step \in {"none", "done"}
    BY <1>2 DEF Restart, NotAsked
  <2>2. \A p \in Pass : ~Waiting(p)' /\ pass'[p].step \notin Locked
    BY <2>1, LockedSteps DEF Waiting
  <2> QED BY <2>1, <2>2, QueueKept
<1>3. ASSUME NEW p \in Pass, Enqueue(p) PROVE QueueInv'
  <2>1. PICK q \in Pass, first \in BOOLEAN :
          /\ entry' = q /\ (entry # NoPass => q = entry)
          /\ pass' = [pass EXCEPT ![p].step = "queued", ![p].queue = q, ![p].first = first]
    <3>1. entry \in Pass \cup {NoPass}
      BY DEF TypeOK
    <3> QED BY <1>3, <3>1 DEF Enqueue
  <2>2. pass'[p].step = "queued" /\ pass'[p].queue = q /\ \A o \in Pass : o # p => pass'[o] = pass[o]
    BY <1>0, <2>1 DEF PassTyped, Asked
  <2>3. ASSUME NEW o \in Pass PROVE Ticketed(o)'
    <3> SUFFICES ASSUME Waiting(o)' PROVE pass'[o].queue = entry' /\ entry' \in Pass
      BY DEF Ticketed
    <3>1. CASE o = p
      BY <2>1, <2>2, <3>1
    <3>2. CASE o # p
      <4>1. Waiting(o) /\ Ticketed(o)
        BY <2>2, <3>2 DEF QueueInv, Waiting
      <4>2. pass[o].queue = entry /\ entry \in Pass
        BY <4>1 DEF Ticketed
      <4>3. entry' = entry
        BY <2>1, <4>2, ConstAssumption DEF ConstAssumption
      <4> QED BY <2>2, <3>2, <4>2, <4>3
    <3> QED BY <3>1, <3>2
  <2>4. ASSUME NEW o \in Pass, NEW r \in Pass PROVE Exclusive(o, r)'
    <3> SUFFICES ASSUME pass'[o].step \in Locked, pass'[r].step \in Locked,
                        pass'[o].queue = pass'[r].queue
                 PROVE  o = r
      BY DEF Exclusive
    <3>1. o # p /\ r # p
      BY <2>2, LockedSteps
    <3>2. pass'[o] = pass[o] /\ pass'[r] = pass[r] /\ Exclusive(o, r)
      BY <2>2, <3>1 DEF QueueInv
    <3> QED BY <3>2 DEF Exclusive
  <2> QED BY <2>3, <2>4 DEF QueueInv
<1>4. ASSUME NEW p \in Pass, Acquire(p) PROVE QueueInv'
  <2>1. /\ pass'[p].step = "setup" /\ pass'[p].queue = pass[p].queue /\ pass[p].step = "queued"
        /\ \A o \in Pass : o # p => pass'[o] = pass[o]
        /\ entry' = entry
    BY <1>0, <1>4 DEF Acquire, Goto, At, PassTyped, Asked
  <2>2. \A o \in Pass : pass[o].queue = pass[p].queue => pass[o].step \notin Locked
    BY <1>4 DEF Acquire
  <2>3. \A o \in Pass : pass'[o].queue = pass[o].queue
    BY <2>1
  <2>4. ASSUME NEW o \in Pass PROVE Ticketed(o)'
    <3>1. Waiting(o)' => Waiting(o)
      BY <2>1 DEF Waiting
    <3> QED BY <2>1, <2>3, <3>1 DEF QueueInv, Ticketed
  <2>5. ASSUME NEW o \in Pass, NEW r \in Pass PROVE Exclusive(o, r)'
    <3> SUFFICES ASSUME pass'[o].step \in Locked, pass'[r].step \in Locked,
                        pass'[o].queue = pass'[r].queue
                 PROVE  o = r
      BY DEF Exclusive
    <3>1. pass[o].queue = pass[r].queue /\ Exclusive(o, r)
      BY <2>3 DEF QueueInv
    <3>2. CASE o = p /\ r # p
      BY <2>1, <2>2, <3>1, <3>2
    <3>3. CASE r = p /\ o # p
      BY <2>1, <2>2, <3>1, <3>3
    <3>4. CASE o # p /\ r # p
      BY <2>1, <3>1, <3>4 DEF Exclusive
    <3> QED BY <3>2, <3>3, <3>4
  <2> QED BY <2>4, <2>5 DEF QueueInv
<1>5. ASSUME NEW p \in Pass, Steps(p) PROVE QueueInv'
  <2>1. \A s \in Source : Busy(p, s) => pass[p].step \in AtWork
    BY LockedSteps DEF StartInv
  <2> QED BY <1>5, <2>1, QueueStep
<1> QED BY <1>1, <1>2, <1>3, <1>4, <1>5 DEF Next

\* A lane writes of its pass only what is left to do and how it went.
LEMMA LaneStepStays ==
    ASSUME TypeOK, NEW p \in Pass, NEW s \in Source, LaneSteps(p, s)
    PROVE  /\ pass'[p].step = pass[p].step /\ pass'[p].queue = pass[p].queue
           /\ pass'[p].config = pass[p].config /\ pass'[p].crossed = pass[p].crossed
           /\ pass'[p].todo \subseteq pass[p].todo /\ pass'[p].spare = pass[p].spare
<1>0. PassTyped
  BY TypeParts
<1>1. \/ \E todo : pass' = [pass EXCEPT ![p].todo = @ \ todo]
      \/ pass' = Broken(p)
      \/ pass' = pass
      \/ \E got, lost : pass' = [pass EXCEPT ![p].got = got, ![p].lost = lost]
      \/ \E lost : pass' = [pass EXCEPT ![p].lost = lost]
  <2>1. Launch(p, s) => \E todo : pass' = [pass EXCEPT ![p].todo = @ \ todo]
    BY DEF Launch
  <2>2. Claim(p, s) \/ Answer(p, s) \/ PersistFails(p, s) => pass' = Broken(p) \/ pass' = pass
    BY DEF Claim, Answer, PersistFails, queue
  <2>3. Persist(p, s) =>
          \/ pass' = Broken(p)
          \/ \E got, lost : pass' = [pass EXCEPT ![p].got = got, ![p].lost = lost]
          \/ \E lost : pass' = [pass EXCEPT ![p].lost = lost]
    BY DEF Persist
  <2> QED BY <2>1, <2>2, <2>3 DEF LaneSteps
<1>2. CASE \E todo : pass' = [pass EXCEPT ![p].todo = @ \ todo]
  BY <1>0, <1>2 DEF PassTyped, Asked
<1>3. CASE pass' = Broken(p)
  BY <1>0, <1>3 DEF PassTyped, Asked, Broken
<1>4. CASE pass' = pass
  BY <1>4
<1>5. CASE \E got, lost : pass' = [pass EXCEPT ![p].got = got, ![p].lost = lost]
  BY <1>0, <1>5 DEF PassTyped, Asked
<1>6. CASE \E lost : pass' = [pass EXCEPT ![p].lost = lost]
  BY <1>0, <1>6 DEF PassTyped, Asked
<1> QED BY <1>1, <1>2, <1>3, <1>4, <1>5, <1>6

\* The operations that touch no lane and no job, but for the fallbacks'.
Plain(p) ==
    \/ ShowFirst(p) \/ Finish(p) \/ Unlock(p) \/ Setup(p) \/ Trouble(p)
    \/ PrepareFails(p) \/ StreamEnds(p) \/ (\E x \in Fallback : FallbackSkip(p, x))
    \/ FallbackFails(p) \/ Judge(p) \/ Generate(p) \/ Fails(p)

\* A pass that streams or falls back after one of them did so before, with no
\* more to do; one with a request under way still does.
LEMMA PlainStays ==
    ASSUME TypeOK, NEW p \in Pass, Plain(p)
    PROVE  /\ lane' = lane /\ job' = job /\ repaired' = repaired /\ stranded' = stranded
           /\ pass[p].step \notin {"none", "done"}
           /\ Resting(p) \/ pass[p].step \notin {"stream", "fallback"}
              \/ pass'[p].step \in {"stream", "fallback"}
           /\ \/ pass'[p].step \notin {"stream", "fallback"}
              \/ /\ pass[p].step \in {"stream", "fallback"}
                 /\ pass'[p].config = pass[p].config /\ pass'[p].crossed = pass[p].crossed
                 /\ pass'[p].todo \subseteq pass[p].todo /\ pass'[p].spare \subseteq pass[p].spare
<1>0. PassTyped
  BY TypeParts
<1>1. \A step : Goto(p, step) => /\ pass'[p].step = step
                                 /\ pass'[p].config = pass[p].config
                                 /\ pass'[p].crossed = (pass[p].crossed /\ step \in Asking)
                                 /\ pass'[p].todo = pass[p].todo
                                 /\ pass'[p].spare = pass[p].spare
  BY <1>0 DEF PassTyped, Goto, Asked
<1>2. CASE ShowFirst(p)
  <2>1. pass[p].step = "queued" /\ pass'[p].step = "queued"
    BY <1>0, <1>2 DEF ShowFirst, At, PassTyped, Asked
  <2> QED BY <1>2, <2>1 DEF ShowFirst, ledger
<1>3. CASE Finish(p) \/ Trouble(p) \/ Judge(p) \/ Generate(p) \/ Fails(p)
  <2>1. /\ pass[p].step \in {"finish", "setup", "plan", "generate", "judge", "failing"}
        /\ pass'[p].step \in {"unlock", "failing", "generate", "finish"}
    BY <1>1, <1>3 DEF Finish, Trouble, Judge, Generate, Fails, At
  <2> QED BY <1>3, <2>1 DEF Finish, Trouble, Judge, Generate, Fails, ledger
<1>4. CASE Unlock(p)
  <2>1. pass[p].step = "unlock" /\ pass'[p].step = "done"
    BY <1>0, <1>4 DEF Unlock, At, PassTyped, NotAsked
  <2> QED BY <1>4, <2>1 DEF Unlock, ledger
<1>5. CASE Setup(p)
  <2>1. pass[p].step = "setup" /\ pass'[p].step = "plan"
    BY <1>0, <1>5 DEF Setup, At, PassTyped, Asked
  <2> QED BY <1>5, <2>1 DEF Setup, ledger
<1>6. CASE PrepareFails(p)
  <2>1. pass[p].step = "stream"
    BY <1>6 DEF PrepareFails, At
  <2>2. /\ pass'[p].step = pass[p].step /\ pass'[p].config = pass[p].config
        /\ pass'[p].todo = {} /\ pass'[p].spare = pass[p].spare
        /\ pass'[p].crossed = pass[p].crossed
    BY <1>0, <1>6 DEF PrepareFails, Broken, PassTyped, Asked
  <2> QED BY <1>6, <2>1, <2>2 DEF PrepareFails, ledger
<1>7. CASE StreamEnds(p)
  <2>1. pass[p].step = "stream" /\ Resting(p)
    BY <1>7 DEF StreamEnds, At
  <2>2. Goto(p, "failing") \/ Goto(p, "fallback")
    BY <1>7 DEF StreamEnds
  <2> QED BY <1>0, <1>1, <1>7, <2>1, <2>2 DEF StreamEnds, ledger, Asking, PassTyped, Asked
<1>8. CASE FallbackFails(p)
  BY <1>1, <1>8 DEF FallbackFails, At, ledger
<1>9. ASSUME NEW x \in Fallback, FallbackSkip(p, x)
      PROVE  /\ lane' = lane /\ job' = job /\ repaired' = repaired /\ stranded' = stranded
             /\ pass[p].step = "fallback" /\ pass'[p].step = "fallback"
             /\ pass'[p].config = pass[p].config /\ pass'[p].crossed = pass[p].crossed
             /\ pass'[p].todo = pass[p].todo /\ pass'[p].spare \subseteq pass[p].spare
  BY <1>0, <1>9 DEF FallbackSkip, NextFallback, At, ledger, PassTyped, Asked
<1> QED BY <1>2, <1>3, <1>4, <1>5, <1>6, <1>7, <1>8, <1>9 DEF Plain

LEMMA StartStep ==
    ASSUME TypeOK, StartInv, NEW p \in Pass, Steps(p)
    PROVE  StartInv'
<1>0. LaneTyped
  BY TypeParts
<1> DEFINE Open == {"stream", "fallback"}
<1>1. \A o \in Pass : o # p => pass'[o] = pass[o] /\ lane'[o] = lane[o]
  BY StepKeepsOthers
<1>2. /\ pass[p].step \notin {"none", "done"}
      /\ \A s \in Source : lane'[p][s].at # "idle" => pass'[p].step \in Open
      /\ repaired' = repaired
  <2>1. CASE Plain(p)
    <3>1. /\ lane' = lane /\ repaired' = repaired /\ pass[p].step \notin {"none", "done"}
          /\ Resting(p) \/ pass[p].step \notin Open \/ pass'[p].step \in Open
      BY <2>1, PlainStays
    <3> QED BY <3>1, Zenon DEF StartInv, Resting, Busy
  <2>2. ASSUME NEW plan \in Plans, NEW route, Reconcile(p, plan, route)
        PROVE  lane' = lane /\ repaired' = repaired /\ pass[p].step = "plan"
    BY <2>2 DEF Reconcile, At
  <2>3. ASSUME NEW s \in Source, LaneSteps(p, s)
        PROVE  repaired' = repaired /\ pass[p].step \in Open /\ pass'[p].step \in Open
    <3>1. pass'[p].step = pass[p].step
      BY <2>3, LaneStepStays
    <3>2. repaired' = repaired /\ (At(p, "stream") \/ Busy(p, s))
      BY <2>3 DEF LaneSteps, Launch, Claim, Answer, Persist, PersistFails, Busy
    <3> QED BY <3>1, <3>2 DEF StartInv, At
  <2>4. ASSUME NEW x \in Fallback, FallbackLaunch(p, x)
        PROVE  repaired' = repaired /\ pass[p].step \in Open /\ pass'[p].step \in Open
    <3>1. pass[p].step = "fallback" /\ repaired' = repaired
      BY <2>4 DEF FallbackLaunch, NextFallback, At
    <3>2. PassTyped
      BY TypeParts
    <3>3. pass'[p].step = pass[p].step
      BY <2>4, <3>2 DEF FallbackLaunch, PassTyped, Asked
    <3> QED BY <3>1, <3>3
  <2>5. CASE FallbacksDone(p)
    <3>1. pass[p].step = "fallback" /\ Resting(p) /\ repaired' = repaired /\ lane' = lane
      BY <2>5 DEF FallbacksDone, At
    <3> QED BY <3>1 DEF Resting, Busy
  <2>6. \/ Plain(p) \/ (\E plan \in Plans, route \in 0..MaxConfig : Reconcile(p, plan, route))
        \/ (\E s \in Source : LaneSteps(p, s)) \/ (\E x \in Fallback : FallbackLaunch(p, x))
        \/ FallbacksDone(p)
    BY DEF Steps, Plain
  <2>7. CASE \E plan \in Plans, route \in 0..MaxConfig : Reconcile(p, plan, route)
    BY <2>2, <2>7 DEF StartInv, Busy
  <2>8. CASE (\E s \in Source : LaneSteps(p, s)) \/ (\E x \in Fallback : FallbackLaunch(p, x))
    BY <2>3, <2>4, <2>8
  <2> QED BY <2>1, <2>5, <2>6, <2>7, <2>8
<1>3. ASSUME NEW o \in Pass, pass'[o].step \notin {"none", "done"} PROVE repaired'
  BY <1>1, <1>2, <1>3 DEF StartInv
<1>4. ASSUME NEW o \in Pass, NEW s \in Source, lane'[o][s].at # "idle"
      PROVE  pass'[o].step \in Open
  BY <1>1, <1>2, <1>4 DEF StartInv, Busy
<1> QED BY <1>3, <1>4 DEF StartInv, Busy

LEMMA StartNext ==
    ASSUME TypeOK, StartInv, [Next]_vars
    PROVE  StartInv'
<1>0. PassTyped
  BY TypeParts
<1>1. CASE Bootstrap \/ EditWords \/ EditRoute \/ UNCHANGED vars
  <2>1. lane' = lane /\ (repaired => repaired') /\ (pass' = pass \/ EditRoute)
    BY <1>1 DEF Bootstrap, Release, EditWords, EditRoute, vars, queue
  <2>2. \A o \in Pass : pass'[o].step = pass[o].step
    BY <1>0, <2>1, EditRouteTyped
  <2> QED BY <2>1, <2>2 DEF StartInv, Busy
<1>2. CASE Restart
  <2>1. \A p \in Pass : pass'[p].step \in {"none", "done"}
    BY <1>2 DEF Restart, NotAsked
  <2>2. \A p \in Pass, s \in Source : lane'[p][s].at = "idle"
    BY <1>2 DEF Restart, Idle
  <2> QED BY <2>1, <2>2 DEF StartInv, Busy
<1>3. ASSUME NEW p \in Pass, Enqueue(p) \/ Acquire(p) PROVE StartInv'
  <2>1. /\ \A o \in Pass : o # p => pass'[o] = pass[o]
        /\ pass[p].step \in {"none", "queued"} /\ repaired' = repaired /\ lane' = lane
    BY <1>0, <1>3 DEF Enqueue, Acquire, Goto, At, PassTyped, Asked
  <2>2. repaired
    BY <1>3 DEF Enqueue, Acquire, At, StartInv
  <2>3. \A s \in Source : ~Busy(p, s)
    BY <2>1 DEF StartInv
  <2> QED BY <2>1, <2>2, <2>3 DEF StartInv, Busy
<1>4. ASSUME NEW p \in Pass, Steps(p) PROVE StartInv'
  BY <1>4, StartStep
<1> QED BY <1>1, <1>2, <1>3, <1>4 DEF Next

LEMMA QueueAndStart == Spec => [](QueueInv /\ StartInv)
<1>1. TypeOK /\ QueueInv /\ StartInv /\ [Next]_vars => (QueueInv /\ StartInv)'
  BY QueueNext, StartNext
<1> QED BY <1>1, QueueInit, TypeCorrect, PTL DEF Spec

\* The passes of a note take turns, whatever becomes of the entry of their queue
\* in QUEUES (processing_queue.rs:11).
THEOREM OnePassAtATime == Spec => []OnePass
  BY QueueAndStart, QueueGivesOnePass, PTL

-----------------------------------------------------------------------------
(* The requests and the jobs *)

Open   == {"stream", "fallback"}
Requesting == {"request", "answered", "refused"}
Holding(p, s, x) == lane[p][s].span = x /\ lane[p][s].at \in Requesting

\* A pass goes on with the jobs as it planned them; a request holds its job; a
\* job that runs is held, or waits for the start-up repair, or its write failed.
AsPlanned(p) == pass[p].step \in Open =>
                  \A x \in pass[p].todo \cup pass[p].spare : job[x].config = pass[p].config
AsAsked(p, s) == Busy(p, s) => job[lane[p][s].span].config = pass[p].config
Holds(p, s)   == lane[p][s].at \in Requesting => job[lane[p][s].span].status = "running"
Served(x)     == job[x].status = "running" =>
                   (\E p \in Pass, s \in Source : Holding(p, s, x)) \/ ~repaired \/ x \in stranded
WorkInv ==
    /\ \A p \in Pass : AsPlanned(p)
    /\ \A p \in Pass, s \in Source : AsAsked(p, s) /\ Holds(p, s)
    /\ \A x \in Span : Served(x)

LEMMA WorkInit == Init => WorkInv
<1> SUFFICES ASSUME Init PROVE WorkInv
  OBVIOUS
<1>1. \A p \in Pass : pass[p].step = "none"
  BY DEF Init, NotAsked
<1>2. \A p \in Pass, s \in Source : lane[p][s].at = "idle"
  BY DEF Init, Idle
<1>3. \A x \in Span : job[x].status = "none"
  BY DEF Init, NoJob
<1> QED BY <1>1, <1>2, <1>3 DEF WorkInv, AsPlanned, AsAsked, Holds, Served, Open, Requesting, Busy

\* Under way are only the lanes of one pass.
LEMMA BusyAlone ==
    ASSUME OnePass, StartInv, NEW p \in Pass, pass[p].step \in AtWork, NEW o \in Pass,
           NEW s \in Source, Busy(o, s)
    PROVE  o = p /\ pass[p].step \in Open
<1>1. pass[o].step \in Open
  BY DEF StartInv, Open
<1>2. pass[o].step \in AtWork
  BY <1>1, LockedSteps DEF Open
<1> QED BY <1>1, <1>2 DEF OnePass

\* The passes that stream or fall back go on as they were.
GoesOn(o) ==
    pass'[o].step \in Open =>
      /\ pass[o].step \in Open /\ pass'[o].config = pass[o].config
      /\ pass'[o].todo \subseteq pass[o].todo /\ pass'[o].spare \subseteq pass[o].spare

LEMMA PlansKept ==
    ASSUME TypeOK, WorkInv, \A x \in Span : job'[x].config = job[x].config,
           NEW o \in Pass, GoesOn(o)
    PROVE  AsPlanned(o)'
<1> SUFFICES ASSUME pass'[o].step \in Open, NEW x \in pass'[o].todo \cup pass'[o].spare
             PROVE  job'[x].config = pass'[o].config
  BY DEF AsPlanned
<1>1. x \in pass[o].todo \cup pass[o].spare /\ pass[o].step \in Open
      /\ pass'[o].config = pass[o].config
  BY DEF GoesOn
<1>2. pass[o].todo \subseteq Turn /\ pass[o].spare \subseteq Fallback
  BY TypeParts DEF PassTyped, Asked
<1>3. x \in Span
  BY <1>1, <1>2, SpanFacts
<1>4. job[x].config = pass[o].config
  BY <1>1 DEF WorkInv, AsPlanned
<1> QED BY <1>1, <1>3, <1>4

\* A step that touches no lane and starts or ends no job.
LEMMA WorkQuiet ==
    ASSUME TypeOK, StartInv', WorkInv, lane' = lane, repaired' = repaired, stranded' = stranded,
           \A x \in Span : /\ job'[x].config = job[x].config
                           /\ job'[x].status = "running" <=> job[x].status = "running",
           \A o \in Pass : GoesOn(o)
    PROVE  WorkInv'
<1>1. \A o \in Pass : AsPlanned(o)'
  BY PlansKept
<1>2. ASSUME NEW o \in Pass, NEW s \in Source PROVE AsAsked(o, s)' /\ Holds(o, s)'
  <2>1. Busy(o, s) => lane[o][s].span \in Span
    BY TypeParts, SpanFacts DEF LaneTyped
  <2>2. Busy(o, s) => pass'[o].config = pass[o].config
    BY DEF StartInv, Busy, GoesOn, Open
  <2>3. AsAsked(o, s) /\ Holds(o, s)
    BY DEF WorkInv
  <2>4. AsAsked(o, s)'
    BY <2>1, <2>2, <2>3 DEF AsAsked, Busy
  <2>5. Holds(o, s)'
    BY <2>1, <2>3 DEF Holds, Busy, Requesting
  <2> QED BY <2>4, <2>5
<1>3. ASSUME NEW x \in Span PROVE Served(x)'
  BY DEF WorkInv, Served, Holding
<1> QED BY <1>1, <1>2, <1>3 DEF WorkInv

\* What a step of the lane of a source does: it touches no other lane and no job
\* of another source; it takes a span left to do; it holds a job that runs, and
\* lets go of it only when it has ended or its write failed.
OtherLanes(p, s) == \A o \in Pass, t \in Source : o # p \/ t # s => lane'[o][t] = lane[o][t]
OwnJobs(p, s) ==
    \A x \in Span : /\ job'[x].config = job[x].config
                    /\ SourceOf[x] # s => job'[x] = job[x]
                    /\ job'[x].status = "running" =>
                         job[x].status = "running" \/ Holding(p, s, x)'
Takes(p, s) ==
    lane'[p][s].at # "idle" =>
      \/ Busy(p, s) /\ lane'[p][s].span = lane[p][s].span
      \/ lane'[p][s].span \in pass[p].todo \cup pass[p].spare
HoldsOn(p, s) ==
    lane'[p][s].at \in Requesting =>
      \/ job'[lane'[p][s].span].status = "running"
      \/ Holding(p, s, lane'[p][s].span) /\ job' = job
LetsGo(p, s) ==
    \A x \in Span : Holding(p, s, x) =>
       Holding(p, s, x)' \/ job'[x].status # "running" \/ x \in stranded'
LaneEffect(p, s) ==
    /\ OtherLanes(p, s) /\ OwnJobs(p, s) /\ Takes(p, s) /\ HoldsOn(p, s) /\ LetsGo(p, s)
    /\ stranded \subseteq stranded' /\ repaired' = repaired

LEMMA MoveLane ==
    ASSUME LaneTyped, NEW p \in Pass, NEW s \in Source, NEW at, NEW x, NEW route,
           Move(p, s, at, x, route)
    PROVE  lane'[p][s] = [at |-> at, span |-> x, route |-> route] /\ OtherLanes(p, s)
  BY DEF LaneTyped, Move, OtherLanes

LEMMA FreeLane ==
    ASSUME LaneTyped, NEW p \in Pass, NEW s \in Source, Free(p, s)
    PROVE  lane'[p][s] = Idle /\ OtherLanes(p, s)
  BY DEF LaneTyped, Free, OtherLanes

LEMMA MarkEffect ==
    ASSUME JobsTyped, NEW x \in Span, NEW as, Mark(x, as)
    PROVE  /\ \A y \in Span : job'[y].config = job[y].config /\ (y # x => job'[y] = job[y])
           /\ job'[x].status = as
  BY DEF JobsTyped, Mark, Job

LEMMA SuccessEffect ==
    ASSUME JobsTyped, NEW p \in Pass, NEW s \in Source, NEW x \in Span, x = lane[p][s].span,
           SourceOf[x] = s, Success(p, s)
    PROVE  /\ \A y \in Span : /\ job'[y].config = job[y].config
                              /\ SourceOf[y] # s => job'[y] = job[y]
                              /\ job'[y].status = "running" => job[y].status = "running"
           /\ job'[x].status # "running"
<1> DEFINE done == [job EXCEPT ![x].status = "succeeded"]
           whole == x \in Fallback
           last  == ~whole /\ s \in Complete(done)
           retired(y) == /\ y # x /\ SourceOf[y] = s /\ job[y].status # "none"
                         /\ whole \/ (last /\ y \in Fallback /\ job[y].status = "pending")
<1>1. job' = [y \in Span |-> IF retired(y) THEN [done[y] EXCEPT !.status = "superseded"]
                               ELSE done[y]]
  BY DEF Success
<1>2. \A y \in Span : /\ done[y].config = job[y].config
                      /\ y # x => done[y] = job[y]
                      /\ done[y].status = IF y = x THEN "succeeded" ELSE job[y].status
  BY DEF JobsTyped, Job
<1>3. \A y \in Span : retired(y) => y # x /\ SourceOf[y] = s
  OBVIOUS
<1>4. \A y \in Span : done[y] \in [status : JobStatus, config : Config, index : Nat]
  BY DEF JobsTyped, Job, JobStatus
<1> HIDE DEF done, retired
<1>5. ASSUME NEW y \in Span, retired(y)
      PROVE  job'[y].status = "superseded" /\ job'[y].config = done[y].config
  BY <1>1, <1>4, <1>5
<1>6. ASSUME NEW y \in Span, ~retired(y) PROVE job'[y] = done[y]
  BY <1>1, <1>6
<1> QED BY <1>2, <1>3, <1>5, <1>6

LEMMA LaneStepEffect ==
    ASSUME TypeOK, WorkInv, NEW p \in Pass, NEW s \in Source, LaneSteps(p, s)
    PROVE  LaneEffect(p, s)
<1> DEFINE x == lane[p][s].span
<1>0. JobsTyped /\ LaneTyped
  BY TypeParts
<1>1. Busy(p, s) => x \in Span /\ SourceOf[x] = s
  BY <1>0, SpanFacts DEF LaneTyped
<1>2. Idle.at = "idle"
  BY DEF Idle
<1>3. CASE Launch(p, s)
  <2>1. PICK y \in pass[p].todo : Move(p, s, "claim", y, 0)
    BY <1>3 DEF Launch
  <2>2. /\ lane'[p][s] = [at |-> "claim", span |-> y, route |-> 0]
        /\ OtherLanes(p, s)
    BY <1>0, <2>1, MoveLane
  <2>3. lane[p][s].at = "idle" /\ job' = job /\ stranded' = stranded /\ repaired' = repaired
    BY <1>3 DEF Launch, Busy, ledger
  <2>4. \A z \in Span : ~Holding(p, s, z)
    BY <2>3 DEF Holding, Requesting
  <2>5. OwnJobs(p, s) /\ LetsGo(p, s)
    BY <2>3, <2>4 DEF OwnJobs, LetsGo
  <2>6. Takes(p, s) /\ HoldsOn(p, s)
    BY <2>1, <2>2 DEF Takes, HoldsOn, Requesting
  <2> QED BY <2>2, <2>3, <2>5, <2>6 DEF LaneEffect
<1>4. CASE Claim(p, s) /\ job[x].status = "pending"
  <2>1. /\ lane[p][s].at = "claim" /\ job' = [job EXCEPT ![x].status = "running"]
        /\ Move(p, s, "request", x, config.route) /\ stranded' = stranded /\ repaired' = repaired
    BY <1>4 DEF Claim
  <2>2. /\ lane'[p][s] = [at |-> "request", span |-> x, route |-> config.route]
        /\ OtherLanes(p, s)
    BY <1>0, <2>1, MoveLane
  <2>3. Busy(p, s) /\ x \in Span /\ SourceOf[x] = s
    BY <1>1, <2>1 DEF Busy
  <2>4. /\ \A y \in Span : job'[y].config = job[y].config /\ (y # x => job'[y] = job[y])
        /\ job'[x].status = "running"
    BY <1>0, <2>1, <2>3 DEF JobsTyped, Job
  <2>5. \A y \in Span : y = x => Holding(p, s, y)'
    BY <2>2 DEF Holding, Requesting
  <2>6. \A y \in Span : ~Holding(p, s, y)
    BY <2>1 DEF Holding, Requesting
  <2>7. Takes(p, s) /\ HoldsOn(p, s)
    BY <2>2, <2>3, <2>4 DEF Takes, HoldsOn
  <2>8. OwnJobs(p, s)
    BY <2>3, <2>4, <2>5 DEF OwnJobs
  <2>9. LetsGo(p, s)
    BY <2>6 DEF LetsGo
  <2> QED BY <2>1, <2>2, <2>7, <2>8, <2>9 DEF LaneEffect
<1>5. CASE Claim(p, s) /\ job[x].status # "pending"
  <2>1. /\ lane[p][s].at = "claim" /\ job' = job
        /\ Free(p, s) /\ stranded' = stranded /\ repaired' = repaired
    BY <1>5 DEF Claim
  <2>2. /\ lane'[p][s] = Idle
        /\ OtherLanes(p, s)
    BY <1>0, <2>1, FreeLane
  <2>3. \A z \in Span : ~Holding(p, s, z)
    BY <2>1 DEF Holding, Requesting
  <2>4. OwnJobs(p, s) /\ LetsGo(p, s)
    BY <2>1, <2>3 DEF OwnJobs, LetsGo
  <2>5. Takes(p, s) /\ HoldsOn(p, s)
    BY <1>2, <2>2 DEF Takes, HoldsOn, Requesting
  <2> QED BY <2>1, <2>2, <2>4, <2>5 DEF LaneEffect
<1>6. CASE Answer(p, s)
  <2>1. PICK how \in {"answered", "refused"}, route \in {0, lane[p][s].route, config.route} :
           Move(p, s, how, x, route)
    BY <1>6 DEF Answer
  <2>2. /\ lane'[p][s] = [at |-> how, span |-> x, route |-> route]
        /\ OtherLanes(p, s)
    BY <1>0, <2>1, MoveLane
  <2>3. /\ lane[p][s].at = "request" /\ job' = job /\ stranded' = stranded
        /\ repaired' = repaired
    BY <1>6 DEF Answer, ledger
  <2>4. \A y \in Span : Holding(p, s, y) <=> Holding(p, s, y)'
    BY <2>2, <2>3 DEF Holding, Requesting
  <2>5. Busy(p, s)
    BY <2>3 DEF Busy
  <2>6. Holding(p, s, x)
    BY <2>3 DEF Holding, Requesting
  <2>7. Takes(p, s) /\ HoldsOn(p, s)
    BY <2>2, <2>3, <2>5, <2>6 DEF Takes, HoldsOn
  <2>8. OwnJobs(p, s)
    BY <2>3 DEF OwnJobs
  <2>9. LetsGo(p, s)
    BY <2>4 DEF LetsGo
  <2> QED BY <2>2, <2>3, <2>7, <2>8, <2>9 DEF LaneEffect
<1>7. CASE Persist(p, s) \/ PersistFails(p, s)
  <2>1. /\ lane[p][s].at \in {"answered", "refused"} /\ Free(p, s) /\ repaired' = repaired
    BY <1>7 DEF Persist, PersistFails
  <2>2. /\ lane'[p][s] = Idle
        /\ OtherLanes(p, s)
    BY <1>0, <2>1, FreeLane
  <2>3. x \in Span /\ SourceOf[x] = s
    BY <1>1, <2>1 DEF Busy
  <2>4. \/ job' = job /\ stranded' = stranded /\ job[x].status # "running"
        \/ Success(p, s) /\ stranded' = stranded
        \/ Mark(x, "failed") /\ stranded' = stranded
        \/ job' = job /\ stranded' = stranded \cup {x}
    BY <1>7 DEF Persist, PersistFails, ledger
  <2>5. /\ \A y \in Span : /\ job'[y].config = job[y].config
                           /\ SourceOf[y] # s => job'[y] = job[y]
                           /\ job'[y].status = "running" => job[y].status = "running"
        /\ job'[x].status # "running" \/ x \in stranded'
        /\ stranded \subseteq stranded'
    <3>1. CASE Success(p, s) /\ stranded' = stranded
      BY <1>0, <2>3, <3>1, SuccessEffect
    <3>2. CASE Mark(x, "failed") /\ stranded' = stranded
      <4>1. "failed" # "running"
        OBVIOUS
      <4> QED BY <1>0, <2>3, <3>2, <4>1, MarkEffect
    <3>3. CASE job' = job /\ stranded' = stranded /\ job[x].status # "running"
      BY <3>3
    <3>4. CASE job' = job /\ stranded' = stranded \cup {x}
      BY <3>4
    <3> QED BY <2>4, <3>1, <3>2, <3>3, <3>4
  <2>6. \A y \in Span : Holding(p, s, y) => y = x
    BY DEF Holding
  <2>7. Takes(p, s) /\ HoldsOn(p, s)
    BY <1>2, <2>2 DEF Takes, HoldsOn, Requesting
  <2>8. OwnJobs(p, s)
    BY <2>5 DEF OwnJobs
  <2>9. LetsGo(p, s)
    BY <2>5, <2>6 DEF LetsGo
  <2> QED BY <2>1, <2>2, <2>5, <2>7, <2>8, <2>9 DEF LaneEffect
<1> QED BY <1>3, <1>4, <1>5, <1>6, <1>7 DEF LaneSteps

LEMMA FallbackLaunchEffect ==
    ASSUME TypeOK, NEW p \in Pass, NEW x \in Fallback, FallbackLaunch(p, x)
    PROVE  LaneEffect(p, SourceOf[x]) /\ GoesOn(p) /\ SourceOf[x] \in Source
           /\ pass[p].step = "fallback"
<1> DEFINE s == SourceOf[x]
<1>0. PassTyped /\ LaneTyped
  BY TypeParts
<1>1. x \in Span /\ s \in Source
  BY SpanFacts
<1>2. /\ Move(p, s, "claim", x, 0) /\ x \in pass[p].spare /\ job' = job
      /\ stranded' = stranded /\ repaired' = repaired /\ Resting(p)
      /\ pass[p].step = "fallback" /\ pass' = [pass EXCEPT ![p].spare = @ \ {x}]
  BY DEF FallbackLaunch, NextFallback, At, ledger
<1>3. /\ lane'[p][s] = [at |-> "claim", span |-> x, route |-> 0]
      /\ OtherLanes(p, s)
  BY <1>0, <1>1, <1>2, MoveLane
<1>4. lane[p][s].at = "idle"
  BY <1>1, <1>2 DEF Resting, Busy
<1>5. LaneEffect(p, s)
  <2>1. \A z \in Span : ~Holding(p, s, z)
    BY <1>4 DEF Holding, Requesting
  <2>2. OwnJobs(p, s) /\ LetsGo(p, s)
    BY <1>2, <2>1 DEF OwnJobs, LetsGo
  <2>3. Takes(p, s) /\ HoldsOn(p, s)
    BY <1>2, <1>3 DEF Takes, HoldsOn, Requesting
  <2> QED BY <1>2, <1>3, <2>2, <2>3 DEF LaneEffect
<1>6. GoesOn(p)
  BY <1>0, <1>2 DEF GoesOn, Open, PassTyped, Asked
<1> QED BY <1>1, <1>2, <1>5, <1>6

LEMMA WorkLane ==
    ASSUME TypeOK, TypeOK', OnePass, StartInv, StartInv', WorkInv, NEW p \in Pass, NEW s \in Source,
           pass[p].step \in Open, LaneEffect(p, s), \A o \in Pass : GoesOn(o)
    PROVE  WorkInv'
<1>0. LaneTyped /\ JobsTyped /\ PassTyped
  BY TypeParts
<1>1. \A x \in Span : job'[x].config = job[x].config
  BY DEF LaneEffect, OwnJobs
<1>2. \A o \in Pass : AsPlanned(o)'
  BY <1>1, PlansKept
<1>3. ASSUME NEW o \in Pass, NEW t \in Source, Busy(o, t)
      PROVE  lane[o][t].span \in Span /\ SourceOf[lane[o][t].span] = t /\ o = p
  <2>1. lane[o][t].span \in Of(t)
    BY <1>0, <1>3 DEF LaneTyped
  <2>2. pass[p].step \in AtWork
    BY LockedSteps DEF Open
  <2>3. o = p
    BY <1>3, <2>2, BusyAlone
  <2> QED BY <2>1, <2>3, SpanFacts
<1>4. ASSUME NEW o \in Pass, NEW t \in Source PROVE AsAsked(o, t)'
  <2> SUFFICES ASSUME lane'[o][t].at # "idle"
               PROVE  job'[lane'[o][t].span].config = pass'[o].config
    BY DEF AsAsked, Busy
  <2>1. pass'[o].step \in Open /\ pass[o].step \in Open /\ pass'[o].config = pass[o].config
    BY DEF StartInv, Busy, GoesOn, Open
  <2>2. CASE Busy(o, t) /\ lane'[o][t].span = lane[o][t].span
    <3>1. job[lane[o][t].span].config = pass[o].config
      BY <2>2 DEF WorkInv, AsAsked
    <3> QED BY <1>1, <1>3, <2>1, <2>2, <3>1
  <2>3. CASE o = p /\ t = s /\ lane'[p][s].span \in pass[p].todo \cup pass[p].spare
    <3>1. job[lane'[p][s].span].config = pass[p].config
      BY <2>3 DEF WorkInv, AsPlanned
    <3>2. lane'[p][s].span \in Span
      BY <1>0, <2>3, SpanFacts DEF PassTyped, Asked
    <3> QED BY <1>1, <2>1, <2>3, <3>1, <3>2
  <2>4. (o # p \/ t # s) => lane'[o][t] = lane[o][t]
    BY DEF LaneEffect, OtherLanes
  <2>5. o # p \/ t # s => Busy(o, t) /\ lane'[o][t].span = lane[o][t].span
    BY <2>4 DEF Busy
  <2>6. o = p /\ t = s => \/ Busy(p, s) /\ lane'[p][s].span = lane[p][s].span
                          \/ lane'[p][s].span \in pass[p].todo \cup pass[p].spare
    BY DEF LaneEffect, Takes
  <2> QED BY <2>2, <2>3, <2>5, <2>6
<1>5. ASSUME NEW o \in Pass, NEW t \in Source PROVE Holds(o, t)'
  <2> SUFFICES ASSUME lane'[o][t].at \in Requesting
               PROVE  job'[lane'[o][t].span].status = "running"
    BY DEF Holds
  <2>1. CASE o # p \/ t # s
    <3>1. lane'[o][t] = lane[o][t]
      BY <2>1 DEF LaneEffect, OtherLanes
    <3>2. Busy(o, t)
      BY <3>1 DEF Busy, Requesting
    <3>3. lane[o][t].span \in Span /\ SourceOf[lane[o][t].span] # s
      BY <1>3, <2>1, <3>2
    <3>4. job[lane[o][t].span].status = "running"
      BY <3>1 DEF WorkInv, Holds
    <3> QED BY <3>1, <3>3, <3>4 DEF LaneEffect, OwnJobs
  <2>2. CASE o = p /\ t = s
    <3>1. \/ job'[lane'[p][s].span].status = "running"
          \/ Holding(p, s, lane'[p][s].span) /\ job' = job
      BY <2>2 DEF LaneEffect, HoldsOn
    <3>2. ASSUME Holding(p, s, lane'[p][s].span) PROVE job[lane'[p][s].span].status = "running"
      BY <3>2 DEF Holding, WorkInv, Holds
    <3> QED BY <2>2, <3>1, <3>2
  <2> QED BY <2>1, <2>2
<1>6. ASSUME NEW x \in Span PROVE Served(x)'
  <2> SUFFICES ASSUME job'[x].status = "running", repaired', x \notin stranded'
               PROVE  \E o \in Pass, t \in Source : Holding(o, t, x)'
    BY DEF Served, Holding
  <2>1. job[x].status = "running" \/ Holding(p, s, x)'
    BY DEF LaneEffect, OwnJobs
  <2>2. ASSUME job[x].status = "running" PROVE \E o \in Pass, t \in Source : Holding(o, t, x)
    BY <2>2 DEF WorkInv, Served, LaneEffect
  <2>3. ASSUME NEW o \in Pass, NEW t \in Source, Holding(o, t, x) PROVE Holding(o, t, x)'
    <3>1. o # p \/ t # s => lane'[o][t] = lane[o][t]
      BY DEF LaneEffect, OtherLanes
    <3>2. Holding(p, s, x) => Holding(p, s, x)'
      BY DEF LaneEffect, LetsGo
    <3> QED BY <2>3, <3>1, <3>2 DEF Holding
  <2> QED BY <2>1, <2>2, <2>3
<1> QED BY <1>2, <1>4, <1>5, <1>6 DEF WorkInv

LEMMA WorkReconcile ==
    ASSUME TypeOK, OnePass, StartInv, StartInv', WorkInv, NEW p \in Pass, NEW plan \in Plans,
           NEW route \in 0..MaxConfig, Reconcile(p, plan, route),
           \A o \in Pass : o # p => GoesOn(o)
    PROVE  WorkInv'
<1> DEFINE cfg     == [words |-> pass[p].config.words, route |-> route]
           planned == Planned(plan, cfg, {x \in DOMAIN plan : Reusable(x, cfg)})
           todo    == {x \in Turn \cap DOMAIN plan : planned[x].status = "pending"}
           spare   == {x \in Fallback \cap DOMAIN plan : planned[x].status = "pending"}
           kept    == {SourceOf[x] : x \in {y \in DOMAIN plan : planned[y].status = "succeeded"}}
<1>0. JobsTyped /\ PassTyped /\ LaneTyped
  BY TypeParts, Zenon
<1>1. /\ pass[p].step = "plan" /\ lane' = lane /\ repaired' = repaired /\ stranded' = stranded
      /\ \/ Goto(p, "failing") /\ job' = job
         \/ Goto(p, "failing") /\ job' = planned
         \/ /\ job' = planned
            /\ pass' = [pass EXCEPT ![p].step = "stream", ![p].config = cfg, ![p].todo = todo,
                                    ![p].spare = spare, ![p].got = kept]
  BY DEF Reconcile, At, ledger
<1> HIDE DEF todo, spare, kept, planned, cfg
<1>2. \A o \in Pass, s \in Source : ~Busy(o, s)
  <2>1. pass[p].step \in AtWork /\ pass[p].step \notin Open
    BY <1>1 DEF AtWork, Locked, PassStep, Open
  <2> QED BY <2>1, BusyAlone
<1>3. repaired
  BY <1>1 DEF StartInv
<1>4. \A o \in Pass : o # p => pass[o].step \notin Open
  <2>1. pass[p].step \in AtWork
    BY <1>1 DEF AtWork, Locked, PassStep
  <2> QED BY <2>1, LockedSteps DEF OnePass, Open
<1>5. /\ \A x \in DOMAIN plan : planned[x].config = cfg
      /\ \A x \in Span : planned[x].status = "running" => job[x].status = "running"
  <2>1. cfg \in Config
    BY <1>0 DEF PassTyped, Asked, cfg, Config
  <2> QED BY <1>0, <2>1, PlannedTyped DEF planned
<1>6. ASSUME NEW o \in Pass PROVE AsPlanned(o)'
  <2>1. CASE o # p
    BY <1>4, <2>1 DEF GoesOn, AsPlanned
  <2>2. CASE o = p /\ Goto(p, "failing")
    <3>1. pass'[p].step = "failing"
      BY <1>0, <2>2 DEF PassTyped, Goto, Asked
    <3> QED BY <2>2, <3>1 DEF AsPlanned, Open
  <2>3. CASE o = p /\ ~Goto(p, "failing")
    <3>1. job' = planned
      BY <1>1, <2>3
    <3>2. pass'[p].todo = todo /\ pass'[p].spare = spare /\ pass'[p].config = cfg
      BY <1>0, <1>1, <2>3 DEF PassTyped, Asked
    <3>3. todo \cup spare \subseteq DOMAIN plan
      BY DEF todo, spare
    <3>4. \A x \in todo \cup spare : planned[x].config = cfg
      BY <1>5, <3>3
    <3> QED BY <2>3, <3>1, <3>2, <3>4 DEF AsPlanned
  <2> QED BY <2>1, <2>2, <2>3
<1>7. \A o \in Pass, s \in Source : AsAsked(o, s)' /\ Holds(o, s)'
  BY <1>1, <1>2 DEF AsAsked, Holds, Busy, Requesting
<1>8. ASSUME NEW x \in Span PROVE Served(x)'
  <2> SUFFICES ASSUME job'[x].status = "running" PROVE x \in stranded'
    BY DEF Served
  <2>1. job[x].status = "running"
    BY <1>1, <1>5
  <2>2. \A o \in Pass, s \in Source : ~Holding(o, s, x)
    BY <1>2 DEF Busy, Holding, Requesting
  <2> QED BY <1>1, <1>3, <2>1, <2>2 DEF WorkInv, Served
<1> QED BY <1>6, <1>7, <1>8 DEF WorkInv

LEMMA WorkStep ==
    ASSUME TypeOK, TypeOK', OnePass, StartInv, StartInv', WorkInv, NEW p \in Pass, Steps(p)
    PROVE  WorkInv'
<1>0. PassTyped
  BY TypeParts
<1>1. \A o \in Pass : o # p => GoesOn(o)
  BY StepKeepsOthers DEF GoesOn
<1>2. CASE Plain(p)
  <2>1. /\ lane' = lane /\ job' = job /\ repaired' = repaired /\ stranded' = stranded
        /\ GoesOn(p)
    BY <1>2, PlainStays DEF GoesOn, Open
  <2> QED BY <1>1, <2>1, WorkQuiet
<1>3. ASSUME NEW plan \in Plans, NEW route \in 0..MaxConfig, Reconcile(p, plan, route)
      PROVE  WorkInv'
  BY <1>1, <1>3, WorkReconcile
<1>4. ASSUME NEW s \in Source, LaneSteps(p, s) PROVE WorkInv'
  <2>1. GoesOn(p)
    BY <1>4, LaneStepStays DEF GoesOn
  <2>2. pass[p].step \in Open
    BY <1>4 DEF LaneSteps, Launch, Claim, Answer, Persist, PersistFails, At, Busy, StartInv, Open
  <2>3. LaneEffect(p, s)
    BY <1>4, LaneStepEffect
  <2> QED BY <1>1, <2>1, <2>2, <2>3, WorkLane
<1>5. ASSUME NEW x \in Fallback, FallbackLaunch(p, x) PROVE WorkInv'
  <2>1. /\ LaneEffect(p, SourceOf[x]) /\ GoesOn(p) /\ SourceOf[x] \in Source
        /\ pass[p].step \in Open
    BY <1>5, FallbackLaunchEffect DEF Open
  <2> QED BY <1>1, <2>1, WorkLane
<1>6. CASE FallbacksDone(p)
  <2>1. /\ lane' = lane /\ repaired' = repaired /\ stranded' = stranded /\ Goto(p, "judge")
    BY <1>6 DEF FallbacksDone
  <2>2. pass'[p].step = "judge"
    BY <1>0, <2>1 DEF PassTyped, Goto, Asked
  <2>3. GoesOn(p)
    BY <2>2 DEF GoesOn, Open
  <2>4. ASSUME NEW x \in Span
        PROVE  /\ job'[x].config = job[x].config
               /\ job'[x].status = "running" <=> job[x].status = "running"
    <3>1. job[x] \in [status : JobStatus, config : Config, index : Nat]
      BY TypeParts DEF JobsTyped, Job
    <3>2. job'[x] = IF x \in Fallback /\ job[x].status = "pending"
                    THEN [job[x] EXCEPT !.status = "superseded"] ELSE job[x]
      BY <1>6 DEF FallbacksDone
    <3> QED BY <3>1, <3>2
  <2> QED BY <1>1, <2>1, <2>3, <2>4, WorkQuiet
<1>7. \/ Plain(p) \/ (\E plan \in Plans, route \in 0..MaxConfig : Reconcile(p, plan, route))
      \/ (\E s \in Source : LaneSteps(p, s)) \/ (\E x \in Fallback : FallbackLaunch(p, x))
      \/ FallbacksDone(p)
  BY DEF Steps, Plain
<1> QED BY <1>2, <1>3, <1>4, <1>5, <1>6, <1>7

LEMMA WorkNext ==
    ASSUME TypeOK, TypeOK', OnePass, StartInv, StartInv', WorkInv, [Next]_vars
    PROVE  WorkInv'
<1>0. PassTyped
  BY TypeParts
<1>1. CASE Bootstrap
  <2>1. /\ \A o \in Pass : pass[o].step \notin Open
        /\ \A o \in Pass, s \in Source : ~Busy(o, s)
    BY <1>1 DEF Bootstrap, StartInv, Open
  <2>2. /\ lane' = lane /\ pass' = pass
        /\ \A x \in Span : job'[x] = IF job[x].status = "running"
                                     THEN [job[x] EXCEPT !.status = "pending"] ELSE job[x]
    BY <1>1 DEF Bootstrap, Release, queue
  <2>3. \A x \in Span : job'[x].status # "running"
    <3>1. \A x \in Span : job[x] \in [status : JobStatus, config : Config, index : Nat]
      BY TypeParts DEF JobsTyped, Job
    <3> QED BY <2>2, <3>1
  <2>4. \A o \in Pass : AsPlanned(o)'
    BY <2>1, <2>2 DEF AsPlanned
  <2>5. \A o \in Pass, s \in Source : AsAsked(o, s)' /\ Holds(o, s)'
    BY <2>1, <2>2 DEF AsAsked, Holds, Busy, Requesting
  <2>6. \A x \in Span : Served(x)'
    BY <2>3 DEF Served
  <2> QED BY <2>4, <2>5, <2>6 DEF WorkInv
<1>2. CASE Restart
  <2>1. \A p \in Pass : pass'[p].step \in {"none", "done"}
    BY <1>2 DEF Restart, NotAsked
  <2>2. \A p \in Pass, s \in Source : lane'[p][s].at = "idle"
    BY <1>2 DEF Restart, Idle
  <2>3. ~repaired'
    BY <1>2 DEF Restart
  <2> QED BY <2>1, <2>2, <2>3 DEF WorkInv, AsPlanned, AsAsked, Holds, Served, Busy, Requesting, Open
<1>3. CASE EditWords \/ EditRoute \/ UNCHANGED vars
  <2>1. /\ lane' = lane /\ repaired' = repaired /\ stranded' = stranded /\ job' = job
        /\ pass' = pass \/ EditRoute
    BY <1>3 DEF EditWords, EditRoute, vars, ledger, queue
  <2>2. \A o \in Pass : GoesOn(o)
    <3>1. CASE pass' = pass
      BY <3>1 DEF GoesOn
    <3>2. CASE EditRoute
      BY <1>0, <3>2, EditRouteTyped DEF GoesOn
    <3> QED BY <2>1, <3>1, <3>2
  <2>3. \A x \in Span : /\ job'[x].config = job[x].config
                        /\ job'[x].status = "running" <=> job[x].status = "running"
    BY <2>1
  <2> QED BY <2>1, <2>2, <2>3, WorkQuiet
<1>4. ASSUME NEW p \in Pass, Enqueue(p) \/ Acquire(p) PROVE WorkInv'
  <2>1. /\ lane' = lane /\ repaired' = repaired /\ stranded' = stranded /\ job' = job
    BY <1>4 DEF Enqueue, Acquire, ledger
  <2>2. \A o \in Pass : o # p => pass'[o] = pass[o]
    BY <1>0, <1>4 DEF Enqueue, Acquire, Goto, PassTyped, Asked
  <2>3. pass'[p].step \in {"queued", "setup"}
    BY <1>0, <1>4 DEF Enqueue, Acquire, Goto, PassTyped, Asked
  <2>4. \A o \in Pass : GoesOn(o)
    BY <2>2, <2>3 DEF GoesOn, Open
  <2> QED BY <2>1, <2>4, WorkQuiet
<1>5. ASSUME NEW p \in Pass, Steps(p) PROVE WorkInv'
  BY <1>5, WorkStep
<1> QED BY <1>1, <1>2, <1>3, <1>4, <1>5 DEF Next

LEMMA WorkGivesRequests ==
    ASSUME TypeOK, OnePass, StartInv, WorkInv
    PROVE  RequestsHoldJobs
<1>0. LaneTyped
  BY TypeParts
<1> SUFFICES ASSUME NEW x \in Span
             PROVE  /\ \A p \in InFlight(x) : /\ job[x].status = "running"
                                              /\ job[x].config = pass[p].config
                    /\ Cardinality(InFlight(x)) <= 1
                    /\ job[x].status = "running" =>
                          InFlight(x) # {} \/ ~repaired \/ x \in stranded
  BY DEF RequestsHoldJobs
<1>1. ASSUME NEW p \in Pass, NEW s \in Source, lane[p][s].span = x, lane[p][s].at # "claim"
      PROVE  Holding(p, s, x) /\ Busy(p, s)
  <2>1. lane[p][s].at # "idle"
    BY <1>0, <1>1, ConstAssumption DEF LaneTyped, Busy, ConstAssumption
  <2>2. lane[p][s].at \in LaneStep
    BY <1>0 DEF LaneTyped, LaneState
  <2> QED BY <1>1, <2>1, <2>2 DEF Holding, Requesting, LaneStep, Busy
<1>2. ASSUME NEW p \in InFlight(x)
      PROVE  /\ p \in Pass /\ pass[p].step \in AtWork
             /\ job[x].status = "running" /\ job[x].config = pass[p].config
  <2>1. PICK s \in Source : lane[p][s].span = x /\ lane[p][s].at # "claim"
    BY DEF InFlight
  <2>2. p \in Pass
    BY DEF InFlight
  <2>3. Holding(p, s, x) /\ Busy(p, s)
    BY <1>1, <2>1, <2>2
  <2>4. AsAsked(p, s) /\ Holds(p, s)
    BY <2>2 DEF WorkInv
  <2>5. pass[p].step \in AtWork
    BY <2>2, <2>3, LockedSteps DEF StartInv
  <2> QED BY <2>1, <2>2, <2>3, <2>4, <2>5 DEF AsAsked, Holds, Holding
<1>3. Cardinality(InFlight(x)) <= 1
  <2>1. CASE InFlight(x) = {}
    BY <2>1, FS_EmptySet
  <2>2. ASSUME NEW p \in InFlight(x) PROVE InFlight(x) = {p}
    BY <1>2, <2>2 DEF OnePass
  <2>3. \A p : Cardinality({p}) = 1
    BY FS_Singleton
  <2> QED BY <2>1, <2>2, <2>3
<1>4. ASSUME NEW p \in Pass, NEW s \in Source, Holding(p, s, x) PROVE p \in InFlight(x)
  BY <1>4 DEF InFlight, Holding, Requesting
<1>5. job[x].status = "running" => InFlight(x) # {} \/ ~repaired \/ x \in stranded
  BY <1>4 DEF WorkInv, Served
<1> QED BY <1>2, <1>3, <1>5

LEMMA RequestsAreServed == Spec => []WorkInv
<1>1. TypeOK /\ TypeOK' /\ OnePass /\ StartInv /\ StartInv' /\ WorkInv /\ [Next]_vars => WorkInv'
  BY WorkNext
<1> QED BY <1>1, WorkInit, TypeCorrect, OnePassAtATime, QueueAndStart, PTL DEF Spec

\* A request holds its job and a job runs for a request, until a restart or a
\* write that failed: no span is paid for twice at a time and none is forgotten
\* (commands.rs:71).
THEOREM RequestsMatchJobs == Spec => []RequestsHoldJobs
  BY TypeCorrect, OnePassAtATime, QueueAndStart, RequestsAreServed, WorkGivesRequests, PTL
=============================================================================
