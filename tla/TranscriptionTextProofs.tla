----------------------- MODULE TranscriptionTextProofs -----------------------
(***************************************************************************)
(* Theorems about the text of Transcription: what the ledger says of a     *)
(* span is true of the rows, a source that has text keeps some, and a note *)
(* is generated from the plan of its pass. While the route is not changed  *)
(* under a pass, the pass, its requests and the settings agree on it       *)
(* (RouteInv); that is why a text is of its fingerprint as far as MadeUnder*)
(* goes.                                                                   *)
(***************************************************************************)
EXTENDS TranscriptionProofs

-----------------------------------------------------------------------------
(* The route of the requests *)

\* While the route is not changed under a pass that may send requests, its
\* fingerprint, its requests and the settings agree on it.
Routed(p) ==
    /\ pass[p].step \in Asking /\ ~pass[p].crossed => pass[p].config.route = config.route
    /\ \A s \in Source : lane[p][s].at \in {"request", "answered"} =>
                            pass[p].crossed \/ lane[p][s].route = pass[p].config.route
RouteInv == \A p \in Pass : Routed(p)

LEMMA AskingSteps ==
    /\ Open \subseteq Asking /\ "plan" \in Asking
    /\ \A step \in Asking : step = "plan" \/ step \in Open
  BY DEF Open, Asking

LEMMA RouteInit == Init => RouteInv
<1> SUFFICES ASSUME Init, NEW p \in Pass PROVE Routed(p)
  BY DEF RouteInv
<1>1. pass[p].step = "none"
  BY DEF Init, NotAsked
<1>2. \A s \in Source : lane[p][s].at = "idle"
  BY DEF Init, Idle
<1> QED BY <1>1, <1>2 DEF Routed, Asking

\* A pass without requests under way, that is not to send any or agrees.
LEMMA RouteRests ==
    ASSUME StartInv', NEW p \in Pass, pass'[p].step \notin Open,
           pass'[p].step \in Asking => pass'[p].config.route = config'.route
    PROVE  Routed(p)'
<1>1. \A s \in Source : lane'[p][s].at = "idle"
  BY DEF StartInv, Busy, Open
<1> QED BY <1>1 DEF Routed

\* A pass that goes on as it was, with its requests.
LEMMA RouteGoesOn ==
    ASSUME StartInv', NEW p \in Pass, Routed(p), config'.route = config.route,
           lane'[p] = lane[p],
           pass'[p].step \in Asking => /\ pass[p].step \in Asking
                                       /\ pass'[p].config = pass[p].config
                                       /\ pass'[p].crossed = pass[p].crossed
    PROVE  Routed(p)'
<1>1. CASE pass'[p].step \in Asking
  BY <1>1 DEF Routed
<1>2. CASE pass'[p].step \notin Asking
  BY <1>2, RouteRests, AskingSteps
<1> QED BY <1>1, <1>2

LEMMA RouteLane ==
    ASSUME TypeOK, StartInv, NEW p \in Pass, NEW s \in Source, LaneSteps(p, s), Routed(p)
    PROVE  Routed(p)'
<1>0. LaneTyped
  BY TypeParts
<1>1. /\ pass'[p].step = pass[p].step /\ pass'[p].config = pass[p].config
      /\ pass'[p].crossed = pass[p].crossed
  BY LaneStepStays
<1>2. pass[p].step \in Asking /\ config' = config
  <2>1. pass[p].step \in Open /\ config' = config
    BY DEF LaneSteps, Launch, Claim, Answer, Persist, PersistFails, At, Busy, StartInv, Open,
           settings
  <2> QED BY <2>1, AskingSteps
<1>3. OtherLanes(p, s) /\ \/ lane'[p][s].at \notin {"request", "answered"}
                          \/ lane'[p][s].route = config.route
                          \/ /\ lane[p][s].at = "request"
                             /\ lane'[p][s].route = lane[p][s].route
  <2> DEFINE x == lane[p][s].span
  <2>1. CASE Launch(p, s)
    <3>1. PICK y \in pass[p].todo : Move(p, s, "claim", y, 0)
      BY <2>1 DEF Launch
    <3>2. lane'[p][s] = [at |-> "claim", span |-> y, route |-> 0] /\ OtherLanes(p, s)
      BY <1>0, <3>1, MoveLane
    <3> QED BY <3>2
  <2>2. CASE Claim(p, s)
    <3>1. Move(p, s, "request", x, config.route) \/ Free(p, s)
      BY <2>2 DEF Claim
    <3> HIDE DEF x
    <3>2. /\ OtherLanes(p, s)
          /\ \/ lane'[p][s] = [at |-> "request", span |-> x, route |-> config.route]
             \/ lane'[p][s] = Idle
      BY <1>0, <3>1, MoveLane, FreeLane
    <3> QED BY <3>2 DEF Idle
  <2>3. CASE Answer(p, s)
    <3>1. \/ Move(p, s, "answered", x, lane[p][s].route)
          \/ Move(p, s, "answered", x, config.route)
          \/ Move(p, s, "refused", x, 0)
      BY <2>3 DEF Answer
    <3>2. lane[p][s].at = "request"
      BY <2>3 DEF Answer
    <3> HIDE DEF x
    <3>3. /\ OtherLanes(p, s)
          /\ \/ lane'[p][s] = [at |-> "answered", span |-> x, route |-> lane[p][s].route]
             \/ lane'[p][s] = [at |-> "answered", span |-> x, route |-> config.route]
             \/ lane'[p][s] = [at |-> "refused", span |-> x, route |-> 0]
      BY <1>0, <3>1, MoveLane
    <3> QED BY <3>2, <3>3
  <2>4. CASE Persist(p, s) \/ PersistFails(p, s)
    BY <1>0, <2>4, FreeLane DEF Persist, PersistFails, Idle
  <2> QED BY <2>1, <2>2, <2>3, <2>4 DEF LaneSteps
<1>4. ASSUME NEW t \in Source, lane'[p][t].at \in {"request", "answered"}
      PROVE  pass[p].crossed \/ lane'[p][t].route = pass[p].config.route
  <2>1. CASE t # s
    BY <1>3, <1>4, <2>1 DEF OtherLanes, Routed
  <2>2. CASE t = s
    BY <1>2, <1>3, <1>4, <2>2 DEF Routed
  <2> QED BY <2>1, <2>2
<1> QED BY <1>1, <1>2, <1>4 DEF Routed

LEMMA RouteStep ==
    ASSUME TypeOK, StartInv, StartInv', NEW p \in Pass, Steps(p), RouteInv
    PROVE  RouteInv'
<1>0. PassTyped
  BY TypeParts
<1>1. config' = config
  BY DEF Steps, ShowFirst, Finish, Unlock, Setup, Trouble, Reconcile, LaneSteps, Launch, Claim,
         Answer, Persist, PersistFails, PrepareFails, StreamEnds, FallbackLaunch, FallbackSkip,
         FallbackFails, FallbacksDone, Judge, Generate, Fails, settings
<1>2. Routed(p)
  BY DEF RouteInv
<1>3. ASSUME NEW o \in Pass, o # p PROVE Routed(o)'
  <2>1. pass'[o] = pass[o] /\ lane'[o] = lane[o] /\ Routed(o)
    BY <1>3, StepKeepsOthers DEF RouteInv
  <2> QED BY <1>1, <2>1, RouteGoesOn
<1>4. ASSUME Setup(p) PROVE Routed(p)'
  <2>1. pass'[p].step = "plan" /\ pass'[p].config = config
    BY <1>0, <1>4 DEF Setup, PassTyped, Asked
  <2> QED BY <1>1, <2>1, RouteRests DEF Open
<1>5. ASSUME Plain(p) /\ ~Setup(p) PROVE Routed(p)'
  <2>1. pass'[p].step # "plan"
    BY <1>0, <1>5 DEF Plain, ShowFirst, Finish, Unlock, Trouble, PrepareFails, StreamEnds,
       FallbackSkip, NextFallback, FallbackFails, Judge, Generate, Fails, Goto, Broken, At,
       NotAsked, PassTyped, Asked
  <2>2. lane' = lane /\ (pass'[p].step \in Open => /\ pass[p].step \in Open
                                                   /\ pass'[p].config = pass[p].config
                                                   /\ pass'[p].crossed = pass[p].crossed)
    BY <1>5, PlainStays DEF Open
  <2> QED BY <1>1, <1>2, <2>1, <2>2, AskingSteps, RouteGoesOn
<1>6. ASSUME NEW plan \in Plans, NEW route, Reconcile(p, plan, route) PROVE Routed(p)'
  <2> DEFINE cfg     == [words |-> pass[p].config.words, route |-> route]
             planned == Planned(plan, cfg, {x \in DOMAIN plan : Reusable(x, cfg)})
             todo    == {x \in Turn \cap DOMAIN plan : planned[x].status = "pending"}
             spare   == {x \in Fallback \cap DOMAIN plan : planned[x].status = "pending"}
             kept    == {SourceOf[x] : x \in {y \in DOMAIN plan : planned[y].status = "succeeded"}}
             then    == [pass[p] EXCEPT !.step = "stream", !.config = cfg, !.todo = todo,
                                        !.spare = spare, !.got = kept]
  <2>1. /\ pass[p].step = "plan" /\ route \in {pass[p].config.route, config.route}
        /\ lane' = lane
    BY <1>6 DEF Reconcile, At
  <2>2. \A s \in Source : lane'[p][s].at = "idle"
    BY <2>1 DEF StartInv, Busy
  <2>3. Goto(p, "failing") \/ pass' = [pass EXCEPT ![p] = then]
    BY <1>6 DEF Reconcile
  <2>4. CASE Goto(p, "failing")
    <3>1. pass'[p].step = "failing"
      BY <1>0, <2>4 DEF PassTyped, Goto, Asked
    <3> QED BY <3>1, RouteRests DEF Open, Asking
  <2>5. CASE pass' = [pass EXCEPT ![p] = then]
    <3>1. then.config = cfg /\ then.crossed = pass[p].crossed
      BY <1>0 DEF PassTyped, Asked
    <3>2. pass'[p] = then
      <4> HIDE DEF then
      <4> QED BY <1>0, <2>5 DEF PassTyped
    <3>3. cfg.route = route
      OBVIOUS
    <3> HIDE DEF then, cfg
    <3>4. ~pass'[p].crossed => pass'[p].config.route = config'.route
      BY <1>1, <1>2, <2>1, <3>1, <3>2, <3>3, AskingSteps DEF Routed
    <3> QED BY <2>2, <3>4 DEF Routed
  <2> QED BY <2>3, <2>4, <2>5
<1>7. ASSUME \E x \in Fallback : FallbackLaunch(p, x) PROVE Routed(p)'
  <2>1. PICK x \in Fallback : FallbackLaunch(p, x)
    BY <1>7
  <2>2. LaneEffect(p, SourceOf[x]) /\ SourceOf[x] \in Source /\ pass[p].step = "fallback"
    BY <2>1, FallbackLaunchEffect
  <2>3. pass' = [pass EXCEPT ![p].spare = @ \ {x}] /\ Move(p, SourceOf[x], "claim", x, 0)
    BY <2>1 DEF FallbackLaunch
  <2>4. /\ pass'[p].step = pass[p].step /\ pass'[p].config = pass[p].config
        /\ pass'[p].crossed = pass[p].crossed
    BY <1>0, <2>3 DEF PassTyped, Asked
  <2>5. lane'[p][SourceOf[x]].at = "claim"
    <3>1. LaneTyped
      BY TypeParts
    <3>2. lane'[p][SourceOf[x]] = [at |-> "claim", span |-> x, route |-> 0]
      BY <2>2, <2>3, <3>1, MoveLane
    <3> QED BY <3>2
  <2>6. \A s \in Source : s # SourceOf[x] => lane'[p][s] = lane[p][s]
    BY <2>2 DEF LaneEffect, OtherLanes
  <2> QED BY <1>1, <1>2, <2>4, <2>5, <2>6 DEF Routed
<1>8. ASSUME FallbacksDone(p) PROVE Routed(p)'
  <2>1. pass'[p].step = "judge"
    BY <1>0, <1>8 DEF FallbacksDone, Goto, PassTyped, Asked
  <2> QED BY <2>1, RouteRests DEF Open, Asking
<1>9. (\E s \in Source : LaneSteps(p, s)) => Routed(p)'
  BY <1>2, RouteLane
<1>10. Routed(p)'
  BY <1>4, <1>5, <1>6, <1>7, <1>8, <1>9 DEF Steps, Plain
<1> QED BY <1>3, <1>10 DEF RouteInv

LEMMA RouteNext ==
    ASSUME TypeOK, StartInv, StartInv', RouteInv, [Next]_vars
    PROVE  RouteInv'
<1>0. PassTyped
  BY TypeParts
<1>1. CASE Restart
  <2>1. \A p \in Pass : pass'[p].step \in {"none", "done"}
    BY <1>1 DEF Restart, NotAsked
  <2> QED BY <2>1, RouteRests DEF RouteInv, Open, Asking
<1>2. CASE Bootstrap \/ EditWords \/ UNCHANGED vars
  <2>1. pass' = pass /\ lane' = lane /\ config'.route = config.route
    <3>1. config \in [words : 0..MaxConfig, route : 0..MaxConfig]
      BY DEF TypeOK, Config
    <3> QED BY <1>2, <3>1 DEF Bootstrap, Release, EditWords, vars, queue, settings
  <2> QED BY <2>1, RouteGoesOn DEF RouteInv
<1>3. CASE EditRoute
  <2> SUFFICES ASSUME NEW p \in Pass PROVE Routed(p)'
    BY DEF RouteInv
  <2>1. /\ pass'[p].step = pass[p].step /\ pass'[p].config = pass[p].config /\ lane' = lane
        /\ pass'[p].crossed = (pass[p].crossed \/ pass[p].step \in Asking)
    <3>1. pass'[p] = [pass[p] EXCEPT !.crossed = @ \/ pass[p].step \in Asking]
      BY <1>3 DEF EditRoute
    <3>2. pass[p] \in Asked
      BY <1>0 DEF PassTyped
    <3>3. [pass[p] EXCEPT !.crossed = @ \/ pass[p].step \in Asking].crossed
            = (pass[p].crossed \/ pass[p].step \in Asking)
      BY <3>2 DEF Asked
    <3>4. lane' = lane
      BY <1>3 DEF EditRoute
    <3> QED BY <1>0, <1>3, <3>1, <3>3, <3>4, EditRouteTyped
  <2>2. CASE pass[p].step \in Asking
    BY <2>1, <2>2 DEF Routed
  <2>3. CASE pass[p].step \notin Asking
    BY <2>1, <2>3, RouteRests, AskingSteps
  <2> QED BY <2>2, <2>3
<1>4. ASSUME NEW p \in Pass, Enqueue(p) \/ Acquire(p) PROVE RouteInv'
  <2>1. lane' = lane /\ config' = config
    BY <1>4 DEF Enqueue, Acquire, settings
  <2>2. \A o \in Pass : o # p => pass'[o] = pass[o]
    BY <1>0, <1>4 DEF Enqueue, Acquire, Goto, PassTyped, Asked
  <2>3. pass'[p].step \in {"queued", "setup"}
    BY <1>0, <1>4 DEF Enqueue, Acquire, Goto, PassTyped, Asked
  <2>4. pass'[p].step \notin Asking
    BY <2>3 DEF Asking
  <2> QED BY <2>1, <2>2, <2>4, RouteGoesOn DEF RouteInv
<1>5. ASSUME NEW p \in Pass, Steps(p) PROVE RouteInv'
  BY <1>5, RouteStep
<1> QED BY <1>1, <1>2, <1>3, <1>4, <1>5 DEF Next

LEMMA RoutesAgree == Spec => []RouteInv
<1>1. TypeOK /\ StartInv /\ StartInv' /\ RouteInv /\ [Next]_vars => RouteInv'
  BY RouteNext
<1> QED BY <1>1, RouteInit, TypeCorrect, QueueAndStart, PTL DEF Spec

-----------------------------------------------------------------------------
(* The ledger tells the truth about the text *)

\* A job that still counts in the ledger.
Live(x) == job[x].status \notin {"none", "superseded"}

HasRow(x) == job[x].status = "succeeded" =>
    \E r \in rows : /\ Named(x) = {r} /\ r.span = x /\ MadeUnder(r, job[x].config)
                    /\ r.source = SourceOf[x] /\ r.index = job[x].index
\* A fallback that succeeded left nothing else of its source to do.
StandsAlone(x) == x \in Fallback /\ job[x].status = "succeeded" =>
    \A y \in Of(SourceOf[x]) : y = x \/ ~Live(y)
\* The turns of a source that count differ in their place.
Apart(x, y) ==
    (x \in Turn /\ y \in Turn /\ Live(x) /\ Live(y)
     /\ SourceOf[x] = SourceOf[y] /\ job[x].index = job[y].index) => x = y
\* No two rows are shown at one place.
OnePlace == \A r, q \in rows : r.source = q.source /\ r.index = q.index => r = q
\* Only jobs that succeeded name a row.
LinksDone == \A r \in rows : \A y \in r.jobs : job[y].status = "succeeded"
\* A row is shown at the source its span is of.
AtSource == \A r \in rows : r.source = SourceOf[r.span]

CertInv ==
    /\ \A x \in Span : HasRow(x) /\ StandsAlone(x)
    /\ \A x, y \in Span : Apart(x, y)
    /\ OnePlace /\ LinksDone /\ AtSource

LEMMA CertParts ==
    ASSUME CertInv, NEW x \in Span
    PROVE  HasRow(x) /\ StandsAlone(x) /\ \A y \in Span : Apart(x, y)
  BY DEF CertInv

LEMMA CertInit == Init => CertInv
<1> SUFFICES ASSUME Init PROVE CertInv
  OBVIOUS
<1>1. rows = {} /\ \A x \in Span : job[x].status = "none"
  BY DEF Init, NoJob
<1> QED BY <1>1 DEF CertInv, HasRow, StandsAlone, Apart, Live, OnePlace, LinksDone, AtSource

\* A job whose row a step would touch: the step's own, or one it must not reach.
LEMMA RowOf ==
    ASSUME CertInv, RowsTyped, NEW r \in rows, NEW y \in r.jobs
    PROVE  /\ y \in Span /\ job[y].status = "succeeded" /\ Named(y) = {r} /\ r.span = y
           /\ MadeUnder(r, job[y].config) /\ r.source = SourceOf[y] /\ r.index = job[y].index
<1>1. y \in Span
  BY DEF RowsTyped, Row
<1>2. job[y].status = "succeeded"
  BY DEF CertInv, LinksDone
<1>3. PICK q \in rows : /\ Named(y) = {q} /\ q.span = y /\ MadeUnder(q, job[y].config)
                        /\ q.source = SourceOf[y] /\ q.index = job[y].index
  BY <1>1, <1>2, CertParts DEF HasRow
<1>4. r = q
  BY <1>3 DEF Named
<1> QED BY <1>1, <1>2, <1>3, <1>4

\* A step that leaves the text alone, and completes and revives no job.
LEMMA CertQuiet ==
    ASSUME CertInv, RowsTyped, rows' = rows,
           \A x \in Span : /\ job'[x].config = job[x].config /\ job'[x].index = job[x].index
                           /\ job'[x].status = "succeeded" <=> job[x].status = "succeeded"
                           /\ job'[x].status \notin {"none", "superseded"} => Live(x)
    PROVE  CertInv'
<1>1. ASSUME NEW x \in Span PROVE HasRow(x)'
  <2> SUFFICES ASSUME job'[x].status = "succeeded"
               PROVE  \E r \in rows : /\ Named(x) = {r} /\ r.span = x /\ MadeUnder(r, job[x].config)
                                      /\ r.source = SourceOf[x] /\ r.index = job[x].index
    BY DEF HasRow, Named
  <2> QED BY CertParts DEF HasRow
<1>2. ASSUME NEW x \in Span PROVE StandsAlone(x)'
  BY CertParts, SpanFacts DEF StandsAlone, Live
<1>3. ASSUME NEW x \in Span, NEW y \in Span PROVE Apart(x, y)'
  <2>1. Apart(x, y)
    BY CertParts
  <2> QED BY <2>1 DEF Apart, Live
<1>4. OnePlace'
  BY DEF CertInv, OnePlace
<1>5. LinksDone'
  BY RowOf DEF LinksDone
<1>6. AtSource'
  BY DEF CertInv, AtSource
<1> QED BY <1>1, <1>2, <1>3, <1>4, <1>5, <1>6 DEF CertInv

\* A text that arrives. The place of a running turn holds no row of a job: such
\* a job would be a live turn of the same index, or a fallback that stands alone.
LEMMA CertSuccess ==
    ASSUME TypeOK, CertInv, NEW p \in Pass, NEW s \in Source, NEW x \in Span,
           x = lane[p][s].span, SourceOf[x] = s, job[x].status = "running", Success(p, s),
           job[x].config = pass[p].config,
           pass[p].crossed \/ lane[p][s].route = pass[p].config.route
    PROVE  CertInv' /\ \A t \in Source : SourceKeepsText(t)
<1> DEFINE made    == [words |-> pass[p].config.words, route |-> lane[p][s].route]
           whole   == x \in Fallback
           left    == {r \in rows : r.span # x /\ ~(whole /\ r.source = s)}
           here(r) == r.source = s /\ r.index = job[x].index
           linked  == UNION {r.jobs : r \in {q \in left : here(q)}}
           new     == [source |-> s, index |-> job[x].index, span |-> x,
                       crossed |-> pass[p].crossed, cfg |-> made, jobs |-> {x} \cup linked]
           done    == [job EXCEPT ![x].status = "succeeded"]
           last    == ~whole /\ s \in Complete(done)
           fresh   == {r \in left : ~here(r)} \cup {new}
           retired(y) == /\ y # x /\ SourceOf[y] = s /\ job[y].status # "none"
                         /\ whole \/ (last /\ y \in Fallback /\ job[y].status = "pending")
           live(q) == ~last \/ q.source # s
                      \/ (q.span \in Turn /\ done[q.span].status = "succeeded")
           only(r) == [r EXCEPT !.jobs = {y \in @ : ~retired(y)}]
<1>0. JobsTyped /\ RowsTyped /\ PassTyped /\ LaneTyped
  BY TypeParts
<1>1. job' = [y \in Span |-> IF retired(y) THEN [done[y] EXCEPT !.status = "superseded"]
                                         ELSE done[y]]
  BY DEF Success
<1>2. rows' = {only(r) : r \in {q \in fresh : live(q)}}
  BY DEF Success
<1>3. /\ \A y \in Span : y # x => done[y] = job[y]
      /\ done[x].status = "succeeded" /\ done[x].config = job[x].config
      /\ done[x].index = job[x].index
      /\ \A y \in Span : done[y] \in Job
  BY <1>0 DEF JobsTyped, Job, JobStatus
<1>4. ASSUME NEW y \in Span
      PROVE  /\ job'[y].config = job[y].config /\ job'[y].index = job[y].index
             /\ retired(y) => job'[y].status = "superseded"
             /\ ~retired(y) => job'[y] = done[y]
  <2> HIDE DEF retired, done
  <2>1. CASE retired(y)
    <3>1. job'[y] = [done[y] EXCEPT !.status = "superseded"]
      BY <1>1, <2>1
    <3>2. done[y] \in Job /\ done[y].config = job[y].config /\ done[y].index = job[y].index
      BY <1>3
    <3> QED BY <2>1, <3>1, <3>2 DEF Job
  <2>2. CASE ~retired(y)
    BY <1>1, <1>3, <2>2
  <2> QED BY <2>1, <2>2
<1>5. ASSUME NEW y \in Span, job[y].status = "succeeded", SourceOf[y] = s
      PROVE  y \in Turn /\ (x \in Turn => job[y].index # job[x].index)
  <2>1. y # x /\ Live(y) /\ Live(x) /\ x \in Of(SourceOf[y])
    BY <1>5 DEF Live, Of
  <2>2. y \notin Fallback
    BY <1>5, <2>1, CertParts DEF StandsAlone
  <2>3. Apart(y, x)
    BY CertParts
  <2> QED BY <2>1, <2>2, <2>3, <1>5 DEF Apart, Turn
<1>6. linked = {}
  <2> SUFFICES ASSUME NEW r \in left, here(r), NEW y \in r.jobs PROVE FALSE
    OBVIOUS
  <2>1. /\ y \in Span /\ job[y].status = "succeeded" /\ SourceOf[y] = r.source
        /\ r.index = job[y].index
    BY <1>0, RowOf
  <2>2. r.source = s /\ r.index = job[x].index /\ ~whole
    OBVIOUS
  <2>3. x \in Turn
    BY <2>2 DEF Turn
  <2> QED BY <2>1, <2>2, <2>3, <1>5
<1>7. new.jobs = {x} /\ ~retired(x) /\ only(new) = new
  <2> HIDE DEF linked
  <2>1. new = [source |-> s, index |-> job[x].index, span |-> x,
               crossed |-> pass[p].crossed, cfg |-> made, jobs |-> {x}]
    BY <1>6
  <2>2. ~retired(x)
    OBVIOUS
  <2> HIDE DEF retired
  <2>3. {y \in {x} : ~retired(y)} = {x}
    BY <2>2
  <2> HIDE DEF made
  <2>4. only(new) = [new EXCEPT !.jobs = {x}]
    BY <2>1, <2>3
  <2> HIDE DEF new, only
  <2> QED BY <2>1, <2>2, <2>4
<1>8. last => x \in Turn
  BY DEF Turn
<1>9. new \in fresh /\ live(new) /\ new \in rows'
  <2>1. new.span = x
    OBVIOUS
  <2>2. live(new)
    BY <2>1, <1>3, <1>8
  <2>3. new \in fresh
    OBVIOUS
  <2> HIDE DEF new, fresh, live, only
  <2> QED BY <1>2, <1>7, <2>2, <2>3
<1>10. /\ new.source = s /\ new.index = job[x].index /\ new.span = x
       /\ MadeUnder(new, job[x].config)
  BY DEF MadeUnder
<1>11. \A r \in fresh : r = new \/ (r \in rows /\ ~here(r))
  OBVIOUS
<1>12. ASSUME NEW r \in Row
       PROVE  /\ only(r).source = r.source /\ only(r).index = r.index
              /\ only(r).span = r.span
              /\ only(r).cfg = r.cfg /\ only(r).crossed = r.crossed
              /\ \A y : y \in only(r).jobs <=> y \in r.jobs /\ ~retired(y)
  <2> DEFINE those == {y \in r.jobs : ~retired(y)}
  <2>1. only(r) = [r EXCEPT !.jobs = those]
    OBVIOUS
  <2>2. \A y : y \in those <=> y \in r.jobs /\ ~retired(y)
    OBVIOUS
  <2> HIDE DEF those, only
  <2>3. /\ only(r).source = r.source /\ only(r).index = r.index
        /\ only(r).span = r.span /\ only(r).cfg = r.cfg /\ only(r).crossed = r.crossed
        /\ only(r).jobs = those
    BY <2>1 DEF Row
  <2> HIDE DEF retired
  <2> QED BY <2>2, <2>3
<1>13. \A r \in fresh : r \in Row
  <2>1. new \in Row
    <3>1. new.jobs \in SUBSET Span
      BY <1>7
    <3>2. job[x].index \in Nat
      BY <1>0 DEF JobsTyped, Job
    <3>3. pass[p].crossed \in BOOLEAN /\ pass[p].config \in Config
      BY <1>0 DEF PassTyped, Asked
    <3>4. made \in Config
      BY <1>0, <3>3 DEF LaneTyped, LaneState, Config
    <3> HIDE DEF linked, made
    <3> QED BY <3>1, <3>2, <3>3, <3>4 DEF Row
  <2> HIDE DEF new, fresh
  <2> QED BY <1>0, <1>11, <2>1 DEF RowsTyped
\* A row that shows a succeeded job of another span goes on.
<1>14. ASSUME NEW y \in Span, y # x, job[y].status = "succeeded", ~retired(y),
              NEW r \in rows, y \in r.jobs
       PROVE  r \in fresh /\ live(r)
  <2>1. /\ Named(y) = {r} /\ r.span = y /\ r.source = SourceOf[y] /\ r.index = job[y].index
    BY <1>0, <1>14, RowOf
  <2>2. ~(whole /\ r.source = s)
    BY <2>1, <1>14
  <2>3. r \in left
    BY <2>1, <2>2, <1>14
  <2>4. ~here(r)
    <3> SUFFICES ASSUME r.source = s, r.index = job[x].index PROVE FALSE
      OBVIOUS
    <3>1. x \in Turn
      BY <2>2 DEF Turn
    <3> QED BY <2>1, <3>1, <1>5, <1>14
  <2>5. live(r)
    <3>1. r.source = s => y \in Turn
      BY <2>1, <1>5, <1>14
    <3>2. done[y].status = "succeeded"
      BY <1>3, <1>14
    <3> QED BY <2>1, <3>1, <3>2
  <2> HIDE DEF left, here, live
  <2> QED BY <2>3, <2>4, <2>5
\* So does a row of another source.
<1>22. ASSUME NEW r \in rows, r.source # s PROVE r \in fresh /\ live(r)
  <2>1. r.span # x
    BY <1>22 DEF CertInv, AtSource
  <2> QED BY <2>1, <1>22
<1> HIDE DEF done, last, fresh, new, live, only, linked, left
<1>15. ASSUME NEW y \in Span, job'[y].status = "succeeded"
       PROVE  ~retired(y) /\ (y = x \/ job[y].status = "succeeded")
  BY <1>3, <1>4, <1>15
<1>16. ASSUME NEW y \in Span PROVE HasRow(y)'
  <2> SUFFICES ASSUME job'[y].status = "succeeded"
               PROVE  \E r \in rows' : /\ {q \in rows' : y \in q.jobs} = {r} /\ r.span = y
                                       /\ MadeUnder(r, job'[y].config) /\ r.source = SourceOf[y]
                                       /\ r.index = job'[y].index
    BY DEF HasRow, Named
  <2>0. ~retired(y) /\ (y = x \/ job[y].status = "succeeded")
    BY <1>15
  <2>1. CASE y = x
    <3>1. ASSUME NEW q \in rows', x \in q.jobs PROVE q = new
      <4>1. PICK r \in fresh : q = only(r)
        BY <1>2
      <4>2. x \in r.jobs
        BY <3>1, <4>1, <1>12, <1>13
      <4>3. CASE r = new
        BY <4>1, <4>3, <1>7
      <4>4. CASE r \in rows
        BY <4>2, <4>4, <1>0, RowOf
      <4> QED BY <4>3, <4>4, <1>11
    <3>2. x \in new.jobs
      BY <1>7
    <3>3. {q \in rows' : x \in q.jobs} = {new}
      BY <3>1, <3>2, <1>9
    <3> QED BY <2>1, <3>3, <1>4, <1>9, <1>10
  <2>2. CASE y # x
    <3>1. job[y].status = "succeeded"
      BY <2>0, <2>2
    <3>2. PICK r \in rows : /\ Named(y) = {r} /\ r.span = y /\ MadeUnder(r, job[y].config)
                            /\ r.source = SourceOf[y] /\ r.index = job[y].index
      BY <3>1, CertParts DEF HasRow
    <3>3. y \in r.jobs
      BY <3>2 DEF Named
    <3>4. r \in fresh /\ live(r)
      BY <1>14, <2>0, <2>2, <3>1, <3>3
    <3>5. only(r) \in rows'
      BY <1>2, <3>4
    <3>6. ASSUME NEW q \in rows', y \in q.jobs PROVE q = only(r)
      <4>1. PICK o \in fresh : q = only(o)
        BY <1>2
      <4>2. y \in o.jobs
        BY <3>6, <4>1, <1>12, <1>13
      <4>3. o # new
        BY <4>2, <2>2, <1>7
      <4>4. o \in Named(y)
        BY <4>2, <4>3, <1>11 DEF Named
      <4> QED BY <4>1, <4>4, <3>2
    <3>7. y \in only(r).jobs
      BY <2>0, <3>3, <3>4, <1>12, <1>13
    <3>8. {q \in rows' : y \in q.jobs} = {only(r)}
      BY <3>5, <3>6, <3>7
    <3>9. /\ only(r).span = y /\ only(r).cfg = r.cfg /\ only(r).crossed = r.crossed
          /\ only(r).source = SourceOf[y] /\ only(r).index = job'[y].index
      BY <3>2, <3>4, <1>4, <1>12, <1>13
    <3>10. MadeUnder(only(r), job'[y].config)
      BY <3>2, <3>9, <1>4 DEF MadeUnder
    <3> QED BY <3>5, <3>8, <3>9, <3>10
  <2> QED BY <2>1, <2>2
<1>17. ASSUME NEW y \in Span PROVE StandsAlone(y)'
  <2> SUFFICES ASSUME y \in Fallback, job'[y].status = "succeeded", NEW z \in Of(SourceOf[y]),
                      z # y
               PROVE  job'[z].status \in {"none", "superseded"}
    BY DEF StandsAlone, Live
  <2>1. z \in Span /\ SourceOf[z] = SourceOf[y]
    BY DEF Of
  <2>2. CASE y = x
    <3>1. retired(z) \/ job[z].status = "none"
      BY <2>1, <2>2
    <3>2. ~retired(z) => job'[z] = job[z]
      BY <2>1, <2>2, <1>3, <1>4
    <3> QED BY <2>1, <3>1, <3>2, <1>4
  <2>3. CASE y # x
    <3>1. job[y].status = "succeeded"
      BY <2>3, <1>15
    <3>2. ~Live(z)
      BY <3>1, CertParts DEF StandsAlone
    <3>3. z # x
      BY <3>2 DEF Live
    <3> QED BY <2>1, <3>2, <3>3, <1>3, <1>4 DEF Live
  <2> QED BY <2>2, <2>3
<1>18. ASSUME NEW y \in Span, NEW z \in Span PROVE Apart(y, z)'
  <2>1. \A w \in Span : job'[w].status \notin {"none", "superseded"} => Live(w)
    BY <1>3, <1>4 DEF Live
  <2>2. Apart(y, z)
    BY CertParts
  <2> QED BY <1>4, <2>1, <2>2 DEF Apart, Live
<1>19. OnePlace'
  <2> SUFFICES ASSUME NEW q1 \in rows', NEW q2 \in rows', q1.source = q2.source,
                      q1.index = q2.index
               PROVE  q1 = q2
    BY DEF OnePlace
  <2>1. PICK r1 \in fresh : q1 = only(r1)
    BY <1>2
  <2>2. PICK r2 \in fresh : q2 = only(r2)
    BY <1>2
  <2>3. r1.source = r2.source /\ r1.index = r2.index
    BY <2>1, <2>2, <1>12, <1>13
  <2>4. r1 = r2
    BY <2>3, <1>10, <1>11 DEF CertInv, OnePlace
  <2> QED BY <2>1, <2>2, <2>4
<1>20. LinksDone'
  <2> SUFFICES ASSUME NEW q \in rows', NEW y \in q.jobs PROVE job'[y].status = "succeeded"
    BY DEF LinksDone
  <2>1. PICK r \in fresh : q = only(r)
    BY <1>2
  <2>2. y \in r.jobs /\ ~retired(y)
    BY <2>1, <1>12, <1>13
  <2>3. CASE r = new
    BY <2>2, <2>3, <1>3, <1>4, <1>7
  <2>4. CASE r \in rows
    <3>1. y \in Span /\ job[y].status = "succeeded"
      BY <2>2, <2>4, <1>0, RowOf
    <3> QED BY <2>2, <3>1, <1>3, <1>4
  <2> QED BY <2>3, <2>4, <1>11
<1>21. ASSUME NEW t \in Source PROVE SourceKeepsText(t)
  <2> SUFFICES ASSUME NEW r \in rows, r.source = t PROVE \E q \in rows' : q.source = t
    BY DEF SourceKeepsText
  <2>1. CASE t = s
    BY <2>1, <1>9, <1>10
  <2>2. CASE t # s
    <3>1. r \in fresh /\ live(r)
      BY <2>2, <1>22
    <3> QED BY <3>1, <1>2, <1>12, <1>13
  <2> QED BY <2>1, <2>2
<1>23. AtSource'
  <2> SUFFICES ASSUME NEW q \in rows' PROVE q.source = SourceOf[q.span]
    BY DEF AtSource
  <2>1. PICK r \in fresh : q = only(r)
    BY <1>2
  <2>2. r.source = SourceOf[r.span]
    BY <1>10, <1>11 DEF CertInv, AtSource
  <2> QED BY <2>1, <2>2, <1>12, <1>13
<1> QED BY <1>16, <1>17, <1>18, <1>19, <1>20, <1>21, <1>23 DEF CertInv

LEMMA SameText == rows' = rows => \A s \in Source : SourceKeepsText(s)
  BY DEF SourceKeepsText

LEMMA CertSame ==
    ASSUME CertInv, RowsTyped, UNCHANGED ledger
    PROVE  CertInv' /\ \A s \in Source : SourceKeepsText(s)
<1>1. job' = job /\ rows' = rows
  BY DEF ledger
<1>2. CertInv'
  BY <1>1, CertQuiet DEF Live
<1> QED BY <1>1, <1>2, SameText

\* What the plan of a pass makes of the jobs.
LEMMA PlannedJobs ==
    ASSUME JobsTyped, NEW plan \in Plans, NEW cfg, NEW reused \in SUBSET DOMAIN plan,
           NEW x \in Span
    PROVE  LET now  == Planned(plan, cfg, reused)[x]
               over == x \in Turn /\ SourceOf[x] \in ReplacedBy(reused)
           IN  /\ x \in DOMAIN plan =>
                    /\ now.config = cfg /\ now.index = plan[x]
                    /\ over => now.status = "superseded"
                    /\ ~over => (now.status = "succeeded" <=> x \in reused)
               /\ x \notin DOMAIN plan => now.status \in {"none", "superseded"}
<1> DEFINE after(y) == IF y \in Turn /\ SourceOf[y] \in ReplacedBy(reused) THEN "superseded"
                       ELSE IF y \in reused THEN "succeeded"
                       ELSE IF job[y].status = "running" THEN "running" ELSE "pending"
           here(y) == [status |-> after(y), config |-> cfg, index |-> plan[y]]
           gone(y) == [job[y] EXCEPT !.status = "superseded"]
<1>1. Planned(plan, cfg, reused)
        = [y \in Span |-> IF y \in DOMAIN plan THEN here(y)
                          ELSE IF job[y].status = "none" THEN job[y] ELSE gone(y)]
  BY DEF Planned
<1>2. gone(x).status = "superseded"
  BY DEF JobsTyped, Job
<1>3. /\ here(x).config = cfg /\ here(x).index = plan[x] /\ here(x).status = after(x)
  OBVIOUS
<1> DEFINE over == x \in Turn /\ SourceOf[x] \in ReplacedBy(reused)
<1>4. /\ over => after(x) = "superseded"
      /\ ~over => (after(x) = "succeeded" <=> x \in reused)
  OBVIOUS
<1> HIDE DEF here, gone, after, over
<1>5. /\ x \in DOMAIN plan => Planned(plan, cfg, reused)[x] = here(x)
      /\ x \notin DOMAIN plan => Planned(plan, cfg, reused)[x].status \in {"none", "superseded"}
  BY <1>1, <1>2
<1> QED BY <1>3, <1>4, <1>5 DEF over

\* A plan that is reconciled: the jobs it keeps have their row moved to their
\* new place, and a row is dropped only for one of its source.
LEMMA CertReconcile ==
    ASSUME TypeOK, CertInv, NEW p \in Pass, NEW plan \in Plans, NEW route,
           Reconcile(p, plan, route)
    PROVE  CertInv' /\ \A s \in Source : SourceKeepsText(s)
<1> DEFINE cfg     == [words |-> pass[p].config.words, route |-> route]
           reused  == {x \in DOMAIN plan : Reusable(x, cfg)}
           planned == Planned(plan, cfg, reused)
           kept    == {x \in reused : x \in Fallback \/ SourceOf[x] \notin ReplacedBy(reused)}
           place(x, r) == [source |-> SourceOf[x], index |-> plan[x], span |-> x,
                           cfg |-> r.cfg, crossed |-> r.crossed, jobs |-> {x}]
           certain == UNION {{place(x, r) : r \in Named(x)} : x \in kept}
           current == {SourceOf[x] : x \in DOMAIN plan}
           full    == ReplacedBy(reused) \cup Complete(planned)
           backup  == {r \in rows :
                         /\ r.jobs \cap kept = {} /\ KeepsLastGood(r, current, full)
                         /\ \A c \in certain : <<c.source, c.index>> # <<r.source, r.index>>}
           bare(r) == [r EXCEPT !.jobs = {}]
<1>0. JobsTyped /\ RowsTyped
  BY TypeParts
<1>1. \/ UNCHANGED ledger
      \/ job' = planned /\ rows' = Projected(plan, reused, planned)
  BY DEF Reconcile
<1>2. CASE UNCHANGED ledger
  BY <1>0, <1>2, CertSame
<1>3. CASE job' = planned /\ rows' = Projected(plan, reused, planned)
  <2>1. rows' = certain \cup {bare(r) : r \in backup}
    BY <1>3 DEF Projected
  <2>2. reused \in SUBSET DOMAIN plan /\ DOMAIN plan \subseteq Span /\ kept \subseteq reused
    BY PlanTyped
  <2>3. \A x \in reused : job[x].status = "succeeded" /\ job[x].config = cfg
    BY DEF Reusable
  <2>4. \A x \in kept : x \in Turn => SourceOf[x] \notin ReplacedBy(reused)
    BY DEF Turn
  <2>5. \A x \in reused : x \notin Turn \/ SourceOf[x] \notin ReplacedBy(reused) => x \in kept
    BY <2>2 DEF Turn
  <2>6. \A x \in kept : x \in Fallback => SourceOf[x] \in ReplacedBy(reused)
    BY DEF ReplacedBy
  <2>7. \A f \in reused : f \in Fallback => SourceOf[f] \in ReplacedBy(reused) /\ f \in kept
    BY DEF ReplacedBy
  <2>8. \A s \in ReplacedBy(reused) : \E f \in kept : SourceOf[f] = s
    <3>1. \A s \in ReplacedBy(reused) : \E f \in reused \cap Fallback : SourceOf[f] = s
      BY DEF ReplacedBy
    <3> QED BY <3>1, <2>7
  <2>9. \A r \in rows : /\ r \in backup <=> /\ r.jobs \cap kept = {} /\ r.source \in current \ full
                                            /\ \A c \in certain : <<c.source, c.index>> # <<r.source, r.index>>
    BY DEF KeepsLastGood
  <2>10. backup \subseteq rows
    OBVIOUS
  <2>11. \A r \in rows : /\ bare(r).source = r.source /\ bare(r).index = r.index
                         /\ bare(r).span = r.span /\ bare(r).jobs = {}
    BY <1>0 DEF RowsTyped, Row
  <2>12. \A x, r : /\ place(x, r).source = SourceOf[x] /\ place(x, r).index = plan[x]
                   /\ place(x, r).span = x /\ place(x, r).jobs = {x}
                   /\ place(x, r).cfg = r.cfg /\ place(x, r).crossed = r.crossed
    OBVIOUS
  <2>13. \A c : c \in certain <=> \E x \in kept : \E r \in Named(x) : c = place(x, r)
    OBVIOUS
  <2>14. \A x \in Span :
           /\ x \in DOMAIN plan /\ ~(x \in Turn /\ SourceOf[x] \in ReplacedBy(reused))
                => (planned[x].status = "succeeded" <=> x \in reused)
           /\ x \in DOMAIN plan => planned[x].config = cfg /\ planned[x].index = plan[x]
           /\ x \in Turn /\ SourceOf[x] \in ReplacedBy(reused)
                => planned[x].status \in {"none", "superseded"}
           /\ x \notin DOMAIN plan => planned[x].status \in {"none", "superseded"}
    <3> HIDE DEF reused, cfg
    <3> QED BY <1>0, <2>2, PlannedJobs
  <2> HIDE DEF cfg, reused, kept, place, certain, current, full, backup, bare, planned
  <2>15. \A x \in Span : planned[x].status = "succeeded" <=> x \in kept
    BY <2>2, <2>4, <2>5, <2>14
  <2>16. ASSUME NEW x \in kept
         PROVE  \E r \in rows :
                  /\ place(x, r) \in certain /\ MadeUnder(place(x, r), cfg)
                  /\ \A c \in certain : x \in c.jobs => c = place(x, r)
                  /\ \A q \in rows : x \in q.jobs => q.source = SourceOf[x]
    <3>1. x \in Span /\ job[x].status = "succeeded" /\ job[x].config = cfg
      BY <2>2, <2>3
    <3>2. PICK r \in rows : Named(x) = {r} /\ MadeUnder(r, job[x].config) /\ r.source = SourceOf[x]
      BY <3>1, CertParts DEF HasRow
    <3>3. place(x, r) \in certain
      BY <3>1, <3>2, <2>13
    <3>4. ASSUME NEW c \in certain, x \in c.jobs PROVE c = place(x, r)
      <4>1. PICK y \in kept : \E q \in Named(y) : c = place(y, q)
        BY <2>13
      <4>2. y = x
        BY <3>4, <4>1, <2>12
      <4> QED BY <4>1, <4>2, <3>1, <3>2
    <3>5. \A q \in rows : x \in q.jobs => q = r
      BY <3>2 DEF Named
    <3>6. MadeUnder(place(x, r), cfg)
      BY <3>1, <3>2, <2>12 DEF MadeUnder
    <3> QED BY <3>2, <3>3, <3>4, <3>5, <3>6
  <2>17. \A c \in certain : \E x \in kept : c.source = SourceOf[x] /\ c.index = plan[x]
                                             /\ c.span = x /\ c.jobs = {x}
    BY <2>12, <2>13
  <2>18. ASSUME NEW x \in Span PROVE HasRow(x)'
    <3> SUFFICES ASSUME x \in kept
                 PROVE  \E r \in rows' : /\ {q \in rows' : x \in q.jobs} = {r} /\ r.span = x
                                         /\ MadeUnder(r, job'[x].config) /\ r.source = SourceOf[x]
                                         /\ r.index = job'[x].index
      BY <1>3, <2>15 DEF HasRow, Named
    <3>0. PICK r \in rows : /\ place(x, r) \in certain /\ MadeUnder(place(x, r), cfg)
                            /\ \A c \in certain : x \in c.jobs => c = place(x, r)
      BY <2>16
    <3>1. \A q \in rows' : x \in q.jobs => q = place(x, r)
      BY <2>1, <2>10, <2>11, <3>0
    <3>2. place(x, r) \in rows' /\ x \in place(x, r).jobs
      BY <2>1, <2>12, <3>0
    <3>3. {q \in rows' : x \in q.jobs} = {place(x, r)}
      BY <3>1, <3>2
    <3>4. job'[x].config = cfg /\ job'[x].index = plan[x]
      BY <1>3, <2>2, <2>14
    <3> QED BY <3>0, <3>2, <3>3, <3>4, <2>12
  <2>19. ASSUME NEW x \in Span PROVE StandsAlone(x)'
    <3> SUFFICES ASSUME x \in Fallback, x \in kept, NEW y \in Of(SourceOf[x]), y # x
                 PROVE  planned[y].status \in {"none", "superseded"}
      BY <1>3, <2>15 DEF StandsAlone, Live
    <3>1. y \in Span /\ SourceOf[y] = SourceOf[x] /\ x \in DOMAIN plan
      BY <2>2 DEF Of
    <3>2. CASE y \in Turn
      BY <2>6, <2>14, <3>1, <3>2
    <3>3. CASE y \in Fallback /\ y \in DOMAIN plan
      BY <3>1, <3>3, PlanAssumption DEF PlanAssumption
    <3>4. CASE y \notin DOMAIN plan
      BY <2>14, <3>1, <3>4
    <3> QED BY <3>1, <3>2, <3>3, <3>4 DEF Turn
  <2>20. ASSUME NEW x \in Span, NEW y \in Span PROVE Apart(x, y)'
    <3> SUFFICES ASSUME x \in Turn, y \in Turn, SourceOf[x] = SourceOf[y],
                        planned[x].status \notin {"none", "superseded"},
                        planned[y].status \notin {"none", "superseded"},
                        planned[x].index = planned[y].index
                 PROVE  x = y
      BY <1>3 DEF Apart, Live
    <3>1. x \in DOMAIN plan /\ y \in DOMAIN plan /\ plan[x] = plan[y]
      BY <2>14
    <3> QED BY <3>1, PlanAssumption DEF PlanAssumption, Turn
  <2>21. ASSUME NEW x \in kept, NEW y \in kept, SourceOf[x] = SourceOf[y], plan[x] = plan[y]
         PROVE  x = y
    <3>1. x \in DOMAIN plan /\ y \in DOMAIN plan /\ x \in Span /\ y \in Span
      BY <2>2
    <3>2. x \in Fallback <=> y \in Fallback
      BY <2>4, <2>6, <2>21, <3>1 DEF Turn
    <3> QED BY <2>21, <3>1, <3>2, PlanAssumption DEF PlanAssumption
  <2>22. OnePlace'
    <3> SUFFICES ASSUME NEW r \in rows', NEW q \in rows', r.source = q.source, r.index = q.index
                 PROVE  r = q
      BY DEF OnePlace
    <3>1. CASE r \in certain /\ q \in certain
      <4>1. PICK x \in kept : r.source = SourceOf[x] /\ r.index = plan[x] /\ r.jobs = {x}
        BY <2>17, <3>1
      <4>2. PICK y \in kept : q.source = SourceOf[y] /\ q.index = plan[y] /\ q.jobs = {y}
        BY <2>17, <3>1
      <4>3. x = y
        BY <4>1, <4>2, <2>21
      <4> QED BY <3>1, <4>1, <4>2, <4>3, <2>16
    <3>2. CASE r \notin certain /\ q \notin certain
      <4>1. PICK a \in backup : r = bare(a)
        BY <2>1, <3>2
      <4>2. PICK b \in backup : q = bare(b)
        BY <2>1, <3>2
      <4>3. a = b
        BY <4>1, <4>2, <2>10, <2>11 DEF CertInv, OnePlace
      <4> QED BY <4>1, <4>2, <4>3
    <3>3. ASSUME NEW c \in certain, NEW o \in rows', o \notin certain
          PROVE  ~(c.source = o.source /\ c.index = o.index)
      <4>1. PICK b \in backup : o = bare(b)
        BY <2>1, <3>3
      <4> QED BY <4>1, <2>9, <2>10, <2>11
    <3> QED BY <3>1, <3>2, <3>3
  <2>23. LinksDone'
    <3> SUFFICES ASSUME NEW r \in rows', NEW x \in r.jobs PROVE planned[x].status = "succeeded"
      BY <1>3 DEF LinksDone
    <3>1. r \in certain
      BY <2>1, <2>10, <2>11
    <3>2. x \in kept
      BY <3>1, <2>12, <2>17
    <3> QED BY <3>2, <2>2, <2>15
  <2>24. AtSource'
    <3> SUFFICES ASSUME NEW r \in rows' PROVE r.source = SourceOf[r.span]
      BY DEF AtSource
    <3>1. CASE r \in certain
      BY <3>1, <2>12, <2>17
    <3>2. CASE r \notin certain
      <4>1. PICK b \in backup : r = bare(b)
        BY <2>1, <3>2
      <4> QED BY <4>1, <2>10, <2>11 DEF CertInv, AtSource
    <3> QED BY <3>1, <3>2
  <2>25. ASSUME NEW s \in Source PROVE SourceKeepsText(s)
    <3> SUFFICES ASSUME NEW r \in rows, r.source = s
                 PROVE  \/ \E q \in rows' : q.source = s
                        \/ \A x \in Of(s) : job'[x].status \in {"none", "superseded"}
      BY DEF SourceKeepsText
    <3>1. CASE s \notin current
      <4>1. \A x \in Of(s) : x \in Span /\ x \notin DOMAIN plan
        BY <3>1 DEF Of, current
      <4> QED BY <1>3, <4>1, <2>14
    <3>2. CASE \E x \in kept : SourceOf[x] = s
      BY <3>2, <2>1, <2>12, <2>16
    <3>3. CASE s \in current /\ ~\E x \in kept : SourceOf[x] = s
      <4>1. r.jobs \cap kept = {}
        BY <3>3, <2>16
      <4>2. s \notin full
        <5>1. s \notin ReplacedBy(reused)
          BY <3>3, <2>8
        <5>2. s \notin Complete(planned)
          BY <3>3, <2>15 DEF Complete, TurnsOf, Turn
        <5> QED BY <5>1, <5>2 DEF full
      <4>3. \A c \in certain : <<c.source, c.index>> # <<r.source, r.index>>
        BY <3>3, <2>12, <2>17
      <4>4. r \in backup
        BY <3>3, <4>1, <4>2, <4>3, <2>9
      <4> QED BY <4>4, <2>1, <2>11
    <3> QED BY <3>1, <3>2, <3>3
  <2> QED BY <2>18, <2>19, <2>20, <2>22, <2>23, <2>24, <2>25 DEF CertInv
<1> QED BY <1>1, <1>2, <1>3

\* A job that is claimed, or whose failure is written.
LEMMA CertMark ==
    ASSUME TypeOK, CertInv, NEW x \in Span, Live(x), job[x].status # "succeeded",
           NEW as \in {"running", "failed"},
           job' = [job EXCEPT ![x].status = as], rows' = rows
    PROVE  CertInv' /\ \A s \in Source : SourceKeepsText(s)
<1>1. JobsTyped /\ RowsTyped
  BY TypeParts
<1>2. \A y \in Span : /\ job'[y].config = job[y].config /\ job'[y].index = job[y].index
                      /\ y # x => job'[y] = job[y]
                      /\ y = x => job'[y].status = as
  BY <1>1 DEF JobsTyped, Job
<1>3. CertInv'
  BY <1>1, <1>2, CertQuiet DEF Live
<1> QED BY <1>3, SameText

LEMMA CertLane ==
    ASSUME TypeOK, CertInv, WorkInv, RouteInv, NEW p \in Pass, NEW s \in Source, LaneSteps(p, s)
    PROVE  CertInv' /\ \A t \in Source : SourceKeepsText(t)
<1> DEFINE x == lane[p][s].span
<1>0. LaneTyped /\ RowsTyped
  BY TypeParts
<1>1. Busy(p, s) => x \in Span /\ SourceOf[x] = s
  BY <1>0, SpanFacts DEF LaneTyped
<1>2. CASE Launch(p, s) \/ Answer(p, s)
  BY <1>0, <1>2, CertSame DEF Launch, Answer
<1>3. CASE Claim(p, s)
  <2>1. CASE job[x].status = "pending"
    <3>1. job' = [job EXCEPT ![x].status = "running"] /\ rows' = rows /\ x \in Span
      BY <1>1, <1>3, <2>1 DEF Claim, Busy
    <3>2. Live(x) /\ job[x].status # "succeeded"
      BY <2>1 DEF Live
    <3> HIDE DEF x
    <3> QED BY <3>1, <3>2, CertMark
  <2>2. CASE job[x].status # "pending"
    BY <1>0, <1>3, <2>2, CertSame DEF Claim, ledger
  <2> QED BY <2>1, <2>2
<1>4. CASE Persist(p, s) \/ PersistFails(p, s)
  <2>1. Busy(p, s) /\ x \in Span /\ SourceOf[x] = s
    BY <1>1, <1>4 DEF Persist, PersistFails, Busy
  <2>2. \/ UNCHANGED ledger
        \/ lane[p][s].at = "answered" /\ job[x].status = "running" /\ Success(p, s)
        \/ job[x].status = "running" /\ Mark(x, "failed")
    BY <1>4 DEF Persist, PersistFails
  <2>4. CASE lane[p][s].at = "answered" /\ job[x].status = "running" /\ Success(p, s)
    <3>1. job[x].config = pass[p].config
      BY <2>1 DEF WorkInv, AsAsked
    <3>2. pass[p].crossed \/ lane[p][s].route = pass[p].config.route
      BY <2>4 DEF RouteInv, Routed
    <3> QED BY <2>1, <2>4, <3>1, <3>2, CertSuccess
  <2> HIDE DEF x
  <2>3. CASE job[x].status = "running" /\ Mark(x, "failed")
    <3>1. Live(x) /\ job[x].status # "succeeded"
      BY <2>3 DEF Live
    <3>2. job' = [job EXCEPT ![x].status = "failed"] /\ rows' = rows
      BY <2>3 DEF Mark
    <3> QED BY <2>1, <3>1, <3>2, CertMark
  <2> QED BY <1>0, <2>1, <2>2, <2>3, <2>4, CertSame
<1> QED BY <1>2, <1>3, <1>4 DEF LaneSteps

\* A fallback that was not needed names no row.
LEMMA CertFallbacks ==
    ASSUME TypeOK, CertInv, NEW p \in Pass, FallbacksDone(p)
    PROVE  CertInv' /\ \A s \in Source : SourceKeepsText(s)
<1> DEFINE over == {x \in Fallback : job[x].status = "pending"}
           less(r) == [r EXCEPT !.jobs = @ \ over]
<1>0. JobsTyped /\ RowsTyped
  BY TypeParts
<1>1. /\ job' = [x \in Span |-> IF x \in over THEN [job[x] EXCEPT !.status = "superseded"]
                                ELSE job[x]]
      /\ rows' = {less(r) : r \in rows}
  BY DEF FallbacksDone
<1>2. \A x \in Span : /\ job'[x].config = job[x].config /\ job'[x].index = job[x].index
                      /\ x \in over => job'[x].status = "superseded"
                      /\ x \notin over => job'[x] = job[x]
  BY <1>0, <1>1 DEF JobsTyped, Job
<1>3. ASSUME NEW r \in rows PROVE less(r) = r
  <2>1. \A x \in r.jobs : x \notin over
    BY <1>0, RowOf
  <2>2. r.jobs \ over = r.jobs
    BY <2>1
  <2>3. [r EXCEPT !.jobs = r.jobs] = r
    BY <1>0 DEF RowsTyped, Row
  <2> QED BY <2>2, <2>3
<1>4. rows' = rows
  <2> HIDE DEF less
  <2> QED BY <1>1, <1>3
<1>5. \A x \in over : job[x].status = "pending"
  OBVIOUS
<1> HIDE DEF over
<1>6. CertInv'
  BY <1>0, <1>2, <1>4, <1>5, CertQuiet DEF Live
<1> QED BY <1>4, <1>6, SameText

LEMMA CertStep ==
    ASSUME TypeOK, CertInv, WorkInv, RouteInv, NEW p \in Pass, Steps(p)
    PROVE  CertInv' /\ \A s \in Source : SourceKeepsText(s)
<1>0. RowsTyped
  BY TypeParts
<1>1. CASE Plain(p)
  <2>1. UNCHANGED ledger
    BY <1>1 DEF Plain, ShowFirst, Finish, Unlock, Setup, Trouble, PrepareFails, StreamEnds,
                FallbackSkip, FallbackFails, Judge, Generate, Fails
  <2> QED BY <1>0, <2>1, CertSame
<1>2. CASE \E plan \in Plans, route \in 0..MaxConfig : Reconcile(p, plan, route)
  BY <1>2, CertReconcile, Zenon
<1>3. CASE \E s \in Source : LaneSteps(p, s)
  BY <1>3, CertLane
<1>4. CASE \E x \in Fallback : FallbackLaunch(p, x)
  BY <1>0, <1>4, CertSame DEF FallbackLaunch
<1>5. CASE FallbacksDone(p)
  BY <1>5, CertFallbacks
<1> QED BY <1>1, <1>2, <1>3, <1>4, <1>5 DEF Steps, Plain

LEMMA CertNext ==
    ASSUME TypeOK, CertInv, WorkInv, RouteInv, [Next]_vars
    PROVE  CertInv' /\ \A s \in Source : SourceKeepsText(s)
<1>0. JobsTyped /\ RowsTyped
  BY TypeParts
<1>1. CASE Bootstrap
  <2>1. /\ rows' = rows
        /\ job' = [x \in Span |-> IF job[x].status = "running"
                                  THEN [job[x] EXCEPT !.status = "pending"] ELSE job[x]]
    BY <1>1 DEF Bootstrap, Release
  <2>2. \A x \in Span : /\ job'[x].config = job[x].config /\ job'[x].index = job[x].index
                        /\ job[x].status = "running" => job'[x].status = "pending"
                        /\ job[x].status # "running" => job'[x] = job[x]
    BY <1>0, <2>1 DEF JobsTyped, Job
  <2>3. CertInv'
    BY <1>0, <2>1, <2>2, CertQuiet DEF Live
  <2> QED BY <2>1, <2>3, SameText
<1>2. CASE Restart \/ EditWords \/ EditRoute \/ UNCHANGED vars
  BY <1>0, <1>2, CertSame DEF Restart, EditWords, EditRoute, vars, ledger
<1>3. ASSUME NEW p \in Pass, Enqueue(p) \/ Acquire(p)
      PROVE  CertInv' /\ \A s \in Source : SourceKeepsText(s)
  BY <1>0, <1>3, CertSame DEF Enqueue, Acquire
<1>4. CASE \E p \in Pass : Steps(p)
  BY <1>4, CertStep
<1> QED BY <1>1, <1>2, <1>3, <1>4 DEF Next

LEMMA TextIsCertified == Spec => []CertInv
<1>1. TypeOK /\ CertInv /\ WorkInv /\ RouteInv /\ [Next]_vars => CertInv'
  BY CertNext
<1> QED BY <1>1, CertInit, TypeCorrect, RequestsAreServed, RoutesAgree, PTL DEF Spec

LEMMA CertGivesText == CertInv => CertifiedText
<1> SUFFICES ASSUME CertInv PROVE CertifiedText
  OBVIOUS
<1>1. ASSUME NEW x \in Span, job[x].status = "succeeded"
      PROVE  /\ \E r \in rows : /\ Named(x) = {r} /\ r.span = x /\ MadeUnder(r, job[x].config)
                                /\ r.source = SourceOf[x] /\ r.index = job[x].index
             /\ x \in Fallback => \A y \in TurnsOf(SourceOf[x]) : job[y].status # "succeeded"
  <2>1. HasRow(x) /\ StandsAlone(x)
    BY CertParts
  <2>2. \A y \in TurnsOf(SourceOf[x]) : y \in Of(SourceOf[x]) /\ y \notin Fallback
    BY DEF TurnsOf, Of, Turn
  <2> QED BY <1>1, <2>1, <2>2 DEF HasRow, StandsAlone, Live
<1>2. OnePlace
  BY DEF CertInv
<1> QED BY <1>1, <1>2 DEF CertifiedText, OnePlace

\* The ledger tells the truth about the text, for all plans, settings and their
\* changes, failed writes and restarts: a job that succeeded has one row, of its
\* span, at its place, and no source is told twice; the row is made of the words
\* of its fingerprint, and in its route unless the route was changed while the
\* pass that made it was asking (docs/adr/0026, db/repositories.rs:5024).
THEOREM SucceededJobsHaveText == Spec => []CertifiedText
  BY TextIsCertified, CertGivesText, PTL

\* A source that has text keeps some until it leaves the plan (docs/adr/0026).
THEOREM SourcesKeepText == Spec => TextStays
<1>1. TypeOK /\ CertInv /\ WorkInv /\ RouteInv /\ [Next]_vars
        => [\A s \in Source : SourceKeepsText(s)]_vars
  BY CertNext
<1> QED BY <1>1, TypeCorrect, TextIsCertified, RequestsAreServed, RoutesAgree, PTL
        DEF Spec, TextStays

-----------------------------------------------------------------------------
(* The note is generated from the plan of its pass *)

\* What counts in the ledger of a pass past its plan is of its fingerprint.
OfPlan(p) ==
    pass[p].step \in {"stream", "fallback", "judge", "generate"} =>
      \A x \in Span : Live(x) => job[x].config = pass[p].config
\* What is left to do is known to the pass: it or its lanes have it, but for the
\* fallbacks, which it goes through after its turns.
Claiming(p, x) == \E s \in Source : lane[p][s].at = "claim" /\ lane[p][s].span = x
LeftOver(p) ==
    \A x \in Span : job[x].status = "pending" =>
      /\ pass[p].step \notin {"judge", "generate"}
      /\ pass[p].step \in Open /\ ~pass[p].error =>
           \/ x \in Fallback
           \/ pass[p].step = "stream" /\ (x \in pass[p].todo \/ Claiming(p, x))
FromPlan(p) == OfPlan(p) /\ LeftOver(p)

Past == {"stream", "fallback", "judge", "generate"}

LEMMA FromPlanInit == Init => \A p \in Pass : FromPlan(p)
<1> SUFFICES ASSUME Init, NEW p \in Pass PROVE FromPlan(p)
  OBVIOUS
<1>1. pass[p].step = "none"
  BY DEF Init, NotAsked
<1> QED BY <1>1 DEF FromPlan, OfPlan, LeftOver, Open

\* A pass that is not past its plan has nothing to keep.
LEMMA NotYet ==
    ASSUME NEW p \in Pass, pass'[p].step \notin Past
    PROVE  FromPlan(p)'
  BY DEF FromPlan, OfPlan, LeftOver, Open, Past

\* Jobs go on towards their end: none is planned anew or released.
Ages == \A x \in Span : /\ job'[x].config = job[x].config
                        /\ job'[x].status \notin {"none", "superseded"} => Live(x)
                        /\ job'[x].status = "pending" => job[x].status = "pending"

LEMMA SameAges == job' = job => Ages
  BY DEF Ages, Live

LEMMA OfPlanAges ==
    ASSUME Ages, NEW p \in Pass, OfPlan(p), pass'[p].config = pass[p].config,
           pass'[p].step \in Past => pass[p].step \in Past
    PROVE  OfPlan(p)'
  BY DEF Ages, OfPlan, Live, Past

\* The pass of another step.
LEMMA OthersFromPlan ==
    ASSUME Ages, NEW p \in Pass, FromPlan(p), lane'[p] = lane[p],
           pass'[p].step = pass[p].step, pass'[p].config = pass[p].config,
           pass'[p].todo = pass[p].todo, pass'[p].error = pass[p].error
    PROVE  FromPlan(p)'
<1>1. OfPlan(p)'
  BY OfPlanAges DEF FromPlan
<1>2. LeftOver(p)'
  BY DEF FromPlan, LeftOver, Ages, Claiming
<1> QED BY <1>1, <1>2 DEF FromPlan

LEMMA PlainFromPlan ==
    ASSUME TypeOK, NEW p \in Pass, FromPlan(p), Plain(p)
    PROVE  FromPlan(p)'
<1>0. PassTyped
  BY TypeParts
<1>1. lane' = lane /\ job' = job /\ Ages
  BY PlainStays, SameAges
<1>2. \A step : Goto(p, step) => /\ pass'[p].step = step /\ pass'[p].error = pass[p].error
                                 /\ pass'[p].config = pass[p].config
                                 /\ pass'[p].todo = pass[p].todo
  BY <1>0 DEF PassTyped, Goto, Asked
<1>3. CASE ShowFirst(p) \/ Setup(p) \/ Unlock(p)
  <2>1. pass'[p].step \in {"queued", "plan", "done"}
    BY <1>0, <1>3 DEF ShowFirst, Setup, Unlock, At, PassTyped, Asked, NotAsked
  <2> QED BY <2>1, NotYet DEF Past
<1>4. CASE Finish(p) \/ Trouble(p) \/ FallbackFails(p) \/ Generate(p) \/ Fails(p)
  <2>1. pass'[p].step \in {"unlock", "failing", "finish"}
    BY <1>2, <1>4 DEF Finish, Trouble, FallbackFails, Generate, Fails
  <2> QED BY <2>1, NotYet DEF Past
<1>5. CASE PrepareFails(p)
  <2>1. /\ pass[p].step = "stream" /\ pass'[p].step = "stream" /\ pass'[p].error
        /\ pass'[p].config = pass[p].config
    BY <1>0, <1>5 DEF PrepareFails, Broken, At, PassTyped, Asked
  <2>2. OfPlan(p)'
    BY <1>1, <2>1, OfPlanAges DEF FromPlan
  <2>3. LeftOver(p)'
    BY <2>1 DEF LeftOver
  <2> QED BY <2>2, <2>3 DEF FromPlan
<1>6. CASE StreamEnds(p)
  <2>1. CASE pass[p].error
    <3>1. pass'[p].step = "failing"
      BY <1>2, <1>6, <2>1 DEF StreamEnds
    <3> QED BY <3>1, NotYet DEF Past
  <2>2. CASE ~pass[p].error
    <3>1. /\ pass[p].step = "stream" /\ pass'[p].step = "fallback" /\ ~pass'[p].error
          /\ pass'[p].config = pass[p].config /\ pass[p].todo = {} /\ Resting(p)
      BY <1>2, <1>6, <2>2 DEF StreamEnds, At
    <3>2. OfPlan(p)'
      BY <1>1, <3>1, OfPlanAges DEF FromPlan, Past
    <3>3. \A x : ~Claiming(p, x)
      BY <3>1 DEF Claiming, Resting, Busy
    <3>4. LeftOver(p)'
      BY <1>1, <2>2, <3>1, <3>3 DEF FromPlan, LeftOver, Open
    <3> QED BY <3>2, <3>4 DEF FromPlan
  <2> QED BY <2>1, <2>2
<1>7. CASE \E x \in Fallback : FallbackSkip(p, x)
  <2>1. /\ pass[p].step = "fallback" /\ pass'[p].step = "fallback"
        /\ pass'[p].error = pass[p].error /\ pass'[p].config = pass[p].config
    BY <1>0, <1>7 DEF FallbackSkip, NextFallback, At, PassTyped, Asked
  <2>2. OfPlan(p)'
    BY <1>1, <2>1, OfPlanAges DEF FromPlan
  <2>3. LeftOver(p)'
    BY <1>1, <2>1 DEF FromPlan, LeftOver
  <2> QED BY <2>2, <2>3 DEF FromPlan
<1>8. CASE Judge(p)
  <2>1. pass'[p].step \in {"failing", "generate"} /\ pass[p].step = "judge"
        /\ pass'[p].config = pass[p].config
    BY <1>2, <1>8 DEF Judge, At
  <2>2. OfPlan(p)'
    BY <1>1, <2>1, OfPlanAges DEF FromPlan, Past
  <2>3. LeftOver(p)'
    BY <1>1, <2>1 DEF FromPlan, LeftOver, Open
  <2> QED BY <2>2, <2>3 DEF FromPlan
<1> QED BY <1>3, <1>4, <1>5, <1>6, <1>7, <1>8 DEF Plain

LEMMA MarkAges ==
    ASSUME JobsTyped, NEW x \in Span, NEW as, as # "pending", Live(x),
           job' = [job EXCEPT ![x].status = as]
    PROVE  Ages
<1>1. \A y \in Span : /\ job'[y].config = job[y].config
                      /\ y # x => job'[y] = job[y]
                      /\ y = x => job'[y].status = as
  BY DEF JobsTyped, Job
<1> QED BY <1>1 DEF Ages, Live

LEMMA SuccessAges ==
    ASSUME JobsTyped, NEW p \in Pass, NEW s \in Source, NEW x \in Span, x = lane[p][s].span,
           Live(x), Success(p, s)
    PROVE  Ages
<1> DEFINE done == [job EXCEPT ![x].status = "succeeded"]
           whole == x \in Fallback
           last  == ~whole /\ s \in Complete(done)
           retired(y) == /\ y # x /\ SourceOf[y] = s /\ job[y].status # "none"
                         /\ whole \/ (last /\ y \in Fallback /\ job[y].status = "pending")
<1>1. job' = [y \in Span |-> IF retired(y) THEN [done[y] EXCEPT !.status = "superseded"]
                               ELSE done[y]]
  BY DEF Success
<1>2. \A y \in Span : /\ done[y].config = job[y].config /\ done[y] \in Job
                      /\ y # x => done[y] = job[y]
                      /\ y = x => done[y].status = "succeeded"
  BY DEF JobsTyped, Job, JobStatus
<1> HIDE DEF done, retired
<1>3. ASSUME NEW y \in Span
      PROVE  /\ job'[y].config = job[y].config
             /\ job'[y].status = "superseded" \/ job'[y] = done[y]
  <2>1. done[y] \in Job /\ done[y].config = job[y].config
    BY <1>2
  <2>2. [done[y] EXCEPT !.status = "superseded"].status = "superseded"
        /\ [done[y] EXCEPT !.status = "superseded"].config = done[y].config
    BY <2>1 DEF Job
  <2> QED BY <1>1, <2>1, <2>2
<1> QED BY <1>2, <1>3 DEF Ages, Live

\* What a lane does to what is left: its span moves from the plan to the lane and
\* from there to a running job, or the pass has met an error.
LEMMA LaneFromPlan ==
    ASSUME TypeOK, StartInv, NEW p \in Pass, NEW s \in Source, FromPlan(p), LaneSteps(p, s)
    PROVE  Ages /\ FromPlan(p)'
<1> DEFINE x == lane[p][s].span
           goes(y) == y \in pass[p].todo \/ Claiming(p, y) => y \in pass'[p].todo \/ Claiming(p, y)'
<1>0. JobsTyped /\ LaneTyped /\ PassTyped
  BY TypeParts
<1>1. Busy(p, s) => x \in Span
  BY <1>0, SpanFacts DEF LaneTyped
<1>2. pass'[p].step = pass[p].step /\ pass'[p].config = pass[p].config
  BY LaneStepStays
<1>3. pass' = Broken(p) => pass'[p].error
  BY <1>0 DEF PassTyped, Broken, Asked
<1>4. ASSUME Ages,
             \/ pass'[p].error
             \/ /\ pass'[p].error = pass[p].error
                /\ \A y \in Span : job'[y].status = "pending" => goes(y)
      PROVE  Ages /\ FromPlan(p)'
  <2>1. OfPlan(p)'
    BY <1>2, <1>4, OfPlanAges DEF FromPlan
  <2>2. CASE pass'[p].error
    <3>1. LeftOver(p)'
      BY <1>2, <1>4, <2>2 DEF FromPlan, LeftOver, Ages
    <3> QED BY <1>4, <2>1, <3>1 DEF FromPlan
  <2>3. CASE ~pass'[p].error
    <3> SUFFICES ASSUME NEW y \in Span, job'[y].status = "pending"
                 PROVE  /\ pass'[p].step \notin {"judge", "generate"}
                        /\ pass'[p].step \in Open =>
                             \/ y \in Fallback
                             \/ pass'[p].step = "stream"
                                /\ (y \in pass'[p].todo \/ Claiming(p, y)')
      BY <1>4, <2>1 DEF FromPlan, LeftOver
    <3>1. job[y].status = "pending" /\ goes(y) /\ ~pass[p].error
      BY <1>4, <2>3 DEF Ages
    <3> QED BY <1>2, <3>1 DEF FromPlan, LeftOver
  <2> QED BY <2>2, <2>3
<1>5. CASE Launch(p, s)
  <2>1. PICK y \in pass[p].todo : /\ Move(p, s, "claim", y, 0)
                                  /\ pass' = [pass EXCEPT ![p].todo = @ \ {y}]
    BY <1>5 DEF Launch
  <2>2. lane'[p][s] = [at |-> "claim", span |-> y, route |-> 0] /\ OtherLanes(p, s)
    BY <1>0, <2>1, MoveLane
  <2>3. pass'[p].error = pass[p].error /\ pass'[p].todo = pass[p].todo \ {y}
    BY <1>0, <2>1 DEF PassTyped, Asked
  <2>4. lane[p][s].at # "claim" /\ job' = job
    BY <1>5 DEF Launch, Busy, ledger
  <2>5. ASSUME NEW z \in Span PROVE goes(z)
    <3>1. CASE z = y
      BY <2>2, <3>1 DEF Claiming
    <3>2. CASE z # y /\ z \in pass[p].todo
      BY <2>3, <3>2
    <3>3. Claiming(p, z) => Claiming(p, z)'
      BY <2>2, <2>4 DEF Claiming, OtherLanes
    <3> QED BY <3>1, <3>2, <3>3
  <2> HIDE DEF goes
  <2> QED BY <1>4, <2>3, <2>4, <2>5, SameAges
<1>6. CASE Claim(p, s)
  <2>1. CASE job[x].status = "pending"
    <3>1. /\ job' = [job EXCEPT ![x].status = "running"] /\ x \in Span
          /\ Move(p, s, "request", x, config.route) /\ pass' = pass
      BY <1>1, <1>6, <2>1 DEF Claim, Busy
    <3>2. OtherLanes(p, s)
      BY <1>0, <3>1, MoveLane
    <3>3. job'[x].status = "running"
      BY <1>0, <3>1 DEF JobsTyped, Job
    <3>4. ASSUME NEW y \in Span, job'[y].status = "pending" PROVE goes(y)
      <4>1. y # x
        BY <3>3, <3>4
      <4>2. Claiming(p, y) => Claiming(p, y)'
        BY <3>2, <4>1 DEF Claiming, OtherLanes
      <4> QED BY <3>1, <4>2
    <3>5. Ages
      <4>1. Live(x)
        BY <2>1 DEF Live
      <4> HIDE DEF x
      <4> QED BY <1>0, <3>1, <4>1, MarkAges
    <3> HIDE DEF goes
    <3> QED BY <1>4, <3>1, <3>4, <3>5
  <2>2. CASE job[x].status # "pending"
    <3>1. job' = job /\ pass' = Broken(p)
      BY <1>6, <2>2 DEF Claim
    <3> QED BY <1>3, <1>4, <3>1, SameAges
  <2> QED BY <2>1, <2>2
<1>7. CASE Answer(p, s)
  <2>1. PICK how \in {"answered", "refused"}, route \in {0, lane[p][s].route, config.route} :
           Move(p, s, how, x, route)
    BY <1>7 DEF Answer
  <2>2. OtherLanes(p, s) /\ lane[p][s].at = "request" /\ job' = job /\ pass' = pass
    BY <1>0, <1>7, <2>1, MoveLane DEF Answer, ledger, queue
  <2>3. ASSUME NEW y \in Span PROVE goes(y)
    BY <2>2 DEF Claiming, OtherLanes
  <2> HIDE DEF goes
  <2> QED BY <1>4, <2>2, <2>3, SameAges
<1>8. CASE Persist(p, s) \/ PersistFails(p, s)
  <2>1. x \in Span /\ Free(p, s) /\ lane[p][s].at # "claim"
    BY <1>1, <1>8 DEF Persist, PersistFails, Busy
  <2>2. \/ UNCHANGED ledger
        \/ job[x].status = "running" /\ Success(p, s)
        \/ job[x].status = "running" /\ Mark(x, "failed")
    BY <1>8 DEF Persist, PersistFails
  <2>3. Ages
    <3>1. CASE UNCHANGED ledger
      BY <3>1, SameAges DEF ledger
    <3>2. CASE job[x].status = "running"
      <4>1. Live(x)
        BY <3>2 DEF Live
      <4>2. Success(p, s) => Ages
        BY <1>0, <2>1, <4>1, SuccessAges
      <4> HIDE DEF x
      <4>3. Mark(x, "failed") => Ages
        BY <1>0, <2>1, <4>1, MarkAges DEF Mark
      <4> QED BY <2>2, <4>2, <4>3, SameAges DEF ledger
    <3> QED BY <2>2, <3>1, <3>2
  <2>4. OtherLanes(p, s)
    BY <1>0, <2>1, FreeLane
  <2>5. \/ pass' = Broken(p)
        \/ pass'[p].error = pass[p].error /\ pass'[p].todo = pass[p].todo
    <3>1. \/ pass' = Broken(p)
          \/ \E got, lost : pass' = [pass EXCEPT ![p].got = got, ![p].lost = lost]
          \/ \E lost : pass' = [pass EXCEPT ![p].lost = lost]
      BY <1>8 DEF Persist, PersistFails
    <3> QED BY <1>0, <3>1 DEF PassTyped, Asked
  <2>6. ASSUME NEW y, Claiming(p, y) PROVE Claiming(p, y)'
    <3>1. PICK t \in Source : lane[p][t].at = "claim" /\ lane[p][t].span = y
      BY <2>6 DEF Claiming
    <3>2. lane'[p][t] = lane[p][t]
      BY <2>1, <2>4, <3>1 DEF OtherLanes
    <3> QED BY <3>1, <3>2 DEF Claiming
  <2> QED BY <1>3, <1>4, <2>3, <2>5, <2>6
<1> QED BY <1>5, <1>6, <1>7, <1>8 DEF LaneSteps

\* A plan that is reconciled holds all that is left, under its fingerprint.
LEMMA ReconcileFromPlan ==
    ASSUME TypeOK, NEW p \in Pass, NEW plan \in Plans, NEW route, Reconcile(p, plan, route)
    PROVE  FromPlan(p)'
<1>0. JobsTyped /\ PassTyped
  BY TypeParts, Zenon
<1> DEFINE cfg     == [words |-> pass[p].config.words, route |-> route]
           reused  == {x \in DOMAIN plan : Reusable(x, cfg)}
           planned == Planned(plan, cfg, reused)
           todo    == {x \in Turn \cap DOMAIN plan : planned[x].status = "pending"}
           spare   == {x \in Fallback \cap DOMAIN plan : planned[x].status = "pending"}
           kept    == {SourceOf[x] : x \in {y \in DOMAIN plan : planned[y].status = "succeeded"}}
<1>1. \/ Goto(p, "failing")
      \/ /\ job' = planned
         /\ pass' = [pass EXCEPT ![p].step = "stream", ![p].config = cfg, ![p].todo = todo,
                                 ![p].spare = spare, ![p].got = kept]
  BY DEF Reconcile
<1>2. CASE Goto(p, "failing")
  <2>1. pass'[p].step = "failing"
    BY <1>0, <1>2 DEF PassTyped, Goto, Asked
  <2> QED BY <2>1, NotYet DEF Past
<1>3. CASE /\ job' = planned
           /\ pass' = [pass EXCEPT ![p].step = "stream", ![p].config = cfg, ![p].todo = todo,
                                   ![p].spare = spare, ![p].got = kept]
  <2>1. \A x \in Span :
          /\ x \in DOMAIN plan => planned[x].config = cfg
          /\ x \notin DOMAIN plan => planned[x].status \in {"none", "superseded"}
    <3>1. reused \in SUBSET DOMAIN plan
      OBVIOUS
    <3> HIDE DEF reused, cfg
    <3> QED BY <1>0, <3>1, PlannedJobs
  <2>2. \A x \in DOMAIN plan : x \in Turn /\ planned[x].status = "pending" => x \in todo
    OBVIOUS
  <2> HIDE DEF planned, todo, spare, kept, cfg
  <2>3. pass'[p].step = "stream" /\ pass'[p].todo = todo /\ pass'[p].config = cfg
    BY <1>0, <1>3 DEF PassTyped, Asked
  <2>4. OfPlan(p)'
    BY <1>3, <2>1, <2>3 DEF OfPlan, Live
  <2>5. LeftOver(p)'
    BY <1>3, <2>1, <2>2, <2>3 DEF LeftOver, Turn
  <2> QED BY <2>4, <2>5 DEF FromPlan
<1> HIDE DEF planned, todo, spare, kept, cfg
<1> QED BY <1>1, <1>2, <1>3

LEMMA FallbackLaunchFromPlan ==
    ASSUME TypeOK, NEW p \in Pass, NEW x \in Fallback, FromPlan(p), FallbackLaunch(p, x)
    PROVE  Ages /\ FromPlan(p)'
<1>0. PassTyped
  BY TypeParts
<1>1. /\ pass[p].step = "fallback" /\ pass'[p].step = "fallback" /\ job' = job
      /\ pass'[p].error = pass[p].error /\ pass'[p].config = pass[p].config
  BY <1>0 DEF FallbackLaunch, NextFallback, At, PassTyped, Asked, ledger
<1>2. Ages
  BY <1>1, SameAges
<1>3. OfPlan(p)'
  BY <1>1, <1>2, OfPlanAges DEF FromPlan
<1>4. LeftOver(p)'
  BY <1>1 DEF FromPlan, LeftOver
<1> QED BY <1>2, <1>3, <1>4 DEF FromPlan

\* Only fallbacks were left, and those are superseded.
LEMMA FallbacksDoneFromPlan ==
    ASSUME TypeOK, NEW p \in Pass, FromPlan(p), FallbacksDone(p)
    PROVE  Ages /\ FromPlan(p)'
<1>0. JobsTyped /\ PassTyped
  BY TypeParts
<1>1. /\ pass[p].step = "fallback" /\ ~pass[p].error
      /\ pass'[p].step = "judge" /\ pass'[p].config = pass[p].config
  BY <1>0 DEF FallbacksDone, Goto, At, PassTyped, Asked
<1>2. ASSUME NEW x \in Span
      PROVE  /\ job'[x].config = job[x].config
             /\ job'[x] = job[x] \/ job'[x].status = "superseded"
             /\ x \in Fallback /\ job[x].status = "pending" => job'[x].status = "superseded"
  <2>1. job[x] \in [status : JobStatus, config : Config, index : Nat]
    BY <1>0 DEF JobsTyped, Job
  <2>2. job'[x] = IF x \in Fallback /\ job[x].status = "pending"
                  THEN [job[x] EXCEPT !.status = "superseded"] ELSE job[x]
    BY DEF FallbacksDone
  <2> QED BY <2>1, <2>2
<1>3. Ages
  BY <1>2 DEF Ages, Live
<1>4. OfPlan(p)'
  BY <1>1, <1>3, OfPlanAges DEF FromPlan, Past
<1>5. \A x \in Span : job'[x].status # "pending"
  BY <1>1, <1>2, <1>3 DEF FromPlan, LeftOver, Open, Ages
<1>6. LeftOver(p)'
  BY <1>5 DEF LeftOver
<1> QED BY <1>3, <1>4, <1>6 DEF FromPlan

LEMMA FromPlanStep ==
    ASSUME TypeOK, OnePass, StartInv, NEW p \in Pass, Steps(p), \A o \in Pass : FromPlan(o)
    PROVE  \A o \in Pass : FromPlan(o)'
<1>1. \A o \in Pass : o # p => pass'[o] = pass[o] /\ lane'[o] = lane[o]
  BY StepKeepsOthers
<1>2. ASSUME NEW plan \in Plans, NEW route \in 0..MaxConfig, Reconcile(p, plan, route)
      PROVE  \A o \in Pass : FromPlan(o)'
  <2>1. pass[p].step \in AtWork
    BY <1>2 DEF Reconcile, At, AtWork, Locked, PassStep
  <2>2. Past \subseteq AtWork
    BY DEF Past, AtWork, Locked, PassStep
  <2>3. \A o \in Pass : o # p => pass[o].step \notin AtWork
    BY <2>1 DEF OnePass
  <2>4. \A o \in Pass : o # p => pass'[o].step \notin Past
    BY <1>1, <2>2, <2>3
  <2>5. \A o \in Pass : o # p => FromPlan(o)'
    BY <2>4, NotYet
  <2> QED BY <1>2, <2>5, ReconcileFromPlan
<1>3. \/ Plain(p) \/ (\E plan \in Plans, route \in 0..MaxConfig : Reconcile(p, plan, route))
      \/ (\E s \in Source : LaneSteps(p, s)) \/ (\E x \in Fallback : FallbackLaunch(p, x))
      \/ FallbacksDone(p)
  BY DEF Steps, Plain
<1>4. Plain(p) => Ages /\ FromPlan(p)'
  BY PlainStays, SameAges, PlainFromPlan
<1>5. (\E s \in Source : LaneSteps(p, s)) => Ages /\ FromPlan(p)'
  BY LaneFromPlan
<1>6. (\E x \in Fallback : FallbackLaunch(p, x)) \/ FallbacksDone(p) => Ages /\ FromPlan(p)'
  BY FallbackLaunchFromPlan, FallbacksDoneFromPlan
<1>7. Ages => \A o \in Pass : o # p => FromPlan(o)'
  BY <1>1, OthersFromPlan
<1>8. Ages /\ FromPlan(p)' => \A o \in Pass : FromPlan(o)'
  BY <1>7
<1> QED BY <1>2, <1>3, <1>4, <1>5, <1>6, <1>8

LEMMA FromPlanNext ==
    ASSUME TypeOK, OnePass, StartInv, [Next]_vars, \A p \in Pass : FromPlan(p)
    PROVE  \A p \in Pass : FromPlan(p)'
<1>0. PassTyped
  BY TypeParts
<1>1. CASE Bootstrap
  <2>1. \A p \in Pass : pass'[p].step \in {"none", "done"}
    BY <1>1 DEF Bootstrap, Release, queue, StartInv
  <2>2. \A p \in Pass : pass'[p].step \notin Past
    BY <2>1 DEF Past
  <2> QED BY <2>2, NotYet
<1>2. CASE Restart
  <2>1. \A p \in Pass : pass'[p].step \in {"none", "done"}
    BY <1>2 DEF Restart, NotAsked
  <2>2. \A p \in Pass : pass'[p].step \notin Past
    BY <2>1 DEF Past
  <2> QED BY <2>2, NotYet
<1>3. CASE EditWords \/ EditRoute \/ UNCHANGED vars
  <2>1. job' = job /\ lane' = lane /\ (pass' = pass \/ EditRoute)
    BY <1>3 DEF EditWords, EditRoute, vars, ledger, queue
  <2>2. \A p \in Pass : /\ pass'[p].step = pass[p].step /\ pass'[p].config = pass[p].config
                        /\ pass'[p].todo = pass[p].todo /\ pass'[p].error = pass[p].error
    BY <1>0, <2>1, EditRouteTyped
  <2> QED BY <2>1, <2>2, SameAges, OthersFromPlan
<1>4. ASSUME NEW p \in Pass, Enqueue(p) \/ Acquire(p) PROVE \A o \in Pass : FromPlan(o)'
  <2>1. job' = job /\ lane' = lane
    BY <1>4 DEF Enqueue, Acquire, ledger
  <2>2. \A o \in Pass : o # p => pass'[o] = pass[o]
    BY <1>0, <1>4 DEF Enqueue, Acquire, Goto, PassTyped, Asked
  <2>3. pass'[p].step \in {"queued", "setup"}
    BY <1>0, <1>4 DEF Enqueue, Acquire, Goto, PassTyped, Asked
  <2>4. FromPlan(p)'
    BY <2>3, NotYet DEF Past
  <2>5. \A o \in Pass : o # p => FromPlan(o)'
    BY <2>1, <2>2, SameAges, OthersFromPlan
  <2> QED BY <2>4, <2>5
<1>5. ASSUME NEW p \in Pass, Steps(p) PROVE \A o \in Pass : FromPlan(o)'
  BY <1>5, FromPlanStep
<1> QED BY <1>1, <1>2, <1>3, <1>4, <1>5 DEF Next

FromPlanInv == \A p \in Pass : FromPlan(p)

LEMMA PassesFollowPlans == Spec => []FromPlanInv
<1>1. Init => FromPlanInv
  BY FromPlanInit DEF FromPlanInv
<1>2. TypeOK /\ OnePass /\ StartInv /\ FromPlanInv /\ [Next]_vars => FromPlanInv'
  BY FromPlanNext DEF FromPlanInv
<1> QED BY <1>1, <1>2, TypeCorrect, OnePassAtATime, QueueAndStart, PTL DEF Spec

LEMMA PlanGivesNote ==
    ASSUME TypeOK, OnePass, StartInv, WorkInv, CertInv, FromPlanInv
    PROVE  GeneratesFromPlan
<1> SUFFICES ASSUME NEW p \in Pass, pass[p].step = "generate"
             PROVE  /\ \A x \in Span : /\ job[x].status # "pending"
                                       /\ job[x].status = "running" => x \in stranded
                    /\ \A r \in rows : Certified(r) => MadeUnder(r, pass[p].config)
  BY DEF GeneratesFromPlan, At
<1>1. FromPlan(p)
  BY DEF FromPlanInv
<1>2. pass[p].step \in AtWork /\ pass[p].step \notin Open /\ repaired
  BY DEF AtWork, Locked, PassStep, Open, StartInv
<1>3. \A o \in Pass, s \in Source : ~Busy(o, s)
  BY <1>2, BusyAlone
<1>4. ASSUME NEW x \in Span, job[x].status = "running" PROVE x \in stranded
  BY <1>2, <1>3, <1>4 DEF WorkInv, Served, Holding, Requesting, Busy
<1>5. \A x \in Span : job[x].status # "pending"
  BY <1>1 DEF FromPlan, LeftOver
<1>6. ASSUME NEW r \in rows, Certified(r) PROVE MadeUnder(r, pass[p].config)
  <2>1. RowsTyped /\ r.span \in r.jobs
    BY <1>6, TypeParts DEF Certified
  <2>2. /\ r.span \in Span /\ job[r.span].status = "succeeded"
        /\ MadeUnder(r, job[r.span].config)
    BY <2>1, RowOf
  <2>3. job[r.span].config = pass[p].config
    BY <1>1, <2>2 DEF FromPlan, OfPlan, Live
  <2> QED BY <2>2, <2>3
<1> QED BY <1>4, <1>5, <1>6

\* The note is generated when nothing planned is left over, from text of the words
\* its pass read and of the route its pass made the fingerprints with, unless the
\* route was changed while a pass that made the text was asking (docs/adr/0026,
\* addendum; processing.rs, process_saved_source_audio_pipeline).
THEOREM NoteFollowsPlan == Spec => []GeneratesFromPlan
  BY TypeCorrect, OnePassAtATime, QueueAndStart, RequestsAreServed, TextIsCertified,
     PassesFollowPlans, PlanGivesNote, PTL
=============================================================================
