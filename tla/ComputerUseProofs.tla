-------------------------- MODULE ComputerUseProofs --------------------------
(***************************************************************************)
(* Proofs about ComputerUse, for any sets of sessions, apps, commands and  *)
(* workers and any bounds.                                                 *)
(*                                                                         *)
(* Types come first: the plan an operation carries only holds steps of its *)
(* kind, so who is authorized is an app. Everything about the driver rests *)
(* on who holds the mutex around it (DriverInv); the processes of the      *)
(* permission probe and of failed starts are kept apart from it under any  *)
(* name (ApartInv). What an operation may do                               *)
(* after a Stop, or for a task that is over, follows from the epoch and    *)
(* the generation it read first.                                           *)
(***************************************************************************)
EXTENDS ComputerUse, SequenceTheorems, TLAPS

-----------------------------------------------------------------------------
(* Types *)

Permit == {"none", "match", "mismatch"}
Operation == [kind : Kind \cup {"none", "end"}, todo : Seq(Steps), at : At, epoch : Nat,
              gen : Nat, task : Nat, app : App \cup {NoApp}, key : Key \cup {NoKey},
              named : BOOLEAN, fresh : BOOLEAN, permit : Permit]

\* What the kind of an operation says of its plan and of the app it is about.
PlanOK ==
    /\ op.kind = "none" => op.todo = <<>>
    /\ op.kind = "end" => op.todo \in {<<"idle", "clean">>, <<"clean">>}
    /\ op.kind \in Kind => op.key \in Key /\ op.todo \in Seq(Steps \ {"idle", "clean"})

OpOK == op \in Operation /\ PlanOK

SessionOK ==
    /\ runs \subseteq Session /\ gen \in Nat /\ auth \subseteq Key
    /\ task \in Nat /\ givenIn \in [Key -> Nat]

ApartOK ==
    /\ flight \in [step : {"off", "start", "check"}, prompt : {"no", "first", "last"}, proc : Nat]
    /\ stray \subseteq 1..starts
ProcessOK ==
    /\ lock \in {"free", "op", "warm", "worker"}
    /\ starts \in 0..MaxStarts /\ live \subseteq 1..starts
    /\ driver \in Nat /\ pid \in Nat
    /\ born \in [1..MaxStarts -> Nat]
    /\ ApartOK

WorkerStates == {"rest", "enter", "clear", "bump", "drain", "kill", "take", "stopping",
                 "forget", "leave", "replace", "prompt", "probe", "read", "ask", "await",
                 "publish"}
ReadyOK == ready \in [is : BOOLEAN, epoch : Nat]
WarmOK ==
    warm \in [step : {"off", "lock", "verify", "start", "install"}, epoch : Nat, proc : Nat]
Errand == [job : Job \cup {"none"}, step : WorkerStates, epoch : Nat, ok : BOOLEAN, took : Nat,
           prompt : BOOLEAN]
WorkersOK == worker \in [Worker -> Errand]
BeginOK ==
    begin \in [step : {"off", "insert", "bump", "reset"}, session : SUBSET Session,
               first : BOOLEAN]
ControlOK ==
    /\ grant \in BOOLEAN /\ ReadyOK /\ epoch \in Nat /\ WarmOK /\ WorkersOK /\ BeginOK
    /\ ending \subseteq Nat /\ left \in BOOLEAN /\ asked \in Nat

TargetOK == target \in [app : App \cup {NoApp}, captured : BOOLEAN, epoch : Nat]
RestOK ==
    /\ TargetOK /\ approval \in {"none", "pending", "allowed", "denied"} /\ used \in Nat

TypeInv == SessionOK /\ ProcessOK /\ ControlOK /\ RestOK /\ OpOK

\* The kinds of an operation exclude each other.
LEMMA KindsApart == "none" \notin Kind /\ "end" \notin Kind
  BY ConstAssumption DEF Kinds

-----------------------------------------------------------------------------
(* What the plan of an operation becomes *)

\* A plan stays a plan when its first steps are dropped.
LEMMA TailOfPlan ==
    ASSUME NEW S, NEW s \in Seq(S), s # <<>>
    PROVE  /\ Head(s) \in S /\ Tail(s) \in Seq(S)
           /\ Len(s) > 1 => Tail(s) # <<>> /\ Tail(Tail(s)) \in Seq(S)
<1>1. Head(s) \in S /\ Tail(s) \in Seq(S) /\ Len(Tail(s)) = Len(s) - 1
  BY HeadTailProperties
<1>2. ASSUME Len(s) > 1 PROVE Tail(s) # <<>> /\ Tail(Tail(s)) \in Seq(S)
  <2>1. Len(Tail(s)) # 0  BY <1>1, <1>2, LenProperties
  <2>2. Tail(s) # <<>>  BY <2>1, <1>1, EmptySeq
  <2> QED  BY <2>2, <1>1, HeadTailProperties
<1> QED  BY <1>1, <1>2

\* Finish, Go, Advance and Instead keep an operation well formed.
LEMMA FinishTypes == ASSUME Finish PROVE OpOK'
<1>1. <<>> \in Seq(Steps)  BY EmptySeq
<1>2. NoPlan \in Operation  BY <1>1 DEF NoPlan, Operation, At, Permit
<1>3. NoPlan.kind = "none" /\ NoPlan.todo = <<>>  BY DEF NoPlan
<1> QED  BY <1>2, <1>3, KindsApart DEF Finish, OpOK, PlanOK

\* Going on to the next step of a plan keeps the operation typed.
LEMMA GoTypes ==
    ASSUME NEW o \in Operation, o.kind \in Kind, o.key \in Key,
           o.todo \in Seq(Steps \ {"idle", "clean"}), o.todo # <<>>, Go(o)
    PROVE  OpOK' /\ op'.at = "start"
<1> DEFINE rest == IF Len(o.todo) > 1 /\ o.todo[2] = "refresh" /\ ~o.fresh
                   THEN Tail(Tail(o.todo)) ELSE Tail(o.todo)
<1>1. rest \in Seq(Steps \ {"idle", "clean"}) /\ rest \in Seq(Steps)
  <2>1. o.todo \in Seq(Steps)  BY DEF Operation
  <2> QED  BY <2>1, TailOfPlan
<1>2. op' = [o EXCEPT !.at = "start", !.todo = rest]  BY DEF Go
<1> HIDE DEF rest
<1>3. op' \in Operation  BY <1>1, <1>2 DEF Operation, At
<1>4. op'.kind = o.kind /\ op'.key = o.key /\ op'.todo = rest /\ op'.at = "start"
  BY <1>2 DEF Operation
<1> QED  BY <1>1, <1>3, <1>4, KindsApart DEF OpOK, PlanOK

\* Replacing the present step by further ones keeps the operation typed.
LEMMA InsteadTypes ==
    ASSUME NEW o \in Operation, o.kind \in Kind, o.key \in Key,
           o.todo \in Seq(Steps \ {"idle", "clean"}), o.todo # <<>>,
           NEW steps \in Seq(Steps \ {"idle", "clean"}), Instead(steps, o)
    PROVE  OpOK' /\ op'.at = "start"
<1> DEFINE rest == steps \o Tail(o.todo)
<1>1. rest \in Seq(Steps \ {"idle", "clean"})
  BY TailOfPlan, ConcatProperties
<1>2. rest \in Seq(Steps)
  <2>1. Steps \ {"idle", "clean"} \subseteq Steps  OBVIOUS
  <2> HIDE DEF rest
  <2> QED  BY <2>1, <1>1, SeqMonotonic
<1>3. op' = [o EXCEPT !.at = "start", !.todo = rest]  BY DEF Instead
<1> HIDE DEF rest
<1>4. op' \in Operation  BY <1>2, <1>3 DEF Operation, At
<1>5. op'.kind = o.kind /\ op'.key = o.key /\ op'.todo = rest /\ op'.at = "start"
  BY <1>3 DEF Operation
<1> QED  BY <1>1, <1>4, <1>5, KindsApart DEF OpOK, PlanOK

\* A step of an agent's action is one of an operation of its kind.
LEMMA KindOfWork ==
    ASSUME OpOK, Working, Head(op.todo) \notin {"idle", "clean"}
    PROVE  /\ op.kind \in Kind /\ op.key \in Key
           /\ op.todo \in Seq(Steps \ {"idle", "clean"})
<1>1. op.kind # "none"  BY DEF OpOK, PlanOK, Working
<1>2. op.kind # "end"
  <2>1. Head(<<"idle", "clean">>) = "idle" /\ Head(<<"clean">>) = "clean"  OBVIOUS
  <2> QED  BY <2>1 DEF OpOK, PlanOK
<1> QED  BY <1>1, <1>2 DEF OpOK, PlanOK, Operation

\* A cleanup's own steps belong to no action.
LEMMA KindOfCleanup ==
    ASSUME OpOK, Working, Head(op.todo) \in {"idle", "clean"}
    PROVE  op.kind = "end"
<1>1. op.kind # "none"  BY DEF OpOK, PlanOK, Working
<1>2. op.kind \notin Kind  BY TailOfPlan DEF OpOK, PlanOK, Working
<1> QED  BY <1>1, <1>2 DEF OpOK, Operation

\* An operation at work goes on with the rest of its plan.
LEMMA GoOn ==
    ASSUME OpOK, Working, Head(op.todo) \notin {"idle", "clean"},
           NEW o \in Operation, o.kind = op.kind, o.key \in Key, o.todo = op.todo, Go(o)
    PROVE  OpOK' /\ op'.at = "start"
  BY KindOfWork, GoTypes DEF Working

\* Advancing, whether the plan goes on or is finished, keeps the types.
LEMMA AdvanceTypes ==
    ASSUME OpOK, Working, Head(op.todo) \notin {"idle", "clean"}, Advance \/ Go(op) \/ Finish
    PROVE  OpOK' /\ op'.at = "start"
<1>1. CASE Finish
  BY <1>1, FinishTypes DEF Finish, NoPlan
<1>2. CASE Go(op)
  BY <1>2, KindOfWork, GoOn DEF OpOK
<1> QED  BY <1>1, <1>2 DEF Advance

\* A move within one step of the plan changes only where the operation is.
LEMMA WithinTypes ==
    ASSUME OpOK, NEW at \in At, Within(at)
    PROVE  /\ OpOK' /\ op'.at = at
           /\ op'.kind = op.kind /\ op'.todo = op.todo /\ op'.key = op.key
           /\ op'.epoch = op.epoch /\ op'.gen = op.gen /\ op'.task = op.task
<1>1. op' \in Operation /\ op'.at = at  BY DEF Within, OpOK, Operation
<1>2. /\ op'.kind = op.kind /\ op'.todo = op.todo /\ op'.key = op.key
      /\ op'.epoch = op.epoch /\ op'.gen = op.gen /\ op'.task = op.task
  BY DEF Within, OpOK, Operation
<1> QED  BY <1>1, <1>2 DEF OpOK, PlanOK

\* The first steps of an operation, which are not calls of the driver.
LEMMA PlanStepTypes ==
    ASSUME TypeInv,
           \/ ReadTask \/ CheckEligible \/ Aim \/ Alias \/ TaskCheck \/ FullCheck
           \/ (\E b \in App : KnownAlias(b))
           \/ (\E b \in BOOLEAN : Join(b) \/ Confirm(b) \/ Again(b))
    PROVE  OpOK' /\ op'.at = "start" /\ UNCHANGED <<session, process, control, target, approval, used>>
<1> USE DEF On
<1>o. OpOK /\ op \in Operation  BY DEF TypeInv, OpOK
<1>1. CASE ReadTask
  <2>1. gen \in Nat /\ task \in Nat  BY DEF TypeInv, SessionOK
  <2> DEFINE o == [op EXCEPT !.gen = gen, !.task = task]
  <2>2. o \in Operation /\ o.kind = op.kind /\ o.key = op.key /\ o.todo = op.todo
    BY <1>o, <2>1 DEF Operation
  <2>3. Working /\ Head(op.todo) \notin {"idle", "clean"} /\ Go(o)  BY <1>1 DEF ReadTask
  <2>4. OpOK' /\ op'.at = "start"
    <3> HIDE DEF o
    <3> QED  BY <1>o, <2>2, <2>3, KindOfWork, GoOn
  <2> QED  BY <1>1, <2>4 DEF ReadTask
<1>2. CASE CheckEligible  BY <1>o, <1>2, AdvanceTypes DEF CheckEligible
<1>3. CASE Aim
  <2>0. Working /\ Head(op.todo) \notin {"idle", "clean"}  BY <1>3 DEF Aim
  <2>1. CASE target.app = NoApp  BY <1>o, <2>0, <1>3, <2>1, AdvanceTypes DEF Aim
  <2>2. CASE target.app # NoApp
    <3>1. target.app \in App  BY <2>2 DEF TypeInv, RestOK, TargetOK
    <3> DEFINE o == [op EXCEPT !.app = target.app, !.key = <<"id", target.app>>]
    <3>2. <<"id", target.app>> \in Key  BY <3>1 DEF Key
    <3>3. o \in Operation /\ o.kind = op.kind /\ o.key \in Key /\ o.todo = op.todo
      BY <1>o, <3>1, <3>2 DEF Operation
    <3>4. Go(o)  BY <1>3, <2>2 DEF Aim
    <3>5. OpOK' /\ op'.at = "start"
      <4> HIDE DEF o
      <4> QED  BY <1>o, <2>0, <3>3, <3>4, GoOn
    <3> QED  BY <1>3, <3>5 DEF Aim
  <2> QED  BY <2>1, <2>2
<1>4. CASE Alias
  <2>0. Working /\ Head(op.todo) \notin {"idle", "clean"}  BY <1>4 DEF Alias
  <2> DEFINE o == [op EXCEPT !.named = TRUE]
  <2>1. op.kind \in Kind /\ op.key \in Key /\ op.todo \in Seq(Steps \ {"idle", "clean"})
    BY <1>o, <2>0, KindOfWork
  <2>2. o \in Operation /\ o.kind = op.kind /\ o.key = op.key /\ o.todo = op.todo
    BY <1>o DEF Operation
  <2>3. Go(o) \/ Instead(<<"windows">>, o)  BY <1>4 DEF Alias
  <2>4. <<"windows">> \in Seq(Steps \ {"idle", "clean"})  BY DEF Steps, Tool
  <2>5. OpOK' /\ op'.at = "start"
    <3> HIDE DEF o
    <3> QED  BY <1>o, <2>0, <2>1, <2>2, <2>3, <2>4, GoOn, InsteadTypes DEF Working
  <2> QED  BY <1>4, <2>5 DEF Alias
<1>5. CASE TaskCheck  BY <1>o, <1>5, AdvanceTypes DEF TaskCheck
<1>6. CASE FullCheck  BY <1>o, <1>6, AdvanceTypes DEF FullCheck
<1>7. ASSUME NEW b \in App, KnownAlias(b)
      PROVE  OpOK' /\ op'.at = "start" /\ UNCHANGED <<session, process, control, target, approval, used>>
  <2>0. Working /\ Head(op.todo) \notin {"idle", "clean"}  BY <1>7 DEF KnownAlias
  <2> DEFINE o == [op EXCEPT !.named = FALSE]
  <2>1. op.key \in Key  BY <1>o, <2>0, KindOfWork
  <2>2. o \in Operation /\ o.kind = op.kind /\ o.key = op.key /\ o.todo = op.todo
    BY <1>o DEF Operation
  <2>3. Go(o)  BY <1>7 DEF KnownAlias
  <2>4. OpOK' /\ op'.at = "start"
    <3> HIDE DEF o
    <3> QED  BY <1>o, <2>0, <2>1, <2>2, <2>3, GoOn
  <2> QED  BY <1>7, <2>4 DEF KnownAlias
<1>8. ASSUME NEW b \in BOOLEAN, Join(b)
      PROVE  OpOK' /\ op'.at = "start" /\ UNCHANGED <<session, process, control, target, approval, used>>
  <2>0. Working /\ Head(op.todo) \notin {"idle", "clean"}  BY <1>8 DEF Join
  <2> DEFINE o == [op EXCEPT !.fresh = TRUE]
             more == <<"task_check", "raise", "task_check", "refresh">>
  <2>1. op.kind \in Kind /\ op.key \in Key /\ op.todo \in Seq(Steps \ {"idle", "clean"})
    BY <1>o, <2>0, KindOfWork
  <2>2. o \in Operation /\ o.kind = op.kind /\ o.key = op.key /\ o.todo = op.todo
    BY <1>o DEF Operation
  <2>3. Advance \/ Instead(more, o)  BY <1>8 DEF Join
  <2>4. more \in Seq(Steps \ {"idle", "clean"})  BY DEF Steps, Tool
  <2>5. OpOK' /\ op'.at = "start"
    <3> HIDE DEF o, more
    <3> QED  BY <1>o, <2>0, <2>1, <2>2, <2>3, <2>4, AdvanceTypes, InsteadTypes DEF Working
  <2> QED  BY <1>8, <2>5 DEF Join
<1>9. ASSUME NEW b \in BOOLEAN, Confirm(b)
      PROVE  OpOK' /\ op'.at = "start" /\ UNCHANGED <<session, process, control, target, approval, used>>
  BY <1>o, <1>9, AdvanceTypes DEF Confirm
<1>10. ASSUME NEW b \in BOOLEAN, Again(b)
       PROVE  OpOK' /\ op'.at = "start" /\ UNCHANGED <<session, process, control, target, approval, used>>
  <2>0. Working /\ Head(op.todo) \notin {"idle", "clean"}  BY <1>10 DEF Again
  <2>1. op.kind \in Kind /\ op.key \in Key /\ op.todo \in Seq(Steps \ {"idle", "clean"})
    BY <1>o, <2>0, KindOfWork
  <2>2. Look \in Seq(Steps \ {"idle", "clean"})  BY DEF Look, Steps, Tool
  <2>3. Finish \/ Instead(Look, op)  BY <1>10 DEF Again
  <2>4. OpOK' /\ op'.at = "start"
    BY <1>o, <2>0, <2>1, <2>2, <2>3, AdvanceTypes, InsteadTypes DEF Working
  <2> QED  BY <1>10, <2>4 DEF Again
<1> QED  BY <1>1, <1>2, <1>3, <1>4, <1>5, <1>6, <1>7, <1>8, <1>9, <1>10

\* The authorization: only approval, auth and givenIn change beside the operation.
LEMMA AuthorizeTypes ==
    ASSUME TypeInv,
           \/ Authorize \/ Answered \/ ApprovalTimeout \/ Recheck \/ Reeligible
           \/ Remember \/ Settle
    PROVE  OpOK' /\ SessionOK' /\ RestOK'
<1> USE DEF On
<1>o. OpOK /\ op \in Operation  BY DEF TypeInv, OpOK
<1>w. /\ Working /\ Head(op.todo) = "authorize"
      /\ op.kind \in Kind /\ op.key \in Key
  <2>1. Working /\ Head(op.todo) = "authorize"
    BY DEF Authorize, Answered, ApprovalTimeout, Recheck, Reeligible, Remember, Settle
  <2> QED  BY <1>o, <2>1, KindOfWork
<1>a. \A at \in At : Within(at) => OpOK'
  BY <1>o, WithinTypes
<1>b. Advance \/ Go(op) \/ Finish => OpOK'
  BY <1>o, <1>w, AdvanceTypes
<1>c. "recheck" \in At /\ "reeligible" \in At /\ "remember" \in At /\ "settle" \in At
      /\ "parked" \in At
  BY DEF At
<1>1. CASE Authorize
  <2> DEFINE e == [Spent EXCEPT !.at = "recheck"]
             f == [Spent EXCEPT !.at = "parked", !.fresh = TRUE]
  <2>1. /\ Spent \in Operation /\ Spent.kind = op.kind /\ Spent.key = op.key
        /\ Spent.todo = op.todo
    BY <1>o DEF Spent, Operation, Permit
  <2>2. /\ e \in Operation /\ e.kind = op.kind /\ e.key = op.key /\ e.todo = op.todo
        /\ f \in Operation /\ f.kind = op.kind /\ f.key = op.key /\ f.todo = op.todo
    BY <2>1, <1>c DEF Operation
  <2>3. op' = e => OpOK'  BY <1>o, <1>w, <2>2 DEF OpOK, PlanOK
  <2>4. op' = f => OpOK'  BY <1>o, <1>w, <2>2 DEF OpOK, PlanOK
  <2>5. Go(Spent) => OpOK'  BY <1>o, <1>w, <2>1, GoOn
  <2>6. Finish \/ op' = e \/ op' = f \/ Go(Spent)  BY <1>1 DEF Authorize
  <2>7. OpOK'
    <3> HIDE DEF e, f
    <3> QED  BY <1>b, <2>3, <2>4, <2>5, <2>6
  <2> QED  BY <1>1, <2>7 DEF Authorize, TypeInv, SessionOK, RestOK, TargetOK, session
<1>2. CASE Answered
  BY <1>2, <1>a, <1>b, <1>c DEF Answered, TypeInv, SessionOK, RestOK, TargetOK, session
<1>3. CASE ApprovalTimeout
  BY <1>3, <1>b DEF ApprovalTimeout, TypeInv, SessionOK, RestOK, TargetOK, session
<1>4. CASE Recheck
  BY <1>4, <1>a, <1>b, <1>c DEF Recheck, TypeInv, SessionOK, RestOK, TargetOK, session
<1>5. CASE Reeligible
  BY <1>5, <1>a, <1>b, <1>c DEF Reeligible, TypeInv, SessionOK, RestOK, TargetOK, session
<1>6. CASE Remember
  <2>1. op.task \in Nat  BY <1>o DEF Operation
  <2>2. OpOK'  BY <1>6, <1>a, <1>c DEF Remember
  <2>3. SessionOK'  BY <1>6, <2>1, <1>w DEF Remember, TypeInv, SessionOK
  <2> QED  BY <1>6, <2>2, <2>3 DEF Remember, TypeInv, RestOK, TargetOK
<1>7. CASE Settle
  BY <1>7, <1>b DEF Settle, TypeInv, SessionOK, RestOK, TargetOK
<1> QED  BY <1>1, <1>2, <1>3, <1>4, <1>5, <1>6, <1>7

\* The steps that write the target, and those of open_app.
LEMMA TargetStepTypes ==
    ASSUME TypeInv,
           Store \/ Verify \/ Select \/ Keep \/ (\E b \in App : Identify(b))
    PROVE  OpOK' /\ SessionOK' /\ RestOK'
<1> USE DEF On
<1>o. OpOK /\ op \in Operation  BY DEF TypeInv, OpOK
<1>w. /\ Working /\ Head(op.todo) \notin {"idle", "clean"}
      /\ op.kind \in Kind /\ op.key \in Key /\ op.todo \in Seq(Steps \ {"idle", "clean"})
  <2>1. Working /\ Head(op.todo) \notin {"idle", "clean"}
    BY DEF Store, Verify, Select, Keep, Identify
  <2> QED  BY <1>o, <2>1, KindOfWork
<1>b. Advance \/ Go(op) \/ Finish => OpOK'
  BY <1>o, <1>w, AdvanceTypes
<1>t. /\ op.app \in App \cup {NoApp} /\ op.epoch \in Nat
      /\ Rest.target \in [app : App \cup {NoApp}, captured : BOOLEAN, epoch : Nat]
  BY <1>o DEF Operation, Rest
<1>1. CASE Store \/ Verify \/ Select
  <2>1. OpOK'  BY <1>1, <1>b DEF Store, Verify, Select
  <2>2. SessionOK'  BY <1>1 DEF Store, Verify, Select, TypeInv, SessionOK, session
  <2>3. \/ target' = target \/ target' = Rest.target
        \/ \E c \in BOOLEAN : target' = [app |-> op.app, captured |-> c, epoch |-> op.epoch]
    BY <1>1 DEF Store, Verify, Select
  <2>4. TargetOK'  BY <2>3, <1>t DEF TypeInv, RestOK, TargetOK
  <2> QED  BY <1>1, <2>1, <2>2, <2>4 DEF Store, Verify, Select, TypeInv, RestOK
<1>2. CASE Keep
  BY <1>2, <1>b DEF Keep, TypeInv, SessionOK, RestOK, TargetOK
<1>3. ASSUME NEW b \in App, Identify(b) PROVE OpOK' /\ SessionOK' /\ RestOK'
  <2> DEFINE o == [op EXCEPT !.app = b, !.key = <<"id", b>>]
  <2>1. <<"id", b>> \in Key  BY DEF Key
  <2>2. o \in Operation /\ o.kind = op.kind /\ o.key \in Key /\ o.todo = op.todo
    BY <1>o, <2>1 DEF Operation
  <2>3. Go(o) \/ Instead(<<"authorize">>, o)  BY <1>3 DEF Identify
  <2>4. <<"authorize">> \in Seq(Steps \ {"idle", "clean"})  BY DEF Steps
  <2>5. OpOK'
    <3> HIDE DEF o
    <3> QED  BY <1>o, <1>w, <2>2, <2>3, <2>4, GoOn, InsteadTypes DEF Working
  <2>6. op.task \in Nat  BY <1>o DEF Operation
  <2>7. auth' \in {auth, auth \cup {<<"id", b>>}}
        /\ givenIn' \in {givenIn, [givenIn EXCEPT ![<<"id", b>>] = op.task]}
    BY <1>3 DEF Identify
  <2>8. SessionOK'
    BY <1>3, <2>1, <2>6, <2>7 DEF Identify, TypeInv, SessionOK
  <2> QED  BY <1>3, <2>5, <2>8 DEF Identify, TypeInv, RestOK, TargetOK
<1> QED  BY <1>1, <1>2, <1>3

\* What a step leaves alone keeps its type.
LEMMA SameSession == ASSUME SessionOK, UNCHANGED session PROVE SessionOK'
  BY DEF SessionOK, session
\* What leaves the driver processes alone keeps their types.
LEMMA SameProcess == ASSUME ProcessOK, UNCHANGED process PROVE ProcessOK'
  BY DEF ProcessOK, ApartOK, process, apart
\* What leaves fewer processes, and no new name for one, keeps their types.
LEMMA LessProcess ==
    ASSUME ProcessOK, live' \subseteq live, UNCHANGED <<starts, born, apart>>,
           lock' \in {lock, "free", "op", "warm", "worker"}, driver' \in Nat, pid' \in Nat
    PROVE  ProcessOK'
  BY DEF ProcessOK, ApartOK, apart
\* What leaves target, approval and allowance alone keeps their types.
LEMMA SameRest == ASSUME RestOK, UNCHANGED <<target, approval, used>> PROVE RestOK'
  BY DEF RestOK, TargetOK
\* What leaves the controls alone keeps their types.
LEMMA SameControl == ASSUME ControlOK, UNCHANGED control PROVE ControlOK'
  BY DEF ControlOK, ReadyOK, WarmOK, WorkersOK, BeginOK, control, past

\* Processes: what a start, successful or not, leaves typed.
LEMMA LaunchTypes ==
    ASSUME ProcessOK, NEW e \in Nat, Launch(e)
    PROVE  /\ starts' \in 0..MaxStarts /\ live' \subseteq 1..starts' /\ starts' \in 1..starts'
           /\ born' \in [1..MaxStarts -> Nat] /\ starts' = starts + 1
  BY ConstAssumption DEF ProcessOK, Launch

\* What starts no process of its own keeps the types of those apart.
LEMMA ApartTypes ==
    ASSUME ProcessOK, UNCHANGED apart, starts' \in Nat, starts <= starts'
    PROVE  ApartOK'
  BY DEF ProcessOK, ApartOK, apart

\* A failed start, and what it may have left.
LEMMA FailTypes ==
    ASSUME ProcessOK, LaunchFails
    PROVE  /\ starts' \in 0..MaxStarts /\ live' \subseteq 1..starts' /\ starts <= starts'
           /\ born' \in [1..MaxStarts -> Nat] /\ stray' \subseteq 1..starts'
<1>1. CASE Launch(0) /\ stray' = stray \cup {starts + 1}
  <2>1. stray \subseteq 1..starts /\ starts \in Nat  BY DEF ProcessOK, ApartOK
  <2> QED  BY <1>1, <2>1, LaunchTypes
<1>2. CASE UNCHANGED <<starts, live, born, stray>>
  BY <1>2 DEF ProcessOK, ApartOK
<1> QED  BY <1>1, <1>2 DEF LaunchFails

\* A call of the driver touches the operation and the processes.
LEMMA CallTypes ==
    ASSUME TypeInv,
           \/ CallCheck \/ CallLock \/ CallSpawn \/ CallSpawnFails \/ CallSend
           \/ CallReturns \/ CallFails
    PROVE  OpOK' /\ ProcessOK' /\ UNCHANGED <<session, control, target, approval, used>>
<1> USE DEF OnTool
<1>o. OpOK /\ op \in Operation /\ ProcessOK  BY DEF TypeInv, OpOK
<1>w. Working /\ Head(op.todo) \notin {"idle", "clean"}
  BY DEF CallCheck, CallLock, CallSpawn, CallSpawnFails, CallSend, CallReturns, CallFails, Tool
<1>a. \A at \in At : Within(at) => OpOK'
  BY <1>o, WithinTypes
<1>b. Advance \/ Go(op) \/ Finish => OpOK'
  BY <1>o, <1>w, AdvanceTypes
<1>c. "wait" \in At /\ "spawn" \in At /\ "send" \in At /\ "call" \in At
  BY DEF At
<1>q. UNCHANGED <<apart, starts>> => ApartOK'
  <2>1. starts \in Nat  BY <1>o DEF ProcessOK
  <2> QED  BY <1>o, <2>1, ApartTypes
<1>1. CASE CallCheck
  BY <1>o, <1>1, <1>a, <1>b, <1>c, SameProcess DEF CallCheck
<1>2. CASE CallLock
  <2>1. OpOK'  BY <1>2, <1>a, <1>b, <1>c DEF CallLock
  <2> QED  BY <1>o, <1>q, <1>2, <2>1 DEF CallLock, ProcessOK
<1>3. CASE CallSpawn
  <2>1. op.epoch \in Nat  BY <1>o DEF Operation
  <2>2. OpOK'  BY <1>3, <1>a, <1>c DEF CallSpawn
  <2>4. ApartOK'
    <3>1. UNCHANGED apart  BY <1>3 DEF CallSpawn
    <3>2. starts' = starts + 1 /\ starts \in Nat
      BY <1>o, <1>3, <2>1, LaunchTypes DEF CallSpawn, ProcessOK
    <3> QED  BY <1>o, <3>1, <3>2, ApartTypes
  <2>3. ProcessOK'  BY <1>o, <1>3, <2>1, <2>4, LaunchTypes DEF CallSpawn, ProcessOK
  <2> QED  BY <1>3, <2>2, <2>3 DEF CallSpawn
<1>4. CASE CallSpawnFails
  <2>1. ApartOK'
    <3>1. flight' = flight  BY <1>4 DEF CallSpawnFails
    <3> QED  BY <1>o, <1>4, <3>1, FailTypes DEF CallSpawnFails, ProcessOK, ApartOK
  <2>2. ProcessOK'  BY <1>o, <1>4, <2>1, FailTypes DEF CallSpawnFails, ProcessOK
  <2> QED  BY <1>4, <1>b, <2>2 DEF CallSpawnFails
<1>5. CASE CallSend
  BY <1>o, <1>q, <1>5, <1>a, <1>b, <1>c DEF CallSend, ProcessOK
<1>6. CASE CallReturns
  BY <1>o, <1>q, <1>6, <1>b DEF CallReturns, ProcessOK
<1>7. CASE CallFails
  BY <1>o, <1>q, <1>7, <1>b DEF CallFails, ProcessOK
<1> QED  BY <1>1, <1>2, <1>3, <1>4, <1>5, <1>6, <1>7

\* The prewarm task.
LEMMA WarmTypes ==
    ASSUME TypeInv, WarmTask
    PROVE  ProcessOK' /\ ControlOK' /\ UNCHANGED <<session, target, approval, op, used>>
<1>o. ProcessOK /\ ControlOK /\ warm.epoch \in Nat  BY DEF TypeInv, ControlOK, WarmOK
<1>r. /\ Rest.warm \in [step : {"off", "lock", "verify", "start", "install"}, epoch : Nat,
                        proc : Nat]
      /\ starts \in Nat
  BY <1>o DEF Rest, ProcessOK
<1>c. /\ UNCHANGED <<grant, ready, epoch, worker, begin, ending, past>>
      /\ UNCHANGED <<session, target, approval, op, used>>
  BY DEF WarmTask, WarmLock, WarmVerified, WarmStarted, WarmFails, WarmInstall
<1>1. WarmOK'
  <2>2. WarmStarted => starts' \in Nat
    BY <1>o, <1>r DEF WarmStarted, Launch
  <2>3. CASE WarmStarted
    BY <1>o, <2>2, <2>3 DEF WarmStarted, ControlOK, WarmOK
  <2>4. CASE ~WarmStarted
    <3>1. \/ warm' = Rest.warm \/ warm' = [warm EXCEPT !.step = "verify"]
          \/ warm' = [warm EXCEPT !.step = "start"]
      BY <2>4 DEF WarmTask, WarmLock, WarmVerified, WarmFails, WarmInstall, WarmEnds
    <3> QED  BY <1>o, <1>r, <3>1 DEF ControlOK, WarmOK
  <2> QED  BY <2>3, <2>4
<1>2. ControlOK'
  BY <1>o, <1>c, <1>1 DEF ControlOK, ReadyOK, WorkersOK, BeginOK, past
<1>q. UNCHANGED <<apart, starts>> => ApartOK'
  BY <1>o, <1>r, ApartTypes
<1>3. ProcessOK'
  <2>1. CASE WarmLock \/ WarmVerified
    BY <1>o, <1>q, <2>1 DEF WarmLock, WarmVerified, ProcessOK
  <2>2. CASE WarmStarted
    <3>1. UNCHANGED apart /\ starts' = starts + 1
      BY <1>o, <2>2, LaunchTypes DEF WarmStarted
    <3>2. ApartOK'  BY <1>o, <1>r, <3>1, ApartTypes
    <3> QED  BY <1>o, <2>2, <3>2, LaunchTypes DEF WarmStarted, ProcessOK
  <2>3. CASE WarmInstall
    <3>1. /\ driver' \in {driver, warm.proc} /\ pid' \in {pid, warm.proc} /\ live' \subseteq live
          /\ lock' = "free" /\ starts' = starts /\ born' = born /\ UNCHANGED apart
      BY <2>3 DEF WarmInstall
    <3>2. warm.proc \in Nat  BY <1>o DEF ControlOK, WarmOK
    <3> QED  BY <1>o, <1>q, <3>1, <3>2 DEF ProcessOK
  <2>4. CASE WarmFails
    <3>1. /\ \/ LaunchFails
             \/ UNCHANGED <<starts, live, born, stray>>
          /\ lock' = "free" /\ UNCHANGED <<driver, pid, flight>>
      BY <2>4 DEF WarmFails
    <3>2. LaunchFails  BY <3>1 DEF LaunchFails
    <3>3. ApartOK'  BY <1>o, <3>1, <3>2, FailTypes DEF ProcessOK, ApartOK
    <3> QED  BY <1>o, <3>1, <3>2, <3>3, FailTypes DEF ProcessOK
  <2> QED  BY <2>1, <2>2, <2>3, <2>4 DEF WarmTask
<1> QED  BY <1>c, <1>2, <1>3

\* A command at rest is typed.
LEMMA RestErrand == Rest.worker \in Errand
  BY DEF Rest, Errand, WorkerStates

\* A command takes its next step.
LEMMA MoveTypes ==
    ASSUME WorkersOK, NEW w \in Worker,
           \/ \E step \in WorkerStates : worker' = [worker EXCEPT ![w].step = step]
           \/ \E step \in WorkerStates, n \in Nat :
                  \/ worker' = [worker EXCEPT ![w].step = step, ![w].took = n]
                  \/ worker' = [worker EXCEPT ![w].step = step, ![w].epoch = n]
           \/ \E step \in WorkerStates, job \in Job :
                  worker' = [worker EXCEPT ![w].job = job, ![w].step = step]
           \/ worker' = [worker EXCEPT ![w] = Rest.worker]
    PROVE  WorkersOK'
<1>1. Rest.worker \in Errand  BY RestErrand
<1>2. \A x \in Errand : [worker EXCEPT ![w] = x] \in [Worker -> Errand]
  BY DEF WorkersOK
<1>3. worker[w] \in Errand
  BY DEF WorkersOK
<1>4. CASE worker' = [worker EXCEPT ![w] = Rest.worker]
  BY <1>1, <1>2, <1>4 DEF WorkersOK
<1>5. ASSUME NEW step \in WorkerStates, worker' = [worker EXCEPT ![w].step = step]
      PROVE  WorkersOK'
  <2>1. [worker[w] EXCEPT !.step = step] \in Errand  BY <1>3 DEF Errand
  <2> QED  BY <1>2, <1>5, <2>1 DEF WorkersOK
<1>6. ASSUME NEW step \in WorkerStates, NEW n \in Nat,
             worker' = [worker EXCEPT ![w].step = step, ![w].took = n]
      PROVE  WorkersOK'
  <2>1. [worker[w] EXCEPT !.step = step, !.took = n] \in Errand  BY <1>3 DEF Errand
  <2>2. worker' = [worker EXCEPT ![w] = [worker[w] EXCEPT !.step = step, !.took = n]]
    BY <1>6 DEF WorkersOK
  <2> QED  BY <1>2, <2>1, <2>2 DEF WorkersOK
<1>7. ASSUME NEW step \in WorkerStates, NEW n \in Nat,
             worker' = [worker EXCEPT ![w].step = step, ![w].epoch = n]
      PROVE  WorkersOK'
  <2>1. [worker[w] EXCEPT !.step = step, !.epoch = n] \in Errand  BY <1>3 DEF Errand
  <2>2. worker' = [worker EXCEPT ![w] = [worker[w] EXCEPT !.step = step, !.epoch = n]]
    BY <1>7 DEF WorkersOK
  <2> QED  BY <1>2, <2>1, <2>2 DEF WorkersOK
<1>8. ASSUME NEW step \in WorkerStates, NEW job \in Job,
             worker' = [worker EXCEPT ![w].job = job, ![w].step = step]
      PROVE  WorkersOK'
  <2>1. [worker[w] EXCEPT !.job = job, !.step = step] \in Errand  BY <1>3 DEF Errand
  <2>2. worker' = [worker EXCEPT ![w] = [worker[w] EXCEPT !.job = job, !.step = step]]
    BY <1>8 DEF WorkersOK
  <2> QED  BY <1>2, <2>1, <2>2 DEF WorkersOK
<1> QED  BY <1>4, <1>5, <1>6, <1>7, <1>8, Zenon

\* It notes what its probe has found, or that the user is to be asked.
LEMMA FlagTypes ==
    ASSUME WorkersOK, NEW w \in Worker, NEW step \in WorkerStates, NEW b \in BOOLEAN,
           \/ worker' = [worker EXCEPT ![w].step = step, ![w].ok = b]
           \/ worker' = [worker EXCEPT ![w].step = step, ![w].prompt = b]
    PROVE  WorkersOK'
<1>1. worker[w] \in Errand /\ \A x \in Errand : [worker EXCEPT ![w] = x] \in [Worker -> Errand]
  BY DEF WorkersOK
<1>2. CASE worker' = [worker EXCEPT ![w].step = step, ![w].ok = b]
  <2>1. [worker[w] EXCEPT !.step = step, !.ok = b] \in Errand  BY <1>1 DEF Errand
  <2>2. worker' = [worker EXCEPT ![w] = [worker[w] EXCEPT !.step = step, !.ok = b]]
    BY <1>2 DEF WorkersOK
  <2> QED  BY <1>1, <2>1, <2>2 DEF WorkersOK
<1>3. CASE worker' = [worker EXCEPT ![w].step = step, ![w].prompt = b]
  <2>1. [worker[w] EXCEPT !.step = step, !.prompt = b] \in Errand  BY <1>1 DEF Errand
  <2>2. worker' = [worker EXCEPT ![w] = [worker[w] EXCEPT !.step = step, !.prompt = b]]
    BY <1>3 DEF WorkersOK
  <2> QED  BY <1>1, <2>1, <2>2 DEF WorkersOK
<1> QED  BY <1>2, <1>3

\* A command moves on, or is done.
LEMMA StepTypes ==
    ASSUME WorkersOK, NEW w \in Worker, NEW step \in WorkerStates
    PROVE  /\ worker' = [worker EXCEPT ![w].step = step] => WorkersOK'
           /\ worker' = [worker EXCEPT ![w] = Rest.worker] => WorkersOK'
           /\ \A n \in Nat :
                  worker' = [worker EXCEPT ![w].step = step, ![w].took = n] => WorkersOK'
BY MoveTypes, Zenon

\* A command changes the grant, the epoch, the driver, the target or what is
\* published, never the operation.
LEMMA WorkerTypes ==
    ASSUME TypeInv, NEW w \in Worker,
           WorkerStep(w) \/ (\E job \in Job : Command(w, job))
    PROVE  SessionOK' /\ ProcessOK' /\ ControlOK' /\ RestOK' /\ op' = op
<1> USE DEF Move, Done, At_, past
<1>o. /\ SessionOK /\ ProcessOK /\ ControlOK /\ RestOK /\ WorkersOK
      /\ driver \in Nat /\ pid \in Nat /\ epoch \in Nat
  BY DEF TypeInv, ControlOK, ProcessOK
<1>t. TargetOK /\ Rest.target \in [app : App \cup {NoApp}, captured : BOOLEAN, epoch : Nat]
  BY <1>o DEF RestOK, Rest
<1>1. ASSUME NEW job \in Job, Command(w, job)
      PROVE  SessionOK' /\ ProcessOK' /\ ControlOK' /\ RestOK' /\ op' = op
  <2>1. \E step \in WorkerStates :
            worker' = [worker EXCEPT ![w].job = job, ![w].step = step]
    BY <1>1 DEF Command, WorkerStates
  <2>2. WorkersOK'  BY <1>o, <2>1, MoveTypes
  <2>3. ControlOK'
    <3>1. asked' \in Nat  BY <1>o, <1>1 DEF Command, ControlOK
    <3>3. grant' \in BOOLEAN  BY <1>o, <1>1, Zenon DEF Command, ControlOK
    <3>2. UNCHANGED <<ready, epoch, warm, begin, ending, left>>  BY <1>1 DEF Command
    <3> QED  BY <1>o, <2>2, <3>1, <3>2, <3>3 DEF ControlOK, ReadyOK, WarmOK, BeginOK
  <2> QED  BY <1>o, <1>1, <2>3, SameSession, SameProcess, SameRest DEF Command
<1>2. CASE StopEnter(w) \/ StopClear(w) \/ StopBump(w) \/ StopDrain(w)
  <2>1. WorkersOK'
    <3>1. PICK step \in {"clear", "bump", "drain", "kill"} :
              worker' = [worker EXCEPT ![w].step = step]
      BY <1>2 DEF StopEnter, StopClear, StopBump, StopDrain
    <3>2. step \in WorkerStates  BY <3>1 DEF WorkerStates
    <3> QED  BY <1>o, <3>1, <3>2, StepTypes, Zenon
  <2>2. ControlOK'
    BY <1>o, <1>2, <2>1
       DEF StopEnter, StopClear, StopBump, StopDrain, ControlOK, ReadyOK, WarmOK, BeginOK
  <2>3. SessionOK' /\ ProcessOK'
    <3>1. UNCHANGED process /\ (UNCHANGED session \/ StopClear(w))
      BY <1>2 DEF StopEnter, StopClear, StopBump, StopDrain
    <3>2. CASE StopClear(w)  BY <1>o, <3>2, SameProcess DEF StopClear, SessionOK
    <3> QED  BY <1>o, <3>1, <3>2, SameSession, SameProcess
           DEF StopEnter, StopBump, StopDrain
  <2>4. RestOK'
    <3>1. UNCHANGED <<target, used>> /\ approval' \in {approval, "denied"}
      BY <1>2 DEF StopEnter, StopClear, StopBump, StopDrain
    <3> QED  BY <1>o, <3>1 DEF RestOK, TargetOK
  <2>5. op' = op  BY <1>2 DEF StopEnter, StopClear, StopBump, StopDrain
  <2> QED  BY <2>2, <2>3, <2>4, <2>5, ZenonT(60)
<1>3. CASE StopKill(w) \/ StopStopped(w) \/ QuitGivesUp(w)
  <2>1. WorkersOK'
    <3>1. PICK step \in {"take", "forget"} : worker' = [worker EXCEPT ![w].step = step]
      BY <1>3 DEF StopKill, StopStopped, QuitGivesUp
    <3>2. step \in WorkerStates  BY <3>1 DEF WorkerStates
    <3> QED  BY <1>o, <3>1, <3>2, StepTypes, Zenon
  <2>2. ControlOK'
    BY <1>o, <1>3, <2>1
       DEF StopKill, StopStopped, QuitGivesUp, ControlOK, ReadyOK, WarmOK, BeginOK
  <2>3. SessionOK' /\ RestOK'
    BY <1>o, <1>3, SameSession, SameRest DEF StopKill, StopStopped, QuitGivesUp
  <2>4. ProcessOK'
    <3>1. /\ live' \subseteq live /\ lock' \in {lock, "free"} /\ pid' \in {pid, 0}
          /\ UNCHANGED <<driver, starts, born, apart>>
      BY <1>3 DEF StopKill, StopStopped, QuitGivesUp, process
    <3> QED  BY <1>o, <3>1, LessProcess
  <2> QED  BY <1>3, <2>2, <2>3, <2>4, ZenonT(60) DEF StopKill, StopStopped, QuitGivesUp
<1>4. CASE StopTake(w)
  <2>1. \/ worker' = [worker EXCEPT ![w].step = "forget"]
        \/ worker' = [worker EXCEPT ![w].step = "stopping", ![w].took = driver]
    BY <1>4 DEF StopTake
  <2>2. WorkersOK'
    <3>1. "forget" \in WorkerStates /\ "stopping" \in WorkerStates  BY DEF WorkerStates
    <3>2. driver \in Nat  BY <1>o
    <3> QED  BY <1>o, <2>1, <3>1, <3>2, StepTypes, Zenon
  <2>3. ControlOK'  BY <1>o, <1>4, <2>2 DEF StopTake, ControlOK, ReadyOK, WarmOK, BeginOK
  <2>4. ProcessOK'
    <3>1. /\ live' = live /\ lock' \in {lock, "worker"} /\ driver' \in {driver, 0}
          /\ UNCHANGED <<pid, starts, born, apart>>
      BY <1>4 DEF StopTake
    <3> QED  BY <1>o, <3>1, LessProcess
  <2> QED  BY <1>o, <1>4, <2>3, <2>4, SameSession, SameRest DEF StopTake
<1>5. CASE StopForget(w)
  <2>1. WorkersOK'
    <3>1. "leave" \in WorkerStates  BY DEF WorkerStates
    <3> QED  BY <1>o, <1>5, <3>1, StepTypes, Zenon DEF StopForget
  <2>2. ControlOK'  BY <1>o, <1>5, <2>1 DEF StopForget, ControlOK, ReadyOK, WarmOK, BeginOK
  <2>3. SessionOK'  BY <1>o, <1>5 DEF StopForget, SessionOK
  <2>4. RestOK'  BY <1>o, <1>t, <1>5 DEF StopForget, RestOK, TargetOK
  <2> QED  BY <1>o, <1>5, <2>2, <2>3, <2>4, SameProcess DEF StopForget
<1>6. CASE StopLeave(w) \/ ReplaceReady(w)
  <2>1. WorkersOK'
    <3>1. \/ worker' = [worker EXCEPT ![w].step = "replace"]
          \/ worker' = [worker EXCEPT ![w].step = "probe"]
          \/ worker' = [worker EXCEPT ![w].step = "prompt"]
          \/ worker' = [worker EXCEPT ![w] = Rest.worker]
      BY <1>6 DEF StopLeave, ReplaceReady
    <3>2. {"replace", "probe", "prompt"} \subseteq WorkerStates  BY DEF WorkerStates
    <3> QED  BY <1>o, <3>1, <3>2, StepTypes, Zenon
  <2>2. ReadyOK'
    <3>1. ready' = ready \/ ready' = [is |-> FALSE, epoch |-> epoch]
      BY <1>6 DEF StopLeave, ReplaceReady
    <3>2. [is |-> FALSE, epoch |-> epoch] \in [is : BOOLEAN, epoch : Nat]  BY <1>o
    <3> QED  BY <1>o, <3>1, <3>2 DEF ControlOK, ReadyOK
  <2>3. ControlOK'
    BY <1>o, <1>6, <2>1, <2>2 DEF StopLeave, ReplaceReady, ControlOK, WarmOK, BeginOK
  <2> QED  BY <1>o, <1>6, <2>3, SameSession, SameProcess, SameRest DEF StopLeave, ReplaceReady
<1>7. CASE ProbeStart(w) \/ (\E open \in BOOLEAN : ProbeRead(w, open) \/ ProbePrompt(w, open))
  <2>1. WorkersOK'
    <3>1. CASE ProbeStart(w)
      BY <1>o, <3>1, MoveTypes, Zenon DEF ProbeStart, WorkerStates
    <3>2. ASSUME NEW open \in BOOLEAN, ProbeRead(w, open) PROVE WorkersOK'
      <4> DEFINE step == IF open /\ grant THEN "ask" ELSE "publish"
                 ok == open /\ grant
      <4>1. step \in WorkerStates /\ ok \in BOOLEAN  BY DEF WorkerStates
      <4>2. worker' = [worker EXCEPT ![w].step = step, ![w].ok = ok]  BY <3>2 DEF ProbeRead
      <4> HIDE DEF step, ok
      <4> QED  BY <1>o, <4>1, <4>2, FlagTypes, Zenon
    <3>3. ASSUME NEW open \in BOOLEAN, ProbePrompt(w, open) PROVE WorkersOK'
      <4>1. \/ worker' = [worker EXCEPT ![w].step = "ask", ![w].prompt = TRUE]
            \/ worker' = [worker EXCEPT ![w] = Rest.worker]
        BY <3>3 DEF ProbePrompt
      <4>2. "ask" \in WorkerStates /\ TRUE \in BOOLEAN  BY DEF WorkerStates
      <4> QED  BY <1>o, <4>1, <4>2, StepTypes, FlagTypes, Zenon
    <3> QED  BY <1>7, <3>1, <3>2, <3>3, Zenon
  <2>2. UNCHANGED <<grant, ready, epoch, warm, begin, ending, past>>
    BY <1>7 DEF ProbeStart, ProbeRead, ProbePrompt
  <2>3. ControlOK'  BY <1>o, <2>1, <2>2 DEF ControlOK, ReadyOK, WarmOK, BeginOK
  <2>4. UNCHANGED <<session, process, target, approval, op, used>>
    BY <1>7 DEF ProbeStart, ProbeRead, ProbePrompt
  <2> QED  BY <1>o, <2>3, <2>4, SameSession, SameProcess, SameRest
<1>8. ASSUME NEW sees \in BOOLEAN, ProbePublish(w, sees)
      PROVE  SessionOK' /\ ProcessOK' /\ ControlOK' /\ RestOK' /\ op' = op
  <2> DEFINE ok == worker[w].ok /\ sees
  <2>1. WorkersOK'
    <3>1. \/ worker' = [worker EXCEPT ![w].step = "enter"]
          \/ worker' = [worker EXCEPT ![w] = Rest.worker]
      BY <1>8 DEF ProbePublish
    <3>2. "enter" \in WorkerStates  BY DEF WorkerStates
    <3> QED  BY <1>o, <3>1, <3>2, StepTypes, Zenon
  <2>2. ReadyOK'
    <3>1. ok \in BOOLEAN  BY <1>o DEF WorkersOK, Errand
    <3>2. ready' = ready \/ ready' = [is |-> ok, epoch |-> epoch]
      BY <1>8 DEF ProbePublish
    <3> HIDE DEF ok
    <3> QED  BY <1>o, <3>1, <3>2 DEF ControlOK, ReadyOK
  <2>3. WarmOK'
    <3>1. warm' = warm \/ warm' = [step |-> "lock", epoch |-> epoch, proc |-> 0]
      BY <1>8 DEF ProbePublish, Schedule
    <3> QED  BY <1>o, <3>1 DEF ControlOK, WarmOK
  <2>4. UNCHANGED <<grant, epoch, begin, ending, past>>  BY <1>8 DEF ProbePublish
  <2>5. ControlOK'  BY <1>o, <2>1, <2>2, <2>3, <2>4 DEF ControlOK, BeginOK
  <2> QED  BY <1>o, <1>8, <2>5, SameSession, SameProcess, SameRest DEF ProbePublish
<1>9. CASE ProbeAsk(w)
  <2>1. WorkersOK'
    <3>1. "await" \in WorkerStates  BY DEF WorkerStates
    <3> QED  BY <1>o, <1>9, <3>1, StepTypes, Zenon DEF ProbeAsk
  <2>2. UNCHANGED <<grant, ready, epoch, warm, begin, ending, past>>  BY <1>9 DEF ProbeAsk
  <2>3. ControlOK'  BY <1>o, <2>1, <2>2 DEF ControlOK, ReadyOK, WarmOK, BeginOK
  <2>4. ProcessOK'
    <3> DEFINE p == IF worker[w].prompt THEN "first" ELSE "no"
               F == [step : {"off", "start", "check"}, prompt : {"no", "first", "last"}, proc : Nat]
    <3>1. /\ UNCHANGED <<lock, driver, pid, starts, live, stray, born>>
          /\ flight' = flight \/ flight' = [Rest.flight EXCEPT !.step = "start", !.prompt = p]
      BY <1>9 DEF ProbeAsk
    <3>f. Rest.flight \in F  BY DEF Rest
    <3>p. p \in {"no", "first", "last"}  OBVIOUS
    <3>2. flight' \in F
      <4> HIDE DEF p
      <4> QED  BY <1>o, <3>1, <3>f, <3>p DEF ProcessOK, ApartOK
    <3> QED  BY <1>o, <3>1, <3>2 DEF ProcessOK, ApartOK
  <2>5. UNCHANGED session /\ UNCHANGED <<target, approval, used>> /\ op' = op
    BY <1>9 DEF ProbeAsk
  <2>6. SessionOK' /\ RestOK'  BY <1>o, <2>5, SameSession, SameRest
  <2> QED  BY <2>3, <2>4, <2>5, <2>6
<1> QED  BY <1>1, <1>2, <1>3, <1>4, <1>5, <1>6, <1>7, <1>8, <1>9 DEF WorkerStep

\* What waits for the permission probe learns its result.
LEMMA ToldTypes ==
    ASSUME WorkersOK, NEW result, Land(result)
    PROVE  WorkersOK'
<1>1. Rest.worker \in Errand  BY RestErrand
<1>2. ASSUME NEW e \in Errand PROVE Told(e, result) \in Errand
  <2>1. {"publish", "ask", "probe"} \subseteq WorkerStates  BY DEF WorkerStates
  <2>2. [e EXCEPT !.step = "publish", !.ok = e.ok /\ result = "granted"] \in Errand
    <3> DEFINE b == e.ok /\ result = "granted"
    <3>1. b \in BOOLEAN  BY DEF Errand
    <3> HIDE DEF b
    <3>2. [e EXCEPT !.step = "publish", !.ok = b] \in Errand  BY <2>1, <3>1 DEF Errand
    <3> QED  BY <3>2 DEF b
  <2>3. [e EXCEPT !.step = "ask"] \in Errand  BY <2>1 DEF Errand
  <2>4. [e EXCEPT !.step = "probe", !.prompt = FALSE] \in Errand  BY <2>1 DEF Errand
  <2> QED  BY <1>1, <2>2, <2>3, <2>4 DEF Told
<1>3. \A w \in Worker : worker[w] \in Errand  BY DEF WorkersOK
<1> QED  BY <1>2, <1>3 DEF Land, WorkersOK

\* The permission probe, and the end of what a failed start left.
LEMMA FlightTypes ==
    ASSUME TypeInv, FlightStep \/ \E p \in stray : StrayEnds(p)
    PROVE  /\ ProcessOK' /\ ControlOK'
           /\ UNCHANGED <<session, target, approval, op, used>>
           /\ UNCHANGED <<grant, ready, epoch, warm, begin, ending, past>>
<1>o. ProcessOK /\ ControlOK /\ WorkersOK  BY DEF TypeInv, ControlOK
<1>f. Rest.flight \in [step : {"off", "start", "check"}, prompt : {"no", "first", "last"}, proc : Nat]
  BY DEF Rest
<1>1. UNCHANGED <<session, target, approval, op, used, grant, ready, epoch, warm, begin, ending, past>>
  BY DEF FlightStep, FlightStarts, FlightFails, FlightReads, StrayEnds, control
<1>2. WorkersOK'
  <2>1. UNCHANGED worker \/ \E result : Land(result)
    BY DEF FlightStep, FlightStarts, FlightFails, FlightReads, StrayEnds, control
  <2> QED  BY <1>o, <2>1, ToldTypes DEF WorkersOK
<1>3. ControlOK'  BY <1>o, <1>1, <1>2 DEF ControlOK, ReadyOK, WarmOK, BeginOK, past
<1>4. CASE FlightStarts
  <2>1. UNCHANGED <<lock, driver, pid, stray>> /\ Launch(0)  BY <1>4 DEF FlightStarts
  <2>2. 0 \in Nat  OBVIOUS
  <2>3. starts' \in Nat /\ starts <= starts'  BY <1>o, <2>1, <2>2, LaunchTypes DEF ProcessOK
  <2>4. flight' \in [step : {"off", "start", "check"}, prompt : {"no", "first", "last"}, proc : Nat]
    BY <1>o, <1>4, <2>3 DEF FlightStarts, ProcessOK, ApartOK
  <2>5. stray' \subseteq 1..starts'  BY <1>o, <2>1, <2>3 DEF ProcessOK, ApartOK
  <2>6. ProcessOK'  BY <1>o, <2>1, <2>2, <2>4, <2>5, LaunchTypes DEF ProcessOK, ApartOK
  <2> QED  BY <1>1, <1>3, <2>6
<1>5. CASE FlightFails
  <2>1. UNCHANGED <<lock, driver, pid>> /\ LaunchFails /\ flight' = Rest.flight
    BY <1>5 DEF FlightFails, Land
  <2>2. ProcessOK'  BY <1>o, <1>f, <2>1, FailTypes DEF ProcessOK, ApartOK
  <2> QED  BY <1>1, <1>3, <2>2
<1>6. ASSUME NEW result \in {"granted", "missing", "error"}, FlightReads(result)
      PROVE  ProcessOK'
  <2>1. /\ UNCHANGED <<lock, driver, pid, starts, stray, born>> /\ live' \subseteq live
        /\ flight' \in {Rest.flight, [Rest.flight EXCEPT !.step = "start", !.prompt = "last"]}
    BY <1>6 DEF FlightReads, Land
  <2>2. flight' \in [step : {"off", "start", "check"}, prompt : {"no", "first", "last"}, proc : Nat]
    BY <1>f, <2>1 DEF Rest
  <2> QED  BY <1>o, <2>1, <2>2 DEF ProcessOK, ApartOK
<1>7. ASSUME NEW p \in stray, StrayEnds(p) PROVE ProcessOK'
  <2>1. /\ UNCHANGED <<lock, driver, pid, starts, flight, born>> /\ live' \subseteq live
        /\ stray' \subseteq stray
    BY <1>7 DEF StrayEnds
  <2> QED  BY <1>o, <2>1 DEF ProcessOK, ApartOK
<1> QED  BY <1>1, <1>3, <1>4, <1>5, <1>6, <1>7 DEF FlightStep

\* Attended runs begin and end, and the cleanup after the last of them.
LEMMA RunTypes ==
    ASSUME TypeInv,
           \/ \E s \in Session : BeginRun(s) \/ EndRun(s)
           \/ BeginStep
           \/ \E g \in ending : EndIdle(g)
           \/ CheckIdle \/ CleanIdle
    PROVE  TypeInv'
<1>o. SessionOK /\ ProcessOK /\ ControlOK /\ RestOK /\ OpOK /\ gen \in Nat
  BY DEF TypeInv, SessionOK
<1>r. /\ Rest.target \in [app : App \cup {NoApp}, captured : BOOLEAN, epoch : Nat]
      /\ Rest.begin \in [step : {"off", "insert", "bump", "reset"}, session : SUBSET Session,
                         first : BOOLEAN]
  BY DEF Rest
<1>1. ASSUME NEW s \in Session, BeginRun(s) PROVE TypeInv'
  <2>1. BeginOK'  BY <1>1 DEF BeginRun, BeginOK
  <2>2. ControlOK'
    BY <1>o, <1>1, <2>1 DEF BeginRun, ControlOK, ReadyOK, WarmOK, WorkersOK, past
  <2>3. OpOK'  BY <1>o, <1>1 DEF BeginRun, OpOK, PlanOK
  <2> QED  BY <1>o, <1>1, <2>2, <2>3, SameSession, SameProcess, SameRest DEF BeginRun, TypeInv
<1>2. ASSUME NEW s \in Session, EndRun(s) PROVE TypeInv'
  <2>1. ending' \subseteq Nat  BY <1>o, <1>2 DEF EndRun, ControlOK
  <2>2. ControlOK'
    BY <1>o, <1>2, <2>1 DEF EndRun, ControlOK, ReadyOK, WarmOK, WorkersOK, BeginOK, past
  <2>3. SessionOK'  BY <1>o, <1>2 DEF EndRun, SessionOK
  <2>4. OpOK'  BY <1>o, <1>2 DEF EndRun, OpOK, PlanOK
  <2> QED  BY <1>o, <1>2, <2>2, <2>3, <2>4, SameProcess, SameRest DEF EndRun, TypeInv
<1>3. CASE BeginStep
  <2>1. BeginOK'
    <3>1. \/ begin' = Rest.begin
          \/ \E b \in BOOLEAN : begin' = [begin EXCEPT !.step = "bump", !.first = b]
          \/ begin' = [begin EXCEPT !.step = "reset"]
      BY <1>3 DEF BeginStep, BeginInsert, BeginBump, BeginReset
    <3> QED  BY <1>o, <1>r, <3>1 DEF ControlOK, BeginOK
  <2>2. ControlOK'
    BY <1>o, <1>3, <2>1 DEF BeginStep, BeginInsert, BeginBump, BeginReset, ControlOK, ReadyOK,
                            WarmOK, WorkersOK, past
  <2>3. SessionOK'
    <3>1. CASE BeginInsert
      <4>1. begin.session \subseteq Session  BY <1>o DEF ControlOK, BeginOK
      <4> QED  BY <1>o, <3>1, <4>1 DEF BeginInsert, SessionOK
    <3>2. CASE BeginBump  BY <1>o, <3>2 DEF BeginBump, SessionOK
    <3>3. CASE BeginReset  BY <1>o, <3>3 DEF BeginReset, SessionOK
    <3> QED  BY <1>3, <3>1, <3>2, <3>3 DEF BeginStep
  <2>4. op' = op /\ UNCHANGED process /\ UNCHANGED <<target, approval, used>>
    BY <1>3 DEF BeginStep, BeginInsert, BeginBump, BeginReset
  <2>5. OpOK'  BY <1>o, <2>4 DEF OpOK, PlanOK
  <2> QED  BY <1>o, <2>2, <2>3, <2>4, <2>5, SameProcess, SameRest DEF TypeInv
<1>4. ASSUME NEW g \in ending, EndIdle(g) PROVE TypeInv'
  <2>1. g \in Nat  BY <1>o DEF ControlOK
  <2>2. <<"idle", "clean">> \in Seq(Steps)  BY DEF Steps
  <2>3. /\ op' = [kind |-> "end", todo |-> <<"idle", "clean">>, at |-> "start", epoch |-> 0,
                  gen |-> g, task |-> 0, app |-> NoApp, key |-> NoKey, named |-> FALSE,
                  fresh |-> FALSE, permit |-> "none"]
    BY <1>4 DEF EndIdle, NoPlan
  <2>4. op' \in Operation  BY <2>1, <2>2, <2>3 DEF Operation, At, Permit
  <2>5. OpOK'  BY <2>3, <2>4, KindsApart DEF OpOK, PlanOK
  <2>6. ControlOK'
    BY <1>o, <1>4 DEF EndIdle, ControlOK, ReadyOK, WarmOK, WorkersOK, BeginOK, past
  <2> QED  BY <1>o, <1>4, <2>5, <2>6, SameSession, SameProcess, SameRest DEF EndIdle, TypeInv
<1>5. CASE CheckIdle
  <2>1. Working /\ Head(op.todo) = "idle"  BY <1>5 DEF CheckIdle, On
  <2>2. op.kind = "end" /\ op.todo = <<"idle", "clean">>
    <3>1. op.kind = "end"  BY <1>o, <2>1, KindOfCleanup
    <3>2. Head(<<"clean">>) = "clean"  OBVIOUS
    <3> QED  BY <1>o, <2>1, <3>1, <3>2 DEF OpOK, PlanOK
  <2>3. OpOK'
    <3>1. CASE Finish  BY <3>1, FinishTypes
    <3>2. CASE op' = [op EXCEPT !.at = "start", !.todo = <<"clean">>]
      <4>1. <<"clean">> \in Seq(Steps)  BY DEF Steps
      <4>2. op' \in Operation  BY <1>o, <3>2, <4>1 DEF OpOK, Operation, At
      <4>3. op'.kind = "end" /\ op'.todo = <<"clean">>
        BY <1>o, <2>2, <3>2 DEF OpOK, Operation
      <4> QED  BY <4>2, <4>3, KindsApart DEF OpOK, PlanOK
    <3>3. Len(op.todo) = 2 /\ op.todo[2] = "clean" /\ Tail(op.todo) = <<"clean">>
      BY <2>2
    <3> QED  BY <1>5, <3>1, <3>2, <3>3 DEF CheckIdle, Advance, Go
  <2> QED  BY <1>o, <1>5, <2>3, SameSession, SameProcess, SameControl, SameRest
           DEF CheckIdle, TypeInv
<1>6. CASE CleanIdle
  <2>1. OpOK'  BY <1>6, FinishTypes DEF CleanIdle
  <2>2. WarmOK'
    <3>1. warm' = warm \/ warm' = [step |-> "lock", epoch |-> epoch, proc |-> 0]
      BY <1>6 DEF CleanIdle, Schedule
    <3> QED  BY <1>o, <3>1 DEF ControlOK, WarmOK
  <2>3. ControlOK'
    BY <1>o, <1>6, <2>2 DEF CleanIdle, ControlOK, ReadyOK, WorkersOK, BeginOK, past
  <2>4. SessionOK'  BY <1>o, <1>6 DEF CleanIdle, SessionOK
  <2>5. RestOK'  BY <1>o, <1>r, <1>6 DEF CleanIdle, RestOK, TargetOK
  <2> QED  BY <1>o, <1>6, <2>1, <2>3, <2>4, <2>5, SameProcess DEF CleanIdle, TypeInv
<1> QED  BY <1>1, <1>2, <1>3, <1>4, <1>5, <1>6

\* An action of the agent begins with the plan of its kind.
LEMMA EnterTypes ==
    ASSUME TypeInv, NEW kind \in Kind, NEW a \in App, NEW permit \in Permit,
           Enter(kind, a, permit)
    PROVE  TypeInv'
<1>o. SessionOK /\ ProcessOK /\ ControlOK /\ RestOK /\ OpOK /\ epoch \in Nat
  BY DEF TypeInv, ControlOK
<1>1. kind \in Kinds  BY ConstAssumption
<1>2. Plan(kind) \in Seq(Steps \ {"idle", "clean"}) /\ Plan(kind) \in Seq(Steps)
  <2>1. CASE kind = "capture"
    <3>1. Plan(kind) = <<"task", "eligible">> \o Look  BY <2>1 DEF Plan
    <3>2. Look \in Seq(Steps \ {"idle", "clean"}) /\ Look \in Seq(Steps)
      BY DEF Look, Steps, Tool
    <3>3. /\ <<"task", "eligible">> \in Seq(Steps \ {"idle", "clean"})
          /\ <<"task", "eligible">> \in Seq(Steps)
      BY DEF Steps
    <3> HIDE DEF Look
    <3> QED  BY <3>1, <3>2, <3>3, ConcatProperties
  <2>2. CASE kind = "focus"  BY <2>2 DEF Plan, Steps, Tool
  <2>3. CASE kind = "open"  BY <2>3 DEF Plan, Steps, Tool
  <2>4. CASE kind = "act"  BY <2>4 DEF Plan, Steps, Tool
  <2>5. CASE kind = "list"  BY <2>5 DEF Plan, Steps, Tool
  <2>6. CASE kind = "remote"  BY <2>6 DEF Plan, Steps, Tool
  <2> QED  BY <1>1, <2>1, <2>2, <2>3, <2>4, <2>5, <2>6 DEF Kinds
<1> DEFINE k == <<IF kind = "open" THEN "name" ELSE "id", a>>
           plan == Plan(kind)
<1>3. k \in Key  BY DEF Key
<1>4. op' = [kind |-> kind, todo |-> plan, at |-> "start", epoch |-> epoch, gen |-> 0,
             task |-> 0, app |-> a, key |-> k, named |-> FALSE, fresh |-> FALSE,
             permit |-> permit]
  BY DEF Enter, NoPlan
<1> HIDE DEF k, plan
<1>5. plan \in Seq(Steps \ {"idle", "clean"}) /\ plan \in Seq(Steps)  BY <1>2 DEF plan
<1>6. op' \in Operation  BY <1>o, <1>3, <1>4, <1>5 DEF Operation, At
<1>7. OpOK'  BY <1>3, <1>4, <1>5, <1>6, KindsApart DEF OpOK, PlanOK
<1>8. SessionOK' /\ ProcessOK' /\ ControlOK'
  BY <1>o, SameSession, SameProcess, SameControl DEF Enter
<1>9. RestOK'  BY <1>o DEF Enter, RestOK, TargetOK
<1> QED  BY <1>7, <1>8, <1>9 DEF TypeInv

\* The first state has every type.
LEMMA InitTypes == Init => TypeInv
<1> SUFFICES ASSUME Init PROVE TypeInv
  OBVIOUS
<1>1. OpOK
  <2>1. <<>> \in Seq(Steps)  BY EmptySeq
  <2>2. op = NoPlan  BY DEF Init
  <2>3. NoPlan \in Operation  BY <2>1 DEF NoPlan, Operation, At, Permit
  <2>4. NoPlan.kind = "none" /\ NoPlan.todo = <<>>  BY DEF NoPlan
  <2> QED  BY <2>2, <2>3, <2>4, KindsApart DEF OpOK, PlanOK
<1>2. SessionOK
  <2>1. givenIn \in [Key -> Nat]  BY DEF Init
  <2> QED  BY <2>1 DEF Init, SessionOK
<1>3. ProcessOK  BY ConstAssumption DEF Init, ProcessOK, ApartOK, Rest
<1>4. RestOK  BY DEF Init, RestOK, TargetOK, Rest
<1>5. WorkersOK
  <2> QED  BY RestErrand DEF Init, WorkersOK
<1>6. WarmOK /\ BeginOK /\ ReadyOK  BY DEF Init, Rest, WarmOK, BeginOK, ReadyOK
<1>7. ControlOK  BY <1>5, <1>6 DEF Init, ControlOK
<1> QED  BY <1>1, <1>2, <1>3, <1>4, <1>7 DEF TypeInv

\* Every step of the system keeps the types.
LEMMA NextTypes == TypeInv /\ [Next]_vars => TypeInv'
<1> SUFFICES ASSUME TypeInv, [Next]_vars PROVE TypeInv'
  OBVIOUS
<1>o. SessionOK /\ ProcessOK /\ ControlOK /\ RestOK /\ OpOK  BY DEF TypeInv
<1>1. CASE \/ \E s \in Session : BeginRun(s) \/ EndRun(s)
           \/ BeginStep
           \/ \E g \in ending : EndIdle(g)
           \/ CheckIdle \/ CleanIdle
  BY <1>1, RunTypes
<1>2. CASE \E kind \in Kind, a \in App, permit \in {"none", "match", "mismatch"} :
               Enter(kind, a, permit)
  BY <1>2, EnterTypes DEF Permit
<1>3. CASE \/ ReadTask \/ CheckEligible \/ Aim \/ Alias \/ TaskCheck \/ FullCheck
           \/ (\E b \in App : KnownAlias(b))
           \/ (\E b \in BOOLEAN : Join(b) \/ Confirm(b) \/ Again(b))
  <2>1. OpOK' /\ UNCHANGED <<session, process, control, target, approval, used>>
    BY <1>3, PlanStepTypes
  <2> QED  BY <1>o, <2>1, SameSession, SameProcess, SameControl, SameRest DEF TypeInv
<1>4. CASE \/ Authorize \/ Answered \/ ApprovalTimeout \/ Recheck \/ Reeligible
           \/ Remember \/ Settle
  <2>1. OpOK' /\ SessionOK' /\ RestOK'  BY <1>4, AuthorizeTypes
  <2>2. UNCHANGED <<process, control>>
    BY <1>4 DEF Authorize, Answered, ApprovalTimeout, Recheck, Reeligible, Remember, Settle
  <2> QED  BY <1>o, <2>1, <2>2, SameProcess, SameControl DEF TypeInv
<1>5. CASE Store \/ Verify \/ Select \/ Keep \/ (\E b \in App : Identify(b))
  <2>1. OpOK' /\ SessionOK' /\ RestOK'  BY <1>5, TargetStepTypes
  <2>2. UNCHANGED <<process, control>>  BY <1>5 DEF Store, Verify, Select, Keep, Identify
  <2> QED  BY <1>o, <2>1, <2>2, SameProcess, SameControl DEF TypeInv
<1>6. CASE \/ CallCheck \/ CallLock \/ CallSpawn \/ CallSpawnFails \/ CallSend
           \/ CallReturns \/ CallFails
  BY <1>o, <1>6, CallTypes, SameSession, SameControl, SameRest DEF TypeInv
<1>7. CASE WarmTask
  <2>1. OpOK'  BY <1>o, <1>7, WarmTypes DEF OpOK, PlanOK
  <2> QED  BY <1>o, <1>7, <2>1, WarmTypes, SameSession, SameRest DEF TypeInv
<1>8. ASSUME NEW w \in Worker, WorkerStep(w) \/ (\E job \in Job : Command(w, job))
      PROVE  TypeInv'
  <2>1. OpOK'  BY <1>o, <1>8, WorkerTypes DEF OpOK, PlanOK
  <2> QED  BY <1>8, <2>1, WorkerTypes DEF TypeInv
<1>9. ASSUME NEW allow \in BOOLEAN, Respond(allow) PROVE TypeInv'
  <2>1. OpOK'  BY <1>o, <1>9 DEF Respond, OpOK, PlanOK
  <2>2. RestOK'  BY <1>o, <1>9 DEF Respond, RestOK, TargetOK
  <2> QED  BY <1>o, <1>9, <2>1, <2>2, SameSession, SameProcess, SameControl DEF Respond, TypeInv
<1>10. CASE DriverDies
  <2>1. OpOK'  BY <1>o, <1>10 DEF DriverDies, OpOK, PlanOK
  <2>2. ProcessOK'
    <3>1. driver \in Nat /\ pid \in Nat  BY <1>o DEF ProcessOK
    <3> QED  BY <1>o, <1>10, <3>1, LessProcess DEF DriverDies
  <2> QED  BY <1>o, <1>10, <2>1, <2>2, SameSession, SameControl, SameRest DEF DriverDies, TypeInv
<1>11. CASE UNCHANGED vars
  <2>1. OpOK'  BY <1>o, <1>11 DEF vars, OpOK, PlanOK
  <2> QED  BY <1>o, <1>11, <2>1, SameSession, SameProcess, SameControl, SameRest DEF vars, TypeInv
<1>12. CASE FlightStep \/ \E p \in stray : StrayEnds(p)
  <2>1. OpOK'  BY <1>o, <1>12, FlightTypes DEF OpOK, PlanOK
  <2> QED  BY <1>o, <1>12, <2>1, FlightTypes, SameSession, SameRest DEF TypeInv
<1> QED
  BY <1>1, <1>2, <1>3, <1>4, <1>5, <1>6, <1>7, <1>8, <1>9, <1>10, <1>11, <1>12
     DEF Next, OpStep

\* The typing holds in every behaviour.
LEMMA AlwaysTyped == Spec => []TypeInv
  BY InitTypes, NextTypes, PTL DEF Spec


-----------------------------------------------------------------------------
(* Processes and their numbers *)

\* Numbers name processes that were started, and the processes apart, of the
\* permission probe and of failed starts, are under no name of a driver.
Names == {driver, pid, warm.proc}
ApartInv ==
    /\ Names \subseteq 0..starts /\ flight.proc <= starts
    /\ flight.step # "check" => flight.proc = 0
    /\ \A p \in Names : p # 0 => p \notin Helpers

\* A step that names no process anew, or one it has just started.
LEMMA ApartFrame ==
    ASSUME TypeInv, TypeInv', ApartInv, NEW n, n = starts + 1,
           starts' = starts \/ starts' = n,
           \/ Names' \subseteq Names \cup {0} /\ Helpers' \subseteq Helpers \cup {0}
           \/ /\ starts' = n
              /\ \/ Names' \subseteq Names \cup {0, n} /\ Helpers' \subseteq Helpers \cup {0}
                 \/ Names' \subseteq Names \cup {0} /\ Helpers' \subseteq Helpers \cup {0, n},
           flight'.step # "check" => flight'.proc = 0
    PROVE  ApartInv'
<1>1. /\ starts \in Nat /\ flight.proc \in 0..starts /\ stray \subseteq 1..starts
      /\ Names \subseteq 0..starts
  BY DEF TypeInv, ProcessOK, ApartOK, ApartInv
<1>2. /\ n \notin 0..starts
      /\ 0..starts \subseteq 0..starts' /\ 0 \in 0..starts' /\ (starts' = n => n \in 0..starts')
      /\ \A p \in 0..starts' : p <= starts'
  <2>1. n \in Nat /\ starts < n /\ starts' \in Nat /\ starts <= starts'  BY <1>1
  <2> QED  BY <1>1, <2>1
<1>3. Helpers \subseteq 0..starts
  <2>1. 1..starts \subseteq 0..starts  BY <1>1
  <2> QED  BY <1>1, <2>1, Zenon DEF Helpers
<1>4. flight'.proc \in Helpers'  BY DEF Helpers
<1>5. Names' \subseteq 0..starts' /\ flight'.proc <= starts'
  <2>1. Names' \subseteq 0..starts' /\ Helpers' \subseteq 0..starts'
    BY <1>1, <1>2, <1>3, Zenon
  <2> QED  BY <1>2, <1>4, <2>1
<1>6. \A p \in Names' : p # 0 => p \notin Helpers'
  <2>1. \A p \in Names : p # 0 => p \notin Helpers  BY DEF ApartInv
  <2> QED  BY <1>1, <1>2, <1>3, <2>1
<1> QED  BY <1>5, <1>6 DEF ApartInv

\* What leaves the processes apart alone, but may end and forget others.
LEMMA ApartStep ==
    ASSUME TypeInv, TypeInv', ApartInv, UNCHANGED <<starts, apart>>,
           Names' \subseteq Names \cup {0}
    PROVE  ApartInv'
<1>1. Helpers' = Helpers /\ flight' = flight  BY DEF Helpers, apart
<1>2. flight'.step # "check" => flight'.proc = 0  BY <1>1 DEF ApartInv
<1> QED  BY <1>1, <1>2, ApartFrame

\* A start that fails halfway adds to the processes apart.
LEMMA ApartFails ==
    ASSUME TypeInv, TypeInv', ApartInv, LaunchFails, UNCHANGED flight \/ flight' = Rest.flight,
           Names' \subseteq Names \cup {0}
    PROVE  ApartInv'
<1>1. Helpers' \subseteq Helpers \cup {0} \/ (starts' = starts + 1 /\ Helpers' \subseteq Helpers \cup {0, starts + 1})
  BY DEF LaunchFails, Launch, Helpers, Rest
<1>2. starts' = starts \/ starts' = starts + 1  BY DEF LaunchFails, Launch
<1>3. flight'.step # "check" => flight'.proc = 0  BY DEF ApartInv, Rest
<1> QED  BY <1>1, <1>2, <1>3, ApartFrame

\* Every step keeps the processes apart.
LEMMA NextApart == TypeInv /\ ApartInv /\ [Next]_vars => ApartInv'
<1> SUFFICES ASSUME TypeInv, ApartInv, [Next]_vars PROVE ApartInv'
  OBVIOUS
<1>t. TypeInv'  BY NextTypes
<1>q. ASSUME UNCHANGED process, warm' = warm \/ warm'.proc = 0 PROVE ApartInv'
  <2>1. UNCHANGED <<starts, apart>> /\ Names' \subseteq Names \cup {0}
    BY <1>q DEF process, apart, Names
  <2> QED  BY <1>t, <2>1, ApartStep
<1>1. CASE \/ \E s \in Session : BeginRun(s) \/ EndRun(s)
           \/ BeginStep
           \/ \E g \in ending : EndIdle(g)
           \/ CheckIdle \/ CleanIdle
  <2>1. UNCHANGED process /\ (warm' = warm \/ Schedule(ReadyNow, epoch))
    BY <1>1 DEF BeginRun, EndRun, BeginStep, BeginInsert, BeginBump, BeginReset, EndIdle, CheckIdle,
                CleanIdle, control
  <2> QED  BY <1>q, <2>1 DEF Schedule
<1>2. CASE \E kind \in Kind, a \in App, permit \in {"none", "match", "mismatch"} :
               Enter(kind, a, permit)
  BY <1>2, <1>q DEF Enter, control
<1>3. CASE \/ ReadTask \/ CheckEligible \/ Aim \/ Alias \/ TaskCheck \/ FullCheck
           \/ (\E b \in App : KnownAlias(b))
           \/ (\E b \in BOOLEAN : Join(b) \/ Confirm(b) \/ Again(b))
  <2>1. UNCHANGED <<process, control>>  BY <1>3, PlanStepTypes
  <2> QED  BY <2>1, <1>q DEF control
<1>4. CASE \/ Authorize \/ Answered \/ ApprovalTimeout \/ Recheck \/ Reeligible
           \/ Remember \/ Settle
           \/ Store \/ Verify \/ Select \/ Keep \/ (\E b \in App : Identify(b))
           \/ (\E allow \in BOOLEAN : Respond(allow))
  <2>1. UNCHANGED <<process, control>>
    BY <1>4 DEF Authorize, Answered, ApprovalTimeout, Recheck, Reeligible, Remember, Settle,
                Store, Verify, Select, Keep, Identify, Respond
  <2> QED  BY <2>1, <1>q DEF control
<1>5. CASE CallCheck \/ CallLock \/ CallSend \/ CallReturns \/ CallFails \/ DriverDies
  <2>1. UNCHANGED <<starts, apart, warm>> /\ driver' \in {driver, 0} /\ pid' \in {pid, 0}
    BY <1>5 DEF CallCheck, CallLock, CallSend, CallReturns, CallFails, DriverDies, process, control
  <2> QED  BY <1>t, <2>1, ApartStep DEF Names
<1>6. CASE CallSpawn
  <2>1. /\ starts' = starts + 1 /\ UNCHANGED <<apart, warm>>
        /\ driver' = starts + 1 /\ pid' = starts + 1
    BY <1>6 DEF CallSpawn, Launch, control
  <2>2. Helpers' = Helpers /\ flight' = flight  BY <2>1 DEF Helpers, apart
  <2>3. Names' \subseteq Names \cup {0, starts + 1}  BY <2>1 DEF Names
  <2>4. flight'.step # "check" => flight'.proc = 0  BY <2>2 DEF ApartInv
  <2> QED  BY <1>t, <2>1, <2>2, <2>3, <2>4, ApartFrame
<1>7. CASE CallSpawnFails
  <2>1. LaunchFails /\ UNCHANGED <<driver, pid, flight, warm>>  BY <1>7 DEF CallSpawnFails, control
  <2> QED  BY <1>t, <2>1, ApartFails DEF Names
<1>8. CASE WarmLock \/ WarmVerified \/ WarmInstall
  <2>1. UNCHANGED <<starts, apart>> /\ warm'.proc \in {warm.proc, 0}
    BY <1>8 DEF WarmLock, WarmVerified, WarmInstall, WarmEnds, Rest, TypeInv, ControlOK, WarmOK
  <2>2. driver' \in {driver, warm.proc} /\ pid' \in {pid, warm.proc}
    BY <1>8 DEF WarmLock, WarmVerified, WarmInstall
  <2> QED  BY <1>t, <2>1, <2>2, ApartStep DEF Names
<1>9. CASE WarmStarted
  <2>1. starts' = starts + 1 /\ UNCHANGED <<driver, pid, apart>> /\ warm'.proc = starts + 1
    BY <1>9 DEF WarmStarted, Launch, TypeInv, ControlOK, WarmOK
  <2>2. Helpers' = Helpers /\ flight' = flight  BY <2>1 DEF Helpers, apart
  <2>3. Names' \subseteq Names \cup {0, starts + 1}  BY <2>1 DEF Names
  <2>4. flight'.step # "check" => flight'.proc = 0  BY <2>2 DEF ApartInv
  <2> QED  BY <1>t, <2>1, <2>2, <2>3, <2>4, ApartFrame
<1>10. CASE WarmFails
  <2>1. UNCHANGED <<driver, pid, flight>> /\ warm'.proc = 0  BY <1>10 DEF WarmFails, WarmEnds, Rest
  <2>2. LaunchFails  BY <1>10 DEF WarmFails, LaunchFails
  <2> QED  BY <1>t, <2>1, <2>2, ApartFails DEF Names
<1>11. ASSUME NEW w \in Worker, WorkerStep(w) \/ (\E job \in Job : Command(w, job)),
              ~ProbeAsk(w)
       PROVE  ApartInv'
  <2>1. CASE \E sees \in BOOLEAN : ProbePublish(w, sees)
    <3>1. UNCHANGED process  BY <2>1 DEF ProbePublish
    <3>2. warm' = warm \/ warm'.proc = 0  BY <2>1 DEF ProbePublish, Schedule
    <3> QED  BY <3>1, <3>2, <1>q
  <2>2. CASE ~\E sees \in BOOLEAN : ProbePublish(w, sees)
    <3>1. UNCHANGED <<starts, apart, warm>> /\ driver' \in {driver, 0} /\ pid' \in {pid, 0}
      BY <1>11, <2>2
         DEF WorkerStep, Command, StopEnter, StopClear, StopBump, StopDrain, StopKill, StopTake,
             QuitGivesUp, StopStopped, StopForget, StopLeave, ReplaceReady, ProbeStart,
             ProbeRead, ProbePrompt, process
    <3> QED  BY <1>t, <3>1, ApartStep DEF Names
  <2> QED  BY <2>1, <2>2
<1>12. ASSUME NEW w \in Worker, ProbeAsk(w) PROVE ApartInv'
  <2>1. UNCHANGED <<starts, driver, pid, warm, stray>>  BY <1>12 DEF ProbeAsk
  <2>2. flight' = flight \/ (flight'.step = "start" /\ flight'.proc = 0)
    BY <1>12 DEF ProbeAsk, Rest
  <2>3. Helpers' \subseteq Helpers \cup {0} /\ Names' = Names  BY <2>1, <2>2 DEF Helpers, Names
  <2>4. flight'.step # "check" => flight'.proc = 0  BY <2>2 DEF ApartInv
  <2> QED  BY <1>t, <2>1, <2>3, <2>4, ApartFrame
<1>13. CASE FlightStarts
  <2>1. /\ starts' = starts + 1 /\ UNCHANGED <<driver, pid, warm, stray>>
        /\ flight' = [flight EXCEPT !.step = "check", !.proc = starts + 1]
    BY <1>13 DEF FlightStarts, Launch, control
  <2>2. flight'.step = "check" /\ flight'.proc = starts + 1
    BY <2>1 DEF TypeInv, ProcessOK, ApartOK
  <2>3. Helpers' \subseteq Helpers \cup {0, starts + 1} /\ Names' = Names
    BY <2>1, <2>2 DEF Helpers, Names
  <2> QED  BY <1>t, <2>1, <2>2, <2>3, ApartFrame
<1>14. CASE FlightFails
  <2>1. LaunchFails /\ UNCHANGED <<driver, pid, warm>> /\ flight' = Rest.flight
    BY <1>14 DEF FlightFails, Land
  <2> QED  BY <1>t, <2>1, ApartFails DEF Names
<1>15. ASSUME NEW result, FlightReads(result) PROVE ApartInv'
  <2>1. /\ UNCHANGED <<starts, driver, pid, warm, stray>>
        /\ flight' \in {Rest.flight, [Rest.flight EXCEPT !.step = "start", !.prompt = "last"]}
    BY <1>15 DEF FlightReads, Land
  <2>2. flight'.proc = 0
    <3> DEFINE again == [Rest.flight EXCEPT !.step = "start", !.prompt = "last"]
    <3>1. Rest.flight.proc = 0 /\ again.proc = 0  BY DEF Rest
    <3> HIDE DEF again
    <3>2. flight' = Rest.flight \/ flight' = again  BY <2>1 DEF again
    <3> QED  BY <3>1, <3>2
  <2>3. Helpers' \subseteq Helpers \cup {0} /\ Names' = Names  BY <2>1, <2>2 DEF Helpers, Names
  <2> QED  BY <1>t, <2>1, <2>2, <2>3, ApartFrame
<1>16. ASSUME NEW p \in stray, StrayEnds(p) PROVE ApartInv'
  <2>1. UNCHANGED <<starts, driver, pid, warm, flight>> /\ stray' \subseteq stray
    BY <1>16 DEF StrayEnds, control
  <2>2. Helpers' \subseteq Helpers /\ Names' = Names  BY <2>1 DEF Helpers, Names
  <2>3. flight'.step # "check" => flight'.proc = 0  BY <2>1 DEF ApartInv
  <2> QED  BY <1>t, <2>1, <2>2, <2>3, ApartFrame
<1>17. CASE UNCHANGED vars
  BY <1>17, <1>q DEF vars, control
<1> QED
  BY <1>1, <1>2, <1>3, <1>4, <1>5, <1>6, <1>7, <1>8, <1>9, <1>10, <1>11, <1>12, <1>13, <1>14,
     <1>15, <1>16, <1>17 DEF Next, OpStep, WarmTask, FlightStep

\* The processes apart stay apart.
LEMMA AlwaysApart == Spec => []ApartInv
<1>1. Init => ApartInv
  BY ConstAssumption DEF Init, ApartInv, Names, Helpers, Rest
<1> QED  BY <1>1, NextApart, AlwaysTyped, PTL DEF Spec

\* The inductive typing implies the checked one.
LEMMA TypeInvIsTyped == ASSUME TypeInv, ApartInv PROVE TypeOK
<1>1. /\ grant \in BOOLEAN /\ ready \in [is : BOOLEAN, epoch : Nat]
      /\ epoch \in Nat /\ gen \in Nat /\ runs \subseteq Session /\ auth \subseteq Key
      /\ ending \subseteq Nat
  BY DEF TypeInv, SessionOK, ControlOK, ReadyOK
<1>2. /\ target \in [app : App \cup {NoApp}, captured : BOOLEAN, epoch : Nat]
      /\ approval \in {"none", "pending", "allowed", "denied"}
  BY DEF TypeInv, RestOK, TargetOK
<1>3. /\ op.kind \in Kind \cup {"none", "end"} /\ op.todo \in Seq(Steps) /\ op.at \in At
      /\ op.key \in Key \cup {NoKey} /\ op.permit \in {"none", "match", "mismatch"}
  BY DEF TypeInv, OpOK, Operation, Permit
<1>4. /\ lock \in {"free", "op", "warm", "worker"}
      /\ starts \in 0..MaxStarts /\ live \subseteq 1..starts
      /\ driver \in 0..starts /\ pid \in 0..starts
  BY DEF TypeInv, ProcessOK, ApartInv, Names
<1>5. /\ stray \subseteq 1..starts /\ flight.proc \in 0..starts
      /\ flight.step \in {"off", "start", "check"} /\ flight.prompt \in {"no", "first", "last"}
  BY DEF TypeInv, ProcessOK, ApartOK, ApartInv
<1>6. /\ warm.step \in {"off", "lock", "verify", "start", "install"}
      /\ begin.step \in {"off", "insert", "bump", "reset"}
  BY DEF TypeInv, ControlOK, WarmOK, BeginOK
<1>7. \A w \in Worker : worker[w].job \in Job \cup {"none"}
  BY DEF TypeInv, ControlOK, WorkersOK, Errand
<1> QED  BY <1>1, <1>2, <1>3, <1>4, <1>5, <1>6, <1>7 DEF TypeOK

\* Every variable of the broker has its type.
THEOREM TypeCorrect == Spec => []TypeOK
<1>1. TypeInv /\ ApartInv => TypeOK  BY TypeInvIsTyped
<1> QED  BY <1>1, AlwaysTyped, AlwaysApart, PTL

-----------------------------------------------------------------------------
(* The mutex around the driver *)

OpHolds == OnTool("spawn") \/ OnTool("send") \/ OnTool("call")
WarmHolds == warm.step \in {"verify", "start", "install"}
WorkerHolds(w) == worker[w].step = "stopping"

\* The mutex has one holder, and it is the one it names.
LockInv ==
    /\ lock = "op" <=> OpHolds
    /\ lock = "warm" <=> WarmHolds
    /\ lock = "worker" <=> \E w \in Worker : WorkerHolds(w)
    /\ \A v, w \in Worker : WorkerHolds(v) /\ WorkerHolds(w) => v = w

\* What runs is the driver of the slot, or what the holder has in its hands.
SlotInv ==
    /\ lock \in {"free", "op"} => Drivers \subseteq {driver}
    /\ OnTool("spawn") => driver = 0
    /\ WarmHolds => driver = 0 /\ Drivers \subseteq {warm.proc}
    /\ warm.step \in {"verify", "start"} => Drivers = {}
    /\ \A w \in Worker : WorkerHolds(w) => driver = 0 /\ Drivers \subseteq {worker[w].took}

\* Whoever holds the mutex with an older epoch has a Stop waiting behind it.
SomeStop == \E w \in Worker : BeforeTake(w)
StopInv ==
    \/ left
    \/ SomeStop
    \/ /\ OpHolds => op.epoch = epoch
       /\ WarmHolds => warm.epoch = epoch
       /\ \A p \in Drivers : born[p] = epoch

DriverInv == LockInv /\ SlotInv /\ StopInv

\* Who holds the lock and the slot leaves room for one driver.
LEMMA OneDriverRuns == ASSUME TypeInv, ApartInv, LockInv, SlotInv PROVE OneDriver
<1>1. lock \in {"free", "op", "warm", "worker"}  BY DEF TypeInv, ProcessOK
<1>2. \A p, q \in Drivers : p = q  BY <1>1 DEF LockInv, SlotInv
<1> QED  BY <1>2 DEF ApartInv, Names, OneDriver

\* Drivers are processes that run.
LEMMA DriversRun == ASSUME TypeInv PROVE Drivers \subseteq 1..starts /\ Drivers \subseteq 1..MaxStarts
<1>1. Drivers \subseteq live  BY DEF Drivers
<1>2. live \subseteq 1..starts /\ starts \in 0..MaxStarts  BY DEF TypeInv, ProcessOK
<1>3. 1..starts \subseteq 1..MaxStarts  BY <1>2, ConstAssumption
<1> QED  BY <1>1, <1>2, <1>3, Zenon

\* No driver starts and no helper becomes one.
NoNewDriver == Drivers' \subseteq Drivers /\ \A p \in Drivers' : born'[p] = born[p]

\* What starts nothing and leaves the processes apart alone.
LEMMA LessDrivers ==
    ASSUME live' \subseteq live, UNCHANGED <<born, apart>>
    PROVE  NoNewDriver
  BY DEF NoNewDriver, Drivers, Helpers, apart

\* A start by the call or by the prewarm task adds one driver.
LEMMA LaunchDrivers ==
    ASSUME TypeInv, ApartInv, NEW e \in Nat, Launch(e), UNCHANGED apart
    PROVE  /\ Drivers' = Drivers \cup {starts'} /\ starts' # 0 /\ born'[starts'] = e
           /\ \A p \in Drivers : born'[p] = born[p]
<1>1. ProcessOK  BY DEF TypeInv
<1>2. /\ starts' = starts + 1 /\ starts' \in 1..MaxStarts
      /\ live' = live \cup {starts'} /\ born' = [born EXCEPT ![starts'] = e]
  BY <1>1, ConstAssumption DEF Launch, ProcessOK
<1>3. starts' \notin Helpers
  <2>1. starts' # flight.proc  BY <1>1, <1>2 DEF ApartInv, ProcessOK, ApartOK
  <2>2. starts' \notin stray  BY <1>1, <1>2 DEF ProcessOK, ApartOK
  <2> QED  BY <2>1, <2>2 DEF Helpers
<1>4. Helpers' = Helpers  BY DEF Helpers, apart
<1>5. Drivers' = Drivers \cup {starts'}  BY <1>2, <1>3, <1>4 DEF Drivers
<1>6. \A p \in Drivers : p \in 1..MaxStarts /\ p # starts'
  BY <1>1, <1>2, DriversRun DEF ProcessOK
<1> QED  BY <1>1, <1>2, <1>5, <1>6 DEF ProcessOK

\* A start that fails, the permission probe and the end of a stray process
\* make no driver.
LEMMA HelperDrivers ==
    ASSUME TypeInv, ApartInv,
           \/ LaunchFails /\ (flight' = flight \/ flight.step # "check")
           \/ FlightStarts
           \/ \E result : FlightReads(result)
           \/ \E p \in stray : StrayEnds(p)
    PROVE  NoNewDriver
<1>1. ProcessOK /\ starts \in Nat /\ stray \subseteq 1..starts /\ live \subseteq 1..starts
  BY DEF TypeInv, ProcessOK, ApartOK
<1>2. \A p \in Drivers : p \in 1..MaxStarts /\ p # 0 /\ p # starts + 1  BY <1>1, DriversRun
<1>3. flight.step # "check" => flight.proc = 0  BY DEF ApartInv
<1>4. \A p \in live : p # 0  BY <1>1
<1>b. Launch(0) => \A p \in Drivers : born'[p] = born[p]
  BY <1>1, <1>2 DEF Launch, ProcessOK
<1>5. CASE LaunchFails /\ (flight' = flight \/ flight.step # "check")
  <2>1. CASE Launch(0) /\ stray' = stray \cup {starts + 1}
    <3>1. live' = live \cup {starts + 1}  BY <2>1 DEF Launch
    <3>2. Drivers' \subseteq Drivers
      BY <1>3, <1>4, <1>5, <2>1, <3>1 DEF Drivers, Helpers
    <3> QED  BY <1>b, <2>1, <3>2 DEF NoNewDriver
  <2>2. CASE UNCHANGED <<starts, live, born, stray>>
    <3>1. Drivers' \subseteq Drivers  BY <1>3, <1>4, <1>5, <2>2 DEF Drivers, Helpers
    <3> QED  BY <2>2, <3>1 DEF NoNewDriver
  <2> QED  BY <1>5, <2>1, <2>2 DEF LaunchFails
<1>6. CASE FlightStarts
  <2>1. /\ Launch(0) /\ stray' = stray /\ flight.proc = 0
        /\ live' = live \cup {starts + 1} /\ flight'.proc = starts + 1
    BY <1>1, <1>3, <1>6 DEF FlightStarts, Launch, ProcessOK, ApartOK
  <2>2. Drivers' \subseteq Drivers  BY <1>4, <2>1 DEF Drivers, Helpers
  <2> QED  BY <1>b, <2>1, <2>2 DEF NoNewDriver
<1>7. ASSUME NEW result, FlightReads(result) PROVE NoNewDriver
  <2>1. live' = live \ {flight.proc} /\ UNCHANGED <<stray, born>>  BY <1>7 DEF FlightReads
  <2> QED  BY <2>1 DEF NoNewDriver, Drivers, Helpers
<1>8. ASSUME NEW p \in stray, StrayEnds(p) PROVE NoNewDriver
  <2>1. live' = live \ {p} /\ stray' = stray \ {p} /\ UNCHANGED <<flight, born>>
    BY <1>8 DEF StrayEnds
  <2> QED  BY <2>1 DEF NoNewDriver, Drivers, Helpers
<1> QED  BY <1>5, <1>6, <1>7, <1>8

\* What a stop has taken from the slot it also ends.
LEMMA DriverEnds == ASSUME StopInv PROVE StoppedDriverEnds
  BY DEF StopInv, StoppedDriverEnds, SomeStop

\* A step that leaves the mutex, its holders and the epoch alone.
LEMMA DriverFrame ==
    ASSUME DriverInv, UNCHANGED <<lock, driver, epoch, left>>, NoNewDriver,
           OpHolds' <=> OpHolds, OpHolds => op'.epoch = op.epoch,
           OnTool("spawn")' => OnTool("spawn"),
           WarmHolds' <=> WarmHolds, WarmHolds => warm' = warm,
           \A w \in Worker : /\ WorkerHolds(w)' <=> WorkerHolds(w)
                             /\ WorkerHolds(w) => worker'[w] = worker[w]
                             /\ BeforeTake(w) => BeforeTake(w)'
    PROVE  DriverInv'
<1> USE DEF NoNewDriver, DriverInv
<1>1. LockInv'  BY DEF LockInv
<1>2. SlotInv'
  <2>1. warm'.step \in {"verify", "start"} => warm.step = warm'.step  BY DEF WarmHolds
  <2>2. \A w \in Worker : WorkerHolds(w)' => WorkerHolds(w) /\ worker'[w].took = worker[w].took
    OBVIOUS
  <2> QED  BY <2>1, <2>2 DEF SlotInv
<1>3. StopInv'
  <2>1. SomeStop => SomeStop'  BY DEF SomeStop
  <2> QED  BY <2>1 DEF StopInv
<1> QED  BY <1>1, <1>2, <1>3

\* An operation that is not in a call of the driver.
LEMMA OutsideCall ==
    ASSUME ~Working \/ Head(op.todo) \notin Tool \/ op.at \notin {"spawn", "send", "call"}
    PROVE  ~OpHolds /\ ~OnTool("spawn")
  BY DEF OpHolds, OnTool

\* The steps of an operation outside a call.
LEMMA DriverAside ==
    ASSUME TypeInv, DriverInv, UNCHANGED <<process, epoch, left, worker>>,
           ~OpHolds, op'.at \notin {"spawn", "send", "call"},
           warm' = warm \/ (warm.step = "off" /\ warm'.step = "lock")
    PROVE  DriverInv'
<1>0. NoNewDriver /\ UNCHANGED <<lock, driver>>  BY LessDrivers DEF process
<1>1. ~OpHolds' /\ ~OnTool("spawn")'  BY DEF OpHolds, OnTool
<1>2. (WarmHolds' <=> WarmHolds) /\ (WarmHolds => warm' = warm)  BY DEF WarmHolds
<1>3. \A w \in Worker : /\ WorkerHolds(w)' <=> WorkerHolds(w)
                        /\ WorkerHolds(w) => worker'[w] = worker[w]
                        /\ BeforeTake(w) => BeforeTake(w)'
  BY DEF WorkerHolds, BeforeTake
<1> QED  BY <1>0, <1>1, <1>2, <1>3, DriverFrame

\* After the end of a step of its plan an operation is at a start.
LEMMA NextAtStart ==
    ASSUME op \in Operation, Advance \/ Go(op) \/ Finish \/ Go(Spent)
    PROVE  op'.at = "start"
<1>1. CASE Finish  BY <1>1 DEF Finish, NoPlan
<1>2. CASE Go(op)  BY <1>2 DEF Go, Operation
<1>3. CASE Go(Spent)
  <2>1. Spent \in Operation  BY DEF Spent, Operation, Permit
  <2> QED  BY <1>3, <2>1 DEF Go, Operation
<1> QED  BY <1>1, <1>2, <1>3 DEF Advance

\* Asking for and settling an approval leaves the driver alone.
LEMMA AuthorizeAside ==
    ASSUME TypeInv, DriverInv,
           \/ Authorize \/ Answered \/ ApprovalTimeout \/ Recheck \/ Reeligible
           \/ Remember \/ Settle
    PROVE  DriverInv'
<1>o. op \in Operation  BY DEF TypeInv, OpOK
<1>1. UNCHANGED <<process, epoch, left, worker, warm>>
  BY DEF Authorize, Answered, ApprovalTimeout, Recheck, Reeligible, Remember, Settle,
         control, past
<1>2. ~OpHolds
  BY DEF Authorize, Answered, ApprovalTimeout, Recheck, Reeligible, Remember, Settle, On,
         OpHolds, OnTool, Tool
<1>3. op'.at \notin {"spawn", "send", "call"}
  <2>1. CASE Advance \/ Go(op) \/ Finish \/ Go(Spent)
    BY <1>o, <2>1, NextAtStart
  <2>2. ASSUME NEW at \in {"recheck", "reeligible", "remember", "settle", "parked"},
               \/ Within(at) \/ op' = [Spent EXCEPT !.at = at]
               \/ op' = [Spent EXCEPT !.at = at, !.fresh = TRUE]
        PROVE  op'.at \notin {"spawn", "send", "call"}
    BY <1>o, <2>2 DEF Within, Spent, Operation
  <2> QED
    BY <2>1, <2>2 DEF Authorize, Answered, ApprovalTimeout, Recheck, Reeligible, Remember, Settle
<1> QED  BY <1>1, <1>2, <1>3, DriverAside

\* The checks of a plan leave the driver alone.
LEMMA PlanAside ==
    ASSUME TypeInv, DriverInv,
           \/ ReadTask \/ CheckEligible \/ Aim \/ Alias \/ TaskCheck \/ FullCheck
           \/ (\E b \in App : KnownAlias(b))
           \/ (\E b \in BOOLEAN : Join(b) \/ Confirm(b) \/ Again(b))
    PROVE  DriverInv'
<1>1. op'.at = "start" /\ UNCHANGED <<process, control>>
  BY PlanStepTypes
<1>2. ~OpHolds
  BY DEF ReadTask, CheckEligible, Aim, Alias, TaskCheck, FullCheck, KnownAlias, Join, Confirm,
         Again, On, OpHolds, OnTool, Tool
<1> QED  BY <1>1, <1>2, DriverAside DEF control, past

\* Storing and verifying a target leaves the driver alone.
LEMMA TargetAside ==
    ASSUME TypeInv, DriverInv,
           Store \/ Verify \/ Select \/ Keep \/ (\E b \in App : Identify(b))
    PROVE  DriverInv'
<1>o. op \in Operation  BY DEF TypeInv, OpOK
<1>1. UNCHANGED <<process, epoch, left, worker, warm>>
  BY DEF Store, Verify, Select, Keep, Identify, control, past
<1>2. ~OpHolds
  BY DEF Store, Verify, Select, Keep, Identify, On, OpHolds, OnTool, Tool
<1>3. op'.at = "start"
  <2>1. CASE Advance \/ Finish  BY <1>o, <2>1, NextAtStart
  <2>2. ASSUME NEW b \in App, Identify(b) PROVE op'.at = "start"
    BY <1>o, <2>2 DEF Identify, Go, Instead, Operation
  <2> QED  BY <2>1, <2>2 DEF Store, Verify, Select, Keep
<1> QED  BY <1>1, <1>2, <1>3, DriverAside

\* The beginning of an operation and the cleanup's own steps.
LEMMA BeginAside ==
    ASSUME TypeInv, DriverInv,
           \/ \E g \in ending : EndIdle(g)
           \/ \E kind \in Kind, a \in App, permit \in {"none", "match", "mismatch"} :
                  Enter(kind, a, permit)
           \/ CheckIdle \/ CleanIdle
    PROVE  DriverInv'
<1>o. op \in Operation  BY DEF TypeInv, OpOK
<1>1. ~OpHolds
  <2>1. ~Working \/ On("idle", "start") \/ On("clean", "start")
    BY Zenon DEF EndIdle, Enter, CheckIdle, CleanIdle
  <2> QED  BY <2>1 DEF On, OpHolds, OnTool
<1>2. op'.at = "start"
  <2>1. CASE CheckIdle  BY <1>o, <2>1, NextAtStart DEF CheckIdle
  <2>2. CASE CleanIdle  BY <1>o, <2>2, NextAtStart DEF CleanIdle
  <2>3. CASE \E g \in ending : EndIdle(g)  BY <2>3 DEF EndIdle, NoPlan
  <2>4. ASSUME NEW kind \in Kind, NEW a \in App, NEW permit \in {"none", "match", "mismatch"},
               Enter(kind, a, permit)
        PROVE  op'.at = "start"
    BY <2>4 DEF Enter, NoPlan
  <2> QED  BY <2>1, <2>2, <2>3, <2>4
<1>3. UNCHANGED <<process, epoch, left, worker>>
  BY Zenon DEF EndIdle, Enter, CheckIdle, CleanIdle, control, past
<1>4. warm' = warm \/ (warm.step = "off" /\ warm'.step = "lock")
  <2>1. CASE CleanIdle
    <3>1. Schedule(ReadyNow, epoch)  BY <2>1 DEF CleanIdle
    <3> QED  BY <3>1, SMTT(60) DEF Schedule
  <2>2. CASE ~CleanIdle
    BY <2>2, Zenon DEF EndIdle, Enter, CheckIdle, control
  <2> QED  BY <2>1, <2>2
<1> QED  BY <1>1, <1>2, <1>3, <1>4, DriverAside

\* Steps of the window leave the operation and the driver alone.
LEMMA WindowAside ==
    ASSUME DriverInv,
           \/ \E s \in Session : BeginRun(s) \/ EndRun(s)
           \/ BeginStep \/ (\E allow \in BOOLEAN : Respond(allow)) \/ UNCHANGED vars
    PROVE  DriverInv'
<1>1. UNCHANGED <<process, epoch, left, worker, warm, op>>
  BY DEF BeginRun, EndRun, BeginStep, BeginInsert, BeginBump, BeginReset, Respond, vars,
         control, past
<1>0. NoNewDriver /\ UNCHANGED <<lock, driver>>  BY <1>1, LessDrivers DEF process
<1>2. (OpHolds' <=> OpHolds) /\ (OnTool("spawn")' => OnTool("spawn"))
      /\ (WarmHolds' <=> WarmHolds)
  BY <1>1 DEF OpHolds, OnTool, Working, WarmHolds
<1>3. \A w \in Worker : /\ WorkerHolds(w)' <=> WorkerHolds(w)
                        /\ WorkerHolds(w) => worker'[w] = worker[w]
                        /\ BeforeTake(w) => BeforeTake(w)'
  BY <1>1 DEF WorkerHolds, BeforeTake
<1> QED  BY <1>0, <1>1, <1>2, <1>3, DriverFrame

\* Who holds the mutex keeps everybody else from it.
LEMMA Exclusive ==
    ASSUME LockInv
    PROVE  /\ OpHolds => ~WarmHolds /\ \A w \in Worker : ~WorkerHolds(w)
           /\ WarmHolds => ~OpHolds /\ \A w \in Worker : ~WorkerHolds(w)
           /\ lock = "free" => ~OpHolds /\ ~WarmHolds /\ \A w \in Worker : ~WorkerHolds(w)
  BY DEF LockInv

\* A call of the driver.
LEMMA CallDriver ==
    ASSUME TypeInv, ApartInv, DriverInv,
           \/ CallCheck \/ CallLock \/ CallSpawn \/ CallSpawnFails \/ CallSend
           \/ CallReturns \/ CallFails
    PROVE  DriverInv'
<1>o. OpOK /\ op \in Operation /\ ProcessOK /\ LockInv /\ SlotInv /\ StopInv
  BY DEF TypeInv, OpOK, DriverInv
<1>c. UNCHANGED <<warm, worker, epoch, left>>
  BY CallTypes DEF control, past
<1>d. /\ WarmHolds' <=> WarmHolds
      /\ \A w \in Worker : (WorkerHolds(w)' <=> WorkerHolds(w)) /\ (BeforeTake(w)' <=> BeforeTake(w))
      /\ SomeStop' <=> SomeStop
  BY <1>c DEF WarmHolds, WorkerHolds, BeforeTake, SomeStop
<1>w. ASSUME NEW at \in At, Within(at)
      PROVE  /\ op'.at = at /\ op'.todo = op.todo /\ op'.epoch = op.epoch
  BY <1>o, <1>w, WithinTypes
<1>n. Finish \/ Advance => ~OpHolds' /\ ~OnTool("spawn")'
  BY <1>o, NextAtStart DEF OpHolds, OnTool
<1>1. CASE CallCheck
  <2>1. ~OpHolds  BY <1>1 DEF CallCheck, OpHolds, OnTool
  <2>2. op'.at \notin {"spawn", "send", "call"}
    <3>1. "wait" \in At  BY DEF At
    <3> QED  BY <1>o, <1>1, <1>w, <3>1, NextAtStart DEF CallCheck
  <2>3. UNCHANGED process  BY <1>1 DEF CallCheck
  <2> QED  BY <1>c, <2>1, <2>2, <2>3, DriverAside
<1>2. CASE CallLock
  <2>1. lock = "free" /\ ~OpHolds /\ ~WarmHolds /\ \A w \in Worker : ~WorkerHolds(w)
    BY <1>o, <1>2, Exclusive DEF CallLock
  <2>2. UNCHANGED <<driver, pid, starts, live, born, apart>>  BY <1>2 DEF CallLock
  <2>n. NoNewDriver  BY <2>2, LessDrivers
  <2>3. CASE Finish /\ UNCHANGED lock
    <3>1. op'.at \notin {"spawn", "send", "call"}  BY <1>o, <2>3, NextAtStart
    <3> QED  BY <1>c, <2>1, <2>2, <2>3, <3>1, DriverAside DEF process
  <2>4. CASE Current /\ lock' = "op" /\ Within(IF driver = 0 THEN "spawn" ELSE "send")
    <3>1. "spawn" \in At /\ "send" \in At  BY DEF At
    <3>2. /\ op'.at = (IF driver = 0 THEN "spawn" ELSE "send")
          /\ op'.todo = op.todo /\ op'.epoch = op.epoch
      BY <1>w, <2>4, <3>1
    <3>3. Working /\ Head(op.todo) \in Tool  BY <1>2 DEF CallLock, OnTool
    <3>4. OpHolds' /\ (OnTool("spawn")' => driver = 0)
      BY <3>2, <3>3 DEF OpHolds, OnTool, Working
    <3>5. LockInv'  BY <1>d, <2>1, <2>4, <3>4 DEF LockInv
    <3>6. SlotInv'
      BY <1>c, <1>d, <1>o, <2>1, <2>2, <2>n, <2>4, <3>4 DEF SlotInv, WarmHolds, NoNewDriver
    <3>7. StopInv'
      BY <1>c, <1>d, <1>o, <2>1, <2>n, <2>4, <3>2 DEF StopInv, Current, NoNewDriver
    <3> QED  BY <3>5, <3>6, <3>7 DEF DriverInv
  <2> QED  BY <1>2, <2>3, <2>4 DEF CallLock
<1>3. CASE CallSpawn
  <2>1. OnTool("spawn") /\ OpHolds /\ Launch(op.epoch) /\ lock' = lock /\ driver' = starts'
    BY <1>3 DEF CallSpawn, OpHolds
  <2>2. ~WarmHolds /\ (\A w \in Worker : ~WorkerHolds(w)) /\ lock = "op"
    BY <1>o, <2>1, Exclusive DEF LockInv
  <2>3. driver = 0 /\ Drivers = {}
    <3>1. driver = 0 /\ Drivers \subseteq {0} /\ Drivers \subseteq 1..starts
      BY <1>o, <2>1, <2>2, DriversRun DEF SlotInv
    <3>2. 0 \notin 1..starts  OBVIOUS
    <3> QED  BY <3>1, <3>2
  <2>4. Drivers' = {starts'} /\ born'[starts'] = op.epoch
    <3>1. op.epoch \in Nat  BY <1>o DEF Operation
    <3>2. UNCHANGED apart  BY <1>3 DEF CallSpawn
    <3> QED  BY <2>1, <2>3, <3>1, <3>2, LaunchDrivers
  <2>5. op'.at = "send" /\ op'.todo = op.todo /\ op'.epoch = op.epoch
    <3>1. "send" \in At  BY DEF At
    <3> QED  BY <1>3, <1>w, <3>1 DEF CallSpawn
  <2>6. OpHolds' /\ ~OnTool("spawn")'
    BY <2>1, <2>5 DEF OpHolds, OnTool, Working
  <2>7. LockInv'  BY <1>d, <1>o, <2>1, <2>2, <2>6 DEF LockInv
  <2>8. SlotInv'
    <3>1. warm'.step \notin {"verify", "start"}  BY <1>c, <2>2 DEF WarmHolds
    <3> QED  BY <1>d, <2>1, <2>2, <2>4, <2>6, <3>1 DEF SlotInv
  <2>9. StopInv'
    BY <1>c, <1>d, <1>o, <2>1, <2>2, <2>4, <2>5, <2>6 DEF StopInv
  <2> QED  BY <2>7, <2>8, <2>9 DEF DriverInv
<1>4. ASSUME OpHolds, lock' = "free", ~OpHolds', ~OnTool("spawn")', NoNewDriver,
             driver' = driver \/ (driver' = 0 /\ driver \notin Drivers')
      PROVE  DriverInv'
  <2>1. ~WarmHolds /\ (\A w \in Worker : ~WorkerHolds(w)) /\ lock = "op"
    BY <1>o, <1>4, Exclusive DEF LockInv
  <2>2. Drivers' \subseteq {driver'}  BY <1>o, <1>4, <2>1 DEF SlotInv, NoNewDriver
  <2>3. LockInv'  BY <1>d, <1>4, <2>1 DEF LockInv
  <2>4. SlotInv'
    <3>1. warm'.step \notin {"verify", "start"}  BY <1>c, <2>1 DEF WarmHolds
    <3> QED  BY <1>d, <1>4, <2>1, <2>2, <3>1 DEF SlotInv
  <2>5. StopInv'  BY <1>c, <1>d, <1>o, <1>4, <2>1 DEF StopInv, NoNewDriver
  <2> QED  BY <2>3, <2>4, <2>5 DEF DriverInv
<1>5. CASE CallSpawnFails \/ CallReturns \/ CallFails
  <2>1. OpHolds /\ lock' = "free"
    BY <1>5 DEF CallSpawnFails, CallReturns, CallFails, OpHolds
  <2>2. ~OpHolds' /\ ~OnTool("spawn")'
    BY <1>5, <1>n DEF CallSpawnFails, CallReturns, CallFails
  <2>3. NoNewDriver
    <3>1. CASE CallSpawnFails  BY <3>1, HelperDrivers DEF CallSpawnFails
    <3>2. CASE CallReturns \/ CallFails
      BY <3>2, LessDrivers DEF CallReturns, CallFails
    <3> QED  BY <1>5, <3>1, <3>2
  <2>4. driver' = driver \/ (driver' = 0 /\ driver \notin live')
    BY <1>5 DEF CallSpawnFails, CallReturns, CallFails
  <2>5. Drivers' \subseteq live'  BY DEF Drivers
  <2> QED  BY <1>4, <2>1, <2>2, <2>3, <2>4, <2>5
<1>6. CASE CallSend
  <2>1. OpHolds  BY <1>6 DEF CallSend, OpHolds
  <2>2. CASE Finish /\ lock' = "free"
    <3>1. UNCHANGED <<driver, live, born, apart>>  BY <1>6 DEF CallSend
    <3>2. NoNewDriver  BY <3>1, LessDrivers
    <3> QED  BY <1>4, <1>n, <2>1, <2>2, <3>1, <3>2
  <2>3. CASE Within("call") /\ UNCHANGED lock
    <3>1. UNCHANGED <<lock, driver, live, born, apart>>  BY <1>6, <2>3 DEF CallSend
    <3>5. NoNewDriver  BY <3>1, LessDrivers
    <3>2. "call" \in At  BY DEF At
    <3>3. op'.at = "call" /\ op'.todo = op.todo /\ op'.epoch = op.epoch
      BY <1>w, <2>3, <3>2
    <3>4. OpHolds' /\ ~OnTool("spawn")'
      BY <1>6, <3>3 DEF CallSend, OpHolds, OnTool, Working
    <3> QED  BY <1>c, <1>d, <2>1, <3>1, <3>3, <3>4, <3>5, DriverFrame
  <2> QED  BY <1>6, <2>2, <2>3 DEF CallSend
<1> QED  BY <1>1, <1>2, <1>3, <1>5, <1>6

\* A driver that dies leaves its place to nobody else.
LEMMA DeathDriver == ASSUME TypeInv, DriverInv, DriverDies PROVE DriverInv'
<1>1. /\ live' \subseteq live
      /\ UNCHANGED <<lock, driver, starts, born, apart, op, warm, worker, epoch, left>>
  BY DEF DriverDies, control, past
<1>n. NoNewDriver  BY <1>1, LessDrivers
<1>2. /\ OpHolds' <=> OpHolds
      /\ OnTool("spawn")' <=> OnTool("spawn")
      /\ WarmHolds' <=> WarmHolds
      /\ \A w \in Worker : (WorkerHolds(w)' <=> WorkerHolds(w)) /\ (BeforeTake(w)' <=> BeforeTake(w))
      /\ SomeStop' <=> SomeStop
  BY <1>1 DEF OpHolds, OnTool, Working, WarmHolds, WorkerHolds, BeforeTake, SomeStop
<1>3. LockInv'  BY <1>1, <1>2 DEF DriverInv, LockInv
<1>4. SlotInv'  BY <1>1, <1>2, <1>n DEF DriverInv, SlotInv, NoNewDriver
<1>5. StopInv'  BY <1>1, <1>2, <1>n DEF DriverInv, StopInv, NoNewDriver
<1> QED  BY <1>3, <1>4, <1>5 DEF DriverInv

\* The prewarm task.
LEMMA WarmDriver == ASSUME TypeInv, ApartInv, DriverInv, WarmTask PROVE DriverInv'
<1>o. ProcessOK /\ ControlOK /\ LockInv /\ SlotInv /\ StopInv /\ warm.epoch \in Nat
      /\ warm \in [step : {"off", "lock", "verify", "start", "install"}, epoch : Nat, proc : Nat]
  BY DEF TypeInv, DriverInv, ControlOK, WarmOK
<1>c. UNCHANGED <<op, worker, epoch, left>>
  BY DEF WarmTask, WarmLock, WarmVerified, WarmStarted, WarmFails, WarmInstall, past
<1>d. /\ OpHolds' <=> OpHolds
      /\ OnTool("spawn")' <=> OnTool("spawn")
      /\ \A w \in Worker : (WorkerHolds(w)' <=> WorkerHolds(w)) /\ (BeforeTake(w)' <=> BeforeTake(w))
      /\ SomeStop' <=> SomeStop
  BY <1>c DEF OpHolds, OnTool, Working, WorkerHolds, BeforeTake, SomeStop
<1>x. WarmHolds => ~OpHolds /\ ~OnTool("spawn") /\ (\A w \in Worker : ~WorkerHolds(w)) /\ lock = "warm"
  BY <1>o, Exclusive DEF LockInv, OpHolds
<1>r. Rest.warm.step = "off"
  BY DEF Rest
<1>1. CASE WarmLock
  <2>1. /\ lock = "free" /\ ~OpHolds /\ ~OnTool("spawn") /\ ~WarmHolds
        /\ \A w \in Worker : ~WorkerHolds(w)
    BY <1>o, <1>1, Exclusive DEF WarmLock, OpHolds
  <2>2. UNCHANGED <<driver, starts, live, born, apart>>  BY <1>1 DEF WarmLock
  <2>n. NoNewDriver  BY <2>2, LessDrivers
  <2>3. CASE WarmEnds /\ UNCHANGED lock
    <3>1. ~WarmHolds'  BY <1>r, <2>3 DEF WarmHolds, WarmEnds
    <3>3. \A w \in Worker : worker'[w] = worker[w]  BY <1>c
    <3> QED  BY <1>c, <1>d, <2>1, <2>2, <2>n, <2>3, <3>1, <3>3, DriverFrame
  <2>4. CASE driver = 0 /\ WarmCurrent /\ warm' = [warm EXCEPT !.step = "verify"] /\ lock' = "warm"
    <3>1. warm'.step = "verify" /\ warm'.epoch = epoch /\ WarmHolds'
      BY <1>o, <2>4 DEF WarmHolds, WarmCurrent
    <3>2. Drivers = {} /\ Drivers' = {}
      <4>1. Drivers \subseteq {0} /\ Drivers \subseteq 1..starts
        BY <1>o, <2>1, <2>4, DriversRun DEF SlotInv
      <4>2. 0 \notin 1..starts  OBVIOUS
      <4> QED  BY <2>n, <4>1, <4>2 DEF NoNewDriver
    <3>3. LockInv'  BY <1>d, <2>1, <2>4, <3>1 DEF LockInv
    <3>4. SlotInv'  BY <1>d, <2>1, <2>2, <2>4, <3>2 DEF SlotInv
    <3>5. StopInv'  BY <1>c, <1>d, <1>o, <2>1, <2>2, <3>1, <3>2 DEF StopInv
    <3> QED  BY <3>3, <3>4, <3>5 DEF DriverInv
  <2> QED  BY <1>1, <2>3, <2>4 DEF WarmLock
\* the mutex is given up
<1>2. ASSUME WarmHolds, WarmEnds, lock' = "free", NoNewDriver, Drivers' \subseteq {driver'}
      PROVE  DriverInv'
  <2>1. ~WarmHolds' /\ warm'.step \notin {"verify", "start"}
    BY <1>r, <1>2 DEF WarmHolds, WarmEnds
  <2>2. LockInv'  BY <1>d, <1>x, <1>2, <2>1 DEF LockInv
  <2>3. SlotInv'  BY <1>d, <1>x, <1>2, <2>1 DEF SlotInv
  <2>4. StopInv'  BY <1>c, <1>d, <1>o, <1>x, <1>2, <2>1 DEF StopInv, NoNewDriver
  <2> QED  BY <2>2, <2>3, <2>4 DEF DriverInv
<1>3. CASE WarmFails
  <2>1. WarmHolds /\ Drivers = {} /\ lock' = "free" /\ WarmEnds /\ flight' = flight
    BY <1>o, <1>3 DEF WarmFails, SlotInv, WarmHolds
  <2>2. LaunchFails  BY <1>3 DEF WarmFails, LaunchFails
  <2>3. NoNewDriver  BY <2>1, <2>2, HelperDrivers
  <2>4. Drivers' = {}  BY <2>1, <2>3 DEF NoNewDriver
  <2> QED  BY <1>2, <2>1, <2>3, <2>4
<1>4. CASE WarmVerified
  <2>1. WarmHolds /\ Drivers = {} /\ UNCHANGED <<driver, live, born, starts, apart>>
    BY <1>o, <1>4 DEF WarmVerified, SlotInv, WarmHolds
  <2>n. NoNewDriver /\ Drivers' = {}
    <3>1. NoNewDriver  BY <2>1, LessDrivers
    <3> QED  BY <2>1, <3>1 DEF NoNewDriver
  <2>2. CASE WarmEnds /\ lock' = "free"
    BY <1>2, <2>1, <2>n, <2>2
  <2>3. CASE warm' = [warm EXCEPT !.step = "start"] /\ UNCHANGED lock
    <3>1. WarmHolds' /\ warm'.epoch = warm.epoch  BY <1>o, <2>3 DEF WarmHolds
    <3>2. LockInv'  BY <1>d, <1>o, <1>x, <2>1, <2>3, <3>1 DEF LockInv
    <3>3. SlotInv'  BY <1>d, <1>o, <1>x, <2>1, <2>n, <2>3, <3>1 DEF SlotInv
    <3>4. StopInv'  BY <1>c, <1>d, <1>o, <1>x, <2>1, <2>n, <3>1 DEF StopInv
    <3> QED  BY <3>2, <3>3, <3>4 DEF DriverInv
  <2> QED  BY <1>4, <2>2, <2>3 DEF WarmVerified
<1>5. CASE WarmStarted
  <2>1. /\ WarmHolds /\ Drivers = {} /\ driver = 0 /\ Launch(warm.epoch)
        /\ UNCHANGED <<lock, driver, apart>>
    BY <1>o, <1>5 DEF WarmStarted, SlotInv, WarmHolds
  <2>2. WarmHolds' /\ warm'.epoch = warm.epoch /\ warm'.step = "install" /\ warm'.proc = starts'
    BY <1>o, <1>5 DEF WarmStarted, WarmHolds
  <2>3. Drivers' = {starts'} /\ born'[starts'] = warm.epoch
    BY <1>o, <2>1, LaunchDrivers
  <2>4. LockInv'  BY <1>d, <1>o, <1>x, <2>1, <2>2 DEF LockInv
  <2>5. SlotInv'  BY <1>d, <1>x, <2>1, <2>2, <2>3 DEF SlotInv
  <2>6. StopInv'  BY <1>c, <1>d, <1>o, <1>x, <2>1, <2>2, <2>3 DEF StopInv
  <2> QED  BY <2>4, <2>5, <2>6 DEF DriverInv
<1>6. CASE WarmInstall
  <2>1. /\ WarmHolds /\ Drivers \subseteq {warm.proc} /\ driver = 0 /\ WarmEnds /\ lock' = "free"
        /\ UNCHANGED <<born, apart>>
    BY <1>o, <1>6 DEF WarmInstall, SlotInv, WarmHolds
  <2>2. live' \subseteq live /\ (driver' = warm.proc \/ warm.proc \notin live')
    BY <1>6 DEF WarmInstall
  <2>3. NoNewDriver  BY <2>1, <2>2, LessDrivers
  <2>4. Drivers' \subseteq live'  BY DEF Drivers
  <2>5. Drivers' \subseteq {driver'}  BY <2>1, <2>2, <2>3, <2>4 DEF NoNewDriver
  <2> QED  BY <1>2, <2>1, <2>3, <2>5
<1> QED  BY <1>1, <1>3, <1>4, <1>5, <1>6 DEF WarmTask

\* The commands. Only these steps of a Stop concern the driver.
LEMMA WorkerDriver ==
    ASSUME TypeInv, ApartInv, DriverInv, NEW w \in Worker,
           WorkerStep(w) \/ (\E job \in Job : Command(w, job))
    PROVE  DriverInv'
<1>o. ProcessOK /\ WorkersOK /\ LockInv /\ SlotInv /\ StopInv
  BY DEF TypeInv, DriverInv, ControlOK
<1>p. op' = op /\ (OpHolds' <=> OpHolds) /\ (OnTool("spawn")' <=> OnTool("spawn"))
  BY WorkerTypes DEF OpHolds, OnTool, Working
<1>f. \A v \in Worker : v # w => worker'[v] = worker[v]
  BY <1>o DEF WorkerStep, Command, StopEnter, StopClear, StopBump, StopDrain, StopKill, StopTake,
              QuitGivesUp, StopStopped, StopForget, StopLeave, ReplaceReady, ProbePrompt,
              ProbeStart, ProbeRead, ProbeAsk, ProbePublish, Move, Done, WorkersOK
<1> USE DEF At_
\* steps before and after the part of a Stop that deals with the driver
<1>1. CASE \/ StopEnter(w) \/ StopClear(w) \/ StopForget(w) \/ StopLeave(w) \/ ReplaceReady(w)
           \/ ProbeStart(w) \/ (\E open \in BOOLEAN : ProbeRead(w, open) \/ ProbePrompt(w, open))
           \/ ProbeAsk(w) \/ (\E sees \in BOOLEAN : ProbePublish(w, sees))
           \/ StopDrain(w) \/ (\E job \in Job : Command(w, job))
  <2>1. UNCHANGED <<lock, driver, epoch, left>> /\ NoNewDriver
    <3>1. CASE ProbeAsk(w)
      <4>1. /\ UNCHANGED <<lock, driver, epoch, left, stray, live, born>>
            /\ flight' = flight \/ flight.step = "off"
        BY <3>1 DEF ProbeAsk, past
      <4>2. flight.step = "off" => flight.proc = 0  BY DEF ApartInv
      <4>3. \A p \in live : p # 0  BY <1>o DEF ProcessOK
      <4>4. Drivers' \subseteq Drivers  BY <4>1, <4>2, <4>3 DEF Drivers, Helpers
      <4> QED  BY <4>1, <4>4 DEF NoNewDriver
    <3>2. CASE ~ProbeAsk(w)
      <4>1. UNCHANGED <<process, epoch, left>>
        BY <1>1, <3>2 DEF StopEnter, StopClear, StopForget, StopLeave, ReplaceReady, ProbePrompt,
                          ProbeStart, ProbeRead, ProbePublish, StopDrain, Command, past
      <4> QED  BY <4>1, LessDrivers DEF process
    <3> QED  BY <3>1, <3>2
  <2>2. worker[w].step \notin {"kill", "take", "stopping"}
    BY <1>1 DEF StopEnter, StopClear, StopForget, StopLeave, ReplaceReady, ProbePrompt, ProbeStart,
                ProbeRead, ProbeAsk, ProbePublish, StopDrain, Command
  <2>3. worker'[w].step # "stopping" /\ (worker[w].step = "drain" => worker'[w].step = "kill")
    <3>1. CASE StopDrain(w)
      BY <1>o, <3>1 DEF StopDrain, Move, WorkersOK, Errand
    <3>2. CASE \/ StopEnter(w) \/ StopClear(w) \/ StopForget(w) \/ StopLeave(w) \/ ReplaceReady(w)
      BY <1>o, <3>2 DEF StopEnter, StopClear, StopForget, StopLeave, ReplaceReady, Move, Done,
                        Rest, WorkersOK, Errand
    <3>3. CASE ProbeStart(w)
      BY <1>o, <3>3 DEF ProbeStart, WorkersOK, Errand
    <3>5. ASSUME NEW open \in BOOLEAN, ProbeRead(w, open)
          PROVE  worker'[w].step \in {"ask", "publish"} /\ worker[w].step = "read"
      BY <1>o, <3>5 DEF ProbeRead, WorkersOK, Errand
    <3>7. ASSUME NEW open \in BOOLEAN, ProbePrompt(w, open)
          PROVE  worker'[w].step \in {"ask", "rest"} /\ worker[w].step = "prompt"
      BY <1>o, <3>7 DEF ProbePrompt, Done, Rest, WorkersOK, Errand
    <3>8. CASE ProbeAsk(w)
      BY <1>o, <3>8 DEF ProbeAsk, Move, WorkersOK, Errand
    <3>6. ASSUME NEW sees \in BOOLEAN, ProbePublish(w, sees)
          PROVE  worker'[w].step \in {"enter", "rest"} /\ worker[w].step = "publish"
      <4>1. \/ worker' = [worker EXCEPT ![w].step = "enter"]
            \/ worker' = [worker EXCEPT ![w] = Rest.worker]
        BY <3>6 DEF ProbePublish, Move, Done
      <4>2. worker'[w].step \in {"enter", "rest"}
        BY <1>o, <4>1 DEF Rest, WorkersOK, Errand
      <4> QED  BY <3>6, <4>2 DEF ProbePublish
    <3>4. ASSUME NEW job \in Job, Command(w, job)
          PROVE  worker[w].step = "rest" /\ worker'[w].step # "stopping"
      <4>1. \E step \in {"probe", "enter", "clear"} :
                worker' = [worker EXCEPT ![w].job = job, ![w].step = step]
        BY <3>4 DEF Command
      <4>2. worker'[w].step \in {"probe", "enter", "clear"}
        BY <1>o, <4>1 DEF WorkersOK, Errand
      <4> QED  BY <3>4, <4>2 DEF Command
    <3> QED  BY <1>1, <3>1, <3>2, <3>3, <3>4, <3>5, <3>6, <3>7, <3>8
  <2>4. warm' = warm \/ (warm.step = "off" /\ warm'.step = "lock")
    <3>1. ASSUME NEW sees \in BOOLEAN, ProbePublish(w, sees)
          PROVE  warm' = warm \/ (warm.step = "off" /\ warm'.step = "lock")
      <4>1. warm' = warm \/ Schedule(worker[w].ok /\ sees, epoch)  BY <3>1 DEF ProbePublish
      <4> QED  BY <4>1 DEF Schedule
    <3>2. CASE ~\E sees \in BOOLEAN : ProbePublish(w, sees)
      BY <1>1, <3>2 DEF StopEnter, StopClear, StopForget, StopLeave, ReplaceReady, ProbePrompt,
                        ProbeStart, ProbeRead, ProbeAsk, StopDrain, Command
    <3> QED  BY <3>1, <3>2
  <2>5. (WarmHolds' <=> WarmHolds) /\ (WarmHolds => warm' = warm)
    BY <2>4 DEF WarmHolds
  <2>6. \A v \in Worker : /\ WorkerHolds(v)' <=> WorkerHolds(v)
                          /\ WorkerHolds(v) => worker'[v] = worker[v]
                          /\ BeforeTake(v) => BeforeTake(v)'
    BY <1>f, <2>2, <2>3 DEF WorkerHolds, BeforeTake
  <2> QED  BY <1>p, <2>1, <2>5, <2>6, DriverFrame
\* an epoch ends: from here on this Stop answers for what is older
<1>2. CASE StopBump(w)
  <2>1. UNCHANGED <<process, warm, left>>  BY <1>2 DEF StopBump, past
  <2>n. NoNewDriver  BY <2>1, LessDrivers DEF process
  <2>2. worker[w].step = "bump" /\ worker'[w].step = "drain"
    BY <1>o, <1>2 DEF StopBump, Move, WorkersOK, Errand
  <2>3. SomeStop'  BY <2>2 DEF SomeStop, BeforeTake
  <2>4. \A v \in Worker : /\ WorkerHolds(v)' <=> WorkerHolds(v)
                          /\ WorkerHolds(v) => worker'[v] = worker[v]
    BY <1>f, <2>2 DEF WorkerHolds
  <2>5. LockInv'  BY <1>o, <1>p, <2>1, <2>4 DEF LockInv, WarmHolds, process
  <2>6. SlotInv'  BY <1>o, <1>p, <2>1, <2>4, <2>n DEF SlotInv, WarmHolds, process, NoNewDriver
  <2> QED  BY <2>3, <2>5, <2>6 DEF DriverInv, StopInv
\* the process is killed by its pid
<1>3. CASE StopKill(w)
  <2>1. /\ UNCHANGED <<lock, driver, starts, born, apart, warm, left, epoch>>
        /\ live' \subseteq live
    BY <1>3 DEF StopKill, past
  <2>n. NoNewDriver  BY <2>1, LessDrivers
  <2>2. worker[w].step = "kill" /\ worker'[w].step = "take"
    BY <1>o, <1>3 DEF StopKill, Move, WorkersOK, Errand
  <2>3. SomeStop'  BY <2>2 DEF SomeStop, BeforeTake
  <2>4. \A v \in Worker : /\ WorkerHolds(v)' <=> WorkerHolds(v)
                          /\ WorkerHolds(v) => worker'[v] = worker[v]
    BY <1>f, <2>2 DEF WorkerHolds
  <2>5. LockInv'  BY <1>o, <1>p, <2>1, <2>4 DEF LockInv, WarmHolds
  <2>6. SlotInv'  BY <1>o, <1>p, <2>1, <2>4, <2>n DEF SlotInv, WarmHolds, NoNewDriver
  <2> QED  BY <2>3, <2>5, <2>6 DEF DriverInv, StopInv
\* the slot is emptied, or was empty
<1>4. CASE StopTake(w)
  <2>1. /\ lock = "free" /\ ~OpHolds /\ ~OnTool("spawn") /\ ~WarmHolds
        /\ \A v \in Worker : ~WorkerHolds(v)
    BY <1>o, <1>4, Exclusive DEF StopTake, OpHolds
  <2>2. UNCHANGED <<starts, live, born, apart, warm, epoch, left>> /\ ~WarmHolds'
    BY <1>4, <2>1 DEF StopTake, WarmHolds, past
  <2>n. NoNewDriver  BY <2>2, LessDrivers
  <2>3. CASE driver = 0 /\ Move(w, "forget") /\ UNCHANGED <<lock, driver>>
    <3>1. Drivers' = {}
      <4>1. Drivers \subseteq {0} /\ Drivers \subseteq 1..starts
        BY <1>o, <2>1, <2>3, DriversRun DEF SlotInv
      <4>2. 0 \notin 1..starts  OBVIOUS
      <4> QED  BY <2>n, <4>1, <4>2 DEF NoNewDriver
    <3>2. worker'[w].step = "forget"
      BY <1>o, <2>3 DEF Move, WorkersOK, Errand
    <3>3. \A v \in Worker : ~WorkerHolds(v)'
      BY <1>f, <2>1, <3>2 DEF WorkerHolds
    <3>4. LockInv'  BY <1>p, <2>1, <2>2, <2>3, <3>3 DEF LockInv
    <3>5. SlotInv'  BY <1>p, <2>1, <2>2, <2>3, <3>1, <3>3 DEF SlotInv, WarmHolds
    <3>6. StopInv'  BY <1>p, <2>1, <2>2, <3>1 DEF StopInv
    <3> QED  BY <3>4, <3>5, <3>6 DEF DriverInv
  <2>4. CASE /\ worker' = [worker EXCEPT ![w].step = "stopping", ![w].took = driver]
             /\ lock' = "worker" /\ driver' = 0
    <3>1. worker'[w].step = "stopping" /\ worker'[w].took = driver
      BY <1>o, <2>4 DEF WorkersOK, Errand
    <3>2. \A v \in Worker : WorkerHolds(v)' <=> v = w
      BY <1>f, <2>1, <3>1 DEF WorkerHolds
    <3>3. LockInv'  BY <1>p, <2>1, <2>2, <2>4, <3>2 DEF LockInv
    <3>4. SlotInv'
      BY <1>o, <1>p, <2>1, <2>2, <2>n, <2>4, <3>1, <3>2 DEF SlotInv, WarmHolds, NoNewDriver
    <3>5. SomeStop'  BY <3>1 DEF SomeStop, BeforeTake
    <3> QED  BY <3>3, <3>4, <3>5 DEF DriverInv, StopInv
  <2> QED  BY <1>4, <2>3, <2>4 DEF StopTake
\* a shutdown gives up
<1>5. CASE QuitGivesUp(w)
  <2>1. UNCHANGED <<process, warm, epoch>> /\ left'
    BY <1>5 DEF QuitGivesUp
  <2>2. worker[w].step = "take" /\ worker'[w].step = "forget"
    BY <1>o, <1>5 DEF QuitGivesUp, Move, WorkersOK, Errand
  <2>3. \A v \in Worker : /\ WorkerHolds(v)' <=> WorkerHolds(v)
                          /\ WorkerHolds(v) => worker'[v] = worker[v]
    BY <1>f, <2>2 DEF WorkerHolds
  <2>4. LockInv'  BY <1>o, <1>p, <2>1, <2>3 DEF LockInv, WarmHolds, process
  <2>n. NoNewDriver  BY <2>1, LessDrivers DEF process
  <2>5. SlotInv'  BY <1>o, <1>p, <2>1, <2>3, <2>n DEF SlotInv, WarmHolds, process, NoNewDriver
  <2> QED  BY <2>1, <2>4, <2>5 DEF DriverInv, StopInv
\* the process the Stop took has ended
<1>6. CASE StopStopped(w)
  <2>1. /\ WorkerHolds(w) /\ lock = "worker" /\ ~OpHolds /\ ~OnTool("spawn") /\ ~WarmHolds
        /\ \A v \in Worker : WorkerHolds(v) => v = w
        /\ driver = 0 /\ Drivers \subseteq {worker[w].took}
    BY <1>o, <1>6 DEF StopStopped, WorkerHolds, LockInv, SlotInv, OpHolds
  <2>2. /\ UNCHANGED <<driver, starts, born, apart, warm, epoch, left>>
        /\ live' = live \ {worker[w].took} /\ lock' = "free"
    BY <1>6 DEF StopStopped, past
  <2>n. Drivers' = {}
    <3>1. NoNewDriver  BY <2>2, LessDrivers
    <3>2. Drivers' \subseteq live'  BY DEF Drivers
    <3> QED  BY <2>1, <2>2, <3>1, <3>2 DEF NoNewDriver
  <2>3. worker'[w].step = "forget"
    BY <1>o, <1>6 DEF StopStopped, Move, WorkersOK, Errand
  <2>4. (\A v \in Worker : ~WorkerHolds(v)') /\ ~WarmHolds'
    BY <1>f, <2>1, <2>2, <2>3 DEF WorkerHolds, WarmHolds
  <2>5. LockInv'  BY <1>p, <2>1, <2>2, <2>4 DEF LockInv
  <2>6. SlotInv'  BY <1>p, <2>1, <2>2, <2>n, <2>4 DEF SlotInv, WarmHolds
  <2>7. StopInv'  BY <1>p, <2>1, <2>2, <2>n, <2>4 DEF StopInv
  <2> QED  BY <2>5, <2>6, <2>7 DEF DriverInv
<1> QED  BY <1>1, <1>2, <1>3, <1>4, <1>5, <1>6 DEF WorkerStep

\* They move the commands that wait for the probe, and no others.
LEMMA FlightWorkers ==
    ASSUME TypeInv, FlightStep \/ \E p \in stray : StrayEnds(p), NEW w \in Worker
    PROVE  \/ worker'[w] = worker[w]
           \/ /\ worker[w].step = "await"
              /\ worker'[w].step \in {"publish", "ask", "probe", "rest"}
<1>1. worker' = worker \/ \E result : Land(result)
  BY DEF FlightStep, FlightStarts, FlightFails, FlightReads, StrayEnds, control
<1>2. ASSUME NEW result, Land(result), worker[w].step = "await"
      PROVE  worker'[w].step \in {"publish", "ask", "probe", "rest"}
  <2>1. worker'[w] = Told(worker[w], result)  BY <1>2 DEF Land, At_
  <2>2. worker[w] \in Errand  BY DEF TypeInv, ControlOK, WorkersOK
  <2> QED  BY <2>1, <2>2 DEF Told, Rest, Errand
<1> QED  BY <1>1, <1>2 DEF Land, At_

\* The permission probe and what failed starts left have no part in the mutex.
LEMMA HelperAside ==
    ASSUME TypeInv, ApartInv, DriverInv, FlightStep \/ \E p \in stray : StrayEnds(p)
    PROVE  DriverInv'
<1>1. UNCHANGED <<lock, driver, epoch, left, warm, op>>
  BY DEF FlightStep, FlightStarts, FlightFails, FlightReads, StrayEnds, control, past
<1>2. NoNewDriver
  <2>1. FlightFails => LaunchFails /\ flight.step # "check"  BY DEF FlightFails
  <2> QED  BY <2>1, HelperDrivers DEF FlightStep
<1>3. \A w \in Worker : \/ worker'[w] = worker[w]
                        \/ /\ worker[w].step = "await"
                           /\ worker'[w].step \in {"publish", "ask", "probe", "rest"}
  BY FlightWorkers
<1>4. /\ (OpHolds' <=> OpHolds) /\ (OnTool("spawn")' <=> OnTool("spawn"))
      /\ WarmHolds' <=> WarmHolds
  BY <1>1 DEF OpHolds, OnTool, Working, WarmHolds
<1>5. \A w \in Worker : /\ WorkerHolds(w)' <=> WorkerHolds(w)
                        /\ WorkerHolds(w) => worker'[w] = worker[w]
                        /\ BeforeTake(w) => BeforeTake(w)'
  BY <1>3 DEF WorkerHolds, BeforeTake
<1> QED  BY <1>1, <1>2, <1>4, <1>5, DriverFrame

\* Every step keeps the account of the driver.
LEMMA NextDriver == TypeInv /\ ApartInv /\ DriverInv /\ [Next]_vars => DriverInv'
<1> SUFFICES ASSUME TypeInv, ApartInv, DriverInv, [Next]_vars PROVE DriverInv'
  OBVIOUS
<1>1. CASE \/ \E s \in Session : BeginRun(s) \/ EndRun(s)
           \/ BeginStep \/ (\E allow \in BOOLEAN : Respond(allow)) \/ UNCHANGED vars
  BY <1>1, WindowAside
<1>2. CASE \/ \E g \in ending : EndIdle(g)
           \/ \E kind \in Kind, a \in App, permit \in {"none", "match", "mismatch"} :
                  Enter(kind, a, permit)
           \/ CheckIdle \/ CleanIdle
  BY <1>2, BeginAside
<1>3. CASE \/ ReadTask \/ CheckEligible \/ Aim \/ Alias \/ TaskCheck \/ FullCheck
           \/ (\E b \in App : KnownAlias(b))
           \/ (\E b \in BOOLEAN : Join(b) \/ Confirm(b) \/ Again(b))
  BY <1>3, PlanAside
<1>4. CASE \/ Authorize \/ Answered \/ ApprovalTimeout \/ Recheck \/ Reeligible
           \/ Remember \/ Settle
  BY <1>4, AuthorizeAside
<1>5. CASE Store \/ Verify \/ Select \/ Keep \/ (\E b \in App : Identify(b))
  BY <1>5, TargetAside
<1>6. CASE \/ CallCheck \/ CallLock \/ CallSpawn \/ CallSpawnFails \/ CallSend
           \/ CallReturns \/ CallFails
  BY <1>6, CallDriver
<1>7. CASE WarmTask  BY <1>7, WarmDriver
<1>8. CASE DriverDies  BY <1>8, DeathDriver
<1>9. ASSUME NEW w \in Worker, WorkerStep(w) \/ (\E job \in Job : Command(w, job))
      PROVE  DriverInv'
  BY <1>9, WorkerDriver
<1>10. CASE FlightStep \/ \E p \in stray : StrayEnds(p)  BY <1>10, HelperAside
<1> QED
  BY <1>1, <1>2, <1>3, <1>4, <1>5, <1>6, <1>7, <1>8, <1>9, <1>10 DEF Next, OpStep

\* The account of the driver holds in every behaviour.
LEMMA AlwaysDriver == Spec => []DriverInv
<1>1. Init => DriverInv
  <2> SUFFICES ASSUME Init PROVE DriverInv
    OBVIOUS
  <2>1. ~OpHolds /\ ~OnTool("spawn")  BY DEF Init, NoPlan, OpHolds, OnTool
  <2>2. ~WarmHolds /\ (\A w \in Worker : ~WorkerHolds(w)) /\ Drivers = {} /\ lock = "free"
    BY DEF Init, Rest, WarmHolds, WorkerHolds, Drivers
  <2> QED  BY <2>1, <2>2 DEF DriverInv, LockInv, SlotInv, StopInv, WarmHolds
<1> QED  BY <1>1, NextDriver, AlwaysTyped, AlwaysApart, PTL DEF Spec

\* Two drivers never run at once, and no process that the permission probe
\* started or that a failed start left is ever the driver.
THEOREM OneDriverAtATime == Spec => []OneDriver
<1>1. TypeInv /\ ApartInv /\ DriverInv => OneDriver  BY OneDriverRuns DEF DriverInv
<1> QED  BY <1>1, AlwaysTyped, AlwaysApart, AlwaysDriver, PTL

\* A driver that was started before a Stop, or beside one, is ended by a Stop,
\* unless a shutdown gave up waiting for it.
THEOREM StopsEndTheDriver == Spec => []StoppedDriverEnds
<1>1. DriverInv => StoppedDriverEnds  BY DriverEnds DEF DriverInv
<1> QED  BY <1>1, AlwaysDriver, PTL

-----------------------------------------------------------------------------
(* What an operation carries through its steps *)

\* Some steps of a plan are always followed by a certain other one.
Chained(s) ==
    \A i \in 1..Len(s) : /\ s[i] = "task" => i < Len(s) /\ s[i + 1] = "eligible"
                         /\ s[i] = "identify" => i < Len(s) /\ s[i + 1] = "keep"
Unchained(s) == \A i \in 1..Len(s) : s[i] \notin {"task", "identify"}

\* An operation that differs in what it is about, not in when it began.
SameWork(o) ==
    /\ o.kind = op.kind /\ o.todo = op.todo /\ o.epoch = op.epoch /\ o.gen = op.gen
    /\ o.task = op.task
More == {<<"windows">>, <<"authorize">>, Look,
         <<"task_check", "raise", "task_check", "refresh">>}
\* The forms of a step of an operation.
StepForm ==
    \/ Finish
    \/ \E o \in Operation :
           /\ SameWork(o)
           /\ Go(o) \/ op' = o \/ \E steps \in More : Instead(steps, o)

\* What every step but the reading of the task leaves as it was.
Carries ==
    \/ op' = NoPlan
    \/ /\ op'.kind = op.kind /\ op'.epoch = op.epoch /\ op'.gen = op.gen
       /\ op'.task = op.task

\* The rest of a chained plan is chained.
LEMMA ChainedTail ==
    ASSUME NEW S, NEW s \in Seq(S), s # <<>>, Chained(s)
    PROVE  Chained(Tail(s))
<1>1. /\ Tail(s) \in Seq(S) /\ Len(s) \in Nat /\ Len(Tail(s)) = Len(s) - 1
      /\ \A i \in 1..Len(Tail(s)) : Tail(s)[i] = s[i + 1]
  BY HeadTailProperties, LenProperties
<1> DEFINE t == Tail(s)
<1> HIDE DEF t
<1>2. Len(t) = Len(s) - 1 /\ \A i \in 1..Len(t) : t[i] = s[i + 1]
  BY <1>1 DEF t
<1>3. Chained(t)
  <2> SUFFICES ASSUME NEW i \in 1..Len(t)
               PROVE  /\ t[i] = "task" => i < Len(t) /\ t[i + 1] = "eligible"
                      /\ t[i] = "identify" => i < Len(t) /\ t[i + 1] = "keep"
    BY DEF Chained
  <2>1. i + 1 \in 1..Len(s) /\ t[i] = s[i + 1]  BY <1>1, <1>2
  <2>2. /\ s[i + 1] = "task" => i + 1 < Len(s) /\ s[(i + 1) + 1] = "eligible"
        /\ s[i + 1] = "identify" => i + 1 < Len(s) /\ s[(i + 1) + 1] = "keep"
    BY <2>1 DEF Chained
  <2>3. i + 1 < Len(s) => t[i + 1] = s[(i + 1) + 1] /\ i < Len(t)
    BY <1>1, <1>2
  <2> QED  BY <2>1, <2>2, <2>3
<1> QED  BY <1>3 DEF t

\* Steps without a task or an identification may precede a chained plan.
LEMMA ChainedConcat ==
    ASSUME NEW S, NEW s \in Seq(S), NEW t \in Seq(S), Unchained(s), Chained(t)
    PROVE  Chained(s \o t)
<1>1. /\ Len(s) \in Nat /\ Len(t) \in Nat /\ Len(s \o t) = Len(s) + Len(t)
      /\ \A i \in 1..Len(s) + Len(t) :
             (s \o t)[i] = IF i <= Len(s) THEN s[i] ELSE t[i - Len(s)]
  BY ConcatProperties, LenProperties
<1> DEFINE c == s \o t
<1> HIDE DEF c
<1>2. /\ Len(c) = Len(s) + Len(t)
      /\ \A i \in 1..Len(s) + Len(t) : c[i] = IF i <= Len(s) THEN s[i] ELSE t[i - Len(s)]
  BY <1>1 DEF c
<1>3. Chained(c)
  <2> SUFFICES ASSUME NEW i \in 1..Len(c)
               PROVE  /\ c[i] = "task" => i < Len(c) /\ c[i + 1] = "eligible"
                      /\ c[i] = "identify" => i < Len(c) /\ c[i + 1] = "keep"
    BY DEF Chained
  <2>1. CASE i <= Len(s)
    <3>1. c[i] = s[i] /\ i \in 1..Len(s)  BY <1>1, <1>2, <2>1
    <3> QED  BY <3>1 DEF Unchained
  <2>2. CASE i > Len(s)
    <3> DEFINE j == i - Len(s)
    <3>1. j \in 1..Len(t) /\ c[i] = t[j]  BY <1>1, <1>2, <2>2
    <3>2. /\ t[j] = "task" => j < Len(t) /\ t[j + 1] = "eligible"
          /\ t[j] = "identify" => j < Len(t) /\ t[j + 1] = "keep"
      BY <3>1 DEF Chained
    <3>3. j < Len(t) => i < Len(c) /\ c[i + 1] = t[j + 1]
      BY <1>1, <1>2, <2>2
    <3> QED  BY <3>1, <3>2, <3>3
  <2> QED  BY <1>1, <2>1, <2>2
<1> QED  BY <1>3 DEF c

\* The steps put in place of another read no task and identify nothing.
LEMMA MoreSteps ==
    ASSUME NEW s \in More
    PROVE  s \in Seq(Steps) /\ Unchained(s)
<1> DEFINE Plain == Steps \ {"task", "identify"}
<1>1. s \in Seq(Plain)
  <2>1. /\ "windows" \in Plain /\ "authorize" \in Plain /\ "refresh" \in Plain
        /\ "join" \in Plain /\ "task_check" \in Plain /\ "observe" \in Plain
        /\ "store" \in Plain /\ "verify" \in Plain /\ "raise" \in Plain
    BY DEF Steps, Tool
  <2> HIDE DEF Plain
  <2>2. <<"windows">> \in Seq(Plain) /\ <<"authorize">> \in Seq(Plain)
    BY <2>1
  <2>3. Look \in Seq(Plain)  BY <2>1 DEF Look
  <2>4. <<"task_check", "raise", "task_check", "refresh">> \in Seq(Plain)  BY <2>1
  <2> QED  BY <2>2, <2>3, <2>4 DEF More
<1>2. \A i \in 1..Len(s) : s[i] \in Plain  BY <1>1, ElementOfSeq
<1>3. s \in Seq(Steps)  BY <1>1, SeqMonotonic
<1> QED  BY <1>2, <1>3 DEF Unchained

\* The steps of an action take one of the forms.
LEMMA PlainForm ==
    ASSUME op \in Operation,
           Advance \/ Go(op) \/ Finish \/ (\E at \in At : Within(at))
    PROVE  StepForm
<1>1. CASE Advance \/ Go(op) \/ Finish
  BY <1>1 DEF Advance, StepForm, SameWork
<1>2. ASSUME NEW at \in At, Within(at) PROVE StepForm
  <2>1. [op EXCEPT !.at = at] \in Operation /\ SameWork([op EXCEPT !.at = at])
    BY DEF Operation, SameWork
  <2> QED  BY <1>2, <2>1 DEF Within, StepForm
<1> QED  BY <1>1, <1>2

\* The checks of a plan have the form of a step.
LEMMA FormOfPlanSteps ==
    ASSUME TypeInv,
           \/ CheckEligible \/ Aim \/ Alias \/ TaskCheck \/ FullCheck
           \/ (\E b \in App : KnownAlias(b))
           \/ (\E b \in BOOLEAN : Join(b) \/ Confirm(b) \/ Again(b))
    PROVE  StepForm
<1>o. OpOK /\ op \in Operation  BY DEF TypeInv, OpOK
<1>s. \A o \in Operation : SameWork(o) /\ Go(o) => StepForm
  BY DEF StepForm
<1>i. \A o \in Operation, steps \in More : SameWork(o) /\ Instead(steps, o) => StepForm
  BY DEF StepForm
<1>1. CASE CheckEligible \/ TaskCheck \/ FullCheck
  BY <1>o, <1>1, PlainForm DEF CheckEligible, TaskCheck, FullCheck
<1>2. ASSUME NEW b \in BOOLEAN, Confirm(b) PROVE StepForm
  BY <1>o, <1>2, PlainForm DEF Confirm
<1>3. CASE Aim
  <2>1. CASE target.app = NoApp  BY <1>o, <1>3, <2>1, PlainForm DEF Aim
  <2>2. CASE target.app # NoApp
    <3>1. target.app \in App  BY <2>2 DEF TypeInv, RestOK, TargetOK
    <3> DEFINE o == [op EXCEPT !.app = target.app, !.key = <<"id", target.app>>]
    <3>2. <<"id", target.app>> \in Key  BY <3>1 DEF Key
    <3>3. o \in Operation /\ SameWork(o)  BY <1>o, <3>1, <3>2 DEF Operation, SameWork
    <3>4. Go(o)  BY <1>3, <2>2 DEF Aim
    <3> HIDE DEF o
    <3> QED  BY <1>s, <3>3, <3>4
  <2> QED  BY <2>1, <2>2
<1>4. CASE Alias
  <2> DEFINE o == [op EXCEPT !.named = TRUE]
  <2>1. o \in Operation /\ SameWork(o)  BY <1>o DEF Operation, SameWork
  <2>2. Go(o) \/ Instead(<<"windows">>, o)  BY <1>4 DEF Alias
  <2>3. <<"windows">> \in More  BY DEF More
  <2> HIDE DEF o
  <2> QED  BY <1>s, <1>i, <2>1, <2>2, <2>3
<1>5. ASSUME NEW b \in App, KnownAlias(b) PROVE StepForm
  <2> DEFINE o == [op EXCEPT !.named = FALSE]
  <2>1. o \in Operation /\ SameWork(o)  BY <1>o DEF Operation, SameWork
  <2>2. Go(o)  BY <1>5 DEF KnownAlias
  <2> HIDE DEF o
  <2> QED  BY <1>s, <2>1, <2>2
<1>6. ASSUME NEW b \in BOOLEAN, Join(b) PROVE StepForm
  <2> DEFINE o == [op EXCEPT !.fresh = TRUE]
             more == <<"task_check", "raise", "task_check", "refresh">>
  <2>1. o \in Operation /\ SameWork(o)  BY <1>o DEF Operation, SameWork
  <2>2. Advance \/ Instead(more, o)  BY <1>6 DEF Join
  <2>3. more \in More  BY DEF More
  <2> HIDE DEF o, more
  <2> QED  BY <1>o, <1>i, <2>1, <2>2, <2>3, PlainForm
<1>7. ASSUME NEW b \in BOOLEAN, Again(b) PROVE StepForm
  <2>1. SameWork(op) /\ Look \in More  BY DEF SameWork, More
  <2>2. Finish \/ Instead(Look, op)  BY <1>7 DEF Again
  <2> QED  BY <1>o, <1>i, <2>1, <2>2, PlainForm
<1> QED  BY <1>1, <1>2, <1>3, <1>4, <1>5, <1>6, <1>7

\* Asking for and settling an approval has the form of a step.
LEMMA FormOfAuthorize ==
    ASSUME TypeInv,
           \/ Authorize \/ Answered \/ ApprovalTimeout \/ Recheck \/ Reeligible
           \/ Remember \/ Settle
    PROVE  StepForm
<1>o. op \in Operation  BY DEF TypeInv, OpOK
<1>c. "recheck" \in At /\ "reeligible" \in At /\ "remember" \in At /\ "settle" \in At
      /\ "parked" \in At
  BY DEF At
<1>1. CASE Authorize
  <2> DEFINE e == [Spent EXCEPT !.at = "recheck"]
             f == [Spent EXCEPT !.at = "parked", !.fresh = TRUE]
  <2>1. Spent \in Operation /\ SameWork(Spent)
    BY <1>o DEF Spent, Operation, Permit, SameWork
  <2>2. e \in Operation /\ SameWork(e) /\ f \in Operation /\ SameWork(f)
    BY <2>1, <1>c DEF Operation, SameWork
  <2>3. Finish \/ op' = e \/ op' = f \/ Go(Spent)  BY <1>1 DEF Authorize
  <2> HIDE DEF e, f
  <2> QED  BY <2>1, <2>2, <2>3 DEF StepForm
<1>2. CASE Answered \/ ApprovalTimeout \/ Recheck \/ Reeligible \/ Remember \/ Settle
  BY <1>o, <1>c, <1>2, PlainForm
     DEF Answered, ApprovalTimeout, Recheck, Reeligible, Remember, Settle
<1> QED  BY <1>1, <1>2

\* Storing, verifying and identifying a target has the form of a step.
LEMMA FormOfTarget ==
    ASSUME TypeInv,
           Store \/ Verify \/ Select \/ Keep \/ (\E b \in App : Identify(b))
    PROVE  StepForm
<1>o. op \in Operation  BY DEF TypeInv, OpOK
<1>1. CASE Store \/ Verify \/ Select \/ Keep
  BY <1>o, <1>1, PlainForm DEF Store, Verify, Select, Keep
<1>2. ASSUME NEW b \in App, Identify(b) PROVE StepForm
  <2> DEFINE o == [op EXCEPT !.app = b, !.key = <<"id", b>>]
  <2>1. <<"id", b>> \in Key  BY DEF Key
  <2>2. o \in Operation /\ SameWork(o)  BY <1>o, <2>1 DEF Operation, SameWork
  <2>3. Go(o) \/ Instead(<<"authorize">>, o)  BY <1>2 DEF Identify
  <2>4. <<"authorize">> \in More  BY DEF More
  <2> HIDE DEF o
  <2> QED  BY <2>2, <2>3, <2>4 DEF StepForm
<1> QED  BY <1>1, <1>2

\* Calling the driver has the form of a step.
LEMMA FormOfCall ==
    ASSUME TypeInv,
           \/ CallCheck \/ CallLock \/ CallSpawn \/ CallSpawnFails \/ CallSend
           \/ CallReturns \/ CallFails
    PROVE  StepForm
<1>o. op \in Operation  BY DEF TypeInv, OpOK
<1>c. "wait" \in At /\ "spawn" \in At /\ "send" \in At /\ "call" \in At
  BY DEF At
<1> QED
  BY <1>o, <1>c, PlainForm
     DEF CallCheck, CallLock, CallSpawn, CallSpawnFails, CallSend, CallReturns, CallFails

\* A step of that form carries the plan on, still chained.
LEMMA FormCarries ==
    ASSUME OpOK, Working, Chained(op.todo), StepForm
    PROVE  Carries /\ Chained(op'.todo)
<1>t. op.todo \in Seq(Steps) /\ op.todo # <<>>  BY DEF OpOK, Operation, Working
<1>1. CASE Finish
  <2>1. op' = NoPlan /\ op'.todo = <<>>  BY <1>1 DEF Finish, NoPlan
  <2> QED  BY <2>1 DEF Carries, Chained
<1>2. ASSUME NEW o \in Operation, SameWork(o), op' = o
      PROVE  Carries /\ Chained(op'.todo)
  BY <1>2 DEF SameWork, Carries
<1>3. ASSUME NEW o \in Operation, SameWork(o), Go(o)
      PROVE  Carries /\ Chained(op'.todo)
  <2> DEFINE rest == IF Len(o.todo) > 1 /\ o.todo[2] = "refresh" /\ ~o.fresh
                     THEN Tail(Tail(o.todo)) ELSE Tail(o.todo)
  <2>1. op' = [o EXCEPT !.at = "start", !.todo = rest]  BY <1>3 DEF Go
  <2>2. Chained(rest)
    <3>1. o.todo = op.todo  BY <1>3 DEF SameWork
    <3>2. Chained(Tail(op.todo)) /\ Tail(op.todo) \in Seq(Steps)
      BY <1>t, ChainedTail, TailOfPlan
    <3>3. Len(op.todo) > 1 => Tail(op.todo) # <<>>  BY <1>t, TailOfPlan
    <3>4. Len(op.todo) > 1 => Chained(Tail(Tail(op.todo)))
      BY <3>2, <3>3, ChainedTail
    <3> QED  BY <3>1, <3>2, <3>4
  <2> HIDE DEF rest
  <2>3. /\ op'.kind = o.kind /\ op'.epoch = o.epoch /\ op'.gen = o.gen /\ op'.task = o.task
        /\ op'.todo = rest
    BY <2>1 DEF Operation
  <2> QED  BY <1>3, <2>2, <2>3 DEF SameWork, Carries
<1>4. ASSUME NEW o \in Operation, SameWork(o), NEW steps \in More, Instead(steps, o)
      PROVE  Carries /\ Chained(op'.todo)
  <2> DEFINE rest == steps \o Tail(o.todo)
  <2>1. op' = [o EXCEPT !.at = "start", !.todo = rest]  BY <1>4 DEF Instead
  <2>2. Chained(rest)
    <3>1. o.todo = op.todo  BY <1>4 DEF SameWork
    <3>2. Chained(Tail(op.todo)) /\ Tail(op.todo) \in Seq(Steps)
      BY <1>t, ChainedTail, TailOfPlan
    <3>3. steps \in Seq(Steps) /\ Unchained(steps)  BY MoreSteps
    <3> QED  BY <3>1, <3>2, <3>3, ChainedConcat
  <2> HIDE DEF rest
  <2>3. /\ op'.kind = o.kind /\ op'.epoch = o.epoch /\ op'.gen = o.gen /\ op'.task = o.task
        /\ op'.todo = rest
    BY <2>1 DEF Operation
  <2> QED  BY <1>4, <2>2, <2>3 DEF SameWork, Carries
<1> QED  BY <1>1, <1>2, <1>3, <1>4 DEF StepForm

\* Every step of an operation but the reading of the task is of that form.
LEMMA OpCarries ==
    ASSUME TypeInv, Chained(op.todo), OpStep, ~ReadTask
    PROVE  Working /\ Head(op.todo) # "task" /\ Carries /\ Chained(op'.todo)
<1>o. OpOK /\ op \in Operation  BY DEF TypeInv, OpOK
<1> USE DEF On, OnTool, Tool
<1>1. CASE CheckIdle \/ CleanIdle
  <2>1. StepForm  BY <1>o, <1>1, PlainForm DEF CheckIdle, CleanIdle
  <2>2. Working /\ Head(op.todo) # "task"  BY <1>1 DEF CheckIdle, CleanIdle
  <2> QED  BY <1>o, <2>1, <2>2, FormCarries
<1>2. CASE \/ CheckEligible \/ Aim \/ Alias \/ TaskCheck \/ FullCheck
           \/ (\E b \in App : KnownAlias(b))
           \/ (\E b \in BOOLEAN : Join(b) \/ Confirm(b) \/ Again(b))
  <2>1. StepForm  BY <1>2, FormOfPlanSteps
  <2>2. Working /\ Head(op.todo) # "task"
    BY <1>2 DEF CheckEligible, Aim, Alias, TaskCheck, FullCheck, KnownAlias, Join, Confirm, Again
  <2> QED  BY <1>o, <2>1, <2>2, FormCarries
<1>3. CASE \/ Authorize \/ Answered \/ ApprovalTimeout \/ Recheck \/ Reeligible
           \/ Remember \/ Settle
  <2>1. StepForm  BY <1>3, FormOfAuthorize
  <2>2. Working /\ Head(op.todo) # "task"
    BY <1>3 DEF Authorize, Answered, ApprovalTimeout, Recheck, Reeligible, Remember, Settle
  <2> QED  BY <1>o, <2>1, <2>2, FormCarries
<1>4. CASE Store \/ Verify \/ Select \/ Keep \/ (\E b \in App : Identify(b))
  <2>1. StepForm  BY <1>4, FormOfTarget
  <2>2. Working /\ Head(op.todo) # "task"
    BY <1>4 DEF Store, Verify, Select, Keep, Identify
  <2> QED  BY <1>o, <2>1, <2>2, FormCarries
<1>5. CASE \/ CallCheck \/ CallLock \/ CallSpawn \/ CallSpawnFails \/ CallSend
           \/ CallReturns \/ CallFails
  <2>1. StepForm  BY <1>5, FormOfCall
  <2>2. Working /\ Head(op.todo) # "task"
    BY <1>5 DEF CallCheck, CallLock, CallSpawn, CallSpawnFails, CallSend, CallReturns, CallFails
  <2> QED  BY <1>o, <2>1, <2>2, FormCarries
<1> QED  BY <1>1, <1>2, <1>3, <1>4, <1>5 DEF OpStep

\* The step after one that announces it.
LEMMA NextOfChain ==
    ASSUME OpOK, Working, Chained(op.todo), Head(op.todo) \in {"task", "identify"},
           NEW o \in Operation, o.todo = op.todo, Go(o)
    PROVE  /\ Chained(op'.todo) /\ op'.todo # <<>> /\ op'.at = "start"
           /\ Head(op.todo) = "task" => Head(op'.todo) = "eligible"
           /\ Head(op.todo) = "identify" => Head(op'.todo) = "keep"
           /\ op'.kind = o.kind /\ op'.epoch = o.epoch /\ op'.gen = o.gen
           /\ op'.task = o.task /\ op'.key = o.key
<1> DEFINE s == op.todo
<1>1. s \in Seq(Steps) /\ s # <<>> /\ Chained(s) /\ Head(s) \in {"task", "identify"}
  BY DEF OpOK, Operation, Working
<1> HIDE DEF s
<1>2. Len(s) \in Nat /\ Len(s) >= 1 /\ Head(s) = s[1]  BY <1>1
<1>3. Len(s) > 1 /\ (s[1] = "task" => s[2] = "eligible") /\ (s[1] = "identify" => s[2] = "keep")
  <2>1. 1 \in 1..Len(s)  BY <1>2
  <2> QED  BY <1>1, <1>2, <2>1 DEF Chained
<1>4. Tail(s) \in Seq(Steps) /\ Tail(s) # <<>> /\ Head(Tail(s)) = s[2]
  <2>1. Tail(s) \in Seq(Steps) /\ Tail(s) # <<>>  BY <1>1, <1>3, TailOfPlan
  <2>2. Head(Tail(s)) = Tail(s)[1] /\ Len(Tail(s)) >= 1  BY <2>1
  <2>3. \A i \in 1..Len(Tail(s)) : Tail(s)[i] = s[i + 1]  BY <1>1, HeadTailProperties
  <2> QED  BY <2>1, <2>2, <2>3
<1>5. Chained(Tail(s))  BY <1>1, ChainedTail
<1>6. op' = [o EXCEPT !.at = "start", !.todo = Tail(s)]
  BY <1>1, <1>2, <1>3 DEF Go, s
<1>7. /\ op'.todo = Tail(s) /\ op'.at = "start" /\ op'.kind = o.kind /\ op'.epoch = o.epoch
      /\ op'.gen = o.gen /\ op'.task = o.task /\ op'.key = o.key
  BY <1>6 DEF Operation
<1>8. Head(op.todo) = s[1]  BY <1>2 DEF s
<1> QED  BY <1>3, <1>4, <1>5, <1>7, <1>8

\* Reading the task takes its generation and leaves the eligibility check next.
LEMMA TaskIsRead ==
    ASSUME TypeInv, Chained(op.todo), ReadTask
    PROVE  /\ Chained(op'.todo) /\ op'.todo # <<>> /\ Head(op'.todo) = "eligible"
           /\ op'.kind = op.kind /\ op'.epoch = op.epoch /\ op'.gen = gen /\ op'.task = task
<1> DEFINE o == [op EXCEPT !.gen = gen, !.task = task]
<1>1. OpOK /\ op \in Operation /\ gen \in Nat /\ task \in Nat
  BY DEF TypeInv, OpOK, SessionOK
<1>2. /\ o \in Operation /\ o.todo = op.todo /\ o.kind = op.kind /\ o.epoch = op.epoch
      /\ o.gen = gen /\ o.task = task
  BY <1>1 DEF Operation
<1>3. Working /\ Head(op.todo) = "task" /\ Go(o)  BY DEF ReadTask, On
<1> HIDE DEF o
<1> QED  BY <1>1, <1>2, <1>3, NextOfChain

\* What no step of an operation touches.
LEMMA OpFrame ==
    ASSUME OpStep
    PROVE  UNCHANGED <<runs, gen, task, grant, epoch, worker, begin>>
<1> USE DEF session, control, past
<1>1. CASE \/ CheckIdle \/ CleanIdle \/ ReadTask \/ CheckEligible \/ Aim \/ Alias \/ TaskCheck
           \/ FullCheck \/ (\E b \in App : KnownAlias(b))
           \/ (\E b \in BOOLEAN : Join(b) \/ Confirm(b) \/ Again(b))
  BY <1>1 DEF CheckIdle, CleanIdle, ReadTask, CheckEligible, Aim, Alias, TaskCheck, FullCheck,
              KnownAlias, Join, Confirm, Again
<1>2. CASE \/ Authorize \/ Answered \/ ApprovalTimeout \/ Recheck \/ Reeligible
           \/ Remember \/ Settle
  BY <1>2 DEF Authorize, Answered, ApprovalTimeout, Recheck, Reeligible, Remember, Settle
<1>3. CASE Store \/ Verify \/ Select \/ Keep \/ (\E b \in App : Identify(b))
  BY <1>3 DEF Store, Verify, Select, Keep, Identify
<1>4. CASE \/ CallCheck \/ CallLock \/ CallSpawn \/ CallSpawnFails \/ CallSend
           \/ CallReturns \/ CallFails
  BY <1>4 DEF CallCheck, CallLock, CallSpawn, CallSpawnFails, CallSend, CallReturns, CallFails
<1> QED  BY <1>1, <1>2, <1>3, <1>4 DEF OpStep

\* How a plan begins.
LEMMA PlanIsChained ==
    ASSUME NEW kind \in Kinds
    PROVE  /\ Chained(Plan(kind)) /\ Plan(kind) # <<>>
           /\ kind # "remote" => Head(Plan(kind)) = "task"
<1>1. CASE kind = "capture"
  <2> DEFINE s == Plan(kind)
         t == <<"task", "eligible">>
  <2>0. s = t \o Look  BY <1>1 DEF Plan
  <2>t. t \in Seq(Steps) /\ Len(t) = 2 /\ t[1] = "task" /\ t[2] = "eligible"  BY DEF Steps
  <2>l. Look \in Seq(Steps) /\ Len(Look) = 8 /\ Unchained(Look)
    <3>1. Look \in Seq(Steps) /\ Unchained(Look)  BY MoreSteps DEF More
    <3> QED  BY <3>1 DEF Look
  <2> HIDE DEF s, t
  <2>1. /\ Len(s) = 10 /\ s \in Seq(Steps)
        /\ \A i \in 1..10 : s[i] = IF i <= 2 THEN t[i] ELSE Look[i - 2]
    <3> HIDE DEF Look
    <3>1. /\ t \o Look \in Seq(Steps) /\ Len(t \o Look) = Len(t) + Len(Look)
          /\ \A i \in 1..Len(t) + Len(Look) :
                 (t \o Look)[i] = IF i <= Len(t) THEN t[i] ELSE Look[i - Len(t)]
      BY <2>t, <2>l, ConcatProperties
    <3>2. /\ s \in Seq(Steps) /\ Len(s) = Len(t) + Len(Look)
          /\ \A i \in 1..Len(t) + Len(Look) : s[i] = IF i <= Len(t) THEN t[i] ELSE Look[i - Len(t)]
      BY <2>0, <3>1, Zenon
    <3>3. Len(t) = 2 /\ Len(Look) = 8  BY <2>t, <2>l
    <3> QED  BY <3>2, <3>3, SMTT(60)
  <2>2. s[1] = "task" /\ s[2] = "eligible"  BY <2>1, <2>t
  <2>3. \A i \in 3..10 : s[i] \notin {"task", "identify"}
    <3> SUFFICES ASSUME NEW i \in 3..10 PROVE s[i] \notin {"task", "identify"}
      OBVIOUS
    <3>1. i - 2 \in 1..Len(Look) /\ s[i] = Look[i - 2]  BY <2>1, <2>l
    <3> QED  BY <3>1, <2>l DEF Unchained
  <2>4. Chained(s)  BY <2>1, <2>2, <2>3 DEF Chained
  <2>5. s # <<>> /\ Head(s) = "task"
    <3>1. s \in Seq(Steps) /\ Len(s) = 10  BY <2>1
    <3>2. s # <<>>  BY <3>1
    <3> QED  BY <2>2, <3>1, <3>2, HeadTailProperties
  <2> QED  BY <2>4, <2>5 DEF s
<1>2. CASE kind = "focus"
  <2> DEFINE s == Plan(kind)
  <2>0. s = <<"task", "eligible", "windows", "authorize", "refresh", "join", "check", "select">>
    BY <1>2 DEF Plan
  <2> HIDE DEF s
  <2>1. Len(s) = 8 /\ s # <<>> /\ Head(s) = "task"  BY <2>0
  <2>2. Chained(s)
    <3>1. s[1] = "task" /\ s[2] = "eligible"  BY <2>0
    <3>2. \A i \in 2..8 : s[i] \notin {"task", "identify"}  BY <2>0
    <3> QED  BY <2>1, <3>1, <3>2 DEF Chained
  <2> QED  BY <2>1, <2>2 DEF s
<1>3. CASE kind = "open"
  <2> DEFINE s == Plan(kind)
  <2>0. s = <<"task", "eligible", "alias", "authorize", "task_check", "launch",
              "task_check", "identify", "keep", "windows", "join", "select">>
    BY <1>3 DEF Plan
  <2> HIDE DEF s
  <2>1. Len(s) = 12 /\ s # <<>> /\ Head(s) = "task"  BY <2>0
  <2>2. Chained(s)
    <3>1. s[1] = "task" /\ s[2] = "eligible" /\ s[8] = "identify" /\ s[9] = "keep"  BY <2>0
    <3>2. \A i \in 2..7 : s[i] \notin {"task", "identify"}  BY <2>0
    <3>3. \A i \in 9..12 : s[i] \notin {"task", "identify"}  BY <2>0
    <3> QED  BY <2>1, <3>1, <3>2, <3>3 DEF Chained
  <2> QED  BY <2>1, <2>2 DEF s
<1>4. CASE kind = "act"
  <2> DEFINE s == Plan(kind)
  <2>0. s = <<"task", "eligible", "aim", "authorize", "confirm", "windows", "observe",
              "confirm", "check", "tool", "again">>
    BY <1>4 DEF Plan
  <2> HIDE DEF s
  <2>1. Len(s) = 11 /\ s # <<>> /\ Head(s) = "task"  BY <2>0
  <2>2. Chained(s)
    <3>1. s[1] = "task" /\ s[2] = "eligible"  BY <2>0
    <3>2. \A i \in 2..11 : s[i] \notin {"task", "identify"}  BY <2>0
    <3> QED  BY <2>1, <3>1, <3>2 DEF Chained
  <2> QED  BY <2>1, <2>2 DEF s
<1>5. CASE kind = "list"
  BY <1>5 DEF Plan, Chained
<1>6. CASE kind = "remote"
  BY <1>6 DEF Plan, Chained
<1> QED  BY <1>1, <1>2, <1>3, <1>4, <1>5, <1>6 DEF Kinds

\* How an operation begins.
LEMMA WorkBegins ==
    ASSUME TypeInv,
           \/ \E g \in ending : EndIdle(g)
           \/ \E kind \in Kind, a \in App, permit \in {"none", "match", "mismatch"} :
                  Enter(kind, a, permit)
    PROVE  /\ ~Working /\ Chained(op'.todo) /\ op'.todo # <<>> /\ op'.epoch \in {0, epoch}
           /\ op'.kind \in Kind => /\ op'.epoch = epoch /\ op'.gen = 0 /\ op'.task = 0
                                   /\ op'.kind # "remote" => Head(op'.todo) = "task"
           /\ op'.kind \notin Kind => Head(op'.todo) = "idle"
           /\ UNCHANGED <<runs, gen, task, grant, epoch, worker, begin, auth, givenIn, target>>
<1>1. ASSUME NEW g \in ending, EndIdle(g)
      PROVE  /\ ~Working /\ op'.kind = "end" /\ op'.todo = <<"idle", "clean">> /\ op'.epoch = 0
             /\ UNCHANGED <<runs, gen, task, grant, epoch, worker, begin, auth, givenIn, target>>
  BY <1>1 DEF EndIdle, NoPlan, session
<1>2. ASSUME NEW kind \in Kind, NEW a \in App, NEW permit \in {"none", "match", "mismatch"},
             Enter(kind, a, permit)
      PROVE  /\ ~Working /\ op'.kind = kind /\ op'.todo = Plan(kind) /\ op'.epoch = epoch
             /\ op'.gen = 0 /\ op'.task = 0
             /\ UNCHANGED <<runs, gen, task, grant, epoch, worker, begin, auth, givenIn, target>>
  BY <1>2 DEF Enter, NoPlan, session, control
<1>3. Chained(<<"idle", "clean">>)  BY DEF Chained
<1>4. Kind \subseteq Kinds  BY ConstAssumption
<1>5. CASE \E g \in ending : EndIdle(g)
  BY <1>1, <1>3, <1>5, KindsApart
<1>6. ASSUME NEW kind \in Kind, NEW a \in App, NEW permit \in {"none", "match", "mismatch"},
             Enter(kind, a, permit)
      PROVE  /\ ~Working /\ Chained(op'.todo) /\ op'.todo # <<>> /\ op'.epoch = epoch
             /\ op'.kind \in Kind /\ op'.gen = 0 /\ op'.task = 0
             /\ op'.kind # "remote" => Head(op'.todo) = "task"
             /\ UNCHANGED <<runs, gen, task, grant, epoch, worker, begin, auth, givenIn, target>>
  <2>1. kind \in Kinds  BY <1>4
  <2> QED  BY <1>2, <1>6, <2>1, PlanIsChained
<1> QED  BY <1>5, <1>6

-----------------------------------------------------------------------------
(* What a command's step does *)

Stays == UNCHANGED <<runs, auth, epoch, target, grant>>
Course(w) ==
    LET from == worker[w].step
        to == worker'[w].step
    IN  \/ from = "enter" /\ to = "clear" /\ worker'[w].job = worker[w].job /\ Stays
        \/ /\ from = "clear" /\ to = "bump" /\ worker'[w].job = worker[w].job /\ runs' = {}
           /\ UNCHANGED <<auth, epoch, target, grant>>
        \/ /\ from = "bump" /\ to = "drain" /\ epoch' = epoch + 1
           /\ UNCHANGED <<runs, auth, target, grant>>
        \/ /\ \/ from = "drain" /\ to = "kill"
              \/ from = "kill" /\ to = "take"
              \/ from = "take" /\ to \in {"stopping", "forget"}
              \/ from = "stopping" /\ to = "forget"
           /\ Stays
        \/ /\ from = "forget" /\ to = "leave" /\ target' = Rest.target /\ auth' = {}
           /\ UNCHANGED <<runs, epoch, grant>>
        \/ /\ from \in {"leave", "replace", "prompt", "probe", "read", "ask", "publish"}
           /\ to \in {"rest", "replace", "prompt", "probe", "read", "ask", "await", "publish",
                      "enter"}
           /\ Stays
        \/ /\ from = "rest" /\ to \in {"enter", "clear", "probe"}
           /\ UNCHANGED <<runs, auth, epoch, target>>
           /\ \/ grant' = grant \/ grant'
              \/ to = "enter" /\ worker'[w].job = "revoke"

\* A command of a worker follows its course and leaves the session alone.
LEMMA WorkerCourse ==
    ASSUME TypeInv, NEW w \in Worker,
           WorkerStep(w) \/ (\E job \in Job : Command(w, job))
    PROVE  /\ Course(w) /\ UNCHANGED <<gen, task, givenIn, begin, op>>
           /\ \A v \in Worker : v # w => worker'[v] = worker[v]
<1>o. WorkersOK  BY DEF TypeInv, ControlOK
<1>1. UNCHANGED <<gen, task, givenIn, begin, op>>
  BY DEF WorkerStep, Command, StopEnter, StopClear, StopBump, StopDrain, StopKill, StopTake,
         QuitGivesUp, StopStopped, StopForget, StopLeave, ReplaceReady, ProbePrompt, ProbeStart,
         ProbeRead, ProbeAsk, ProbePublish, session
<1>2. \A v \in Worker : v # w => worker'[v] = worker[v]
  BY <1>o DEF WorkerStep, Command, StopEnter, StopClear, StopBump, StopDrain, StopKill, StopTake,
              QuitGivesUp, StopStopped, StopForget, StopLeave, ReplaceReady, ProbePrompt,
              ProbeStart, ProbeRead, ProbeAsk, ProbePublish, Move, Done, WorkersOK
<1> USE DEF At_, session
<1>3. \A step \in WorkerStates : Move(w, step) => /\ worker'[w].step = step
                                                  /\ worker'[w].job = worker[w].job
  BY <1>o DEF Move, WorkersOK, Errand
<1>4. Done(w) => worker'[w].step = "rest"
  BY <1>o DEF Done, WorkersOK, Rest
<1>5. ASSUME StopEnter(w) \/ StopClear(w) \/ StopBump(w) \/ StopDrain(w) \/ StopKill(w)
      PROVE  Course(w)
  BY <1>3, <1>5 DEF StopEnter, StopClear, StopBump, StopDrain, StopKill, WorkerStates, Course,
                    Stays
<1>6. ASSUME StopTake(w) \/ QuitGivesUp(w) \/ StopStopped(w)
      PROVE  Course(w)
  <2>1. ASSUME StopTake(w) PROVE Course(w)
    <3>1. driver # 0 => worker'[w].step = "stopping"
      BY <1>o, <2>1 DEF StopTake, WorkersOK, Errand
    <3> QED  BY <1>3, <2>1, <3>1 DEF StopTake, WorkerStates, Course, Stays
  <2>2. ASSUME QuitGivesUp(w) \/ StopStopped(w) PROVE Course(w)
    BY <1>3, <2>2 DEF QuitGivesUp, StopStopped, WorkerStates, Course, Stays
  <2> QED  BY <1>6, <2>1, <2>2
<1>7. ASSUME StopForget(w) \/ StopLeave(w) \/ ReplaceReady(w)
      PROVE  Course(w)
  BY <1>3, <1>4, <1>7 DEF StopForget, StopLeave, ReplaceReady, WorkerStates, Course, Stays
<1>8. ASSUME ProbeStart(w)
      PROVE  Course(w)
  <2>1. worker'[w].step = "read"  BY <1>o, <1>8 DEF ProbeStart, WorkersOK, Errand
  <2> QED  BY <1>8, <2>1 DEF ProbeStart, Course, Stays
<1>9. ASSUME NEW open \in BOOLEAN, ProbeRead(w, open) \/ ProbePrompt(w, open) PROVE Course(w)
  <2>1. ASSUME ProbeRead(w, open) PROVE Course(w)
    <3>1. worker'[w].step \in {"ask", "publish"}
      BY <1>o, <2>1 DEF ProbeRead, WorkersOK, Errand
    <3> QED  BY <2>1, <3>1 DEF ProbeRead, Course, Stays
  <2>2. ASSUME ProbePrompt(w, open) PROVE Course(w)
    <3>1. worker'[w].step \in {"ask", "rest"}
      BY <1>o, <1>4, <2>2 DEF ProbePrompt, WorkersOK, Errand
    <3> QED  BY <2>2, <3>1 DEF ProbePrompt, Course, Stays
  <2> QED  BY <1>9, <2>1, <2>2
<1>10. ASSUME NEW sees \in BOOLEAN, ProbeAsk(w) \/ ProbePublish(w, sees)
       PROVE  Course(w)
  <2>1. ASSUME ProbeAsk(w) PROVE Course(w)
    BY <1>3, <2>1 DEF ProbeAsk, WorkerStates, Course, Stays
  <2>2. ASSUME ProbePublish(w, sees) PROVE Course(w)
    <3>1. Done(w) \/ Move(w, "enter")  BY <2>2 DEF ProbePublish
    <3>2. worker'[w].step \in {"rest", "enter"}  BY <1>3, <1>4, <3>1 DEF WorkerStates
    <3>3. worker[w].step = "publish" /\ Stays  BY <2>2 DEF ProbePublish, Stays
    <3> QED  BY <3>2, <3>3 DEF Course
  <2> QED  BY <1>10, <2>1, <2>2
<1>11. ASSUME NEW job \in Job, Command(w, job) PROVE Course(w)
  <2> DEFINE to == CASE job \in {"enable", "status"} -> "probe" [] job = "revoke" -> "enter"
                     [] OTHER -> "clear"
  <2>1. worker' = [worker EXCEPT ![w].job = job, ![w].step = to] /\ worker[w].step = "rest"
    BY <1>11 DEF Command
  <2>2. /\ to \in {"probe", "enter", "clear"} /\ (job = "revoke" => to = "enter")
    OBVIOUS
  <2> HIDE DEF to
  <2>3. worker'[w].step = to /\ worker'[w].job = job  BY <1>o, <2>1 DEF WorkersOK, Errand
  <2>4. UNCHANGED <<runs, auth, epoch, target>>  BY <1>11 DEF Command
  <2>5. grant' = grant \/ grant' \/ job = "revoke"
    BY <1>11 DEF Command
  <2> QED  BY <2>1, <2>2, <2>3, <2>4, <2>5 DEF Course
<1> QED  BY <1>1, <1>2, <1>5, <1>6, <1>7, <1>8, <1>9, <1>10, <1>11 DEF WorkerStep

-----------------------------------------------------------------------------
(* The steps of the system, by what they touch *)

\* Only commands that wait for the permission probe move.
Waiters ==
    \A w \in Worker : \/ worker'[w] = worker[w]
                      \/ /\ worker[w].step = "await"
                         /\ worker'[w].step \in {"publish", "ask", "probe", "rest"}
Aside ==
    Waiters /\ UNCHANGED <<op, epoch, grant, target, auth, givenIn, runs, gen, task, begin>>
Lease ==
    /\ BeginStep \/ \E s \in Session : BeginRun(s) \/ EndRun(s)
    /\ UNCHANGED <<op, worker, epoch, grant, target>>
Beginning ==
    \/ \E g \in ending : EndIdle(g)
    \/ \E kind \in Kind, a \in App, permit \in {"none", "match", "mismatch"} :
           Enter(kind, a, permit)
Command_(w) == WorkerStep(w) \/ \E job \in Job : Command(w, job)

\* Every step is of one of these forms.
LEMMA NextForms ==
    ASSUME TypeInv, [Next]_vars
    PROVE  \/ Aside \/ Lease \/ Beginning \/ ReadTask \/ (OpStep /\ ~ReadTask)
           \/ \E w \in Worker : Command_(w)
<1>1. (\E allow \in BOOLEAN : Respond(allow)) => Aside
  BY DEF Respond, Aside, Waiters, session, control
<1>2. DriverDies \/ UNCHANGED vars => Aside
  BY DEF DriverDies, Aside, Waiters, session, control, vars
<1>3. WarmTask => Aside
  BY DEF WarmTask, WarmLock, WarmVerified, WarmStarted, WarmFails, WarmInstall, Aside, Waiters,
         session
<1>5. FlightStep \/ (\E p \in stray : StrayEnds(p)) => Aside
  <2>1. FlightStep \/ (\E p \in stray : StrayEnds(p)) => Waiters  BY FlightWorkers DEF Waiters
  <2> QED
    BY <2>1 DEF FlightStep, FlightStarts, FlightFails, FlightReads, StrayEnds, Aside, session,
                control
<1>4. BeginStep \/ (\E s \in Session : BeginRun(s) \/ EndRun(s)) => Lease
  BY DEF BeginStep, BeginInsert, BeginBump, BeginReset, BeginRun, EndRun, Lease
<1> QED  BY <1>1, <1>2, <1>3, <1>4, <1>5 DEF Next, Beginning, Command_

\* An operation follows its plan, under the epoch and the generation it read.
WorkInv ==
    /\ Chained(op.todo) /\ op.epoch <= epoch
    /\ op.kind \in Kind => op.gen <= gen

\* The account of the plan holds in every behaviour.
LEMMA AlwaysWork == Spec => []WorkInv
<1>1. Init => WorkInv
  BY KindsApart DEF Init, NoPlan, WorkInv, Chained
<1>2. TypeInv /\ WorkInv /\ [Next]_vars => WorkInv'
  <2> SUFFICES ASSUME TypeInv, WorkInv, [Next]_vars PROVE WorkInv'
    OBVIOUS
  <2>o. OpOK /\ op \in Operation /\ epoch \in Nat /\ gen \in Nat /\ op.epoch \in Nat /\ op.gen \in Nat
    BY DEF TypeInv, OpOK, ControlOK, SessionOK, Operation
  <2>1. CASE Aside  BY <2>1 DEF Aside, WorkInv
  <2>2. CASE Lease
    <3>1. gen' = gen \/ gen' = gen + 1
      BY <2>2 DEF Lease, BeginStep, BeginInsert, BeginBump, BeginReset, BeginRun, EndRun, session
    <3> QED  BY <2>o, <2>2, <3>1 DEF Lease, WorkInv
  <2>3. CASE Beginning
    <3>1. /\ Chained(op'.todo) /\ op'.epoch \in {0, epoch} /\ epoch' = epoch /\ gen' = gen
          /\ op'.kind \in Kind => op'.gen = 0
      BY <2>3, WorkBegins DEF Beginning
    <3> QED  BY <2>o, <3>1 DEF WorkInv
  <2>4. CASE ReadTask
    <3>1. UNCHANGED <<epoch, gen>>  BY <2>4 DEF ReadTask, session, control
    <3> QED  BY <2>o, <2>4, <3>1, TaskIsRead DEF WorkInv
  <2>5. CASE OpStep /\ ~ReadTask
    <3>1. UNCHANGED <<epoch, gen>>  BY <2>5, OpFrame
    <3>2. Carries /\ Chained(op'.todo)  BY <2>5, OpCarries DEF WorkInv
    <3> QED  BY <2>o, <3>1, <3>2, KindsApart DEF WorkInv, Carries, NoPlan
  <2>6. ASSUME NEW w \in Worker, Command_(w) PROVE WorkInv'
    <3>1. Course(w) /\ UNCHANGED <<gen, op>>  BY <2>6, WorkerCourse DEF Command_
    <3>2. epoch' = epoch \/ epoch' = epoch + 1  BY <3>1 DEF Course, Stays
    <3> QED  BY <2>o, <3>1, <3>2 DEF WorkInv
  <2> QED  BY <2>1, <2>2, <2>3, <2>4, <2>5, <2>6, NextForms
<1> QED  BY <1>1, <1>2, AlwaysTyped, PTL DEF Spec

-----------------------------------------------------------------------------
(* The leases of a cleanup *)

\* A cleanup takes no step but its own.
LEMMA CleanupSteps ==
    ASSUME OpStep, Working, Head(op.todo) \in {"idle", "clean"}
    PROVE  CheckIdle \/ CleanIdle
<1> USE DEF On, OnTool, Tool
<1>1. ~(\/ ReadTask \/ CheckEligible \/ Aim \/ Alias \/ TaskCheck \/ FullCheck
        \/ (\E b \in App : KnownAlias(b))
        \/ (\E b \in BOOLEAN : Join(b) \/ Confirm(b) \/ Again(b)))
  BY DEF ReadTask, CheckEligible, Aim, Alias, TaskCheck, FullCheck, KnownAlias, Join, Confirm,
         Again
<1>2. ~(\/ Authorize \/ Answered \/ ApprovalTimeout \/ Recheck \/ Reeligible
        \/ Remember \/ Settle)
  BY DEF Authorize, Answered, ApprovalTimeout, Recheck, Reeligible, Remember, Settle
<1>3. ~(Store \/ Verify \/ Select \/ Keep \/ (\E b \in App : Identify(b)))
  BY DEF Store, Verify, Select, Keep, Identify
<1>4. ~(\/ CallCheck \/ CallLock \/ CallSpawn \/ CallSpawnFails \/ CallSend
        \/ CallReturns \/ CallFails)
  BY DEF CallCheck, CallLock, CallSpawn, CallSpawnFails, CallSend, CallReturns, CallFails
<1> QED  BY <1>1, <1>2, <1>3, <1>4 DEF OpStep

\* No step of an operation but the question itself leads to the cleanup.
LEMMA CleanOnlyAfterIdle ==
    ASSUME TypeInv, TypeInv', WorkInv, OpStep, ~ReadTask,
           op'.todo # <<>>, Head(op'.todo) = "clean"
    PROVE  CheckIdle
<1>1. OpOK /\ OpOK'  BY DEF TypeInv
<1>2. op'.kind = "end"
  <2>1. op'.kind # "none" /\ op'.kind \in Kind \cup {"none", "end"}
    BY <1>1 DEF OpOK, PlanOK, Operation
  <2>2. op'.kind \in Kind => op'.todo \in Seq(Steps \ {"idle", "clean"})
    BY <1>1 DEF OpOK, PlanOK
  <2>3. op'.kind \notin Kind  BY <2>2, TailOfPlan
  <2> QED  BY <2>1, <2>3
<1>3. Working /\ op.kind = "end"
  <2>1. Working /\ Carries  BY OpCarries DEF WorkInv
  <2> QED  BY <1>2, <2>1 DEF Carries, NoPlan
<1>4. Head(op.todo) \in {"idle", "clean"}
  <2>1. Head(<<"idle", "clean">>) = "idle" /\ Head(<<"clean">>) = "clean"  OBVIOUS
  <2> QED  BY <1>1, <1>3, <2>1 DEF OpOK, PlanOK
<1>5. ~CleanIdle  BY DEF CleanIdle, Finish, NoPlan
<1> QED  BY <1>3, <1>4, <1>5, CleanupSteps

\* No lease is held while a cleanup is past its decision.
THEOREM CleanupHoldsNoRun == Spec => []NoRunWhileCleaning
<1>1. Init => NoRunWhileCleaning
  BY DEF Init, NoPlan, Rest, NoRunWhileCleaning, On, Working
<1>2. TypeInv /\ TypeInv' /\ WorkInv /\ NoRunWhileCleaning /\ [Next]_vars
        => NoRunWhileCleaning'
  <2> SUFFICES ASSUME TypeInv, TypeInv', WorkInv, NoRunWhileCleaning, [Next]_vars
               PROVE  NoRunWhileCleaning'
    OBVIOUS
  <2>o. OpOK /\ OpOK'  BY DEF TypeInv
  <2>1. CASE Aside
    <3>1. \A w \in Worker : worker'[w].step \in Stopping \ {"clear"} => worker'[w] = worker[w]
      BY <2>1 DEF Aside, Waiters, Stopping
    <3> QED  BY <2>1, <3>1 DEF Aside, NoRunWhileCleaning, On, Working
  <2>2. CASE Lease
    <3>1. (On("clean", "start")' <=> On("clean", "start")) /\ worker' = worker
      BY <2>2 DEF Lease, On, Working
    <3>2. CASE BeginInsert /\ ~Cleaning
      <4>1. op.kind # "end" /\ \A w \in Worker : worker[w].step \notin Stopping
        BY <3>2 DEF Cleaning
      <4>2. ~On("clean", "start")  BY <2>o, <4>1, KindOfCleanup DEF On
      <4> QED  BY <3>1, <4>1, <4>2 DEF NoRunWhileCleaning
    <3>3. CASE ~(BeginInsert /\ ~Cleaning)
      <4>1. runs' \subseteq runs
        BY <2>2, <3>3 DEF Lease, BeginStep, BeginInsert, BeginBump, BeginReset, BeginRun, EndRun,
                          session
      <4> QED  BY <3>1, <4>1 DEF NoRunWhileCleaning
    <3> QED  BY <3>2, <3>3
  <2>3. CASE Beginning
    <3>1. /\ UNCHANGED <<runs, worker>> /\ (op'.kind \in Kind \/ Head(op'.todo) = "idle")
      BY <2>3, WorkBegins DEF Beginning
    <3>2. Head(op'.todo) # "clean" \/ op'.todo = <<>>
      <4>1. op'.kind \in Kind => op'.todo \in Seq(Steps \ {"idle", "clean"})
        BY <2>o DEF OpOK, PlanOK
      <4> QED  BY <3>1, <4>1, TailOfPlan
    <3>3. ~On("clean", "start")'  BY <3>2 DEF On, Working
    <3> QED  BY <3>1, <3>3 DEF NoRunWhileCleaning
  <2>4. CASE ReadTask
    <3>1. Head(op'.todo) = "eligible" /\ UNCHANGED <<runs, worker>>
      BY <2>4, TaskIsRead DEF WorkInv, ReadTask, session, control
    <3>2. ~On("clean", "start")'  BY <3>1 DEF On
    <3> QED  BY <3>1, <3>2 DEF NoRunWhileCleaning
  <2>5. CASE OpStep /\ ~ReadTask
    <3>1. UNCHANGED <<runs, worker>>  BY <2>5, OpFrame
    <3>2. ASSUME On("clean", "start")' PROVE runs = {}
      <4>1. CheckIdle  BY <2>5, <3>2, CleanOnlyAfterIdle DEF On, Working
      <4>2. op' # NoPlan  BY <3>2 DEF On, Working, NoPlan
      <4> QED  BY <4>1, <4>2 DEF CheckIdle, Finish
    <3> QED  BY <3>1, <3>2 DEF NoRunWhileCleaning
  <2>6. ASSUME NEW w \in Worker, Command_(w) PROVE NoRunWhileCleaning'
    <3>1. /\ Course(w) /\ op' = op
          /\ \A v \in Worker : v # w => worker'[v] = worker[v]
      BY <2>6, WorkerCourse DEF Command_
    <3>2. runs' \subseteq runs  BY <3>1 DEF Course, Stays
    <3>3. worker'[w].step \in Stopping \ {"clear"} => runs' = {}
      BY <3>1 DEF Course, Stays, Stopping, NoRunWhileCleaning
    <3>4. On("clean", "start")' <=> On("clean", "start")  BY <3>1 DEF On, Working
    <3> QED  BY <3>1, <3>2, <3>3, <3>4 DEF NoRunWhileCleaning
  <2> QED  BY <2>1, <2>2, <2>3, <2>4, <2>5, <2>6, NextForms
<1> QED  BY <1>1, <1>2, AlwaysTyped, AlwaysWork, PTL DEF Spec

-----------------------------------------------------------------------------
(* The screenshot *)

\* A captured target is of the present epoch, or about to be forgotten.
THEOREM CaptureEndsWithEpoch == Spec => []CaptureOfEpoch
<1>1. Init => CaptureOfEpoch
  BY DEF Init, Rest, CaptureOfEpoch
<1>2. TypeInv /\ CaptureOfEpoch /\ [Next]_vars => CaptureOfEpoch'
  <2> SUFFICES ASSUME TypeInv, CaptureOfEpoch, [Next]_vars PROVE CaptureOfEpoch'
    OBVIOUS
  <2>1. CASE UNCHANGED <<target, epoch, worker>>
    BY <2>1 DEF CaptureOfEpoch, BeforeTake
  <2>2. Lease \/ Beginning \/ ReadTask => UNCHANGED <<target, epoch, worker>>
    BY WorkBegins DEF Lease, Beginning, ReadTask, control
  <2>5. CASE Aside
    <3>1. \A w \in Worker : BeforeTake(w) \/ worker[w].step = "forget" => worker'[w] = worker[w]
      BY <2>5 DEF Aside, Waiters, BeforeTake
    <3> QED  BY <2>5, <3>1 DEF Aside, CaptureOfEpoch, BeforeTake
  <2>3. CASE OpStep /\ ~ReadTask
    <3>1. UNCHANGED <<epoch, worker>>  BY <2>3, OpFrame
    <3>2. CASE Store \/ Verify \/ Select \/ CleanIdle
      <4>1. target' = target \/ ~target'.captured \/ target'.epoch = epoch
        BY <3>2 DEF Store, Verify, Select, CleanIdle, Rest, Current
      <4> QED  BY <3>1, <4>1 DEF CaptureOfEpoch, BeforeTake
    <3>3. CASE Keep \/ (\E b \in App : Identify(b))
      <4>1. target' = target  BY <3>3 DEF Keep, Identify
      <4> QED  BY <3>1, <4>1, <2>1
    <3>4. CASE ~(Store \/ Verify \/ Select \/ CleanIdle \/ Keep \/ (\E b \in App : Identify(b)))
      <4>1. target' = target
        <5>1. CASE \/ Authorize \/ Answered \/ ApprovalTimeout \/ Recheck \/ Reeligible
                   \/ Remember \/ Settle
          BY <5>1 DEF Authorize, Answered, ApprovalTimeout, Recheck, Reeligible, Remember, Settle
        <5>2. CASE \/ CallCheck \/ CallLock \/ CallSpawn \/ CallSpawnFails \/ CallSend
                   \/ CallReturns \/ CallFails
          BY <5>2, CallTypes
        <5>3. CASE CheckIdle  BY <5>3 DEF CheckIdle
        <5> QED  BY <2>3, <3>4, <5>1, <5>2, <5>3, PlanStepTypes DEF OpStep
      <4> QED  BY <3>1, <4>1, <2>1
    <3> QED  BY <3>2, <3>3, <3>4
  <2>4. ASSUME NEW w \in Worker, Command_(w) PROVE CaptureOfEpoch'
    <3>1. Course(w) /\ \A v \in Worker : v # w => worker'[v] = worker[v]
      BY <2>4, WorkerCourse DEF Command_
    <3>2. CASE worker[w].step \in {"bump", "drain", "kill", "take", "stopping"}
      BY <3>1, <3>2 DEF Course, CaptureOfEpoch, BeforeTake
    <3>3. CASE worker[w].step = "forget"
      BY <3>1, <3>3 DEF Course, CaptureOfEpoch, Rest
    <3>4. CASE worker[w].step \notin {"bump", "drain", "kill", "take", "stopping", "forget"}
      <4>1. UNCHANGED <<target, epoch>>  BY <3>1, <3>4 DEF Course, Stays
      <4> QED  BY <3>1, <3>4, <4>1 DEF CaptureOfEpoch, BeforeTake
    <3> QED  BY <3>2, <3>3, <3>4
  <2> QED  BY <2>1, <2>2, <2>3, <2>4, <2>5, NextForms
<1> QED  BY <1>1, <1>2, AlwaysTyped, PTL DEF Spec

-----------------------------------------------------------------------------
(* The grant *)

Revoking == \E w \in Worker : worker[w].job = "revoke"
                              /\ worker[w].step \in {"enter", "clear", "bump"}
\* An action past its check of the grant has it, or its epoch is about to end.
GrantInv ==
    /\ Working /\ op.kind \in Kind \ {"remote"} /\ Head(op.todo) \notin {"task", "eligible"}
    /\ op.epoch = epoch
    => grant \/ Revoking

\* Two steps of an operation nothing else can stand in for.
LEMMA EligibleStep == ASSUME OpStep, Working, Head(op.todo) = "eligible" PROVE CheckEligible
<1> USE DEF On, OnTool, Tool
<1>1. ~(\/ ReadTask \/ Aim \/ Alias \/ TaskCheck \/ FullCheck \/ CheckIdle \/ CleanIdle
        \/ (\E b \in App : KnownAlias(b))
        \/ (\E b \in BOOLEAN : Join(b) \/ Confirm(b) \/ Again(b)))
  BY DEF ReadTask, Aim, Alias, TaskCheck, FullCheck, KnownAlias, Join, Confirm, Again, CheckIdle,
         CleanIdle
<1>2. ~(\/ Authorize \/ Answered \/ ApprovalTimeout \/ Recheck \/ Reeligible
        \/ Remember \/ Settle)
  BY DEF Authorize, Answered, ApprovalTimeout, Recheck, Reeligible, Remember, Settle
<1>3. ~(Store \/ Verify \/ Select \/ Keep \/ (\E b \in App : Identify(b)))
  BY DEF Store, Verify, Select, Keep, Identify
<1>4. ~(\/ CallCheck \/ CallLock \/ CallSpawn \/ CallSpawnFails \/ CallSend
        \/ CallReturns \/ CallFails)
  BY DEF CallCheck, CallLock, CallSpawn, CallSpawnFails, CallSend, CallReturns, CallFails
<1> QED  BY <1>1, <1>2, <1>3, <1>4 DEF OpStep

\* The only step of an operation about to send is the send.
LEMMA SendStep == ASSUME OpStep, OnTool("send") PROVE CallSend
<1> USE DEF On, OnTool, Tool
<1>1. ~(\/ ReadTask \/ Aim \/ Alias \/ TaskCheck \/ FullCheck \/ CheckIdle \/ CleanIdle
        \/ CheckEligible \/ (\E b \in App : KnownAlias(b))
        \/ (\E b \in BOOLEAN : Join(b) \/ Confirm(b) \/ Again(b)))
  BY DEF ReadTask, Aim, Alias, TaskCheck, FullCheck, KnownAlias, Join, Confirm, Again, CheckIdle,
         CleanIdle, CheckEligible
<1>2. ~(\/ Authorize \/ Answered \/ ApprovalTimeout \/ Recheck \/ Reeligible
        \/ Remember \/ Settle)
  BY DEF Authorize, Answered, ApprovalTimeout, Recheck, Reeligible, Remember, Settle
<1>3. ~(Store \/ Verify \/ Select \/ Keep \/ (\E b \in App : Identify(b)))
  BY DEF Store, Verify, Select, Keep, Identify
<1>4. ~(CallCheck \/ CallLock \/ CallSpawn \/ CallSpawnFails \/ CallReturns \/ CallFails)
  BY DEF CallCheck, CallLock, CallSpawn, CallSpawnFails, CallReturns, CallFails
<1> QED  BY <1>1, <1>2, <1>3, <1>4 DEF OpStep

\* Every step keeps the account of the grant.
LEMMA NextGrant == TypeInv /\ WorkInv /\ GrantInv /\ [Next]_vars => GrantInv'
<1> SUFFICES ASSUME TypeInv, WorkInv, GrantInv, [Next]_vars,
                    op'.todo # <<>>, op'.kind \in Kind \ {"remote"},
                    Head(op'.todo) \notin {"task", "eligible"}, op'.epoch = epoch'
             PROVE  grant' \/ Revoking'
  BY DEF GrantInv, Working
<1>o. OpOK /\ epoch \in Nat /\ op.epoch \in Nat /\ op.epoch <= epoch
  BY DEF TypeInv, ControlOK, OpOK, Operation, WorkInv
<1>1. CASE Lease
  BY <1>1 DEF Lease, GrantInv, Working, Revoking
<1>6. CASE Aside
  <2>1. \A w \in Worker : worker[w].step \in {"enter", "clear", "bump"} => worker'[w] = worker[w]
    BY <1>6 DEF Aside, Waiters
  <2> QED  BY <1>6, <2>1 DEF Aside, GrantInv, Working, Revoking
<1>2. CASE Beginning
  BY <1>2, WorkBegins DEF Beginning
<1>3. CASE ReadTask
  BY <1>3, TaskIsRead DEF WorkInv
<1>4. CASE OpStep /\ ~ReadTask
  <2>1. UNCHANGED <<epoch, worker, grant>>  BY <1>4, OpFrame
  <2>2. Working /\ Head(op.todo) # "task" /\ op.kind = op'.kind /\ op.epoch = op'.epoch
    BY <1>4, OpCarries DEF WorkInv, Carries, NoPlan
  <2>3. CASE Head(op.todo) = "eligible"
    <3>1. CheckEligible  BY <1>4, <2>2, <2>3, EligibleStep
    <3>2. ~Finish  BY DEF Finish, NoPlan
    <3> QED  BY <2>1, <3>1, <3>2 DEF CheckEligible
  <2>4. CASE Head(op.todo) # "eligible"
    <3>1. grant \/ Revoking  BY <2>1, <2>2, <2>4 DEF GrantInv
    <3> QED  BY <2>1, <3>1 DEF Revoking
  <2> QED  BY <2>3, <2>4
<1>5. ASSUME NEW w \in Worker, Command_(w) PROVE grant' \/ Revoking'
  <2>1. Course(w) /\ op' = op /\ \A v \in Worker : v # w => worker'[v] = worker[v]
    BY <1>5, WorkerCourse DEF Command_
  <2>2. worker[w].step # "bump" /\ epoch' = epoch
    BY <1>o, <2>1 DEF Course, Stays
  <2>3. grant \/ Revoking
    BY <2>1, <2>2 DEF GrantInv, Working
  <2>4. CASE grant
    <3>1. grant' \/ (worker'[w].step = "enter" /\ worker'[w].job = "revoke")
      BY <2>1, <2>4 DEF Course, Stays
    <3> QED  BY <3>1 DEF Revoking
  <2>5. ASSUME NEW v \in Worker, worker[v].job = "revoke",
               worker[v].step \in {"enter", "clear", "bump"}
        PROVE  Revoking'
    <3>1. CASE v # w  BY <2>1, <2>5, <3>1 DEF Revoking
    <3>2. CASE v = w
      <4>1. worker'[w].job = "revoke" /\ worker'[w].step \in {"clear", "bump"}
        BY <2>1, <2>2, <2>5, <3>2 DEF Course
      <4> QED  BY <4>1 DEF Revoking
    <3> QED  BY <3>1, <3>2
  <2> QED  BY <2>3, <2>4, <2>5 DEF Revoking
<1> QED  BY <1>1, <1>2, <1>3, <1>4, <1>5, <1>6, NextForms

\* The account of the grant holds in every behaviour.
LEMMA AlwaysGrant == Spec => []GrantInv
<1>1. Init => GrantInv
  BY DEF Init, NoPlan, GrantInv, Working
<1> QED  BY <1>1, NextGrant, AlwaysTyped, AlwaysWork, PTL DEF Spec

\* After a revocation no action of the agent that was under way reaches the
\* driver.
THEOREM RevocationStopsActions == Spec => ActsGranted
<1>1. TypeInv /\ WorkInv /\ GrantInv /\ [Next]_vars =>
        [OnTool("send") /\ op'.at = "call" /\ op.kind # "remote" =>
           grant \/ \E w \in Worker : worker[w].job = "revoke"
                                      /\ worker[w].step \in {"enter", "clear", "bump"}]_vars
  <2> SUFFICES ASSUME TypeInv, WorkInv, GrantInv, [Next]_vars,
                      OnTool("send"), op'.at = "call", op.kind # "remote"
               PROVE  grant \/ Revoking
    BY DEF Revoking
  <2>1. OpOK /\ Working /\ Head(op.todo) \in Tool /\ op.at = "send"
    BY DEF TypeInv, OnTool
  <2>2. OpStep
    <3>1. op' # op  BY <2>1
    <3>2. ~Aside /\ ~Lease  BY <3>1 DEF Aside, Lease
    <3>3. ~Beginning  BY <2>1, WorkBegins DEF Beginning
    <3>4. ~ReadTask  BY <2>1 DEF ReadTask, On, Tool
    <3>5. \A w \in Worker : ~Command_(w)  BY <3>1, WorkerCourse DEF Command_
    <3> QED  BY <3>2, <3>3, <3>4, <3>5, NextForms
  <2>3. CallSend  BY <2>2, SendStep
  <2>4. Current  BY <2>3 DEF CallSend, Finish, NoPlan
  <2>5. op.kind \in Kind /\ Head(op.todo) \notin {"task", "eligible"}
    BY <2>1, KindOfWork DEF Tool
  <2> QED  BY <2>1, <2>4, <2>5 DEF GrantInv, Current
<1> QED  BY <1>1, AlwaysTyped, AlwaysWork, AlwaysGrant, PTL DEF Spec, ActsGranted

-----------------------------------------------------------------------------
(* The task an app is allowed in *)

\* A new task has begun whose generation is not there, or whose set is not
\* empty yet.
Counting == begin.step = "bump" /\ begin.first
Resetting == begin.step \in {"bump", "reset"} /\ begin.first
\* An answer that its operation is about to take back.
TakenBack(k) ==
    op.key = k /\ (On("authorize", "settle") \/ On("keep", "start")) /\ op.gen # gen

\* The generation tells tasks apart.
GenInv ==
    /\ gen = 0 => task = 0 \/ Counting
    /\ Working /\ op.kind \in Kind /\ Head(op.todo) # "task" /\ op.gen = gen
         => op.task = task \/ Counting
AuthInv ==
    runs # {} => \A k \in auth : givenIn[k] = task \/ Resetting \/ TakenBack(k)

\* What the beginning of a lease may do to the session.
LEMMA BeginForms ==
    ASSUME TypeInv, Lease
    PROVE  \/ UNCHANGED <<gen, task, auth, givenIn>> /\ (runs' # {} => runs # {})
              /\ (begin' = begin \/ begin.step \in {"off", "insert"})
           \/ UNCHANGED <<gen, task, auth, givenIn>> /\ begin.step = "insert" /\ runs # {}
           \/ UNCHANGED <<gen, auth, givenIn>> /\ Counting'
           \/ begin.step = "bump" /\ gen' = gen + 1 /\ UNCHANGED <<runs, task, auth, givenIn>>
              /\ (begin.first => Resetting')
           \/ begin.step = "reset" /\ auth' = {} /\ UNCHANGED <<gen, task, givenIn>>
<1>o. BeginOK  BY DEF TypeInv, ControlOK
<1>1. ASSUME NEW s \in Session, BeginRun(s) \/ EndRun(s)
      PROVE  /\ UNCHANGED <<gen, task, auth, givenIn>> /\ (runs' # {} => runs # {})
             /\ (begin' = begin \/ begin.step \in {"off", "insert"})
  BY <1>1 DEF BeginRun, EndRun, session
<1>2. CASE BeginInsert
  <2>1. CASE begin' = Rest.begin /\ UNCHANGED <<runs, task>>
    BY <1>2, <2>1 DEF BeginInsert
  <2>2. CASE runs # {}
    BY <1>2, <2>2 DEF BeginInsert
  <2>3. CASE runs = {} /\ begin' = [begin EXCEPT !.step = "bump", !.first = runs = {}]
    <3>1. begin'.step = "bump" /\ begin'.first  BY <1>o, <2>3 DEF BeginOK
    <3> QED  BY <1>2, <3>1 DEF BeginInsert, Counting
  <2> QED  BY <1>2, <2>1, <2>2, <2>3 DEF BeginInsert
<1>3. CASE BeginBump
  <2>1. begin.first => begin'.step = "reset" /\ begin'.first
    BY <1>o, <1>3 DEF BeginBump, BeginOK
  <2> QED  BY <1>3, <2>1 DEF BeginBump, Resetting
<1>4. CASE BeginReset
  BY <1>4 DEF BeginReset
<1> QED  BY <1>1, <1>2, <1>3, <1>4 DEF Lease, BeginStep

\* Every step keeps the account of the task generation.
LEMMA NextGen == TypeInv /\ WorkInv /\ GenInv /\ [Next]_vars => GenInv'
<1> SUFFICES ASSUME TypeInv, WorkInv, GenInv, [Next]_vars PROVE GenInv'
  OBVIOUS
<1>o. OpOK /\ op \in Operation /\ gen \in Nat /\ task \in Nat /\ op.gen \in Nat
  BY DEF TypeInv, OpOK, Operation, SessionOK
<1>1. CASE Aside
  BY <1>1 DEF Aside, GenInv, Working, Counting
<1>2. CASE Lease
  <2>0. op' = op  BY <1>2 DEF Lease
  <2>1. CASE UNCHANGED <<gen, task>> /\ (begin' = begin \/ begin.step # "bump")
    BY <2>0, <2>1 DEF GenInv, Working, Counting
  <2>2. CASE Counting'  BY <2>2 DEF GenInv
  <2>3. CASE gen' = gen + 1
    <3>1. gen' # 0 /\ (op.kind \in Kind => op.gen # gen')
      BY <1>o, <2>3 DEF WorkInv
    <3> QED  BY <2>0, <3>1 DEF GenInv
  <2> QED  BY <1>2, <2>1, <2>2, <2>3, BeginForms
<1>3. CASE Beginning
  <2>1. /\ UNCHANGED <<gen, task, begin>>
        /\ op'.kind \in Kind => /\ op'.gen = 0 /\ op'.task = 0
                                /\ op'.kind # "remote" => Head(op'.todo) = "task"
    BY <1>3, WorkBegins DEF Beginning
  <2> QED  BY <2>1 DEF GenInv, Counting
<1>4. CASE ReadTask
  <2>1. UNCHANGED <<gen, task, begin>>  BY <1>4 DEF ReadTask, session, control
  <2>2. op'.gen = gen /\ op'.task = task  BY <1>4, TaskIsRead DEF WorkInv
  <2> QED  BY <2>1, <2>2 DEF GenInv, Counting
<1>5. CASE OpStep /\ ~ReadTask
  <2>1. UNCHANGED <<gen, task, begin>>  BY <1>5, OpFrame
  <2>2. Working /\ Head(op.todo) # "task" /\ Carries
    BY <1>5, OpCarries DEF WorkInv
  <2> QED  BY <2>1, <2>2 DEF GenInv, Counting, Carries, NoPlan, Working
<1>6. ASSUME NEW w \in Worker, Command_(w) PROVE GenInv'
  <2>1. UNCHANGED <<gen, task, begin, op>>  BY <1>6, WorkerCourse DEF Command_
  <2> QED  BY <2>1 DEF GenInv, Working, Counting
<1> QED  BY <1>1, <1>2, <1>3, <1>4, <1>5, <1>6, NextForms

\* The account of the task generation holds in every behaviour.
LEMMA AlwaysGen == Spec => []GenInv
<1>1. Init => GenInv
  BY DEF Init, NoPlan, GenInv, Working
<1> QED  BY <1>1, NextGen, AlwaysTyped, AlwaysWork, PTL DEF Spec

\* The steps of an operation that allow nothing new.
LEMMA NothingAllowed ==
    ASSUME OpStep, ~Remember, ~(\E b \in App : Identify(b))
    PROVE  givenIn' = givenIn /\ \A k \in auth' : k \in auth /\ ~TakenBack(k)
<1> USE DEF session, control
<1>1. CASE Settle \/ Keep
  BY <1>1 DEF Settle, Keep, TakenBack, InTask
<1>2. CASE CleanIdle
  BY <1>2 DEF CleanIdle
<1>3. CASE ~(Settle \/ Keep \/ CleanIdle)
  <2>1. UNCHANGED <<auth, givenIn>> /\ ~On("authorize", "settle") /\ ~On("keep", "start")
    <3> USE DEF On, OnTool, Tool
    <3>1. CASE \/ CheckIdle \/ ReadTask \/ CheckEligible \/ Aim \/ Alias \/ TaskCheck
               \/ FullCheck \/ (\E b \in App : KnownAlias(b))
               \/ (\E b \in BOOLEAN : Join(b) \/ Confirm(b) \/ Again(b))
      BY <3>1 DEF CheckIdle, ReadTask, CheckEligible, Aim, Alias, TaskCheck, FullCheck,
                  KnownAlias, Join, Confirm, Again
    <3>2. CASE Authorize \/ Answered \/ ApprovalTimeout \/ Recheck \/ Reeligible
      BY <3>2 DEF Authorize, Answered, ApprovalTimeout, Recheck, Reeligible
    <3>3. CASE Store \/ Verify \/ Select
      BY <3>3 DEF Store, Verify, Select
    <3>4. CASE \/ CallCheck \/ CallLock \/ CallSpawn \/ CallSpawnFails \/ CallSend
               \/ CallReturns \/ CallFails
      BY <3>4 DEF CallCheck, CallLock, CallSpawn, CallSpawnFails, CallSend, CallReturns, CallFails
    <3> QED  BY <1>3, <3>1, <3>2, <3>3, <3>4 DEF OpStep
  <2> QED  BY <2>1 DEF TakenBack
<1> QED  BY <1>1, <1>2, <1>3

\* A key that is allowed, for the task its operation read.
LEMMA AllowedInTask ==
    ASSUME TypeInv, WorkInv, GenInv, AuthInv, UNCHANGED <<runs, gen, task, begin>>,
           Working, op.kind \in Kind, Head(op.todo) # "task",
           ~(On("authorize", "settle") \/ On("keep", "start")),
           NEW k \in Key, auth' = auth \cup {k}, givenIn' = [givenIn EXCEPT ![k] = op.task],
           op'.key = k, On("authorize", "settle")' \/ On("keep", "start")', op'.gen = op.gen
    PROVE  AuthInv'
<1>1. givenIn \in [Key -> Nat] /\ auth \subseteq Key  BY DEF TypeInv, SessionOK
<1> SUFFICES ASSUME runs # {}, NEW j \in auth'
             PROVE  givenIn'[j] = task \/ Resetting \/ TakenBack(j)'
  BY DEF AuthInv, Resetting
<1>2. CASE j = k
  <2>1. givenIn'[j] = op.task  BY <1>1, <1>2
  <2>2. CASE op.gen = gen
    <3>1. op.task = task \/ Counting  BY <2>2 DEF GenInv
    <3> QED  BY <2>1, <3>1 DEF Counting, Resetting
  <2>3. CASE op.gen # gen
    <3>1. op'.gen # gen'  BY <2>3
    <3> QED  BY <1>2, <3>1 DEF TakenBack
  <2> QED  BY <2>2, <2>3
<1>3. CASE j # k
  <2>1. j \in auth /\ givenIn'[j] = givenIn[j] /\ ~TakenBack(j)
    BY <1>1, <1>3 DEF TakenBack
  <2> QED  BY <2>1 DEF AuthInv
<1> QED  BY <1>2, <1>3

\* Every step keeps the account of the authorizations.
LEMMA NextAuth == TypeInv /\ WorkInv /\ GenInv /\ AuthInv /\ [Next]_vars => AuthInv'
<1> SUFFICES ASSUME TypeInv, WorkInv, GenInv, AuthInv, [Next]_vars PROVE AuthInv'
  OBVIOUS
<1>o. OpOK /\ op \in Operation /\ gen \in Nat /\ op.gen \in Nat
  BY DEF TypeInv, OpOK, Operation, SessionOK
<1>1. CASE Aside
  BY <1>1 DEF Aside, AuthInv, Resetting, TakenBack, On, Working
<1>2. CASE Lease
  <2>0. op' = op  BY <1>2 DEF Lease
  <2>1. \A k \in Key : TakenBack(k) /\ gen' \in {gen, gen + 1} => TakenBack(k)'
    <3> SUFFICES ASSUME NEW k \in Key, TakenBack(k), gen' \in {gen, gen + 1}
                 PROVE  TakenBack(k)'
      OBVIOUS
    <3>1. op.kind \in Kind  BY <1>o, KindOfWork DEF TakenBack, On
    <3>2. op.gen # gen'  BY <1>o, <3>1 DEF WorkInv, TakenBack
    <3> QED  BY <2>0, <3>2 DEF TakenBack, On, Working
  <2>2. auth \subseteq Key  BY DEF TypeInv, SessionOK
  <2>3. CASE /\ UNCHANGED <<gen, task, auth, givenIn>> /\ (runs' # {} => runs # {})
             /\ (begin' = begin \/ begin.step \in {"off", "insert"})
    BY <2>1, <2>2, <2>3 DEF AuthInv, Resetting
  <2>4. CASE UNCHANGED <<gen, task, auth, givenIn>> /\ begin.step = "insert" /\ runs # {}
    BY <2>1, <2>2, <2>4 DEF AuthInv, Resetting
  <2>5. CASE Counting'  BY <2>5 DEF AuthInv, Counting, Resetting
  <2>6. CASE /\ begin.step = "bump" /\ gen' = gen + 1 /\ UNCHANGED <<runs, task, auth, givenIn>>
             /\ (begin.first => Resetting')
    BY <2>1, <2>2, <2>6 DEF AuthInv, Resetting
  <2>7. CASE auth' = {}  BY <2>7 DEF AuthInv
  <2> QED  BY <1>2, <2>3, <2>4, <2>5, <2>6, <2>7, BeginForms
<1>3. CASE Beginning
  <2>1. ~Working /\ UNCHANGED <<runs, gen, task, begin, auth, givenIn>>
    BY <1>3, WorkBegins DEF Beginning
  <2>2. \A k \in auth : ~TakenBack(k)  BY <2>1 DEF TakenBack, On
  <2> QED  BY <2>1, <2>2 DEF AuthInv, Resetting
<1>4. CASE ReadTask \/ (OpStep /\ ~Remember /\ ~(\E b \in App : Identify(b)))
  <2>1. OpStep /\ ~Remember /\ ~(\E b \in App : Identify(b))
    BY <1>4 DEF OpStep, ReadTask, Remember, Identify, On
  <2>2. UNCHANGED <<runs, gen, task, begin>>  BY <2>1, OpFrame
  <2> QED  BY <2>1, <2>2, NothingAllowed DEF AuthInv, Resetting
<1>5. CASE Remember
  <2>1. /\ Working /\ Head(op.todo) = "authorize" /\ op.at = "remember" /\ Within("settle")
        /\ auth' = auth \cup {op.key} /\ givenIn' = [givenIn EXCEPT ![op.key] = op.task]
    BY <1>5 DEF Remember, On
  <2>2. op.kind \in Kind /\ op.key \in Key  BY <1>o, <2>1, KindOfWork
  <2>3. op'.key = op.key /\ op'.gen = op.gen /\ op'.todo = op.todo /\ op'.at = "settle"
    BY <1>o, <2>1, WithinTypes DEF At
  <2>4. On("authorize", "settle")' /\ ~(On("authorize", "settle") \/ On("keep", "start"))
    BY <2>1, <2>3 DEF On, Working
  <2>5. UNCHANGED <<runs, gen, task, begin>>  BY <1>5 DEF Remember, control
  <2> QED  BY <2>1, <2>2, <2>3, <2>4, <2>5, AllowedInTask
<1>6. ASSUME NEW b \in App, Identify(b) PROVE AuthInv'
  <2> DEFINE o == [op EXCEPT !.app = b, !.key = <<"id", b>>]
  <2>1. <<"id", b>> \in Key  BY DEF Key
  <2>2. o \in Operation /\ o.todo = op.todo /\ o.key = <<"id", b>> /\ o.gen = op.gen
    BY <1>o, <2>1 DEF Operation
  <2>3. /\ Working /\ Head(op.todo) = "identify" /\ UNCHANGED <<runs, gen, task, begin>>
        /\ ~(On("authorize", "settle") \/ On("keep", "start"))
    BY <1>6 DEF Identify, On, control
  <2>4. CASE UNCHANGED <<auth, givenIn>>
    BY <2>3, <2>4 DEF AuthInv, Resetting, TakenBack
  <2>5. CASE /\ Go(o) /\ auth' = auth \cup {<<"id", b>>}
             /\ givenIn' = [givenIn EXCEPT ![<<"id", b>>] = op.task]
    <3> HIDE DEF o
    <3>1. /\ op'.todo # <<>> /\ Head(op'.todo) = "keep" /\ op'.at = "start"
          /\ op'.key = <<"id", b>> /\ op'.gen = op.gen
      BY <1>o, <2>2, <2>3, <2>5, NextOfChain DEF WorkInv
    <3>2. On("keep", "start")'  BY <3>1 DEF On, Working
    <3>3. op.kind \in Kind  BY <1>o, <2>3, KindOfWork
    <3> QED  BY <2>1, <2>3, <2>5, <3>1, <3>2, <3>3, AllowedInTask
  <2> QED  BY <1>6, <2>4, <2>5 DEF Identify
<1>7. ASSUME NEW w \in Worker, Command_(w) PROVE AuthInv'
  <2>1. Course(w) /\ UNCHANGED <<gen, task, givenIn, begin, op>>
    BY <1>7, WorkerCourse DEF Command_
  <2>2. auth' = {} \/ (auth' = auth /\ (runs' = {} \/ runs' = runs))
    BY <2>1 DEF Course, Stays
  <2> QED  BY <2>1, <2>2 DEF AuthInv, Resetting, TakenBack, On, Working
<1> QED  BY <1>1, <1>2, <1>3, <1>4, <1>5, <1>6, <1>7, NextForms

\* While a task runs, every app allowed was allowed in it, but for what is
\* about to be reset or taken back.
THEOREM AuthorizationsEndWithTask == Spec => []AuthOfTask
<1>1. Init => AuthInv  BY DEF Init, AuthInv
<1>2. AuthInv => AuthOfTask
  BY DEF AuthInv, AuthOfTask, Resetting, TakenBack
<1> QED
  BY <1>1, <1>2, NextAuth, AlwaysTyped, AlwaysWork, AlwaysGen, PTL DEF Spec
=============================================================================
