------------------------ MODULE SessionRuntime_proofs ------------------------
(* Theorems of SessionRuntime for every set of operations, every quota and   *)
(* every number of actor generations.  An accepted operation is in one       *)
(* place: OnePlace is inductive together with TypeOK.  The quota bounds how  *)
(* often control operations bypass a waiting normal one (BypassBound).  An   *)
(* operation is finished once (FinishedOnce), a root operation at work holds *)
(* its actor's root slot (SlotGuardsWork, OneRootTask), and an interrupt     *)
(* that names its turn cancels no other turn of that turn's actor            *)
(* (InterruptHitsItsTurn).                                                   *)
EXTENDS SessionRuntime, TLAPS

Tasks == {"none"} \cup LiveTask \cup DoneTask
Idles == {"active", "fresh", "expired"}
Statuses == {"completed", "rejected", "failed"}

(***************************************************************************)
(* What the helpers assign has the right type.                             *)
(***************************************************************************)
LEMMA RefreshIdleType ==
  ASSUME TypeOK, NEW S, RefreshIdle(S)
  PROVE  idle' \in [Actors -> Idles]
BY DEF TypeOK, RefreshIdle, Idles

LEMMA CancelledType ==
  ASSUME TypeOK, NEW S, NEW W
  PROVE  Cancelled(S, W) \in [Ops -> Tasks]
BY DEF TypeOK, Cancelled, Tasks, LiveTask, DoneTask

LEMMA FinishType ==
  ASSUME TypeOK, NEW o \in Ops, NEW s \in Statuses, NEW S, Finish(o, s, S)
  PROVE  /\ stage' \in [Ops -> Stages] /\ registered' \subseteq Ops
         /\ finished' \in [Ops -> Seq(Statuses)]
         /\ root' \in [Actors -> Ops \cup {NoOp}]
BY DEF TypeOK, Finish, Retire, ClearRoot, Stages, Statuses

LEMMA ReleaseType ==
  ASSUME TypeOK, NEW o \in Ops, Release(o)
  PROVE  /\ pc' \in [Actors -> {"select", "waiting", "handling", "exited"}]
         /\ item' \in [Actors -> Ops \cup {NoOp}]
BY DEF TypeOK, Release

LEMMA EnsureActorType ==
  ASSUME TypeOK, NEW a, EnsureActor(a)
  PROVE  cur' \in 0..MaxActors /\ made' \in 0..MaxActors
BY BoundsAssumption DEF TypeOK, EnsureActor, Actors

LEMMA DropType ==
  ASSUME TypeOK, NEW S, DropDoneHandles(S)
  PROVE  handles' \in [Actors -> SUBSET Ops] /\ root' \in [Actors -> Ops \cup {NoOp}]
BY DEF TypeOK, DropDoneHandles, ActiveTasks

LEMMA CountType ==
  ASSUME TypeOK, NEW a \in Actors, NEW x,
         CountControl(a, x) \/ CountNormal(a)
  PROVE  burst' \in [Actors -> Nat]
<1>1. burst \in [Actors -> Nat]
  BY DEF TypeOK
<1>2. CASE CountControl(a, x)
  BY <1>1, <1>2 DEF CountControl
<1>3. CASE CountNormal(a)
  BY <1>1, <1>3 DEF CountNormal
<1> QED BY <1>2, <1>3

LEMMA OvertakesType ==
  ASSUME TypeOK, NEW a \in Actors, NEW x, NEW w,
         Overtakes(a, x, w) \/ OvertakesNone(a)
  PROVE  overtaken' \in [Actors -> Nat]
<1>1. overtaken \in [Actors -> Nat]
  BY DEF TypeOK
<1>2. CASE Overtakes(a, x, w)
  <2> DEFINE n == IF x = Stop THEN overtaken[a] ELSE IF w THEN overtaken[a] + 1 ELSE 0
  <2>1. n \in Nat
    BY <1>1
  <2>2. overtaken' = [overtaken EXCEPT ![a] = n]
    BY <1>2 DEF Overtakes
  <2> HIDE DEF n
  <2> QED BY <1>1, <2>1, <2>2
<1>3. CASE OvertakesNone(a)
  BY <1>1, <1>3 DEF OvertakesNone
<1> QED BY <1>2, <1>3

LEMMA BeginType ==
  ASSUME TypeOK, NEW a \in Actors, NEW x, Begin(a, x)
  PROVE  /\ pc' \in [Actors -> {"select", "waiting", "handling", "exited"}]
         /\ item' \in [Actors -> Ops \cup {NoOp}]
         /\ stage' \in [Ops -> Stages] /\ registered' \subseteq Ops
         /\ finished' \in [Ops -> Seq(Statuses)]
         /\ root' \in [Actors -> Ops \cup {NoOp}]
         /\ idle' \in [Actors -> Idles]
<1>1. CASE x = Stop /\ UNCHANGED <<item, stage, root, finished, registered, idle>>
                    /\ pc' = [pc EXCEPT ![a] = "exited"]
  BY <1>1 DEF TypeOK, Idles, Statuses
<1>2. CASE x \in Ops /\ Finish(x, "rejected", {}) /\ pc' = [pc EXCEPT ![a] = "select"]
           /\ RefreshIdle(Refreshed(x)) /\ UNCHANGED item
  <2>1. "rejected" \in Statuses
    BY DEF Statuses
  <2> QED BY <1>2, <2>1, FinishType, RefreshIdleType DEF TypeOK
<1>3. CASE /\ x \in Ops
           /\ pc' = [pc EXCEPT ![a] = "handling"]
           /\ item' = [item EXCEPT ![a] = x]
           /\ stage' = [stage EXCEPT ![x] = "handling"]
           /\ root' = IF IsRoot(x) THEN [root EXCEPT ![a] = x] ELSE root
           /\ UNCHANGED <<finished, registered, idle>>
  BY <1>3 DEF TypeOK, Stages, Idles, Statuses
<1> QED BY <1>1, <1>2, <1>3 DEF Begin

USE DEF vars, registryVars, queueVars, workerVars, actorVars, opVars, stopVars

LEMMA ActorsAreNumbers ==
  /\ MaxActors \in Nat \ {0} /\ Actors = 1..MaxActors
  /\ \A a \in Actors : a \in 0..MaxActors
  /\ \A a \in 0..MaxActors : a # 0 => a \in Actors
BY BoundsAssumption DEF Actors

LEMMA SlotUpdateType ==
  ASSUME NEW f \in [Actors -> Slots], NEW a \in Actors, NEW x \in Items
  PROVE  /\ [f EXCEPT ![a].control = x] \in [Actors -> Slots]
         /\ [f EXCEPT ![a].normal = x] \in [Actors -> Slots]
         /\ [f EXCEPT ![a] = [control |-> NoOp, normal |-> NoOp]] \in [Actors -> Slots]
<1>1. f[a] \in Slots
  OBVIOUS
<1>2. [f[a] EXCEPT !.control = x] \in Slots /\ [f[a] EXCEPT !.normal = x] \in Slots
  BY <1>1 DEF Slots
<1>3. [control |-> NoOp, normal |-> NoOp] \in Slots
  BY DEF Slots, Items
<1> QED BY <1>2, <1>3

LEMMA MailboxType ==
  ASSUME TypeOK, NEW a \in Actors
  PROVE  /\ control \in [Actors -> Seq(Ops \cup {Stop})] /\ normal \in [Actors -> Seq(Ops)]
         /\ \A o \in Ops : /\ Append(control[a], o) \in Seq(Ops \cup {Stop})
                          /\ Append(normal[a], o) \in Seq(Ops)
         /\ Append(control[a], Stop) \in Seq(Ops \cup {Stop})
         /\ control[a] # <<>> => /\ Head(control[a]) \in Ops \cup {Stop}
                                 /\ Tail(control[a]) \in Seq(Ops \cup {Stop})
         /\ normal[a] # <<>> => Head(normal[a]) \in Ops /\ Tail(normal[a]) \in Seq(Ops)
<1>1. control[a] \in Seq(Ops \cup {Stop}) /\ normal[a] \in Seq(Ops)
  BY DEF TypeOK
<1>2. control \in [Actors -> Seq(Ops \cup {Stop})] /\ normal \in [Actors -> Seq(Ops)]
  BY DEF TypeOK
<1>3. \A o \in Ops : /\ Append(control[a], o) \in Seq(Ops \cup {Stop})
                    /\ Append(normal[a], o) \in Seq(Ops)
  BY <1>1
<1>4. Append(control[a], Stop) \in Seq(Ops \cup {Stop})
  BY <1>1
<1>5. control[a] # <<>> => /\ Head(control[a]) \in Ops \cup {Stop}
                           /\ Tail(control[a]) \in Seq(Ops \cup {Stop})
  BY <1>1
<1>6. normal[a] # <<>> => Head(normal[a]) \in Ops /\ Tail(normal[a]) \in Seq(Ops)
  BY <1>1
<1> QED BY <1>2, <1>3, <1>4, <1>5, <1>6

LEMMA AcceptType ==
  ASSUME TypeOK, NEW o \in Ops, NEW a \in Actors, Accept(o, a)
  PROVE  cur' \in 0..MaxActors /\ made' \in 0..MaxActors /\ owner' \in [Ops -> 0..MaxActors]
<1>1. a \in 0..MaxActors /\ owner \in [Ops -> 0..MaxActors]
  BY ActorsAreNumbers DEF TypeOK
<1>2. owner' \in [Ops -> 0..MaxActors]
  BY <1>1 DEF Accept
<1> QED BY <1>2, EnsureActorType DEF Accept

LEMMA CurrentTasksType ==
  ASSUME TypeOK
  PROVE  CurrentTasks \subseteq Ops
<1>1. CASE cur = 0
  BY <1>1 DEF CurrentTasks
<1>2. CASE cur # 0
  <2>1. cur \in Actors
    BY <1>2, ActorsAreNumbers DEF TypeOK
  <2> QED BY <1>2, <2>1 DEF TypeOK, CurrentTasks, ActiveTasks
<1> QED BY <1>1, <1>2

LEMMA CancelPendingType ==
  ASSUME TypeOK, CancelCurrentPending
  PROVE  pending' \in [Actors -> SUBSET Ops]
BY DEF TypeOK, CancelCurrentPending

LEMMA InterruptBodyType ==
  ASSUME TypeOK, NEW o \in Ops, InterruptBody(o)
  PROVE  /\ awaiting' \in [Ops -> SUBSET Ops] /\ handles' \in [Actors -> SUBSET Ops]
         /\ root' \in [Actors -> Ops \cup {NoOp}] /\ task' \in [Ops -> Tasks]
         /\ stage' \in [Ops -> Stages] /\ registered' \subseteq Ops
         /\ finished' \in [Ops -> Seq(Statuses)] /\ pending' \in [Actors -> SUBSET Ops]
<1>1. awaiting' \in [Ops -> SUBSET Ops]
  BY CurrentTasksType DEF InterruptBody, TypeOK
<1>2. handles' \in [Actors -> SUBSET Ops] /\ root' \in [Actors -> Ops \cup {NoOp}]
  BY DropType DEF InterruptBody
<1>3. task' \in [Ops -> Tasks] /\ pending' \in [Actors -> SUBSET Ops]
  <2>1. task \in [Ops -> Tasks] /\ pending \in [Actors -> SUBSET Ops]
    BY DEF TypeOK, Tasks
  <2>2. \/ UNCHANGED <<task, pending>>
        \/ UNCHANGED pending /\ task' = Cancelled(CurrentTasks, {})
        \/ CancelCurrentPending /\ task' = Cancelled({}, CurrentPending)
    BY DEF InterruptBody
  <2> QED BY <2>1, <2>2, CancelledType, CancelPendingType
<1>4. stage' \in [Ops -> Stages] /\ registered' \subseteq Ops
      /\ finished' \in [Ops -> Seq(Statuses)]
  <2>1. CASE Retire(o, "completed")
    BY <2>1 DEF Retire, TypeOK, Stages, Statuses
  <2>2. CASE /\ stage' = [stage EXCEPT ![o] = "suspended"]
             /\ registered' = IF stage[o] = "new" THEN registered \cup {o} ELSE registered
             /\ UNCHANGED finished
    BY <2>2 DEF TypeOK, Stages, Statuses
  <2> QED BY <2>1, <2>2 DEF InterruptBody
<1> QED BY <1>1, <1>2, <1>3, <1>4

LEMMA RespondBodyType ==
  ASSUME TypeOK, NEW o \in Ops, RespondBody(o)
  PROVE  /\ awaiting' \in [Ops -> SUBSET Ops] /\ handles' \in [Actors -> SUBSET Ops]
         /\ root' \in [Actors -> Ops \cup {NoOp}] /\ task' \in [Ops -> Tasks]
         /\ stage' \in [Ops -> Stages] /\ registered' \subseteq Ops
         /\ finished' \in [Ops -> Seq(Statuses)] /\ pending' \in [Actors -> SUBSET Ops]
<1>1. PICK s \in Statuses : Finish(o, s, {})
  BY DEF RespondBody, Statuses
<1>2. task' \in [Ops -> Tasks] /\ pending' \in [Actors -> SUBSET Ops]
  BY DEF RespondBody, TypeOK, Tasks, LiveTask
<1>3. awaiting' = awaiting /\ handles' = handles
  BY DEF RespondBody
<1> QED BY <1>1, <1>2, <1>3, FinishType DEF TypeOK

LEMMA StopBodyType ==
  ASSUME TypeOK, NEW a \in Actors, StopBody(a)
  PROVE  /\ handles' \in [Actors -> SUBSET Ops] /\ root' \in [Actors -> Ops \cup {NoOp}]
         /\ task' \in [Ops -> Tasks] /\ pending' \in [Actors -> SUBSET Ops]
         /\ stopWait' \in [0..MaxActors -> SUBSET Ops]
         /\ closing' \in [Actors -> {"open", "cancelling", "joining", "closed", "abandoned"}]
<1>1. ActiveTasks(a) \subseteq Ops
  BY DEF TypeOK, ActiveTasks
<1>2. stopWait' \in [0..MaxActors -> SUBSET Ops]
  BY <1>1 DEF StopBody, TypeOK
<1>3. /\ closing' \in [Actors -> {"open", "cancelling", "joining", "closed", "abandoned"}]
      /\ pending' \in [Actors -> SUBSET Ops]
  BY DEF StopBody, TypeOK
<1> QED BY <1>2, <1>3, DropType, CancelledType DEF StopBody

(***************************************************************************)
(* Every step keeps the types.                                             *)
(***************************************************************************)
LEMMA TypeSubmit ==
  ASSUME TypeOK, NEW o \in Ops, NEW a \in Actors, Submit(o, a)
  PROVE  TypeOK'
<1>1. control' \in [Actors -> Seq(Ops \cup {Stop})] /\ normal' \in [Actors -> Seq(Ops)]
  <2>1. CASE control' = [control EXCEPT ![a] = Append(@, o)] /\ normal' = normal
    BY <2>1, MailboxType
  <2>2. CASE normal' = [normal EXCEPT ![a] = Append(@, o)] /\ control' = control
    BY <2>2, MailboxType
  <2> QED BY <2>1, <2>2 DEF Submit
<1>2. idle' \in [Actors -> Idles] /\ stage' \in [Ops -> Stages] /\ registered' \subseteq Ops
  BY DEF TypeOK, Submit, Stages, Idles
<1>3. Accept(o, a)
  BY DEF Submit
<1> QED BY <1>1, <1>2, <1>3, AcceptType DEF TypeOK, Idles, Submit

LEMMA TypeSubmitPreemptive ==
  ASSUME TypeOK, NEW o \in Ops, NEW a \in Actors, SubmitPreemptive(o, a)
  PROVE  TypeOK'
<1>1. idle' \in [Actors -> Idles]
  BY DEF TypeOK, Idles, SubmitPreemptive
<1>2. Accept(o, a) /\ (InterruptBody(o) \/ RespondBody(o))
  BY DEF SubmitPreemptive
<1> QED BY <1>1, <1>2, AcceptType, InterruptBodyType, RespondBodyType
        DEF TypeOK, Idles, Tasks, Statuses, SubmitPreemptive

BeginTypes ==
  /\ pc \in [Actors -> {"select", "waiting", "handling", "exited"}]
  /\ item \in [Actors -> Ops \cup {NoOp}]
  /\ stage \in [Ops -> Stages] /\ registered \subseteq Ops
  /\ finished \in [Ops -> Seq(Statuses)]
  /\ root \in [Actors -> Ops \cup {NoOp}]
  /\ idle \in [Actors -> Idles]
  /\ burst \in [Actors -> Nat]
  /\ overtaken \in [Actors -> Nat]

\* The worker took x: the counts, then Begin.
LEMMA TakeType ==
  ASSUME TypeOK, NEW a \in Actors, NEW x, NEW w, Begin(a, x),
         \/ CountControl(a, x) /\ Overtakes(a, x, w)
         \/ CountNormal(a) /\ OvertakesNone(a)
  PROVE  BeginTypes'
<1>1. burst' \in [Actors -> Nat]
  BY CountType
<1>2. overtaken' \in [Actors -> Nat]
  BY OvertakesType
<1> QED BY <1>1, <1>2, BeginType DEF BeginTypes

LEMMA TypeWorker ==
  ASSUME TypeOK, NEW a \in Actors, Worker(a)
  PROVE  TypeOK'
<1>1. CASE TakeNormal(a)
  <2>1. BeginTypes'
    BY <1>1, TakeType DEF TakeNormal
  <2>2. normal' \in [Actors -> Seq(Ops)] /\ pre' \in [Actors -> Slots]
    <3>1. normal \in [Actors -> Seq(Ops)] /\ pre \in [Actors -> Slots] /\ NoOp \in Items
      BY DEF TypeOK, Items
    <3>2. CASE pre' = [pre EXCEPT ![a].normal = NoOp] /\ normal' = normal
      BY <3>1, <3>2, SlotUpdateType
    <3>3. CASE normal[a] # <<>> /\ normal' = [normal EXCEPT ![a] = Tail(@)] /\ pre' = pre
      BY <3>1, <3>3, MailboxType
    <3> QED BY <1>1, <3>2, <3>3 DEF TakeNormal, UsePrefetchedNormal, NormalAvailable
  <2> QED BY <1>1, <2>1, <2>2 DEF TakeNormal, TakeFrame, TypeOK, BeginTypes, Idles, Statuses
<1>2. CASE TakeControl(a)
  <2>1. BeginTypes'
    BY <1>2, TakeType DEF TakeControl
  <2>2. control' \in [Actors -> Seq(Ops \cup {Stop})] /\ pre' \in [Actors -> Slots]
    <3>1. /\ control \in [Actors -> Seq(Ops \cup {Stop})] /\ pre \in [Actors -> Slots]
          /\ NoOp \in Items
      BY DEF TypeOK, Items
    <3>2. CASE pre' = [pre EXCEPT ![a].control = NoOp] /\ control' = control
      BY <3>1, <3>2, SlotUpdateType
    <3>3. CASE control[a] # <<>> /\ control' = [control EXCEPT ![a] = Tail(@)] /\ pre' = pre
      BY <3>1, <3>3, MailboxType
    <3> QED BY <1>2, <3>2, <3>3 DEF TakeControl, ControlAvailable
  <2> QED BY <1>2, <2>1, <2>2 DEF TakeControl, TakeFrame, TypeOK, BeginTypes, Idles, Statuses
<1>3. CASE ArmGetters(a)
  BY <1>3 DEF ArmGetters, TypeOK
<1>4. CASE GetterTakesControl(a)
  <2>1. control \in [Actors -> Seq(Ops \cup {Stop})] /\ got \in [Actors -> Slots]
    BY DEF TypeOK
  <2>2. /\ control[a] # <<>> /\ control' = [control EXCEPT ![a] = Tail(@)]
        /\ got' = [got EXCEPT ![a].control = Head(control[a])]
    BY <1>4 DEF GetterTakesControl
  <2>3. Head(control[a]) \in Items /\ Tail(control[a]) \in Seq(Ops \cup {Stop})
    BY <2>2, MailboxType DEF Items
  <2>4. got' \in [Actors -> Slots]
    BY <2>1, <2>2, <2>3, SlotUpdateType
  <2>5. control' \in [Actors -> Seq(Ops \cup {Stop})]
    BY <2>1, <2>2, <2>3
  <2>6. stage' \in [Ops -> Stages]
    BY <1>4 DEF GetterTakesControl, TypeOK, Stages
  <2> QED BY <1>4, <2>4, <2>5, <2>6 DEF GetterTakesControl, TypeOK
<1>5. CASE GetterTakesNormal(a)
  <2>1. normal \in [Actors -> Seq(Ops)] /\ got \in [Actors -> Slots]
    BY DEF TypeOK
  <2>2. /\ normal[a] # <<>> /\ normal' = [normal EXCEPT ![a] = Tail(@)]
        /\ got' = [got EXCEPT ![a].normal = Head(normal[a])]
        /\ stage' = [stage EXCEPT ![Head(normal[a])] = "held"]
    BY <1>5 DEF GetterTakesNormal
  <2>3. Head(normal[a]) \in Items /\ Tail(normal[a]) \in Seq(Ops)
    BY <2>2, MailboxType DEF Items
  <2>4. got' \in [Actors -> Slots]
    BY <2>1, <2>2, <2>3, SlotUpdateType
  <2>5. normal' \in [Actors -> Seq(Ops)]
    BY <2>1, <2>2, <2>3
  <2>6. stage' \in [Ops -> Stages]
    BY <1>5, <2>2 DEF GetterTakesNormal, TypeOK, Stages
  <2> QED BY <1>5, <2>4, <2>5, <2>6 DEF GetterTakesNormal, TypeOK
<1>6. CASE ResumeWithOne(a)
  <2>1. BeginTypes'
    BY <1>6, TakeType DEF ResumeWithOne
  <2>2. got' \in [Actors -> Slots]
    BY <1>6 DEF ResumeWithOne, TypeOK, Slots, Items
  <2> QED BY <1>6, <2>1, <2>2 DEF ResumeWithOne, TakeFrame, TypeOK, BeginTypes, Idles, Statuses
<1>7. CASE ResumeWithBoth(a)
  <2>1. BeginTypes'
    BY <1>7, TakeType DEF ResumeWithBoth
  <2>2. got' \in [Actors -> Slots] /\ pre' \in [Actors -> Slots]
    <3>1. /\ got \in [Actors -> Slots] /\ pre \in [Actors -> Slots] /\ NoOp \in Items
          /\ got[a].control \in Items /\ got[a].normal \in Items
      BY DEF TypeOK, Items, Slots
    <3>2. got' \in [Actors -> Slots]
      BY <1>7, <3>1, SlotUpdateType DEF ResumeWithBoth
    <3>3. CASE pre' = [pre EXCEPT ![a].normal = got[a].normal]
      BY <3>1, <3>2, <3>3, SlotUpdateType
    <3>4. CASE pre' = [pre EXCEPT ![a].control = got[a].control]
      BY <3>1, <3>2, <3>4, SlotUpdateType
    <3> QED BY <1>7, <3>2, <3>3, <3>4 DEF ResumeWithBoth
  <2> QED BY <1>7, <2>1, <2>2 DEF ResumeWithBoth, TakeFrame, TypeOK, BeginTypes, Idles, Statuses
<1> QED BY <1>1, <1>2, <1>3, <1>4, <1>5, <1>6, <1>7 DEF Worker

\* A handler returned: what Finish and Release assign.
LEMMA ReturnType ==
  ASSUME TypeOK, NEW o \in Ops, NEW s \in Statuses, NEW S, Finish(o, s, S), Release(o)
  PROVE  /\ stage' \in [Ops -> Stages] /\ registered' \subseteq Ops
         /\ finished' \in [Ops -> Seq(Statuses)]
         /\ root' \in [Actors -> Ops \cup {NoOp}]
         /\ pc' \in [Actors -> {"select", "waiting", "handling", "exited"}]
         /\ item' \in [Actors -> Ops \cup {NoOp}]
BY FinishType, ReleaseType

LEMMA StatusesKnown == "completed" \in Statuses /\ "rejected" \in Statuses /\ "failed" \in Statuses
BY DEF Statuses

LEMMA TypeReturns ==
  ASSUME TypeOK, NEW a \in Actors, NEW o \in Ops,
         \/ FailItem(a, o) \/ RunPlain(a, o) \/ InitDone(a, o)
         \/ RunCloseRefused(a, o) \/ CloseAwaitsItself(a, o) \/ CloseDone(a, o)
  PROVE  TypeOK'
<1>1. CASE FailItem(a, o)
  BY <1>1, ReturnType, StatusesKnown, RefreshIdleType DEF FailItem, TypeOK, Statuses, Idles
<1>2. CASE RunPlain(a, o)
  BY <1>2, ReturnType, StatusesKnown, RefreshIdleType DEF RunPlain, TypeOK, Statuses, Idles
<1>3. CASE InitDone(a, o)
  <2>1. agent' \in [Actors -> BOOLEAN]
    BY <1>3 DEF InitDone, TypeOK
  <2>2. idle' \in [Actors -> Idles]
    BY <1>3 DEF InitDone, TypeOK, Idles
  <2> QED BY <1>3, <2>1, <2>2, ReturnType, StatusesKnown DEF InitDone, TypeOK, Statuses, Idles
<1>4. CASE RunCloseRefused(a, o)
  BY <1>4, ReturnType, StatusesKnown, RefreshIdleType
     DEF RunCloseRefused, TypeOK, Statuses, Idles
<1>5. CASE CloseAwaitsItself(a, o)
  BY <1>5, ReturnType, StatusesKnown, RefreshIdleType
     DEF CloseAwaitsItself, TypeOK, Statuses, Idles
<1>6. CASE CloseDone(a, o)
  BY <1>6, ReturnType, StatusesKnown DEF CloseDone, TypeOK, Statuses, Idles
<1> QED BY <1>1, <1>2, <1>3, <1>4, <1>5, <1>6

LEMMA TypeHandler ==
  ASSUME TypeOK, NEW a \in Actors, Handler(a)
  PROVE  TypeOK'
<1> PICK o \in Ops :
      \/ FailItem(a, o) \/ RunPlain(a, o) \/ InitLoaded(a, o) \/ InitDone(a, o)
      \/ RegisterTask(a, o) \/ CompactCancels(a, o) \/ RunInterrupt(a, o) \/ RunRespond(a, o)
      \/ RunCloseRefused(a, o) \/ RunClose(a, o) \/ CloseAwaitsItself(a, o) \/ CloseDone(a, o)
  BY DEF Handler
<1>1. CASE InitLoaded(a, o)
  <2>1. PICK b \in Actors : EnsureActor(b) /\ target' = [target EXCEPT ![o] = b]
    BY <1>1 DEF InitLoaded
  <2>2. target' \in [Ops -> 0..MaxActors]
    BY <2>1, ActorsAreNumbers DEF TypeOK
  <2>3. cur' \in 0..MaxActors /\ made' \in 0..MaxActors
    BY <2>1, EnsureActorType
  <2>4. UNCHANGED <<registered, queueVars, workerVars, actorVars, stage, owner, awaiting,
                    finished, stopVars, task>>
    BY <1>1 DEF InitLoaded
  <2> QED BY <2>2, <2>3, <2>4 DEF TypeOK
<1>2. CASE RegisterTask(a, o)
  <2>1. cur \in Actors
    BY <1>2, ActorsAreNumbers DEF RegisterTask, TypeOK
  <2>2. task' \in [Ops -> Tasks] /\ idle' \in [Actors -> Idles]
    BY <1>2 DEF RegisterTask, TypeOK, Tasks, LiveTask, Idles
  <2>3. handles' \in [Actors -> SUBSET Ops]
    <3>1. PICK S \in SUBSET Ops : handles' = [handles EXCEPT ![cur] = S \cup {o}]
      BY <1>2, <2>1 DEF RegisterTask, TypeOK, ActiveTasks
    <3> QED BY <3>1 DEF TypeOK
  <2>4. /\ stage' \in [Ops -> Stages] /\ registered' \subseteq Ops
        /\ finished' \in [Ops -> Seq(Statuses)]
        /\ root' \in [Actors -> Ops \cup {NoOp}]
    <3>1. CASE /\ stage' = [stage EXCEPT ![o] = "background"]
               /\ UNCHANGED <<registered, root, finished>>
      BY <3>1 DEF TypeOK, Stages, Statuses
    <3>2. CASE Finish(o, "completed", {})
      BY <3>2, FinishType, StatusesKnown
    <3> QED BY <1>2, <3>1, <3>2 DEF RegisterTask
  <2> QED BY <1>2, <2>2, <2>3, <2>4, ReleaseType DEF RegisterTask, TypeOK, Tasks, Idles, Statuses
<1>3. CASE CompactCancels(a, o)
  <2>1. stage' \in [Ops -> Stages] /\ awaiting' \in [Ops -> SUBSET Ops]
    BY <1>3, CurrentTasksType DEF CompactCancels, TypeOK, Stages
  <2> QED BY <1>3, <2>1, DropType, CancelledType DEF CompactCancels, TypeOK, Tasks
<1>4. CASE RunInterrupt(a, o)
  <2>1. /\ pc' \in [Actors -> {"select", "waiting", "handling", "exited"}]
        /\ item' \in [Actors -> Ops \cup {NoOp}]
    <3>1. Release(o) \/ UNCHANGED workerVars
      BY <1>4 DEF RunInterrupt
    <3> QED BY <3>1, ReleaseType DEF TypeOK
  <2> QED BY <1>4, <2>1, InterruptBodyType, RefreshIdleType
          DEF RunInterrupt, TypeOK, Idles, Tasks, Statuses
<1>5. CASE RunRespond(a, o)
  BY <1>5, RespondBodyType, ReleaseType, RefreshIdleType
     DEF RunRespond, TypeOK, Idles, Tasks, Statuses
<1>6. CASE RunClose(a, o)
  <2>1. cur \in Actors
    BY <1>6, ActorsAreNumbers DEF RunClose, TypeOK
  <2>2. /\ stage' \in [Ops -> Stages] /\ target' \in [Ops -> 0..MaxActors]
        /\ cur' \in 0..MaxActors
    <3>1. stage' = [stage EXCEPT ![o] = "suspended"] /\ target' = [target EXCEPT ![o] = cur]
          /\ cur' = 0
      BY <1>6 DEF RunClose
    <3>2. stage' \in [Ops -> Stages]
      BY <3>1 DEF TypeOK, Stages
    <3>3. target' \in [Ops -> 0..MaxActors]
      BY <3>1 DEF TypeOK
    <3> QED BY <3>1, <3>2, <3>3, ActorsAreNumbers
  <2>3. StopBody(cur) /\ registered' = {}
    BY <1>6 DEF RunClose
  <2>4. UNCHANGED <<made, queueVars, workerVars, agent, idle, owner, awaiting, finished, phase,
                    silenced>>
    BY <1>6 DEF RunClose
  <2>5. /\ handles' \in [Actors -> SUBSET Ops] /\ root' \in [Actors -> Ops \cup {NoOp}]
        /\ task' \in [Ops -> Tasks] /\ pending' \in [Actors -> SUBSET Ops]
        /\ stopWait' \in [0..MaxActors -> SUBSET Ops]
        /\ closing' \in [Actors -> {"open", "cancelling", "joining", "closed", "abandoned"}]
    BY <2>1, <2>3, StopBodyType
  <2> QED BY <2>2, <2>3, <2>4, <2>5 DEF TypeOK, Tasks
<1> QED BY <1>1, <1>2, <1>3, <1>4, <1>5, <1>6, TypeReturns

LEMMA TypeTasks ==
  ASSUME TypeOK, NEW o \in Ops,
         \/ EndInterrupt(o) \/ TaskStarts(o) \/ TaskDies(o)
         \/ TaskResumes(o) \/ TaskEnds(o) \/ WrapperFinishes(o)
  PROVE  TypeOK'
<1>1. CASE EndInterrupt(o)
  <2>1. pending' \in [Actors -> SUBSET Ops] /\ task' \in [Ops -> Tasks]
    BY <1>1, CancelPendingType, CancelledType DEF EndInterrupt
  <2> QED BY <1>1, <2>1, ReturnType, StatusesKnown, RefreshIdleType
          DEF EndInterrupt, TypeOK, Statuses, Idles, Tasks
<1>2. CASE TaskStarts(o)
  BY <1>2 DEF TaskStarts, TypeOK, LiveTask
<1>3. CASE TaskDies(o)
  BY <1>3 DEF TaskDies, TypeOK, DoneTask
<1>4. CASE TaskResumes(o)
  BY <1>4 DEF TaskResumes, TypeOK, LiveTask
<1>5. CASE TaskEnds(o)
  <2>1. task' \in [Ops -> Tasks]
    BY <1>5 DEF TaskEnds, TypeOK, Tasks, DoneTask
  <2>2. handles' \in [Actors -> SUBSET Ops] /\ root' \in [Actors -> Ops \cup {NoOp}]
    BY <1>5 DEF TaskEnds, RemoveTask, TypeOK
  <2> QED BY <1>5, <2>1, <2>2, RefreshIdleType DEF TaskEnds, TypeOK, Idles, Tasks
<1>6. CASE WrapperFinishes(o)
  BY <1>6, FinishType, StatusesKnown, RefreshIdleType DEF WrapperFinishes, TypeOK, Statuses, Idles
<1> QED BY <1>1, <1>2, <1>3, <1>4, <1>5, <1>6

LEMMA TypeInteraction ==
  ASSUME TypeOK, NEW o \in Ops, NEW a \in Actors, TaskAsks(o, a) \/ InteractionCancelled(o, a)
  PROVE  TypeOK'
<1>1. CASE TaskAsks(o, a)
  <2>1. /\ task' \in [Ops -> Tasks] /\ pending' \in [Actors -> SUBSET Ops]
        /\ idle' \in [Actors -> Idles]
    BY <1>1 DEF TaskAsks, TypeOK, Tasks, LiveTask, Idles
  <2> QED BY <1>1, <2>1, EnsureActorType DEF TaskAsks, TypeOK, Tasks, Idles
<1>2. CASE InteractionCancelled(o, a)
  <2>1. pending' \in [Actors -> SUBSET Ops]
    BY <1>2 DEF InteractionCancelled, TypeOK
  <2> QED BY <1>2, <2>1, RefreshIdleType DEF InteractionCancelled, TypeOK, Idles
<1> QED BY <1>1, <1>2

LEMMA TypeClosing ==
  ASSUME TypeOK, NEW a \in Actors,
         \/ CloseIdle(a) \/ ObserveIdle(a) \/ TTLPasses(a) \/ PostStop(a) \/ JoinWorker(a)
  PROVE  TypeOK'
<1>1. ASSUME control' = [control EXCEPT ![a] = Append(@, Stop)]
      PROVE  control' \in [Actors -> Seq(Ops \cup {Stop})]
  BY <1>1, MailboxType
<1>2. CASE CloseIdle(a)
  <2>1. control' \in [Actors -> Seq(Ops \cup {Stop})]
    BY <1>1, <1>2 DEF CloseIdle
  <2>2. cur' \in 0..MaxActors /\ registered' \subseteq Ops
    BY <1>2, ActorsAreNumbers DEF CloseIdle
  <2>3. closing' \in [Actors -> {"open", "cancelling", "joining", "closed", "abandoned"}]
    BY <1>2 DEF CloseIdle, TypeOK
  <2>4. UNCHANGED <<made, normal, got, pre, burst, overtaken, workerVars, actorVars, opVars,
                    phase, stopWait, silenced, task>>
    BY <1>2 DEF CloseIdle
  <2> QED BY <2>1, <2>2, <2>3, <2>4 DEF TypeOK
<1>3. CASE ObserveIdle(a)
  BY <1>3 DEF ObserveIdle, TypeOK
<1>4. CASE TTLPasses(a)
  BY <1>4 DEF TTLPasses, TypeOK
<1>5. CASE PostStop(a)
  BY <1>1, <1>5 DEF PostStop, TypeOK
<1>6. CASE JoinWorker(a)
  <2>1. control' \in [Actors -> Seq(Ops \cup {Stop})] /\ normal' \in [Actors -> Seq(Ops)]
    BY <1>6 DEF JoinWorker, TypeOK
  <2>2. pre' \in [Actors -> Slots]
    BY <1>6 DEF JoinWorker, TypeOK, Slots, Items
  <2>3. /\ stage' \in [Ops -> Stages] /\ handles' \in [Actors -> SUBSET Ops]
        /\ agent' \in [Actors -> BOOLEAN]
        /\ closing' \in [Actors -> {"open", "cancelling", "joining", "closed", "abandoned"}]
    BY <1>6 DEF JoinWorker, TypeOK, Stages
  <2>4. /\ cur' \in 0..MaxActors /\ registered' \subseteq Ops
        /\ phase' \in {"up", "stopping", "draining", "closing", "down"}
    <3>1. CASE cur' = 0 /\ registered' = {} /\ phase' = "down"
      BY <3>1, ActorsAreNumbers
    <3>2. CASE UNCHANGED <<cur, registered, phase>>
      BY <3>2 DEF TypeOK
    <3> QED BY <1>6, <3>1, <3>2 DEF JoinWorker
  <2>5. idle' \in [Actors -> Idles]
    BY <1>6, RefreshIdleType DEF JoinWorker
  <2>6. UNCHANGED <<made, got, burst, overtaken, workerVars, root, pending, owner, target,
                    awaiting, finished, stopWait, silenced, task>>
    BY <1>6 DEF JoinWorker
  <2> QED BY <2>1, <2>2, <2>3, <2>4, <2>5, <2>6 DEF TypeOK, Idles
<1> QED BY <1>2, <1>3, <1>4, <1>5, <1>6

LEMMA TypeShutdown ==
  ASSUME TypeOK, FacadeStops \/ RegistryStops \/ RegistryStopsActor
  PROVE  TypeOK'
<1>1. CASE FacadeStops
  <2>1. pending' \in [Actors -> SUBSET Ops] /\ task' \in [Ops -> Tasks]
    BY <1>1, CancelPendingType, CancelledType DEF FacadeStops
  <2>2. stopWait' \in [0..MaxActors -> SUBSET Ops]
    BY <1>1, CurrentTasksType DEF FacadeStops, TypeOK
  <2> QED BY <1>1, <2>1, <2>2, RefreshIdleType DEF FacadeStops, TypeOK, Idles, Tasks
<1>2. CASE RegistryStops
  <2> DEFINE S == {o \in Ops : stage[o] = "background"}
  <2>1. pending' \in [Actors -> SUBSET Ops] /\ task' \in [Ops -> Tasks]
    BY <1>2, CancelPendingType, CancelledType DEF RegistryStops
  <2>2. stopWait' = [stopWait EXCEPT ![0] = S] /\ S \in SUBSET Ops
    BY <1>2 DEF RegistryStops
  <2>3. stopWait' \in [0..MaxActors -> SUBSET Ops]
    <3> HIDE DEF S
    <3> QED BY <2>2 DEF TypeOK
  <2>4. silenced' \subseteq Ops
    BY <1>2 DEF RegistryStops
  <2> HIDE DEF S
  <2> QED BY <1>2, <2>1, <2>3, <2>4, RefreshIdleType DEF RegistryStops, TypeOK, Idles, Tasks
<1>3. CASE RegistryStopsActor
  <2>1. CASE cur = 0
    BY <1>3, <2>1 DEF RegistryStopsActor, TypeOK
  <2>2. CASE cur # 0
    <3>1. cur \in Actors
      BY <2>2, ActorsAreNumbers DEF TypeOK
    <3>2. StopBody(cur) /\ phase' = "closing" /\ UNCHANGED registered
          /\ UNCHANGED <<cur, made, queueVars, workerVars, agent, idle, opVars, silenced>>
      BY <1>3, <2>2 DEF RegistryStopsActor
    <3>3. /\ handles' \in [Actors -> SUBSET Ops] /\ root' \in [Actors -> Ops \cup {NoOp}]
          /\ task' \in [Ops -> Tasks] /\ pending' \in [Actors -> SUBSET Ops]
          /\ stopWait' \in [0..MaxActors -> SUBSET Ops]
          /\ closing' \in [Actors -> {"open", "cancelling", "joining", "closed", "abandoned"}]
      BY <3>1, <3>2, StopBodyType
    <3> QED BY <3>2, <3>3 DEF TypeOK, Tasks
  <2> QED BY <2>1, <2>2
<1> QED BY <1>1, <1>2, <1>3

\* Every variable of the session runtime keeps its type, in every reachable state.
THEOREM TypeCorrect == Spec => []TypeOK
<1>1. Init => TypeOK
  BY BoundsAssumption, ActorsAreNumbers
     DEF Init, TypeOK, Slots, Items, Stages, LiveTask, DoneTask
<1>2. TypeOK /\ [Next]_vars => TypeOK'
  <2> SUFFICES ASSUME TypeOK, [Next]_vars
               PROVE  TypeOK'
    OBVIOUS
  <2>1. CASE UNCHANGED vars
    BY <2>1 DEF TypeOK
  <2>2. CASE \E o \in Ops, a \in Actors : \/ Submit(o, a) \/ SubmitPreemptive(o, a)
                                          \/ TaskAsks(o, a) \/ InteractionCancelled(o, a)
    BY <2>2, TypeSubmit, TypeSubmitPreemptive, TypeInteraction
  <2>3. CASE \E o \in Ops : \/ EndInterrupt(o) \/ TaskStarts(o) \/ TaskDies(o)
                            \/ TaskResumes(o) \/ TaskEnds(o) \/ WrapperFinishes(o)
    BY <2>3, TypeTasks
  <2>4. CASE \E a \in Actors : \/ Worker(a) \/ Handler(a) \/ PostStop(a) \/ JoinWorker(a)
                               \/ ObserveIdle(a) \/ TTLPasses(a)
    BY <2>4, TypeWorker, TypeHandler, TypeClosing
  <2>5. CASE CloseByRoute \/ Reclaim
    BY <2>5, TypeClosing DEF CloseByRoute, Reclaim
  <2>6. CASE FacadeStops \/ RegistryStops \/ RegistryStopsActor
    BY <2>6, TypeShutdown
  <2> QED BY <2>1, <2>2, <2>3, <2>4, <2>5, <2>6 DEF Next
<1> QED BY <1>1, <1>2, PTL DEF Spec

-----------------------------------------------------------------------------
(* Where the operations are: OnePlace, and BypassBound. *)

USE DEF vars, registryVars, queueVars, workerVars, actorVars, opVars, stopVars

Waiting == {"control", "normal", "held"}
Busy == {"handling", "suspended"}
Settled == {"background", "finished"}

(***************************************************************************)
(* The parts of PlacesOK over explicit arguments: mailboxes ct and no,      *)
(* slots pr and gt, worker p and it, stages st and owners ow.               *)
(***************************************************************************)
Queued(q, a, where, isControl, st, ow) ==
  /\ \A i \in 1..Len(q) : q[i] \in Ops =>
       st[q[i]] = where /\ ow[q[i]] = a /\ IsControl(q[i]) = isControl
  /\ \A i, j \in 1..Len(q) : q[i] \in Ops /\ q[i] = q[j] => i = j

Held(slots, a, st, ow) ==
  /\ slots.control \in Ops =>
       st[slots.control] = "held" /\ ow[slots.control] = a /\ IsControl(slots.control)
  /\ slots.normal \in Ops =>
       st[slots.normal] = "held" /\ ow[slots.normal] = a /\ ~IsControl(slots.normal)
  /\ slots.normal # Stop

Works(p, it, pr, gt, a, st, ow) ==
  /\ p = "waiting" => pr = NoItems
  /\ p # "waiting" => gt = NoItems
  /\ p = "handling" <=> it # NoOp
  /\ it \in Ops => st[it] \in Busy /\ ow[it] = a

Places(a, ct, no, pr, gt, p, it, st, ow) ==
  /\ Queued(ct, a, "control", TRUE, st, ow)
  /\ Queued(no, a, "normal", FALSE, st, ow)
  /\ Held(pr, a, st, ow) /\ Held(gt, a, st, ow)
  /\ Works(p, it, pr, gt, a, st, ow)

LEMMA PlacesNow ==
  ASSUME NEW a \in Actors
  PROVE  PlacesOK(a) <=> Places(a, control[a], normal[a], pre[a], got[a], pc[a], item[a],
                                stage, owner)
BY DEF PlacesOK, MailboxOK, SlotsOK, Places, Queued, Held, Works, Busy

LEMMA PlacesNext ==
  ASSUME NEW a \in Actors
  PROVE  PlacesOK(a)' <=> Places(a, control'[a], normal'[a], pre'[a], got'[a], pc'[a],
                                 item'[a], stage', owner')
BY DEF PlacesOK, MailboxOK, SlotsOK, Places, Queued, Held, Works, Busy, NoItems

(***************************************************************************)
(* A mailbox or a slot keeps its promise when what it holds keeps its stage *)
(* and owner; a mailbox also when an item is appended or its head taken.    *)
(***************************************************************************)
LEMMA QueuedFrame ==
  ASSUME NEW q, NEW a, NEW w, NEW c, NEW st, NEW ow, NEW st2, NEW ow2,
         Queued(q, a, w, c, st, ow),
         \A i \in 1..Len(q) : q[i] \in Ops => /\ st2[q[i]] = st[q[i]]
                                              /\ ow2[q[i]] = ow[q[i]]
  PROVE  Queued(q, a, w, c, st2, ow2)
BY DEF Queued

LEMMA QueuedAppend ==
  ASSUME NEW q \in Seq(Ops \cup {Stop}), NEW a, NEW w, NEW c, NEW st, NEW ow,
         NEW x \in Ops \cup {Stop},
         Queued(q, a, w, c, st, ow),
         x \in Ops => /\ st[x] = w /\ ow[x] = a /\ IsControl(x) = c
                      /\ \A i \in 1..Len(q) : q[i] # x
  PROVE  Queued(Append(q, x), a, w, c, st, ow)
<1> DEFINE r == Append(q, x)
<1>1. Len(r) = Len(q) + 1 /\ r[Len(q) + 1] = x /\ Len(q) \in Nat
      /\ \A i \in 1..Len(q) : r[i] = q[i]
  OBVIOUS
<1> HIDE DEF r
<1>2. \A i \in 1..Len(r) : r[i] \in Ops =>
        st[r[i]] = w /\ ow[r[i]] = a /\ IsControl(r[i]) = c
  <2> SUFFICES ASSUME NEW i \in 1..Len(r), r[i] \in Ops
               PROVE  st[r[i]] = w /\ ow[r[i]] = a /\ IsControl(r[i]) = c
    OBVIOUS
  <2>1. i \in 1..Len(q) \/ i = Len(q) + 1
    BY <1>1
  <2> QED BY <1>1, <2>1 DEF Queued
<1>3. \A i, j \in 1..Len(r) : r[i] \in Ops /\ r[i] = r[j] => i = j
  <2> SUFFICES ASSUME NEW i \in 1..Len(r), NEW j \in 1..Len(r), r[i] \in Ops, r[i] = r[j]
               PROVE  i = j
    OBVIOUS
  <2>1. (i \in 1..Len(q) \/ i = Len(q) + 1) /\ (j \in 1..Len(q) \/ j = Len(q) + 1)
    BY <1>1
  <2> QED BY <1>1, <2>1 DEF Queued
<1> QED BY <1>2, <1>3 DEF Queued, r

LEMMA QueuedTail ==
  ASSUME NEW q \in Seq(Ops \cup {Stop}), NEW a, NEW w, NEW c, NEW st, NEW ow,
         Queued(q, a, w, c, st, ow), q # <<>>
  PROVE  /\ Queued(Tail(q), a, w, c, st, ow)
         /\ \A i \in 1..Len(Tail(q)) : Tail(q)[i] \in Ops => Tail(q)[i] # Head(q)
<1> DEFINE r == Tail(q)
<1>1. /\ Len(q) \in Nat \ {0} /\ Len(r) = Len(q) - 1 /\ Head(q) = q[1]
      /\ \A i \in 1..Len(r) : r[i] = q[i + 1] /\ i + 1 \in 1..Len(q)
  OBVIOUS
<1> HIDE DEF r
<1>2. \A i \in 1..Len(r) : r[i] \in Ops =>
        st[r[i]] = w /\ ow[r[i]] = a /\ IsControl(r[i]) = c
  BY <1>1 DEF Queued
<1>3. \A i, j \in 1..Len(r) : r[i] \in Ops /\ r[i] = r[j] => i = j
  <2> SUFFICES ASSUME NEW i \in 1..Len(r), NEW j \in 1..Len(r), r[i] \in Ops, r[i] = r[j]
               PROVE  i = j
    OBVIOUS
  <2>1. i + 1 = j + 1
    BY <1>1 DEF Queued
  <2> QED BY <1>1, <2>1
<1>4. \A i \in 1..Len(r) : r[i] \in Ops => r[i] # Head(q)
  <2> SUFFICES ASSUME NEW i \in 1..Len(r), r[i] \in Ops, r[i] = q[1]
               PROVE  FALSE
    BY <1>1
  <2>1. i + 1 = 1
    BY <1>1 DEF Queued
  <2> QED BY <1>1, <2>1
<1> QED BY <1>2, <1>3, <1>4 DEF Queued, r

LEMMA QueuedHead ==
  ASSUME NEW q \in Seq(Ops \cup {Stop}), NEW a, NEW w, NEW c, NEW st, NEW ow,
         Queued(q, a, w, c, st, ow), q # <<>>, Head(q) \in Ops
  PROVE  st[Head(q)] = w /\ ow[Head(q)] = a /\ IsControl(Head(q)) = c
<1>1. Len(q) \in Nat \ {0} /\ Head(q) = q[1]
  OBVIOUS
<1> QED BY <1>1 DEF Queued

LEMMA HeldFrame ==
  ASSUME NEW slots, NEW a, NEW st, NEW ow, NEW st2, NEW ow2,
         Held(slots, a, st, ow),
         \A o \in {slots.control, slots.normal} \cap Ops : st2[o] = st[o] /\ ow2[o] = ow[o]
  PROVE  Held(slots, a, st2, ow2)
BY DEF Held

\* What waits in actor a stays put, and its worker keeps what it handles.
LEMMA PlacesFrame ==
  ASSUME NEW a, NEW ct, NEW no, NEW pr, NEW gt, NEW p, NEW it, NEW st, NEW ow,
         NEW st2, NEW ow2,
         Places(a, ct, no, pr, gt, p, it, st, ow),
         \A o \in Ops : st[o] \in Waiting /\ ow[o] = a => st2[o] = st[o] /\ ow2[o] = a,
         it \in Ops /\ st[it] \in Busy /\ ow[it] = a => st2[it] \in Busy /\ ow2[it] = a
  PROVE  Places(a, ct, no, pr, gt, p, it, st2, ow2)
<1>1. Queued(ct, a, "control", TRUE, st2, ow2)
  BY DEF Places, Queued, Waiting
<1>2. Queued(no, a, "normal", FALSE, st2, ow2)
  BY DEF Places, Queued, Waiting
<1>3. Held(pr, a, st2, ow2) /\ Held(gt, a, st2, ow2)
  BY DEF Places, Held, Waiting
<1>4. Works(p, it, pr, gt, a, st2, ow2)
  BY DEF Places, Works
<1> QED BY <1>1, <1>2, <1>3, <1>4 DEF Places

(***************************************************************************)
(* Shapes of a step: what it leaves alone suffices for an actor's places.  *)
(***************************************************************************)

\* What waits in a stays put, its queues and its worker are unchanged.
LEMMA PlaceUndisturbed ==
  ASSUME NEW a \in Actors, PlacesOK(a),
         control'[a] = control[a], normal'[a] = normal[a], pre'[a] = pre[a],
         got'[a] = got[a], pc'[a] = pc[a], item'[a] = item[a],
         \A o \in Ops : owner[o] = a /\ stage[o] \in Waiting =>
                          stage'[o] = stage[o] /\ owner'[o] = a,
         \A o \in Ops : owner[o] = a /\ stage[o] \in Busy =>
                          stage'[o] \in Busy /\ owner'[o] = a
  PROVE  PlacesOK(a)'
<1>1. Places(a, control[a], normal[a], pre[a], got[a], pc[a], item[a], stage, owner)
  BY PlacesNow
<1>2. Places(a, control[a], normal[a], pre[a], got[a], pc[a], item[a], stage', owner')
  BY <1>1, PlacesFrame
<1> QED BY <1>2, PlacesNext

\* The handler of o returns; no other operation moves.
LEMMA PlaceReturned ==
  ASSUME TypeOK, NEW a \in Actors, NEW o \in Ops, PlacesOK(a),
         UNCHANGED <<control, normal, pre, got, owner>>, Release(o),
         stage[o] \in Busy, \A p \in Ops \ {o} : stage'[p] = stage[p]
  PROVE  PlacesOK(a)'
<1>1. CASE item[a] # o
  <2>1. pc'[a] = pc[a] /\ item'[a] = item[a]
    BY <1>1 DEF Release
  <2>2. \A p \in Ops : stage[p] \in Waiting => stage'[p] = stage[p]
    BY DEF Waiting, Busy
  <2>3. Places(a, control[a], normal[a], pre[a], got[a], pc[a], item[a], stage, owner)
    BY PlacesNow
  <2>4. Places(a, control[a], normal[a], pre[a], got[a], pc[a], item[a], stage', owner)
    BY <1>1, <2>2, <2>3, PlacesFrame
  <2> QED BY <2>1, <2>4, PlacesNext
<1>2. CASE item[a] = o
  <2>1. pc'[a] = "select" /\ item'[a] = NoOp
    BY <1>2 DEF Release
  <2>2. \A p \in Ops : stage[p] \in Waiting => stage'[p] = stage[p]
    BY DEF Waiting, Busy
  <2>3. Places(a, control[a], normal[a], pre[a], got[a], pc[a], item[a], stage, owner)
    BY PlacesNow
  <2>4. Works("select", NoOp, pre[a], got[a], a, stage, owner)
    BY <1>2, <2>3, OpsAssumption DEF Places, Works
  <2>5. Places(a, control[a], normal[a], pre[a], got[a], "select", NoOp, stage, owner)
    BY <2>3, <2>4 DEF Places
  <2>6. Places(a, control[a], normal[a], pre[a], got[a], "select", NoOp, stage', owner)
    BY <2>2, <2>5, OpsAssumption, PlacesFrame
  <2> QED BY <2>1, <2>6, PlacesNext
<1> QED BY <1>1, <1>2

\* Another actor b moves operations of its own.
LEMMA PlaceOfOther ==
  ASSUME NEW a \in Actors, PlacesOK(a),
         control'[a] = control[a], normal'[a] = normal[a], pre'[a] = pre[a],
         got'[a] = got[a], pc'[a] = pc[a], item'[a] = item[a], owner' = owner,
         \A o \in Ops : owner[o] = a => stage'[o] = stage[o]
  PROVE  PlacesOK(a)'
BY PlaceUndisturbed

\* STOP is appended to a control mailbox.
LEMMA PlaceStopped ==
  ASSUME TypeOK, NEW a \in Actors, PlacesOK(a),
         control'[a] = Append(control[a], Stop),
         UNCHANGED <<normal, pre, got, pc, item, stage, owner>>
  PROVE  PlacesOK(a)'
<1>1. Places(a, control[a], normal[a], pre[a], got[a], pc[a], item[a], stage, owner)
  BY PlacesNow
<1>2. Queued(control'[a], a, "control", TRUE, stage, owner)
  <2>1. control[a] \in Seq(Ops \cup {Stop}) /\ Stop \notin Ops
    BY MailboxType, OpsAssumption
  <2>2. Queued(control[a], a, "control", TRUE, stage, owner)
    BY <1>1 DEF Places
  <2> QED BY <2>1, <2>2, QueuedAppend
<1>3. Places(a, control'[a], normal[a], pre[a], got[a], pc[a], item[a], stage, owner)
  BY <1>1, <1>2 DEF Places
<1> QED BY <1>3, PlacesNext

-----------------------------------------------------------------------------
(* The worker takes an item *)

\* What Begin does with the item x of an actor that handles nothing.
LEMMA BeginEffect ==
  ASSUME TypeOK, NEW a \in Actors, NEW x, Begin(a, x), item[a] = NoOp
  PROVE  /\ \A b \in Actors \ {a} : pc'[b] = pc[b] /\ item'[b] = item[b]
         /\ \A o \in Ops \ {x} : stage'[o] = stage[o]
         /\ x \in Ops => stage'[x] \in {"finished", "handling"}
         /\ \/ pc'[a] \in {"exited", "select"} /\ item'[a] = NoOp
            \/ pc'[a] = "handling" /\ x \in Ops /\ item'[a] = x /\ stage'[x] = "handling"
<1>1. CASE x = Stop /\ pc' = [pc EXCEPT ![a] = "exited"] /\ UNCHANGED <<item, stage>>
  BY <1>1, OpsAssumption DEF TypeOK
<1>2. CASE x \in Ops /\ Retire(x, "rejected") /\ pc' = [pc EXCEPT ![a] = "select"]
           /\ UNCHANGED item
  BY <1>2 DEF TypeOK, Retire
<1>3. CASE /\ x \in Ops
           /\ pc' = [pc EXCEPT ![a] = "handling"]
           /\ item' = [item EXCEPT ![a] = x]
           /\ stage' = [stage EXCEPT ![x] = "handling"]
  BY <1>3 DEF TypeOK
<1> QED BY <1>1, <1>2, <1>3 DEF Begin, Finish

\* The item left the queue and the slot it was in, and was in no other.
LEMMA PlaceBegun ==
  ASSUME TypeOK, NEW a \in Actors, NEW x, Begin(a, x), item[a] = NoOp,
         owner' = owner, x \in Ops => owner[x] = a,
         Queued(control'[a], a, "control", TRUE, stage, owner),
         Queued(normal'[a], a, "normal", FALSE, stage, owner),
         Held(pre'[a], a, stage, owner), got'[a] = NoItems,
         \A i \in 1..Len(control'[a]) : control'[a][i] \in Ops => control'[a][i] # x,
         \A i \in 1..Len(normal'[a]) : normal'[a][i] \in Ops => normal'[a][i] # x,
         x \in Ops => pre'[a].control # x /\ pre'[a].normal # x
  PROVE  PlacesOK(a)'
<1>1. \A o \in Ops \ {x} : stage'[o] = stage[o]
  BY BeginEffect
<1>2. Queued(control'[a], a, "control", TRUE, stage', owner')
  <2>1. \A i \in 1..Len(control'[a]) : control'[a][i] \in Ops =>
          stage'[control'[a][i]] = stage[control'[a][i]] /\ owner'[control'[a][i]] = owner[control'[a][i]]
    BY <1>1
  <2> QED BY <2>1, QueuedFrame
<1>3. Queued(normal'[a], a, "normal", FALSE, stage', owner')
  <2>1. \A i \in 1..Len(normal'[a]) : normal'[a][i] \in Ops =>
          stage'[normal'[a][i]] = stage[normal'[a][i]] /\ owner'[normal'[a][i]] = owner[normal'[a][i]]
    BY <1>1
  <2> QED BY <2>1, QueuedFrame
<1>4. Held(pre'[a], a, stage', owner')
  BY <1>1, HeldFrame
<1>5. Held(got'[a], a, stage', owner')
  BY OpsAssumption DEF Held, NoItems
<1>6. Works(pc'[a], item'[a], pre'[a], got'[a], a, stage', owner')
  BY BeginEffect, OpsAssumption DEF Works, Busy
<1> QED BY <1>2, <1>3, <1>4, <1>5, <1>6, PlacesNext DEF Places

\* Begin touches no other actor.
LEMMA BegunElsewhere ==
  ASSUME TypeOK, OnePlace, NEW a \in Actors, NEW x, Begin(a, x), item[a] = NoOp,
         owner' = owner, x \in Ops => owner[x] = a,
         NEW b \in Actors \ {a},
         control'[b] = control[b], normal'[b] = normal[b], pre'[b] = pre[b], got'[b] = got[b]
  PROVE  PlacesOK(b)'
<1>1. pc'[b] = pc[b] /\ item'[b] = item[b] /\ \A o \in Ops \ {x} : stage'[o] = stage[o]
  BY BeginEffect
<1>2. \A o \in Ops : owner[o] = b => stage'[o] = stage[o]
  BY <1>1
<1>3. PlacesOK(b)
  BY DEF OnePlace
<1> QED BY <1>1, <1>2, <1>3, PlaceOfOther

\* What actor a holds, with its containers typed.
LEMMA PlacesHere ==
  ASSUME TypeOK, OnePlace, NEW a \in Actors
  PROVE  /\ Queued(control[a], a, "control", TRUE, stage, owner)
         /\ Queued(normal[a], a, "normal", FALSE, stage, owner)
         /\ Held(pre[a], a, stage, owner) /\ Held(got[a], a, stage, owner)
         /\ Works(pc[a], item[a], pre[a], got[a], a, stage, owner)
         /\ control[a] \in Seq(Ops \cup {Stop}) /\ normal[a] \in Seq(Ops \cup {Stop})
         /\ pre[a] \in Slots /\ got[a] \in Slots
<1>1. PlacesOK(a)
  BY DEF OnePlace
<1>2. Places(a, control[a], normal[a], pre[a], got[a], pc[a], item[a], stage, owner)
  BY <1>1, PlacesNow
<1>3. control[a] \in Seq(Ops \cup {Stop}) /\ pre[a] \in Slots /\ got[a] \in Slots
  BY DEF TypeOK
<1>4. normal[a] \in Seq(Ops \cup {Stop})
  <2>1. normal[a] \in Seq(Ops)
    BY DEF TypeOK
  <2> QED BY <2>1
<1> QED BY <1>2, <1>3, <1>4 DEF Places

LEMMA PlacesTakeNormal ==
  ASSUME TypeOK, OnePlace, NEW a \in Actors, TakeNormal(a)
  PROVE  OnePlace'
<1>1. /\ pc[a] = "select" /\ item[a] = NoOp /\ got[a] = NoItems
      /\ UNCHANGED <<control, got, owner>>
  BY PlacesHere DEF TakeNormal, TakeFrame, Works
<1>2. /\ Queued(control[a], a, "control", TRUE, stage, owner)
      /\ Queued(normal[a], a, "normal", FALSE, stage, owner)
      /\ Held(pre[a], a, stage, owner)
      /\ control[a] \in Seq(Ops \cup {Stop}) /\ normal[a] \in Seq(Ops \cup {Stop})
  BY PlacesHere
<1>3. CASE pre[a].normal # NoOp
  <2> DEFINE x == pre[a].normal
  <2>1. Begin(a, x) /\ UNCHANGED normal /\ pre' = [pre EXCEPT ![a].normal = NoOp]
    BY <1>3 DEF TakeNormal, UsePrefetchedNormal
  <2>2. \A b \in Actors \ {a} : pre'[b] = pre[b]
    BY <2>1 DEF TypeOK
  <2>3. pre'[a].normal = NoOp /\ pre'[a].control = pre[a].control
    BY <2>1 DEF TypeOK, Slots
  <2>4. x \in Ops => stage[x] = "held" /\ owner[x] = a /\ ~IsControl(x)
    BY <1>2 DEF Held
  <2>5. Held(pre'[a], a, stage, owner)
    BY <1>2, <2>3, OpsAssumption DEF Held
  <2>6. x \in Ops => pre'[a].control # x /\ pre'[a].normal # x
    BY <1>2, <2>3, <2>4, OpsAssumption DEF Held
  <2>7. /\ \A i \in 1..Len(control[a]) : control[a][i] \in Ops => control[a][i] # x
        /\ \A i \in 1..Len(normal[a]) : normal[a][i] \in Ops => normal[a][i] # x
    BY <1>2, <2>4 DEF Queued
  <2> HIDE DEF x
  <2>8. PlacesOK(a)'
    BY <1>1, <1>2, <2>1, <2>4, <2>5, <2>6, <2>7, PlaceBegun
  <2>9. \A b \in Actors \ {a} : PlacesOK(b)'
    BY <1>1, <2>1, <2>2, <2>4, BegunElsewhere
  <2> QED BY <2>8, <2>9 DEF OnePlace
<1>4. CASE pre[a].normal = NoOp
  <2> DEFINE x == Head(normal[a])
  <2>1. Begin(a, x) /\ UNCHANGED pre /\ normal' = [normal EXCEPT ![a] = Tail(normal[a])]
    BY <1>4 DEF TakeNormal
  <2>2. normal[a] # <<>>
    BY <1>4 DEF TakeNormal, NormalAvailable
  <2>3. normal'[a] = Tail(normal[a]) /\ \A b \in Actors \ {a} : normal'[b] = normal[b]
    BY <2>1 DEF TypeOK
  <2>4. /\ Queued(normal'[a], a, "normal", FALSE, stage, owner)
        /\ \A i \in 1..Len(normal'[a]) : normal'[a][i] \in Ops => normal'[a][i] # x
        /\ x \in Ops => stage[x] = "normal" /\ owner[x] = a
    <3>1. Queued(normal[a], a, "normal", FALSE, stage, owner) /\ normal[a] \in Seq(Ops \cup {Stop})
      BY <1>2
    <3>2. /\ Queued(Tail(normal[a]), a, "normal", FALSE, stage, owner)
          /\ \A i \in 1..Len(Tail(normal[a])) : Tail(normal[a])[i] \in Ops =>
               Tail(normal[a])[i] # Head(normal[a])
          /\ x \in Ops => stage[x] = "normal" /\ owner[x] = a
      BY <2>2, <3>1, QueuedTail, QueuedHead
    <3> QED BY <2>3, <3>2
  <2> HIDE DEF x
  <2>5. \A i \in 1..Len(control[a]) : control[a][i] \in Ops => control[a][i] # x
    BY <1>2, <2>4 DEF Queued
  <2>6. x \in Ops => pre[a].control # x /\ pre[a].normal # x
    BY <1>2, <2>4 DEF Held
  <2>7. PlacesOK(a)'
    BY <1>1, <1>2, <2>1, <2>4, <2>5, <2>6, PlaceBegun
  <2>8. \A b \in Actors \ {a} : PlacesOK(b)'
    BY <1>1, <2>1, <2>3, <2>4, BegunElsewhere
  <2> QED BY <2>7, <2>8 DEF OnePlace
<1> QED BY <1>3, <1>4

LEMMA PlacesTakeControl ==
  ASSUME TypeOK, OnePlace, NEW a \in Actors, TakeControl(a)
  PROVE  OnePlace'
<1>1. /\ pc[a] = "select" /\ item[a] = NoOp /\ got[a] = NoItems
      /\ UNCHANGED <<normal, got, owner>>
  BY PlacesHere DEF TakeControl, TakeFrame, Works
<1>2. /\ Queued(control[a], a, "control", TRUE, stage, owner)
      /\ Queued(normal[a], a, "normal", FALSE, stage, owner)
      /\ Held(pre[a], a, stage, owner)
      /\ control[a] \in Seq(Ops \cup {Stop}) /\ normal[a] \in Seq(Ops \cup {Stop})
  BY PlacesHere
<1>3. CASE pre[a].control # NoOp
  <2> DEFINE x == pre[a].control
  <2>1. Begin(a, x) /\ UNCHANGED control /\ pre' = [pre EXCEPT ![a].control = NoOp]
    BY <1>3 DEF TakeControl
  <2>2. \A b \in Actors \ {a} : pre'[b] = pre[b]
    BY <2>1 DEF TypeOK
  <2>3. pre'[a].control = NoOp /\ pre'[a].normal = pre[a].normal
    BY <2>1 DEF TypeOK, Slots
  <2>4. x \in Ops => stage[x] = "held" /\ owner[x] = a /\ IsControl(x)
    BY <1>2 DEF Held
  <2>5. Held(pre'[a], a, stage, owner)
    BY <1>2, <2>3, OpsAssumption DEF Held
  <2>6. x \in Ops => pre'[a].control # x /\ pre'[a].normal # x
    BY <1>2, <2>3, <2>4, OpsAssumption DEF Held
  <2>7. /\ \A i \in 1..Len(control[a]) : control[a][i] \in Ops => control[a][i] # x
        /\ \A i \in 1..Len(normal[a]) : normal[a][i] \in Ops => normal[a][i] # x
    BY <1>2, <2>4 DEF Queued
  <2> HIDE DEF x
  <2>8. PlacesOK(a)'
    BY <1>1, <1>2, <2>1, <2>4, <2>5, <2>6, <2>7, PlaceBegun
  <2>9. \A b \in Actors \ {a} : PlacesOK(b)'
    BY <1>1, <2>1, <2>2, <2>4, BegunElsewhere
  <2> QED BY <2>8, <2>9 DEF OnePlace
<1>4. CASE pre[a].control = NoOp
  <2> DEFINE x == Head(control[a])
  <2>1. Begin(a, x) /\ UNCHANGED pre /\ control' = [control EXCEPT ![a] = Tail(control[a])]
    BY <1>4 DEF TakeControl
  <2>2. control[a] # <<>>
    BY <1>4 DEF TakeControl, ControlAvailable
  <2>3. control'[a] = Tail(control[a]) /\ \A b \in Actors \ {a} : control'[b] = control[b]
    BY <2>1 DEF TypeOK
  <2>4. /\ Queued(control'[a], a, "control", TRUE, stage, owner)
        /\ \A i \in 1..Len(control'[a]) : control'[a][i] \in Ops => control'[a][i] # x
        /\ x \in Ops => stage[x] = "control" /\ owner[x] = a
    <3>1. Queued(control[a], a, "control", TRUE, stage, owner) /\ control[a] \in Seq(Ops \cup {Stop})
      BY <1>2
    <3>2. /\ Queued(Tail(control[a]), a, "control", TRUE, stage, owner)
          /\ \A i \in 1..Len(Tail(control[a])) : Tail(control[a])[i] \in Ops =>
               Tail(control[a])[i] # Head(control[a])
          /\ x \in Ops => stage[x] = "control" /\ owner[x] = a
      BY <2>2, <3>1, QueuedTail, QueuedHead
    <3> QED BY <2>3, <3>2
  <2> HIDE DEF x
  <2>5. \A i \in 1..Len(normal[a]) : normal[a][i] \in Ops => normal[a][i] # x
    BY <1>2, <2>4 DEF Queued
  <2>6. x \in Ops => pre[a].control # x /\ pre[a].normal # x
    BY <1>2, <2>4 DEF Held
  <2>7. PlacesOK(a)'
    BY <1>1, <1>2, <2>1, <2>4, <2>5, <2>6, PlaceBegun
  <2>8. \A b \in Actors \ {a} : PlacesOK(b)'
    BY <1>1, <2>1, <2>3, <2>4, BegunElsewhere
  <2> QED BY <2>7, <2>8 DEF OnePlace
<1> QED BY <1>3, <1>4

LEMMA PlacesArm ==
  ASSUME TypeOK, OnePlace, NEW a \in Actors, ArmGetters(a)
  PROVE  OnePlace'
<1>1. /\ pc[a] = "select" /\ pc' = [pc EXCEPT ![a] = "waiting"]
      /\ UNCHANGED <<control, normal, pre, got, item, stage, owner>>
  BY DEF ArmGetters
<1>2. pre[a] = NoItems
  <2>1. pre[a].control = NoOp /\ pre[a].normal = NoOp
    BY DEF ArmGetters, ControlAvailable, NormalAvailable
  <2> QED BY <2>1, PlacesHere DEF Slots, NoItems
<1>3. /\ Queued(control[a], a, "control", TRUE, stage, owner)
      /\ Queued(normal[a], a, "normal", FALSE, stage, owner)
      /\ Held(pre[a], a, stage, owner) /\ Held(got[a], a, stage, owner)
      /\ Works(pc[a], item[a], pre[a], got[a], a, stage, owner)
  BY PlacesHere
<1>4. PlacesOK(a)'
  <2>1. pc'[a] = "waiting"
    BY <1>1 DEF TypeOK
  <2>2. Works("waiting", item[a], pre[a], got[a], a, stage, owner)
    BY <1>1, <1>2, <1>3 DEF Works
  <2> QED BY <1>1, <1>3, <2>1, <2>2, PlacesNext DEF Places
<1>5. \A b \in Actors \ {a} : PlacesOK(b)'
  <2> SUFFICES ASSUME NEW b \in Actors \ {a} PROVE PlacesOK(b)'
    OBVIOUS
  <2>1. pc'[b] = pc[b] /\ PlacesOK(b)
    BY <1>1 DEF TypeOK, OnePlace
  <2> QED BY <1>1, <2>1, PlaceOfOther
<1> QED BY <1>4, <1>5 DEF OnePlace

LEMMA PlacesGetterTakesControl ==
  ASSUME TypeOK, OnePlace, NEW a \in Actors, GetterTakesControl(a)
  PROVE  OnePlace'
<1> DEFINE x == Head(control[a])
<1>1. /\ pc[a] = "waiting" /\ got[a].control = NoOp /\ control[a] # <<>>
      /\ got' = [got EXCEPT ![a].control = x]
      /\ control' = [control EXCEPT ![a] = Tail(control[a])]
      /\ stage' = [o \in Ops |-> IF o = x THEN "held" ELSE stage[o]]
      /\ UNCHANGED <<normal, pre, pc, item, owner>>
  BY DEF GetterTakesControl
<1>2. /\ Queued(control[a], a, "control", TRUE, stage, owner)
      /\ Queued(normal[a], a, "normal", FALSE, stage, owner)
      /\ Held(got[a], a, stage, owner)
      /\ Works(pc[a], item[a], pre[a], got[a], a, stage, owner)
      /\ control[a] \in Seq(Ops \cup {Stop})
  BY PlacesHere
<1>3. /\ Queued(Tail(control[a]), a, "control", TRUE, stage, owner)
      /\ \A i \in 1..Len(Tail(control[a])) : Tail(control[a])[i] \in Ops =>
           Tail(control[a])[i] # x
      /\ x \in Ops => stage[x] = "control" /\ owner[x] = a
      /\ x \in Ops => IsControl(x)
  BY <1>1, <1>2, QueuedTail, QueuedHead
<1>4. /\ control'[a] = Tail(control[a]) /\ \A b \in Actors \ {a} : control'[b] = control[b]
      /\ got'[a].control = x /\ got'[a].normal = got[a].normal
      /\ \A b \in Actors \ {a} : got'[b] = got[b]
  BY <1>1 DEF TypeOK, Slots
<1>5. \A o \in Ops : stage'[o] = IF o = x THEN "held" ELSE stage[o]
  BY <1>1
<1> HIDE DEF x
<1>6. PlacesOK(a)'
  <2>1. Queued(control'[a], a, "control", TRUE, stage', owner')
    <3>1. \A i \in 1..Len(control'[a]) : control'[a][i] \in Ops =>
            /\ stage'[control'[a][i]] = stage[control'[a][i]]
            /\ owner'[control'[a][i]] = owner[control'[a][i]]
      <4>1. \A i \in 1..Len(control'[a]) : control'[a][i] \in Ops => control'[a][i] # x
        BY <1>3, <1>4
      <4>2. \A o \in Ops \ {x} : stage'[o] = stage[o] /\ owner'[o] = owner[o]
        BY <1>1, <1>5
      <4> QED BY <4>1, <4>2
    <3>2. Queued(control'[a], a, "control", TRUE, stage, owner)
      BY <1>3, <1>4
    <3> QED BY <3>1, <3>2, QueuedFrame
  <2>2. Queued(normal'[a], a, "normal", FALSE, stage', owner')
    <3>1. \A i \in 1..Len(normal[a]) : normal[a][i] \in Ops =>
            stage'[normal[a][i]] = stage[normal[a][i]]
      BY <1>2, <1>3, <1>5 DEF Queued
    <3> QED BY <1>1, <1>2, <3>1, QueuedFrame
  <2>3. Held(got'[a], a, stage', owner')
    BY <1>1, <1>2, <1>3, <1>4, <1>5 DEF Held
  <2>4. pre[a] = NoItems /\ item[a] = NoOp
    BY <1>1, <1>2 DEF Works
  <2>5. Held(pre'[a], a, stage', owner')
    BY <1>1, <2>4, OpsAssumption DEF Held, NoItems
  <2>6. Works(pc'[a], item'[a], pre'[a], got'[a], a, stage', owner')
    BY <1>1, <2>4, OpsAssumption DEF Works
  <2> QED BY <2>1, <2>2, <2>3, <2>5, <2>6, PlacesNext DEF Places
<1>7. \A b \in Actors \ {a} : PlacesOK(b)'
  <2> SUFFICES ASSUME NEW b \in Actors \ {a} PROVE PlacesOK(b)'
    OBVIOUS
  <2>1. PlacesOK(b)
    BY DEF OnePlace
  <2>2. \A o \in Ops : owner[o] = b => stage'[o] = stage[o]
    BY <1>3, <1>5
  <2> QED BY <1>1, <1>4, <2>1, <2>2, PlaceOfOther
<1> QED BY <1>6, <1>7 DEF OnePlace

LEMMA PlacesGetterTakesNormal ==
  ASSUME TypeOK, OnePlace, NEW a \in Actors, GetterTakesNormal(a)
  PROVE  OnePlace'
<1> DEFINE x == Head(normal[a])
<1>1. /\ pc[a] = "waiting" /\ got[a].normal = NoOp /\ normal[a] # <<>>
      /\ got' = [got EXCEPT ![a].normal = x]
      /\ normal' = [normal EXCEPT ![a] = Tail(normal[a])]
      /\ stage' = [stage EXCEPT ![x] = "held"]
      /\ UNCHANGED <<control, pre, pc, item, owner>>
  BY DEF GetterTakesNormal
<1>2. /\ Queued(control[a], a, "control", TRUE, stage, owner)
      /\ Queued(normal[a], a, "normal", FALSE, stage, owner)
      /\ Held(got[a], a, stage, owner)
      /\ Works(pc[a], item[a], pre[a], got[a], a, stage, owner)
      /\ normal[a] \in Seq(Ops \cup {Stop})
  BY PlacesHere
<1>3. /\ Queued(Tail(normal[a]), a, "normal", FALSE, stage, owner)
      /\ \A i \in 1..Len(Tail(normal[a])) : Tail(normal[a])[i] \in Ops =>
           Tail(normal[a])[i] # x
      /\ x \in Ops => stage[x] = "normal" /\ owner[x] = a
      /\ x \in Ops => ~IsControl(x)
  BY <1>1, <1>2, QueuedTail, QueuedHead
<1>4. /\ normal'[a] = Tail(normal[a]) /\ \A b \in Actors \ {a} : normal'[b] = normal[b]
      /\ got'[a].normal = x /\ got'[a].control = got[a].control
      /\ \A b \in Actors \ {a} : got'[b] = got[b]
  BY <1>1 DEF TypeOK, Slots
<1>5. x \in Ops /\ \A o \in Ops : stage'[o] = IF o = x THEN "held" ELSE stage[o]
  <2>1. x \in Ops
    BY <1>1, MailboxType
  <2> QED BY <1>1, <2>1 DEF TypeOK
<1> HIDE DEF x
<1>6. PlacesOK(a)'
  <2>1. Queued(normal'[a], a, "normal", FALSE, stage', owner')
    <3>1. \A i \in 1..Len(normal'[a]) : normal'[a][i] \in Ops =>
            /\ stage'[normal'[a][i]] = stage[normal'[a][i]]
            /\ owner'[normal'[a][i]] = owner[normal'[a][i]]
      <4>1. \A i \in 1..Len(normal'[a]) : normal'[a][i] \in Ops => normal'[a][i] # x
        BY <1>3, <1>4
      <4>2. \A o \in Ops \ {x} : stage'[o] = stage[o] /\ owner'[o] = owner[o]
        BY <1>1, <1>5
      <4> QED BY <4>1, <4>2
    <3>2. Queued(normal'[a], a, "normal", FALSE, stage, owner)
      BY <1>3, <1>4
    <3> QED BY <3>1, <3>2, QueuedFrame
  <2>2. Queued(control'[a], a, "control", TRUE, stage', owner')
    <3>1. \A i \in 1..Len(control[a]) : control[a][i] \in Ops =>
            stage'[control[a][i]] = stage[control[a][i]]
      BY <1>2, <1>3, <1>5 DEF Queued
    <3> QED BY <1>1, <1>2, <3>1, QueuedFrame
  <2>3. Held(got'[a], a, stage', owner')
    BY <1>1, <1>2, <1>3, <1>4, <1>5, OpsAssumption DEF Held
  <2>4. pre[a] = NoItems /\ item[a] = NoOp
    BY <1>1, <1>2 DEF Works
  <2>5. Held(pre'[a], a, stage', owner')
    BY <1>1, <2>4, OpsAssumption DEF Held, NoItems
  <2>6. Works(pc'[a], item'[a], pre'[a], got'[a], a, stage', owner')
    BY <1>1, <2>4, OpsAssumption DEF Works
  <2> QED BY <2>1, <2>2, <2>3, <2>5, <2>6, PlacesNext DEF Places
<1>7. \A b \in Actors \ {a} : PlacesOK(b)'
  <2> SUFFICES ASSUME NEW b \in Actors \ {a} PROVE PlacesOK(b)'
    OBVIOUS
  <2>1. PlacesOK(b)
    BY DEF OnePlace
  <2>2. \A o \in Ops : owner[o] = b => stage'[o] = stage[o]
    BY <1>3, <1>5
  <2> QED BY <1>1, <1>4, <2>1, <2>2, PlaceOfOther
<1> QED BY <1>6, <1>7 DEF OnePlace

\* ResumeWithOne and ResumeWithBoth: x goes to the worker, the slots become s.
LEMMA PlacesResume ==
  ASSUME TypeOK, OnePlace, NEW a \in Actors, NEW x, NEW s, Begin(a, x),
         pc[a] = "waiting", UNCHANGED <<control, normal, owner>>,
         got' = [got EXCEPT ![a] = NoItems],
         pre'[a] = s, \A b \in Actors \ {a} : pre'[b] = pre[b],
         x \in Ops => stage[x] = "held" /\ owner[x] = a,
         Held(s, a, stage, owner), x \in Ops => s.control # x /\ s.normal # x
  PROVE  OnePlace'
<1>1. /\ Queued(control[a], a, "control", TRUE, stage, owner)
      /\ Queued(normal[a], a, "normal", FALSE, stage, owner)
      /\ item[a] = NoOp
  BY PlacesHere DEF Works
<1>2. got'[a] = NoItems /\ \A b \in Actors \ {a} : got'[b] = got[b]
  BY DEF TypeOK
<1>3. /\ \A i \in 1..Len(control[a]) : control[a][i] \in Ops => control[a][i] # x
      /\ \A i \in 1..Len(normal[a]) : normal[a][i] \in Ops => normal[a][i] # x
  BY <1>1 DEF Queued
<1>4. PlacesOK(a)'
  BY <1>1, <1>2, <1>3, PlaceBegun
<1>5. \A b \in Actors \ {a} : PlacesOK(b)'
  BY <1>1, <1>2, BegunElsewhere
<1> QED BY <1>4, <1>5 DEF OnePlace

LEMMA PlacesResumeWithOne ==
  ASSUME TypeOK, OnePlace, NEW a \in Actors, ResumeWithOne(a)
  PROVE  OnePlace'
<1>1. /\ pc[a] = "waiting" /\ got' = [got EXCEPT ![a] = NoItems]
      /\ UNCHANGED <<control, normal, pre, owner>>
  BY DEF ResumeWithOne, TakeFrame, NoItems
<1>2. Held(got[a], a, stage, owner) /\ pre[a] = NoItems
  BY <1>1, PlacesHere DEF Works
<1>3. Held(NoItems, a, stage, owner)
  BY OpsAssumption DEF Held, NoItems
<1>4. NoItems.control = NoOp /\ NoItems.normal = NoOp /\ NoOp \notin Ops
  BY OpsAssumption DEF NoItems
<1>5. PICK x \in {got[a].control, got[a].normal} : Begin(a, x)
  BY DEF ResumeWithOne
<1>6. x \in Ops => stage[x] = "held" /\ owner[x] = a
  BY <1>2, <1>5 DEF Held
<1>7. x \in Ops => NoItems.control # x /\ NoItems.normal # x
  BY <1>4
<1>8. \A b \in Actors : pre'[b] = pre[b]
  BY <1>1
<1> QED BY <1>1, <1>2, <1>3, <1>5, <1>6, <1>7, <1>8, PlacesResume

LEMMA PlacesResumeWithBoth ==
  ASSUME TypeOK, OnePlace, NEW a \in Actors, ResumeWithBoth(a)
  PROVE  OnePlace'
<1> DEFINE x == got[a].control
           n == got[a].normal
<1>1. /\ pc[a] = "waiting" /\ got' = [got EXCEPT ![a] = NoItems]
      /\ UNCHANGED <<control, normal, owner>>
  BY DEF ResumeWithBoth, TakeFrame, NoItems
<1>2. Held(got[a], a, stage, owner) /\ pre[a] = NoItems
  BY <1>1, PlacesHere DEF Works
<1>3. /\ x \in Ops => stage[x] = "held" /\ owner[x] = a /\ IsControl(x)
      /\ n \in Ops => stage[n] = "held" /\ owner[n] = a /\ ~IsControl(n)
      /\ n # Stop
  BY <1>2 DEF Held
<1>4. NoOp \notin Ops /\ NoOp # Stop /\ pre[a].control = NoOp /\ pre[a].normal = NoOp
  BY <1>2, OpsAssumption DEF NoItems
<1>5. CASE Begin(a, x) /\ pre' = [pre EXCEPT ![a].normal = n]
  <2> DEFINE s == [pre[a] EXCEPT !.normal = n]
  <2>1. pre'[a] = s /\ \A b \in Actors \ {a} : pre'[b] = pre[b]
    BY <1>5 DEF TypeOK
  <2>2. s.control = NoOp /\ s.normal = n
    BY <1>4 DEF TypeOK, Slots
  <2> HIDE DEF s, x, n
  <2>3. Held(s, a, stage, owner) /\ (x \in Ops => s.control # x /\ s.normal # x)
    BY <1>3, <1>4, <2>2 DEF Held
  <2> QED BY <1>1, <1>3, <1>5, <2>1, <2>3, PlacesResume
<1>6. CASE Begin(a, n) /\ pre' = [pre EXCEPT ![a].control = x]
  <2> DEFINE s == [pre[a] EXCEPT !.control = x]
  <2>1. pre'[a] = s /\ \A b \in Actors \ {a} : pre'[b] = pre[b]
    BY <1>6 DEF TypeOK
  <2>2. s.control = x /\ s.normal = NoOp
    BY <1>4 DEF TypeOK, Slots
  <2> HIDE DEF s, x, n
  <2>3. Held(s, a, stage, owner) /\ (n \in Ops => s.control # n /\ s.normal # n)
    BY <1>3, <1>4, <2>2 DEF Held
  <2> QED BY <1>1, <1>3, <1>6, <2>1, <2>3, PlacesResume
<1> QED BY <1>5, <1>6 DEF ResumeWithBoth

LEMMA PlacesWorker ==
  ASSUME TypeOK, OnePlace, NEW a \in Actors, Worker(a)
  PROVE  OnePlace'
BY PlacesTakeNormal, PlacesTakeControl, PlacesArm, PlacesGetterTakesControl,
   PlacesGetterTakesNormal, PlacesResumeWithOne, PlacesResumeWithBoth DEF Worker

-----------------------------------------------------------------------------
(* The other actions *)

\* Queues, workers, stages and owners are as they were.
LEMMA PlacesUntouched ==
  ASSUME OnePlace, UNCHANGED <<control, normal, pre, got, pc, item, stage, owner>>
  PROVE  OnePlace'
<1> SUFFICES ASSUME NEW a \in Actors PROVE PlacesOK(a)'
  BY DEF OnePlace
<1>1. PlacesOK(a)
  BY DEF OnePlace
<1> QED BY <1>1, PlaceOfOther

\* One operation that waits nowhere and is not accepted here moves on.
LEMMA PlacesMoved ==
  ASSUME TypeOK, OnePlace, NEW o \in Ops,
         UNCHANGED <<control, normal, pre, got, pc, item>>,
         stage[o] \notin Waiting,
         stage[o] \in Busy => stage'[o] \in Busy /\ owner'[o] = owner[o],
         \A p \in Ops \ {o} : stage'[p] = stage[p] /\ owner'[p] = owner[p]
  PROVE  OnePlace'
<1> SUFFICES ASSUME NEW a \in Actors PROVE PlacesOK(a)'
  BY DEF OnePlace
<1>1. PlacesOK(a)
  BY DEF OnePlace
<1>2. \A p \in Ops : owner[p] = a /\ stage[p] \in Waiting =>
        stage'[p] = stage[p] /\ owner'[p] = a
  OBVIOUS
<1>3. \A p \in Ops : owner[p] = a /\ stage[p] \in Busy =>
        stage'[p] \in Busy /\ owner'[p] = a
  OBVIOUS
<1> QED BY <1>1, <1>2, <1>3, PlaceUndisturbed

LEMMA PlacesReturned ==
  ASSUME TypeOK, OnePlace, NEW o \in Ops, stage[o] \in Busy, Release(o),
         UNCHANGED <<control, normal, pre, got, owner>>,
         \A p \in Ops \ {o} : stage'[p] = stage[p]
  PROVE  OnePlace'
<1> SUFFICES ASSUME NEW a \in Actors PROVE PlacesOK(a)'
  BY DEF OnePlace
<1>1. PlacesOK(a)
  BY DEF OnePlace
<1> QED BY <1>1, PlaceReturned

LEMMA PlacesSubmit ==
  ASSUME TypeOK, OnePlace, NEW o \in Ops, NEW a \in Actors, Submit(o, a)
  PROVE  OnePlace'
<1>1. /\ stage[o] = "new" /\ owner' = [owner EXCEPT ![o] = a]
      /\ stage' = [stage EXCEPT ![o] = IF IsControl(o) THEN "control" ELSE "normal"]
      /\ UNCHANGED <<pre, got, pc, item>>
      /\ \/ IsControl(o) /\ control' = [control EXCEPT ![a] = Append(@, o)] /\ UNCHANGED normal
         \/ ~IsControl(o) /\ normal' = [normal EXCEPT ![a] = Append(@, o)] /\ UNCHANGED control
  BY DEF Submit, Accept
<1>2. \A p \in Ops \ {o} : stage'[p] = stage[p] /\ owner'[p] = owner[p]
  BY <1>1 DEF TypeOK
<1>3. owner'[o] = a /\ stage'[o] = IF IsControl(o) THEN "control" ELSE "normal"
  BY <1>1 DEF TypeOK
<1>4. \A b \in Actors :
        Places(b, control[b], normal[b], pre[b], got[b], pc[b], item[b], stage', owner')
  <2> SUFFICES ASSUME NEW b \in Actors
               PROVE  Places(b, control[b], normal[b], pre[b], got[b], pc[b], item[b],
                             stage', owner')
    OBVIOUS
  <2>1. Places(b, control[b], normal[b], pre[b], got[b], pc[b], item[b], stage, owner)
    BY PlacesNow DEF OnePlace
  <2>2. \A p \in Ops : stage[p] \in Waiting \cup Busy => p # o
    BY <1>1 DEF Waiting, Busy
  <2>3. \A p \in Ops : stage[p] \in Waiting /\ owner[p] = b =>
          stage'[p] = stage[p] /\ owner'[p] = b
    BY <1>2, <2>2
  <2>4. item[b] \in Ops /\ stage[item[b]] \in Busy /\ owner[item[b]] = b =>
          stage'[item[b]] \in Busy /\ owner'[item[b]] = b
    BY <1>2, <2>2
  <2> QED BY <2>1, <2>3, <2>4, PlacesFrame
<1>5. /\ control[a] \in Seq(Ops \cup {Stop}) /\ normal[a] \in Seq(Ops \cup {Stop})
      /\ \A i \in 1..Len(control[a]) : control[a][i] \in Ops => control[a][i] # o
      /\ \A i \in 1..Len(normal[a]) : normal[a][i] \in Ops => normal[a][i] # o
  BY <1>1, PlacesHere DEF Queued
<1>6. CASE IsControl(o) /\ control' = [control EXCEPT ![a] = Append(@, o)] /\ UNCHANGED normal
  <2>1. control'[a] = Append(control[a], o) /\ \A b \in Actors \ {a} : control'[b] = control[b]
    BY <1>6 DEF TypeOK
  <2>2. Queued(control[a], a, "control", TRUE, stage', owner')
    BY <1>4 DEF Places
  <2>3. \A i \in 1..Len(control[a]) : control[a][i] # o
    BY <1>5
  <2>4. stage'[o] = "control" /\ owner'[o] = a /\ IsControl(o) = TRUE
    BY <1>3, <1>6 DEF IsControl
  <2>5. Queued(Append(control[a], o), a, "control", TRUE, stage', owner')
    BY <1>5, <2>2, <2>3, <2>4, QueuedAppend
  <2>6. \A b \in Actors :
          Places(b, control'[b], normal[b], pre[b], got[b], pc[b], item[b], stage', owner')
    BY <1>4, <2>1, <2>5 DEF Places
  <2> QED BY <1>1, <1>6, <2>6, PlacesNext DEF OnePlace
<1>7. CASE ~IsControl(o) /\ normal' = [normal EXCEPT ![a] = Append(@, o)] /\ UNCHANGED control
  <2>1. normal'[a] = Append(normal[a], o) /\ \A b \in Actors \ {a} : normal'[b] = normal[b]
    BY <1>7 DEF TypeOK
  <2>2. Queued(normal[a], a, "normal", FALSE, stage', owner')
    BY <1>4 DEF Places
  <2>3. \A i \in 1..Len(normal[a]) : normal[a][i] # o
    BY <1>5
  <2>4. stage'[o] = "normal" /\ owner'[o] = a /\ IsControl(o) = FALSE
    BY <1>3, <1>7 DEF IsControl
  <2>5. Queued(Append(normal[a], o), a, "normal", FALSE, stage', owner')
    BY <1>5, <2>2, <2>3, <2>4, QueuedAppend
  <2>6. \A b \in Actors :
          Places(b, control[b], normal'[b], pre[b], got[b], pc[b], item[b], stage', owner')
    BY <1>4, <2>1, <2>5 DEF Places
  <2> QED BY <1>1, <1>7, <2>6, PlacesNext DEF OnePlace
<1> QED BY <1>1, <1>6, <1>7

(***************************************************************************)
(* What the other actions do to stages, finished events and owners.        *)
(***************************************************************************)
OnlyMoves(o) ==
  \A p \in Ops \ {o} : stage'[p] = stage[p] /\ finished'[p] = finished[p]

Finishes(o) == stage'[o] = "finished" /\ Len(finished'[o]) = Len(finished[o]) + 1

GoesOn(o) == stage'[o] \in Busy \cup {"background"} /\ finished'[o] = finished[o]

\* A handler of o takes a step: it goes on, or returns and its worker is free.
Handled(o) ==
  /\ stage[o] \in Busy /\ OnlyMoves(o) /\ (Finishes(o) \/ GoesOn(o))
  /\ UNCHANGED <<control, normal, pre, got, owner>>
  /\ Release(o) \/ (UNCHANGED <<pc, item>> /\ stage'[o] \in Busy)

LEMMA RetireEffect ==
  ASSUME TypeOK, NEW o \in Ops, NEW s, Retire(o, s)
  PROVE  OnlyMoves(o) /\ Finishes(o)
<1>1. /\ stage' = [stage EXCEPT ![o] = "finished"]
      /\ finished' = [finished EXCEPT ![o] = Append(finished[o], s)]
  BY DEF Retire
<1>2. stage \in [Ops -> Stages] /\ finished \in [Ops -> Seq(Statuses)]
  BY DEF TypeOK, Statuses
<1>3. Len(Append(finished[o], s)) = Len(finished[o]) + 1
  <2>1. finished[o] \in Seq(Statuses)
    BY <1>2
  <2> QED BY <2>1
<1> QED BY <1>1, <1>2, <1>3 DEF OnlyMoves, Finishes

LEMMA MoveEffect ==
  ASSUME TypeOK, NEW o \in Ops, NEW s \in Busy \cup {"background"},
         stage' = [stage EXCEPT ![o] = s], UNCHANGED finished
  PROVE  OnlyMoves(o) /\ GoesOn(o) /\ stage'[o] = s
BY DEF TypeOK, OnlyMoves, GoesOn

LEMMA BodyEffect ==
  ASSUME TypeOK, NEW o \in Ops, InterruptBody(o) \/ RespondBody(o)
  PROVE  /\ OnlyMoves(o)
         /\ Finishes(o) \/ (GoesOn(o) /\ stage'[o] = "suspended" /\ InterruptBody(o))
<1>1. \/ \E s : Retire(o, s)
      \/ InterruptBody(o) /\ stage' = [stage EXCEPT ![o] = "suspended"] /\ UNCHANGED finished
  <2>1. CASE InterruptBody(o)
    BY <2>1 DEF InterruptBody
  <2>2. CASE RespondBody(o)
    BY <2>2 DEF RespondBody, Finish
  <2> QED BY <2>1, <2>2
<1> QED BY <1>1, RetireEffect, MoveEffect DEF Busy

LEMMA ItemBusy ==
  ASSUME TypeOK, OnePlace, NEW a \in Actors, NEW o \in Ops, NEW kinds, RunsOn(a, o, kinds)
  PROVE  stage[o] \in Busy /\ owner[o] = a
BY PlacesHere DEF RunsOn, Works

LEMMA HandlerReturns ==
  ASSUME TypeOK, OnePlace, NEW a \in Actors, NEW o \in Ops,
         \/ FailItem(a, o) \/ RunPlain(a, o) \/ InitDone(a, o) \/ RunRespond(a, o)
         \/ RunCloseRefused(a, o) \/ CloseAwaitsItself(a, o) \/ CloseDone(a, o)
  PROVE  Handled(o)
<1>1. stage[o] \in Busy
  BY ItemBusy DEF FailItem, RunPlain, InitDone, RunRespond, RunCloseRefused,
                  CloseAwaitsItself, CloseDone
<1>2. Release(o) /\ UNCHANGED <<control, normal, pre, got, owner>>
  BY DEF FailItem, RunPlain, InitDone, RunRespond, RunCloseRefused, CloseAwaitsItself,
         CloseDone
<1>3. \E s : Retire(o, s)
  BY DEF FailItem, RunPlain, InitDone, RunRespond, RespondBody, RunCloseRefused,
         CloseAwaitsItself, CloseDone, Finish
<1> QED BY <1>1, <1>2, <1>3, RetireEffect DEF Handled

LEMMA HandlerSteps ==
  ASSUME TypeOK, OnePlace, NEW a \in Actors, NEW o \in Ops,
         \/ InitLoaded(a, o) \/ RegisterTask(a, o) \/ CompactCancels(a, o)
         \/ RunInterrupt(a, o) \/ RunClose(a, o)
  PROVE  Handled(o)
<1>1. stage[o] \in Busy
  BY ItemBusy DEF InitLoaded, RegisterTask, CompactCancels, RunInterrupt, RunClose
<1>2. UNCHANGED <<control, normal, pre, got, owner>>
  BY DEF InitLoaded, RegisterTask, CompactCancels, RunInterrupt, RunClose
<1>3. CASE InitLoaded(a, o)
  <2>1. UNCHANGED <<pc, item, stage, finished>>
    BY <1>3 DEF InitLoaded
  <2> QED BY <1>1, <1>2, <2>1 DEF Handled, OnlyMoves, GoesOn
<1>4. CASE RegisterTask(a, o)
  <2>1. Release(o)
    BY <1>4 DEF RegisterTask
  <2>2. \/ \E s : Retire(o, s)
        \/ stage' = [stage EXCEPT ![o] = "background"] /\ UNCHANGED finished
    BY <1>4 DEF RegisterTask, Finish
  <2> QED BY <1>1, <1>2, <2>1, <2>2, RetireEffect, MoveEffect DEF Handled
<1>5. CASE CompactCancels(a, o) \/ RunClose(a, o)
  <2>1. stage' = [stage EXCEPT ![o] = "suspended"] /\ UNCHANGED <<pc, item, finished>>
    BY <1>5 DEF CompactCancels, RunClose
  <2> QED BY <1>1, <1>2, <2>1, MoveEffect DEF Handled, Busy
<1>6. CASE RunInterrupt(a, o)
  <2>1. /\ InterruptBody(o)
        /\ IF stage'[o] = "finished" THEN Release(o) ELSE UNCHANGED <<pc, item>>
    BY <1>6 DEF RunInterrupt
  <2>2. OnlyMoves(o) /\ (Finishes(o) \/ (GoesOn(o) /\ stage'[o] = "suspended"))
    BY <2>1, BodyEffect
  <2> QED BY <1>1, <1>2, <2>1, <2>2 DEF Handled, Finishes, Busy
<1> QED BY <1>3, <1>4, <1>5, <1>6

LEMMA EndInterruptHandled ==
  ASSUME TypeOK, NEW o \in Ops, EndInterrupt(o)
  PROVE  Handled(o)
<1>1. /\ stage[o] \in Busy /\ Release(o) /\ Retire(o, "completed")
      /\ UNCHANGED <<control, normal, pre, got, owner>>
  BY DEF EndInterrupt, Finish, Busy
<1> QED BY <1>1, RetireEffect DEF Handled

LEMMA HandlerHandles ==
  ASSUME TypeOK, OnePlace, NEW a \in Actors, Handler(a)
  PROVE  \E o \in Ops : Handled(o)
BY HandlerReturns, HandlerSteps DEF Handler

LEMMA PlacesHandled ==
  ASSUME TypeOK, OnePlace, NEW o \in Ops, Handled(o)
  PROVE  OnePlace'
<1>1. \A p \in Ops \ {o} : stage'[p] = stage[p]
  BY DEF Handled, OnlyMoves
<1>2. CASE Release(o)
  BY <1>1, <1>2, PlacesReturned DEF Handled
<1>3. CASE UNCHANGED <<pc, item>> /\ stage'[o] \in Busy
  <2>1. stage[o] \notin Waiting /\ UNCHANGED <<control, normal, pre, got, owner>>
    BY DEF Handled, Waiting, Busy
  <2> QED BY <1>1, <1>3, <2>1, PlacesMoved
<1> QED BY <1>2, <1>3 DEF Handled

LEMMA PlacesPreemptive ==
  ASSUME TypeOK, OnePlace, NEW o \in Ops, NEW a \in Actors, SubmitPreemptive(o, a)
  PROVE  OnePlace'
<1>1. /\ stage[o] = "new" /\ owner' = [owner EXCEPT ![o] = a]
      /\ InterruptBody(o) \/ RespondBody(o)
      /\ UNCHANGED <<control, normal, pre, got, pc, item>>
  BY DEF SubmitPreemptive, Accept
<1>2. \A p \in Ops \ {o} : stage'[p] = stage[p] /\ owner'[p] = owner[p]
  BY <1>1, BodyEffect DEF TypeOK, OnlyMoves
<1>3. stage[o] \notin Waiting \cup Busy
  BY <1>1 DEF Waiting, Busy
<1> QED BY <1>1, <1>2, <1>3, PlacesMoved

LEMMA PlacesWrapper ==
  ASSUME TypeOK, OnePlace, NEW o \in Ops, WrapperFinishes(o)
  PROVE  OnePlace'
<1>1. /\ stage[o] = "background" /\ Retire(o, "completed")
      /\ UNCHANGED <<control, normal, pre, got, pc, item, owner>>
  BY DEF WrapperFinishes, Finish
<1>2. \A p \in Ops \ {o} : stage'[p] = stage[p]
  BY <1>1, RetireEffect DEF OnlyMoves
<1>3. stage[o] \notin Waiting \cup Busy
  BY <1>1 DEF Waiting, Busy
<1> QED BY <1>1, <1>2, <1>3, PlacesMoved

\* STOP is posted to actor a, by stop() or by the close of an idle actor.
LEMMA PlacesPosted ==
  ASSUME TypeOK, OnePlace, NEW a \in Actors, PostStop(a) \/ CloseIdle(a)
  PROVE  OnePlace'
<1>1. /\ control' = [control EXCEPT ![a] = Append(control[a], Stop)]
      /\ UNCHANGED <<normal, pre, got, pc, item, stage, owner>>
  BY DEF PostStop, CloseIdle
<1> SUFFICES ASSUME NEW b \in Actors PROVE PlacesOK(b)'
  BY DEF OnePlace
<1>2. PlacesOK(b)
  BY DEF OnePlace
<1>3. CASE b = a
  <2>1. control'[b] = Append(control[b], Stop)
    BY <1>1, <1>3 DEF TypeOK
  <2> QED BY <1>1, <1>2, <2>1, PlaceStopped
<1>4. CASE b # a
  <2>1. control'[b] = control[b]
    BY <1>1, <1>4 DEF TypeOK
  <2> QED BY <1>1, <1>2, <2>1, PlaceOfOther
<1> QED BY <1>3, <1>4

LEMMA QueuedHere ==
  ASSUME TypeOK, OnePlace, NEW a \in Actors, NEW o \in Ops, InQueue(o, a)
  PROVE  stage[o] \in Waiting /\ owner[o] = a
<1>1. CASE \E i \in DOMAIN control[a] : control[a][i] = o
  <2>1. DOMAIN control[a] = 1..Len(control[a])
    BY PlacesHere
  <2>2. Queued(control[a], a, "control", TRUE, stage, owner)
    BY PlacesHere
  <2> QED BY <1>1, <2>1, <2>2 DEF Queued, Waiting
<1>2. CASE \E i \in DOMAIN normal[a] : normal[a][i] = o
  <2>1. DOMAIN normal[a] = 1..Len(normal[a])
    BY PlacesHere
  <2>2. Queued(normal[a], a, "normal", FALSE, stage, owner)
    BY PlacesHere
  <2> QED BY <1>2, <2>1, <2>2 DEF Queued, Waiting
<1>3. CASE pre[a].control = o \/ pre[a].normal = o
  <2>1. Held(pre[a], a, stage, owner)
    BY PlacesHere
  <2> QED BY <1>3, <2>1 DEF Held, Waiting
<1> QED BY <1>1, <1>2, <1>3 DEF InQueue

LEMMA PlacesJoin ==
  ASSUME TypeOK, OnePlace, NEW a \in Actors, JoinWorker(a)
  PROVE  OnePlace'
<1>1. /\ pc[a] = "exited"
      /\ stage' = [o \in Ops |-> IF InQueue(o, a) THEN "dropped" ELSE stage[o]]
      /\ control' = [control EXCEPT ![a] = <<>>] /\ normal' = [normal EXCEPT ![a] = <<>>]
      /\ pre' = [pre EXCEPT ![a] = NoItems]
      /\ UNCHANGED <<got, pc, item, owner>>
  BY DEF JoinWorker, NoItems
<1>2. PlacesOK(a)'
  <2>1. control'[a] = <<>> /\ normal'[a] = <<>> /\ pre'[a] = NoItems
    BY <1>1 DEF TypeOK
  <2>2. got[a] = NoItems /\ item[a] = NoOp
    BY <1>1, PlacesHere DEF Works
  <2>3. /\ Queued(<<>>, a, "control", TRUE, stage', owner')
        /\ Queued(<<>>, a, "normal", FALSE, stage', owner')
    BY DEF Queued
  <2>4. Held(NoItems, a, stage', owner')
    BY OpsAssumption DEF Held, NoItems
  <2>5. Works("exited", NoOp, NoItems, NoItems, a, stage', owner')
    BY OpsAssumption DEF Works
  <2> QED BY <1>1, <2>1, <2>2, <2>3, <2>4, <2>5, PlacesNext DEF Places
<1>3. \A b \in Actors \ {a} : PlacesOK(b)'
  <2> SUFFICES ASSUME NEW b \in Actors \ {a} PROVE PlacesOK(b)'
    OBVIOUS
  <2>1. PlacesOK(b)
    BY DEF OnePlace
  <2>2. \A o \in Ops : owner[o] = b => stage'[o] = stage[o]
    BY <1>1, QueuedHere
  <2>3. control'[b] = control[b] /\ normal'[b] = normal[b] /\ pre'[b] = pre[b]
    BY <1>1 DEF TypeOK
  <2> QED BY <1>1, <2>1, <2>2, <2>3, PlaceOfOther
<1> QED BY <1>2, <1>3 DEF OnePlace

\* Actions that leave queues, workers, stages, owners and finished events alone.
Quiet ==
  \/ \E o \in Ops : \/ TaskStarts(o) \/ TaskDies(o) \/ TaskResumes(o) \/ TaskEnds(o)
                    \/ \E a \in Actors : TaskAsks(o, a) \/ InteractionCancelled(o, a)
  \/ \E a \in Actors : ObserveIdle(a) \/ TTLPasses(a)
  \/ FacadeStops \/ RegistryStops \/ RegistryStopsActor

LEMMA QuietStays ==
  ASSUME Quiet
  PROVE  UNCHANGED <<control, normal, pre, got, pc, item, stage, owner, finished>>
BY DEF Quiet, TaskStarts, TaskDies, TaskResumes, TaskEnds, TaskAsks, InteractionCancelled,
       ObserveIdle, TTLPasses, FacadeStops, RegistryStops, RegistryStopsActor

\* The kinds of step, as the proofs below tell them apart.
LEMMA NextCases ==
  ASSUME Next
  PROVE  \/ \E o \in Ops, a \in Actors : Submit(o, a) \/ SubmitPreemptive(o, a)
         \/ \E o \in Ops : EndInterrupt(o) \/ WrapperFinishes(o)
         \/ \E a \in Actors : \/ Worker(a) \/ Handler(a) \/ PostStop(a) \/ CloseIdle(a)
                              \/ JoinWorker(a)
         \/ Quiet
BY DEF Next, Quiet, CloseByRoute, Reclaim

LEMMA PlacesNextStep ==
  ASSUME TypeOK, OnePlace, [Next]_vars
  PROVE  OnePlace'
<1>1. CASE \E o \in Ops, a \in Actors : Submit(o, a) \/ SubmitPreemptive(o, a)
  BY <1>1, PlacesSubmit, PlacesPreemptive
<1>2. CASE \E o \in Ops : EndInterrupt(o) \/ WrapperFinishes(o)
  BY <1>2, EndInterruptHandled, PlacesHandled, PlacesWrapper
<1>3. CASE \E a \in Actors : Worker(a) \/ JoinWorker(a)
  BY <1>3, PlacesWorker, PlacesJoin
<1>4. CASE \E a \in Actors : Handler(a)
  BY <1>4, HandlerHandles, PlacesHandled
<1>5. CASE \E a \in Actors : PostStop(a) \/ CloseIdle(a)
  BY <1>5, PlacesPosted
<1>6. CASE Quiet
  BY <1>6, QuietStays, PlacesUntouched
<1>7. CASE UNCHANGED vars
  BY <1>7, PlacesUntouched
<1> QED BY <1>1, <1>2, <1>3, <1>4, <1>5, <1>6, <1>7, NextCases

LEMMA PlacesInit ==
  ASSUME Init
  PROVE  OnePlace
<1> SUFFICES ASSUME NEW a \in Actors PROVE PlacesOK(a)
  BY DEF OnePlace
<1>1. /\ control[a] = <<>> /\ normal[a] = <<>> /\ pre[a] = NoItems /\ got[a] = NoItems
      /\ pc[a] = "select" /\ item[a] = NoOp
  BY DEF Init, NoItems
<1>2. Queued(<<>>, a, "control", TRUE, stage, owner) /\ Queued(<<>>, a, "normal", FALSE, stage, owner)
  BY DEF Queued
<1>3. Held(NoItems, a, stage, owner)
  BY OpsAssumption DEF Held, NoItems
<1>4. Works("select", NoOp, NoItems, NoItems, a, stage, owner)
  BY OpsAssumption DEF Works
<1> QED BY <1>1, <1>2, <1>3, <1>4, PlacesNow DEF Places

\* An accepted operation is in one mailbox, getter, prefetched slot or worker.
THEOREM AcceptedOnce == Spec => []OnePlace
<1>1. Init => OnePlace
  BY PlacesInit
<1>2. TypeOK /\ OnePlace /\ [Next]_vars => OnePlace'
  BY PlacesNextStep
<1> QED BY <1>1, <1>2, TypeCorrect, PTL DEF Spec

-----------------------------------------------------------------------------
(* BypassBound *)

(***************************************************************************)
(* The history counter stays below the burst counter the code keeps, which *)
(* itself has no bound: a control operation is counted whether a normal    *)
(* one waits or not, but once some were taken ahead of a normal one the    *)
(* next is taken only while the count is below the quota.  That is not     *)
(* inductive alone: ResumeWithOne does not look at the burst, so the proof *)
(* needs that nothing is being bypassed when the getters are armed: a      *)
(* normal operation that was bypassed is still there for TakeNormal.       *)
(***************************************************************************)
BurstOK(a) ==
  /\ overtaken[a] <= burst[a] /\ overtaken[a] <= Quota
  /\ pc[a] = "waiting" => overtaken[a] = 0
  /\ pc[a] # "exited" /\ overtaken[a] > 0 => NormalAvailable(a)

BypassInv == \A a \in Actors : BurstOK(a)

LEMMA Counters ==
  ASSUME TypeOK, NEW a \in Actors
  PROVE  /\ overtaken[a] \in Nat /\ burst[a] \in Nat /\ Quota \in Nat \ {0}
         /\ overtaken \in [Actors -> Nat] /\ burst \in [Actors -> Nat]
BY BoundsAssumption DEF TypeOK

\* The counters of an actor and its normal queue are unchanged, its worker too
\* or it became free to select.
LEMMA BurstFrame ==
  ASSUME NEW a \in Actors, BurstOK(a),
         overtaken'[a] = overtaken[a], burst'[a] = burst[a],
         pc'[a] = pc[a] \/ (pc[a] = "handling" /\ pc'[a] = "select"),
         pc[a] # "exited" => (NormalAvailable(a) => NormalAvailable(a)')
  PROVE  BurstOK(a)'
BY DEF BurstOK

\* Taking a control operation x when the burst has room, or nothing was bypassed.
LEMMA BurstControl ==
  ASSUME TypeOK, NEW a \in Actors, BurstOK(a), NEW x, NEW waits \in BOOLEAN,
         CountControl(a, x), Overtakes(a, x, waits),
         pc[a] # "exited", x = Stop => pc'[a] = "exited", pc'[a] # "waiting",
         waits => burst[a] < Quota \/ overtaken[a] = 0,
         waits => NormalAvailable(a)'
  PROVE  BurstOK(a)'
<1>1. /\ burst'[a] = IF x # Stop THEN burst[a] + 1 ELSE burst[a]
      /\ overtaken'[a] = IF x = Stop THEN overtaken[a]
                         ELSE IF waits THEN overtaken[a] + 1 ELSE 0
  BY Counters DEF CountControl, Overtakes
<1>2. overtaken[a] \in Nat /\ burst[a] \in Nat /\ Quota \in Nat \ {0}
      /\ overtaken[a] <= burst[a] /\ overtaken[a] <= Quota
  BY Counters DEF BurstOK
<1>3. overtaken'[a] <= burst'[a] /\ overtaken'[a] <= Quota
  BY <1>1, <1>2
<1>4. pc'[a] # "exited" /\ overtaken'[a] > 0 => NormalAvailable(a)'
  BY <1>1, <1>2
<1> QED BY <1>3, <1>4 DEF BurstOK

\* Taking a normal operation resets both counters.
LEMMA BurstNormal ==
  ASSUME TypeOK, NEW a \in Actors, CountNormal(a), OvertakesNone(a)
  PROVE  BurstOK(a)'
<1>1. burst'[a] = 0 /\ overtaken'[a] = 0 /\ Quota \in Nat
  BY Counters DEF CountNormal, OvertakesNone
<1> QED BY <1>1 DEF BurstOK

LEMMA BeginPc ==
  ASSUME TypeOK, NEW a \in Actors, NEW x, Begin(a, x)
  PROVE  /\ \A b \in Actors \ {a} : pc'[b] = pc[b]
         /\ pc'[a] # "waiting" /\ (x = Stop => pc'[a] = "exited")
<1>1. pc \in [Actors -> {"select", "waiting", "handling", "exited"}] /\ Stop \notin Ops
  BY OpsAssumption DEF TypeOK
<1>2. \/ pc' = [pc EXCEPT ![a] = "exited"]
      \/ x \in Ops /\ pc' = [pc EXCEPT ![a] = "select"]
      \/ x \in Ops /\ pc' = [pc EXCEPT ![a] = "handling"]
  BY DEF Begin
<1> QED BY <1>1, <1>2

LEMMA BypassTakeNormal ==
  ASSUME TypeOK, BypassInv, NEW a \in Actors, TakeNormal(a)
  PROVE  BypassInv'
<1> SUFFICES ASSUME NEW b \in Actors PROVE BurstOK(b)'
  BY DEF BypassInv
<1>1. CountNormal(a) /\ OvertakesNone(a) /\ \E x : Begin(a, x)
  BY DEF TakeNormal
<1>2. CASE b = a
  BY <1>1, <1>2, BurstNormal
<1>3. CASE b # a
  <2>1. /\ BurstOK(b) /\ pc'[b] = pc[b]
        /\ overtaken'[b] = overtaken[b] /\ burst'[b] = burst[b]
    BY <1>1, <1>3, BeginPc, Counters DEF BypassInv, CountNormal, OvertakesNone
  <2>2. normal'[b] = normal[b] /\ pre'[b] = pre[b]
    BY <1>3 DEF TypeOK, TakeNormal, UsePrefetchedNormal
  <2> QED BY <2>1, <2>2, BurstFrame DEF NormalAvailable
<1> QED BY <1>2, <1>3

LEMMA BypassTakeControl ==
  ASSUME TypeOK, BypassInv, NEW a \in Actors, TakeControl(a)
  PROVE  BypassInv'
<1> SUFFICES ASSUME NEW b \in Actors PROVE BurstOK(b)'
  BY DEF BypassInv
<1>1. PICK x : /\ CountControl(a, x) /\ Overtakes(a, x, NormalAvailable(a))
               /\ Begin(a, x)
  BY DEF TakeControl
<1>2. /\ pc[a] = "select" /\ (NormalAvailable(a) => burst[a] < Quota) /\ UNCHANGED normal
      /\ UNCHANGED pre \/ pre' = [pre EXCEPT ![a].control = NoOp]
  BY DEF TakeControl
<1>3. normal'[b] = normal[b] /\ pre'[b].normal = pre[b].normal
  <2>1. pre[b] \in Slots /\ pre \in [Actors -> Slots]
    BY DEF TypeOK
  <2>2. pre'[b].normal = pre[b].normal
    BY <1>2, <2>1 DEF Slots
  <2> QED BY <1>2, <2>2
<1>4. BurstOK(b)
  BY DEF BypassInv
<1>5. CASE b = a
  <2>1. NormalAvailable(a) => NormalAvailable(a)'
    BY <1>3, <1>5 DEF NormalAvailable
  <2>2. NormalAvailable(a) \in BOOLEAN
    BY DEF NormalAvailable
  <2>3. pc[a] # "exited" /\ pc'[a] # "waiting" /\ (x = Stop => pc'[a] = "exited")
    BY <1>1, <1>2, BeginPc
  <2> QED BY <1>1, <1>2, <1>4, <1>5, <2>1, <2>2, <2>3, BurstControl
<1>6. CASE b # a
  <2>1. /\ pc'[b] = pc[b] /\ overtaken'[b] = overtaken[b] /\ burst'[b] = burst[b]
    BY <1>1, <1>6, BeginPc, Counters DEF CountControl, Overtakes
  <2> QED BY <1>3, <1>4, <2>1, BurstFrame DEF NormalAvailable
<1> QED BY <1>5, <1>6

LEMMA BypassArm ==
  ASSUME TypeOK, BypassInv, NEW a \in Actors, ArmGetters(a)
  PROVE  BypassInv'
<1> SUFFICES ASSUME NEW b \in Actors PROVE BurstOK(b)'
  BY DEF BypassInv
<1>1. /\ pc[a] = "select" /\ pc' = [pc EXCEPT ![a] = "waiting"] /\ ~NormalAvailable(a)
      /\ UNCHANGED <<overtaken, burst, normal, pre>>
  BY DEF ArmGetters
<1>2. BurstOK(b) /\ overtaken[b] \in Nat
  BY Counters DEF BypassInv
<1>3. CASE b = a
  <2>1. overtaken[a] = 0
    BY <1>1, <1>2, <1>3 DEF BurstOK
  <2> QED BY <1>1, <1>2, <1>3, <2>1 DEF BurstOK
<1>4. CASE b # a
  <2>1. pc'[b] = pc[b]
    BY <1>1, <1>4 DEF TypeOK
  <2> QED BY <1>1, <1>2, <2>1, BurstFrame DEF NormalAvailable
<1> QED BY <1>3, <1>4

\* A getter takes an item from a waiting worker's mailbox.
LEMMA BypassGetter ==
  ASSUME TypeOK, BypassInv, NEW a \in Actors, GetterTakesControl(a) \/ GetterTakesNormal(a)
  PROVE  BypassInv'
<1> SUFFICES ASSUME NEW b \in Actors PROVE BurstOK(b)'
  BY DEF BypassInv
<1>1. /\ pc[a] = "waiting" /\ UNCHANGED <<overtaken, burst, pre, pc>>
      /\ \/ UNCHANGED normal \/ normal' = [normal EXCEPT ![a] = Tail(normal[a])]
  BY DEF GetterTakesControl, GetterTakesNormal
<1>2. BurstOK(b) /\ overtaken[b] \in Nat
  BY Counters DEF BypassInv
<1>3. CASE b = a
  <2>1. overtaken[b] = 0
    BY <1>1, <1>2, <1>3 DEF BurstOK
  <2> QED BY <1>1, <1>2, <2>1 DEF BurstOK
<1>4. CASE b # a
  <2>1. normal'[b] = normal[b]
    BY <1>1, <1>4 DEF TypeOK
  <2> QED BY <1>1, <1>2, <2>1, BurstFrame DEF NormalAvailable
<1> QED BY <1>3, <1>4

\* A waiting worker resumes: nothing was bypassed before.
LEMMA BypassResume ==
  ASSUME TypeOK, BypassInv, NEW a \in Actors, ResumeWithOne(a) \/ ResumeWithBoth(a)
  PROVE  BypassInv'
<1> SUFFICES ASSUME NEW b \in Actors PROVE BurstOK(b)'
  BY DEF BypassInv
<1>1. pc[a] = "waiting" /\ UNCHANGED normal
  BY DEF ResumeWithOne, ResumeWithBoth
<1>2. \A c \in Actors \ {a} : pre'[c] = pre[c]
  BY DEF ResumeWithOne, ResumeWithBoth, TypeOK
<1>3. PICK x :
        /\ Begin(a, x)
        /\ \/ CountNormal(a) /\ OvertakesNone(a)
           \/ CountControl(a, x) /\ \E w \in BOOLEAN :
                Overtakes(a, x, w) /\ (w => NormalAvailable(a)')
  <2>1. CASE ResumeWithOne(a)
    <3>1. CASE /\ CountControl(a, got[a].control)
               /\ Overtakes(a, got[a].control, normal[a] # <<>>) /\ Begin(a, got[a].control)
      <4>1. (normal[a] # <<>>) \in BOOLEAN /\ (normal[a] # <<>> => NormalAvailable(a)')
        BY <1>1 DEF NormalAvailable
      <4> QED BY <3>1, <4>1
    <3>2. CASE CountNormal(a) /\ OvertakesNone(a) /\ Begin(a, got[a].normal)
      BY <3>2
    <3> QED BY <2>1, <3>1, <3>2 DEF ResumeWithOne
  <2>2. CASE ResumeWithBoth(a)
    <3>1. CASE /\ CountControl(a, got[a].control) /\ Overtakes(a, got[a].control, TRUE)
               /\ Begin(a, got[a].control)
               /\ pre' = [pre EXCEPT ![a].normal = got[a].normal] /\ got[a].normal # NoOp
      <4>1. NormalAvailable(a)'
        BY <3>1 DEF NormalAvailable, TypeOK, Slots
      <4> QED BY <3>1, <4>1
    <3>2. CASE CountNormal(a) /\ OvertakesNone(a) /\ Begin(a, got[a].normal)
      BY <3>2
    <3> QED BY <2>2, <3>1, <3>2 DEF ResumeWithBoth
  <2> QED BY <2>1, <2>2
<1>4. BurstOK(b)
  BY DEF BypassInv
<1>5. CASE b = a
  <2>1. overtaken[a] = 0 /\ pc[a] # "exited"
    BY <1>1, <1>4, <1>5 DEF BurstOK
  <2>2. pc'[a] # "waiting" /\ (x = Stop => pc'[a] = "exited")
    BY <1>3, BeginPc
  <2> QED BY <1>3, <1>4, <1>5, <2>1, <2>2, BurstNormal, BurstControl
<1>6. CASE b # a
  <2>1. /\ pc'[b] = pc[b] /\ overtaken'[b] = overtaken[b] /\ burst'[b] = burst[b]
    BY <1>3, <1>6, BeginPc, Counters DEF CountNormal, OvertakesNone, CountControl, Overtakes
  <2> QED BY <1>1, <1>2, <1>4, <1>6, <2>1, BurstFrame DEF NormalAvailable
<1> QED BY <1>5, <1>6

\* Whatever else happens keeps the counters and takes nothing from a live worker.
LEMMA BypassOthers ==
  ASSUME TypeOK, BypassInv, UNCHANGED <<overtaken, burst>>,
         \A a \in Actors :
           /\ pc'[a] = pc[a] \/ (pc[a] = "handling" /\ pc'[a] = "select")
           /\ pc[a] # "exited" => (NormalAvailable(a) => NormalAvailable(a)')
  PROVE  BypassInv'
BY BurstFrame DEF BypassInv

LEMMA SubmitKeepsNormal ==
  ASSUME TypeOK, NEW o \in Ops, NEW a \in Actors, Submit(o, a), NEW b \in Actors,
         NormalAvailable(b)
  PROVE  NormalAvailable(b)'
<1>1. UNCHANGED pre /\ (UNCHANGED normal \/ normal' = [normal EXCEPT ![a] = Append(@, o)])
  BY DEF Submit
<1>2. \A q \in Seq(Ops) : Append(q, o) # <<>>
  <2> SUFFICES ASSUME NEW q \in Seq(Ops) PROVE Append(q, o) # <<>>
    OBVIOUS
  <2>1. Len(Append(q, o)) = Len(q) + 1 /\ Len(q) \in Nat /\ Len(<<>>) = 0
    OBVIOUS
  <2> QED BY <2>1
<1>3. normal \in [Actors -> Seq(Ops)]
  BY DEF TypeOK
<1> QED BY <1>1, <1>2, <1>3 DEF NormalAvailable

LEMMA JoinKeepsNormal ==
  ASSUME TypeOK, NEW a \in Actors, JoinWorker(a), NEW b \in Actors,
         pc[b] # "exited", NormalAvailable(b)
  PROVE  NormalAvailable(b)'
<1>1. /\ pc[a] = "exited" /\ normal' = [normal EXCEPT ![a] = <<>>]
      /\ pre' = [pre EXCEPT ![a] = NoItems]
  BY DEF JoinWorker, NoItems
<1> QED BY <1>1 DEF NormalAvailable, TypeOK

LEMMA ReleasePc ==
  ASSUME TypeOK, OnePlace, NEW o \in Ops, Release(o), NEW a \in Actors
  PROVE  pc'[a] = pc[a] \/ (pc[a] = "handling" /\ pc'[a] = "select")
<1>1. item[a] # NoOp => pc[a] = "handling"
  BY PlacesHere DEF Works
<1> QED BY <1>1, OpsAssumption DEF Release

LEMMA BypassNextStep ==
  ASSUME TypeOK, OnePlace, BypassInv, [Next]_vars
  PROVE  BypassInv'
<1>1. ASSUME NEW a \in Actors, Worker(a)
      PROVE  BypassInv'
  BY <1>1, BypassTakeNormal, BypassTakeControl, BypassArm, BypassGetter, BypassResume
     DEF Worker
<1>2. ASSUME NEW o \in Ops, Handled(o), UNCHANGED <<overtaken, burst>>
      PROVE  BypassInv'
  <2>1. UNCHANGED <<normal, pre>> /\ (Release(o) \/ UNCHANGED pc)
    BY <1>2 DEF Handled
  <2>2. \A a \in Actors : NormalAvailable(a) => NormalAvailable(a)'
    BY <2>1 DEF NormalAvailable
  <2> QED BY <1>2, <2>1, <2>2, ReleasePc, BypassOthers
<1>3. ASSUME UNCHANGED <<overtaken, burst, pc, normal, pre>>
      PROVE  BypassInv'
  <2>1. \A a \in Actors : NormalAvailable(a) => NormalAvailable(a)'
    BY <1>3 DEF NormalAvailable
  <2> QED BY <1>3, <2>1, BypassOthers
<1>4. CASE \E o \in Ops, a \in Actors : Submit(o, a)
  <2>1. PICK o \in Ops, a \in Actors : Submit(o, a)
    BY <1>4
  <2>2. UNCHANGED <<overtaken, burst, pc>>
    BY <2>1 DEF Submit
  <2> QED BY <2>1, <2>2, SubmitKeepsNormal, BypassOthers
<1>5. CASE \E a \in Actors : JoinWorker(a)
  <2>1. PICK a \in Actors : JoinWorker(a)
    BY <1>5
  <2>2. UNCHANGED <<overtaken, burst, pc>>
    BY <2>1 DEF JoinWorker
  <2> QED BY <2>1, <2>2, JoinKeepsNormal, BypassOthers
<1>6. CASE \E o \in Ops : EndInterrupt(o)
  BY <1>2, <1>6, EndInterruptHandled DEF EndInterrupt
<1>7. CASE \E a \in Actors : Handler(a)
  <2>1. PICK a \in Actors : Handler(a)
    BY <1>7
  <2>2. UNCHANGED <<overtaken, burst>>
    BY <2>1 DEF Handler, FailItem, RunPlain, InitLoaded, InitDone, RegisterTask, CompactCancels,
       RunInterrupt, RunRespond, RunCloseRefused, RunClose, CloseAwaitsItself, CloseDone
  <2> QED BY <1>2, <2>1, <2>2, HandlerHandles
<1>8. CASE \/ \E o \in Ops, a \in Actors : SubmitPreemptive(o, a)
           \/ \E o \in Ops : WrapperFinishes(o)
           \/ \E a \in Actors : PostStop(a) \/ CloseIdle(a)
           \/ UNCHANGED vars
  BY <1>3, <1>8 DEF SubmitPreemptive, WrapperFinishes, PostStop, CloseIdle
<1>9. CASE Quiet
  BY <1>3, <1>9 DEF Quiet, TaskStarts, TaskDies, TaskResumes, TaskEnds, TaskAsks,
     InteractionCancelled, ObserveIdle, TTLPasses, FacadeStops, RegistryStops,
     RegistryStopsActor
<1> QED BY <1>1, <1>4, <1>5, <1>6, <1>7, <1>8, <1>9, NextCases

\* At most Quota control operations are taken while a normal one waits.
THEOREM BypassBounded == Spec => []BypassBound
<1>1. Init => BypassInv
  <2> SUFFICES ASSUME Init, NEW a \in Actors PROVE BurstOK(a)
    BY DEF BypassInv
  <2>1. overtaken[a] = 0 /\ burst[a] = 0 /\ pc[a] = "select" /\ Quota \in Nat
    BY BoundsAssumption DEF Init
  <2> QED BY <2>1 DEF BurstOK
<1>2. TypeOK /\ OnePlace /\ BypassInv /\ [Next]_vars => BypassInv'
  BY BypassNextStep
<1>3. BypassInv => BypassBound
  BY DEF BypassInv, BurstOK, BypassBound
<1> QED BY <1>1, <1>2, <1>3, TypeCorrect, AcceptedOnce, PTL DEF Spec

-----------------------------------------------------------------------------
(* FinishedOnce *)

\* Operation o moves on; if it finishes it had not finished before.
LEMMA FinishedMoves ==
  ASSUME TypeOK, FinishedOnce, NEW o \in Ops, stage[o] # "finished", OnlyMoves(o),
         Finishes(o) \/ (stage'[o] # "finished" /\ finished'[o] = finished[o])
  PROVE  FinishedOnce'
<1> SUFFICES ASSUME NEW p \in Ops
             PROVE  Len(finished'[p]) = IF stage'[p] = "finished" THEN 1 ELSE 0
  BY DEF FinishedOnce
<1>1. Len(finished[p]) = IF stage[p] = "finished" THEN 1 ELSE 0
  BY DEF FinishedOnce
<1>2. CASE p = o
  <2>1. Len(finished[o]) = 0
    BY <1>1, <1>2
  <2>2. CASE Finishes(o)
    <3>1. stage'[o] = "finished" /\ Len(finished'[o]) = 1
      BY <2>1, <2>2 DEF Finishes
    <3> QED BY <1>2, <3>1
  <2>3. CASE stage'[o] # "finished" /\ finished'[o] = finished[o]
    BY <1>2, <2>1, <2>3
  <2> QED BY <2>2, <2>3
<1>3. CASE p # o
  BY <1>1, <1>3 DEF OnlyMoves
<1> QED BY <1>2, <1>3

\* No operation finishes, or stops being finished.
LEMMA FinishedStays ==
  ASSUME FinishedOnce, UNCHANGED finished,
         \A o \in Ops : stage'[o] = "finished" <=> stage[o] = "finished"
  PROVE  FinishedOnce'
BY DEF FinishedOnce

\* The item the worker takes waits in one of a's places.
LEMMA BegunWaited ==
  ASSUME TypeOK, OnePlace, NEW a \in Actors, NEW x, x \in Ops,
         \/ control[a] # <<>> /\ x = Head(control[a])
         \/ normal[a] # <<>> /\ x = Head(normal[a])
         \/ x \in {pre[a].control, pre[a].normal, got[a].control, got[a].normal}
  PROVE  stage[x] \in Waiting /\ owner[x] = a
<1>1. /\ Queued(control[a], a, "control", TRUE, stage, owner)
      /\ Queued(normal[a], a, "normal", FALSE, stage, owner)
      /\ Held(pre[a], a, stage, owner) /\ Held(got[a], a, stage, owner)
      /\ control[a] \in Seq(Ops \cup {Stop}) /\ normal[a] \in Seq(Ops \cup {Stop})
  BY PlacesHere
<1>2. CASE control[a] # <<>> /\ x = Head(control[a])
  BY <1>1, <1>2, QueuedHead DEF Waiting
<1>3. CASE normal[a] # <<>> /\ x = Head(normal[a])
  BY <1>1, <1>3, QueuedHead DEF Waiting
<1>4. CASE x \in {pre[a].control, pre[a].normal, got[a].control, got[a].normal}
  BY <1>1, <1>4 DEF Held, Waiting
<1> QED BY <1>2, <1>3, <1>4

\* What a worker's step does: it takes an item, moves one, or waits.
LEMMA WorkerEffect ==
  ASSUME TypeOK, OnePlace, NEW a \in Actors, Worker(a)
  PROVE  /\ UNCHANGED <<owner, handles, task>>
         /\ \/ \E x \in Items : /\ Begin(a, x) /\ item[a] = NoOp
                                /\ x \in Ops => stage[x] \in Waiting /\ owner[x] = a
            \/ /\ UNCHANGED <<finished, root>>
               /\ \A o \in Ops : stage'[o] = stage[o]
                                 \/ (stage[o] \in Waiting /\ stage'[o] = "held")
<1>1. /\ control[a] # <<>> => Head(control[a]) \in Items
      /\ normal[a] # <<>> => Head(normal[a]) \in Items
      /\ {pre[a].control, pre[a].normal, got[a].control, got[a].normal} \subseteq Items
  BY MailboxType DEF TypeOK, Slots, Items
<1>2. pc[a] # "handling" => item[a] = NoOp
  BY PlacesHere DEF Works
<1>3. CASE TakeNormal(a)
  <2>1. UNCHANGED <<owner, handles, task>> /\ item[a] = NoOp
    BY <1>2, <1>3 DEF TakeNormal, TakeFrame
  <2>2. CASE pre[a].normal # NoOp
    <3>1. Begin(a, pre[a].normal) /\ pre[a].normal \in Items
      BY <1>1, <1>3, <2>2 DEF TakeNormal
    <3> QED BY <2>1, <3>1, BegunWaited
  <2>3. CASE pre[a].normal = NoOp
    <3>1. Begin(a, Head(normal[a])) /\ normal[a] # <<>> /\ Head(normal[a]) \in Items
      BY <1>1, <1>3, <2>3 DEF TakeNormal, NormalAvailable
    <3> QED BY <2>1, <3>1, BegunWaited
  <2> QED BY <2>2, <2>3
<1>4. CASE TakeControl(a)
  <2>1. UNCHANGED <<owner, handles, task>> /\ item[a] = NoOp
    BY <1>2, <1>4 DEF TakeControl, TakeFrame
  <2>2. CASE pre[a].control # NoOp
    <3>1. Begin(a, pre[a].control) /\ pre[a].control \in Items
      BY <1>1, <1>4, <2>2 DEF TakeControl
    <3> QED BY <2>1, <3>1, BegunWaited
  <2>3. CASE pre[a].control = NoOp
    <3>1. Begin(a, Head(control[a])) /\ control[a] # <<>> /\ Head(control[a]) \in Items
      BY <1>1, <1>4, <2>3 DEF TakeControl, ControlAvailable
    <3> QED BY <2>1, <3>1, BegunWaited
  <2> QED BY <2>2, <2>3
<1>5. CASE ArmGetters(a)
  BY <1>5 DEF ArmGetters
<1>6. CASE GetterTakesControl(a)
  <2> DEFINE x == Head(control[a])
  <2>1. /\ control[a] # <<>> /\ UNCHANGED <<owner, handles, task, finished, root>>
        /\ stage' = [o \in Ops |-> IF o = x THEN "held" ELSE stage[o]]
    BY <1>6 DEF GetterTakesControl
  <2>2. x \in Ops => stage[x] \in Waiting
    BY <2>1, BegunWaited
  <2> HIDE DEF x
  <2> QED BY <2>1, <2>2
<1>7. CASE GetterTakesNormal(a)
  <2> DEFINE x == Head(normal[a])
  <2>1. /\ normal[a] # <<>> /\ UNCHANGED <<owner, handles, task, finished, root>>
        /\ stage' = [stage EXCEPT ![x] = "held"]
    BY <1>7 DEF GetterTakesNormal
  <2>2. x \in Ops => stage[x] \in Waiting
    BY <2>1, BegunWaited
  <2> HIDE DEF x
  <2>3. stage \in [Ops -> Stages]
    BY DEF TypeOK
  <2> QED BY <2>1, <2>2, <2>3
<1>8. CASE ResumeWithOne(a) \/ ResumeWithBoth(a)
  <2>1. UNCHANGED <<owner, handles, task>> /\ item[a] = NoOp
    BY <1>2, <1>8 DEF ResumeWithOne, ResumeWithBoth, TakeFrame
  <2>2. PICK x \in {got[a].control, got[a].normal} : Begin(a, x)
    BY <1>8 DEF ResumeWithOne, ResumeWithBoth
  <2>3. x \in Ops => stage[x] \in Waiting /\ owner[x] = a
    BY <2>2, BegunWaited
  <2> QED BY <1>1, <2>1, <2>2, <2>3
<1> QED BY <1>3, <1>4, <1>5, <1>6, <1>7, <1>8 DEF Worker

\* Begin finishes the item it rejects and no other.
LEMMA BeginFinishes ==
  ASSUME TypeOK, NEW a \in Actors, NEW x, Begin(a, x), item[a] = NoOp
  PROVE  \/ UNCHANGED <<stage, finished>>
         \/ x \in Ops /\ OnlyMoves(x)
            /\ (Finishes(x) \/ (stage'[x] = "handling" /\ finished'[x] = finished[x]))
<1>1. CASE x = Stop /\ UNCHANGED <<stage, finished>>
  BY <1>1
<1>2. CASE x \in Ops /\ Retire(x, "rejected")
  BY <1>2, RetireEffect
<1>3. CASE x \in Ops /\ stage' = [stage EXCEPT ![x] = "handling"] /\ UNCHANGED finished
  BY <1>3, MoveEffect DEF Busy, GoesOn
<1> QED BY <1>1, <1>2, <1>3 DEF Begin, Finish

LEMMA FinishedNextStep ==
  ASSUME TypeOK, OnePlace, FinishedOnce, [Next]_vars
  PROVE  FinishedOnce'
<1>1. ASSUME NEW o \in Ops, NEW a \in Actors, Submit(o, a) \/ SubmitPreemptive(o, a)
      PROVE  FinishedOnce'
  <2>1. stage[o] = "new"
    BY <1>1 DEF Submit, SubmitPreemptive, Accept
  <2>2. CASE Submit(o, a)
    <3>1. /\ stage' = [stage EXCEPT ![o] = IF IsControl(o) THEN "control" ELSE "normal"]
          /\ UNCHANGED finished
      BY <2>2 DEF Submit
    <3>2. \A p \in Ops : stage'[p] = "finished" <=> stage[p] = "finished"
      BY <2>1, <3>1 DEF TypeOK
    <3> QED BY <3>1, <3>2, FinishedStays
  <2>3. CASE SubmitPreemptive(o, a)
    <3>1. OnlyMoves(o) /\ (Finishes(o) \/ (GoesOn(o) /\ stage'[o] = "suspended"))
      BY <2>3, BodyEffect DEF SubmitPreemptive
    <3> QED BY <2>1, <3>1, FinishedMoves DEF GoesOn
  <2> QED BY <1>1, <2>2, <2>3
<1>2. ASSUME NEW o \in Ops, Handled(o)
      PROVE  FinishedOnce'
  BY <1>2, FinishedMoves DEF Handled, GoesOn, Busy
<1>3. ASSUME NEW o \in Ops, WrapperFinishes(o)
      PROVE  FinishedOnce'
  <2>1. stage[o] = "background" /\ Retire(o, "completed")
    BY <1>3 DEF WrapperFinishes, Finish
  <2> QED BY <2>1, RetireEffect, FinishedMoves
<1>4. ASSUME NEW a \in Actors, Worker(a)
      PROVE  FinishedOnce'
  <2>1. CASE \E x \in Items : /\ Begin(a, x) /\ item[a] = NoOp
                              /\ x \in Ops => stage[x] \in Waiting
    <3>1. PICK x \in Items : Begin(a, x) /\ item[a] = NoOp /\ (x \in Ops => stage[x] \in Waiting)
      BY <2>1
    <3>2. CASE UNCHANGED <<stage, finished>>
      BY <3>2, FinishedStays
    <3>3. CASE x \in Ops /\ OnlyMoves(x)
               /\ (Finishes(x) \/ (stage'[x] = "handling" /\ finished'[x] = finished[x]))
      <4>1. stage[x] # "finished"
        BY <3>1, <3>3 DEF Waiting
      <4> QED BY <3>3, <4>1, FinishedMoves
    <3> QED BY <3>1, <3>2, <3>3, BeginFinishes
  <2>2. CASE /\ UNCHANGED finished
             /\ \A o \in Ops : stage'[o] = stage[o]
                               \/ (stage[o] \in Waiting /\ stage'[o] = "held")
    <3>1. \A o \in Ops : stage'[o] = "finished" <=> stage[o] = "finished"
      BY <2>2 DEF Waiting
    <3> QED BY <2>2, <3>1, FinishedStays
  <2> QED BY <1>4, <2>1, <2>2, WorkerEffect
<1>5. ASSUME NEW a \in Actors, JoinWorker(a)
      PROVE  FinishedOnce'
  <2>1. stage' = [o \in Ops |-> IF InQueue(o, a) THEN "dropped" ELSE stage[o]]
        /\ UNCHANGED finished
    BY <1>5 DEF JoinWorker
  <2>2. \A o \in Ops : InQueue(o, a) => stage[o] # "finished"
    BY QueuedHere DEF Waiting
  <2>3. \A o \in Ops : stage'[o] = "finished" <=> stage[o] = "finished"
    BY <2>1, <2>2
  <2> QED BY <2>1, <2>3, FinishedStays
<1>6. ASSUME UNCHANGED <<stage, finished>>
      PROVE  FinishedOnce'
  BY <1>6, FinishedStays
<1>7. ASSUME NEW a \in Actors, PostStop(a) \/ CloseIdle(a)
      PROVE  FinishedOnce'
  BY <1>6, <1>7 DEF PostStop, CloseIdle
<1>8. CASE Quiet \/ UNCHANGED vars
  BY <1>6, <1>8, QuietStays
<1>9. CASE \E a \in Actors : Handler(a)
  BY <1>2, <1>9, HandlerHandles
<1>10. CASE \E o \in Ops : EndInterrupt(o)
  BY <1>2, <1>10, EndInterruptHandled
<1> QED BY <1>1, <1>3, <1>4, <1>5, <1>7, <1>8, <1>9, <1>10, NextCases

\* Every operation gets one OperationFinishedEvent, whoever gets there first.
THEOREM OneFinishedEvent == Spec => []FinishedOnce
<1>1. Init => FinishedOnce
  <2> SUFFICES ASSUME Init, NEW o \in Ops
               PROVE  Len(finished[o]) = IF stage[o] = "finished" THEN 1 ELSE 0
    BY DEF FinishedOnce
  <2>1. finished[o] = <<>> /\ stage[o] = "new"
    BY DEF Init
  <2> QED BY <2>1
<1>2. TypeOK /\ OnePlace /\ FinishedOnce /\ [Next]_vars => FinishedOnce'
  BY FinishedNextStep
<1> QED BY <1>1, <1>2, TypeCorrect, AcceptedOnce, PTL DEF Spec

-----------------------------------------------------------------------------
(* SlotGuardsWork, from the invariant GuardInv *)

\* A handler creates its task in its last stretch, so only an operation whose
\* handler has returned has a task.
TaskFollowsHandler == \A o \in Ops : task[o] # "none" => stage[o] \in Settled

HandlesHaveTasks == \A a \in Actors : \A o \in handles[a] : task[o] # "none"

AtWork(o) == stage[o] \in Busy \/ task[o] \in LiveTask

RootGuard ==
  \A o \in Ops : IsRoot(o) /\ AtWork(o) => owner[o] \in Actors /\ root[owner[o]] = o

GuardInv == TypeOK /\ OnePlace /\ TaskFollowsHandler /\ HandlesHaveTasks /\ RootGuard

(* What almost every step keeps. *)
TasksCalm ==
  \A o \in Ops : /\ task'[o] = "none" <=> task[o] = "none"
                 /\ task'[o] \in LiveTask => task[o] \in LiveTask

HandlesShrink == \A a \in Actors : handles'[a] \subseteq handles[a]

SettledStay == \A o \in Ops : stage[o] \in Settled => stage'[o] \in Settled

NoNewWork == \A o \in Ops : IsRoot(o) /\ AtWork(o)' => AtWork(o) /\ owner'[o] = owner[o]

RootsKept ==
  \A o \in Ops : IsRoot(o) /\ AtWork(o) /\ AtWork(o)' => root'[owner[o]] = root[owner[o]]

LEMMA CalmStep ==
  ASSUME GuardInv, TasksCalm, HandlesShrink, SettledStay, NoNewWork, RootsKept
  PROVE  TaskFollowsHandler' /\ HandlesHaveTasks' /\ RootGuard'
<1>1. TaskFollowsHandler'
  BY DEF GuardInv, TaskFollowsHandler, TasksCalm, SettledStay
<1>2. HandlesHaveTasks'
  <2> SUFFICES ASSUME NEW a \in Actors, NEW o \in handles'[a] PROVE task'[o] # "none"
    BY DEF HandlesHaveTasks
  <2>1. o \in handles[a] /\ handles[a] \subseteq Ops
    BY DEF GuardInv, TypeOK, HandlesShrink
  <2> QED BY <2>1 DEF GuardInv, HandlesHaveTasks, TasksCalm
<1>3. RootGuard'
  <2> SUFFICES ASSUME NEW o \in Ops, IsRoot(o), AtWork(o)'
               PROVE  owner'[o] \in Actors /\ root'[owner'[o]] = o
    BY DEF RootGuard
  <2>1. AtWork(o) /\ owner'[o] = owner[o]
    BY DEF NoNewWork
  <2>2. owner[o] \in Actors /\ root[owner[o]] = o
    BY <2>1 DEF GuardInv, RootGuard
  <2>3. root'[owner[o]] = root[owner[o]]
    BY <2>1 DEF RootsKept
  <2> QED BY <2>1, <2>2, <2>3
<1> QED BY <1>1, <1>2, <1>3

LEMMA CancelledCalm ==
  ASSUME TypeOK, NEW S, NEW W, task' = Cancelled(S, W)
  PROVE  TasksCalm
BY DEF Cancelled, TasksCalm, LiveTask

\* An operation at work is among the live tasks of its actor, if it has one.
LEMMA DropKeeps ==
  ASSUME GuardInv, NEW S, DropDoneHandles(S)
  PROVE  HandlesShrink /\ RootsKept
<1>1. HandlesShrink
  <2> SUFFICES ASSUME NEW a \in Actors PROVE handles'[a] \subseteq handles[a]
    BY DEF HandlesShrink
  <2> QED BY DEF DropDoneHandles, ActiveTasks
<1>2. RootsKept
  <2> SUFFICES ASSUME NEW o \in Ops, IsRoot(o), AtWork(o)
               PROVE  root'[owner[o]] = root[owner[o]]
    BY DEF RootsKept
  <2>1. owner[o] \in Actors /\ root[owner[o]] = o
    BY DEF GuardInv, RootGuard
  <2>2. o \in handles[owner[o]] => o \in ActiveTasks(owner[o])
    <3>1. CASE task[o] \in LiveTask
      BY <3>1 DEF ActiveTasks
    <3>2. CASE stage[o] \in Busy
      <4>1. task[o] = "none"
        BY <3>2 DEF GuardInv, TaskFollowsHandler, Busy, Settled
      <4> QED BY <2>1, <4>1 DEF GuardInv, HandlesHaveTasks
    <3> QED BY <3>1, <3>2 DEF AtWork
  <2> QED BY <2>1, <2>2 DEF DropDoneHandles
<1> QED BY <1>1, <1>2

LEMMA FinishKeeps ==
  ASSUME GuardInv, NEW o \in Ops, NEW s, NEW S, Finish(o, s, S),
         TasksCalm, task[o] \notin LiveTask
  PROVE  RootsKept
<1> SUFFICES ASSUME NEW p \in Ops, IsRoot(p), AtWork(p), AtWork(p)'
             PROVE  root'[owner[p]] = root[owner[p]]
  BY DEF RootsKept
<1>1. p # o
  <2>1. stage'[o] = "finished"
    BY DEF GuardInv, Finish, Retire, TypeOK
  <2>2. task'[o] \notin LiveTask
    BY DEF TasksCalm
  <2> QED BY <2>1, <2>2 DEF AtWork, Busy
<1>2. owner[p] \in Actors /\ root[owner[p]] = p
  BY DEF GuardInv, RootGuard
<1> QED BY <1>1, <1>2 DEF Finish, ClearRoot

LEMMA SameRootsKept ==
  ASSUME UNCHANGED root
  PROVE  RootsKept
BY DEF RootsKept

\* A handler's step, RegisterTask aside, changes no stage but its own.
LEMMA HandledCalm ==
  ASSUME NEW o \in Ops, Handled(o), TasksCalm
  PROVE  SettledStay /\ NoNewWork
<1>1. SettledStay
  BY DEF Handled, OnlyMoves, SettledStay, Settled, Busy
<1>2. NoNewWork
  BY DEF Handled, OnlyMoves, NoNewWork, AtWork, TasksCalm
<1> QED BY <1>1, <1>2

LEMMA SameTasksCalm ==
  ASSUME UNCHANGED task
  PROVE  TasksCalm
BY DEF TasksCalm

LEMMA SameHandlesShrink ==
  ASSUME UNCHANGED handles
  PROVE  HandlesShrink
BY DEF HandlesShrink

LEMMA BusyHasNoTask ==
  ASSUME GuardInv, NEW o \in Ops, stage[o] \in Busy
  PROVE  task[o] = "none" /\ task[o] \notin LiveTask
BY DEF GuardInv, TaskFollowsHandler, Busy, Settled, LiveTask

LEMMA InterruptCalm ==
  ASSUME GuardInv, NEW o \in Ops, InterruptBody(o)
  PROVE  TasksCalm /\ HandlesShrink /\ RootsKept
<1>1. HandlesShrink /\ RootsKept
  BY DropKeeps DEF InterruptBody
<1>2. UNCHANGED task \/ \E S, W : task' = Cancelled(S, W)
  BY DEF InterruptBody
<1>3. TypeOK
  BY DEF GuardInv
<1> QED BY <1>1, <1>2, <1>3, SameTasksCalm, CancelledCalm

LEMMA RespondCalm ==
  ASSUME GuardInv, NEW o \in Ops, RespondBody(o), task[o] \notin LiveTask
  PROVE  TasksCalm /\ HandlesShrink /\ RootsKept
<1>1. TasksCalm
  <2>1. UNCHANGED task \/ (task[Asker[o]] = "asking" /\ task' = [task EXCEPT ![Asker[o]] = "answered"])
    BY DEF RespondBody
  <2>2. task \in [Ops -> Tasks]
    BY DEF GuardInv, TypeOK, Tasks
  <2> QED BY <2>1, <2>2 DEF TasksCalm, LiveTask
<1>2. HandlesShrink
  BY SameHandlesShrink DEF RespondBody
<1>3. \E s : Finish(o, s, {})
  BY DEF RespondBody
<1>4. RootsKept
  BY <1>1, <1>3, FinishKeeps
<1> QED BY <1>1, <1>2, <1>4

LEMMA HandlerCalm ==
  ASSUME GuardInv, NEW a \in Actors, NEW o \in Ops, Handled(o),
         \/ FailItem(a, o) \/ RunPlain(a, o) \/ InitLoaded(a, o) \/ InitDone(a, o)
         \/ CompactCancels(a, o) \/ RunInterrupt(a, o) \/ RunRespond(a, o)
         \/ RunCloseRefused(a, o) \/ RunClose(a, o) \/ CloseAwaitsItself(a, o)
         \/ CloseDone(a, o)
  PROVE  TasksCalm /\ HandlesShrink /\ RootsKept
<1>1. task[o] \notin LiveTask
  BY BusyHasNoTask DEF Handled
<1>2. TypeOK
  BY DEF GuardInv
<1>3. CASE \/ FailItem(a, o) \/ RunPlain(a, o) \/ InitDone(a, o)
           \/ RunCloseRefused(a, o) \/ CloseAwaitsItself(a, o) \/ CloseDone(a, o)
  <2>1. /\ \E s, S : Finish(o, s, S)
        /\ UNCHANGED <<handles, task>>
    BY <1>3 DEF FailItem, RunPlain, InitDone, RunCloseRefused, CloseAwaitsItself, CloseDone
  <2>2. TasksCalm /\ HandlesShrink
    BY <2>1, SameTasksCalm, SameHandlesShrink
  <2> QED BY <1>1, <2>1, <2>2, FinishKeeps
<1>4. CASE InitLoaded(a, o)
  BY <1>4, SameTasksCalm, SameHandlesShrink, SameRootsKept DEF InitLoaded
<1>5. CASE CompactCancels(a, o)
  <2>1. DropDoneHandles(CurrentActor) /\ task' = Cancelled(CurrentTasks, {})
    BY <1>5 DEF CompactCancels
  <2> QED BY <1>2, <2>1, DropKeeps, CancelledCalm
<1>6. CASE RunInterrupt(a, o)
  BY <1>6, InterruptCalm DEF RunInterrupt
<1>7. CASE RunRespond(a, o)
  BY <1>1, <1>7, RespondCalm DEF RunRespond
<1>8. CASE RunClose(a, o)
  <2>1. DropDoneHandles({cur}) /\ task' = Cancelled(ActiveTasks(cur), pending[cur])
    BY <1>8 DEF RunClose, StopBody
  <2> QED BY <1>2, <2>1, DropKeeps, CancelledCalm
<1> QED BY <1>3, <1>4, <1>5, <1>6, <1>7, <1>8

\* RegisterTask creates a task for an operation that holds its slot already.
LEMMA GuardRegister ==
  ASSUME GuardInv, NEW a \in Actors, NEW o \in Ops, RegisterTask(a, o), Handled(o)
  PROVE  TaskFollowsHandler' /\ HandlesHaveTasks' /\ RootGuard'
<1>1. /\ task \in [Ops -> Tasks] /\ task' = [task EXCEPT ![o] = "created"]
      /\ stage \in [Ops -> Stages] /\ handles \in [Actors -> SUBSET Ops]
      /\ root \in [Actors -> Ops \cup {NoOp}]
  BY DEF GuardInv, TypeOK, Tasks, RegisterTask
<1>2. stage[o] \in Busy /\ UNCHANGED owner /\ \A p \in Ops \ {o} : stage'[p] = stage[p]
  BY DEF Handled, OnlyMoves
<1>3. stage'[o] \in Settled
  <2>1. \/ stage' = [stage EXCEPT ![o] = "background"]
        \/ stage' = [stage EXCEPT ![o] = "finished"]
    BY DEF RegisterTask, Finish, Retire
  <2> QED BY <1>1, <2>1 DEF Settled
<1>4. \A b \in Actors : root'[b] = root[b]
  <2>1. CASE o \in registered
    BY <2>1 DEF RegisterTask
  <2>2. CASE o \notin registered
    BY <2>2 DEF RegisterTask, Finish, ClearRoot
  <2> QED BY <2>1, <2>2
<1>5. TaskFollowsHandler'
  BY <1>1, <1>2, <1>3 DEF GuardInv, TaskFollowsHandler
<1>6. HandlesHaveTasks'
  <2> SUFFICES ASSUME NEW b \in Actors, NEW p \in handles'[b] PROVE task'[p] # "none"
    BY DEF HandlesHaveTasks
  <2>1. cur \in Actors
    BY ActorsAreNumbers DEF GuardInv, TypeOK, RegisterTask
  <2>2. p \in handles[b] \/ p = o
    BY <1>1, <2>1 DEF RegisterTask, ActiveTasks
  <2>3. p \in handles[b] => task[p] # "none" /\ p \in Ops
    BY <1>1 DEF GuardInv, HandlesHaveTasks
  <2> QED BY <1>1, <2>2, <2>3
<1>7. RootGuard'
  <2> SUFFICES ASSUME NEW p \in Ops, IsRoot(p), AtWork(p)'
               PROVE  owner'[p] \in Actors /\ root'[owner'[p]] = p
    BY DEF RootGuard
  <2>1. AtWork(p)
    BY <1>1, <1>2 DEF AtWork
  <2>2. owner[p] \in Actors /\ root[owner[p]] = p
    BY <2>1 DEF GuardInv, RootGuard
  <2> QED BY <1>2, <1>4, <2>2
<1> QED BY <1>5, <1>6, <1>7

LEMMA GuardHandler ==
  ASSUME GuardInv, NEW a \in Actors, Handler(a)
  PROVE  TaskFollowsHandler' /\ HandlesHaveTasks' /\ RootGuard'
<1>1. TypeOK /\ OnePlace
  BY DEF GuardInv
<1>2. ASSUME NEW o \in Ops, RegisterTask(a, o)
      PROVE  TaskFollowsHandler' /\ HandlesHaveTasks' /\ RootGuard'
  BY <1>1, <1>2, HandlerSteps, GuardRegister
<1>3. ASSUME NEW o \in Ops, Handled(o), TasksCalm, HandlesShrink, RootsKept
      PROVE  TaskFollowsHandler' /\ HandlesHaveTasks' /\ RootGuard'
  BY <1>3, HandledCalm, CalmStep
<1>4. ASSUME NEW o \in Ops,
             \/ FailItem(a, o) \/ RunPlain(a, o) \/ InitDone(a, o) \/ RunRespond(a, o)
             \/ RunCloseRefused(a, o) \/ CloseAwaitsItself(a, o) \/ CloseDone(a, o)
      PROVE  TaskFollowsHandler' /\ HandlesHaveTasks' /\ RootGuard'
  <2>1. Handled(o)
    BY <1>1, <1>4, HandlerReturns
  <2>2. TasksCalm /\ HandlesShrink /\ RootsKept
    BY <1>4, <2>1, HandlerCalm
  <2> QED BY <1>3, <2>1, <2>2
<1>5. ASSUME NEW o \in Ops,
             InitLoaded(a, o) \/ CompactCancels(a, o) \/ RunInterrupt(a, o) \/ RunClose(a, o)
      PROVE  TaskFollowsHandler' /\ HandlesHaveTasks' /\ RootGuard'
  <2>1. Handled(o)
    BY <1>1, <1>5, HandlerSteps
  <2>2. TasksCalm /\ HandlesShrink /\ RootsKept
    BY <1>5, <2>1, HandlerCalm
  <2> QED BY <1>3, <2>1, <2>2
<1> QED BY <1>2, <1>4, <1>5 DEF Handler

LEMMA GuardEndInterrupt ==
  ASSUME GuardInv, NEW o \in Ops, EndInterrupt(o)
  PROVE  TaskFollowsHandler' /\ HandlesHaveTasks' /\ RootGuard'
<1>1. /\ task' = Cancelled({}, CurrentPending) /\ Finish(o, "completed", {})
      /\ UNCHANGED handles /\ TypeOK
  BY DEF EndInterrupt, GuardInv
<1>2. Handled(o)
  BY <1>1, EndInterruptHandled
<1>3. TasksCalm /\ HandlesShrink
  BY <1>1, CancelledCalm, SameHandlesShrink
<1>4. RootsKept
  <2>1. task[o] \notin LiveTask
    BY <1>2, BusyHasNoTask DEF Handled
  <2> QED BY <1>1, <1>3, <2>1, FinishKeeps
<1> QED BY <1>2, <1>3, <1>4, HandledCalm, CalmStep

LEMMA GuardWrapper ==
  ASSUME GuardInv, NEW o \in Ops, WrapperFinishes(o)
  PROVE  TaskFollowsHandler' /\ HandlesHaveTasks' /\ RootGuard'
<1>1. /\ stage[o] = "background" /\ task[o] \in DoneTask /\ Finish(o, "completed", {})
      /\ UNCHANGED <<handles, task, owner>> /\ TypeOK
  BY DEF WrapperFinishes, GuardInv
<1>2. stage'[o] = "finished" /\ \A p \in Ops \ {o} : stage'[p] = stage[p]
  BY <1>1, RetireEffect DEF Finish, OnlyMoves, Finishes
<1>3. TasksCalm /\ HandlesShrink
  BY <1>1, SameTasksCalm, SameHandlesShrink
<1>4. RootsKept
  <2>1. task[o] \notin LiveTask
    BY <1>1 DEF DoneTask, LiveTask
  <2> QED BY <1>1, <1>3, <2>1, FinishKeeps
<1>5. SettledStay /\ NoNewWork
  BY <1>1, <1>2 DEF SettledStay, NoNewWork, Settled, AtWork, Busy
<1> QED BY <1>3, <1>4, <1>5, CalmStep

LEMMA GuardSubmit ==
  ASSUME GuardInv, NEW o \in Ops, NEW a \in Actors, Submit(o, a) \/ SubmitPreemptive(o, a)
  PROVE  TaskFollowsHandler' /\ HandlesHaveTasks' /\ RootGuard'
<1>1. TypeOK /\ stage[o] = "new" /\ owner' = [owner EXCEPT ![o] = a]
  BY DEF GuardInv, Submit, SubmitPreemptive, Accept
<1>2. \A p \in Ops \ {o} : owner'[p] = owner[p]
  BY <1>1 DEF TypeOK
<1>3. task[o] = "none" /\ task[o] \notin LiveTask
  BY <1>1 DEF GuardInv, TaskFollowsHandler, Settled, LiveTask
<1>4. CASE Submit(o, a)
  <2>1. /\ stage' = [stage EXCEPT ![o] = IF IsControl(o) THEN "control" ELSE "normal"]
        /\ UNCHANGED <<task, handles, root>>
    BY <1>4 DEF Submit
  <2>2. stage'[o] \in Waiting /\ \A p \in Ops \ {o} : stage'[p] = stage[p]
    BY <1>1, <2>1 DEF TypeOK, Waiting
  <2>3. TasksCalm /\ HandlesShrink /\ RootsKept
    BY <2>1, SameTasksCalm, SameHandlesShrink, SameRootsKept
  <2>4. SettledStay /\ NoNewWork
    BY <1>1, <1>2, <1>3, <2>1, <2>2
       DEF SettledStay, NoNewWork, Settled, AtWork, Busy, Waiting
  <2> QED BY <2>3, <2>4, CalmStep
<1>5. CASE SubmitPreemptive(o, a)
  <2>1. (InterruptBody(o) \/ RespondBody(o)) /\ ~IsRoot(o)
    BY <1>5 DEF SubmitPreemptive, Preempts, IsRoot
  <2>2. \A p \in Ops \ {o} : stage'[p] = stage[p]
    BY <1>1, <2>1, BodyEffect DEF OnlyMoves
  <2>3. TasksCalm /\ HandlesShrink /\ RootsKept
    BY <1>3, <2>1, InterruptCalm, RespondCalm
  <2>4. SettledStay /\ NoNewWork
    BY <1>1, <1>2, <2>1, <2>2, <2>3 DEF SettledStay, NoNewWork, Settled, AtWork, TasksCalm
  <2> QED BY <2>3, <2>4, CalmStep
<1> QED BY <1>4, <1>5

\* Begin claims a free slot, or rejects, or leaves the slot alone.
LEMMA GuardBegin ==
  ASSUME GuardInv, NEW a \in Actors, NEW x, Begin(a, x), item[a] = NoOp,
         UNCHANGED <<owner, handles, task>>,
         x \in Ops => stage[x] \in Waiting /\ owner[x] = a
  PROVE  TaskFollowsHandler' /\ HandlesHaveTasks' /\ RootGuard'
<1>1. TypeOK /\ (x \in Ops => task[x] = "none" /\ task[x] \notin LiveTask)
  BY DEF GuardInv, TaskFollowsHandler, Settled, Waiting, LiveTask
<1>2. TasksCalm /\ HandlesShrink
  BY SameTasksCalm, SameHandlesShrink
<1>3. \A o \in Ops \ {x} : stage'[o] = stage[o]
  BY <1>1, BeginEffect
<1>4. SettledStay
  BY <1>3 DEF SettledStay, Settled, Waiting
<1>5. CASE x = Stop /\ UNCHANGED <<stage, root>>
  <2>1. NoNewWork /\ RootsKept
    BY <1>5, SameRootsKept DEF NoNewWork, AtWork
  <2> QED BY <1>2, <1>4, <2>1, CalmStep
<1>6. CASE x \in Ops /\ Finish(x, "rejected", {})
  <2>1. RootsKept
    BY <1>1, <1>2, <1>6, FinishKeeps
  <2>2. stage'[x] = "finished"
    BY <1>1, <1>6, RetireEffect DEF Finish, Finishes
  <2>3. NoNewWork
    BY <1>3, <2>2 DEF NoNewWork, AtWork, Busy
  <2> QED BY <1>2, <1>4, <2>1, <2>3, CalmStep
<1>7. CASE x \in Ops /\ ~IsRoot(x) /\ UNCHANGED root
  <2>1. NoNewWork /\ RootsKept
    BY <1>3, <1>7, SameRootsKept DEF NoNewWork, AtWork
  <2> QED BY <1>2, <1>4, <2>1, CalmStep
<1>8. CASE /\ x \in Ops /\ IsRoot(x) /\ root[a] = NoOp
           /\ root' = [root EXCEPT ![a] = x]
  <2>1. root \in [Actors -> Ops \cup {NoOp}]
    BY <1>1 DEF TypeOK
  <2>2. RootGuard'
    <3> SUFFICES ASSUME NEW o \in Ops, IsRoot(o), AtWork(o)'
                 PROVE  owner'[o] \in Actors /\ root'[owner'[o]] = o
      BY DEF RootGuard
    <3>1. CASE o = x
      BY <1>8, <2>1, <3>1
    <3>2. CASE o # x
      <4>1. AtWork(o)
        BY <1>3, <3>2 DEF AtWork
      <4>2. owner[o] \in Actors /\ root[owner[o]] = o
        BY <4>1 DEF GuardInv, RootGuard
      <4>3. owner[o] # a
        BY <1>8, <4>2, OpsAssumption
      <4> QED BY <1>8, <2>1, <4>2, <4>3
    <3> QED BY <3>1, <3>2
  <2>3. TaskFollowsHandler' /\ HandlesHaveTasks'
    <3>1. TaskFollowsHandler'
      BY <1>2, <1>4 DEF GuardInv, TaskFollowsHandler, TasksCalm, SettledStay
    <3>2. HandlesHaveTasks'
      BY DEF GuardInv, HandlesHaveTasks
    <3> QED BY <3>1, <3>2
  <2> QED BY <2>2, <2>3
<1> QED BY <1>5, <1>6, <1>7, <1>8 DEF Begin

LEMMA GuardWorker ==
  ASSUME GuardInv, NEW a \in Actors, Worker(a)
  PROVE  TaskFollowsHandler' /\ HandlesHaveTasks' /\ RootGuard'
<1>1. UNCHANGED <<owner, handles, task>> /\ TypeOK /\ OnePlace
  BY WorkerEffect DEF GuardInv
<1>2. CASE \E x \in Items : /\ Begin(a, x) /\ item[a] = NoOp
                            /\ x \in Ops => stage[x] \in Waiting /\ owner[x] = a
  BY <1>1, <1>2, GuardBegin
<1>3. CASE /\ UNCHANGED <<finished, root>>
           /\ \A o \in Ops : stage'[o] = stage[o]
                             \/ (stage[o] \in Waiting /\ stage'[o] = "held")
  <2>1. TasksCalm /\ HandlesShrink /\ RootsKept
    BY <1>1, <1>3, SameTasksCalm, SameHandlesShrink, SameRootsKept
  <2>2. SettledStay /\ NoNewWork
    BY <1>1, <1>3 DEF SettledStay, NoNewWork, Settled, AtWork, Busy, Waiting
  <2> QED BY <2>1, <2>2, CalmStep
<1> QED BY <1>1, <1>2, <1>3, WorkerEffect

\* The actor is joined: what it had queued is dropped, its handles are cleared.
LEMMA GuardJoin ==
  ASSUME GuardInv, NEW a \in Actors, JoinWorker(a)
  PROVE  TaskFollowsHandler' /\ HandlesHaveTasks' /\ RootGuard'
<1>1. /\ stage' = [o \in Ops |-> IF InQueue(o, a) THEN "dropped" ELSE stage[o]]
      /\ handles' = [handles EXCEPT ![a] = {}]
      /\ UNCHANGED <<owner, task, root>> /\ TypeOK /\ OnePlace
  BY DEF JoinWorker, GuardInv
<1>2. \A o \in Ops : InQueue(o, a) => stage[o] \in Waiting
  BY <1>1, QueuedHere
<1>3. TasksCalm /\ RootsKept
  BY <1>1, SameTasksCalm, SameRootsKept
<1>4. HandlesShrink
  BY <1>1 DEF HandlesShrink, TypeOK
<1>5. SettledStay /\ NoNewWork
  BY <1>1, <1>2 DEF SettledStay, NoNewWork, Settled, AtWork, Busy, Waiting
<1> QED BY <1>3, <1>4, <1>5, CalmStep

LEMMA SameStagesCalm ==
  ASSUME UNCHANGED <<stage, owner>>, TasksCalm
  PROVE  SettledStay /\ NoNewWork
BY DEF SettledStay, NoNewWork, AtWork, TasksCalm

\* The actions that only change a task, and the end of one.
LEMMA GuardTasks ==
  ASSUME GuardInv, NEW o \in Ops,
         \/ TaskStarts(o) \/ TaskDies(o) \/ TaskResumes(o) \/ TaskEnds(o)
         \/ \E a \in Actors : TaskAsks(o, a) \/ InteractionCancelled(o, a)
  PROVE  TaskFollowsHandler' /\ HandlesHaveTasks' /\ RootGuard'
<1>1. UNCHANGED <<stage, owner>> /\ task \in [Ops -> Tasks] /\ TypeOK
  BY DEF GuardInv, TypeOK, Tasks, TaskStarts, TaskDies, TaskResumes, TaskEnds, TaskAsks,
         InteractionCancelled
<1>2. CASE ~TaskEnds(o)
  <2>1. UNCHANGED <<handles, root>>
    BY <1>2 DEF TaskStarts, TaskDies, TaskResumes, TaskAsks, InteractionCancelled
  <2>2. TasksCalm
    BY <1>1, <1>2 DEF TasksCalm, LiveTask, TaskStarts, TaskDies, TaskResumes, TaskAsks,
                      InteractionCancelled
  <2> QED BY <1>1, <2>1, <2>2, SameStagesCalm, SameHandlesShrink, SameRootsKept, CalmStep
<1>3. CASE TaskEnds(o)
  <2>1. /\ task[o] # "none" /\ task' = [task EXCEPT ![o] = "ended"]
        /\ handles' = [a \in Actors |-> IF a = cur THEN handles[a] \ {o} ELSE handles[a]]
        /\ root' = [a \in Actors |-> IF a = cur /\ root[a] = o THEN NoOp ELSE root[a]]
    BY <1>3 DEF TaskEnds, RemoveTask
  <2>2. TasksCalm
    BY <1>1, <2>1 DEF TasksCalm, LiveTask
  <2>3. HandlesShrink
    BY <2>1 DEF HandlesShrink
  <2>4. ~AtWork(o)'
    <3>1. stage[o] \notin Busy
      BY <2>1 DEF GuardInv, TaskFollowsHandler, Settled, Busy
    <3> QED BY <1>1, <2>1, <3>1 DEF AtWork, LiveTask
  <2>5. RootsKept
    <3> SUFFICES ASSUME NEW p \in Ops, IsRoot(p), AtWork(p), AtWork(p)'
                 PROVE  root'[owner[p]] = root[owner[p]]
      BY DEF RootsKept
    <3>1. owner[p] \in Actors /\ root[owner[p]] = p /\ p # o
      BY <2>4 DEF GuardInv, RootGuard
    <3> QED BY <2>1, <3>1
  <2> QED BY <1>1, <2>2, <2>3, <2>5, SameStagesCalm, CalmStep
<1> QED BY <1>2, <1>3

LEMMA GuardShutdown ==
  ASSUME GuardInv, FacadeStops \/ RegistryStops \/ RegistryStopsActor
  PROVE  TaskFollowsHandler' /\ HandlesHaveTasks' /\ RootGuard'
<1>1. UNCHANGED <<stage, owner>> /\ TypeOK
  BY DEF GuardInv, FacadeStops, RegistryStops, RegistryStopsActor
<1>2. TasksCalm
  <2>1. UNCHANGED task \/ \E S, W : task' = Cancelled(S, W)
    BY DEF FacadeStops, RegistryStops, RegistryStopsActor, StopBody
  <2> QED BY <1>1, <2>1, SameTasksCalm, CancelledCalm
<1>3. HandlesShrink /\ RootsKept
  <2>1. UNCHANGED <<handles, root>> \/ DropDoneHandles({cur})
    BY DEF FacadeStops, RegistryStops, RegistryStopsActor, StopBody
  <2> QED BY <2>1, SameHandlesShrink, SameRootsKept, DropKeeps
<1> QED BY <1>1, <1>2, <1>3, SameStagesCalm, CalmStep

LEMMA GuardUntouched ==
  ASSUME GuardInv, UNCHANGED <<stage, owner, task, handles, root>>
  PROVE  TaskFollowsHandler' /\ HandlesHaveTasks' /\ RootGuard'
BY SameTasksCalm, SameStagesCalm, SameHandlesShrink, SameRootsKept, CalmStep

LEMMA GuardNextStep ==
  ASSUME GuardInv, [Next]_vars
  PROVE  TaskFollowsHandler' /\ HandlesHaveTasks' /\ RootGuard'
<1>1. CASE \E o \in Ops, a \in Actors : Submit(o, a) \/ SubmitPreemptive(o, a)
  BY <1>1, GuardSubmit
<1>2. CASE \E o \in Ops : EndInterrupt(o) \/ WrapperFinishes(o)
  BY <1>2, GuardEndInterrupt, GuardWrapper
<1>3. CASE \E a \in Actors : Worker(a) \/ Handler(a) \/ JoinWorker(a)
  BY <1>3, GuardWorker, GuardHandler, GuardJoin
<1>4. CASE \E a \in Actors : PostStop(a) \/ CloseIdle(a)
  <2>1. UNCHANGED <<stage, owner, task, handles, root>>
    BY <1>4 DEF PostStop, CloseIdle
  <2> QED BY <2>1, GuardUntouched
<1>5. CASE \E o \in Ops :
              \/ TaskStarts(o) \/ TaskDies(o) \/ TaskResumes(o) \/ TaskEnds(o)
              \/ \E a \in Actors : TaskAsks(o, a) \/ InteractionCancelled(o, a)
  BY <1>5, GuardTasks
<1>6. CASE \E a \in Actors : ObserveIdle(a) \/ TTLPasses(a)
  <2>1. UNCHANGED <<stage, owner, task, handles, root>>
    BY <1>6 DEF ObserveIdle, TTLPasses
  <2> QED BY <2>1, GuardUntouched
<1>7. CASE FacadeStops \/ RegistryStops \/ RegistryStopsActor
  BY <1>7, GuardShutdown
<1>8. CASE UNCHANGED vars
  BY <1>8, GuardUntouched
<1> QED BY <1>1, <1>2, <1>3, <1>4, <1>5, <1>6, <1>7, <1>8, NextCases DEF Quiet

\* The inductive invariant of the root slot.
THEOREM GuardCorrect == Spec => []GuardInv
<1>1. Init => TaskFollowsHandler /\ HandlesHaveTasks /\ RootGuard
  <2> SUFFICES ASSUME Init PROVE TaskFollowsHandler /\ HandlesHaveTasks /\ RootGuard
    OBVIOUS
  <2>1. /\ \A o \in Ops : stage[o] = "new" /\ task[o] = "none"
        /\ \A a \in Actors : handles[a] = {}
    BY DEF Init
  <2> QED BY <2>1 DEF TaskFollowsHandler, HandlesHaveTasks, RootGuard, AtWork, Busy, LiveTask
<1>2. GuardInv /\ [Next]_vars => (TaskFollowsHandler /\ HandlesHaveTasks /\ RootGuard)'
  BY GuardNextStep
<1>3. GuardInv <=>
        TypeOK /\ OnePlace /\ (TaskFollowsHandler /\ HandlesHaveTasks /\ RootGuard)
  BY DEF GuardInv
<1> QED BY <1>1, <1>2, <1>3, TypeCorrect, AcceptedOnce, PTL DEF Spec

\* While a root operation is handled or its task lives, the root slot of its
\* actor is its own, whatever ends, is interrupted or closed meanwhile.
THEOREM SlotGuarded == Spec => []SlotGuardsWork
<1>1. GuardInv => SlotGuardsWork
  BY DEF GuardInv, RootGuard, SlotGuardsWork, AtWork, Busy
<1> QED BY <1>1, GuardCorrect, PTL

\* Of the root operations submitted to one actor at most one has a live task.
THEOREM RootExclusive == Spec => []OneRootTask
<1>1. GuardInv => OneRootTask
  BY DEF GuardInv, RootGuard, OneRootTask, AtWork
<1> QED BY <1>1, GuardCorrect, PTL

-----------------------------------------------------------------------------
(* InterruptHitsItsTurn *)

\* A root slot names an operation submitted to its own actor.
RootOwned ==
  \A a \in Actors : root[a] # NoOp => root[a] \in Ops /\ owner[root[a]] = a
                                      /\ stage[root[a]] # "new"

\* What the interrupts wait for; both operations were submitted before, so
\* their owners are settled.
HitOK(i) ==
  \A o \in awaiting[i] :
    /\ stage[o] # "new" /\ stage[Expected[i]] # "new"
    /\ IsRoot(o) /\ owner[o] = owner[Expected[i]] => o = Expected[i]

Named == {i \in Ops : Kind[i] = "interrupt" /\ Expected[i] # NoOp}

HitInv == RootOwned /\ \A i \in Named : HitOK(i)

\* An operation that was submitted stays so, and keeps its owner.
SubmittedStay ==
  \A o \in Ops : stage[o] # "new" => stage'[o] # "new" /\ owner'[o] = owner[o]

RootsOnlyCleared == \A a \in Actors : root'[a] \in {root[a], NoOp}

AwaitingStays == \A i \in Named : awaiting'[i] = awaiting[i]

LEMMA NamedKnown ==
  ASSUME NEW i \in Named
  PROVE  i \in Ops /\ Expected[i] \in Ops
BY OpsAssumption DEF Named

LEMMA HitStays ==
  ASSUME TypeOK, NEW i \in Named, HitOK(i), SubmittedStay, awaiting'[i] = awaiting[i]
  PROVE  HitOK(i)'
<1>1. awaiting[i] \subseteq Ops /\ Expected[i] \in Ops
  BY NamedKnown DEF TypeOK
<1> SUFFICES ASSUME NEW o \in awaiting[i]
             PROVE  /\ stage'[o] # "new" /\ stage'[Expected[i]] # "new"
                    /\ IsRoot(o) /\ owner'[o] = owner'[Expected[i]] => o = Expected[i]
  BY DEF HitOK
<1>2. stage[o] # "new" /\ stage[Expected[i]] # "new" /\ o \in Ops
  BY <1>1 DEF HitOK
<1>3. owner'[o] = owner[o] /\ owner'[Expected[i]] = owner[Expected[i]]
  BY <1>1, <1>2 DEF SubmittedStay
<1> QED BY <1>1, <1>2, <1>3 DEF HitOK, SubmittedStay

LEMMA OwnedStays ==
  ASSUME RootOwned, SubmittedStay, RootsOnlyCleared
  PROVE  RootOwned'
<1> SUFFICES ASSUME NEW a \in Actors, root'[a] # NoOp
             PROVE  root'[a] \in Ops /\ owner'[root'[a]] = a /\ stage'[root'[a]] # "new"
  BY DEF RootOwned
<1>1. root'[a] = root[a]
  BY DEF RootsOnlyCleared
<1>2. root[a] \in Ops /\ owner[root[a]] = a /\ stage[root[a]] # "new"
  BY <1>1 DEF RootOwned
<1> QED BY <1>1, <1>2 DEF SubmittedStay

\* Most steps wait for nothing new and claim no slot.
LEMMA HitCalm ==
  ASSUME TypeOK, HitInv, SubmittedStay, RootsOnlyCleared, AwaitingStays
  PROVE  HitInv'
<1>1. RootOwned'
  BY OwnedStays DEF HitInv
<1>2. \A i \in Named : HitOK(i)'
  BY HitStays DEF HitInv, AwaitingStays
<1> QED BY <1>1, <1>2 DEF HitInv

\* The interrupt o takes its victims: its own turn holds the slot.
LEMMA HitInterrupts ==
  ASSUME GuardInv, HitInv, NEW o \in Ops, InterruptBody(o), SubmittedStay
  PROVE  HitInv'
<1>1. TypeOK
  BY DEF GuardInv
<1>2. RootsOnlyCleared
  <2>1. \E S : root' = [a \in Actors |-> IF a \in S /\ root[a] \in handles[a] \ ActiveTasks(a)
                                        THEN NoOp ELSE root[a]]
    BY DEF InterruptBody, DropDoneHandles
  <2> QED BY <2>1 DEF RootsOnlyCleared
<1>3. RootOwned'
  BY <1>2, OwnedStays DEF HitInv
<1>4. awaiting' = [awaiting EXCEPT ![o] = IF IsStale(o) THEN {} ELSE CurrentTasks]
  BY DEF InterruptBody
<1>5. ASSUME NEW i \in Named, i # o
      PROVE  HitOK(i)'
  <2>1. awaiting'[i] = awaiting[i] /\ HitOK(i)
    BY <1>1, <1>4, <1>5 DEF TypeOK, HitInv
  <2> QED BY <1>1, <2>1, HitStays
<1>6. ASSUME o \in Named
      PROVE  HitOK(o)'
  <2> SUFFICES ASSUME NEW p \in awaiting'[o]
               PROVE  /\ stage'[p] # "new" /\ stage'[Expected[o]] # "new"
                      /\ IsRoot(p) /\ owner'[p] = owner'[Expected[o]] => p = Expected[o]
    BY DEF HitOK
  <2>1. ~IsStale(o) /\ p \in CurrentTasks
    BY <1>1, <1>4 DEF TypeOK
  <2>2. cur \in Actors /\ root[cur] = Expected[o] /\ Expected[o] \in Ops
    BY <1>1, <1>6, <2>1, NamedKnown, ActorsAreNumbers DEF IsStale, TypeOK, Named
  <2>3. p \in Ops /\ p \in handles[cur] /\ task[p] \in LiveTask
    BY <1>1, <2>1, <2>2, ActorsAreNumbers DEF CurrentTasks, ActiveTasks, TypeOK
  <2>4. owner[Expected[o]] = cur /\ stage[Expected[o]] # "new"
    BY <2>2, OpsAssumption DEF HitInv, RootOwned
  <2>5. stage[p] # "new"
    BY <2>3 DEF GuardInv, TaskFollowsHandler, Settled, LiveTask
  <2>6. /\ stage'[p] # "new" /\ stage'[Expected[o]] # "new"
        /\ owner'[p] = owner[p] /\ owner'[Expected[o]] = cur
    BY <2>2, <2>3, <2>4, <2>5 DEF SubmittedStay
  <2>7. IsRoot(p) => root[owner[p]] = p
    BY <2>3 DEF GuardInv, RootGuard, AtWork
  <2> QED BY <2>2, <2>6, <2>7
<1> QED BY <1>3, <1>5, <1>6 DEF HitInv

LEMMA HandledSubmitted ==
  ASSUME NEW o \in Ops, Handled(o)
  PROVE  SubmittedStay
BY DEF Handled, OnlyMoves, Finishes, GoesOn, Busy, SubmittedStay

LEMMA ClearOnlyClears ==
  ASSUME NEW o, NEW S, ClearRoot(o, S)
  PROVE  RootsOnlyCleared
BY DEF ClearRoot, RootsOnlyCleared

LEMMA DropOnlyClears ==
  ASSUME NEW S, DropDoneHandles(S)
  PROVE  RootsOnlyCleared
BY DEF DropDoneHandles, RootsOnlyCleared

LEMMA SameOnlyClears ==
  ASSUME UNCHANGED root
  PROVE  RootsOnlyCleared
BY DEF RootsOnlyCleared

LEMMA HitHandler ==
  ASSUME GuardInv, HitInv, NEW a \in Actors, Handler(a)
  PROVE  HitInv'
<1>1. TypeOK /\ OnePlace
  BY DEF GuardInv
<1>2. ASSUME NEW o \in Ops, \/ FailItem(a, o) \/ RunPlain(a, o) \/ InitDone(a, o)
                            \/ RunRespond(a, o) \/ RunCloseRefused(a, o)
                            \/ CloseAwaitsItself(a, o) \/ CloseDone(a, o)
      PROVE  HitInv'
  <2>1. SubmittedStay
    BY <1>1, <1>2, HandlerReturns, HandledSubmitted
  <2>2. UNCHANGED awaiting /\ \E S : ClearRoot(o, S)
    BY <1>2 DEF FailItem, RunPlain, InitDone, RunRespond, RespondBody, RunCloseRefused,
                CloseAwaitsItself, CloseDone, Finish
  <2> QED BY <1>1, <2>1, <2>2, ClearOnlyClears, HitCalm DEF AwaitingStays
<1>3. ASSUME NEW o \in Ops, InitLoaded(a, o) \/ RegisterTask(a, o)
      PROVE  HitInv'
  <2>1. SubmittedStay
    BY <1>1, <1>3, HandlerSteps, HandledSubmitted
  <2>2. UNCHANGED awaiting /\ (UNCHANGED root \/ ClearRoot(o, {}))
    BY <1>3 DEF InitLoaded, RegisterTask, Finish
  <2> QED BY <1>1, <2>1, <2>2, ClearOnlyClears, SameOnlyClears, HitCalm DEF AwaitingStays
<1>4. ASSUME NEW o \in Ops, CompactCancels(a, o) \/ RunClose(a, o)
      PROVE  HitInv'
  <2>1. SubmittedStay
    BY <1>1, <1>4, HandlerSteps, HandledSubmitted
  <2>2. \E S : DropDoneHandles(S)
    BY <1>4 DEF CompactCancels, RunClose, StopBody
  <2>3. AwaitingStays
    <3>1. CASE RunClose(a, o)
      BY <3>1 DEF RunClose, AwaitingStays
    <3>2. CASE CompactCancels(a, o)
      <4>1. awaiting' = [awaiting EXCEPT ![o] = CurrentTasks] /\ o \notin Named
        BY <3>2 DEF CompactCancels, RunsOn, Named
      <4> QED BY <1>1, <4>1 DEF AwaitingStays, TypeOK, Named
    <3> QED BY <1>4, <3>1, <3>2
  <2> QED BY <1>1, <2>1, <2>2, <2>3, DropOnlyClears, HitCalm
<1>5. ASSUME NEW o \in Ops, RunInterrupt(a, o)
      PROVE  HitInv'
  <2>1. SubmittedStay
    BY <1>1, <1>5, HandlerSteps, HandledSubmitted
  <2> QED BY <1>5, <2>1, HitInterrupts DEF RunInterrupt
<1> QED BY <1>2, <1>3, <1>4, <1>5 DEF Handler

LEMMA HitWorker ==
  ASSUME GuardInv, HitInv, NEW a \in Actors, Worker(a)
  PROVE  HitInv'
<1>1. TypeOK /\ OnePlace /\ UNCHANGED <<owner, awaiting>>
  BY DEF GuardInv, Worker, TakeNormal, TakeControl, ArmGetters, GetterTakesControl,
         GetterTakesNormal, ResumeWithOne, ResumeWithBoth, TakeFrame
<1>2. AwaitingStays
  BY <1>1 DEF AwaitingStays
<1>3. ASSUME NEW x \in Items, Begin(a, x), item[a] = NoOp,
             x \in Ops => stage[x] \in Waiting /\ owner[x] = a
      PROVE  HitInv'
  <2>1. /\ \A o \in Ops \ {x} : stage'[o] = stage[o]
        /\ x \in Ops => stage'[x] \in {"finished", "handling"}
    BY <1>1, <1>3, BeginEffect
  <2>2. SubmittedStay
    BY <1>1, <2>1 DEF SubmittedStay
  <2>3. CASE UNCHANGED root \/ ClearRoot(x, {})
    BY <1>1, <1>2, <2>2, <2>3, SameOnlyClears, ClearOnlyClears, HitCalm
  <2>4. CASE x \in Ops /\ root' = [root EXCEPT ![a] = x]
    <3>1. RootOwned'
      <4> SUFFICES ASSUME NEW b \in Actors, root'[b] # NoOp
                   PROVE  root'[b] \in Ops /\ owner'[root'[b]] = b /\ stage'[root'[b]] # "new"
        BY DEF RootOwned
      <4>1. CASE b = a
        <5>1. root'[b] = x
          BY <1>1, <2>4, <4>1 DEF TypeOK
        <5> QED BY <1>1, <1>3, <2>1, <2>4, <4>1, <5>1
      <4>2. CASE b # a
        <5>1. root'[b] = root[b]
          BY <1>1, <2>4, <4>2 DEF TypeOK
        <5> QED BY <2>2, <5>1 DEF HitInv, RootOwned, SubmittedStay
      <4> QED BY <4>1, <4>2
    <3>2. \A i \in Named : HitOK(i)'
      BY <1>1, <1>2, <2>2, HitStays DEF HitInv, AwaitingStays
    <3> QED BY <3>1, <3>2 DEF HitInv
  <2> QED BY <1>3, <2>3, <2>4 DEF Begin, Finish
<1>4. CASE /\ UNCHANGED <<finished, root>>
           /\ \A o \in Ops : stage'[o] = stage[o]
                             \/ (stage[o] \in Waiting /\ stage'[o] = "held")
  <2>1. SubmittedStay
    BY <1>1, <1>4 DEF SubmittedStay
  <2> QED BY <1>1, <1>2, <1>4, <2>1, SameOnlyClears, HitCalm
<1> QED BY <1>1, <1>3, <1>4, WorkerEffect

LEMMA HitSubmit ==
  ASSUME GuardInv, HitInv, NEW o \in Ops, NEW a \in Actors,
         Submit(o, a) \/ SubmitPreemptive(o, a)
  PROVE  HitInv'
<1>1. TypeOK /\ stage[o] = "new" /\ owner' = [owner EXCEPT ![o] = a]
  BY DEF GuardInv, Submit, SubmitPreemptive, Accept
<1>2. CASE Submit(o, a)
  <2>1. /\ stage' = [stage EXCEPT ![o] = IF IsControl(o) THEN "control" ELSE "normal"]
        /\ UNCHANGED <<root, awaiting>>
    BY <1>2 DEF Submit
  <2>2. SubmittedStay
    BY <1>1, <2>1 DEF TypeOK, SubmittedStay
  <2> QED BY <1>1, <2>1, <2>2, SameOnlyClears, HitCalm DEF AwaitingStays
<1>3. CASE SubmitPreemptive(o, a)
  <2>1. InterruptBody(o) \/ RespondBody(o)
    BY <1>3 DEF SubmitPreemptive
  <2>2. SubmittedStay
    <3>1. \A p \in Ops \ {o} : stage'[p] = stage[p]
      BY <1>1, <2>1, BodyEffect DEF OnlyMoves
    <3> QED BY <1>1, <3>1 DEF TypeOK, SubmittedStay
  <2>3. CASE InterruptBody(o)
    BY <2>2, <2>3, HitInterrupts
  <2>4. CASE RespondBody(o)
    <3>1. UNCHANGED awaiting /\ ClearRoot(o, {})
      BY <2>4 DEF RespondBody, Finish
    <3> QED BY <1>1, <2>2, <3>1, ClearOnlyClears, HitCalm DEF AwaitingStays
  <2> QED BY <2>1, <2>3, <2>4
<1> QED BY <1>2, <1>3

LEMMA HitNextStep ==
  ASSUME GuardInv, HitInv, [Next]_vars
  PROVE  HitInv'
<1>1. TypeOK /\ OnePlace
  BY DEF GuardInv
<1>2. CASE \E o \in Ops, a \in Actors : Submit(o, a) \/ SubmitPreemptive(o, a)
  BY <1>2, HitSubmit
<1>3. CASE \E o \in Ops : EndInterrupt(o)
  <2>1. PICK o \in Ops : EndInterrupt(o)
    BY <1>3
  <2>2. UNCHANGED awaiting /\ ClearRoot(o, {})
    BY <2>1 DEF EndInterrupt, Finish
  <2>3. SubmittedStay
    BY <1>1, <2>1, EndInterruptHandled, HandledSubmitted
  <2> QED BY <1>1, <2>2, <2>3, ClearOnlyClears, HitCalm DEF AwaitingStays
<1>4. CASE \E o \in Ops : WrapperFinishes(o)
  <2>1. PICK o \in Ops : WrapperFinishes(o)
    BY <1>4
  <2>2. UNCHANGED <<awaiting, owner>> /\ ClearRoot(o, {}) /\ Retire(o, "completed")
    BY <2>1 DEF WrapperFinishes, Finish
  <2>3. SubmittedStay
    BY <1>1, <2>2, RetireEffect DEF OnlyMoves, Finishes, SubmittedStay
  <2> QED BY <1>1, <2>2, <2>3, ClearOnlyClears, HitCalm DEF AwaitingStays
<1>5. CASE \E a \in Actors : Worker(a) \/ Handler(a)
  BY <1>5, HitWorker, HitHandler
<1>6. CASE \E a \in Actors : JoinWorker(a)
  <2>1. PICK a \in Actors : JoinWorker(a)
    BY <1>6
  <2>2. /\ UNCHANGED <<root, awaiting, owner>>
        /\ stage' = [o \in Ops |-> IF InQueue(o, a) THEN "dropped" ELSE stage[o]]
    BY <2>1 DEF JoinWorker
  <2>3. SubmittedStay
    BY <2>2 DEF SubmittedStay
  <2> QED BY <1>1, <2>2, <2>3, SameOnlyClears, HitCalm DEF AwaitingStays
<1>7. CASE Quiet \/ UNCHANGED vars \/ \E a \in Actors : PostStop(a) \/ CloseIdle(a)
  <2>1. UNCHANGED <<stage, owner, awaiting>>
    BY <1>7 DEF Quiet, TaskStarts, TaskDies, TaskResumes, TaskEnds, TaskAsks,
       InteractionCancelled, ObserveIdle, TTLPasses, FacadeStops, RegistryStops,
       RegistryStopsActor, PostStop, CloseIdle
  <2>2. ASSUME \E o \in Ops : TaskEnds(o)
        PROVE  RootsOnlyCleared
    BY <2>2 DEF TaskEnds, RemoveTask, RootsOnlyCleared
  <2>3. ASSUME RegistryStopsActor
        PROVE  RootsOnlyCleared
    <3>1. UNCHANGED root \/ DropDoneHandles({cur})
      BY <2>3 DEF RegistryStopsActor, StopBody
    <3> QED BY <3>1, SameOnlyClears, DropOnlyClears
  <2>4. ASSUME ~((\E o \in Ops : TaskEnds(o)) \/ RegistryStopsActor)
        PROVE  RootsOnlyCleared
    <3>1. UNCHANGED root
      BY <1>7, <2>4 DEF Quiet, TaskStarts, TaskDies, TaskResumes, TaskAsks,
         InteractionCancelled, ObserveIdle, TTLPasses, FacadeStops, RegistryStops,
         PostStop, CloseIdle
    <3> QED BY <3>1, SameOnlyClears
  <2>5. RootsOnlyCleared
    BY <2>2, <2>3, <2>4
  <2>6. SubmittedStay /\ AwaitingStays
    BY <2>1 DEF SubmittedStay, AwaitingStays
  <2> QED BY <1>1, <2>5, <2>6, HitCalm
<1> QED BY <1>2, <1>3, <1>4, <1>5, <1>6, <1>7, NextCases

\* The inductive invariant of the interrupts.
LEMMA HitCorrect == Spec => []HitInv
<1>1. Init => HitInv
  <2> SUFFICES ASSUME Init PROVE HitInv
    OBVIOUS
  <2>1. (\A a \in Actors : root[a] = NoOp) /\ \A i \in Ops : awaiting[i] = {}
    BY DEF Init
  <2> QED BY <2>1 DEF HitInv, RootOwned, HitOK, Named
<1>2. GuardInv /\ HitInv /\ [Next]_vars => HitInv'
  BY HitNextStep
<1> QED BY <1>1, <1>2, GuardCorrect, PTL DEF Spec

\* An interrupt that names its turn cancels no other turn of that turn's actor.
THEOREM InterruptExact == Spec => []InterruptHitsItsTurn
<1>1. HitInv => InterruptHitsItsTurn
  BY DEF HitInv, HitOK, Named, InterruptHitsItsTurn
<1> QED BY <1>1, HitCorrect, PTL
=============================================================================
